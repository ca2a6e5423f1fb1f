--------------------------- MODULE Worker_proofs ----------------------------
(* Machine-checked proofs about Worker.                                    *)
EXTENDS Worker, TLAPS

LEMMA TruncateSubset == \A S : Truncate(S) \subseteq S
BY DEF Truncate

-----------------------------------------------------------------------------
(* Type correctness: one lemma per shape of step, then the theorem.        *)

LEMMA FirstConsumer == 1 \in Consumer
BY ConsumerAssumption DEF Consumer

LEMMA Ranges == 0 \in 0 .. MaxEvents /\ 1 \in 1 .. MaxEvents + 1
BY BoundsAssumption

LEMMA TypeInit == Init => TypeOK
BY Ranges, FirstConsumer DEF Init, TypeOK, Phase

LEMMA TypeLeave ==
  ASSUME TypeOK, NEW r \in Runner, NEW p \in Phase, Leave(r, p), CountInterrupt(r),
         UNCHANGED <<rows, requests, delivered, skipped, attempts, applied>>
  PROVE  TypeOK'
<1>1. interrupted' \in [Consumer -> Nat]
  <2>1. at[r] \in Consumer /\ interrupted \in [Consumer -> Nat]
    BY DEF TypeOK
  <2> QED
    BY <2>1 DEF CountInterrupt
<1>2. /\ pc' \in [Runner -> Phase]
      /\ lock' \in Runner \cup {NoOne}
      /\ todo' \in [Runner -> SUBSET (1 .. MaxEvents)]
  BY DEF TypeOK, Leave
<1>3. at' \in [Runner -> Consumer]
  BY FirstConsumer DEF TypeOK, Leave
<1>4. /\ first' \in [Runner -> 1 .. MaxEvents + 1]
      /\ last' \in [Runner -> 0 .. MaxEvents]
      /\ seen' \in [Runner -> 0 .. MaxEvents]
  BY Ranges DEF TypeOK, Leave
<1> QED
  BY <1>1, <1>2, <1>3, <1>4 DEF TypeOK, rows

LEMMA TypeAbort == ASSUME TypeOK, NEW r \in Runner, Abort(r) PROVE TypeOK'
BY TypeLeave DEF Abort, Return, Phase

\* Going on with the next consumer keeps the types of the variables it writes.
LEMMA TypeOnward ==
  ASSUME TypeOK, NEW r \in Runner, Onward(r)
  PROVE  /\ pc' \in [Runner -> Phase]
         /\ at' \in [Runner -> Consumer]
         /\ first' \in [Runner -> 1 .. MaxEvents + 1]
         /\ last' \in [Runner -> 0 .. MaxEvents]
         /\ UNCHANGED <<lock, todo, seen, requests>>
<1>1. at' \in [Runner -> Consumer]
  <2> at[r] \in Consumer
    BY DEF TypeOK
  <2>1. at[r] < NumConsumers => at[r] + 1 \in Consumer
    BY ConsumerAssumption DEF Consumer
  <2> QED
    BY <2>1 DEF TypeOK, Onward
<1>2. pc' \in [Runner -> Phase]
  BY DEF TypeOK, Onward, Phase
<1>3. first' \in [Runner -> 1 .. MaxEvents + 1] /\ last' \in [Runner -> 0 .. MaxEvents]
  BY Ranges DEF TypeOK, Onward
<1> QED
  BY <1>1, <1>2, <1>3 DEF Onward

LEMMA BatchBounds ==
  ASSUME TypeOK, NEW c \in Consumer
  PROVE  /\ BatchFirst(c) \in 1 .. MaxEvents + 1
         /\ BatchLast(c) \in 0 .. MaxEvents
         /\ BatchLast(c) <= lastEvent
         /\ BatchLast(c) <= cursor[c] + BatchSize
<1>1. cursor[c] \in 0 .. MaxEvents /\ lastEvent \in 0 .. MaxEvents
  BY DEF TypeOK
<1> QED
  BY <1>1, BoundsAssumption, SettingsAssumption DEF BatchFirst, BatchLast

LEMMA TypeFetch == ASSUME TypeOK, NEW r \in Runner, Fetch(r) PROVE TypeOK'
<1>1. at[r] \in Consumer
  BY DEF TypeOK
<1>2. /\ pc' \in [Runner -> Phase]
      /\ first' \in [Runner -> 1 .. MaxEvents + 1]
      /\ last' \in [Runner -> 0 .. MaxEvents]
  BY <1>1, BatchBounds DEF TypeOK, Fetch, Phase
<1> QED
  BY <1>2 DEF TypeOK, Fetch, rows, history

LEMMA BatchInLog ==
  ASSUME TypeOK, NEW r \in Runner PROVE Batch(r) \subseteq 1 .. MaxEvents
<1>1. first[r] \in 1 .. MaxEvents + 1 /\ last[r] \in 0 .. MaxEvents
  BY DEF TypeOK
<1> QED
  BY <1>1, BoundsAssumption DEF Batch

LEMMA TypeAgentAnswers == ASSUME TypeOK, NEW r \in Runner, AgentAnswers(r) PROVE TypeOK'
<1>1. Batch(r) \subseteq 1 .. MaxEvents
  BY BatchInLog
<1>2. todo' \in [Runner -> SUBSET (1 .. MaxEvents)]
  BY <1>1, TruncateSubset DEF TypeOK, AgentAnswers
<1>3. pc' \in [Runner -> Phase]
  BY DEF TypeOK, AgentAnswers, Phase
<1> QED
  BY <1>2, <1>3 DEF TypeOK, AgentAnswers, rows, history

LEMMA TypeAgentFails == ASSUME TypeOK, NEW r \in Runner, AgentFails(r) PROVE TypeOK'
<1>1. /\ at[r] \in Consumer
      /\ failures \in [Consumer -> Nat]
      /\ attempts \in [Consumer -> [1 .. MaxEvents -> Nat]]
  BY DEF TypeOK
<1>2. failures' \in [Consumer -> Nat]
  <2>1. failures' = [failures EXCEPT ![at[r]] = failures[at[r]] + 1]
    BY DEF AgentFails, NextFailures
  <2> QED
    BY <1>1, <2>1
<1>3. attempts' \in [Consumer -> [1 .. MaxEvents -> Nat]]
  <2> DEFINE row == [e \in 1 .. MaxEvents |->
                       IF e \in Batch(r) THEN attempts[at[r]][e] + 1 ELSE attempts[at[r]][e]]
  <2>1. attempts' = [attempts EXCEPT ![at[r]] = row]
    BY DEF AgentFails
  <2>2. row \in [1 .. MaxEvents -> Nat]
    <3>1. \A e \in 1 .. MaxEvents : attempts[at[r]][e] \in Nat
      BY <1>1
    <3> QED
      BY <3>1
  <2> HIDE DEF row
  <2> QED
    BY <1>1, <2>1, <2>2
<1>4. CASE GiveUp(NextFailures(at[r]))
  BY <1>2, <1>3, <1>4 DEF TypeOK, AgentFails, locals, Phase
<1>5. CASE Onward(r)
  BY <1>2, <1>3, <1>5, TypeOnward DEF TypeOK, AgentFails
<1> QED
  BY <1>4, <1>5 DEF AgentFails

LEMMA CounterUp ==
  ASSUME NEW S, NEW f \in [S -> Nat], NEW x \in S
  PROVE  [f EXCEPT ![x] = @ + 1] \in [S -> Nat]
OBVIOUS

LEMMA TypeCommitOne == ASSUME TypeOK, NEW r \in Runner, CommitOne(r) PROVE TypeOK'
<1>1. PICK e \in todo[r] : /\ todo' = [todo EXCEPT ![r] = @ \ {e}]
                           /\ pc' = [pc EXCEPT ![r] = IF todo[r] = {e} THEN "advance" ELSE "commit"]
                           /\ applied' = [applied EXCEPT ![at[r]][e] = @ + 1]
  BY DEF CommitOne
<1>2. /\ at[r] \in Consumer /\ e \in 1 .. MaxEvents
      /\ applied \in [Consumer -> [1 .. MaxEvents -> Nat]]
  BY <1>1 DEF TypeOK
<1>3. applied' \in [Consumer -> [1 .. MaxEvents -> Nat]]
  <2> DEFINE row == [applied[at[r]] EXCEPT ![e] = @ + 1]
  <2>1. applied' = [applied EXCEPT ![at[r]] = row]
    BY <1>1
  <2>2. row \in [1 .. MaxEvents -> Nat]
    <3>1. applied[at[r]] \in [1 .. MaxEvents -> Nat]
      BY <1>2
    <3> QED
      BY <1>2, <3>1, CounterUp
  <2> HIDE DEF row
  <2> QED
    BY <1>2, <2>1, <2>2
<1>4. todo' \in [Runner -> SUBSET (1 .. MaxEvents)]
  BY <1>1 DEF TypeOK
<1>5. pc' \in [Runner -> Phase]
  BY <1>1 DEF TypeOK, Phase
<1>6. UNCHANGED <<rows, lock, at, first, last, seen, requests,
                  delivered, skipped, attempts, interrupted>>
  BY DEF CommitOne
<1> QED
  BY <1>3, <1>4, <1>5, <1>6 DEF TypeOK, rows

LEMMA TypeSetCursor ==
  ASSUME TypeOK, NEW r \in Runner, SetCursor(r), Onward(r),
         delivered' \in [Consumer -> SUBSET (1 .. MaxEvents)],
         skipped' \in [Consumer -> SUBSET (1 .. MaxEvents)],
         UNCHANGED <<attempts, applied, interrupted>>
  PROVE  TypeOK'
<1>1. cursor' \in [Consumer -> 0 .. MaxEvents] /\ failures' \in [Consumer -> Nat]
  BY DEF TypeOK, SetCursor, CursorAfter, FailuresAfter
<1> QED
  BY <1>1, TypeOnward DEF TypeOK, SetCursor

LEMMA TypeAdvance ==
  ASSUME TypeOK, NEW r \in Runner, Advance(r) \/ Skip(r) PROVE TypeOK'
<1>1. /\ Batch(r) \subseteq 1 .. MaxEvents /\ at[r] \in Consumer
      /\ delivered \in [Consumer -> SUBSET (1 .. MaxEvents)]
      /\ skipped \in [Consumer -> SUBSET (1 .. MaxEvents)]
  BY BatchInLog DEF TypeOK
<1>2. /\ delivered' \in [Consumer -> SUBSET (1 .. MaxEvents)]
      /\ skipped' \in [Consumer -> SUBSET (1 .. MaxEvents)]
  BY <1>1 DEF Advance, Skip
<1> QED
  BY <1>2, TypeSetCursor DEF Advance, Skip

LEMMA TypeReturn ==
  ASSUME TypeOK, NEW r \in Runner, Return(r)
  PROVE  /\ lock' \in Runner \cup {NoOne}
         /\ pc' \in [Runner -> Phase]
         /\ at' \in [Runner -> Consumer]
         /\ first' \in [Runner -> 1 .. MaxEvents + 1]
         /\ last' \in [Runner -> 0 .. MaxEvents]
         /\ todo' \in [Runner -> SUBSET (1 .. MaxEvents)]
         /\ seen' \in [Runner -> 0 .. MaxEvents]
<1>1. lock' \in Runner \cup {NoOne} /\ pc' \in [Runner -> Phase]
  BY DEF TypeOK, Return, Leave, Phase
<1>2. /\ at' \in [Runner -> Consumer]
      /\ todo' \in [Runner -> SUBSET (1 .. MaxEvents)]
  BY FirstConsumer DEF TypeOK, Return, Leave
<1>3. /\ first' \in [Runner -> 1 .. MaxEvents + 1]
      /\ last' \in [Runner -> 0 .. MaxEvents]
      /\ seen' \in [Runner -> 0 .. MaxEvents]
  BY Ranges DEF TypeOK, Return, Leave
<1> QED
  BY <1>1, <1>2, <1>3

LEMMA TypeTrigger == ASSUME TypeOK, NEW r \in Runner, Trigger(r) PROVE TypeOK'
<1>1. CASE Return(r)
  BY <1>1, TypeReturn DEF TypeOK, Trigger, rows, history
<1>2. CASE ~Return(r)
  BY <1>2 DEF TypeOK, Trigger, rows, history, Phase
<1> QED
  BY <1>1, <1>2

LEMMA TypeCrash == ASSUME TypeOK, Crash PROVE TypeOK'
<1>1. interrupted' \in [Consumer -> Nat]
  <2>1. lock \in Runner => at[lock] \in Consumer
    BY DEF TypeOK
  <2> QED
    BY <2>1 DEF TypeOK, Crash, CountInterrupt
<1>2. /\ pc' \in [Runner -> Phase]
      /\ at' \in [Runner -> Consumer]
      /\ todo' \in [Runner -> SUBSET (1 .. MaxEvents)]
  BY FirstConsumer DEF Crash, Phase
<1>3. /\ first' \in [Runner -> 1 .. MaxEvents + 1]
      /\ last' \in [Runner -> 0 .. MaxEvents]
      /\ seen' \in [Runner -> 0 .. MaxEvents]
  BY Ranges DEF Crash
<1> QED
  BY <1>1, <1>2, <1>3 DEF TypeOK, Crash, rows

LEMMA TypeStep == TypeOK /\ [Next]_vars => TypeOK'
<1> SUFFICES ASSUME TypeOK, [Next]_vars PROVE TypeOK'
  OBVIOUS
<1>1. CASE Publish
  <2>1. lastEvent' \in 0 .. MaxEvents
    BY <1>1, BoundsAssumption DEF TypeOK, Publish
  <2> QED
    BY <1>1, <2>1 DEF TypeOK, Publish, cycles, locals, history
<1>2. CASE Tick
  BY <1>2 DEF TypeOK, Tick, cycles, locals, history
<1>3. CASE Crash
  BY <1>3, TypeCrash
<1>4. ASSUME NEW r \in Runner, Begin(r) PROVE TypeOK'
  <2>1. lock' \in Runner \cup {NoOne} /\ pc' \in [Runner -> Phase]
    BY <1>4 DEF TypeOK, Begin, TakeLock, Phase
  <2>2. requests' \in Nat
    BY <1>4 DEF TypeOK, Begin
  <2> QED
    BY <1>4, <2>1, <2>2 DEF TypeOK, Begin, rows, locals, history
<1>5. ASSUME NEW r \in Runner, FetchNothing(r) PROVE TypeOK'
  BY <1>5, TypeOnward DEF TypeOK, FetchNothing, rows, history
<1>6. ASSUME NEW r \in Runner, EmbedAll(r) PROVE TypeOK'
  BY <1>6 DEF TypeOK, EmbedAll, rows, locals, history, Phase
<1>7. ASSUME NEW r \in Runner, Maintain(r) PROVE TypeOK'
  BY <1>7 DEF TypeOK, Maintain, rows, locals, history, Phase
<1>8. ASSUME NEW r \in Runner, Snapshot(r) PROVE TypeOK'
  BY <1>8 DEF TypeOK, Snapshot, locals, history, Phase
<1>9. ASSUME NEW r \in Runner, Mark(r) PROVE TypeOK'
  BY <1>9, TypeReturn DEF TypeOK, Mark, ReflectedUpTo, history
<1>10. ASSUME NEW r \in Runner, Panic(r) PROVE TypeOK'
  BY <1>10, TypeLeave DEF Panic, Phase
<1>11. ASSUME NEW r \in Runner,
              AgentMisses(r) \/ EmbedFails(r) \/ StoreFails(r) \/ Cancel(r)
       PROVE  TypeOK'
  BY <1>11, TypeAbort DEF AgentMisses, EmbedFails, StoreFails, Cancel
<1>12. CASE UNCHANGED vars
  BY <1>12 DEF TypeOK, vars, rows, cycles, locals, history
<1> QED
  BY <1>1, <1>2, <1>3, <1>4, <1>5, <1>6, <1>7, <1>8, <1>9, <1>10, <1>11, <1>12,
     TypeFetch, TypeAgentAnswers, TypeAgentFails, TypeCommitOne, TypeAdvance, TypeTrigger
     DEF Next, Step

\* Every variable keeps to its type, and in particular no batch and no cursor
\* ever reaches beyond the log's bound.
THEOREM TypeCorrect == Spec => []TypeOK
<1> QED
  BY TypeInit, TypeStep, PTL DEF Spec

-----------------------------------------------------------------------------
(* Single flight.                                                          *)

LEMMA SingleFlightStep == TypeOK /\ SingleFlight /\ [Next]_vars => SingleFlight'
<1> SUFFICES ASSUME TypeOK, SingleFlight, [Next]_vars PROVE SingleFlight'
  OBVIOUS
<1> USE RunnerAssumption
<1>1. ASSUME UNCHANGED <<lock, pc>> PROVE SingleFlight'
  BY <1>1 DEF SingleFlight
<1>2. ASSUME NEW r \in Runner, NEW p \in {"sleeping", "dead"}, lock = r, Leave(r, p)
      PROVE  SingleFlight'
  BY <1>2 DEF SingleFlight, TypeOK, Leave
<1>3. ASSUME NEW r \in Runner, NEW p, p \notin {"sleeping", "dead"}, lock = r,
             lock' = lock, pc' = [pc EXCEPT ![r] = p]
      PROVE  SingleFlight'
  BY <1>3 DEF SingleFlight, TypeOK
<1>4. ASSUME NEW r \in Runner, Onward(r), lock = r PROVE SingleFlight'
  BY <1>4, <1>3 DEF Onward
<1>5. ASSUME NEW r \in Runner, Begin(r) PROVE SingleFlight'
  BY <1>5 DEF Begin, TakeLock, SingleFlight, TypeOK
<1>6. CASE Publish \/ Tick \/ UNCHANGED vars
  BY <1>6, <1>1 DEF Publish, Tick, vars, cycles
<1>7. CASE Crash
  BY <1>7 DEF Crash, SingleFlight
<1>8. ASSUME NEW r \in Runner, Step(r) \/ Cancel(r) \/ Panic(r) PROVE SingleFlight'
  <2>1. lock = r
    BY <1>8 DEF SingleFlight, Step, Cancel, Panic, FetchNothing, Fetch, AgentAnswers, AgentFails,
       AgentMisses, EmbedAll, EmbedFails, CommitOne, Advance, Skip, Trigger, Maintain, Snapshot,
       Mark, StoreFails
  <2>2. CASE AgentMisses(r) \/ EmbedFails(r) \/ StoreFails(r) \/ Cancel(r) \/ Panic(r)
    BY <2>1, <2>2, <1>2 DEF AgentMisses, EmbedFails, StoreFails, Cancel, Panic, Abort, Return
  <2>3. CASE FetchNothing(r) \/ Advance(r) \/ Skip(r)
    BY <2>1, <2>3, <1>4 DEF FetchNothing, Advance, Skip
  <2>4. CASE AgentFails(r)
    BY <2>1, <2>4, <1>3, <1>4 DEF AgentFails
  <2>5. CASE Trigger(r)
    BY <2>1, <2>5, <1>2, <1>3 DEF Trigger, Return
  <2>6. CASE Mark(r)
    BY <2>1, <2>6, <1>2 DEF Mark, Return
  <2>7. CASE Fetch(r) \/ EmbedAll(r) \/ Snapshot(r)
    BY <2>1, <2>7, <1>3 DEF Fetch, EmbedAll, Snapshot
  <2>8. CASE AgentAnswers(r)
    BY <2>1, <2>8, <1>3 DEF AgentAnswers
  <2>9. CASE CommitOne(r)
    BY <2>1, <2>9, <1>3 DEF CommitOne
  <2>10. CASE Maintain(r)
    BY <2>1, <2>10, <1>3 DEF Maintain
  <2> QED
    BY <1>8, <2>2, <2>3, <2>4, <2>5, <2>6, <2>7, <2>8, <2>9, <2>10 DEF Step
<1> QED
  BY <1>5, <1>6, <1>7, <1>8 DEF Next

\* Cycles are single-flight for every number of runners and under every fault.
THEOREM CyclesAreSingleFlight == Spec => []SingleFlight
<1>1. Init => SingleFlight
  BY RunnerAssumption DEF Init, SingleFlight
<1> QED
  BY <1>1, TypeInit, TypeStep, SingleFlightStep, PTL DEF Spec

-----------------------------------------------------------------------------
(* The positions of the consumers.                                         *)

InBatch(r) == pc[r] \in {"agent", "embed", "commit", "advance", "give up"}

\* What holds of a consumer's row whoever is at work on it.
RowInv(c) ==
  /\ cursor[c] <= lastEvent
  /\ delivered[c] \cup skipped[c] = 1 .. cursor[c]
  /\ failures[c] = IF cursor[c] < lastEvent THEN attempts[c][cursor[c] + 1] ELSE 0
  /\ \A e \in 1 .. MaxEvents : e > BatchLast(c) => attempts[c][e] = 0

\* What holds of a batch from its fetch until the cursor has moved over it: it
\* still begins right after the cursor, and it has every event tried before.
BatchInv(r) ==
  /\ first[r] = cursor[at[r]] + 1
  /\ first[r] <= last[r]
  /\ last[r] <= lastEvent
  /\ last[r] <= cursor[at[r]] + BatchSize
  /\ \A e \in 1 .. MaxEvents : e > last[r] => attempts[at[r]][e] = 0
  /\ pc[r] = "give up" => failures[at[r]] >= MaxFailures

PositionInv ==
  /\ \A c \in Consumer : RowInv(c)
  /\ \A r \in Runner : InBatch(r) => BatchInv(r)

positions == <<lastEvent, cursor, failures, delivered, skipped, attempts>>

\* A step that leaves the rows alone and begins no batch.
LEMMA QuietStep ==
  ASSUME PositionInv, UNCHANGED positions,
         \A r \in Runner : InBatch(r)' =>
           /\ InBatch(r)
           /\ UNCHANGED <<at[r], first[r], last[r]>>
           /\ pc'[r] = "give up" => pc[r] = "give up"
  PROVE  PositionInv'
<1>1. ASSUME NEW c \in Consumer PROVE RowInv(c)'
  BY <1>1 DEF PositionInv, RowInv, BatchLast, positions
<1>2. ASSUME NEW r \in Runner, InBatch(r)' PROVE BatchInv(r)'
  BY <1>2 DEF PositionInv, BatchInv, positions
<1> QED
  BY <1>1, <1>2 DEF PositionInv

\* The numbers of a batch and of its consumer's row.
LEMMA BatchFacts ==
  ASSUME TypeOK, PositionInv, NEW r \in Runner, InBatch(r)
  PROVE  /\ at[r] \in Consumer /\ MaxEvents \in Nat /\ BatchSize \in Nat /\ BatchSize >= 1
         /\ cursor[at[r]] \in Nat /\ lastEvent \in Nat /\ last[r] \in Nat
         /\ failures[at[r]] \in Nat
         /\ first[r] = cursor[at[r]] + 1
         /\ first[r] <= last[r]
         /\ last[r] <= lastEvent
         /\ lastEvent <= MaxEvents
         /\ last[r] <= cursor[at[r]] + BatchSize
         /\ Batch(r) = (cursor[at[r]] + 1) .. last[r]
         /\ \A e \in 1 .. MaxEvents : e > last[r] => attempts[at[r]][e] = 0
         /\ RowInv(at[r])
<1>1. /\ at[r] \in Consumer /\ cursor[at[r]] \in 0 .. MaxEvents
      /\ lastEvent \in 0 .. MaxEvents /\ last[r] \in 0 .. MaxEvents /\ failures[at[r]] \in Nat
  BY DEF TypeOK
<1>2. MaxEvents \in Nat /\ BatchSize \in Nat /\ BatchSize >= 1
  BY BoundsAssumption, SettingsAssumption
<1>3. BatchInv(r) /\ RowInv(at[r])
  BY <1>1 DEF PositionInv
<1>4. /\ first[r] = cursor[at[r]] + 1 /\ first[r] <= last[r] /\ last[r] <= lastEvent
      /\ last[r] <= cursor[at[r]] + BatchSize
      /\ \A e \in 1 .. MaxEvents : e > last[r] => attempts[at[r]][e] = 0
  BY <1>3 DEF BatchInv
<1>5. Batch(r) = (cursor[at[r]] + 1) .. last[r]
  BY <1>4 DEF Batch
<1>6. /\ cursor[at[r]] \in Nat /\ lastEvent \in Nat /\ last[r] \in Nat
      /\ lastEvent <= MaxEvents
  BY <1>1, <1>2
<1> QED
  BY <1>1, <1>2, <1>3, <1>4, <1>5, <1>6

LEMMA PositionInit == Init => PositionInv
<1> SUFFICES ASSUME Init PROVE PositionInv
  OBVIOUS
<1>1. ASSUME NEW c \in Consumer PROVE RowInv(c)
  BY <1>1 DEF Init, RowInv
<1>2. ASSUME NEW r \in Runner PROVE ~InBatch(r)
  BY <1>2 DEF Init, InBatch
<1> QED
  BY <1>1, <1>2 DEF PositionInv

LEMMA PositionPublish == ASSUME TypeOK, PositionInv, Publish PROVE PositionInv'
<1>1. /\ lastEvent \in 0 .. MaxEvents /\ lastEvent' = lastEvent + 1
      /\ lastEvent' \in 0 .. MaxEvents
      /\ UNCHANGED <<cursor, failures, delivered, skipped, attempts, pc, at, first, last>>
  BY BoundsAssumption DEF TypeOK, Publish, cycles, locals, history
<1>2. ASSUME NEW c \in Consumer PROVE RowInv(c)'
  <2>1. RowInv(c) /\ cursor[c] \in 0 .. MaxEvents
    BY DEF PositionInv, TypeOK
  <2>2. BatchLast(c)' >= BatchLast(c) /\ BatchLast(c) \in Int /\ BatchLast(c)' \in Int
    BY <1>1, <2>1, SettingsAssumption, BoundsAssumption DEF BatchLast
  <2>3. \A e \in 1 .. MaxEvents : e > BatchLast(c)' => attempts'[c][e] = 0
    BY <1>1, <2>1, <2>2 DEF RowInv
  <2>4. CASE cursor[c] < lastEvent
    BY <1>1, <2>1, <2>3, <2>4, BoundsAssumption DEF RowInv
  <2>5. CASE cursor[c] = lastEvent
    <3>1. lastEvent + 1 \in 1 .. MaxEvents /\ lastEvent + 1 > BatchLast(c)
      BY <1>1, <2>5, SettingsAssumption, BoundsAssumption DEF BatchLast
    <3>2. attempts[c][lastEvent + 1] = 0
      BY <2>1, <3>1 DEF RowInv
    <3> QED
      BY <1>1, <2>1, <2>3, <2>5, <3>2, BoundsAssumption DEF RowInv
  <2> QED
    BY <1>1, <2>1, <2>4, <2>5, BoundsAssumption DEF RowInv
<1>3. ASSUME NEW r \in Runner, InBatch(r)' PROVE BatchInv(r)'
  <2>1. BatchInv(r) /\ InBatch(r)
    BY <1>1, <1>3 DEF PositionInv, InBatch
  <2>2. last'[r] <= lastEvent'
    BY <1>1, <2>1, BatchFacts
  <2>3. UNCHANGED <<first, last, at, cursor, failures, attempts, pc>>
    BY <1>1
  <2> QED
    BY <2>1, <2>2, <2>3 DEF BatchInv
<1> QED
  BY <1>2, <1>3 DEF PositionInv

LEMMA PositionFetch ==
  ASSUME TypeOK, SingleFlight, PositionInv, NEW r \in Runner, Fetch(r) PROVE PositionInv'
<1>1. at[r] \in Consumer /\ cursor[at[r]] \in 0 .. MaxEvents
  BY DEF TypeOK
<1>2. /\ UNCHANGED positions /\ UNCHANGED at
      /\ first'[r] = BatchFirst(at[r]) /\ last'[r] = BatchLast(at[r])
      /\ BatchFirst(at[r]) <= BatchLast(at[r]) /\ pc'[r] = "agent"
  BY DEF TypeOK, Fetch, positions, rows, history
<1>3. ASSUME NEW c \in Consumer PROVE RowInv(c)'
  BY <1>2, <1>3 DEF PositionInv, RowInv, BatchLast, positions
<1>4. BatchInv(r)'
  BY <1>1, <1>2, BatchBounds DEF PositionInv, RowInv, BatchInv, BatchFirst, positions
<1>5. ASSUME NEW q \in Runner, q # r PROVE ~InBatch(q)'
  BY <1>5 DEF SingleFlight, InBatch, Fetch, TypeOK
<1> QED
  BY <1>3, <1>4, <1>5 DEF PositionInv

LEMMA PositionAgentFails ==
  ASSUME TypeOK, SingleFlight, PositionInv, NEW r \in Runner, AgentFails(r)
  PROVE  PositionInv'
<1> PICK c \in Consumer : c = at[r]
  BY DEF TypeOK
<1>1. InBatch(r)
  BY DEF InBatch, AgentFails
<1>2. /\ UNCHANGED <<lastEvent, cursor, delivered, skipped>>
      /\ failures' = [failures EXCEPT ![c] = failures[c] + 1]
      /\ attempts' = [attempts EXCEPT ![c] =
           [e \in 1 .. MaxEvents |->
              IF e \in Batch(r) THEN attempts[c][e] + 1 ELSE attempts[c][e]]]
  BY DEF AgentFails, NextFailures
<1>3. /\ failures'[c] = failures[c] + 1
      /\ \A e \in 1 .. MaxEvents :
           attempts'[c][e] = IF e \in Batch(r) THEN attempts[c][e] + 1 ELSE attempts[c][e]
      /\ \A d \in Consumer : d # c => failures'[d] = failures[d] /\ attempts'[d] = attempts[d]
  BY <1>2 DEF TypeOK
<1>4. ASSUME NEW d \in Consumer, d # c PROVE RowInv(d)'
  BY <1>2, <1>3, <1>4 DEF PositionInv, RowInv, BatchLast
<1>5. /\ cursor[c] + 1 \in Batch(r) /\ cursor[c] + 1 \in 1 .. MaxEvents
      /\ cursor[c] < lastEvent
  BY <1>1, BatchFacts
<1>6. \A e \in 1 .. MaxEvents : e > last[r] => attempts'[c][e] = 0
  <2> SUFFICES ASSUME NEW e \in 1 .. MaxEvents, e > last[r] PROVE attempts'[c][e] = 0
    OBVIOUS
  <2>1. attempts[c][e] = 0 /\ e \notin Batch(r)
    BY <1>1, BatchFacts
  <2> QED
    BY <1>3, <2>1
<1>7. RowInv(c)'
  <2>1. failures'[c] = attempts'[c][cursor[c] + 1]
    <3>1. failures[c] = attempts[c][cursor[c] + 1]
      BY <1>1, <1>5, BatchFacts DEF RowInv
    <3> QED
      BY <1>3, <1>5, <3>1
  <2>2. last[r] <= BatchLast(c) /\ BatchLast(c) \in Nat /\ BatchLast(c)' = BatchLast(c)
    BY <1>1, <1>2, BatchFacts DEF BatchLast
  <2>3. \A e \in 1 .. MaxEvents : e > BatchLast(c) => attempts'[c][e] = 0
    BY <1>1, <1>6, <2>2, BatchFacts
  <2>4. RowInv(c)
    BY <1>1, BatchFacts
  <2>5. UNCHANGED <<cursor, lastEvent, delivered, skipped>>
    BY <1>2
  <2> QED
    BY <1>5, <2>1, <2>2, <2>3, <2>4, <2>5 DEF RowInv
<1>8. ASSUME InBatch(r)' PROVE BatchInv(r)'
  <2>1. pc'[r] = "give up" /\ UNCHANGED <<at, first, last>> /\ failures[c] + 1 >= MaxFailures
    BY <1>8 DEF AgentFails, Onward, InBatch, TypeOK, GiveUp, NextFailures, locals
  <2>2. BatchInv(r)
    BY <1>1 DEF PositionInv
  <2>3. failures'[c] >= MaxFailures
    BY <1>3, <2>1
  <2>4. UNCHANGED <<cursor, lastEvent, at, first, last>>
    BY <1>2, <2>1
  <2> QED
    BY <1>6, <2>2, <2>3, <2>4 DEF BatchInv
<1>9. ASSUME NEW q \in Runner, q # r PROVE ~InBatch(q)'
  BY <1>9 DEF SingleFlight, InBatch, AgentFails, Onward, TypeOK
<1>10. \A d \in Consumer : RowInv(d)'
  BY <1>4, <1>7
<1>11. \A q \in Runner : InBatch(q)' => BatchInv(q)'
  BY <1>8, <1>9
<1> QED
  BY <1>10, <1>11 DEF PositionInv

\* set_cursor after a batch that was handled or given up.
LEMMA PositionSetCursor ==
  ASSUME TypeOK, SingleFlight, PositionInv, NEW r \in Runner, SetCursor(r), Onward(r),
         InBatch(r), UNCHANGED attempts,
         \A d \in Consumer : delivered'[d] \cup skipped'[d] =
           delivered[d] \cup skipped[d] \cup (IF d = at[r] THEN Batch(r) ELSE {})
  PROVE  PositionInv'
<1> PICK c \in Consumer : c = at[r]
  BY DEF TypeOK
<1>2. /\ lastEvent' = lastEvent
      /\ cursor'[c] = last[r] /\ failures'[c] = 0
      /\ \A d \in Consumer : d # c => cursor'[d] = cursor[d] /\ failures'[d] = failures[d]
  BY DEF SetCursor, CursorAfter, FailuresAfter, TypeOK
<1>3. ASSUME NEW d \in Consumer, d # c PROVE RowInv(d)'
  <2>1. RowInv(d) /\ delivered'[d] \cup skipped'[d] = delivered[d] \cup skipped[d]
    BY <1>3 DEF PositionInv
  <2> QED
    BY <1>2, <1>3, <2>1 DEF RowInv, BatchLast
<1>4. RowInv(c)'
  <2>1. delivered'[c] \cup skipped'[c] = 1 .. cursor'[c]
    <3>1. delivered'[c] \cup skipped'[c] = (1 .. cursor[c]) \cup ((cursor[c] + 1) .. last[r])
      BY BatchFacts DEF RowInv
    <3>2. (1 .. cursor[c]) \cup ((cursor[c] + 1) .. last[r]) = 1 .. last[r]
      BY BatchFacts
    <3> QED
      BY <1>2, <3>1, <3>2
  <2>2. cursor'[c] < lastEvent' => attempts'[c][cursor'[c] + 1] = 0
    <3> SUFFICES ASSUME last[r] < lastEvent PROVE attempts[c][last[r] + 1] = 0
      BY <1>2
    <3>1. last[r] + 1 \in 1 .. MaxEvents /\ last[r] + 1 > last[r]
      BY BatchFacts
    <3> QED
      BY <3>1, BatchFacts
  <2>3. BatchLast(c)' >= last[r] /\ BatchLast(c)' \in Nat
    BY <1>2, BatchFacts DEF BatchLast
  <2>4. \A e \in 1 .. MaxEvents : e > BatchLast(c)' => attempts'[c][e] = 0
    <3> SUFFICES ASSUME NEW e \in 1 .. MaxEvents, e > BatchLast(c)' PROVE attempts[c][e] = 0
      OBVIOUS
    <3>1. e > last[r]
      BY <2>3, BatchFacts
    <3> QED
      BY <3>1, BatchFacts
  <2>5. cursor'[c] <= lastEvent'
    BY <1>2, BatchFacts
  <2> QED
    BY <1>2, <2>1, <2>2, <2>4, <2>5 DEF RowInv
<1>5. ASSUME NEW q \in Runner PROVE ~InBatch(q)'
  BY <1>5 DEF SingleFlight, InBatch, Onward, TypeOK
<1>6. \A d \in Consumer : RowInv(d)'
  BY <1>3, <1>4
<1> QED
  BY <1>5, <1>6 DEF PositionInv

LEMMA PositionAdvance ==
  ASSUME TypeOK, SingleFlight, PositionInv, NEW r \in Runner, Advance(r) \/ Skip(r)
  PROVE  PositionInv'
<1>1. SetCursor(r) /\ Onward(r) /\ InBatch(r) /\ UNCHANGED attempts
  BY DEF Advance, Skip, InBatch
<1>2. ASSUME NEW d \in Consumer
      PROVE  delivered'[d] \cup skipped'[d] =
               delivered[d] \cup skipped[d] \cup (IF d = at[r] THEN Batch(r) ELSE {})
  BY DEF Advance, Skip, TypeOK
<1> QED
  BY <1>1, <1>2, PositionSetCursor

LEMMA PositionStep == TypeOK /\ SingleFlight /\ PositionInv /\ [Next]_vars => PositionInv'
<1> SUFFICES ASSUME TypeOK, SingleFlight, PositionInv, [Next]_vars PROVE PositionInv'
  OBVIOUS
<1>1. CASE Tick \/ UNCHANGED vars
  BY <1>1, QuietStep DEF Tick, vars, rows, cycles, locals, history, positions, InBatch
<1>2. CASE Crash
  BY <1>2, QuietStep DEF Crash, rows, positions, InBatch
<1>3. ASSUME NEW r \in Runner, Leave(r, "sleeping") \/ Leave(r, "dead"), UNCHANGED positions
      PROVE  PositionInv'
  BY <1>3, QuietStep DEF Leave, InBatch, TypeOK
<1>4. ASSUME NEW r \in Runner,
             AgentMisses(r) \/ EmbedFails(r) \/ StoreFails(r) \/ Cancel(r) \/ Panic(r) \/ Mark(r)
      PROVE  PositionInv'
  BY <1>4, <1>3 DEF AgentMisses, EmbedFails, StoreFails, Cancel, Panic, Mark, Abort, Return,
     rows, history, positions
<1>5. ASSUME NEW r \in Runner, Begin(r) \/ EmbedAll(r) \/ Maintain(r) \/ Snapshot(r)
      PROVE  PositionInv'
  <2>1. UNCHANGED positions /\ UNCHANGED <<at, first, last>>
    BY <1>5 DEF Begin, EmbedAll, Maintain, Snapshot, rows, locals, history, positions
  <2>2. \A q \in Runner : InBatch(q)' => InBatch(q) /\ (pc'[q] = "give up" => pc[q] = "give up")
    BY <1>5 DEF Begin, EmbedAll, Maintain, Snapshot, InBatch, TypeOK
  <2> QED
    BY <2>1, <2>2, QuietStep
<1>6. ASSUME NEW r \in Runner, AgentAnswers(r) \/ CommitOne(r) PROVE PositionInv'
  <2>1. UNCHANGED positions /\ UNCHANGED <<at, first, last>>
    BY <1>6 DEF AgentAnswers, CommitOne, rows, history, positions
  <2>2. \A q \in Runner : InBatch(q)' => InBatch(q) /\ (pc'[q] = "give up" => pc[q] = "give up")
    <3>1. CASE AgentAnswers(r)
      BY <3>1 DEF AgentAnswers, InBatch, TypeOK
    <3>2. CASE CommitOne(r)
      <4>1. pc[r] = "commit"
        BY <3>2 DEF CommitOne
      <4>2. PICK p \in {"advance", "commit"} : pc' = [pc EXCEPT ![r] = p]
        BY <3>2 DEF CommitOne
      <4> QED
        BY <4>1, <4>2 DEF InBatch, TypeOK
    <3> QED
      BY <1>6, <3>1, <3>2
  <2> QED
    BY <2>1, <2>2, QuietStep
<1>7. ASSUME NEW r \in Runner, FetchNothing(r) PROVE PositionInv'
  <2>1. \A q \in Runner : InBatch(q)' => q # r /\ InBatch(q) /\ pc'[q] = pc[q]
    BY <1>7 DEF FetchNothing, Onward, InBatch, TypeOK
  <2>2. \A q \in Runner : q # r => UNCHANGED <<at[q], first[q], last[q]>>
    BY <1>7 DEF FetchNothing, Onward, TypeOK
  <2> QED
    BY <1>7, <2>1, <2>2, QuietStep DEF FetchNothing, rows, history, positions
<1>8. ASSUME NEW r \in Runner, Trigger(r) PROVE PositionInv'
  <2>1. CASE Return(r)
    BY <1>8, <2>1, <1>3 DEF Trigger, Return, rows, history, positions
  <2>2. CASE ~Return(r)
    <3>1. UNCHANGED positions /\ UNCHANGED <<at, first, last>>
      BY <1>8, <2>2 DEF Trigger, rows, history, positions
    <3>2. \A q \in Runner : InBatch(q)' => InBatch(q) /\ (pc'[q] = "give up" => pc[q] = "give up")
      BY <1>8, <2>2 DEF Trigger, InBatch, TypeOK
    <3> QED
      BY <3>1, <3>2, QuietStep
  <2> QED
    BY <2>1, <2>2
<1> QED
  BY <1>1, <1>2, <1>4, <1>5, <1>6, <1>7, <1>8,
     PositionPublish, PositionFetch, PositionAgentFails, PositionAdvance DEF Next, Step

Inv == TypeOK /\ SingleFlight /\ PositionInv

LEMMA InvCorrect == Spec => []Inv
<1>1. Init => Inv
  BY TypeInit, PositionInit, RunnerAssumption DEF Init, Inv, SingleFlight
<1>2. Inv /\ [Next]_vars => Inv'
  BY TypeStep, SingleFlightStep, PositionStep DEF Inv
<1> QED
  BY <1>1, <1>2, PTL DEF Spec

\* No event is lost between the cursor and the records of what was done.
THEOREM NothingLost == Spec => []NoEventLost
<1>1. Inv => NoEventLost
  BY DEF Inv, PositionInv, RowInv, NoEventLost
<1> QED
  BY <1>1, InvCorrect, PTL

\* The failure counter always counts the failures of the event it is about.
THEOREM CounterIsOfHead == Spec => []FailuresCountHead
<1>1. Inv => FailuresCountHead
  BY DEF Inv, PositionInv, RowInv, FailuresCountHead
<1> QED
  BY <1>1, InvCorrect, PTL

-----------------------------------------------------------------------------
(* Every step of the worker is a step of Delivery or changes nothing there. *)

delivery == <<lastEvent, cursor, failures, delivered, skipped>>

LEMMA QuietForDelivery ==
  ASSUME NEW r \in Runner,
         \/ FetchNothing(r) \/ Fetch(r) \/ AgentAnswers(r) \/ AgentMisses(r) \/ EmbedAll(r)
         \/ EmbedFails(r) \/ CommitOne(r) \/ Trigger(r) \/ Maintain(r) \/ Snapshot(r)
         \/ Mark(r) \/ StoreFails(r) \/ Begin(r) \/ Cancel(r) \/ Panic(r)
  PROVE  UNCHANGED delivery
BY DEF FetchNothing, Fetch, AgentAnswers, AgentMisses, EmbedAll, EmbedFails, CommitOne, Trigger,
   Maintain, Snapshot, Mark, StoreFails, Begin, Cancel, Panic, Abort, rows, history, delivery

\* A batch that is passed, handled or given up, is a group Delivery may move over.
LEMMA BatchIsGroup ==
  ASSUME Inv, NEW r \in Runner, SetCursor(r), InBatch(r)
  PROVE  /\ last[r] \in 1 .. lastEvent
         /\ Promise!IsNextGroup(at[r], last[r])
         /\ Promise!MoveTo(at[r], last[r])
         /\ Promise!Group(at[r], last[r]) = Batch(r)
BY BatchFacts DEF Inv, SetCursor, CursorAfter, FailuresAfter, Promise!IsNextGroup,
   Promise!MoveTo, Promise!Group

LEMMA DeliveryStep == Inv /\ [Next]_vars => [Promise!Next]_(Promise!vars)
<1> SUFFICES ASSUME Inv, [Next]_vars PROVE Promise!Next \/ UNCHANGED Promise!vars
  OBVIOUS
<1>1. UNCHANGED delivery => UNCHANGED Promise!vars
  BY DEF delivery, Promise!vars
<1>2. CASE Publish
  BY <1>2 DEF Publish, history, Promise!Next, Promise!Publish
<1>3. CASE Tick \/ Crash \/ UNCHANGED vars
  BY <1>1, <1>3 DEF Tick, Crash, vars, rows, history, delivery
<1>4. ASSUME NEW r \in Runner, AgentFails(r) PROVE Promise!Next
  <2>1. at[r] \in Consumer /\ cursor[at[r]] < lastEvent
    <3>1. InBatch(r)
      BY <1>4 DEF InBatch, AgentFails
    <3> QED
      BY <3>1, BatchFacts DEF Inv
  <2>2. Promise!Fail(at[r])
    BY <1>4, <2>1 DEF AgentFails, NextFailures, Promise!Fail
  <2> QED
    BY <2>1, <2>2 DEF Promise!Next
<1>5. ASSUME NEW r \in Runner, Advance(r) PROVE Promise!Next
  <2>1. at[r] \in Consumer /\ InBatch(r) /\ SetCursor(r)
    BY <1>5 DEF Inv, TypeOK, InBatch, Advance
  <2>2. Promise!Handle(at[r])
    BY <1>5, <2>1, BatchIsGroup DEF Advance, SetCursor, Promise!Handle
  <2> QED
    BY <2>1, <2>2 DEF Promise!Next
<1>6. ASSUME NEW r \in Runner, Skip(r) PROVE Promise!Next
  <2>1. at[r] \in Consumer /\ InBatch(r) /\ SetCursor(r) /\ failures[at[r]] >= MaxFailures
    BY <1>6 DEF Inv, TypeOK, PositionInv, BatchInv, InBatch, Skip
  <2>2. Promise!Drop(at[r])
    BY <1>6, <2>1, BatchIsGroup DEF Skip, SetCursor, Promise!Drop
  <2> QED
    BY <2>1, <2>2 DEF Promise!Next
<1> QED
  BY <1>1, <1>2, <1>3, <1>4, <1>5, <1>6, QuietForDelivery DEF Next, Step

\* The worker implements Delivery: whatever fails or crashes, a position moves
\* only over the next events, and only when they were handled or, after
\* MaxFailures failures, given up.
THEOREM WorkerImplementsDelivery == Spec => ImplementsDelivery
<1>1. Init => Promise!Init
  BY DEF Init, Promise!Init
<1> QED
  BY <1>1, DeliveryStep, InvCorrect, PTL DEF Spec, ImplementsDelivery, Promise!Spec

\* A batch is given up only when its head has failed MaxFailures times.
THEOREM GivenUpInTime == Spec => GivenUpAfterMaxFailures
<1>1. ASSUME Inv, [Next]_vars, NEW c \in Consumer, skipped'[c] # skipped[c]
      PROVE  attempts[c][cursor[c] + 1] >= MaxFailures
  <2>1. PICK r \in Runner : Skip(r)
    <3>1. CASE Publish \/ Tick \/ Crash \/ UNCHANGED vars
      BY <1>1, <3>1 DEF Publish, Tick, Crash, vars, history
    <3>2. ASSUME NEW r \in Runner, AgentFails(r) \/ Advance(r) PROVE UNCHANGED skipped
      BY <3>2 DEF AgentFails, Advance
    <3> QED
      BY <1>1, <3>1, <3>2, QuietForDelivery DEF Next, Step, delivery
  <2>2. InBatch(r) /\ at[r] = c /\ failures[c] >= MaxFailures
    BY <1>1, <2>1 DEF Inv, TypeOK, PositionInv, BatchInv, InBatch, Skip
  <2>3. failures[c] = attempts[c][cursor[c] + 1]
    <3>1. cursor[at[r]] < lastEvent /\ RowInv(at[r])
      BY <1>1, <2>2, BatchFacts DEF Inv
    <3> QED
      BY <2>2, <3>1 DEF RowInv
  <2> QED
    BY <2>2, <2>3
<1>2. Inv /\ [Next]_vars =>
        [\A c \in Consumer :
           skipped'[c] # skipped[c] => attempts[c][cursor[c] + 1] >= MaxFailures]_vars
  BY <1>1
<1> QED
  BY <1>2, InvCorrect, PTL DEF Spec, GivenUpAfterMaxFailures

-----------------------------------------------------------------------------
(* The reflection row.                                                     *)

Maintaining(r) == pc[r] \in {"consolidate", "reflect", "snapshot", "mark"}

ReflectInv ==
  /\ reflectCursor <= snapshotAt
  /\ snapshotAt <= lastEvent
  /\ \A r \in Runner : Maintaining(r) => reflectCursor <= seen[r] /\ seen[r] <= lastEvent
  /\ \A r \in Runner : pc[r] = "mark" => seen[r] <= snapshotAt

\* A step that begins no maintenance and leaves the reflection row alone.
LEMMA QuietForReflection ==
  ASSUME ReflectInv, UNCHANGED <<reflectCursor, snapshotAt, lastEvent>>,
         \A r \in Runner : Maintaining(r)' =>
           /\ Maintaining(r)
           /\ seen'[r] = seen[r]
           /\ pc'[r] = "mark" => pc[r] = "mark"
  PROVE  ReflectInv'
BY DEF ReflectInv, Maintaining

LEMMA ReflectStep == TypeOK /\ SingleFlight /\ ReflectInv /\ [Next]_vars => ReflectInv'
<1> SUFFICES ASSUME TypeOK, SingleFlight, ReflectInv, [Next]_vars PROVE ReflectInv'
  OBVIOUS
<1>0. /\ reflectCursor \in Int /\ snapshotAt \in Int /\ lastEvent \in Int
      /\ \A r \in Runner : seen[r] \in Int
  BY BoundsAssumption DEF TypeOK
<1>1. CASE Publish
  <2>1. lastEvent' = lastEvent + 1 /\ UNCHANGED <<reflectCursor, snapshotAt, pc, seen>>
    BY <1>1 DEF Publish, cycles, locals
  <2> QED
    BY <1>0, <2>1 DEF ReflectInv, Maintaining
<1>2. CASE Tick \/ Crash \/ UNCHANGED vars
  BY <1>2, QuietForReflection DEF Tick, Crash, vars, rows, cycles, locals, Maintaining
<1>3. ASSUME NEW r \in Runner, Leave(r, "sleeping") \/ Leave(r, "dead"),
             UNCHANGED <<reflectCursor, snapshotAt, lastEvent>>
      PROVE  ReflectInv'
  BY <1>3, QuietForReflection DEF Leave, Maintaining, TypeOK
<1>4. ASSUME NEW r \in Runner,
             AgentMisses(r) \/ EmbedFails(r) \/ StoreFails(r) \/ Cancel(r) \/ Panic(r)
      PROVE  ReflectInv'
  BY <1>4, <1>3 DEF AgentMisses, EmbedFails, StoreFails, Cancel, Panic, Abort, Return, rows
<1>5. ASSUME NEW r \in Runner, Onward(r), ~Maintaining(r),
             UNCHANGED <<reflectCursor, snapshotAt, lastEvent>>
      PROVE  ReflectInv'
  BY <1>5, QuietForReflection DEF Onward, Maintaining, TypeOK
<1>6. ASSUME NEW r \in Runner, NEW p \in Phase, ~Maintaining(r), p # "mark",
             p \notin {"consolidate", "reflect", "snapshot", "mark"},
             pc' = [pc EXCEPT ![r] = p], UNCHANGED <<reflectCursor, snapshotAt, lastEvent, seen>>
      PROVE  ReflectInv'
  BY <1>6, QuietForReflection DEF Maintaining, TypeOK
<1>7. ASSUME NEW r \in Runner, FetchNothing(r) \/ Advance(r) \/ Skip(r) PROVE ReflectInv'
  BY <1>7, <1>5 DEF FetchNothing, Advance, Skip, SetCursor, rows, Maintaining
<1>8. ASSUME NEW r \in Runner, Begin(r) \/ Fetch(r) \/ EmbedAll(r) PROVE ReflectInv'
  BY <1>8, <1>6 DEF Begin, Fetch, EmbedAll, rows, locals, Maintaining, Phase
<1>9. ASSUME NEW r \in Runner, AgentAnswers(r) PROVE ReflectInv'
  <2>1. \E p \in {"advance", "embed", "commit"} : pc' = [pc EXCEPT ![r] = p]
    BY <1>9 DEF AgentAnswers
  <2>2. pc[r] = "agent" /\ UNCHANGED <<reflectCursor, snapshotAt, lastEvent, seen>>
    BY <1>9 DEF AgentAnswers, rows
  <2> QED
    BY <2>1, <2>2, <1>6 DEF Maintaining, Phase
<1>10. ASSUME NEW r \in Runner, CommitOne(r) PROVE ReflectInv'
  <2>1. \E p \in {"advance", "commit"} : pc' = [pc EXCEPT ![r] = p]
    BY <1>10 DEF CommitOne
  <2>2. pc[r] = "commit" /\ UNCHANGED <<reflectCursor, snapshotAt, lastEvent, seen>>
    BY <1>10 DEF CommitOne, rows
  <2> QED
    BY <2>1, <2>2, <1>6 DEF Maintaining, Phase
<1>11. ASSUME NEW r \in Runner, AgentFails(r) PROVE ReflectInv'
  BY <1>11, <1>5, <1>6 DEF AgentFails, locals, Maintaining, Phase
<1>12. ASSUME NEW r \in Runner, Trigger(r) PROVE ReflectInv'
  <2>1. UNCHANGED <<reflectCursor, snapshotAt, lastEvent>>
    BY <1>12 DEF Trigger, rows
  <2>2. CASE Return(r)
    BY <2>1, <2>2, <1>3 DEF Return
  <2>3. CASE ~Return(r)
    <3>1. pc' = [pc EXCEPT ![r] = "consolidate"] /\ seen' = [seen EXCEPT ![r] = lastEvent]
      BY <1>12, <2>3 DEF Trigger
    <3>2. reflectCursor <= lastEvent
      BY <1>0 DEF ReflectInv
    <3> QED
      BY <1>0, <2>1, <3>1, <3>2 DEF ReflectInv, Maintaining, TypeOK
  <2> QED
    BY <2>2, <2>3
<1>13. ASSUME NEW r \in Runner, Maintain(r) PROVE ReflectInv'
  <2>1. /\ UNCHANGED <<reflectCursor, snapshotAt, lastEvent, seen>> /\ Maintaining(r)
        /\ \E p \in {"reflect", "snapshot"} : pc' = [pc EXCEPT ![r] = p]
    BY <1>13 DEF Maintain, rows, locals, Maintaining
  <2> QED
    BY <2>1 DEF ReflectInv, Maintaining, TypeOK
<1>14. ASSUME NEW r \in Runner, Snapshot(r) PROVE ReflectInv'
  <2>1. /\ UNCHANGED <<reflectCursor, lastEvent, seen>> /\ pc[r] = "snapshot"
        /\ snapshotAt' = lastEvent /\ pc' = [pc EXCEPT ![r] = "mark"]
    BY <1>14 DEF Snapshot, locals
  <2> QED
    BY <1>0, <2>1 DEF ReflectInv, Maintaining, TypeOK
<1>15. ASSUME NEW r \in Runner, Mark(r) PROVE ReflectInv'
  <2>1. /\ UNCHANGED <<snapshotAt, lastEvent>> /\ pc[r] = "mark" /\ reflectCursor' = seen[r]
        /\ pc' = [pc EXCEPT ![r] = "sleeping"]
    BY <1>15 DEF Mark, ReflectedUpTo, Return, Leave
  <2>2. \A q \in Runner : ~Maintaining(q)'
    BY <2>1 DEF SingleFlight, Maintaining, TypeOK
  <2> QED
    BY <2>1, <2>2 DEF ReflectInv, Maintaining
<1> QED
  BY <1>1, <1>2, <1>4, <1>7, <1>8, <1>9, <1>10, <1>11, <1>12, <1>13, <1>14, <1>15 DEF Next, Step

LEMMA ReflectCorrect == Spec => []ReflectInv
<1>1. Init => ReflectInv
  BY DEF Init, ReflectInv, Maintaining
<1> QED
  BY <1>1, ReflectStep, InvCorrect, PTL DEF Spec, Inv

\* What the reflection row counts as reflected is in the newest snapshot.
THEOREM ReflectedAreSnapshotted == Spec => []ReflectedIsSnapshotted
<1>1. ReflectInv => ReflectedIsSnapshotted
  BY DEF ReflectInv, ReflectedIsSnapshotted
<1> QED
  BY <1>1, ReflectCorrect, PTL

-----------------------------------------------------------------------------
(* No cursor retreats.                                                     *)

LEMMA NoRetreatStep ==
  Inv /\ ReflectInv /\ [Next]_vars =>
    [/\ \A c \in Consumer : cursor'[c] >= cursor[c]
     /\ reflectCursor' >= reflectCursor]_vars
<1> SUFFICES ASSUME Inv, ReflectInv, [Next]_vars
             PROVE  /\ \A c \in Consumer : cursor'[c] >= cursor[c]
                    /\ reflectCursor' >= reflectCursor
  OBVIOUS
<1>0. reflectCursor \in Int /\ \A c \in Consumer : cursor[c] \in Int
  BY BoundsAssumption DEF Inv, TypeOK
<1>1. ASSUME UNCHANGED <<cursor, reflectCursor>>
      PROVE  /\ \A c \in Consumer : cursor'[c] >= cursor[c]
             /\ reflectCursor' >= reflectCursor
  BY <1>0, <1>1
<1>2. ASSUME NEW r \in Runner, Advance(r) \/ Skip(r)
      PROVE  /\ \A c \in Consumer : cursor'[c] >= cursor[c]
             /\ reflectCursor' >= reflectCursor
  <2>1. SetCursor(r) /\ InBatch(r)
    BY <1>2 DEF Advance, Skip, InBatch
  <2>2. cursor' = [cursor EXCEPT ![at[r]] = last[r]] /\ UNCHANGED reflectCursor
    BY <2>1 DEF SetCursor, CursorAfter
  <2>3. last[r] >= cursor[at[r]]
    BY <2>1, BatchFacts DEF Inv
  <2> QED
    BY <1>0, <2>2, <2>3 DEF Inv, TypeOK
<1>3. ASSUME NEW r \in Runner, Mark(r)
      PROVE  /\ \A c \in Consumer : cursor'[c] >= cursor[c]
             /\ reflectCursor' >= reflectCursor
  <2>1. UNCHANGED cursor /\ reflectCursor' = seen[r] /\ Maintaining(r)
    BY <1>3 DEF Mark, ReflectedUpTo, Maintaining
  <2> QED
    BY <1>0, <2>1 DEF ReflectInv
<1>4. CASE Publish \/ Tick \/ Crash \/ UNCHANGED vars
  BY <1>1, <1>4 DEF Publish, Tick, Crash, vars, rows
<1>5. ASSUME NEW r \in Runner,
             \/ FetchNothing(r) \/ Fetch(r) \/ AgentAnswers(r) \/ AgentMisses(r) \/ EmbedAll(r)
             \/ EmbedFails(r) \/ CommitOne(r) \/ Trigger(r) \/ Maintain(r) \/ Snapshot(r)
             \/ StoreFails(r) \/ Begin(r) \/ Cancel(r) \/ Panic(r) \/ AgentFails(r)
      PROVE  UNCHANGED <<cursor, reflectCursor>>
  BY <1>5 DEF FetchNothing, Fetch, AgentAnswers, AgentMisses, EmbedAll, EmbedFails, CommitOne,
     Trigger, Maintain, Snapshot, StoreFails, Begin, Cancel, Panic, AgentFails, Abort, rows
<1> QED
  BY <1>1, <1>2, <1>3, <1>4, <1>5 DEF Next, Step

\* No cursor, the reflection row's included, ever moves backwards.
THEOREM CursorsAdvance == Spec => CursorsNeverRetreat
<1> QED
  BY NoRetreatStep, InvCorrect, ReflectCorrect, PTL DEF Spec, CursorsNeverRetreat

-----------------------------------------------------------------------------
(* How often a proposal is committed.                                      *)

\* The proposal about e has been committed in the batch under way.
JustApplied(r, c, e) == HalfDone(r) /\ at[r] = c /\ e <= last[r] /\ e \notin todo[r]

AppliedInv(c, e) ==
  /\ applied[c][e] <= 1 + interrupted[c]
  /\ \/ e <= cursor[c]
     \/ applied[c][e] <= interrupted[c]
     \/ \E r \in Runner : JustApplied(r, c, e)

CommitInv ==
  /\ \A c \in Consumer : \A e \in 1 .. MaxEvents : AppliedInv(c, e)
  /\ \A r \in Runner : pc[r] \in {"embed", "commit"} => todo[r] \subseteq Batch(r)

LEMMA CommitTypes ==
  ASSUME TypeOK, NEW c \in Consumer
  PROVE  /\ interrupted[c] \in Nat /\ cursor[c] \in Int
         /\ \A e \in 1 .. MaxEvents : applied[c][e] \in Nat
<1>1. /\ applied[c] \in [1 .. MaxEvents -> Nat] /\ interrupted[c] \in Nat
      /\ cursor[c] \in 0 .. MaxEvents
  BY DEF TypeOK
<1> QED
  BY <1>1, BoundsAssumption

\* A step that commits nothing, begins no commit and ends none.
LEMMA QuietForCommits ==
  ASSUME CommitInv, UNCHANGED <<applied, interrupted, cursor>>,
         \A q \in Runner : HalfDone(q) => HalfDone(q)' /\ UNCHANGED <<at[q], last[q], todo[q]>>,
         \A q \in Runner : pc'[q] \in {"embed", "commit"} =>
           pc[q] \in {"embed", "commit"} /\ UNCHANGED <<todo[q], first[q], last[q]>>
  PROVE  CommitInv'
<1>1. ASSUME NEW c \in Consumer, NEW e \in 1 .. MaxEvents PROVE AppliedInv(c, e)'
  BY <1>1 DEF CommitInv, AppliedInv, JustApplied
<1>2. ASSUME NEW q \in Runner, pc'[q] \in {"embed", "commit"} PROVE (todo[q] \subseteq Batch(q))'
  BY <1>2 DEF CommitInv, Batch
<1> QED
  BY <1>1, <1>2 DEF CommitInv

\* The cycle ends, and a batch that was being committed is counted as interrupted.
LEMMA CommitAbandon ==
  ASSUME TypeOK, SingleFlight, CommitInv, UNCHANGED <<applied, cursor>>, NEW r \in Runner,
         lock = r, CountInterrupt(r), \A q \in Runner : pc'[q] \in {"sleeping", "dead"}
  PROVE  CommitInv'
<1>1. ASSUME NEW q \in Runner, HalfDone(q) PROVE q = r
  BY <1>1 DEF SingleFlight, HalfDone
<1>2. ASSUME NEW c \in Consumer
      PROVE  /\ interrupted'[c] \in Nat /\ interrupted'[c] >= interrupted[c]
             /\ HalfDone(r) /\ at[r] = c => interrupted'[c] = interrupted[c] + 1
  BY <1>2, CommitTypes DEF CountInterrupt, TypeOK
<1>3. ASSUME NEW c \in Consumer, NEW e \in 1 .. MaxEvents PROVE AppliedInv(c, e)'
  <2>1. AppliedInv(c, e) /\ UNCHANGED <<applied[c][e], cursor[c]>> /\ applied[c][e] \in Nat
    BY CommitTypes DEF CommitInv
  <2>2. CASE e <= cursor[c] \/ applied[c][e] <= interrupted[c]
    BY <1>2, <2>1, <2>2, CommitTypes DEF AppliedInv
  <2>3. ASSUME NEW q \in Runner, JustApplied(q, c, e) PROVE AppliedInv(c, e)'
    <3>1. HalfDone(r) /\ at[r] = c
      BY <1>1, <2>3 DEF JustApplied
    <3> QED
      BY <1>2, <2>1, <3>1, CommitTypes DEF AppliedInv
  <2> QED
    BY <2>1, <2>2, <2>3 DEF AppliedInv
<1> QED
  BY <1>3 DEF CommitInv

LEMMA CommitCommitOne ==
  ASSUME Inv, CommitInv, NEW r \in Runner, CommitOne(r) PROVE CommitInv'
<1>1. PICK c \in Consumer, e \in todo[r] :
        /\ c = at[r]
        /\ todo' = [todo EXCEPT ![r] = todo[r] \ {e}]
        /\ pc' = [pc EXCEPT ![r] = IF todo[r] = {e} THEN "advance" ELSE "commit"]
        /\ applied' = [applied EXCEPT ![c][e] = applied[c][e] + 1]
  BY DEF Inv, TypeOK, CommitOne
<1>2. /\ pc[r] = "commit" /\ HalfDone(r) /\ HalfDone(r)'
      /\ UNCHANGED <<lock, at, first, last, cursor, interrupted>>
  <2>1. pc[r] = "commit" /\ UNCHANGED <<lock, at, first, last, cursor, interrupted>>
    BY DEF CommitOne, rows
  <2>2. pc'[r] \in {"commit", "advance"}
    BY <1>1 DEF Inv, TypeOK
  <2> QED
    BY <2>1, <2>2 DEF HalfDone
<1>3. ASSUME NEW q \in Runner, q # r PROVE ~HalfDone(q) /\ pc'[q] \notin {"embed", "commit"}
  BY <1>1, <1>2, <1>3 DEF Inv, SingleFlight, HalfDone, TypeOK
<1>4. e \in 1 .. MaxEvents /\ todo[r] \subseteq Batch(r) /\ e \in Batch(r)
  BY <1>1, <1>2 DEF Inv, TypeOK, CommitInv
<1>5. /\ applied[c][e] \in Nat /\ applied'[c][e] = applied[c][e] + 1
      /\ \A d \in Consumer : \A x \in 1 .. MaxEvents :
           d # c \/ x # e => applied'[d][x] = applied[d][x]
  BY <1>1, <1>4, CommitTypes DEF Inv, TypeOK
<1>6. e > cursor[c] /\ e <= last[r] /\ e \in Int /\ cursor[c] \in Int
  <2>1. InBatch(r)
    BY <1>2 DEF InBatch
  <2>2. Batch(r) = (cursor[c] + 1) .. last[r] /\ cursor[c] \in Nat /\ last[r] \in Nat
    BY <1>1, <2>1, BatchFacts DEF Inv
  <2> QED
    BY <1>4, <2>2
<1>7. applied[c][e] <= interrupted[c]
  <2>1. AppliedInv(c, e)
    BY <1>4 DEF CommitInv
  <2>2. \A q \in Runner : ~JustApplied(q, c, e)
    BY <1>1, <1>3 DEF JustApplied
  <2> QED
    BY <1>6, <2>1, <2>2 DEF AppliedInv
<1>8. AppliedInv(c, e)'
  <2>1. JustApplied(r, c, e)'
    BY <1>1, <1>2, <1>6 DEF JustApplied, Inv, TypeOK
  <2>2. applied'[c][e] <= 1 + interrupted'[c]
    BY <1>2, <1>5, <1>7, CommitTypes DEF Inv
  <2> QED
    BY <2>1, <2>2 DEF AppliedInv
<1>9. ASSUME NEW d \in Consumer, NEW x \in 1 .. MaxEvents, d # c \/ x # e
      PROVE  AppliedInv(d, x)'
  <2>1. AppliedInv(d, x) /\ applied'[d][x] = applied[d][x]
    BY <1>5, <1>9 DEF CommitInv
  <2>2. ASSUME NEW q \in Runner, JustApplied(q, d, x) PROVE JustApplied(r, d, x)'
    BY <1>1, <1>2, <1>3, <2>2 DEF JustApplied, Inv, TypeOK
  <2> QED
    BY <1>2, <2>1, <2>2 DEF AppliedInv
<1>10. todo'[r] \subseteq Batch(r)'
  BY <1>1, <1>2, <1>4 DEF Batch, Inv, TypeOK
<1> QED
  BY <1>3, <1>8, <1>9, <1>10 DEF CommitInv

LEMMA CommitSetCursor ==
  ASSUME Inv, CommitInv, NEW r \in Runner, Advance(r) \/ Skip(r) PROVE CommitInv'
<1>1. /\ SetCursor(r) /\ Onward(r) /\ InBatch(r) /\ UNCHANGED <<applied, interrupted>>
  BY DEF Advance, Skip, InBatch
<1>2. ASSUME NEW q \in Runner PROVE pc'[q] \notin {"embed", "commit", "advance"}
  BY <1>1, <1>2 DEF Inv, SingleFlight, InBatch, Onward, TypeOK
<1>3. cursor' = [cursor EXCEPT ![at[r]] = last[r]]
  BY <1>1 DEF SetCursor, CursorAfter
<1>4. /\ at[r] \in Consumer /\ last[r] \in Nat /\ cursor[at[r]] \in Nat
      /\ last[r] >= cursor[at[r]]
  BY <1>1, BatchFacts DEF Inv
<1>5. ASSUME NEW c \in Consumer, NEW e \in 1 .. MaxEvents PROVE AppliedInv(c, e)'
  <2>1. AppliedInv(c, e) /\ UNCHANGED <<applied[c][e], interrupted[c]>>
    BY <1>1 DEF CommitInv
  <2>2. cursor'[c] >= cursor[c] /\ cursor[c] \in Int /\ cursor'[c] \in Int
    <3>1. TypeOK /\ cursor \in [Consumer -> 0 .. MaxEvents]
      BY DEF Inv, TypeOK
    <3>2. cursor[c] \in Int
      BY <3>1, CommitTypes
    <3>3. cursor'[c] = IF c = at[r] THEN last[r] ELSE cursor[c]
      BY <1>3, <3>1
    <3> QED
      BY <1>4, <3>2, <3>3
  <2>3. ASSUME NEW q \in Runner, JustApplied(q, c, e) PROVE e <= cursor'[c]
    <3>1. q = r
      BY <1>1, <2>3 DEF JustApplied, HalfDone, InBatch, Inv, SingleFlight
    <3> QED
      BY <1>3, <2>3, <3>1 DEF JustApplied, Inv, TypeOK
  <2> QED
    BY <2>1, <2>2, <2>3 DEF AppliedInv
<1> QED
  BY <1>2, <1>5 DEF CommitInv

LEMMA CommitStep == Inv /\ CommitInv /\ [Next]_vars => CommitInv'
<1> SUFFICES ASSUME Inv, CommitInv, [Next]_vars PROVE CommitInv'
  OBVIOUS
<1>1. CASE Publish \/ Tick \/ UNCHANGED vars
  BY <1>1, QuietForCommits DEF Publish, Tick, vars, rows, cycles, locals, history, HalfDone
<1>2. CASE Crash
  <2>1. UNCHANGED <<applied, cursor>> /\ \A q \in Runner : pc'[q] = "sleeping"
    BY <1>2 DEF Crash, rows
  <2>2. CASE lock = NoOne
    <3>1. UNCHANGED interrupted /\ \A q \in Runner : ~HalfDone(q)
      BY <1>2, <2>2, RunnerAssumption DEF Crash, Inv, SingleFlight, HalfDone
    <3> QED
      BY <2>1, <3>1, QuietForCommits
  <2>3. CASE lock # NoOne
    <3>1. lock \in Runner /\ CountInterrupt(lock)
      BY <1>2, <2>3 DEF Crash, Inv, TypeOK
    <3> QED
      BY <2>1, <3>1, CommitAbandon DEF Inv
  <2> QED
    BY <2>2, <2>3
<1>3. ASSUME NEW r \in Runner, lock = r, CountInterrupt(r), UNCHANGED <<applied, cursor>>,
             Leave(r, "sleeping") \/ Leave(r, "dead")
      PROVE  CommitInv'
  <2>1. \A q \in Runner : pc'[q] \in {"sleeping", "dead"}
    BY <1>3 DEF Leave, Inv, TypeOK, SingleFlight
  <2> QED
    BY <1>3, <2>1, CommitAbandon DEF Inv
<1>4. ASSUME NEW r \in Runner,
             AgentMisses(r) \/ EmbedFails(r) \/ StoreFails(r) \/ Cancel(r) \/ Panic(r)
      PROVE  CommitInv'
  <2>1. lock = r
    BY <1>4 DEF Inv, SingleFlight, AgentMisses, EmbedFails, StoreFails, Cancel, Panic
  <2> QED
    BY <1>4, <2>1, <1>3 DEF AgentMisses, EmbedFails, StoreFails, Cancel, Panic, Abort, Return, rows
<1>5. ASSUME NEW r \in Runner, ~HalfDone(r), UNCHANGED <<applied, interrupted, cursor>>,
             pc'[r] \notin {"embed", "commit"},
             \A q \in Runner : q # r => UNCHANGED <<pc[q], at[q], first[q], last[q], todo[q]>>
      PROVE  CommitInv'
  BY <1>5, QuietForCommits DEF HalfDone
<1>6. ASSUME NEW r \in Runner, FetchNothing(r) PROVE CommitInv'
  BY <1>6, <1>5 DEF FetchNothing, Onward, HalfDone, rows, history, Inv, TypeOK
<1>7. ASSUME NEW r \in Runner, Begin(r) \/ Fetch(r) PROVE CommitInv'
  BY <1>7, <1>5 DEF Begin, Fetch, HalfDone, rows, locals, history, Inv, TypeOK
<1>8. ASSUME NEW r \in Runner, Maintain(r) \/ Snapshot(r) PROVE CommitInv'
  BY <1>8, <1>5 DEF Maintain, Snapshot, HalfDone, rows, locals, history, Inv, TypeOK
<1>9. ASSUME NEW r \in Runner, Trigger(r) \/ Mark(r) PROVE CommitInv'
  <2>1. ~HalfDone(r) /\ UNCHANGED <<applied, interrupted, cursor>>
    BY <1>9 DEF Trigger, Mark, HalfDone, rows, history
  <2>2. /\ pc'[r] \notin {"embed", "commit"}
        /\ \A q \in Runner : q # r => UNCHANGED <<pc[q], at[q], first[q], last[q], todo[q]>>
    BY <1>9 DEF Trigger, Mark, Return, Leave, Inv, TypeOK
  <2> QED
    BY <2>1, <2>2, <1>5
<1>10. ASSUME NEW r \in Runner, AgentFails(r) PROVE CommitInv'
  <2>1. ~HalfDone(r) /\ UNCHANGED <<applied, interrupted, cursor>>
    BY <1>10 DEF AgentFails, HalfDone
  <2>2. /\ pc'[r] \notin {"embed", "commit"}
        /\ \A q \in Runner : q # r => UNCHANGED <<pc[q], at[q], first[q], last[q], todo[q]>>
    BY <1>10 DEF AgentFails, Onward, locals, Inv, TypeOK
  <2> QED
    BY <2>1, <2>2, <1>5
<1>11. ASSUME NEW r \in Runner, EmbedAll(r) PROVE CommitInv'
  <2>1. /\ UNCHANGED <<applied, interrupted, cursor, at, first, last, todo>>
        /\ pc[r] = "embed" /\ pc' = [pc EXCEPT ![r] = "commit"]
    BY <1>11 DEF EmbedAll, rows, locals, history
  <2> QED
    BY <2>1, QuietForCommits DEF HalfDone, Inv, TypeOK
<1>12. ASSUME NEW r \in Runner, AgentAnswers(r) PROVE CommitInv'
  <2>1. PICK S \in SUBSET Batch(r) :
           /\ todo' = [todo EXCEPT ![r] = Truncate(S)]
           /\ \E p \in {"advance", "embed", "commit"} : pc' = [pc EXCEPT ![r] = p]
    BY <1>12 DEF AgentAnswers
  <2>2. /\ UNCHANGED <<applied, interrupted, cursor, at, first, last>>
        /\ pc[r] = "agent"
    BY <1>12 DEF AgentAnswers, rows, history
  <2>3. ASSUME NEW c \in Consumer, NEW e \in 1 .. MaxEvents PROVE AppliedInv(c, e)'
    <3>1. AppliedInv(c, e)
      BY DEF CommitInv
    <3>2. ASSUME NEW q \in Runner, JustApplied(q, c, e) PROVE JustApplied(q, c, e)'
      BY <2>1, <2>2, <3>2 DEF JustApplied, HalfDone, Inv, TypeOK
    <3> QED
      BY <2>2, <3>1, <3>2 DEF AppliedInv
  <2>4. ASSUME NEW q \in Runner, pc'[q] \in {"embed", "commit"} PROVE (todo[q] \subseteq Batch(q))'
    <3>1. CASE q = r
      BY <2>1, <2>2, <3>1, TruncateSubset DEF Batch, Inv, TypeOK
    <3>2. CASE q # r
      BY <2>1, <2>2, <2>4, <3>2 DEF CommitInv, Batch, Inv, TypeOK
    <3> QED
      BY <3>1, <3>2
  <2> QED
    BY <2>3, <2>4 DEF CommitInv
<1> QED
  BY <1>1, <1>2, <1>4, <1>6, <1>7, <1>8, <1>9, <1>10, <1>11, <1>12,
     CommitCommitOne, CommitSetCursor DEF Next, Step

\* A proposal is committed once, and once more per interrupted batch: on its own
\* the worker never processes an event twice.
THEOREM ProposalsCommittedOnce == Spec => []CommittedOnce
<1>1. Init => CommitInv
  <2>1. ASSUME Init, NEW c \in Consumer, NEW e \in 1 .. MaxEvents PROVE AppliedInv(c, e)
    BY <2>1 DEF Init, AppliedInv
  <2>2. ASSUME Init, NEW r \in Runner PROVE pc[r] \notin {"embed", "commit"}
    BY <2>2 DEF Init
  <2> QED
    BY <2>1, <2>2 DEF CommitInv
<1>2. CommitInv => CommittedOnce
  BY DEF CommitInv, AppliedInv, CommittedOnce
<1> QED
  BY <1>1, <1>2, CommitStep, InvCorrect, PTL DEF Spec

=============================================================================

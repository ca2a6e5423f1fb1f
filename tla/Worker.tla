------------------------------- MODULE Worker -------------------------------
(***************************************************************************)
(* The background worker: src/src/worker.rs over the cursors and failure   *)
(* counters kept by src/src/store/mod.rs.                                  *)
(*                                                                         *)
(* A cycle is run by the in-process loop (main.rs spawns it) and by every  *)
(* admin request (api.rs cycle_h); a try_lock makes cycles single-flight.  *)
(* One cycle takes each consumer in turn through                           *)
(*                                                                         *)
(*   fetch -> agent -> embed -> commit ... commit -> advance               *)
(*                                                                         *)
(* and then through trigger -> consolidate -> reflect -> snapshot -> mark. *)
(* A label is a place where other tasks run: an await of a model call, or  *)
(* the gap between two takings of the store's mutex.                       *)
(*                                                                         *)
(* Abstracted: an event is its position in the log; a proposal is the      *)
(* event of the batch it is about; what a commit does to the cognitive     *)
(* tables is the business of Engine.  The store is the in-memory state,    *)
(* which Store shows equal to the journal, so it survives a crash.         *)
(***************************************************************************)
EXTENDS Integers, FiniteSets

CONSTANTS
  Runner,          \* tasks that run cycles: the loop and admin requests
  Loop,            \* the runner spawned by main
  NumConsumers,    \* length of CONSUMERS
  Embedding,       \* consumers whose proposals carry a text to embed
  BatchSize,       \* events_after(_, 20)
  MaxPerCycle,     \* settings.max_proposals_per_cycle
  MaxFailures,     \* settings.consumer_max_failures
  ReflectEvery,    \* settings.reflect_every_n_events
  Faults,          \* what may go wrong in this instance
  MaxEvents,       \* bound: events ever published
  MaxRequests,     \* bound: admin requests ever made
  MaxAttempts,     \* bound: failures recorded at one position
  MaxInterrupts    \* bound: batches of a consumer abandoned half committed

Consumer == 1 .. NumConsumers

FaultKind == {"agent", "miss", "embed", "store", "crash", "cancel", "panic"}

NoOne == "no one"

ASSUME RunnerAssumption == Loop \in Runner /\ NoOne \notin Runner
ASSUME ConsumerAssumption == NumConsumers \in Nat \ {0} /\ Embedding \subseteq Consumer
ASSUME SettingsAssumption ==
  /\ BatchSize \in Nat \ {0}
  /\ MaxPerCycle \in Nat
  /\ MaxFailures \in Nat
  /\ ReflectEvery \in Nat
ASSUME FaultsAssumption == Faults \subseteq FaultKind
ASSUME BoundsAssumption ==
  /\ MaxEvents \in Nat
  /\ MaxRequests \in Nat
  /\ MaxAttempts \in Nat
  /\ MaxInterrupts \in Nat

VARIABLES
  lastEvent,      \* State.last_event_id(): events are 1 .. lastEvent
  cursor,         \* consumer -> last_event_id of its cursor row
  failures,       \* consumer -> failures of its cursor row
  reflectCursor,  \* last_event_id of the cursor row "reflection"
  idle,           \* idle_reflect_seconds have passed since that row was written
  snapshotAt,     \* last_event_id of the newest snapshot
  lock,           \* who holds Services.cycle_lock
  pc,             \* runner -> where its cycle is
  at,             \* runner -> the consumer whose turn it is
  first, last,    \* runner -> first and last event of `events`
  todo,           \* runner -> events whose proposals are still to be committed
  seen,           \* runner -> `last_id`
  requests,       \* admin requests made so far
  \* history, read by no action
  delivered,      \* consumer -> events in a batch its agent handled
  skipped,        \* consumer -> events in a batch that was given up
  attempts,       \* consumer -> event -> failed runs that had it in the batch
  applied,        \* consumer -> event -> commits of a proposal about it
  interrupted     \* consumer -> batches abandoned once committing had begun

rows == <<lastEvent, cursor, failures, reflectCursor, idle, snapshotAt>>
history == <<delivered, skipped, attempts, applied, interrupted>>
locals == <<at, first, last, todo, seen>>
cycles == <<lock, pc, locals, requests>>
vars == <<rows, cycles, history>>

Phase == {"sleeping", "fetch", "agent", "embed", "commit", "advance", "give up", "trigger",
          "consolidate", "reflect", "snapshot", "mark", "dead"}

Batch(r) == first[r] .. last[r]

Init ==
  /\ lastEvent = 0
  /\ cursor = [c \in Consumer |-> 0]
  /\ failures = [c \in Consumer |-> 0]
  /\ reflectCursor = 0
  /\ idle = TRUE
  /\ snapshotAt = 0
  /\ lock = NoOne
  /\ pc = [r \in Runner |-> "sleeping"]
  /\ at = [r \in Runner |-> 1]
  /\ first = [r \in Runner |-> 1]
  /\ last = [r \in Runner |-> 0]
  /\ todo = [r \in Runner |-> {}]
  /\ seen = [r \in Runner |-> 0]
  /\ requests = 0
  /\ delivered = [c \in Consumer |-> {}]
  /\ skipped = [c \in Consumer |-> {}]
  /\ attempts = [c \in Consumer |-> [e \in 1 .. MaxEvents |-> 0]]
  /\ applied = [c \in Consumer |-> [e \in 1 .. MaxEvents |-> 0]]
  /\ interrupted = [c \in Consumer |-> 0]

-----------------------------------------------------------------------------
(* The environment.                                                        *)

\* interact appends a user or an assistant message while cycles run.
Publish ==
  /\ lastEvent < MaxEvents
  /\ lastEvent' = lastEvent + 1
  /\ UNCHANGED <<cursor, failures, reflectCursor, idle, snapshotAt, cycles, history>>

\* The clock passes updated_at + idle_reflect_seconds of the reflection row.
Tick ==
  /\ ~idle
  /\ idle' = TRUE
  /\ UNCHANGED <<lastEvent, cursor, failures, reflectCursor, snapshotAt, cycles, history>>

-----------------------------------------------------------------------------
(* Beginning and ending a cycle.                                           *)

\* mutant: cycles that do not take the lock
BeginUnlocked(r) == lock' = r

\* try_lock; a runner that finds the lock taken returns {} and changes nothing.
TakeLock(r) == lock = NoOne /\ lock' = r

Begin(r) ==
  /\ pc[r] = "sleeping"
  /\ TakeLock(r)
  /\ pc' = [pc EXCEPT ![r] = "fetch"]
  /\ IF r = Loop
     THEN UNCHANGED requests
     ELSE requests < MaxRequests /\ requests' = requests + 1
  /\ UNCHANGED <<rows, locals, history>>

\* A task ends its cycle: the guard and the local variables are dropped.
Leave(r, phase) ==
  /\ lock' = NoOne
  /\ pc' = [pc EXCEPT ![r] = phase]
  /\ at' = [at EXCEPT ![r] = 1]
  /\ first' = [first EXCEPT ![r] = 1]
  /\ last' = [last EXCEPT ![r] = 0]
  /\ todo' = [todo EXCEPT ![r] = {}]
  /\ seen' = [seen EXCEPT ![r] = 0]

\* cycle returns; the loop goes back to sleep.
Return(r) == Leave(r, "sleeping")

\* A batch given up while its proposals are being committed will be taken again.
HalfDone(r) == pc[r] \in {"commit", "advance"}

CountInterrupt(r) ==
  IF HalfDone(r)
  THEN /\ interrupted[at[r]] < MaxInterrupts
       /\ interrupted' = [interrupted EXCEPT ![at[r]] = @ + 1]
  ELSE UNCHANGED interrupted

\* An error leaves the cycle through `?` before the cursor is written.
Abort(r) ==
  /\ Return(r)
  /\ CountInterrupt(r)
  /\ UNCHANGED <<rows, requests, delivered, skipped, attempts, applied>>

-----------------------------------------------------------------------------
(* The consumers.                                                          *)

\* The cycle goes on with the next consumer, or past the last one.
Onward(r) ==
  /\ IF at[r] < NumConsumers
     THEN /\ pc' = [pc EXCEPT ![r] = "fetch"]
          /\ at' = [at EXCEPT ![r] = @ + 1]
     ELSE /\ pc' = [pc EXCEPT ![r] = "trigger"]
          /\ UNCHANGED at
  /\ first' = [first EXCEPT ![r] = 1]
  /\ last' = [last EXCEPT ![r] = 0]
  /\ UNCHANGED <<lock, todo, seen, requests>>

\* mutant: the batch begins at the event the cursor is on
BatchFirstOffByOne(c) == IF cursor[c] = 0 THEN 1 ELSE cursor[c]

\* events_after skips as many events as the cursor counts ...
BatchFirst(c) == cursor[c] + 1

\* mutant: the newest event is left out of the batch
BatchLastShort(c) ==
  IF cursor[c] + BatchSize < lastEvent THEN cursor[c] + BatchSize ELSE lastEvent - 1

\* ... and takes at most BatchSize of the others.
BatchLast(c) ==
  IF cursor[c] + BatchSize < lastEvent THEN cursor[c] + BatchSize ELSE lastEvent

\* No event is waiting: `continue`.
FetchNothing(r) ==
  /\ pc[r] = "fetch"
  /\ BatchFirst(at[r]) > BatchLast(at[r])
  /\ Onward(r)
  /\ UNCHANGED <<rows, history>>

Fetch(r) ==
  /\ pc[r] = "fetch"
  /\ BatchFirst(at[r]) <= BatchLast(at[r])
  /\ pc' = [pc EXCEPT ![r] = "agent"]
  /\ first' = [first EXCEPT ![r] = BatchFirst(at[r])]
  /\ last' = [last EXCEPT ![r] = BatchLast(at[r])]
  /\ UNCHANGED <<rows, lock, at, todo, seen, requests, history>>

\* commit_all keeps the first max_proposals_per_cycle proposals.
Truncate(S) == {e \in S : Cardinality({x \in S : x <= e}) <= MaxPerCycle}

\* The agent answers with proposals about some of the events of the batch.
AgentAnswers(r) == \E S \in SUBSET Batch(r) :
  /\ pc[r] = "agent"
  /\ todo' = [todo EXCEPT ![r] = Truncate(S)]
  /\ pc' = [pc EXCEPT ![r] = IF Truncate(S) = {} THEN "advance"
                             ELSE IF at[r] \in Embedding THEN "embed"
                             ELSE "commit"]
  /\ UNCHANGED <<rows, lock, at, first, last, seen, requests, history>>

GiveUp(n) == n >= MaxFailures

\* bump_failures: the row keeps its last_event_id.
NextFailures(c) == failures[c] + 1

\* The agent fails: the failure is recorded, and the batch is left for the next
\* cycle or, after MaxFailures, passed on without proposals.
AgentFails(r) ==
  /\ "agent" \in Faults
  /\ pc[r] = "agent"
  /\ failures[at[r]] < MaxAttempts
  /\ failures' = [failures EXCEPT ![at[r]] = NextFailures(at[r])]
  /\ attempts' = [attempts EXCEPT ![at[r]] =
       [e \in 1 .. MaxEvents |-> IF e \in Batch(r) THEN @[e] + 1 ELSE @[e]]]
  /\ IF GiveUp(NextFailures(at[r]))
     THEN /\ pc' = [pc EXCEPT ![r] = "give up"]
          /\ UNCHANGED <<lock, locals, requests>>
     ELSE Onward(r)
  /\ UNCHANGED <<lastEvent, cursor, reflectCursor, idle, snapshotAt,
                 delivered, skipped, applied, interrupted>>

\* A miss of the recorded model ends the cycle at once; no failure is counted.
AgentMisses(r) ==
  /\ "miss" \in Faults
  /\ pc[r] \in {"agent", "embed", "consolidate", "reflect"}
  /\ Abort(r)

\* engine::commit embeds every text before the first proposal is committed.
EmbedAll(r) ==
  /\ pc[r] = "embed"
  /\ pc' = [pc EXCEPT ![r] = "commit"]
  /\ UNCHANGED <<rows, lock, locals, requests, history>>

\* The embedding call fails: commit_all(..).await? leaves the cycle.
EmbedFails(r) ==
  /\ "embed" \in Faults
  /\ pc[r] = "embed"
  /\ Abort(r)

\* commit_one, in the order of the proposals.
CommitOne(r) == \E e \in todo[r] :
  /\ pc[r] = "commit"
  /\ \A x \in todo[r] : e <= x
  /\ todo' = [todo EXCEPT ![r] = @ \ {e}]
  /\ pc' = [pc EXCEPT ![r] = IF todo[r] = {e} THEN "advance" ELSE "commit"]
  /\ applied' = [applied EXCEPT ![at[r]][e] = @ + 1]
  /\ UNCHANGED <<rows, lock, at, first, last, seen, requests,
                 delivered, skipped, attempts, interrupted>>

\* mutant: the cursor moves one event past the batch
CursorAfterOffByOne(r) == IF last[r] < lastEvent THEN last[r] + 1 ELSE last[r]

CursorAfter(r) == last[r]

\* mutant: set_cursor keeps the failures of the row it replaces
FailuresKept(c) == failures[c]

FailuresAfter(c) == 0

\* set_cursor(name, events.last().id), which also clears the failures.
SetCursor(r) ==
  /\ cursor' = [cursor EXCEPT ![at[r]] = CursorAfter(r)]
  /\ failures' = [failures EXCEPT ![at[r]] = FailuresAfter(at[r])]
  /\ UNCHANGED <<lastEvent, reflectCursor, idle, snapshotAt>>

Advance(r) ==
  /\ pc[r] = "advance"
  /\ SetCursor(r)
  /\ delivered' = [delivered EXCEPT ![at[r]] = @ \cup Batch(r)]
  /\ Onward(r)
  /\ UNCHANGED <<skipped, attempts, applied, interrupted>>

\* The same call for a batch that is given up.
Skip(r) ==
  /\ pc[r] = "give up"
  /\ SetCursor(r)
  /\ skipped' = [skipped EXCEPT ![at[r]] = @ \cup Batch(r)]
  /\ Onward(r)
  /\ UNCHANGED <<delivered, attempts, applied, interrupted>>

-----------------------------------------------------------------------------
(* Consolidation, reflection and the snapshot.                             *)

\* mutant: only a full batch of events triggers a reflection
NeedsReflectionOnFullBatch == lastEvent - reflectCursor >= ReflectEvery

NeedsReflection ==
  \/ lastEvent - reflectCursor >= ReflectEvery
  \/ lastEvent > reflectCursor /\ idle

\* force is the flag of the admin request, which is first read here.
Trigger(r) == \E force \in (IF r = Loop THEN {FALSE} ELSE BOOLEAN) :
  /\ pc[r] = "trigger"
  /\ IF force \/ NeedsReflection
     THEN /\ pc' = [pc EXCEPT ![r] = "consolidate"]
          /\ seen' = [seen EXCEPT ![r] = lastEvent]
          /\ UNCHANGED <<lock, at, first, last, todo>>
     ELSE Return(r)
  /\ UNCHANGED <<rows, requests, history>>

\* The two maintenance agents and their commits; an error is logged and passed.
Maintain(r) ==
  /\ pc[r] \in {"consolidate", "reflect"}
  /\ pc' = [pc EXCEPT ![r] = IF @ = "consolidate" THEN "reflect" ELSE "snapshot"]
  /\ UNCHANGED <<rows, lock, locals, requests, history>>

Snapshot(r) ==
  /\ pc[r] = "snapshot"
  /\ snapshotAt' = lastEvent
  /\ pc' = [pc EXCEPT ![r] = "mark"]
  /\ UNCHANGED <<lastEvent, cursor, failures, reflectCursor, idle, lock, locals,
                 requests, history>>

\* mutant: the reflection row gets the length the log has at the end of the cycle
ReflectedUpToNow(r) == lastEvent

ReflectedUpTo(r) == seen[r]

\* set_cursor(REFLECT, last_id): the id read before the maintenance agents ran.
Mark(r) ==
  /\ pc[r] = "mark"
  /\ reflectCursor' = ReflectedUpTo(r)
  /\ idle' = FALSE
  /\ Return(r)
  /\ UNCHANGED <<lastEvent, cursor, failures, snapshotAt, requests, history>>

-----------------------------------------------------------------------------
(* Other faults.                                                           *)

\* A write of the store fails (a vector of the wrong length, the disk): `?`.  The
\* record is taken as not written.  When it is the sync that failed it stays in
\* the file and the next start folds it: that is left to Store.
StoreFails(r) ==
  /\ "store" \in Faults
  /\ pc[r] \in {"agent", "commit", "advance", "give up", "snapshot", "mark"}
  /\ Abort(r)

\* The client of an admin request goes away: its future is dropped at an await.
Cancel(r) ==
  /\ "cancel" \in Faults
  /\ r # Loop
  /\ pc[r] \in {"agent", "embed", "consolidate", "reflect"}
  /\ Abort(r)

\* An embedding answer without data: remove(0) panics, in an agent that searches or
\* in the commit of what an agent proposed.  The guard is dropped, the task is gone:
\* nobody spawns the loop again.
Panic(r) ==
  /\ "panic" \in Faults
  /\ pc[r] \in {"agent", "commit", "consolidate", "reflect"}
  /\ Leave(r, IF r = Loop THEN "dead" ELSE "sleeping")
  /\ CountInterrupt(r)
  /\ UNCHANGED <<rows, requests, delivered, skipped, attempts, applied>>

\* The process dies and is started again on the same data directory.
Crash ==
  /\ "crash" \in Faults
  /\ lock' = NoOne
  /\ pc' = [r \in Runner |-> "sleeping"]
  /\ at' = [r \in Runner |-> 1]
  /\ first' = [r \in Runner |-> 1]
  /\ last' = [r \in Runner |-> 0]
  /\ todo' = [r \in Runner |-> {}]
  /\ seen' = [r \in Runner |-> 0]
  /\ IF lock = NoOne THEN UNCHANGED interrupted ELSE CountInterrupt(lock)
  /\ UNCHANGED <<rows, requests, delivered, skipped, attempts, applied>>

-----------------------------------------------------------------------------

Step(r) ==
  \/ FetchNothing(r)
  \/ Fetch(r)
  \/ AgentAnswers(r)
  \/ AgentFails(r)
  \/ AgentMisses(r)
  \/ EmbedAll(r)
  \/ EmbedFails(r)
  \/ CommitOne(r)
  \/ Advance(r)
  \/ Skip(r)
  \/ Trigger(r)
  \/ Maintain(r)
  \/ Snapshot(r)
  \/ Mark(r)
  \/ StoreFails(r)

Next ==
  \/ Publish
  \/ Tick
  \/ Crash
  \/ \E r \in Runner :
       \/ Begin(r)
       \/ Step(r)
       \/ Cancel(r)
       \/ Panic(r)

Spec == Init /\ [][Next]_vars

\* tokio polls every task that is ready, every model call returns within its
\* timeout, the loop wakes after worker_poll_seconds, and time passes.
Fairness ==
  /\ WF_vars(Tick)
  /\ WF_vars(Begin(Loop))
  /\ \A r \in Runner : WF_vars(Step(r))

FairSpec == Spec /\ Fairness

-----------------------------------------------------------------------------
(* Properties.                                                             *)

TypeOK ==
  /\ lastEvent \in 0 .. MaxEvents
  /\ cursor \in [Consumer -> 0 .. MaxEvents]
  /\ failures \in [Consumer -> Nat]
  /\ reflectCursor \in 0 .. MaxEvents
  /\ idle \in BOOLEAN
  /\ snapshotAt \in 0 .. MaxEvents
  /\ lock \in Runner \cup {NoOne}
  /\ pc \in [Runner -> Phase]
  /\ at \in [Runner -> Consumer]
  /\ first \in [Runner -> 1 .. MaxEvents + 1]
  /\ last \in [Runner -> 0 .. MaxEvents]
  /\ todo \in [Runner -> SUBSET (1 .. MaxEvents)]
  /\ seen \in [Runner -> 0 .. MaxEvents]
  /\ requests \in Nat
  /\ delivered \in [Consumer -> SUBSET (1 .. MaxEvents)]
  /\ skipped \in [Consumer -> SUBSET (1 .. MaxEvents)]
  /\ attempts \in [Consumer -> [1 .. MaxEvents -> Nat]]
  /\ applied \in [Consumer -> [1 .. MaxEvents -> Nat]]
  /\ interrupted \in [Consumer -> Nat]

\* At most one cycle is under way, and it is the lock's holder who runs it:
\* no way of leaving a cycle forgets the guard or drops another's (README.md:40).
SingleFlight == \A r \in Runner : pc[r] \notin {"sleeping", "dead"} <=> lock = r

\* The events behind a consumer's cursor are exactly those its agent handled or
\* that were given up after repeated failures: nothing is lost in between, and
\* nothing ahead of the cursor counts as done (worker.rs, the consumer loop).
NoEventLost ==
  \A c \in Consumer : delivered[c] \cup skipped[c] = 1 .. cursor[c]

\* An event's proposals are committed at most once, and once more for every time
\* a batch was abandoned between its first commit and its set_cursor: cycles
\* alone never process an event twice (tests/worker.rs, concurrent cycles).
CommittedOnce ==
  \A c \in Consumer : \A e \in 1 .. MaxEvents : applied[c][e] <= 1 + interrupted[c]

\* The failure counter of a cursor row is the number of failed runs that had the
\* first event after the cursor in their batch: it is never inherited from an
\* earlier batch and never loses a failure, whatever crashed or raced.
FailuresCountHead ==
  \A c \in Consumer :
    failures[c] = IF cursor[c] < lastEvent THEN attempts[c][cursor[c] + 1] ELSE 0

\* A batch is given up only when the event at its head has failed MaxFailures
\* times (worker.rs:64; README.md:40).
GivenUpAfterMaxFailures ==
  [][\A c \in Consumer :
       skipped'[c] # skipped[c] => attempts[c][cursor[c] + 1] >= MaxFailures]_vars

\* No cursor moves backwards, not even when two cycles are started at once.
CursorsNeverRetreat ==
  [][/\ \A c \in Consumer : cursor'[c] >= cursor[c]
     /\ reflectCursor' >= reflectCursor]_vars

\* Everything the reflection row counts as reflected is in the newest snapshot,
\* though events arrive between the trigger, the snapshot and the mark.
ReflectedIsSnapshotted == reflectCursor <= snapshotAt

\* Every consumer gets past every event, however often its agent fails.
EveryEventConsumed ==
  \A e \in 1 .. MaxEvents : lastEvent >= e ~> \A c \in Consumer : cursor[c] >= e

\* Every event is eventually counted by a reflection.
EveryEventReflected ==
  \A e \in 1 .. MaxEvents : lastEvent >= e ~> reflectCursor >= e

\* The worker gives each consumer what Delivery promises.
Promise == INSTANCE Delivery WITH
  length <- lastEvent, position <- cursor, failed <- failures,
  handled <- delivered, dropped <- skipped

ImplementsDelivery == Promise!Spec

=============================================================================

-------------------------- MODULE Recording_proofs --------------------------
(* Machine-checked proofs about Recording.                                 *)
EXTENDS Recording, TLAPS

-----------------------------------------------------------------------------
(* Types.                                                                  *)

AnswerSet == UNION {[S -> Nat] : S \in SUBSET Key}
OutcomeSet == [error : BOOLEAN, answers : AnswerSet]
MoveSet == [does : {"ask", "finish", "stop"}, keys : SUBSET Key]
FileSet == [torn : BOOLEAN, answers : AnswerSet]

RecordingTypeOK ==
  /\ program \in [DOMAIN program -> MoveSet]
  /\ file \in FileSet
  /\ file.torn => file = Torn
  /\ cache \in AnswerSet
  /\ dirty \in BOOLEAN
  /\ strict \in BOOLEAN
  /\ call \in SUBSET Key
  /\ attempt \in Nat
  /\ history \in Seq(OutcomeSet)
  /\ recorded \subseteq Seq(OutcomeSet)

LEMMA AnswerSetIs ==
  ASSUME NEW f
  PROVE  f \in AnswerSet <=> f \in [DOMAIN f -> Nat] /\ DOMAIN f \subseteq Key
BY DEF AnswerSet

LEMMA EmptyTypes == Empty \in AnswerSet /\ Error \in OutcomeSet /\ Torn \in FileSet
<1>1. Empty \in [{} -> Nat] /\ {} \in SUBSET Key
  BY DEF Empty
<1>2. Empty \in AnswerSet
  BY <1>1 DEF AnswerSet
<1> QED
  BY <1>2 DEF Error, OutcomeSet, Torn, FileSet

LEMMA CacheTypes ==
  ASSUME NEW f \in AnswerSet
  PROVE  f \in [DOMAIN f -> Nat] /\ DOMAIN f \subseteq Key /\ Whole(f) \in FileSet /\ ~Whole(f).torn
         /\ Answered(f) \in OutcomeSet /\ ~Answered(f).error /\ Answered(f).answers = f
<1>1. f \in [DOMAIN f -> Nat] /\ DOMAIN f \subseteq Key
  BY AnswerSetIs
<1> QED
  BY <1>1 DEF Whole, FileSet, Answered, OutcomeSet

\* The part of the cache that answers a call.
LEMMA PartOfCache ==
  ASSUME cache \in AnswerSet, NEW S \in SUBSET Key, S \subseteq DOMAIN cache
  PROVE  [k \in S |-> cache[k]] \in AnswerSet
<1>1. cache \in [DOMAIN cache -> Nat]
  BY AnswerSetIs
<1>2. [k \in S |-> cache[k]] \in [S -> Nat]
  BY <1>1
<1> QED
  BY <1>2 DEF AnswerSet

LEMMA MoveTypes ==
  ASSUME NEW S \in SUBSET Key
  PROVE  AskFor(S) \in MoveSet /\ Finish \in MoveSet /\ Stop \in MoveSet
BY DEF AskFor, Finish, Stop, MoveSet

-----------------------------------------------------------------------------
(* A move is remembered and forgets none.                                  *)

LEMMA MoveRemembered ==
  ASSUME RecordingTypeOK, NEW m \in MoveSet, Move(m)
  PROVE  /\ program' \in [DOMAIN program' -> MoveSet]
         /\ DOMAIN program \subseteq DOMAIN program'
         /\ \A h \in DOMAIN program : program'[h] = program[h]
         /\ history \in DOMAIN program'
         /\ program'[history] = m
BY DEF RecordingTypeOK, Move

LEMMA ErrorAppended ==
  ASSUME RecordingTypeOK, history' = Append(history, Error)
  PROVE  history' \in Seq(OutcomeSet)
BY EmptyTypes DEF RecordingTypeOK

LEMMA AnswerAppended ==
  ASSUME RecordingTypeOK, NEW f \in AnswerSet, history' = Append(history, Answered(f))
  PROVE  history' \in Seq(OutcomeSet)
BY CacheTypes DEF RecordingTypeOK

LEMMA RecordingTypeInit == Init => RecordingTypeOK
<1> SUFFICES ASSUME Init PROVE RecordingTypeOK
  OBVIOUS
<1>1. program \in [DOMAIN program -> MoveSet]
  BY DEF Init, Empty
<1>2. Empty \in AnswerSet /\ Whole(Empty) \in FileSet /\ ~Whole(Empty).torn
  BY EmptyTypes, CacheTypes
<1>3. file \in FileSet /\ (file.torn => file = Torn) /\ cache \in AnswerSet
  BY <1>2 DEF Init
<1>4. <<>> \in Seq(OutcomeSet)
  OBVIOUS
<1>5. history \in Seq(OutcomeSet) /\ recorded \subseteq Seq(OutcomeSet)
  BY <1>4 DEF Init
<1>6. dirty \in BOOLEAN /\ strict \in BOOLEAN /\ call \in SUBSET Key /\ attempt \in Nat
  BY DEF Init
<1> QED
  BY <1>1, <1>3, <1>5, <1>6 DEF RecordingTypeOK

\* The service's answers are kept in the cache, over none that was there.
LEMMA CacheGrows ==
  ASSUME RecordingTypeOK, NEW T \in SUBSET Missing, NEW v \in [T -> Raw],
         cache' = [k \in DOMAIN cache \cup T |-> IF k \in T THEN Kept(v[k]) ELSE cache[k]]
  PROVE  /\ cache' \in AnswerSet
         /\ \A k \in DOMAIN cache : k \in DOMAIN cache' /\ cache'[k] = cache[k]
<1>1. cache \in [DOMAIN cache -> Nat] /\ DOMAIN cache \subseteq Key
  BY AnswerSetIs DEF RecordingTypeOK
<1>2. T \subseteq Key /\ T \cap DOMAIN cache = {}
  BY DEF Missing, RecordingTypeOK
<1>3. \A n \in Nat : Kept(n) \in Nat
  BY DEF Kept
<1>4. \A k \in T : Kept(v[k]) \in Nat
  BY <1>3, RecordingAssumption
<1>5. cache' \in [DOMAIN cache \cup T -> Nat] /\ DOMAIN cache \cup T \in SUBSET Key
  BY <1>1, <1>2, <1>4
<1> QED
  BY <1>2, <1>5 DEF AnswerSet

LEMMA RecordingTypeStep == RecordingTypeOK /\ [Next]_vars => RecordingTypeOK'
<1> SUFFICES ASSUME RecordingTypeOK, [Next]_vars PROVE RecordingTypeOK'
  OBVIOUS
<1> USE DEF disk, run
<1>1. CASE Start
  <2>1. cache' \in AnswerSet /\ history' \in Seq(OutcomeSet) /\ strict' \in BOOLEAN
    BY <1>1 DEF Start, RecordingTypeOK, FileSet
  <2> QED
    BY <1>1, <2>1 DEF Start, RecordingTypeOK
<1>2. CASE Ask
  <2>1. PICK S \in SUBSET Key :
          /\ Move(AskFor(S))
          /\ call' = S
          /\ attempt' = 0
          /\ IF S \subseteq DOMAIN cache
             THEN Outcome(Answered([k \in S |-> cache[k]]))
             ELSE phase' = (IF strict THEN "missed" ELSE "fetching") /\ UNCHANGED history
          /\ UNCHANGED <<disk, cache, dirty, run, recorded>>
    BY <1>2 DEF Ask
  <2>2. program' \in [DOMAIN program' -> MoveSet]
    BY <2>1, MoveTypes, MoveRemembered
  <2>3. history' \in Seq(OutcomeSet)
    <3>1. CASE S \subseteq DOMAIN cache
      BY <2>1, <3>1, PartOfCache, AnswerAppended DEF Outcome, RecordingTypeOK
    <3>2. CASE ~(S \subseteq DOMAIN cache)
      BY <2>1, <3>2 DEF RecordingTypeOK
    <3> QED
      BY <3>1, <3>2
  <2> QED
    BY <2>1, <2>2, <2>3 DEF RecordingTypeOK
<1>3. CASE Answer
  <2>1. cache' \in AnswerSet
    BY <1>3, CacheGrows DEF Answer
  <2> QED
    BY <1>3, <2>1 DEF Answer, RecordingTypeOK
<1>4. CASE Retry
  <2>1. history' \in Seq(OutcomeSet) /\ attempt' \in Nat
    BY <1>4, ErrorAppended DEF Retry, Outcome, NextAttempt, RecordingTypeOK
  <2> QED
    BY <1>4, <2>1 DEF Retry, RecordingTypeOK
<1>5. CASE Refuse
  BY <1>5, ErrorAppended DEF Refuse, Outcome, RecordingTypeOK
<1>6. CASE Save
  <2>1. file' \in FileSet /\ ~file'.torn
    BY <1>6, CacheTypes DEF Save, RecordingTypeOK
  <2>2. history' \in Seq(OutcomeSet)
    <3>1. CASE Missing = {}
      <4>1. call \in SUBSET Key /\ call \subseteq DOMAIN cache
        BY <3>1 DEF Missing, RecordingTypeOK
      <4>2. [k \in call |-> cache[k]] \in AnswerSet
        BY <4>1, PartOfCache DEF RecordingTypeOK
      <4> QED
        BY <1>6, <3>1, <4>2, AnswerAppended DEF Save, Outcome, AnswerTo
    <3>2. CASE Missing # {}
      BY <1>6, <3>2 DEF Save, RecordingTypeOK
    <3> QED
      BY <3>1, <3>2
  <2> QED
    BY <1>6, <2>1, <2>2 DEF Save, RecordingTypeOK
<1>7. CASE SaveFails
  <2>1. file' \in FileSet /\ (file'.torn => file' = Torn) /\ dirty' \in BOOLEAN
    BY <1>7, EmptyTypes DEF SaveFails, FailedWrite, StillDirty, RecordingTypeOK
  <2>2. history' \in Seq(OutcomeSet)
    BY <1>7, ErrorAppended DEF SaveFails, Outcome
  <2> QED
    BY <1>7, <2>1, <2>2 DEF SaveFails, RecordingTypeOK
<1>8. CASE End
  <2>1. PICK m \in {Finish, Stop} : Move(m)
    BY <1>8 DEF End
  <2>2. program' \in [DOMAIN program' -> MoveSet]
    BY <2>1, MoveTypes, MoveRemembered
  <2> QED
    BY <1>8, <2>2 DEF End, RecordingTypeOK
<1>9. CASE LastSave
  <2>1. file' \in FileSet /\ (file'.torn => file' = Torn)
    BY <1>9, CacheTypes DEF LastSave, RecordingTypeOK
  <2>2. recorded' \subseteq Seq(OutcomeSet)
    BY <1>9 DEF LastSave, RecordingTypeOK
  <2> QED
    BY <1>9, <2>1, <2>2 DEF LastSave, RecordingTypeOK
<1>10. CASE LastSaveFails
  <2>1. file' \in FileSet /\ (file'.torn => file' = Torn) /\ dirty' \in BOOLEAN
    BY <1>10, EmptyTypes DEF LastSaveFails, FailedWrite, StillDirty, RecordingTypeOK
  <2> QED
    BY <1>10, <2>1 DEF LastSaveFails, RecordingTypeOK
<1>11. CASE Kill
  <2>1. file' \in FileSet /\ (file'.torn => file' = Torn)
    BY <1>11, EmptyTypes DEF Kill, RecordingTypeOK
  <2> QED
    BY <1>11, <2>1 DEF Kill, RecordingTypeOK
<1>12. CASE UNCHANGED vars
  BY <1>12 DEF vars, RecordingTypeOK
<1> QED
  BY <1>1, <1>2, <1>3, <1>4, <1>5, <1>6, <1>7, <1>8, <1>9, <1>10, <1>11, <1>12 DEF Next, Progress

\* Histories are sequences of outcomes and cache and file map keys to answers,
\* whatever was killed or torn.
THEOREM RecordingTypeCorrect == Spec => []RecordingTypeOK
BY RecordingTypeInit, RecordingTypeStep, PTL DEF Spec

-----------------------------------------------------------------------------
(* What the cache and the file hold.                                       *)

Holds(c, o) == \A k \in DOMAIN o.answers : k \in DOMAIN c /\ c[k] = o.answers[k]
HoldsAll(c, h) == \A i \in 1 .. Len(h) : Holds(c, h[i])

\* A file that can be read holds what was recorded; while a run is under way the cache
\* holds that as well, and what the run was answered, and differs from the
\* file only when it is dirty.
DiskInv ==
  /\ ~file.torn => \A h \in recorded : HoldsAll(file.answers, h)
  /\ phase # "off" =>
       /\ dirty \/ file = Whole(cache)
       /\ HoldsAll(cache, history)
       /\ \A h \in recorded : HoldsAll(cache, h)

LEMMA WholeHolds ==
  ASSUME NEW c
  PROVE  ~Whole(c).torn /\ Whole(c).answers = c
BY DEF Whole

LEMMA ErrorHeld ==
  ASSUME RecordingTypeOK, NEW c, HoldsAll(c, history), history' = Append(history, Error)
  PROVE  HoldsAll(c, history')
<1>1. DOMAIN Error.answers = {}
  BY DEF Error, Empty
<1>2. Holds(c, Error)
  BY <1>1 DEF Holds
<1>3. Len(history') = Len(history) + 1 /\ Len(history) \in Nat
  BY EmptyTypes DEF RecordingTypeOK
<1>4. \A i \in 1 .. Len(history) : history'[i] = history[i]
  BY EmptyTypes DEF RecordingTypeOK
<1>5. history'[Len(history) + 1] = Error
  BY EmptyTypes DEF RecordingTypeOK
<1> QED
  BY <1>2, <1>3, <1>4, <1>5 DEF HoldsAll

LEMMA AnswerHeld ==
  ASSUME RecordingTypeOK, HoldsAll(cache, history), NEW S \in SUBSET Key, S \subseteq DOMAIN cache,
         history' = Append(history, Answered([k \in S |-> cache[k]]))
  PROVE  HoldsAll(cache, history')
<1> DEFINE o == Answered([k \in S |-> cache[k]])
<1>1. o \in OutcomeSet /\ o.answers = [k \in S |-> cache[k]]
  BY PartOfCache, CacheTypes DEF RecordingTypeOK
<1>2. Holds(cache, o)
  BY <1>1 DEF Holds
<1> HIDE DEF o
<1>3. Len(history') = Len(history) + 1 /\ Len(history) \in Nat
  BY <1>1 DEF RecordingTypeOK, o
<1>4. \A i \in 1 .. Len(history) : history'[i] = history[i]
  BY <1>1 DEF RecordingTypeOK, o
<1>5. history'[Len(history) + 1] = o
  BY <1>1 DEF RecordingTypeOK, o
<1> QED
  BY <1>2, <1>3, <1>4, <1>5 DEF HoldsAll

LEMMA GrownHolds ==
  ASSUME NEW c, NEW d, NEW h, HoldsAll(c, h),
         \A k \in DOMAIN c : k \in DOMAIN d /\ d[k] = c[k]
  PROVE  HoldsAll(d, h)
BY DEF HoldsAll, Holds

LEMMA DiskInit == Init => DiskInv
BY DEF Init, DiskInv

\* A file that is written whole, or not at all.
LEMMA DiskWritten ==
  ASSUME RecordingTypeOK, DiskInv, phase # "off",
         file' = Whole(cache), cache' = cache, recorded' = recorded, ~dirty',
         phase' # "off" => HoldsAll(cache, history')
  PROVE  DiskInv'
BY WholeHolds DEF DiskInv

LEMMA DiskFaulted ==
  ASSUME RecordingTypeOK, DiskInv, phase # "off", dirty, dirty' = dirty,
         file' \in {file, Torn}, cache' = cache, recorded' = recorded,
         phase' # "off" => HoldsAll(cache, history')
  PROVE  DiskInv'
BY DEF DiskInv, Torn

LEMMA DiskUntouched ==
  ASSUME RecordingTypeOK, DiskInv, phase # "off", dirty' = dirty,
         file' = file, cache' = cache, recorded' = recorded,
         phase' # "off" => HoldsAll(cache, history')
  PROVE  DiskInv'
BY DEF DiskInv

\* An answer that is being saved is not on disk.
SavingInv == phase = "saving" => dirty

LEMMA SavingStep == RecordingTypeOK /\ SavingInv /\ [Next]_vars => SavingInv'
BY DEF RecordingTypeOK, SavingInv, Next, Progress, vars, disk, run, Start, Ask, Answer, Retry, Refuse,
       Save, SaveFails, End, LastSave, LastSaveFails, Kill, Outcome, FailedWrite, StillDirty

LEMMA DiskStep == RecordingTypeOK /\ DiskInv /\ SavingInv /\ [Next]_vars => DiskInv'
<1> SUFFICES ASSUME RecordingTypeOK, DiskInv, SavingInv, [Next]_vars PROVE DiskInv'
  OBVIOUS
<1> USE DEF disk, run
<1>1. CASE Start
  <2>1. ~file.torn
    BY <1>1 DEF Start, RecordingTypeOK
  <2>2. file = Whole(file.answers)
    BY <2>1 DEF RecordingTypeOK, FileSet, Whole
  <2>3. HoldsAll(cache', <<>>)
    BY DEF HoldsAll
  <2> QED
    BY <1>1, <2>1, <2>2, <2>3 DEF Start, DiskInv
<1>2. CASE Ask
  <2>1. PICK S \in SUBSET Key :
          IF S \subseteq DOMAIN cache
          THEN Outcome(Answered([k \in S |-> cache[k]]))
          ELSE UNCHANGED history
    BY <1>2 DEF Ask
  <2>2. phase # "off" /\ dirty' = dirty /\ file' = file /\ cache' = cache /\ recorded' = recorded
    BY <1>2 DEF Ask
  <2>3. HoldsAll(cache, history')
    <3>1. CASE S \subseteq DOMAIN cache
      BY <2>1, <2>2, <3>1, AnswerHeld DEF Outcome, DiskInv
    <3>2. CASE ~(S \subseteq DOMAIN cache)
      BY <2>1, <2>2, <3>2 DEF DiskInv
    <3> QED
      BY <3>1, <3>2
  <2> QED
    BY <2>2, <2>3, DiskUntouched
<1>3. CASE Answer
  <2>1. \A k \in DOMAIN cache : k \in DOMAIN cache' /\ cache'[k] = cache[k]
    BY <1>3, CacheGrows DEF Answer
  <2>2. /\ phase # "off" /\ file' = file /\ recorded' = recorded /\ dirty'
        /\ history' = history
    BY <1>3 DEF Answer
  <2>3. HoldsAll(cache', history) /\ \A h \in recorded : HoldsAll(cache', h)
    BY <2>1, <2>2, GrownHolds DEF DiskInv
  <2> QED
    BY <2>2, <2>3 DEF DiskInv
<1>4. CASE Retry
  <2>1. /\ phase # "off" /\ file' = file /\ recorded' = recorded /\ dirty' = dirty /\ cache' = cache
        /\ history' = history \/ history' = Append(history, Error)
    BY <1>4 DEF Retry, Outcome
  <2> QED
    BY <2>1, ErrorHeld, DiskUntouched DEF DiskInv
<1>5. CASE Refuse
  <2>1. /\ phase # "off" /\ file' = file /\ recorded' = recorded /\ dirty' = dirty /\ cache' = cache
        /\ history' = Append(history, Error)
    BY <1>5 DEF Refuse, Outcome
  <2> QED
    BY <2>1, ErrorHeld, DiskUntouched DEF DiskInv
<1>6. CASE Save
  <2>1. phase # "off" /\ file' = Whole(cache) /\ cache' = cache /\ recorded' = recorded /\ ~dirty'
    BY <1>6 DEF Save
  <2>2. phase' # "off" => HoldsAll(cache, history')
    <3>1. CASE Missing = {}
      <4>1. call \in SUBSET Key /\ call \subseteq DOMAIN cache
        BY <3>1 DEF Missing, RecordingTypeOK
      <4>2. history' = Append(history, Answered([k \in call |-> cache[k]]))
        BY <1>6, <3>1 DEF Save, Outcome, AnswerTo
      <4> QED
        BY <2>1, <4>1, <4>2, AnswerHeld DEF DiskInv
    <3>2. CASE Missing # {}
      BY <1>6, <3>2 DEF Save
    <3> QED
      BY <3>1, <3>2
  <2> QED
    BY <2>1, <2>2, DiskWritten
<1>7. CASE SaveFails
  <2>1. /\ phase # "off" /\ dirty /\ dirty' = dirty /\ file' \in {file, Torn}
        /\ cache' = cache /\ recorded' = recorded /\ history' = Append(history, Error)
    BY <1>7 DEF SaveFails, FailedWrite, StillDirty, Outcome, SavingInv
  <2> QED
    BY <2>1, ErrorHeld, DiskFaulted DEF DiskInv
<1>8. CASE End
  <2>1. /\ phase # "off" /\ file' = file /\ recorded' = recorded /\ dirty' = dirty /\ cache' = cache
        /\ history' = history
    BY <1>8 DEF End
  <2> QED
    BY <2>1, DiskUntouched DEF DiskInv
<1>9. CASE LastSave
  <2>1. phase # "off" /\ phase' = "off" /\ recorded' \subseteq recorded \cup {history}
    BY <1>9 DEF LastSave, Ending
  <2>2. file' = Whole(cache)
    BY <1>9, <2>1 DEF LastSave, DiskInv
  <2>3. \A h \in recorded' : HoldsAll(cache, h)
    BY <2>1 DEF DiskInv
  <2> QED
    BY <2>1, <2>2, <2>3, WholeHolds DEF DiskInv
<1>10. CASE LastSaveFails
  <2>1. /\ phase # "off" /\ dirty /\ dirty' = dirty /\ file' \in {file, Torn}
        /\ cache' = cache /\ recorded' = recorded /\ phase' = "off"
    BY <1>10 DEF LastSaveFails, FailedWrite, StillDirty, Ending
  <2> QED
    BY <2>1, DiskFaulted
<1>11. CASE Kill
  <2>1. /\ phase' = "off" /\ file' \in {file, Torn} /\ recorded' = recorded
    BY <1>11 DEF Kill
  <2> QED
    BY <2>1 DEF DiskInv, Torn
<1>12. CASE UNCHANGED vars
  BY <1>12 DEF vars, DiskInv
<1> QED
  BY <1>1, <1>2, <1>3, <1>4, <1>5, <1>6, <1>7, <1>8, <1>9, <1>10, <1>11, <1>12 DEF Next, Progress

LEMMA DiskInvCorrect == Spec => [](RecordingTypeOK /\ SavingInv /\ DiskInv)
<1>1. Init => SavingInv
  BY DEF Init, SavingInv
<1> QED
  BY <1>1, RecordingTypeInit, RecordingTypeStep, DiskInit, DiskStep, SavingStep, PTL DEF Spec

\* A run that reports success has every answer it used in a readable file, for any
\* keys, program, attempts and faults (eval.rs:387 after llm.rs:226).
THEOREM RecordedOnDisk == Spec => RecordedIsOnDisk
<1>1. RecordingTypeOK /\ DiskInv /\ [Next]_vars =>
        [recorded' # recorded =>
           ~file'.torn /\ \A h \in recorded' : \A i \in 1 .. Len(h) : OnDisk(h[i])']_vars
  <2> SUFFICES ASSUME DiskInv, [Next]_vars, recorded' # recorded
               PROVE  ~file'.torn /\ \A h \in recorded' : \A i \in 1 .. Len(h) : OnDisk(h[i])'
    OBVIOUS
  <2>1. LastSave
    BY DEF Next, Progress, vars, disk, run, Start, Ask, Answer, Retry, Refuse, Save, SaveFails,
           End, LastSaveFails, Kill
  <2>2. phase # "off" /\ recorded' = {history}
    BY <2>1 DEF LastSave, Ending
  <2>3. file' = Whole(cache)
    BY <2>1, <2>2 DEF LastSave, DiskInv
  <2>4. HoldsAll(cache, history)
    BY <2>2 DEF DiskInv
  <2> QED
    BY <2>2, <2>3, <2>4, WholeHolds DEF HoldsAll, Holds, OnDisk
<1> QED
  BY <1>1, DiskInvCorrect, PTL DEF Spec, RecordedIsOnDisk

-----------------------------------------------------------------------------
(* Histories are made by the program.                                      *)

\* Each outcome in h is that of the call which program p makes after those before.
Follows(p, h) ==
  \A i \in 1 .. Len(h) :
    /\ SubSeq(h, 1, i - 1) \in DOMAIN p
    /\ p[SubSeq(h, 1, i - 1)].does = "ask"
    /\ ~h[i].error => DOMAIN h[i].answers = p[SubSeq(h, 1, i - 1)].keys

Now(m) == history \in DOMAIN program /\ program[history] = m

PathInv ==
  /\ \A h \in recorded :
       Follows(program, h) /\ h \in DOMAIN program /\ program[h] = Finish
  /\ phase # "off" => Follows(program, history)
  /\ phase = "fetching" \/ phase = "saving" => Now(AskFor(call))
  /\ phase = "last save" => Now(Finish)

LEMMA FollowsAppended ==
  ASSUME NEW h \in Seq(OutcomeSet), NEW o \in OutcomeSet, NEW p, NEW S, Follows(p, h),
         h \in DOMAIN p, p[h] = AskFor(S), ~o.error => DOMAIN o.answers = S
  PROVE  Follows(p, Append(h, o))
<1> DEFINE g == Append(h, o)
<1>1. Len(g) = Len(h) + 1 /\ Len(h) \in Nat
  OBVIOUS
<1>2. \A i \in 1 .. Len(h) : g[i] = h[i] /\ SubSeq(g, 1, i - 1) = SubSeq(h, 1, i - 1)
  OBVIOUS
<1>3. g[Len(h) + 1] = o /\ SubSeq(g, 1, Len(h)) = h
  OBVIOUS
<1>4. p[h].does = "ask" /\ p[h].keys = S
  BY DEF AskFor
<1> HIDE DEF g
<1> SUFFICES ASSUME NEW i \in 1 .. Len(g)
             PROVE  /\ SubSeq(g, 1, i - 1) \in DOMAIN p
                    /\ p[SubSeq(g, 1, i - 1)].does = "ask"
                    /\ ~g[i].error => DOMAIN g[i].answers = p[SubSeq(g, 1, i - 1)].keys
  BY DEF Follows, g
<1>5. CASE i \in 1 .. Len(h)
  BY <1>2, <1>5 DEF Follows
<1>6. CASE i = Len(h) + 1
  <2>1. SubSeq(g, 1, i - 1) = h /\ g[i] = o
    BY <1>1, <1>3, <1>6
  <2> QED
    BY <2>1, <1>4
<1> QED
  BY <1>1, <1>5, <1>6

LEMMA FollowsStill ==
  ASSUME NEW p, NEW q, NEW h, Follows(p, h), DOMAIN p \subseteq DOMAIN q,
         \A g \in DOMAIN p : q[g] = p[g]
  PROVE  Follows(q, h)
BY DEF Follows

\* A move leaves all that was known of the program as it is.
LEMMA PathMoved ==
  ASSUME RecordingTypeOK, PathInv, NEW m \in MoveSet, Move(m)
  PROVE  /\ \A h \in recorded : Follows(program', h) /\ h \in DOMAIN program' /\ program'[h] = Finish
         /\ phase # "off" => Follows(program', history)
         /\ history \in DOMAIN program' /\ program'[history] = m
BY MoveRemembered, FollowsStill DEF PathInv

LEMMA PathInit == Init => PathInv
<1>1. Follows(program, <<>>)
  BY DEF Follows
<1> QED
  BY <1>1 DEF Init, PathInv

\* A call that ended without changing the program.
LEMMA PathOutcome ==
  ASSUME RecordingTypeOK, PathInv, phase = "fetching" \/ phase = "saving", NEW o \in OutcomeSet,
         ~o.error => DOMAIN o.answers = call, Outcome(o), program' = program, recorded' = recorded
  PROVE  PathInv'
<1>1. Follows(program, Append(history, o))
  BY FollowsAppended DEF RecordingTypeOK, PathInv, Now
<1> QED
  BY <1>1 DEF Outcome, PathInv

LEMMA PathStep == RecordingTypeOK /\ PathInv /\ [Next]_vars => PathInv'
<1> SUFFICES ASSUME RecordingTypeOK, PathInv, [Next]_vars PROVE PathInv'
  OBVIOUS
<1> USE DEF disk, run
<1>0. Error \in OutcomeSet /\ Error.error
  BY EmptyTypes DEF Error
<1>1. CASE Start
  <2>1. Follows(program, <<>>)
    BY DEF Follows
  <2> QED
    BY <1>1, <2>1 DEF Start, PathInv
<1>2. CASE Ask
  <2>1. PICK S \in SUBSET Key :
          /\ Move(AskFor(S))
          /\ call' = S
          /\ IF S \subseteq DOMAIN cache
             THEN Outcome(Answered([k \in S |-> cache[k]]))
             ELSE phase' = (IF strict THEN "missed" ELSE "fetching") /\ UNCHANGED history
    BY <1>2 DEF Ask
  <2>2. phase # "off" /\ recorded' = recorded
    BY <1>2 DEF Ask
  <2>3. /\ \A h \in recorded : Follows(program', h) /\ h \in DOMAIN program' /\ program'[h] = Finish
        /\ Follows(program', history)
        /\ history \in DOMAIN program' /\ program'[history] = AskFor(S)
    BY <2>1, <2>2, PathMoved, MoveTypes
  <2>4. CASE S \subseteq DOMAIN cache
    <3> DEFINE f == [k \in S |-> cache[k]]
    <3>1. f \in AnswerSet /\ DOMAIN f = S
      BY <2>4, PartOfCache DEF RecordingTypeOK
    <3> HIDE DEF f
    <3>2. Answered(f) \in OutcomeSet /\ Answered(f).answers = f
      BY <3>1, CacheTypes
    <3>3. history' = Append(history, Answered(f)) /\ phase' = "running"
      BY <2>1, <2>4 DEF Outcome, f
    <3>4. Follows(program', Append(history, Answered(f)))
      BY <2>3, <3>1, <3>2, FollowsAppended DEF RecordingTypeOK
    <3> QED
      BY <2>2, <2>3, <3>3, <3>4 DEF PathInv
  <2>5. CASE ~(S \subseteq DOMAIN cache)
    <3>1. phase' \in {"missed", "fetching"} /\ history' = history
      BY <2>1, <2>5
    <3> QED
      BY <2>1, <2>2, <2>3, <3>1 DEF PathInv, Now
  <2> QED
    BY <2>4, <2>5
<1>3. CASE Answer
  BY <1>3 DEF Answer, PathInv, Now
<1>4. CASE Retry
  <2>1. CASE NextAttempt < MaxAttempts
    BY <1>4, <2>1 DEF Retry, PathInv, Now
  <2>2. CASE ~(NextAttempt < MaxAttempts)
    BY <1>0, <1>4, <2>2, PathOutcome DEF Retry
  <2> QED
    BY <2>1, <2>2
<1>5. CASE Refuse
  BY <1>0, <1>5, PathOutcome DEF Refuse
<1>6. CASE Save
  <2>1. CASE Missing = {}
    <3> DEFINE f == [k \in call |-> cache[k]]
    <3>1. f \in AnswerSet /\ DOMAIN f = call
      BY <2>1, PartOfCache DEF Missing, RecordingTypeOK
    <3>2. Outcome(Answered(f)) /\ program' = program /\ recorded' = recorded
      BY <1>6, <2>1 DEF Save, AnswerTo
    <3> HIDE DEF f
    <3>3. Answered(f) \in OutcomeSet /\ Answered(f).answers = f
      BY <3>1, CacheTypes
    <3> QED
      BY <1>6, <3>1, <3>2, <3>3, PathOutcome DEF Save
  <2>2. CASE Missing # {}
    BY <1>6, <2>2 DEF Save, PathInv
  <2> QED
    BY <2>1, <2>2
<1>7. CASE SaveFails
  BY <1>0, <1>7, PathOutcome DEF SaveFails
<1>8. CASE End
  <2>1. PICK m \in {Finish, Stop} : Move(m) /\ phase' = IF m = Finish THEN "last save" ELSE "failed"
    BY <1>8 DEF End
  <2>2. phase # "off" /\ history' = history /\ recorded' = recorded
    BY <1>8 DEF End
  <2> QED
    BY <2>1, <2>2, PathMoved, MoveTypes DEF PathInv, Now
<1>9. CASE LastSave
  <2>1. phase # "off" /\ phase' = "off" /\ program' = program
    BY <1>9 DEF LastSave, Ending
  <2>2. phase = "last save" => Follows(program, history) /\ Now(Finish)
    BY DEF PathInv
  <2> QED
    BY <1>9, <2>1, <2>2 DEF LastSave, PathInv, Now
<1>10. CASE LastSaveFails
  BY <1>10 DEF LastSaveFails, PathInv
<1>11. CASE Kill
  BY <1>11 DEF Kill, PathInv
<1>12. CASE UNCHANGED vars
  BY <1>12 DEF vars, PathInv, Now
<1> QED
  BY <1>1, <1>2, <1>3, <1>4, <1>5, <1>6, <1>7, <1>8, <1>9, <1>10, <1>11, <1>12 DEF Next, Progress

-----------------------------------------------------------------------------
(* A replay.                                                               *)

Clean(h) == \A i \in 1 .. Len(h) : ~h[i].error

\* A replay asks no service and so writes nothing, and as long as the recorded run
\* met no error it is on that run's path: what it was answered is how that run began.
ReplayInv ==
  strict /\ phase # "off" =>
    /\ ~dirty
    /\ phase # "fetching" /\ phase # "saving"
    /\ \A h \in recorded :
         Clean(h) => phase # "missed" /\ phase # "failed" /\ IsPrefix(history, h)

LEMMA ReplayInit == Init => ReplayInv
BY DEF Init, ReplayInv

LEMMA PrefixIs ==
  ASSUME NEW g \in Seq(OutcomeSet), NEW h \in Seq(OutcomeSet)
  PROVE  IsPrefix(g, h) <=> Len(g) <= Len(h) /\ \A i \in 1 .. Len(g) : g[i] = h[i]
BY DEF IsPrefix

LEMMA PrefixGrows ==
  ASSUME NEW g \in Seq(OutcomeSet), NEW h \in Seq(OutcomeSet), IsPrefix(g, h), Len(g) < Len(h)
  PROVE  SubSeq(h, 1, Len(g)) = g /\ IsPrefix(Append(g, h[Len(g) + 1]), h)
<1>1. Len(g) <= Len(h) /\ \A i \in 1 .. Len(g) : g[i] = h[i]
  BY PrefixIs
<1> DEFINE o == h[Len(g) + 1]
<1>2. o \in OutcomeSet
  OBVIOUS
<1>3. Append(g, o) \in Seq(OutcomeSet)
  BY <1>2
<1>4. Len(Append(g, o)) = Len(g) + 1 /\ \A i \in 1 .. Len(g) : Append(g, o)[i] = g[i]
  BY <1>2
<1>5. Append(g, o)[Len(g) + 1] = h[Len(g) + 1]
  BY <1>2
<1>6. \A i \in 1 .. Len(g) + 1 : Append(g, o)[i] = h[i]
  BY <1>1, <1>4, <1>5
<1>7. IsPrefix(Append(g, o), h)
  <2> DEFINE e == Append(g, o)
  <2>1. e \in Seq(OutcomeSet) /\ Len(e) <= Len(h) /\ \A i \in 1 .. Len(e) : e[i] = h[i]
    BY <1>3, <1>4, <1>6
  <2> HIDE DEF e
  <2>2. IsPrefix(e, h)
    BY <2>1, PrefixIs
  <2> QED
    BY <2>2 DEF e
<1> QED
  BY <1>1, <1>7

\* A replay of an error-free run that asks finds what that run was answered.
LEMMA ReplayHit ==
  ASSUME RecordingTypeOK, DiskInv, PathInv, ReplayInv, strict, phase # "off",
         NEW h \in recorded, Clean(h), NEW S \in SUBSET Key, Move(AskFor(S))
  PROVE  /\ S \subseteq DOMAIN cache
         /\ IsPrefix(Append(history, Answered([k \in S |-> cache[k]])), h)
<1> DEFINE n == Len(history) + 1
<1>1. history \in Seq(OutcomeSet) /\ h \in Seq(OutcomeSet) /\ IsPrefix(history, h)
  BY DEF RecordingTypeOK, ReplayInv
<1>2. history # h
  <2>1. h \in DOMAIN program /\ program[h] = Finish
    BY DEF PathInv
  <2>2. AskFor(S) # Finish
    BY DEF AskFor, Finish
  <2> QED
    BY <2>1, <2>2 DEF Move
<1>3. Len(history) < Len(h)
  BY <1>1, <1>2, PrefixIs
<1>4. SubSeq(h, 1, n - 1) = history /\ n \in 1 .. Len(h) /\ IsPrefix(Append(history, h[n]), h)
  BY <1>1, <1>3, PrefixGrows
<1>5. history \in DOMAIN program /\ ~h[n].error /\ DOMAIN h[n].answers = program[history].keys
  BY <1>4 DEF PathInv, Follows, Clean
<1>6. DOMAIN h[n].answers = S
  BY <1>5 DEF Move, AskFor
<1>7. Holds(cache, h[n])
  BY <1>4 DEF DiskInv, HoldsAll
<1>8. h[n] \in OutcomeSet
  BY <1>1, <1>4
<1>9. S \subseteq DOMAIN cache
  BY <1>6, <1>7 DEF Holds
<1>10. h[n].answers = [k \in S |-> cache[k]]
  <2>1. h[n].answers \in [S -> Nat]
    BY <1>6, <1>8, AnswerSetIs DEF OutcomeSet
  <2> QED
    BY <1>6, <1>7, <2>1 DEF Holds
<1>11. h[n] = Answered([k \in S |-> cache[k]])
  BY <1>5, <1>8, <1>10 DEF Answered, OutcomeSet
<1> QED
  BY <1>4, <1>9, <1>11

LEMMA ReplayStep ==
  RecordingTypeOK /\ DiskInv /\ PathInv /\ ReplayInv /\ [Next]_vars => ReplayInv'
<1> SUFFICES ASSUME RecordingTypeOK, DiskInv, PathInv, ReplayInv, [Next]_vars,
                    strict', phase' # "off"
             PROVE  ReplayInv'
  BY DEF ReplayInv
<1> USE DEF disk, run
<1>1. CASE Start
  <2>1. \A h \in Seq(OutcomeSet) : IsPrefix(<<>>, h)
    BY DEF IsPrefix
  <2> QED
    BY <1>1, <2>1 DEF Start, ReplayInv, RecordingTypeOK
<1>2. CASE Ask
  <2>1. PICK S \in SUBSET Key :
          /\ Move(AskFor(S))
          /\ IF S \subseteq DOMAIN cache
             THEN Outcome(Answered([k \in S |-> cache[k]]))
             ELSE phase' = (IF strict THEN "missed" ELSE "fetching") /\ UNCHANGED history
    BY <1>2 DEF Ask
  <2>2. strict /\ phase # "off" /\ ~dirty' /\ recorded' = recorded
    BY <1>2 DEF Ask, ReplayInv
  <2>3. phase' # "fetching" /\ phase' # "saving"
    BY <2>1, <2>2 DEF Outcome
  <2>4. ASSUME NEW h \in recorded, Clean(h)
        PROVE  phase' # "missed" /\ phase' # "failed" /\ IsPrefix(history', h)
    <3>1. /\ S \subseteq DOMAIN cache
          /\ IsPrefix(Append(history, Answered([k \in S |-> cache[k]])), h)
      BY <2>1, <2>2, <2>4, ReplayHit
    <3> QED
      BY <2>1, <3>1 DEF Outcome
  <2> QED
    BY <2>2, <2>3, <2>4 DEF ReplayInv
<1>3. CASE Answer \/ Retry \/ Refuse \/ Save \/ SaveFails
  BY <1>3 DEF Answer, Retry, Refuse, Save, SaveFails, ReplayInv
<1>4. CASE End
  <2>1. PICK m \in {Finish, Stop} : Move(m) /\ phase' = IF m = Finish THEN "last save" ELSE "failed"
    BY <1>4 DEF End
  <2>2. /\ strict /\ phase = "running" /\ dirty' = dirty /\ recorded' = recorded
        /\ history' = history
    BY <1>4 DEF End
  <2>3. ASSUME NEW h \in recorded, Clean(h)
        PROVE  m # Stop
    <3>1. history \in Seq(OutcomeSet) /\ h \in Seq(OutcomeSet) /\ IsPrefix(history, h)
      BY <2>2, <2>3 DEF RecordingTypeOK, ReplayInv
    <3>2. \A i \in 1 .. Len(history) : ~history[i].error
      BY <2>3, <3>1, PrefixIs DEF Clean
    <3>3. history # <<>> => ~history[Len(history)].error
      BY <3>1, <3>2
    <3>4. m = Stop => history # <<>> /\ history[Len(history)] = Error
      BY <2>1 DEF Move, Moves
    <3> QED
      BY <3>3, <3>4 DEF Error
  <2> QED
    BY <2>1, <2>2, <2>3 DEF ReplayInv
<1>5. CASE LastSave \/ LastSaveFails \/ Kill
  BY <1>5 DEF LastSave, LastSaveFails, Kill
<1>6. CASE UNCHANGED vars
  BY <1>6 DEF vars, ReplayInv
<1> QED
  BY <1>1, <1>2, <1>3, <1>4, <1>5, <1>6 DEF Next, Progress

\* A replay of a run that met no error reproduces it and misses no answer, for any
\* keys, program, attempts and faults (README.md:53-56).
THEOREM ReplayReproduced == Spec => []ReplayReproduces
<1>1. ReplayInv => ReplayReproduces
  BY DEF ReplayInv, ReplayReproduces, Clean
<1> QED
  BY <1>1, RecordingTypeInit, RecordingTypeStep, DiskInvCorrect, PathInit, PathStep,
     ReplayInit, ReplayStep, PTL DEF Spec

=============================================================================

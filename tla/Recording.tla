----------------------------- MODULE Recording ------------------------------
(***************************************************************************)
(* The recorded model client, src/src/llm.rs, in the evaluation driver that *)
(* uses it, src/src/bin/eval.rs.                                            *)
(*                                                                         *)
(* A run asks the model one call after the other; a call is answered from   *)
(* the cache or, when keys of it are missing, by the service in up to three *)
(* attempts, and then the whole cache is written to its file before the     *)
(* answer is used.  A strict run replays: it has no service and ends at the *)
(* first key that is missing.                                              *)
(*                                                                         *)
(* The rest of the program is a deterministic function of the answers it    *)
(* has got so far (ids are seeded, timestamps are cut out of the keys): its  *)
(* value at a history is drawn when a run first gets there and kept in      *)
(* `program`, so that every program is covered.  A call is the set of its   *)
(* keys, one for a completion, one per text for an embedding.               *)
(***************************************************************************)
EXTENDS Integers, SequencesExt

CONSTANTS
  Key,         \* prompts and texts, as hashed by `key`
  Raw,         \* what the service may answer
  MaxAttempts, \* 0 .. 3 in post
  MaxCalls,    \* bound: calls of a run
  MaxRuns,     \* bound: runs of the driver
  MaxFaults    \* bound: crashes and failed writes

ASSUME RecordingAssumption ==
  /\ Raw \subseteq Nat
  /\ MaxAttempts \in Nat \ {0}
  /\ MaxCalls \in Nat
  /\ MaxRuns \in Nat
  /\ MaxFaults \in Nat

VARIABLES
  program,   \* history -> what the program does next
  file,      \* the recording on disk, or Torn
  cache,     \* key -> answer
  dirty,     \* the cache has answers that were not written
  strict,    \* this run replays
  phase,     \* where the run is
  call,      \* keys of the call under way
  attempt,   \* attempts of the call made before this one
  history,   \* outcomes of this run's calls
  runs,      \* runs started
  faults,    \* crashes and failed writes so far
  recorded   \* history, read by no action: outcomes of the last run recorded to its end

disk == <<file, faults>>
run == <<strict, runs>>
vars == <<program, disk, cache, dirty, run, phase, call, attempt, history, recorded>>

Empty == [k \in {} |-> 0]

\* Contents of the file.
Whole(c) == [torn |-> FALSE, answers |-> c]
Torn == [torn |-> TRUE, answers |-> Empty]

\* Outcomes of a call.
Answered(f) == [error |-> FALSE, answers |-> f]
Error == [error |-> TRUE, answers |-> Empty]

\* What the program may do next.
AskFor(S) == [does |-> "ask", keys |-> S]
Finish == [does |-> "finish", keys |-> {}]
Stop == [does |-> "stop", keys |-> {}]

\* Embeddings are rounded before they are kept, completions parsed and re-encoded.
Kept(v) == v - (v % 2)

Missing == call \ DOMAIN cache

Init ==
  /\ program = Empty
  /\ file = Whole(Empty)
  /\ cache = Empty
  /\ dirty = FALSE
  /\ strict = FALSE
  /\ phase = "off"
  /\ call = {}
  /\ attempt = 0
  /\ history = <<>>
  /\ runs = 0
  /\ faults = 0
  /\ recorded = {}

\* Recording::new reads the file; one that was torn is an error.
Start == \E s \in BOOLEAN :
  /\ phase = "off"
  /\ runs < MaxRuns
  /\ file # Torn
  /\ runs' = runs + 1
  /\ strict' = s
  /\ cache' = file.answers
  /\ dirty' = FALSE
  /\ history' = <<>>
  /\ phase' = "running"
  /\ UNCHANGED <<program, disk, call, attempt, recorded>>

\* What the program may do after a history: ask again, end, or, after an error
\* that it does not tolerate, stop.
Moves ==
  {m \in {AskFor(S) : S \in (SUBSET Key) \ {{}}} \cup {Finish, Stop} :
     /\ m.does = "ask" => Len(history) < MaxCalls
     /\ m = Stop => history # <<>> /\ history[Len(history)] = Error}

\* The run's next move, remembered for the runs to come.
Move(m) ==
  /\ m \in Moves
  /\ history \in DOMAIN program => program[history] = m
  /\ program' = [h \in DOMAIN program \cup {history} |->
                   IF h = history THEN m ELSE program[h]]

\* A call ends with an outcome and the program goes on.
Outcome(o) ==
  /\ history' = Append(history, o)
  /\ phase' = "running"

Ask == \E S \in SUBSET Key :
  /\ phase = "running"
  /\ Move(AskFor(S))
  /\ call' = S
  /\ attempt' = 0
  /\ IF S \subseteq DOMAIN cache
     THEN Outcome(Answered([k \in S |-> cache[k]]))
     ELSE phase' = (IF strict THEN "missed" ELSE "fetching") /\ UNCHANGED history
  /\ UNCHANGED <<disk, cache, dirty, run, recorded>>

\* The service answers some of the missing texts, all of them if it is well; the
\* answers go to the cache and the file is to be written.
Answer == \E T \in SUBSET Missing : \E v \in [T -> Raw] :
  /\ phase = "fetching"
  /\ cache' = [k \in DOMAIN cache \cup T |-> IF k \in T THEN Kept(v[k]) ELSE cache[k]]
  /\ dirty' = TRUE
  /\ phase' = "saving"
  /\ UNCHANGED <<program, disk, run, call, attempt, history, recorded>>

\* mutant: after the last attempt the count begins again
CountedAnew == (attempt + 1) % MaxAttempts

NextAttempt == attempt + 1

\* 5xx, 408, 409, 429 or no connection: again, until three attempts have failed.
Retry ==
  /\ phase = "fetching"
  /\ IF NextAttempt < MaxAttempts
     THEN attempt' = NextAttempt /\ UNCHANGED <<history, phase>>
     ELSE Outcome(Error) /\ UNCHANGED attempt
  /\ UNCHANGED <<program, disk, cache, dirty, run, call, recorded>>

\* Any other status, or an answer that does not parse.
Refuse ==
  /\ phase = "fetching"
  /\ Outcome(Error)
  /\ UNCHANGED <<program, disk, cache, dirty, run, call, attempt, recorded>>

\* mutant: the answer is used as the service gave it, not as it is kept
AnswerAsGiven(k) == cache[k] + 1

AnswerTo(k) == cache[k]

\* The file is written.  An embedding that lacks a text panics on it afterwards.
Save ==
  /\ phase = "saving"
  /\ file' = Whole(cache)
  /\ dirty' = FALSE
  /\ IF Missing = {}
     THEN Outcome(Answered([k \in call |-> AnswerTo(k)]))
     ELSE phase' = "off" /\ UNCHANGED history
  /\ UNCHANGED <<program, faults, cache, run, call, attempt, recorded>>

\* mutant: the cache counts as written before it is
Forgotten == FALSE

\* dirty is cleared after the write, which a failed one does not reach.
StillDirty == dirty

\* fs::write fails: before the file is truncated, or after.
FailedWrite ==
  /\ faults < MaxFaults
  /\ faults' = faults + 1
  /\ file' \in {file, Torn}
  /\ dirty' = StillDirty

SaveFails ==
  /\ phase = "saving"
  /\ FailedWrite
  /\ Outcome(Error)
  /\ UNCHANGED <<program, cache, run, call, attempt, recorded>>

\* The scenario is over: the driver saves once more, whatever the outcome was.
End == \E m \in {Finish, Stop} :
  /\ phase = "running"
  /\ Move(m)
  /\ phase' = IF m = Finish THEN "last save" ELSE "failed"
  /\ UNCHANGED <<disk, cache, dirty, run, call, attempt, history, recorded>>

Ending == {"last save", "failed", "missed"}

LastSave ==
  /\ phase \in Ending
  /\ file' = IF dirty THEN Whole(cache) ELSE file
  /\ dirty' = FALSE
  /\ phase' = "off"
  /\ recorded' = IF phase = "last save" /\ ~strict THEN {history} ELSE recorded
  /\ UNCHANGED <<program, faults, cache, run, call, attempt, history>>

LastSaveFails ==
  /\ phase \in Ending
  /\ dirty
  /\ FailedWrite
  /\ phase' = "off"
  /\ UNCHANGED <<program, cache, run, call, attempt, history, recorded>>

Writing == phase = "saving" \/ (phase \in Ending /\ dirty)

\* The process is killed; a file that is being written is torn.  What was written is
\* kept: save syncs nothing, so a loss of power could take more.
Kill ==
  /\ phase # "off"
  /\ faults < MaxFaults
  /\ faults' = faults + 1
  /\ file' \in IF Writing THEN {file, Torn} ELSE {file}
  /\ phase' = "off"
  /\ UNCHANGED <<program, cache, dirty, run, call, attempt, history, recorded>>

Progress == Ask \/ Answer \/ Retry \/ Refuse \/ Save \/ SaveFails \/ End \/ LastSave \/ LastSaveFails

Next == Start \/ Progress \/ Kill

Spec == Init /\ [][Next]_vars

\* The driver is a single task that goes on until the run is over; each attempt
\* ends, for the HTTP client has a timeout.
FairSpec == Spec /\ WF_vars(Progress)

-----------------------------------------------------------------------------
(* Properties.                                                             *)

\* A replay of a run that met no error gets the answers of that run and misses
\* none, whatever happened before and between the two, and whatever the program
\* asks as long as it asks it of the same history (README.md:53-56).
ReplayReproduces ==
  strict /\ phase # "off" => \A h \in recorded :
    (\A i \in 1 .. Len(h) : ~h[i].error) => phase # "missed" /\ IsPrefix(history, h)

OnDisk(o) ==
  \A k \in DOMAIN o.answers :
    k \in DOMAIN file.answers /\ file.answers[k] = o.answers[k]

\* A run that reports success has every answer it used in a readable file, though
\* the write after one of its calls may have failed and been tolerated (eval.rs:387).
RecordedIsOnDisk ==
  [][recorded' # recorded =>
       ~file'.torn /\ \A h \in recorded' : \A i \in 1 .. Len(h) : OnDisk(h[i])']_vars

\* Every run comes to an end, even if the service never answers again.
RunsEnd == phase # "off" ~> phase = "off"

=============================================================================

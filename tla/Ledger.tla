------------------------------- MODULE Ledger -------------------------------
(***************************************************************************)
(* What the storage engine promises: a log of records and one state, folded*)
(* from it.  A record is in the log with all its effects or not at all; one*)
(* whose writer has been answered never leaves it; one whose writer died   *)
(* before the answer may turn up after a restart, and may be lost again    *)
(* until the next writer is answered -- with no mention of files, offsets, *)
(* syncs, kills or losses of power.                                        *)
(***************************************************************************)
EXTENDS Integers, SequencesExt

CONSTANT View(_)   \* the state that a log stands for

VARIABLES
  serving,   \* is there a process?
  log,       \* the records that it serves, or will serve
  kept,      \* how many of them can no longer be lost
  state      \* what readers see while it serves

vars == <<serving, log, kept, state>>

Init ==
  /\ serving = TRUE
  /\ log = <<>>
  /\ kept = 0
  /\ state = View(<<>>)

OneMore == Len(log') = Len(log) + 1 /\ IsPrefix(log, log')

\* A writer is answered: its record is in the log, and every record is kept.
Write ==
  /\ serving /\ serving'
  /\ OneMore
  /\ kept' = Len(log')

\* The process stops: what was not kept may be lost, or the record of the
\* operation under way may have been written.
Stop ==
  /\ ~serving'
  /\ \/ IsPrefix(log', log) /\ Len(log') >= kept
     \/ serving /\ OneMore
  /\ kept' \in kept .. Len(log')

Start ==
  /\ ~serving /\ serving'
  /\ UNCHANGED <<log, kept>>

\* Readers see the state the log stands for, at once.
Next ==
  /\ Write \/ Stop \/ Start
  /\ serving' => state' = View(log')

Spec == Init /\ [][Next]_vars

=============================================================================

---------------------------- MODULE MCRecording -----------------------------
(* An instance of Recording for TLC.                                       *)
EXTENDS Recording, TLC

CONSTANTS a, b

\* Two answers that are kept as one, and one that is kept as itself.
RawAnswers == {0, 1, 2}

=============================================================================

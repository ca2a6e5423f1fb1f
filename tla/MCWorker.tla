------------------------------ MODULE MCWorker ------------------------------
(* Instances of Worker for TLC.                                            *)
EXTENDS Worker, TLC

CONSTANTS loop, admin

\* The first consumer embeds its proposals (memory, beliefs), the second does
\* not (self_model, goals).
FirstEmbeds == {1}

AllFaults == FaultKind

\* What the worker is built to absorb: agents that fail, clients that go away.
Absorbed == {"agent", "cancel"}

EmbedFaults == {"embed"}

=============================================================================

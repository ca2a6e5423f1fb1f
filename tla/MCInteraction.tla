--------------------------- MODULE MCInteraction ----------------------------
(* Instances of Interaction for TLC.                                       *)
EXTENDS Interaction, TLC

CONSTANTS loop, ann, bob

NoEmbedding == {}

\* Failing agents are the business of the runs of Worker.
Crashes == {"crash"}

=============================================================================

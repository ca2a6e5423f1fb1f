----------------------------- MODULE MCHarness ------------------------------
(* Instances of Harness for TLC.                                           *)
EXTENDS Harness

CONSTANTS t1, t2, n1, n2

Texts == {t1, t2}
Names == {n1, n2}

Symmetry == Permutations(Texts) \cup Permutations(Names)
=============================================================================

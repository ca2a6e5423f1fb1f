----------------------------- MODULE MCComposer -----------------------------
(* An instance of Composer for TLC.                                        *)
EXTENDS Composer, TLC

\* No budget, one that leaves every section less than a line, a tight and a wide one.
SmallBudgets == {0, 9, 20, 33}

\* An empty line, the longest of one token, the shortest of two, and one of five.
LineLengths == {0, 3, 4, 19}

=============================================================================

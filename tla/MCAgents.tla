------------------------------ MODULE MCAgents ------------------------------
(* Instances of Agents for TLC.                                            *)
EXTENDS Agents

CONSTANTS worker, c1, c2, t1, t2, q1, q2

Texts == {t1, t2}
OneText == {t1}
OneClient == {c1}
TwoClients == {c1, c2}
OneQuestion == {q1}
Questions2 == {q1, q2}
AllAgents == AgentNames
Asking == {"interaction", "goals"}

Symmetry == Permutations(Texts)
=============================================================================

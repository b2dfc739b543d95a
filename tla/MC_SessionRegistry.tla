------------------------ MODULE MC_SessionRegistry ------------------------
(* Finite instances of SessionRegistry for TLC.                            *)
EXTENDS SessionRegistry, TLC

CONSTANTS n1, n2, s1, s2, c1, c2
MCNames == {n1, n2}
MCIds == {s1, s2}
MCCallers == {c1, c2}
AllRequests == {"spawn", "stop", "restart", "handoff", "rename"}
SpawnAndHandoff == {"spawn", "handoff"}
Symmetry == Permutations(Names) \cup Permutations(Ids) \cup Permutations(Callers)
=============================================================================

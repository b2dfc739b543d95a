--------------------------- MODULE MC_PtySession ---------------------------
(* Finite instances of PtySession for TLC.                                 *)
EXTENDS PtySession

CONSTANTS c1, c2
TwoClients == {c1, c2}
=============================================================================

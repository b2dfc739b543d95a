-------------------------- MODULE MC_SessionStore --------------------------
(* Finite instances of SessionStore for TLC.                               *)
EXTENDS SessionStore

CONSTANTS a, b
MCIds == {a, b}
=============================================================================

--------------------------- MODULE MC_RunnerTask ---------------------------
(* Finite instances of RunnerTask for TLC.                                 *)
EXTENDS RunnerTask
=============================================================================

---------------------------- MODULE MC_RingBuffer ----------------------------
(* Finite instances of RingBuffer for TLC.                                 *)
EXTENDS RingBuffer
=============================================================================

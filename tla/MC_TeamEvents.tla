---------------------------- MODULE MC_TeamEvents ----------------------------
(* Agents and teams are interchangeable.                                   *)
EXTENDS TeamEvents
Symmetry == Permutations(Agents) \cup Permutations(Teams)
=============================================================================

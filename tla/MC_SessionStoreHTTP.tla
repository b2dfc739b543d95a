------------------------ MODULE MC_SessionStoreHTTP ------------------------
(* Finite instances of SessionStoreHTTP for TLC.                           *)
EXTENDS SessionStoreHTTP

CONSTANTS a, worker
MCOneId == {a}
MCNames == {worker}
MCNameOf == [id \in Ids |-> worker]
=============================================================================

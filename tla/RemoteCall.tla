----------------------------- MODULE RemoteCall -----------------------------
(***************************************************************************)
(* What a caller may rely on when its message travels to another daemon or *)
(* runner, whatever carries it: the call returns; a result of the peer is  *)
(* only reported when the peer has processed this message; and the peer    *)
(* processes it at most once per attempt, possibly after the caller has    *)
(* given up.  HubTunnel (one attempt) and HubRelay (bounded retries) are   *)
(* shown to implement it.                                                  *)
(***************************************************************************)
EXTENDS Naturals

CONSTANTS
    Calls,
    MaxTries   \* attempts the transport makes for one call

VARIABLES
    result,    \* [Calls -> "idle", "pending", "ok" (the peer's) or "error"]
    tries,     \* [Calls -> attempts begun]
    runs       \* [Calls -> how often the peer has processed it]

vars == <<result, tries, runs>>

Init ==
    /\ result \in [Calls -> {"idle", "pending"}]
    /\ tries = [c \in Calls |-> IF result[c] = "idle" THEN 0 ELSE 1]
    /\ runs = [c \in Calls |-> 0]

Begin(c) ==
    /\ result[c] = "idle"
    /\ result' = [result EXCEPT ![c] = "pending"]
    /\ tries' = [tries EXCEPT ![c] = 1]
    /\ UNCHANGED runs

\* There is nobody to forward the call to.
Refuse(c) ==
    /\ result[c] = "idle"
    /\ result' = [result EXCEPT ![c] = "error"]
    /\ UNCHANGED <<tries, runs>>

Retry(c) ==
    /\ result[c] = "pending" /\ tries[c] < MaxTries
    /\ tries' = [tries EXCEPT ![c] = @ + 1]
    /\ UNCHANGED <<result, runs>>

Run(c) ==
    /\ runs[c] < tries[c]
    /\ runs' = [runs EXCEPT ![c] = @ + 1]
    /\ UNCHANGED <<result, tries>>

Return(c) ==
    /\ result[c] = "pending" /\ runs[c] > 0
    /\ result' = [result EXCEPT ![c] = "ok"]
    /\ UNCHANGED <<tries, runs>>

GiveUp(c) ==
    /\ result[c] = "pending"
    /\ result' = [result EXCEPT ![c] = "error"]
    /\ UNCHANGED <<tries, runs>>

Next == \E c \in Calls :
            Begin(c) \/ Refuse(c) \/ Retry(c) \/ Run(c) \/ Return(c) \/ GiveUp(c)

Spec == Init /\ [][Next]_vars

\* A call that was begun returns.
FairSpec == Spec /\ \A c \in Calls : WF_vars(Return(c) \/ GiveUp(c))
=============================================================================

---------------------------- MODULE MC_HubRelay ----------------------------
(* Two orgs; both callers run in the first one and share its store.        *)
EXTENDS HubRelay
CONSTANTS a, b, c1, c2
MCHome == [c \in {c1, c2} |-> a]
=============================================================================

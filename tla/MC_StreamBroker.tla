--------------------------- MODULE MC_StreamBroker ---------------------------
(* Finite instances of StreamBroker for TLC.                               *)
EXTENDS StreamBroker

CONSTANTS s1, s2, p1, p2
MCStreams == {s1, s2}
MCPublishers == {p1, p2}
\* Every pair of different handlers.
MCMixes == {m \in [MCStreams -> Kinds] :
              <<m[s1], m[s2]>> \in {<<"stream", "resub">>, <<"stream", "poll">>,
                                    <<"resub", "poll">>}}
=============================================================================

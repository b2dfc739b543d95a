------------------------ MODULE StreamBroker_proofs ------------------------
(***************************************************************************)
(* What becomes of the streams of a task, for any number of streams of any *)
(* kind, any number of publishers and channels of any capacity.            *)
(*                                                                         *)
(* EndedForgotten is not inductive: a handler returns because it saw its   *)
(* channel closed or did not find its id, so closing a channel, forgetting *)
(* the id and leaving the registered map must be known to go together,     *)
(* although cleanup looks at the map that is registered now and a reap at  *)
(* the one it kept.  That a panicking reap leaves no closed stream in the   *)
(* registered map needs every stream to be in one map only.                *)
(***************************************************************************)
EXTENDS StreamBroker, TLAPS

\* The streams that have not been subscribed yet.
Fresh == {s \in Streams : req[s] \in {"new", "read"}}

\* Nobody knows a stream before it is subscribed: neither its id nor a map
\* that it is going to create.
Unknown ==
    /\ \A s \in Fresh : s \notin byStreamID /\ s # byTaskID /\ subs[s] = {}
    /\ \A s \in Fresh : \A m \in Streams : s \notin subs[m]

\* A channel is closed exactly when the id has been forgotten, and its stream
\* is then not in the registered map.
ClosedIsForgotten ==
    \A s \in Streams : /\ ch[s].closed <=> s \notin byStreamID /\ s \notin Fresh
                       /\ ch[s].closed => s \notin Live

\* A stream is in one map only.
OneMap == \A m, n \in Streams : m # n => subs[m] \cap subs[n] = {}

\* A handler leaves a closed channel behind; a reap has a map to work on.
Closes == \A s \in Streams : req[s] \in {"ended", "error"} => ch[s].closed
Keeps == \A p \in Publishers : pub[p].pc = "reap" => pub[p].map \in Streams

IInv == /\ TypeOK /\ Unknown /\ OneMap /\ ClosedIsForgotten /\ Closes /\ Keeps
        /\ ToldIsReaped

Events == {"status", "done"}
Channels == [Streams -> [q : Seq(Events), closed : BOOLEAN]]
Bounded == \A s \in Streams : Len(ch[s].q) <= Cap

-----------------------------------------------------------------------------
\* The empty broker satisfies the invariant.
LEMMA InitIInv == Init => IInv
<1> SUFFICES ASSUME Init PROVE IInv
    OBVIOUS
<1>1. kind \in [Streams -> Kinds] /\ ch \in Channels /\ Bounded
    BY StreamsAssumption, CapAssumption DEF Init, Channels, Bounded
<1>2. TypeOK
    BY <1>1 DEF Init, TypeOK, Channels, Bounded, Events, Rows
<1>3. Unknown /\ OneMap /\ ClosedIsForgotten /\ Closes /\ Keeps /\ ToldIsReaped
    BY StreamsAssumption
    DEF Init, Fresh, Unknown, OneMap, ClosedIsForgotten, Live, Closes, Keeps, ToldIsReaped
<1> QED
    BY <1>2, <1>3 DEF IInv

\* The streams of the registered map.
LEMMA LiveStreams == TypeOK => Live \subseteq Streams
BY DEF TypeOK, Live

\* A non-blocking send keeps every channel in its type and within its capacity,
\* and closes none.
LEMMA OfferEffect ==
    ASSUME TypeOK, NEW ev \in Events, NEW S \in SUBSET Streams, Offer(S, ev)
    PROVE  /\ ch' \in Channels /\ Bounded'
           /\ \A s \in Streams : ch'[s].closed = ch[s].closed
           /\ stuck' = \E s \in S : ch[s].closed
<1>1. ch \in Channels /\ Bounded
    BY DEF TypeOK, Channels, Bounded, Events
<1>2. \A s \in Streams :
        ch'[s] = IF s \in S /\ Len(ch[s].q) < Cap
                   THEN [ch[s] EXCEPT !.q = Append(@, ev)] ELSE ch[s]
    BY DEF Offer
<1>3. ASSUME NEW s \in Streams
      PROVE  /\ ch'[s] \in [q : Seq(Events), closed : BOOLEAN]
             /\ Len(ch'[s].q) <= Cap /\ ch'[s].closed = ch[s].closed
  <2>1. ch[s] \in [q : Seq(Events), closed : BOOLEAN] /\ Len(ch[s].q) <= Cap
    BY <1>1 DEF Channels, Bounded
  <2>2. CASE s \in S /\ Len(ch[s].q) < Cap
    <3>1. /\ Append(ch[s].q, ev) \in Seq(Events)
          /\ Len(Append(ch[s].q, ev)) = Len(ch[s].q) + 1 /\ Len(ch[s].q) \in Nat
      BY <2>1
    <3>2. ch'[s] = [ch[s] EXCEPT !.q = Append(@, ev)]
      BY <1>2, <2>2
    <3>3. ch'[s] \in [q : Seq(Events), closed : BOOLEAN] /\ ch'[s].closed = ch[s].closed
      BY <2>1, <3>1, <3>2
    <3>4. ch'[s].q = Append(ch[s].q, ev)
      BY <2>1, <3>2
    <3>5. Len(ch'[s].q) <= Cap
      BY <2>2, <3>1, <3>4, CapAssumption
    <3> QED
      BY <3>3, <3>5
  <2>3. CASE ~(s \in S /\ Len(ch[s].q) < Cap)
    BY <1>2, <2>1, <2>3
  <2> QED
    BY <2>2, <2>3
<1>4. ch' = [s \in Streams |-> ch'[s]]
    BY DEF Offer
<1> QED
    BY <1>3, <1>4 DEF Offer, Channels, Bounded

\* A receive takes the first event of a channel and closes nothing.
LEMMA ReceivedEffect ==
    ASSUME TypeOK, NEW s \in Streams, Received(s)
    PROVE  /\ ch' \in Channels /\ Bounded' /\ done' \subseteq Streams
           /\ \A t \in Streams : ch'[t].closed = ch[t].closed
<1>1. ch[s] \in [q : Seq(Events), closed : BOOLEAN] /\ Len(ch[s].q) <= Cap
    BY DEF TypeOK, Events
<1>2. /\ Tail(ch[s].q) \in Seq(Events) /\ Len(Tail(ch[s].q)) = Len(ch[s].q) - 1
      /\ Len(ch[s].q) \in Nat
    BY <1>1 DEF Received
<1>3. ch' = [ch EXCEPT ![s].q = Tail(@)]
    BY DEF Received
<1>4. Len(Tail(ch[s].q)) <= Cap
    BY <1>1, <1>2, CapAssumption
<1>5. ch' \in Channels /\ Bounded' /\ \A t \in Streams : ch'[t].closed = ch[t].closed
  <2>1. ch \in Channels /\ \A t \in Streams : Len(ch[t].q) <= Cap
    BY DEF TypeOK, Channels, Events
  <2>2. ch' = [ch EXCEPT ![s] = [ch[s] EXCEPT !.q = Tail(ch[s].q)]]
    BY <1>3
  <2>3. ch'[s].q = Tail(ch[s].q) /\ ch'[s].closed = ch[s].closed /\ ch' \in Channels
    BY <1>1, <1>2, <2>1, <2>2 DEF Channels
  <2>4. \A t \in Streams : t # s => ch'[t] = ch[t]
    BY <2>1, <2>2 DEF Channels
  <2> QED
    BY <1>4, <2>1, <2>3, <2>4 DEF Bounded
<1>6. done' \subseteq Streams
    BY DEF Received, TypeOK
<1> QED
    BY <1>5, <1>6

\* Closing a set of channels.
LEMMA CloseEffect ==
    ASSUME TypeOK, NEW K, CloseAll(K)
    PROVE  /\ ch' \in Channels /\ Bounded'
           /\ \A s \in Streams : ch'[s].closed = (s \in K \/ ch[s].closed)
<1>1. \A s \in Streams : ch'[s] = IF s \in K THEN [ch[s] EXCEPT !.closed = TRUE] ELSE ch[s]
    BY DEF CloseAll
<1>2. \A s \in Streams : ch[s] \in [q : Seq(Events), closed : BOOLEAN] /\ Len(ch[s].q) <= Cap
    BY DEF TypeOK, Events
<1>3. ASSUME NEW s \in Streams
      PROVE  /\ ch'[s] \in [q : Seq(Events), closed : BOOLEAN] /\ Len(ch'[s].q) <= Cap
             /\ ch'[s].closed = (s \in K \/ ch[s].closed)
    BY <1>1, <1>2
<1>4. ch' = [s \in Streams |-> ch'[s]]
    BY DEF CloseAll
<1> QED
    BY <1>3, <1>4 DEF Channels, Bounded

\* cleanup closes the channel of a stream the broker knows, and only that one.
LEMMA CleanupEffect ==
    ASSUME TypeOK, NEW s \in Streams, cleanup(s)
    PROVE  /\ ch' \in Channels /\ Bounded'
           /\ \A t \in Streams : ch'[t].closed = (ch[t].closed \/ (t = s /\ s \in byStreamID))
           /\ byStreamID' = byStreamID \ {s}
           /\ byTaskID' \in {byTaskID, NoMap}
           /\ byTaskID' # byTaskID => subs'[byTaskID] = {}
           /\ subs' \in [Streams -> SUBSET Streams]
           /\ \A m \in Streams : /\ subs'[m] \subseteq subs[m]
                                 /\ subs[m] \ {s} \subseteq subs'[m]
           /\ s \in byStreamID => s \notin Live'
           /\ s \notin byStreamID => subs' = subs /\ byTaskID' = byTaskID
           /\ ~stuck /\ stuck' = stuck
<1>1. /\ ch' = [ch EXCEPT ![s].closed = @ \/ s \in byStreamID]
      /\ byStreamID' = byStreamID \ {s} /\ ~stuck /\ stuck' = stuck
    BY DEF cleanup
<1>2. ch[s] \in [q : Seq(Events), closed : BOOLEAN]
    BY DEF TypeOK, Events
<1>3. ch' \in Channels /\ Bounded'
    BY <1>1, <1>2 DEF TypeOK, Channels, Bounded, Events
<1>4. \A t \in Streams : ch'[t].closed = (ch[t].closed \/ (t = s /\ s \in byStreamID))
    BY <1>1, <1>2 DEF TypeOK
<1>5. CASE s \in byStreamID /\ byTaskID # NoMap
  <2>1. /\ subs' = [subs EXCEPT ![byTaskID] = Live \ {s}]
        /\ byTaskID' = IF Live \ {s} = {} THEN NoMap ELSE byTaskID
        /\ byTaskID \in Streams /\ Live = subs[byTaskID]
    BY <1>5 DEF cleanup, TypeOK, Live
  <2>2. /\ subs' \in [Streams -> SUBSET Streams]
        /\ \A m \in Streams : subs'[m] \subseteq subs[m] /\ subs[m] \ {s} \subseteq subs'[m]
    BY <2>1 DEF TypeOK
  <2>3. s \notin Live'
    BY <2>1 DEF Live, TypeOK
  <2>4. byTaskID' # byTaskID => subs'[byTaskID] = {}
    BY <2>1 DEF TypeOK
  <2> QED
    BY <1>1, <1>3, <1>4, <1>5, <2>1, <2>2, <2>3, <2>4
<1>6. CASE ~(s \in byStreamID /\ byTaskID # NoMap)
  <2>1. subs' = subs /\ byTaskID' = byTaskID
    BY <1>6 DEF cleanup
  <2>2. s \in byStreamID => s \notin Live'
    BY <1>6, <2>1 DEF Live
  <2> QED
    BY <1>1, <1>3, <1>4, <1>6, <2>1, <2>2 DEF TypeOK
<1> QED
    BY <1>5, <1>6
-----------------------------------------------------------------------------
\* Every step keeps every variable in its type.
LEMMA TypeStep == TypeOK /\ [Next]_vars => TypeOK'
<1> SUFFICES ASSUME TypeOK, [Next]_vars PROVE TypeOK'
    OBVIOUS
<1> DEFINE Requests == [Streams -> {"new", "read", "subscribed", "open", "tail", "poll",
                                    "leaving", "ended", "error"}]
           Writers == [Publishers -> [pc : {"idle", "saved", "reap", "end"},
                                      map : Streams \cup {NoMap}]]
<1>c. ch \in Channels /\ Bounded
    BY DEF TypeOK, Channels, Bounded, Events
<1>k. kind' = kind
    BY DEF Next, vars
<1>1. ASSUME NEW s \in Streams,
             \/ SaveSubmitted(s) \/ Lookup(s) \/ StartTail(s) \/ SeeClosed(s)
             \/ Disconnect(s) \/ PollAttach(s) \/ PollClosed(s) \/ PollDisconnect(s)
      PROVE  TypeOK'
  <2>0. \E r \in {"read", "open", "error", "tail", "leaving", "poll", "ended", "subscribed"} :
            req' = [req EXCEPT ![s] = r]
    BY <1>1 DEF SaveSubmitted, Lookup, StartTail, SeeClosed, Disconnect, PollAttach,
                PollClosed, PollDisconnect
  <2>1. req' \in Requests
    BY <2>0 DEF TypeOK
  <2>3. row' \in {row, "working"}
    BY <1>1 DEF SaveSubmitted, Lookup, StartTail, SeeClosed, Disconnect, PollAttach,
                PollClosed, PollDisconnect
  <2>2. UNCHANGED <<brokerVars, snap, pub, told, done>>
    BY <1>1 DEF SaveSubmitted, Lookup, StartTail, SeeClosed, Disconnect, PollAttach,
                PollClosed, PollDisconnect
  <2> QED
    BY <1>k, <2>1, <2>2, <2>3 DEF TypeOK, brokerVars, Rows
<1>2. ASSUME NEW s \in Streams, ReadRow(s) PROVE TypeOK'
    BY <1>2, <1>k DEF ReadRow, TypeOK, brokerVars
<1>3. ASSUME NEW s \in Streams, Open(s) PROVE TypeOK'
  <2>1. req' \in Requests /\ UNCHANGED <<ch, stuck, snap, row, pub, told, done>>
    BY <1>3 DEF Open, Subscribe, TypeOK
  <2>2. /\ byStreamID' \subseteq Streams /\ byTaskID' \in Streams \cup {NoMap}
        /\ subs' \in [Streams -> SUBSET Streams]
    BY <1>3 DEF Open, Subscribe, TypeOK
  <2> QED
    BY <1>k, <2>1, <2>2 DEF TypeOK
<1>4. ASSUME NEW s \in Streams, ReplayTerminal(s) \/ Leave(s) PROVE TypeOK'
  <2>1. cleanup(s)
    BY <1>4 DEF ReplayTerminal, Leave
  <2>3. req' = [req EXCEPT ![s] = "ended"] /\ done' \in {done, done \cup {s}}
    BY <1>4 DEF ReplayTerminal, Leave
  <2>4. req' \in Requests /\ done' \subseteq Streams
    BY <2>3 DEF TypeOK
  <2>2. UNCHANGED <<snap, row, pub, told>>
    BY <1>4 DEF ReplayTerminal, Leave
  <2> QED
    BY <1>k, <2>1, <2>2, <2>4, CleanupEffect DEF TypeOK, Channels, Bounded, Events
<1>5. ASSUME NEW s \in Streams, Receive(s) \/ PollReceive(s) PROVE TypeOK'
  <2>1. Received(s) /\ req' \in Requests
    BY <1>5 DEF Receive, PollReceive, TypeOK
  <2>2. UNCHANGED <<byStreamID, byTaskID, subs, stuck, snap, row, pub, told>>
    BY <1>5 DEF Receive, PollReceive
  <2> QED
    BY <1>k, <2>1, <2>2, ReceivedEffect DEF TypeOK, Channels, Bounded, Events
<1>6. CASE PublishStatus
  <2>1. ch' \in Channels /\ Bounded' /\ stuck' \in BOOLEAN
    BY <1>6, OfferEffect, LiveStreams DEF PublishStatus, Events
  <2> QED
    BY <1>6, <1>k, <2>1 DEF PublishStatus, TypeOK, Channels, Bounded, Events
<1>7. ASSUME NEW p \in Publishers, SaveTerminal(p) PROVE TypeOK'
  <2>1. pub' \in Writers /\ row' \in Rows
    BY <1>7 DEF SaveTerminal, TypeOK, Rows
  <2> QED
    BY <1>7, <1>k, <2>1 DEF SaveTerminal, TypeOK, brokerVars
<1>8. ASSUME NEW p \in Publishers, PublishDone(p) PROVE TypeOK'
  <2>1. ch' \in Channels /\ Bounded' /\ stuck' \in BOOLEAN
    BY <1>8, OfferEffect, LiveStreams DEF PublishDone, Events
  <2>2. pub' \in Writers /\ told' \subseteq Streams
    BY <1>8, LiveStreams DEF PublishDone, TypeOK
  <2> QED
    BY <1>8, <1>k, <2>1, <2>2 DEF PublishDone, TypeOK, Channels, Bounded, Events
<1>9. ASSUME NEW p \in Publishers, Reap(p) PROVE TypeOK'
  <2>1. ch' \in Channels /\ Bounded'
    BY <1>9, CloseEffect DEF Reap
  <2>2. pub' \in Writers /\ subs' \in [Streams -> SUBSET Streams]
    BY <1>9 DEF Reap, TypeOK
  <2> QED
    BY <1>9, <1>k, <2>1, <2>2 DEF Reap, TypeOK, Channels, Bounded, Events
<1>10. ASSUME NEW p \in Publishers, ReapPanics(p) PROVE TypeOK'
  <2>1. PICK K \in SUBSET {s \in subs[pub[p].map] : ~ch[s].closed} :
            /\ CloseAll(K) /\ byStreamID' = byStreamID \ K
            /\ subs' = [subs EXCEPT ![pub[p].map] = @ \ K]
    BY <1>10 DEF ReapPanics
  <2>2. ch' \in Channels /\ Bounded'
    BY <2>1, CloseEffect
  <2>3. subs' \in [Streams -> SUBSET Streams]
    BY <2>1 DEF TypeOK
  <2>4. pub' = [pub EXCEPT ![p].pc = "end"]
    BY <1>10 DEF ReapPanics
  <2>5. pub' \in Writers
    BY <2>4 DEF TypeOK
  <2> QED
    BY <1>10, <1>k, <2>1, <2>2, <2>3, <2>5 DEF ReapPanics, TypeOK, Channels, Bounded, Events
<1>11. CASE UNCHANGED vars
    BY <1>11 DEF vars, brokerVars, TypeOK
<1> QED
    BY <1>1, <1>2, <1>3, <1>4, <1>5, <1>6, <1>7, <1>8, <1>9, <1>10, <1>11
    DEF Next, Serve, Poll, Finish

-----------------------------------------------------------------------------
(* The inductive step.  Most steps open no stream, close no channel and    *)
(* fan nothing out; they are quiet as far as the invariant is concerned.   *)

Returned(s) == req[s] \in {"ended", "error"}

\* What a quiet step leaves alone: the maps, the closed channels, who has been
\* subscribed, who was told and who is going to reap; and a handler that returns
\* in it found its channel closed.
Quiet ==
    /\ byStreamID' = byStreamID /\ byTaskID' = byTaskID /\ subs' = subs
    /\ \A s \in Streams : ch'[s].closed = ch[s].closed
    /\ Fresh' = Fresh
    /\ \A s \in Streams : Returned(s)' => Returned(s) \/ ch[s].closed
    /\ told' = told
    /\ \A p \in Publishers : /\ pub'[p].map = pub[p].map
                             /\ pub'[p].pc = "reap" <=> pub[p].pc = "reap"
                             /\ pub[p].pc = "end" => pub'[p].pc = "end"
    /\ stuck' = stuck

\* A quiet step keeps the invariant.
LEMMA QuietStep == IInv /\ TypeOK' /\ Quiet => IInv'
<1> SUFFICES ASSUME IInv, TypeOK', Quiet PROVE IInv'
    OBVIOUS
<1>1. Unknown' /\ OneMap'
    BY DEF IInv, Unknown, OneMap, Quiet
<1>2. ClosedIsForgotten'
  <2>1. Live' = Live
    BY DEF Quiet, Live
  <2> QED
    BY <2>1 DEF IInv, ClosedIsForgotten, Quiet
<1>3. Closes' /\ Keeps'
    BY DEF IInv, Closes, Keeps, Quiet, Returned
<1>4. ToldIsReaped'
  <2> SUFFICES ASSUME ~stuck', NEW s \in told'
               PROVE  \/ ch'[s].closed
                      \/ \E p \in Publishers : pub'[p].pc = "reap" /\ s \in subs'[pub'[p].map]
    BY DEF ToldIsReaped
  <2>1. s \in told /\ ~stuck /\ s \in Streams
    BY DEF Quiet, IInv, TypeOK
  <2>2. \/ ch[s].closed
        \/ \E p \in Publishers : pub[p].pc = "reap" /\ s \in subs[pub[p].map]
    BY <2>1 DEF IInv, ToldIsReaped
  <2> QED
    BY <2>1, <2>2 DEF Quiet
<1> QED
    BY <1>1, <1>2, <1>3, <1>4 DEF IInv

\* The steps of the handlers and writers that are quiet.
LEMMA QuietActions ==
    ASSUME IInv,
           \/ \E s \in Streams :
                \/ SaveSubmitted(s) \/ ReadRow(s) \/ Lookup(s) \/ StartTail(s)
                \/ SeeClosed(s) \/ Disconnect(s) \/ Receive(s) \/ PollAttach(s)
                \/ PollClosed(s) \/ PollDisconnect(s) \/ PollReceive(s)
           \/ PublishStatus
           \/ \E p \in Publishers : SaveTerminal(p)
           \/ UNCHANGED vars
    PROVE  Quiet
<1>t. TypeOK
    BY DEF IInv
<1>1. ASSUME NEW s \in Streams,
             \/ SaveSubmitted(s) \/ ReadRow(s) \/ StartTail(s)
             \/ Disconnect(s) \/ PollDisconnect(s)
      PROVE  Quiet
  <2>1. UNCHANGED <<brokerVars, pub, told>>
    BY <1>1 DEF SaveSubmitted, ReadRow, StartTail, Disconnect, PollDisconnect
  <2>2. /\ Fresh' = Fresh
        /\ \A t \in Streams : Returned(t)' => Returned(t)
    BY <1>1, <1>t DEF SaveSubmitted, ReadRow, StartTail, Disconnect, PollDisconnect,
                      TypeOK, Fresh, Returned
  <2> QED
    BY <2>1, <2>2 DEF Quiet, brokerVars
<1>2. ASSUME NEW s \in Streams, Lookup(s) \/ PollAttach(s) PROVE Quiet
  <2>1. UNCHANGED <<brokerVars, pub, told>>
    BY <1>2 DEF Lookup, PollAttach
  <2>2. /\ req[s] = "subscribed"
        /\ \E r \in {"open", "poll"} :
              req' = [req EXCEPT ![s] = IF s \in byStreamID THEN r ELSE "error"]
    BY <1>2 DEF Lookup, PollAttach
  <2>3. s \notin byStreamID => ch[s].closed
    BY <2>2 DEF IInv, ClosedIsForgotten, Fresh
  <2>4. /\ Fresh' = Fresh
        /\ \A t \in Streams : Returned(t)' => Returned(t) \/ ch[t].closed
    BY <1>t, <2>2, <2>3 DEF TypeOK, Fresh, Returned
  <2> QED
    BY <2>1, <2>4 DEF Quiet, brokerVars
<1>3. ASSUME NEW s \in Streams, SeeClosed(s) \/ PollClosed(s) PROVE Quiet
  <2>1. UNCHANGED <<brokerVars, pub, told>> /\ ch[s].closed
    BY <1>3 DEF SeeClosed, PollClosed
  <2>2. /\ Fresh' = Fresh
        /\ \A t \in Streams : Returned(t)' => Returned(t) \/ ch[t].closed
    BY <1>3, <1>t, <2>1 DEF SeeClosed, PollClosed, TypeOK, Fresh, Returned
  <2> QED
    BY <2>1, <2>2 DEF Quiet, brokerVars
<1>4. ASSUME NEW s \in Streams, Receive(s) \/ PollReceive(s) PROVE Quiet
  <2>1. UNCHANGED <<byStreamID, byTaskID, subs, stuck, pub, told>> /\ Received(s)
    BY <1>4 DEF Receive, PollReceive
  <2>2. \A t \in Streams : ch'[t].closed = ch[t].closed
    BY <1>t, <2>1, ReceivedEffect
  <2>3. /\ Fresh' = Fresh
        /\ \A t \in Streams : Returned(t)' => Returned(t)
    BY <1>4, <1>t DEF Receive, PollReceive, TypeOK, Fresh, Returned
  <2> QED
    BY <2>1, <2>2, <2>3 DEF Quiet
<1>5. CASE PublishStatus
  <2>1. /\ \A t \in Streams : ch'[t].closed = ch[t].closed
        /\ stuck' = \E t \in Live : ch[t].closed
    BY <1>5, <1>t, OfferEffect, LiveStreams DEF PublishStatus, Events
  <2>2. ~\E t \in Live : ch[t].closed
    BY <1>t, LiveStreams DEF IInv, ClosedIsForgotten
  <2>3. stuck' = stuck
    BY <1>5, <1>t, <2>1, <2>2 DEF PublishStatus, TypeOK
  <2> QED
    BY <1>5, <2>1, <2>3 DEF PublishStatus, Quiet, Fresh, Returned
<1>6. ASSUME NEW p \in Publishers, SaveTerminal(p) PROVE Quiet
  <2>1. UNCHANGED <<brokerVars, req, told>>
    BY <1>6 DEF SaveTerminal
  <2>2. \A q \in Publishers : /\ pub'[q].map = pub[q].map
                              /\ pub'[q].pc = "reap" <=> pub[q].pc = "reap"
                              /\ pub[q].pc = "end" => pub'[q].pc = "end"
    BY <1>6, <1>t DEF SaveTerminal, TypeOK
  <2> QED
    BY <2>1, <2>2 DEF Quiet, brokerVars, Fresh, Returned
<1>7. CASE UNCHANGED vars
    BY <1>7 DEF vars, brokerVars, Quiet, Fresh, Returned
<1> QED
    BY <1>1, <1>2, <1>3, <1>4, <1>5, <1>6, <1>7

\* A stream that is subscribed is new to every map and its channel is open.
LEMMA OpenStep == ASSUME IInv, TypeOK', NEW s \in Streams, Open(s) PROVE IInv'
<1> DEFINE m == IF byTaskID = NoMap THEN s ELSE byTaskID
<1>1. /\ req[s] = "read" /\ req' = [req EXCEPT ![s] = "subscribed"]
      /\ byStreamID' = byStreamID \cup {s} /\ byTaskID' = m
      /\ subs' = [subs EXCEPT ![m] = @ \cup {s}]
      /\ UNCHANGED <<ch, stuck, pub, told>>
    BY DEF Open, Subscribe
<1>2. /\ s \in Fresh /\ m \in Streams /\ m # NoMap /\ TypeOK
      /\ \A t \in Streams : t \in Fresh' <=> t \in Fresh /\ t # s
    BY <1>1, StreamsAssumption DEF IInv, TypeOK, Fresh
<1>3. \A n \in Streams : subs'[n] = IF n = m THEN subs[m] \cup {s} ELSE subs[n]
    BY <1>1, <1>2 DEF TypeOK
<1>4. /\ s \notin byStreamID /\ s # byTaskID /\ subs[s] = {}
      /\ \A n \in Streams : s \notin subs[n]
    BY <1>2 DEF IInv, Unknown
<1>5. \A t \in Streams : t \in Fresh' =>
        /\ t \notin byStreamID' /\ t # byTaskID' /\ subs'[t] = {}
        /\ \A n \in Streams : t \notin subs'[n]
  <2> SUFFICES ASSUME NEW t \in Streams, t \in Fresh'
               PROVE  /\ t \notin byStreamID' /\ t # byTaskID' /\ subs'[t] = {}
                      /\ \A n \in Streams : t \notin subs'[n]
    OBVIOUS
  <2>1. /\ t # s /\ t \notin byStreamID /\ t # byTaskID /\ subs[t] = {}
        /\ \A n \in Streams : t \notin subs[n]
    BY <1>2 DEF IInv, Unknown
  <2> QED
    BY <1>1, <1>3, <2>1
<1>6. Unknown'
    BY <1>5 DEF Unknown, Fresh
<1>7. OneMap'
    BY <1>3, <1>4 DEF IInv, OneMap
<1>8. ClosedIsForgotten'
  <2>1. ~ch[s].closed
    BY <1>2 DEF IInv, ClosedIsForgotten
  <2>2. \A t \in Streams : t \in Live' => t \in Live \/ t = s
    BY <1>1, <1>2, <1>3, <1>4 DEF Live
  <2>3. ASSUME NEW t \in Streams
        PROVE  /\ ch'[t].closed <=> t \notin byStreamID' /\ t \notin Fresh'
               /\ ch'[t].closed => t \notin Live'
    BY <1>1, <1>2, <2>1, <2>2 DEF IInv, ClosedIsForgotten
  <2> QED
    BY <2>3 DEF ClosedIsForgotten
<1>9. Closes' /\ Keeps'
    BY <1>1, <1>2 DEF IInv, Closes, Keeps, TypeOK
<1>10. ToldIsReaped'
    BY <1>1, <1>2, <1>3 DEF IInv, ToldIsReaped, Keeps
<1> QED
    BY <1>6, <1>7, <1>8, <1>9, <1>10 DEF IInv

\* A handler that returns through cleanup closes its channel, or finds it closed.
LEMMA CleanupStep ==
    ASSUME IInv, TypeOK', NEW s \in Streams, ReplayTerminal(s) \/ Leave(s)
    PROVE  IInv'
<1>t. TypeOK
    BY DEF IInv
<1>1. cleanup(s)
    BY DEF ReplayTerminal, Leave
<1>2. /\ req[s] \in {"open", "leaving"} /\ req' = [req EXCEPT ![s] = "ended"]
      /\ UNCHANGED <<pub, told>>
    BY DEF ReplayTerminal, Leave
<1>3. Fresh' = Fresh /\ s \notin Fresh
    BY <1>2, <1>t DEF Fresh, TypeOK
<1>4. /\ \A t \in Streams : ch'[t].closed = (ch[t].closed \/ (t = s /\ s \in byStreamID))
      /\ byStreamID' = byStreamID \ {s}
      /\ byTaskID' \in {byTaskID, NoMap}
      /\ \A m \in Streams : subs'[m] \subseteq subs[m] /\ subs[m] \ {s} \subseteq subs'[m]
      /\ s \in byStreamID => s \notin Live'
      /\ s \notin byStreamID => subs' = subs /\ byTaskID' = byTaskID
      /\ stuck' = stuck
    BY <1>t, <1>1, CleanupEffect
<1>5. Unknown'
  <2>1. NoMap \notin Streams
    BY StreamsAssumption
  <2> QED
    BY <1>3, <1>4, <2>1 DEF IInv, Unknown, Fresh
<1>6. OneMap'
    BY <1>4 DEF IInv, OneMap
<1>7. Live' \subseteq Live
    BY <1>4, <1>t DEF Live, TypeOK
<1>8. ClosedIsForgotten'
  <2>1. ASSUME NEW t \in Streams
        PROVE  /\ ch'[t].closed <=> t \notin byStreamID' /\ t \notin Fresh'
               /\ ch'[t].closed => t \notin Live'
    BY <1>3, <1>4, <1>7 DEF IInv, ClosedIsForgotten
  <2> QED
    BY <2>1 DEF ClosedIsForgotten
<1>9. Closes' /\ Keeps'
  <2>1. ch'[s].closed
    BY <1>3, <1>4 DEF IInv, ClosedIsForgotten
  <2>2. \A t \in Streams : t # s => req'[t] = req[t]
    BY <1>2, <1>t DEF TypeOK
  <2> QED
    BY <1>2, <1>4, <2>1, <2>2 DEF IInv, Closes, Keeps
<1>10. ToldIsReaped'
  <2> SUFFICES ASSUME ~stuck', NEW t \in told'
               PROVE  \/ ch'[t].closed
                      \/ \E p \in Publishers : pub'[p].pc = "reap" /\ t \in subs'[pub'[p].map]
    BY DEF ToldIsReaped
  <2>1. t \in told /\ ~stuck /\ t \in Streams
    BY <1>2, <1>4, <1>t DEF TypeOK
  <2>2. CASE ch[t].closed
    BY <1>4, <2>1, <2>2
  <2>3. ASSUME NEW p \in Publishers, pub[p].pc = "reap", t \in subs[pub[p].map]
        PROVE  ch'[t].closed \/ (pub'[p].pc = "reap" /\ t \in subs'[pub'[p].map])
    <3>1. pub[p].map \in Streams
      BY <2>3 DEF IInv, Keeps
    <3>2. pub'[p] = pub[p]
      BY <1>2
    <3>3. CASE t # s
      <4>1. t \in subs'[pub[p].map]
        BY <1>4, <2>3, <3>1, <3>3
      <4> QED
        BY <2>3, <3>2, <4>1
    <3>4. CASE t = s /\ s \in byStreamID
      BY <1>4, <2>1, <3>4
    <3>5. CASE s \notin byStreamID
      BY <1>4, <2>3, <3>2, <3>5
    <3> QED
      BY <3>3, <3>4, <3>5
  <2> QED
    BY <2>1, <2>2, <2>3 DEF IInv, ToldIsReaped
<1> QED
    BY <1>5, <1>6, <1>8, <1>9, <1>10 DEF IInv

\* The streams a done is fanned out to are in the map that is kept for the reap,
\* and none of them is closed: the fan-out does not panic.
LEMMA PublishDoneStep ==
    ASSUME IInv, TypeOK', NEW p \in Publishers, PublishDone(p)
    PROVE  IInv' /\ ~stuck'
<1>t. TypeOK
    BY DEF IInv
<1>1. /\ \A s \in Streams : ch'[s].closed = ch[s].closed
      /\ stuck' = \E s \in Live : ch[s].closed
    BY <1>t, OfferEffect, LiveStreams DEF PublishDone, Events
<1>2. /\ UNCHANGED <<byStreamID, byTaskID, subs, req>> /\ told' = told \cup Live
      /\ pub[p].pc = "saved" /\ ~stuck
      /\ pub' = [pub EXCEPT ![p] = IF byTaskID = NoMap THEN [pc |-> "end", map |-> NoMap]
                                   ELSE [pc |-> "reap", map |-> byTaskID]]
    BY DEF PublishDone
<1>3. ~stuck'
    BY <1>t, <1>1, LiveStreams DEF IInv, ClosedIsForgotten
<1>4. Fresh' = Fresh /\ Live' = Live
    BY <1>2 DEF Fresh, Live
<1>5. Unknown' /\ OneMap'
    BY <1>2, <1>4 DEF IInv, Unknown, OneMap
<1>6. ClosedIsForgotten' /\ Closes'
    BY <1>1, <1>2, <1>4 DEF IInv, ClosedIsForgotten, Closes
<1>7. \A q \in Publishers : q # p => pub'[q] = pub[q]
    BY <1>2, <1>t DEF TypeOK
<1>8. /\ byTaskID # NoMap => pub'[p].pc = "reap" /\ pub'[p].map = byTaskID
      /\ byTaskID = NoMap => pub'[p].pc = "end"
    BY <1>2, <1>t DEF TypeOK
<1>9. Keeps'
    BY <1>t, <1>7, <1>8 DEF IInv, Keeps, TypeOK
<1>10. ToldIsReaped'
  <2> SUFFICES ASSUME NEW s \in told'
               PROVE  \/ ch'[s].closed
                      \/ \E q \in Publishers : pub'[q].pc = "reap" /\ s \in subs'[pub'[q].map]
    BY DEF ToldIsReaped
  <2>1. CASE s \in Live
    BY <1>2, <1>8, <2>1 DEF Live
  <2>2. CASE s \in told
    <3>1. s \in Streams
      BY <2>2, <1>t DEF TypeOK
    <3>2. \/ ch[s].closed
          \/ \E q \in Publishers : pub[q].pc = "reap" /\ s \in subs[pub[q].map]
      BY <1>2, <2>2 DEF IInv, ToldIsReaped
    <3>3. ASSUME NEW q \in Publishers, pub[q].pc = "reap"
          PROVE  pub'[q] = pub[q]
      BY <1>2, <1>7, <3>3
    <3> QED
      BY <1>1, <1>2, <3>1, <3>2, <3>3
  <2> QED
    BY <1>2, <2>1, <2>2
<1> QED
    BY <1>3, <1>5, <1>6, <1>9, <1>10 DEF IInv

\* What the two ways through the second critical section have in common: some
\* streams of the kept map are closed, forgotten and taken out of it.
Reaping(p, K) ==
    /\ pub[p].pc = "reap" /\ K \subseteq subs[pub[p].map]
    /\ CloseAll(K) /\ byStreamID' = byStreamID \ K
    /\ subs' = [subs EXCEPT ![pub[p].map] = @ \ K]
    /\ byTaskID' \in {byTaskID, NoMap}
    /\ pub' = [pub EXCEPT ![p].pc = "end"]
    /\ UNCHANGED <<req, told>>

\* Either way the closed streams are forgotten and out of the registered map.
LEMMA ReapingStep ==
    ASSUME IInv, NEW p \in Publishers, NEW K, Reaping(p, K)
    PROVE  Unknown' /\ OneMap' /\ ClosedIsForgotten' /\ Closes' /\ Keeps'
<1> DEFINE m == pub[p].map
<1>t. TypeOK /\ m \in Streams /\ NoMap \notin Streams
    BY StreamsAssumption DEF IInv, Keeps, Reaping
<1>1. /\ K \subseteq subs[m] /\ K \subseteq Streams
      /\ byStreamID' = byStreamID \ K /\ byTaskID' \in {byTaskID, NoMap}
      /\ Fresh' = Fresh /\ req' = req
    BY <1>t DEF Reaping, TypeOK, Fresh
<1>2. \A s \in Streams : ch'[s].closed = (s \in K \/ ch[s].closed)
    BY <1>t, CloseEffect DEF Reaping
<1>3. \A n \in Streams : subs'[n] = IF n = m THEN subs[m] \ K ELSE subs[n]
    BY <1>t DEF Reaping, TypeOK
<1>4. \A s \in K : s \notin Fresh
    BY <1>t, <1>1 DEF IInv, Unknown
<1>5. Unknown'
    BY <1>t, <1>1, <1>3 DEF IInv, Unknown, Fresh
<1>6. OneMap'
    BY <1>3 DEF IInv, OneMap
<1>7. Live' \subseteq Live /\ \A s \in K : s \notin Live'
  <2>1. CASE byTaskID' = NoMap
    BY <2>1 DEF Live
  <2>2. CASE byTaskID' = byTaskID /\ byTaskID # NoMap
    <3>1. byTaskID \in Streams /\ Live = subs[byTaskID] /\ Live' = subs'[byTaskID]
      BY <1>t, <2>2 DEF TypeOK, Live
    <3>2. byTaskID # m => subs[byTaskID] \cap subs[m] = {}
      BY <1>t, <3>1 DEF IInv, OneMap
    <3> QED
      BY <1>1, <1>3, <3>1, <3>2
  <2> QED
    BY <1>1, <2>1, <2>2
<1>8. ClosedIsForgotten'
  <2>1. ASSUME NEW s \in Streams
        PROVE  /\ ch'[s].closed <=> s \notin byStreamID' /\ s \notin Fresh'
               /\ ch'[s].closed => s \notin Live'
    BY <1>1, <1>2, <1>4, <1>7 DEF IInv, ClosedIsForgotten
  <2> QED
    BY <2>1 DEF ClosedIsForgotten
<1>9. Closes'
    BY <1>1, <1>2 DEF IInv, Closes
<1>10. Keeps'
    BY <1>t DEF IInv, Keeps, TypeOK, Reaping
<1> QED
    BY <1>5, <1>6, <1>8, <1>9, <1>10

\* A reap that gets to its end has closed the whole map it kept, so a stream
\* that waits for it is closed and one that waits for another reap still does.
LEMMA ReapStep == ASSUME IInv, TypeOK', NEW p \in Publishers, Reap(p) PROVE IInv'
<1> DEFINE m == pub[p].map
<1>t. TypeOK /\ m \in Streams
    BY DEF IInv, Keeps, Reap, Reapable
<1>1. Reaping(p, subs[m])
  <2>1. subs' = [subs EXCEPT ![m] = @ \ subs[m]]
    BY DEF Reap
  <2> QED
    BY <2>1 DEF Reap, Reapable, Reaping
<1>2. ToldIsReaped'
  <2> SUFFICES ASSUME ~stuck', NEW s \in told'
               PROVE  \/ ch'[s].closed
                      \/ \E q \in Publishers : pub'[q].pc = "reap" /\ s \in subs'[pub'[q].map]
    BY DEF ToldIsReaped
  <2>1. s \in told /\ ~stuck /\ s \in Streams
    BY <1>t DEF Reap, TypeOK
  <2>2. ch'[s].closed = (s \in subs[m] \/ ch[s].closed)
    BY <1>t, <2>1, CloseEffect DEF Reap
  <2>3. CASE ch[s].closed \/ s \in subs[m]
    BY <2>2, <2>3
  <2>4. CASE ~ch[s].closed /\ s \notin subs[m]
    <3>1. PICK q \in Publishers : pub[q].pc = "reap" /\ s \in subs[pub[q].map]
      BY <2>1, <2>4 DEF IInv, ToldIsReaped
    <3>2. pub[q].map # m /\ q # p /\ pub[q].map \in Streams
      BY <2>4, <3>1 DEF IInv, Keeps
    <3>3. pub'[q] = pub[q] /\ subs'[pub[q].map] = subs[pub[q].map]
      BY <1>t, <3>2 DEF Reap, TypeOK
    <3> QED
      BY <3>1, <3>3
  <2> QED
    BY <2>3, <2>4
<1> QED
    BY <1>1, <1>2, ReapingStep DEF IInv

\* A reap that panics leaves the maps consistent, and the broker stuck.
LEMMA ReapPanicsStep == ASSUME IInv, TypeOK', NEW p \in Publishers, ReapPanics(p) PROVE IInv'
<1>1. PICK K \in SUBSET {s \in subs[pub[p].map] : ~ch[s].closed} :
          /\ CloseAll(K) /\ byStreamID' = byStreamID \ K
          /\ subs' = [subs EXCEPT ![pub[p].map] = @ \ K]
    BY DEF ReapPanics
<1>2. Reaping(p, K)
    BY <1>1 DEF ReapPanics, Reapable, Reaping
<1>3. ToldIsReaped'
    BY DEF ReapPanics, ToldIsReaped
<1> QED
    BY <1>2, <1>3, ReapingStep DEF IInv

\* Every step keeps the invariant; only a reap makes the broker stuck.
LEMMA InvStep ==
    IInv /\ [Next]_vars =>
        IInv' /\ (stuck' = stuck \/ \E p \in Publishers : ReapPanics(p))
<1> SUFFICES ASSUME IInv, [Next]_vars
             PROVE  IInv' /\ (stuck' = stuck \/ \E p \in Publishers : ReapPanics(p))
    OBVIOUS
<1>t. TypeOK'
    BY TypeStep DEF IInv
<1>1. CASE \/ \E s \in Streams :
                \/ SaveSubmitted(s) \/ ReadRow(s) \/ Lookup(s) \/ StartTail(s)
                \/ SeeClosed(s) \/ Disconnect(s) \/ Receive(s) \/ PollAttach(s)
                \/ PollClosed(s) \/ PollDisconnect(s) \/ PollReceive(s)
           \/ PublishStatus
           \/ \E p \in Publishers : SaveTerminal(p)
           \/ UNCHANGED vars
  <2>1. Quiet
    BY <1>1, QuietActions
  <2> QED
    BY <1>t, <2>1, QuietStep DEF Quiet
<1>2. ASSUME NEW s \in Streams, Open(s) PROVE IInv' /\ stuck' = stuck
    BY <1>t, <1>2, OpenStep DEF Open, Subscribe
<1>3. ASSUME NEW s \in Streams, ReplayTerminal(s) \/ Leave(s) PROVE IInv' /\ stuck' = stuck
  <2>1. stuck' = stuck
    BY <1>3 DEF ReplayTerminal, Leave, cleanup
  <2> QED
    BY <1>t, <1>3, <2>1, CleanupStep
<1>4. ASSUME NEW p \in Publishers, PublishDone(p) PROVE IInv' /\ stuck' = stuck
  <2>1. stuck = FALSE
    BY <1>4 DEF PublishDone, IInv, TypeOK
  <2> QED
    BY <1>t, <1>4, <2>1, PublishDoneStep DEF TypeOK
<1>5. ASSUME NEW p \in Publishers, Reap(p) PROVE IInv' /\ stuck' = stuck
    BY <1>t, <1>5, ReapStep DEF Reap
<1>6. ASSUME NEW p \in Publishers, ReapPanics(p) PROVE IInv'
    BY <1>t, <1>6, ReapPanicsStep
<1> QED
    BY <1>1, <1>2, <1>3, <1>4, <1>5, <1>6 DEF Next, Serve, Poll, Finish

-----------------------------------------------------------------------------
(* Every variable of the broker and its handlers keeps its type, and no    *)
(* channel ever holds more events than its capacity.                       *)
THEOREM TypesKept == Spec => []TypeOK
<1>1. Init => TypeOK
    BY InitIInv DEF IInv
<1> QED
    BY <1>1, TypeStep, PTL DEF Spec

\* The strengthened invariant holds in every reachable state.
THEOREM Inductive == Spec => []IInv
BY InitIInv, InvStep, PTL DEF Spec

(* A stream whose request is over is in neither map of the broker and its  *)
(* channel is closed, whichever of cleanup and Publish came first.         *)
THEOREM EndedAreForgotten == Spec => []EndedForgotten
<1>1. IInv => EndedForgotten
    BY DEF IInv, Closes, ClosedIsForgotten, EndedForgotten
<1> QED
    BY <1>1, Inductive, PTL

(* Publish's comment about slow subscribers: a stream that was in the map  *)
(* when a done was fanned out is closed, or some publisher that is between *)
(* its two critical sections still has it to close.                        *)
THEOREM ToldAreReaped == Spec => []ToldIsReaped
<1>1. IInv => ToldIsReaped
    BY DEF IInv
<1> QED
    BY <1>1, Inductive, PTL

\* Nothing but a reap panics with the broker's mutex locked.
OnlyReap == ~stuck /\ stuck' => \E p \in Publishers : ReapPanics(p)

(* The fan-out of Publish never sends on a closed channel, although it     *)
(* runs between other publishers' critical sections: the only panic with   *)
(* the mutex held is the double close of the second critical section.      *)
THEOREM OnlyReapPanics == Spec => [][OnlyReap]_vars
<1>1. IInv /\ [Next]_vars => [OnlyReap]_vars
    BY InvStep DEF OnlyReap
<1> QED
    BY <1>1, Inductive, PTL DEF Spec

-----------------------------------------------------------------------------
(* When does the double close happen, and when is a stream cut off from    *)
(* the fan-out?  Neither before a first writer has been through Publish's  *)
(* second critical section: until then the map that is registered is the   *)
(* only one with streams, whatever the clients do.                         *)

AllEarly == \A p \in Publishers : pub[p].pc # "end"

\* A map that is not registered any more was emptied by the cleanup that
\* deregistered it, and every open stream is in the registered one.
EarlyMaps ==
    AllEarly => Attached /\ \A m \in Streams : m # byTaskID => subs[m] = {}

\* A publisher that panicked found what another one had left behind.
TwoEnded ==
    stuck => \E p, q \in Publishers : p # q /\ pub[p].pc = "end" /\ pub[q].pc = "end"

\* A publisher that is through stays so.
EndedStay == \A p \in Publishers : pub[p].pc = "end" => pub'[p].pc = "end"

\* No step before the first end leaves an open stream in an unregistered map.
LEMMA EarlyStep ==
    IInv /\ EarlyMaps /\ TwoEnded /\ [Next]_vars => (EarlyMaps /\ TwoEnded)'
<1> SUFFICES ASSUME IInv, EarlyMaps, TwoEnded, [Next]_vars PROVE (EarlyMaps /\ TwoEnded)'
    OBVIOUS
<1>t. TypeOK /\ TypeOK'
    BY TypeStep DEF IInv
<1>1. ASSUME NEW p \in Publishers, ReapPanics(p) PROVE (EarlyMaps /\ TwoEnded)'
  <2>1. /\ pub[p].pc = "reap" /\ pub[p].map \in Streams
        /\ \E s \in subs[pub[p].map] : ch[s].closed
        /\ pub' = [pub EXCEPT ![p].pc = "end"]
    BY <1>1 DEF ReapPanics, Reapable, DoubleClose, IInv, Keeps
  <2>2. ~AllEarly
    <3>1. SUFFICES ASSUME AllEarly PROVE FALSE
      OBVIOUS
    <3>2. pub[p].map = byTaskID
      BY <2>1, <3>1 DEF EarlyMaps
    <3>3. subs[pub[p].map] = Live /\ Live \subseteq Streams
      BY <1>t, <2>1, <3>2, StreamsAssumption, LiveStreams DEF Live
    <3> QED
      BY <2>1, <3>3 DEF IInv, ClosedIsForgotten
  <2>3. PICK q \in Publishers : pub[q].pc = "end"
    BY <2>2 DEF AllEarly
  <2>4. q # p /\ pub'[q].pc = "end" /\ pub'[p].pc = "end"
    BY <1>t, <2>1, <2>3 DEF TypeOK
  <2> QED
    BY <2>4 DEF TwoEnded, EarlyMaps, AllEarly
<1>2. ASSUME EndedStay, stuck' = stuck PROVE TwoEnded'
    BY <1>2 DEF EndedStay, TwoEnded
<1>3. CASE \/ \E s \in Streams :
                \/ SaveSubmitted(s) \/ ReadRow(s) \/ Lookup(s) \/ StartTail(s)
                \/ SeeClosed(s) \/ Disconnect(s) \/ Receive(s) \/ PollAttach(s)
                \/ PollClosed(s) \/ PollDisconnect(s) \/ PollReceive(s)
           \/ PublishStatus
           \/ \E p \in Publishers : SaveTerminal(p)
           \/ UNCHANGED vars
  <2>1. Quiet
    BY <1>3, QuietActions
  <2>2. EndedStay /\ stuck' = stuck /\ Live' = Live
    BY <2>1 DEF Quiet, EndedStay, Live
  <2>3. EarlyMaps'
    BY <2>1, <2>2 DEF Quiet, EarlyMaps, AllEarly, Attached, EndedStay
  <2> QED
    BY <1>2, <2>2, <2>3
<1>4. ASSUME NEW s \in Streams, Open(s) PROVE (EarlyMaps /\ TwoEnded)'
  <2> DEFINE m == IF byTaskID = NoMap THEN s ELSE byTaskID
  <2>1. /\ byTaskID' = m /\ subs' = [subs EXCEPT ![m] = @ \cup {s}] /\ pub' = pub
        /\ byStreamID' = byStreamID \cup {s} /\ stuck' = stuck
    BY <1>4 DEF Open, Subscribe
  <2>2. m \in Streams /\ m # NoMap
    BY <1>t, StreamsAssumption DEF TypeOK
  <2>3. /\ \A n \in Streams : n # m => subs'[n] = subs[n]
        /\ Live' = subs[m] \cup {s} /\ Live \subseteq Live'
    BY <1>t, <2>1, <2>2 DEF TypeOK, Live
  <2>4. EarlyMaps'
    <3>1. \A n \in Streams : n # m => n # byTaskID
      BY StreamsAssumption
    <3> QED
      BY <2>1, <2>3, <3>1 DEF EarlyMaps, AllEarly, Attached
  <2> QED
    BY <1>2, <2>1, <2>4 DEF EndedStay
<1>5. ASSUME NEW s \in Streams, ReplayTerminal(s) \/ Leave(s) PROVE (EarlyMaps /\ TwoEnded)'
  <2>1. cleanup(s)
    BY <1>5 DEF ReplayTerminal, Leave
  <2>2. pub' = pub
    BY <1>5 DEF ReplayTerminal, Leave
  <2>3. /\ byTaskID' # byTaskID => subs'[byTaskID] = {}
        /\ \A m \in Streams : subs'[m] \subseteq subs[m] /\ subs[m] \ {s} \subseteq subs'[m]
        /\ byTaskID' \in {byTaskID, NoMap} /\ byStreamID' = byStreamID \ {s}
        /\ stuck' = stuck
    BY <1>t, <2>1, CleanupEffect
  <2>4. Live \ {s} \subseteq Live'
    BY <1>t, <2>3, StreamsAssumption DEF Live, TypeOK
  <2>5. EarlyMaps'
    BY <2>2, <2>3, <2>4 DEF EarlyMaps, AllEarly, Attached
  <2> QED
    BY <1>2, <2>2, <2>3, <2>5 DEF EndedStay
<1>6. ASSUME NEW p \in Publishers, PublishDone(p) PROVE (EarlyMaps /\ TwoEnded)'
  <2>1. /\ byTaskID' = byTaskID /\ subs' = subs /\ byStreamID' = byStreamID
        /\ pub[p].pc = "saved" /\ ~stuck
    BY <1>6 DEF PublishDone
  <2>2. EndedStay
    BY <1>t, <1>6 DEF PublishDone, EndedStay, TypeOK
  <2>3. ~stuck'
    BY <1>t, <1>6, PublishDoneStep
  <2>4. Live' = Live
    BY <2>1 DEF Live
  <2> QED
    BY <2>1, <2>2, <2>3, <2>4 DEF EarlyMaps, AllEarly, Attached, EndedStay, TwoEnded
<1>7. ASSUME NEW p \in Publishers, Reap(p) PROVE (EarlyMaps /\ TwoEnded)'
  <2>1. pub'[p].pc = "end" /\ stuck' = stuck
    BY <1>t, <1>7 DEF Reap, TypeOK
  <2>2. EndedStay
    BY <1>t, <1>7 DEF Reap, EndedStay, TypeOK
  <2> QED
    BY <1>2, <2>1, <2>2 DEF EarlyMaps, AllEarly
<1> QED
    BY <1>1, <1>3, <1>4, <1>5, <1>6, <1>7 DEF Next, Serve, Poll, Finish

\* Both hold in every reachable state.
LEMMA EarlyHolds == Spec => [](EarlyMaps /\ TwoEnded)
<1>1. Init => EarlyMaps /\ TwoEnded
    BY DEF Init, EarlyMaps, TwoEnded, Attached
<1> QED
    BY <1>1, EarlyStep, Inductive, PTL DEF Spec

(* NoPanic fails only where two writers meet (a completer and a cancel,    *)
(* say): when the broker is stuck, two different publishers have been      *)
(* through Publish.  A task that one goroutine takes to its terminal state *)
(* never wedges the broker.                                                *)
THEOREM PanicNeedsTwoWriters == Spec => []TwoEnded
BY EarlyHolds, PTL

\* Attached, until some publisher is through.
EarlyAttached == AllEarly => Attached

(* "Publish fans an event out to every subscriber of taskID": before the   *)
(* first publisher has been through its second critical section every open *)
(* stream is in the registered map, so no event passes it by; only a reap  *)
(* that deregisters a map it did not reap cuts streams off.                *)
THEOREM AttachedUntilFirstEnd == Spec => []EarlyAttached
<1>1. EarlyMaps => EarlyAttached
    BY DEF EarlyMaps, EarlyAttached
<1> QED
    BY <1>1, EarlyHolds, PTL
=============================================================================

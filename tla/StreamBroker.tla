---------------------------- MODULE StreamBroker ----------------------------
(***************************************************************************)
(* The A2A StreamBroker and the handlers around it, for ONE task: the      *)
(* subscriptions of different tasks never meet.                            *)
(*                                                                         *)
(* byTaskID[task] is a Go map held by reference: Publish keeps the map it  *)
(* fanned out to after it has released the lock, while another publisher   *)
(* may delete it from byTaskID and a Subscribe may create a new one.  Map  *)
(* objects therefore have an identity here: the stream that created them.  *)
(***************************************************************************)
EXTENDS Naturals, Sequences

CONSTANTS
    Streams,     \* stream ids handed out for the task
    Mixes,       \* which handlers may serve them: a set of [Streams -> Kinds]
    Publishers,  \* goroutines that drive the task to a terminal state
    NoMap,       \* no byTaskID entry
    Cap          \* capacity of a subscriber's channel (16 in the code)

Kinds == {"stream", "resub", "poll"}

ASSUME StreamsAssumption == NoMap \notin Streams /\ Mixes \subseteq [Streams -> Kinds]
ASSUME CapAssumption == Cap \in Nat \ {0}

VARIABLES
    kind,        \* [Streams -> which handler serves the stream]; never changes
    byStreamID,  \* keys of byStreamID
    byTaskID,    \* the map object registered for the task, or NoMap
    subs,        \* [map object -> its streams]
    ch,          \* [Streams -> [q, closed]]: sub.ch
    req,         \* [Streams -> where the stream's HTTP request is]
    snap,        \* [Streams -> the row state serveResubscribe read]
    row,         \* the task's row: "working" stands for every open state
    pub,         \* [Publishers -> [pc, map]]
    told,        \* history: streams in the map when a done was fanned out
    done,        \* history: streams whose client was sent a done frame
    stuck        \* a goroutine panicked inside Publish, mu stays locked

brokerVars == <<byStreamID, byTaskID, subs, ch, stuck>>
vars == <<kind, brokerVars, req, snap, row, pub, told, done>>

\* Opened by tasks/resubscribe (serveResubscribe).
Resubs == {s \in Streams : kind[s] = "resub"}
\* Read with GET /a2a/stream/<id> (Handler).
Polls == {s \in Streams : kind[s] = "poll"}

\* What isTerminalState answers TRUE for, and the terminal state it omits.
\* "completed" stands for completed, failed and canceled.
isTerminalState(s) == s = "completed"
TerminalRows == {"completed", "rejected"}
Rows == {"working"} \cup TerminalRows

Init ==
    /\ kind \in Mixes
    /\ byStreamID = {}
    /\ byTaskID = NoMap
    /\ subs = [m \in Streams |-> {}]
    /\ ch = [s \in Streams |-> [q |-> <<>>, closed |-> FALSE]]
    /\ req = [s \in Streams |-> "new"]
    /\ snap = [s \in Streams |-> "working"]
    /\ row = "working"
    /\ pub = [p \in Publishers |-> [pc |-> "idle", map |-> NoMap]]
    /\ told = {}
    /\ done = {}
    /\ stuck = FALSE

-----------------------------------------------------------------------------
(* The broker's critical sections.                                         *)

\* Mutant: the send is not guarded by the channel's capacity.
BadOffer(set, ev) ==
    /\ ch' = [s \in Streams |->
                IF s \in set THEN [ch[s] EXCEPT !.q = Append(@, ev)] ELSE ch[s]]
    /\ stuck' = (\E s \in set : ch[s].closed)

\* A non-blocking send to every stream of the set: dropped when the channel
\* is full, a panic with mu locked when it is closed.
Offer(set, ev) ==
    /\ ch' = [s \in Streams |->
                IF s \in set /\ Len(ch[s].q) < Cap
                  THEN [ch[s] EXCEPT !.q = Append(@, ev)] ELSE ch[s]]
    /\ stuck' = (\E s \in set : ch[s].closed)

Live == IF byTaskID = NoMap THEN {} ELSE subs[byTaskID]

Subscribe(s) ==
    LET m == IF byTaskID = NoMap THEN s ELSE byTaskID IN
    /\ ~stuck
    /\ byStreamID' = byStreamID \cup {s}
    /\ byTaskID' = m
    /\ subs' = [subs EXCEPT ![m] = @ \cup {s}]
    /\ UNCHANGED <<ch, stuck>>

\* Mutant: the stream is not taken out of the task's map.
BadCleanup(s) ==
    /\ ~stuck
    /\ byStreamID' = byStreamID \ {s}
    /\ ch' = [ch EXCEPT ![s].closed = @ \/ s \in byStreamID]
    /\ UNCHANGED <<byTaskID, subs, stuck>>

\* Only the map registered NOW is looked at; a double close is recovered.
cleanup(s) ==
    LET rest == Live \ {s} IN
    /\ ~stuck
    /\ byStreamID' = byStreamID \ {s}
    /\ IF s \in byStreamID /\ byTaskID # NoMap
         THEN /\ subs' = [subs EXCEPT ![byTaskID] = rest]
              /\ byTaskID' = IF rest = {} THEN NoMap ELSE byTaskID
         ELSE UNCHANGED <<subs, byTaskID>>
    /\ ch' = [ch EXCEPT ![s].closed = @ \/ s \in byStreamID]
    /\ UNCHANGED stuck

-----------------------------------------------------------------------------
(* Opening a stream.                                                       *)

\* serve and handleSendStreamingMessage save a SUBMITTED row first, over
\* whatever row a client-chosen task id already has.
SaveSubmitted(s) ==
    /\ s \notin Resubs /\ req[s] = "new"
    /\ row' = "working"
    /\ req' = [req EXCEPT ![s] = "read"]
    /\ UNCHANGED <<brokerVars, snap, pub, told, done>>

\* serveResubscribe reads the row before it subscribes.
ReadRow(s) ==
    /\ s \in Resubs /\ req[s] = "new"
    /\ snap' = [snap EXCEPT ![s] = row]
    /\ req' = [req EXCEPT ![s] = "read"]
    /\ UNCHANGED <<brokerVars, row, pub, told, done>>

Open(s) ==
    /\ req[s] = "read"
    /\ Subscribe(s)
    /\ req' = [req EXCEPT ![s] = "subscribed"]
    /\ UNCHANGED <<snap, row, pub, told, done>>

\* lookup: the inline handlers answer an error when the stream is gone.
Lookup(s) ==
    /\ s \notin Polls /\ req[s] = "subscribed" /\ ~stuck
    /\ req' = [req EXCEPT ![s] = IF s \in byStreamID THEN "open" ELSE "error"]
    /\ UNCHANGED <<brokerVars, snap, row, pub, told, done>>

\* The snapshot is terminal: replay it, send done, cleanup, return.
ReplayTerminal(s) ==
    /\ s \in Resubs /\ req[s] = "open" /\ isTerminalState(snap[s])
    /\ cleanup(s)
    /\ done' = done \cup {s}
    /\ req' = [req EXCEPT ![s] = "ended"]
    /\ UNCHANGED <<snap, row, pub, told>>

\* Mutant: a resubscribe tails whatever the snapshot says.
BadStartTail(s) ==
    /\ req[s] = "open"
    /\ req' = [req EXCEPT ![s] = "tail"]
    /\ UNCHANGED <<brokerVars, snap, row, pub, told, done>>

StartTail(s) ==
    /\ req[s] = "open"
    /\ s \in Resubs => ~isTerminalState(snap[s])
    /\ req' = [req EXCEPT ![s] = "tail"]
    /\ UNCHANGED <<brokerVars, snap, row, pub, told, done>>

-----------------------------------------------------------------------------
(* tailSubscription                                                        *)

Received(s) == /\ ch[s].q # <<>>
               /\ ch' = [ch EXCEPT ![s].q = Tail(@)]
               /\ done' = IF Head(ch[s].q) = "done" THEN done \cup {s} ELSE done

Receive(s) ==
    /\ req[s] = "tail"
    /\ Received(s)
    /\ req' = [req EXCEPT ![s] = IF Head(ch[s].q) = "done" THEN "leaving" ELSE @]
    /\ UNCHANGED <<byStreamID, byTaskID, subs, stuck, snap, row, pub, told>>

SeeClosed(s) ==
    /\ req[s] = "tail" /\ ch[s].q = <<>> /\ ch[s].closed
    /\ req' = [req EXCEPT ![s] = "leaving"]
    /\ UNCHANGED <<brokerVars, snap, row, pub, told, done>>

\* ctx.Done or a failed write: the client went away.
Disconnect(s) ==
    /\ req[s] = "tail"
    /\ req' = [req EXCEPT ![s] = "leaving"]
    /\ UNCHANGED <<brokerVars, snap, row, pub, told, done>>

Leave(s) ==
    /\ req[s] = "leaving"
    /\ cleanup(s)
    /\ req' = [req EXCEPT ![s] = "ended"]
    /\ UNCHANGED <<snap, row, pub, told, done>>

-----------------------------------------------------------------------------
(* Handler, GET /a2a/stream/<id>: reads until the channel is closed, and   *)
(* leaves the subscription in place when the client goes away.             *)

PollAttach(s) ==
    /\ s \in Polls /\ req[s] = "subscribed" /\ ~stuck
    /\ req' = [req EXCEPT ![s] = IF s \in byStreamID THEN "poll" ELSE "error"]
    /\ UNCHANGED <<brokerVars, snap, row, pub, told, done>>

PollReceive(s) ==
    /\ req[s] = "poll"
    /\ Received(s)
    /\ UNCHANGED <<byStreamID, byTaskID, subs, stuck, req, snap, row, pub, told>>

PollClosed(s) ==
    /\ req[s] = "poll" /\ ch[s].q = <<>> /\ ch[s].closed
    /\ req' = [req EXCEPT ![s] = "ended"]
    /\ UNCHANGED <<brokerVars, snap, row, pub, told, done>>

PollDisconnect(s) ==
    /\ req[s] = "poll"
    /\ req' = [req EXCEPT ![s] = "subscribed"]
    /\ UNCHANGED <<brokerVars, snap, row, pub, told, done>>

-----------------------------------------------------------------------------
(* Publish.  A writer that takes the task to a terminal state saves the    *)
(* row and publishes done.  handleCancelTask looks at the row first, the   *)
(* runner's completer and the deliverer's rejection do not, and the look   *)
(* is not atomic with the save: any writer may save at any time.           *)

PublishStatus ==
    /\ ~stuck
    /\ Offer(Live, "status")
    /\ UNCHANGED <<byStreamID, byTaskID, subs, req, snap, row, pub, told, done>>

SaveTerminal(p) ==
    /\ pub[p].pc = "idle"
    /\ row' \in TerminalRows
    /\ pub' = [pub EXCEPT ![p].pc = "saved"]
    /\ UNCHANGED <<brokerVars, req, snap, told, done>>

\* First critical section: fan out, keep the map.
PublishDone(p) ==
    /\ pub[p].pc = "saved" /\ ~stuck
    /\ Offer(Live, "done")
    /\ told' = told \cup Live
    /\ pub' = [pub EXCEPT ![p] = IF byTaskID = NoMap
                                   THEN [pc |-> "end", map |-> NoMap]
                                   ELSE [pc |-> "reap", map |-> byTaskID]]
    /\ UNCHANGED <<byStreamID, byTaskID, subs, req, snap, row, done>>

CloseAll(set) ==
    ch' = [s \in Streams |->
             IF s \in set THEN [ch[s] EXCEPT !.closed = TRUE] ELSE ch[s]]

\* Closing a closed channel panics, so the loop of the second critical section
\* gets to its end only if every channel of the map is open.
Reapable(p) == pub[p].pc = "reap" /\ ~stuck
DoubleClose(p) == \E s \in subs[pub[p].map] : ch[s].closed

\* Mutant: the streams are forgotten but their channels stay open.
BadReap(p) ==
    LET m == pub[p].map IN
    /\ Reapable(p) /\ ~DoubleClose(p)
    /\ byStreamID' = byStreamID \ subs[m]
    /\ subs' = [subs EXCEPT ![m] = {}]
    /\ byTaskID' = NoMap
    /\ pub' = [pub EXCEPT ![p].pc = "end"]
    /\ UNCHANGED <<ch, stuck, req, snap, row, told, done>>

\* Second critical section, on the map kept from the first: close and forget
\* its streams, then delete the byTaskID entry, whichever map is there now.
Reap(p) ==
    LET m == pub[p].map IN
    /\ Reapable(p) /\ ~DoubleClose(p)
    /\ CloseAll(subs[m])
    /\ byStreamID' = byStreamID \ subs[m]
    /\ subs' = [subs EXCEPT ![m] = {}]
    /\ byTaskID' = NoMap
    /\ pub' = [pub EXCEPT ![p].pc = "end"]
    /\ UNCHANGED <<stuck, req, snap, row, told, done>>

\* The panic comes after any part of the open ones; mu is not unlocked.
ReapPanics(p) ==
    LET m == pub[p].map IN
    /\ Reapable(p) /\ DoubleClose(p)
    /\ \E K \in SUBSET {s \in subs[m] : ~ch[s].closed} :
          /\ CloseAll(K)
          /\ byStreamID' = byStreamID \ K
          /\ subs' = [subs EXCEPT ![m] = @ \ K]
    /\ stuck' = TRUE
    /\ pub' = [pub EXCEPT ![p].pc = "end"]
    /\ UNCHANGED <<byTaskID, req, snap, row, told, done>>

-----------------------------------------------------------------------------
Serve(s) == /\ UNCHANGED kind
            /\ \/ Open(s) \/ Lookup(s) \/ ReplayTerminal(s) \/ StartTail(s)
               \/ Receive(s) \/ SeeClosed(s) \/ Leave(s)
Poll(s) == PollAttach(s) \/ PollReceive(s) \/ PollClosed(s)
Finish(p) == UNCHANGED kind /\ (PublishDone(p) \/ Reap(p) \/ ReapPanics(p))

Next ==
    /\ UNCHANGED kind
    /\ \/ \E s \in Streams : \/ SaveSubmitted(s) \/ ReadRow(s) \/ Serve(s)
                             \/ Disconnect(s) \/ Poll(s) \/ PollDisconnect(s)
       \/ PublishStatus
       \/ \E p \in Publishers : SaveTerminal(p) \/ Finish(p)

Spec == Init /\ [][Next]_vars

(* A request or a publication that has begun goes on; clients need not     *)
(* come, go or poll, and the task need not change state.                   *)
Fairness ==
    /\ \A s \in Streams : WF_vars(Serve(s))
    /\ \A p \in Publishers : WF_vars(Finish(p))

FairSpec == Spec /\ Fairness

-----------------------------------------------------------------------------
\* Every variable has its type; a channel never holds more than its capacity.
TypeOK ==
    /\ kind \in [Streams -> Kinds]
    /\ byStreamID \subseteq Streams
    /\ byTaskID \in Streams \cup {NoMap}
    /\ subs \in [Streams -> SUBSET Streams]
    /\ ch \in [Streams -> [q : Seq({"status", "done"}), closed : BOOLEAN]]
    /\ \A s \in Streams : Len(ch[s].q) <= Cap
    /\ req \in [Streams -> {"new", "read", "subscribed", "open", "tail", "poll",
                            "leaving", "ended", "error"}]
    /\ snap \in [Streams -> Rows] /\ row \in Rows
    /\ pub \in [Publishers -> [pc : {"idle", "saved", "reap", "end"},
                               map : Streams \cup {NoMap}]]
    /\ told \subseteq Streams /\ done \subseteq Streams
    /\ stuck \in BOOLEAN

(***************************************************************************)
(* No goroutine closes a channel twice in Publish or sends on a closed one *)
(* there: it would panic with the broker's mutex locked.                   *)
(***************************************************************************)
NoPanic == ~stuck

(***************************************************************************)
(* A stream whose request is over is not in the broker any more: the "slice *)
(* of by-task subscriptions" does not leak it and its channel is closed.   *)
(***************************************************************************)
EndedForgotten ==
    \A s \in Streams : req[s] \in {"ended", "error"} =>
        s \notin byStreamID /\ s \notin Live /\ ch[s].closed

(***************************************************************************)
(* Every open stream is in the task's current map: "Publish fans an event  *)
(* out to every subscriber of taskID".                                     *)
(***************************************************************************)
Attached == \A s \in byStreamID : s \in Live

(***************************************************************************)
(* Publish's comment: a slow subscriber's event is dropped, the stream is  *)
(* closed all the same.  A stream that was in the map when a done was      *)
(* fanned out has been closed, or is still in a map that a publisher has   *)
(* kept and is going to reap, whatever was subscribed, cleaned up or       *)
(* deregistered between the two critical sections (until the broker is     *)
(* stuck, which NoPanic is about).                                         *)
(***************************************************************************)
ToldIsReaped ==
    ~stuck => \A s \in told :
        \/ ch[s].closed
        \/ \E p \in Publishers : pub[p].pc = "reap" /\ s \in subs[pub[p].map]

(***************************************************************************)
(* A stream that was subscribed when a done was fanned out ends, whether   *)
(* the done fitted into its channel or not (or the broker is stuck).       *)
(***************************************************************************)
DoneEnds ==
    \A s \in Streams :
        (s \in told /\ kind[s] # "poll") ~> (req[s] \in {"ended", "error"} \/ stuck)

(***************************************************************************)
(* A resubscribe that read a completed, failed or canceled row ends, having *)
(* sent a done, also when no event is ever published again (or the broker  *)
(* is stuck).                                                              *)
(***************************************************************************)
ReplayEnds ==
    \A s \in Streams :
        (kind[s] = "resub" /\ req[s] = "open" /\ isTerminalState(snap[s]))
            ~> (s \in done \/ stuck)

(***************************************************************************)
(* "return // broker closed the channel (terminal "done" event)": a client *)
(* that loses its stream because the broker closed it was sent the done.   *)
(***************************************************************************)
ClosedMeansDone == [][\A s \in Streams : SeeClosed(s) => s \in done]_vars

(***************************************************************************)
(* "Resubscribe to a terminal-state task emits the snapshot + done and     *)
(* closes": a resubscribe that read a terminal row ends.                   *)
(***************************************************************************)
TerminalReplayEnds ==
    \A s \in Streams :
        (kind[s] = "resub" /\ req[s] = "open" /\ snap[s] \in TerminalRows)
            ~> req[s] = "ended"

(***************************************************************************)
(* "closes immediately on a terminal state OR subscribes to the live broker *)
(* channel + tails until terminal": when all the writers are done and the  *)
(* row is terminal, a tailing resubscribe does not wait for ever.          *)
(***************************************************************************)
Over == row = "completed" /\ \A p \in Publishers : pub[p].pc = "end"
TailEndsAtTerminal ==
    \A s \in Streams :
        (kind[s] = "resub" /\ Over /\ req[s] = "tail") ~> req[s] # "tail"

(***************************************************************************)
(* "IdleTimeout closes any subscription that hasn't received an event in   *)
(* this duration": a subscription that nothing is published to is closed.  *)
(***************************************************************************)
IdleCloses == \A s \in Streams : s \in byStreamID ~> s \notin byStreamID
=============================================================================

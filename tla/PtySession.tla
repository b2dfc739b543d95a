---------------------------- MODULE PtySession ----------------------------
(***************************************************************************)
(* One session.Session: the child behind a PTY, the read loop that copies  *)
(* its output into the ring and fans it out to the subscribers, the wait   *)
(* loop that ends the session, and Close.  A chunk (what one Read of the   *)
(* master returned) is identified with its number in the output; the ring  *)
(* is the number of chunks written to it (RingBuffer models what a bounded *)
(* ring retains of them).                                                  *)
(***************************************************************************)
EXTENDS Naturals, Sequences

CONSTANTS
    Subs,       \* Subscribe calls: WS clients, the activity sniffer, the pump
    Depth,      \* capacity of a subscriber's Ch (64 by default in the code)
    MaxChunks   \* bound: chunks of output

ASSUME BoundsAssumption == Depth \in Nat \ {0} /\ MaxChunks \in Nat

VARIABLES
    child,        \* "running", "exited" or "reaped": cmd.Wait has returned
    held,         \* a descendant of the child still has the slave open
    made,         \* chunks written to the slave
    read,         \* chunks the read loop took from the master
    ring,         \* chunks in the ring
    reader,       \* [pc, todo]: readLoop and the fanout it calls
    subscribers,  \* keys of the subscribers map
    client,       \* [Subs -> progress of the goroutine that subscribed]
    snap,         \* [Subs -> the ring Subscribe returned]
    ch,           \* [Subs -> sub.Ch]
    doneCh,       \* subscribers whose Done is closed
    offered,      \* history: [Subs -> chunks fanned out to the subscriber]
    closed,       \* s.closed; the master is closed with it
    timedOut,     \* history: the wait loop gave up on the read loop
    closer        \* progress of a call of Close

readVars == <<made, read, ring, reader>>
subVars == <<subscribers, client, snap, ch, offered>>
endVars == <<child, held, closed, timedOut, doneCh, closer>>
vars == <<readVars, subVars, endVars>>

Init ==
    /\ child = "running" /\ held = FALSE
    /\ made = 0 /\ read = 0 /\ ring = 0
    /\ reader = [pc |-> "read", todo |-> {}]
    /\ subscribers = {}
    /\ client = [s \in Subs |-> "new"]
    /\ snap = [s \in Subs |-> 0]
    /\ ch = [s \in Subs |-> <<>>]
    /\ doneCh = {}
    /\ offered = [s \in Subs |-> {}]
    /\ closed = FALSE /\ timedOut = FALSE
    /\ closer = "idle"

-----------------------------------------------------------------------------
(* The child: writes, exits, possibly leaving a descendant on the slave.   *)

ChildWrite ==
    /\ child = "running" \/ held
    /\ made < MaxChunks
    /\ made' = made + 1
    /\ UNCHANGED <<read, ring, reader, subVars, endVars>>

Exits == /\ child = "running"
         /\ child' = "exited"
         /\ held' \in BOOLEAN
         /\ UNCHANGED <<readVars, subVars, closed, timedOut, doneCh>>

ChildExit == Exits /\ UNCHANGED closer

ReleaseSlave ==
    /\ held
    /\ held' = FALSE
    /\ UNCHANGED <<readVars, subVars, child, closed, timedOut, doneCh, closer>>

-----------------------------------------------------------------------------
(* readLoop and fanout                                                     *)

Read ==
    /\ reader.pc = "read" /\ read < made /\ ~closed
    /\ read' = read + 1
    /\ reader' = [reader EXCEPT !.pc = "ring"]
    /\ UNCHANGED <<made, ring, subVars, endVars>>

\* The slave is closed and drained, or the master was closed under the loop.
ReadFails ==
    /\ reader.pc = "read"
    /\ closed \/ (child # "running" /\ ~held /\ read = made)
    /\ reader' = [reader EXCEPT !.pc = "done"]
    /\ UNCHANGED <<made, read, ring, subVars, endVars>>

RingWrite ==
    /\ reader.pc = "ring"
    /\ ring' = read
    /\ reader' = [reader EXCEPT !.pc = "fan"]
    /\ UNCHANGED <<made, read, subVars, endVars>>

\* fanout copies the set under mu and sends without it.
FanCopy ==
    /\ reader.pc = "fan"
    /\ reader' = [pc |-> "send", todo |-> subscribers]
    /\ UNCHANGED <<made, read, ring, subVars, endVars>>

\* Mutant: the send is not guarded by the channel's capacity.
BadSend(s) ==
    ch' = [ch EXCEPT ![s] = Append(@, read)]

Send(s) ==
    ch' = [ch EXCEPT ![s] = IF Len(@) < Depth THEN Append(@, read) ELSE @]

\* Mutant: a full channel ends the fan-out instead of skipping a subscriber.
BadFanSend(s) ==
    /\ reader.pc = "send" /\ s \in reader.todo
    /\ Send(s)
    /\ offered' = [offered EXCEPT ![s] = @ \cup {read}]
    /\ reader' = [reader EXCEPT !.todo = IF Len(ch[s]) < Depth THEN @ \ {s} ELSE {}]
    /\ UNCHANGED <<made, read, ring, subscribers, client, snap, endVars>>

FanSend(s) ==
    /\ reader.pc = "send" /\ s \in reader.todo
    /\ Send(s)
    /\ offered' = [offered EXCEPT ![s] = @ \cup {read}]
    /\ reader' = [reader EXCEPT !.todo = @ \ {s}]
    /\ UNCHANGED <<made, read, ring, subscribers, client, snap, endVars>>

FanEnd ==
    /\ reader.pc = "send" /\ reader.todo = {}
    /\ reader' = [reader EXCEPT !.pc = "read"]
    /\ UNCHANGED <<made, read, ring, subVars, endVars>>

-----------------------------------------------------------------------------
(* waitLoop: cmd.Wait, then readDone or two seconds, then the end.         *)

\* Mutant: the clients' Done channels are forgotten.
BadFinish ==
    /\ closed' = TRUE
    /\ UNCHANGED <<readVars, subVars, child, held, doneCh, closer>>

Finish ==
    /\ closed' = TRUE
    /\ doneCh' = doneCh \cup subscribers
    /\ UNCHANGED <<readVars, subVars, child, held, closer>>

WaitReturns ==
    /\ child = "exited"
    /\ child' = "reaped"
    /\ UNCHANGED <<readVars, subVars, held, closed, timedOut, doneCh, closer>>

\* Mutant: the master is closed as soon as the child was reaped (#363).
BadWaitDrained ==
    /\ child = "reaped" /\ ~closed
    /\ Finish
    /\ UNCHANGED timedOut

WaitDrained ==
    /\ child = "reaped" /\ ~closed /\ reader.pc = "done"
    /\ Finish
    /\ UNCHANGED timedOut

\* Mutant: no safety deadline.
BadWaitTimeout ==
    /\ child = "reaped" /\ ~closed /\ reader.pc = "done"
    /\ timedOut' = TRUE
    /\ Finish

WaitTimeout ==
    /\ child = "reaped" /\ ~closed
    /\ timedOut' = TRUE
    /\ Finish

-----------------------------------------------------------------------------
(* Close: SIGTERM, wait for done, SIGKILL after five seconds.              *)

CloseCall ==
    /\ closer = "idle"
    /\ closer' = IF closed THEN "returned" ELSE "term"
    /\ UNCHANGED <<readVars, subVars, child, held, closed, timedOut, doneCh>>

\* SIGTERM may end the child at once, later (ChildExit) or not at all.
CloseKill ==
    /\ closer = "term" /\ ~closed
    /\ closer' = "killed"
    /\ Exits \/ (child # "running" /\ UNCHANGED <<readVars, subVars, child, held,
                                                   closed, timedOut, doneCh>>)

CloseReturn ==
    /\ closer \in {"term", "killed"} /\ closed
    /\ closer' = "returned"
    /\ UNCHANGED <<readVars, subVars, child, held, closed, timedOut, doneCh>>

-----------------------------------------------------------------------------
(* A client: Subscribe, replay the snapshot, receive until Done.           *)

Subscribe(s) ==
    /\ client[s] = "new" /\ ~closed
    /\ client' = [client EXCEPT ![s] = "live"]
    /\ subscribers' = subscribers \cup {s}
    /\ snap' = [snap EXCEPT ![s] = ring]
    /\ UNCHANGED <<readVars, ch, offered, endVars>>

SubscribeRefused(s) ==
    /\ client[s] = "new" /\ closed
    /\ client' = [client EXCEPT ![s] = "refused"]
    /\ UNCHANGED <<readVars, subscribers, snap, ch, offered, endVars>>

Receive(s) ==
    /\ client[s] = "live" /\ ch[s] # <<>>
    /\ ch' = [ch EXCEPT ![s] = Tail(@)]
    /\ UNCHANGED <<readVars, subscribers, client, snap, offered, endVars>>

SeeDone(s) ==
    /\ client[s] = "live" /\ s \in doneCh
    /\ client' = [client EXCEPT ![s] = "leaving"]
    /\ UNCHANGED <<readVars, subscribers, snap, ch, offered, endVars>>

\* The client goes away on its own (WS closed, silence-finalize).
Detach(s) ==
    /\ client[s] = "live"
    /\ client' = [client EXCEPT ![s] = "leaving"]
    /\ UNCHANGED <<readVars, subscribers, snap, ch, offered, endVars>>

Unsubscribe(s) ==
    /\ client[s] = "leaving"
    /\ client' = [client EXCEPT ![s] = "left"]
    /\ subscribers' = subscribers \ {s}
    /\ UNCHANGED <<readVars, snap, ch, offered, endVars>>

-----------------------------------------------------------------------------
ReadLoop == Read \/ ReadFails \/ RingWrite \/ FanCopy \/ FanEnd
                \/ \E s \in Subs : FanSend(s)
WaitLoop == WaitReturns \/ WaitDrained \/ WaitTimeout
Closing == CloseKill \/ CloseReturn
Winding(s) == SeeDone(s) \/ Unsubscribe(s)

Next ==
    \/ ChildWrite \/ ChildExit \/ ReleaseSlave
    \/ ReadLoop \/ WaitLoop
    \/ CloseCall \/ Closing
    \/ \E s \in Subs : \/ Subscribe(s) \/ SubscribeRefused(s) \/ Receive(s)
                       \/ Detach(s) \/ Winding(s)

Spec == Init /\ [][Next]_vars

(***************************************************************************)
(* The three goroutines run, and a client's select loop does not starve    *)
(* the Done case for ever (Go's select picks among the ready cases at      *)
(* random).  The child need not exit on its own.                           *)
(***************************************************************************)
Fairness ==
    /\ WF_vars(ReadLoop) /\ WF_vars(WaitLoop) /\ WF_vars(Closing)
    /\ \A s \in Subs : WF_vars(Winding(s))

FairSpec == Spec /\ Fairness

-----------------------------------------------------------------------------
\* Every variable has its type; a channel holds at most Depth chunks.
TypeOK ==
    /\ child \in {"running", "exited", "reaped"}
    /\ held \in BOOLEAN /\ closed \in BOOLEAN /\ timedOut \in BOOLEAN
    /\ made \in 0..MaxChunks /\ read \in 0..MaxChunks /\ ring \in 0..MaxChunks
    /\ reader \in [pc : {"read", "ring", "fan", "send", "done"}, todo : SUBSET Subs]
    /\ subscribers \subseteq Subs /\ doneCh \subseteq Subs
    /\ client \in [Subs -> {"new", "live", "leaving", "left", "refused"}]
    /\ snap \in [Subs -> 0..MaxChunks]
    /\ ch \in [Subs -> Seq(1..MaxChunks)]
    /\ \A s \in Subs : Len(ch[s]) <= Depth
    /\ offered \in [Subs -> SUBSET (1..MaxChunks)]
    /\ closer \in {"idle", "term", "killed", "returned"}

(***************************************************************************)
(* Between the ring a subscriber was given and its live chunks no chunk is *)
(* missing: whenever the read loop is between two chunks, every chunk read *)
(* since the snapshot was offered to every subscriber (and dropped only if *)
(* that subscriber's own channel was full).                                *)
(***************************************************************************)
NoGap ==
    reader.pc \in {"read", "done"} =>
        \A s \in subscribers : \A k \in (snap[s] + 1)..read : k \in offered[s]

(***************************************************************************)
(* #363: a fast-exiting child's tail output is not lost.  When the session *)
(* has closed without the two-second deadline, everything the child wrote  *)
(* is in the ring.                                                         *)
(***************************************************************************)
TailKept == closed /\ ~timedOut => ring = made

(***************************************************************************)
(* After the child has exited every subscriber is told and leaves, whatever *)
(* still holds the slave open and however full the channels are.           *)
(***************************************************************************)
ExitReleasesClients ==
    \A s \in Subs : child # "running" /\ client[s] = "live" ~> client[s] # "live"

\* A call of Close returns, also when the child ignores SIGTERM.
CloseReturns == closer = "term" ~> closer = "returned"

(***************************************************************************)
(* Subscribe's comment: "The returned Subscriber receives every PTY stdout *)
(* chunk that arrives AFTER subscribe time; the second return value is a   *)
(* snapshot of the ring": no chunk is in both.                             *)
(***************************************************************************)
ReplayThenLive == \A s \in subscribers : \A k \in offered[s] : k > snap[s]
=============================================================================

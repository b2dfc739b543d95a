------------------------------ MODULE HubRelay ------------------------------
(***************************************************************************)
(* A2A messages between two orgs over a hub-relayed WebRTC data channel.   *)
(*                                                                         *)
(* The hub keeps one mailbox of signalling frames per org; reading it      *)
(* empties it.  A daemon has two readers of its own mailbox: the           *)
(* HubAnswerer, which wants offers, and every HubSignaler.ExchangeOffer in *)
(* progress, which wants its answer.  HubDeliverer sends a message through *)
(* a cached connection (PCStore) or dials a new one, and tries again after *)
(* a transport failure.                                                    *)
(*                                                                         *)
(* A session is one offered connection with its two ends.  A caller is one *)
(* HubDeliverer.Deliver with its message; sessions are named by the caller *)
(* and the attempt that dialled them (the code takes a fresh uuid).        *)
(***************************************************************************)
EXTENDS Naturals

CONSTANTS
    Orgs,         \* two of them
    Callers,
    Home,         \* [Callers -> Orgs]: the daemon the caller runs in
    MaxAttempts,  \* hubDialMaxAttempts
    Faults,       \* the faults that may happen: subset of {"frames", "link"}
    None

ASSUME RelayAssumption ==
    /\ \A o \in Orgs : \E p \in Orgs : p # o
    /\ Home \in [Callers -> Orgs]
    /\ MaxAttempts \in Nat \ {0}
    /\ None \notin Callers \cup (Callers \X (1..MaxAttempts))

Peer(o) == CHOOSE p \in Orgs : p # o
Sessions == Callers \X (1..MaxAttempts)
HomeOf(k) == Home[k[1]]

Offer(k) == [kind |-> "offer", sess |-> k]
Answer(k) == [kind |-> "answer", sess |-> k]
Frames == [kind : {"offer", "answer"}, sess : Sessions]

VARIABLES
    box,        \* [Orgs -> signalingQueue.frames of that org]
    inbox,      \* [Orgs -> offers pollOnce has drained and not yet handled]
    off,        \* [Sessions -> the offerer's PeerConnection]
    ans,        \* [Sessions -> the answerer's PeerConnection]
    store,      \* [Orgs -> PCStore.conns of the other org, or None]
    handler,    \* [Sessions -> whose client's onMessage the offerer's end has]
    reqs, reps, \* [Sessions -> messages on the data channel]
    pc,         \* [Callers -> control state]
    att,        \* [Callers -> attempt]
    using,      \* [Callers -> the connection GetOrDial returned, or None]
    delivered   \* [Callers -> how often the peer's Deliverer got the message]

mail == <<box, inbox>>
chanVars == <<handler, reqs, reps>>
vars == <<mail, off, ans, store, chanVars, pc, att, using, delivered>>

Returned == {"answered", "gaveUp"}

Init ==
    /\ box = [o \in Orgs |-> {}]
    /\ inbox = [o \in Orgs |-> {}]
    /\ off = [k \in Sessions |-> "none"]
    /\ ans = [k \in Sessions |-> "none"]
    /\ store = [o \in Orgs |-> None]
    /\ handler = [k \in Sessions |-> None]
    /\ reqs = [k \in Sessions |-> {}]
    /\ reps = [k \in Sessions |-> {}]
    /\ pc = [c \in Callers |-> "get"]
    /\ att = [c \in Callers |-> 1]
    /\ using = [c \in Callers |-> None]
    /\ delivered = [c \in Callers |-> 0]

-----------------------------------------------------------------------------
(* PCStore                                                                 *)

Mine(c) == <<c, att[c]>>    \* the session this attempt dials
Healthy(k) == k # None /\ off[k] = "open"
Close(K) == [k \in Sessions |-> IF k \in K THEN "closed" ELSE off[k]]
Unread(K) == [k \in Sessions |-> IF k \in K THEN {} ELSE reps[k]]

\* GetOrDial's fast path: a healthy connection is used.
GetCached(c) ==
    LET o == Home[c] IN
    /\ pc[c] = "get" /\ Healthy(store[o])
    /\ using' = [using EXCEPT ![c] = store[o]]
    /\ pc' = [pc EXCEPT ![c] = "send"]
    /\ UNCHANGED <<mail, off, ans, store, chanVars, att, delivered>>

\* A stale one is closed and dropped under the lock; then dial posts the
\* offer of a new connection to the hub.
GetStale(c) ==
    LET o == Home[c]  k == Mine(c) IN
    /\ pc[c] = "get" /\ ~Healthy(store[o])
    /\ store' = [store EXCEPT ![o] = None]
    /\ off' = [Close({store[o]}) EXCEPT ![k] = "offered"]
    /\ box' = [box EXCEPT ![Peer(o)] = @ \cup {Offer(k)}]
    /\ pc' = [pc EXCEPT ![c] = "polling"]
    /\ UNCHANGED <<inbox, ans, chanVars, att, using, delivered>>

\* ExchangeOffer's poll empties the mailbox; the caller's own answer, if it is
\* there, is the remote description, and every other frame is discarded.
Poll(c) ==
    LET k == Mine(c)  o == Home[c] IN
    /\ pc[c] = "polling" /\ box[o] # {}
    /\ box' = [box EXCEPT ![o] = {}]
    /\ IF Answer(k) \in box[o]
         THEN /\ off' = [off EXCEPT ![k] = "answered"]
              /\ pc' = [pc EXCEPT ![c] = "opening"]
         ELSE UNCHANGED <<off, pc>>
    /\ UNCHANGED <<inbox, ans, store, chanVars, att, using, delivered>>

\* The channel opened at some time before the lock is taken again.
HasOpened(c) == pc[c] = "opening" /\ off[Mine(c)] \in {"open", "failed"}

\* Mutant: the last to dial wins, whatever is in the store.
BadCacheNew(c) ==
    LET o == Home[c]  k == Mine(c) IN
    /\ HasOpened(c)
    /\ store' = [store EXCEPT ![o] = k]
    /\ using' = [using EXCEPT ![c] = k]
    /\ pc' = [pc EXCEPT ![c] = "send"]
    /\ UNCHANGED <<mail, off, ans, chanVars, att, delivered>>

\* GetOrDial's second critical section: the entry is replaced unless healthy;
\* a failed connection it held is forgotten, not closed.
CacheNew(c) ==
    LET o == Home[c]  k == Mine(c) IN
    /\ HasOpened(c) /\ ~Healthy(store[o])
    /\ store' = [store EXCEPT ![o] = k]
    /\ using' = [using EXCEPT ![c] = k]
    /\ pc' = [pc EXCEPT ![c] = "send"]
    /\ UNCHANGED <<mail, off, ans, chanVars, att, delivered>>

\* Another caller's connection is in the store: ours is closed, theirs used.
CacheLost(c) ==
    LET o == Home[c] IN
    /\ HasOpened(c) /\ Healthy(store[o])
    /\ off' = Close({Mine(c)})
    /\ using' = [using EXCEPT ![c] = store[o]]
    /\ pc' = [pc EXCEPT ![c] = "send"]
    /\ UNCHANGED <<mail, ans, store, chanVars, att, delivered>>

-----------------------------------------------------------------------------
(* attemptOverHub: a client of its own per attempt, whose handler replaces *)
(* that of any other client of the connection; SendRPC; the retry loop     *)

\* Mutant: the connection is closed and left in the store.
BadFail(c, K) ==
    /\ off' = Close(K \cup {store[Home[c]]})
    /\ reps' = Unread(K \cup {store[Home[c]]})
    /\ using' = [using EXCEPT ![c] = None]
    /\ \/ att[c] < MaxAttempts /\ att' = [att EXCEPT ![c] = @ + 1]
                               /\ pc' = [pc EXCEPT ![c] = "get"]
       \/ pc' = [pc EXCEPT ![c] = "gaveUp"] /\ UNCHANGED att
    /\ UNCHANGED <<mail, ans, store, delivered>>

\* Mutant: one attempt too many.
BadFailAttempts(c, K) ==
    /\ off' = Close(K \cup {store[Home[c]]})
    /\ reps' = Unread(K \cup {store[Home[c]]})
    /\ store' = [store EXCEPT ![Home[c]] = None]
    /\ using' = [using EXCEPT ![c] = None]
    /\ \/ att[c] <= MaxAttempts /\ att' = [att EXCEPT ![c] = @ + 1]
                                /\ pc' = [pc EXCEPT ![c] = "get"]
       \/ pc' = [pc EXCEPT ![c] = "gaveUp"] /\ UNCHANGED att
    /\ UNCHANGED <<mail, ans, delivered>>

\* A transport failure: the dial's own connections K are closed, then whatever
\* connection the store has for the peer.  The next attempt follows after a
\* pause, unless it was the last one or the caller's context ends.
Fail(c, K) ==
    /\ off' = Close(K \cup {store[Home[c]]})
    /\ reps' = Unread(K \cup {store[Home[c]]})
    /\ store' = [store EXCEPT ![Home[c]] = None]
    /\ using' = [using EXCEPT ![c] = None]
    /\ \/ att[c] < MaxAttempts /\ att' = [att EXCEPT ![c] = @ + 1]
                               /\ pc' = [pc EXCEPT ![c] = "get"]
       \/ pc' = [pc EXCEPT ![c] = "gaveUp"] /\ UNCHANGED att
    /\ UNCHANGED <<mail, ans, delivered>>

\* The dial's deadline, a failed post, or a description that is not accepted.
DialFails(c) ==
    /\ pc[c] \in {"polling", "opening"}
    /\ Fail(c, {Mine(c)})
    /\ UNCHANGED <<handler, reqs>>

Send(c) ==
    LET k == using[c] IN
    /\ pc[c] = "send"
    /\ handler' = [handler EXCEPT ![k] = c]
    /\ IF off[k] = "open"
         THEN /\ reqs' = [reqs EXCEPT ![k] = @ \cup {c}]
              /\ pc' = [pc EXCEPT ![c] = "waiting"]
              /\ UNCHANGED <<mail, off, ans, store, reps, att, using, delivered>>
         ELSE Fail(c, {}) /\ UNCHANGED reqs

\* Mutant: any response on the connection is taken for the waiting call's.
BadReceive(k, c) ==
    LET d == handler[k] IN
    /\ c \in reps[k] /\ off[k] = "open"
    /\ reps' = [reps EXCEPT ![k] = @ \ {c}]
    /\ pc' = IF pc[d] = "waiting" /\ using[d] = k THEN [pc EXCEPT ![d] = "answered"]
             ELSE pc
    /\ UNCHANGED <<mail, off, ans, store, handler, reqs, att, using, delivered>>

\* The response to c reaches the offerer's end: the installed handler looks
\* for a waiting call with that id.  A peer error is a response too: it is
\* final and is not retried.
Receive(k, c) ==
    /\ c \in reps[k] /\ off[k] = "open"
    /\ reps' = [reps EXCEPT ![k] = @ \ {c}]
    /\ pc' = IF handler[k] = c /\ pc[c] = "waiting" /\ using[c] = k
               THEN [pc EXCEPT ![c] = "answered"]
               ELSE pc
    /\ UNCHANGED <<mail, off, ans, store, handler, reqs, att, using, delivered>>

SendTimeout(c) ==
    /\ pc[c] = "waiting"
    /\ Fail(c, {})
    /\ UNCHANGED <<handler, reqs>>

-----------------------------------------------------------------------------
(* HubAnswerer                                                             *)

\* pollOnce empties the mailbox and keeps the offers.
AnswererPoll(o) ==
    /\ inbox[o] = {} /\ box[o] # {}
    /\ inbox' = [inbox EXCEPT ![o] = {k \in Sessions : Offer(k) \in box[o]}]
    /\ box' = [box EXCEPT ![o] = {}]
    /\ UNCHANGED <<off, ans, store, chanVars, pc, att, using, delivered>>

\* handleOffer: a connection that serves from the start, and its answer.
HandleOffer(o, k) ==
    /\ k \in inbox[o]
    /\ inbox' = [inbox EXCEPT ![o] = @ \ {k}]
    /\ ans' = [ans EXCEPT ![k] = "ready"]
    /\ box' = [box EXCEPT ![HomeOf(k)] = @ \cup {Answer(k)}]
    /\ UNCHANGED <<off, store, chanVars, pc, att, using, delivered>>

\* Any of handleOffer's errors: the connection is closed.  A post that failed
\* after the hub accepted it leaves an answer that leads nowhere.
RefuseOffer(o, k) ==
    /\ k \in inbox[o]
    /\ inbox' = [inbox EXCEPT ![o] = @ \ {k}]
    /\ box' \in {box, [box EXCEPT ![HomeOf(k)] = @ \cup {Answer(k)}]}
    /\ UNCHANGED <<off, ans, store, chanVars, pc, att, using, delivered>>

\* ServeJSONRPC: the local Deliverer runs and its result, or its error, goes
\* back; the offerer may have given up by then.
Serve(k, c) ==
    /\ c \in reqs[k] /\ ans[k] = "open"
    /\ reqs' = [reqs EXCEPT ![k] = @ \ {c}]
    /\ delivered' = [delivered EXCEPT ![c] = @ + 1]
    /\ reps' = IF off[k] = "open" THEN [reps EXCEPT ![k] = @ \cup {c}] ELSE reps
    /\ UNCHANGED <<mail, off, ans, store, handler, pc, att, using>>

-----------------------------------------------------------------------------
(* pion and the network                                                    *)

\* Both descriptions are set: the data channel opens.
Connect(k) ==
    /\ off[k] = "answered" /\ ans[k] = "ready"
    /\ off' = [off EXCEPT ![k] = "open"]
    /\ ans' = [ans EXCEPT ![k] = "open"]
    /\ UNCHANGED <<mail, store, chanVars, pc, att, using, delivered>>

\* The link or the answering daemon dies; nobody closes the offerer's end.
LinkFails(k) ==
    /\ "link" \in Faults /\ off[k] = "open"
    /\ off' = [off EXCEPT ![k] = "failed"]
    /\ ans' = [ans EXCEPT ![k] = "failed"]
    /\ reqs' = [reqs EXCEPT ![k] = {}]
    /\ reps' = [reps EXCEPT ![k] = {}]
    /\ UNCHANGED <<mail, store, handler, pc, att, using, delivered>>

\* A frame expires (gcOnce), is lost with the hub, or with the response to
\* the poll that took it.
LoseFrame(o, f) ==
    /\ "frames" \in Faults /\ f \in box[o]
    /\ box' = [box EXCEPT ![o] = @ \ {f}]
    /\ UNCHANGED <<inbox, off, ans, store, chanVars, pc, att, using, delivered>>

-----------------------------------------------------------------------------
CallerWork(c) ==
    \/ GetCached(c) \/ GetStale(c) \/ Poll(c) \/ DialFails(c)
    \/ CacheNew(c) \/ CacheLost(c) \/ Send(c) \/ SendTimeout(c)

Next ==
    \/ \E c \in Callers : CallerWork(c)
    \/ \E o \in Orgs :
          \/ AnswererPoll(o)
          \/ \E k \in Sessions : HandleOffer(o, k) \/ RefuseOffer(o, k)
          \/ \E f \in Frames : LoseFrame(o, f)
    \/ \E k \in Sessions :
          \/ Connect(k) \/ LinkFails(k)
          \/ \E c \in Callers : Serve(k, c) \/ Receive(k, c)

Spec == Init /\ [][Next]_vars

(***************************************************************************)
(* A running Deliver goes on; its two deadlines (DialTimeout, SendTimeout) *)
(* fire if nothing else happens.  Nothing is assumed of the hub, the peer  *)
(* or the network.                                                         *)
(***************************************************************************)
Fairness ==
    \A c \in Callers :
        /\ WF_vars(GetCached(c) \/ GetStale(c)) /\ WF_vars(DialFails(c))
        /\ WF_vars(Send(c)) /\ WF_vars(SendTimeout(c))

FairSpec == Spec /\ Fairness

-----------------------------------------------------------------------------
\* Every variable has its type.
TypeOK ==
    /\ box \in [Orgs -> SUBSET Frames]
    /\ inbox \in [Orgs -> SUBSET Sessions]
    /\ off \in [Sessions -> {"none", "offered", "answered", "open", "failed", "closed"}]
    /\ ans \in [Sessions -> {"none", "ready", "open", "failed"}]
    /\ store \in [Orgs -> Sessions \cup {None}]
    /\ handler \in [Sessions -> Callers \cup {None}]
    /\ reqs \in [Sessions -> SUBSET Callers]
    /\ reps \in [Sessions -> SUBSET Callers]
    /\ pc \in [Callers -> {"get", "polling", "opening", "send", "waiting"}
                           \cup Returned]
    /\ att \in [Callers -> 1..MaxAttempts]
    /\ using \in [Callers -> Sessions \cup {None}]
    /\ delivered \in [Callers -> 0..MaxAttempts]

(***************************************************************************)
(* "PCStore is the lifecycle owner" of the connections: one that works is  *)
(* in its daemon's store, or still in the hands of the call that dials it. *)
(* Two callers that dial at once must not leave one behind.                *)
(***************************************************************************)
DialledBy(c, k) == k = Mine(c) /\ pc[c] \in {"polling", "opening"}
HealthyOwned ==
    \A k \in Sessions : off[k] = "open" =>
        store[HomeOf(k)] = k \/ \E c \in Callers : DialledBy(c, k)

(***************************************************************************)
(* The store never hands out a connection that somebody has closed: the    *)
(* entry goes before the connection is closed.                             *)
(***************************************************************************)
StoreSound ==
    \A o \in Orgs : store[o] # None => off[store[o]] \in {"open", "failed"}

\* A call as the caller of Deliver sees it.
Outcome(state) ==
    IF state = "answered" THEN "ok" ELSE IF state = "gaveUp" THEN "error" ELSE "pending"
CallResult == [c \in Callers |-> Outcome(pc[c])]

(***************************************************************************)
(* What Deliver promises its caller: RemoteCall with a bounded number of   *)
(* attempts.  Although any frame, connection or response may be lost, it   *)
(* returns; the peer's Deliverer sees the message at most once per attempt *)
(* (late requests on connections that were given up included); and a       *)
(* result of the peer is reported only if the peer's Deliverer has run for *)
(* this very message.                                                      *)
(***************************************************************************)
Call == INSTANCE RemoteCall WITH
    Calls <- Callers,
    MaxTries <- MaxAttempts,
    result <- CallResult,
    tries <- att,
    runs <- delivered

ImplementsRemoteCall == Call!FairSpec

(***************************************************************************)
(* hub_answerer.go: "the offerer is the only one that consumes answers".   *)
(* While an ExchangeOffer polls, an answer that was posted for it is in    *)
(* the mailbox (checked without faults: nothing else removes it).          *)
(***************************************************************************)
AnswerAwaitsOfferer ==
    \A c \in Callers :
        pc[c] = "polling" /\ ans[Mine(c)] = "ready"
            => Answer(Mine(c)) \in box[Home[c]]
=============================================================================

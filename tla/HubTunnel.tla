----------------------------- MODULE HubTunnel -----------------------------
(***************************************************************************)
(* The reverse tunnel between a chepherd-hub and the runners of one org.   *)
(* A runner dials the hub and keeps one websocket open (the reconnect loop *)
(* of cmd/runner); the hub keeps at most one tunnel per org in a map,      *)
(* forwards inbound HTTP requests over it and pairs the responses with the *)
(* waiting handlers by request id.  Orgs are independent keys of the map,  *)
(* so one org is modelled.                                                 *)
(*                                                                         *)
(* A tunnel number stands for one websocket connection, with its two ends  *)
(* and the goroutines that serve it.  One step is one critical section,    *)
(* one channel operation or one read or write of a connection.             *)
(***************************************************************************)
EXTENDS Naturals

CONSTANTS
    Runners,     \* runner processes configured for the org
    MaxTunnels,  \* a bound: how many connections are ever dialled
    Requests,    \* inbound HTTP requests for the org
    None

ASSUME TunnelAssumption == MaxTunnels \in Nat /\ None \notin Nat \cup Requests

Tunnels == 1..MaxTunnels

VARIABLES
    hub,       \* "up", or "down" once the shutdown reached closeAll
    current,   \* tunnelManager.tunnels[org], or None
    mmu,       \* the tunnel whose register holds tunnelManager.mu, or None
    shutting,  \* the tunnel closeAll took from the map and has yet to close
    pump,      \* [Tunnels -> state of the handleRelayTunnel goroutine]
    held,      \* [Tunnels -> the request whose channel dispatch looked up]
    closed,    \* tunnels with tunnel.closed
    pending,   \* [Tunnels -> keys of tunnel.pending]
    toClose,   \* [Tunnels -> waiters whose channel close() has yet to close]
    req,       \* [Requests -> state of the handleRelayInbound goroutine]
    via,       \* [Requests -> the tunnel lookup returned, or None]
    chan,      \* [Requests -> the waiter's channel: value buffered, closed]
    dials,     \* connections dialled so far
    client,    \* [Tunnels -> state of the relayTunnelClient]
    link,      \* [Runners -> the client the reconnect loop waits on, or None]
    broken,    \* connections cut by the network or by either end
    served,    \* history: [Requests -> how often handleFrame ran for it]
    toRunner, handling, toHub  \* [Tunnels -> requests: sent, being served,
                               \* answered]; what no end can read is dropped

hubVars == <<hub, current, mmu, shutting>>
pumpVars == <<pump, held>>
tunVars == <<closed, pending, toClose>>
reqVars == <<req, via, chan>>
runVars == <<dials, client, link>>
wire == <<toRunner, handling, toHub>>
vars == <<hubVars, pumpVars, tunVars, reqVars, runVars, broken, served, wire>>

Ended == {"answered", "badGateway", "timeout"}

Init ==
    /\ hub = "up" /\ current = None /\ mmu = None /\ shutting = None
    /\ pump = [t \in Tunnels |-> "none"]
    /\ held = [t \in Tunnels |-> None]
    /\ closed = {}
    /\ pending = [t \in Tunnels |-> {}]
    /\ toClose = [t \in Tunnels |-> {}]
    /\ req = [r \in Requests |-> "idle"]
    /\ via = [r \in Requests |-> None]
    /\ chan = [r \in Requests |-> {}]
    /\ dials = 0
    /\ client = [t \in Tunnels |-> "none"]
    /\ link = [u \in Runners |-> None]
    /\ broken = {}
    /\ toRunner = [t \in Tunnels |-> {}]
    /\ handling = [t \in Tunnels |-> {}]
    /\ toHub = [t \in Tunnels |-> {}]
    /\ served = [r \in Requests |-> 0]

-----------------------------------------------------------------------------
(* The runner's reconnect loop and its client                              *)

\* runHubRelayTunnel: at the start, or once Done of the last client fired, a
\* Dial that succeeds; a failed one changes nothing but the backoff.  The
\* handshake ends when the hub has upgraded, before it has registered.
Dial(u) ==
    LET t == dials + 1 IN
    /\ link[u] # None => client[link[u]] = "closed"
    /\ hub = "up" /\ t \in Tunnels
    /\ dials' = t
    /\ client' = [client EXCEPT ![t] = "open"]
    /\ link' = [link EXCEPT ![u] = t]
    /\ pump' = [pump EXCEPT ![t] = "accepted"]
    /\ UNCHANGED <<hubVars, held, tunVars, reqVars, broken, wire, served>>

\* readPump: a frame for the runner, served by a goroutine of its own.
RunnerRead(t, r) ==
    /\ client[t] = "open" /\ r \in toRunner[t]
    /\ toRunner' = [toRunner EXCEPT ![t] = @ \ {r}]
    /\ handling' = [handling EXCEPT ![t] = @ \cup {r}]
    /\ UNCHANGED <<hubVars, pumpVars, tunVars, reqVars, runVars, broken, toHub, served>>

\* relayTunnelClient.Close
ClientClose(t) ==
    /\ client[t] = "open"
    /\ client' = [client EXCEPT ![t] = "closed"]
    /\ broken' = broken \cup {t}
    /\ toRunner' = [toRunner EXCEPT ![t] = {}]
    /\ UNCHANGED <<hubVars, pumpVars, tunVars, reqVars, dials, link, handling, toHub, served>>

\* readPump: ReadMessage fails, the deferred Close runs.
RunnerReadError(t) == t \in broken /\ ClientClose(t)

\* The loop's context is cancelled; a later Dial is that of a new process.
RunnerStop(u) == link[u] # None /\ ClientClose(link[u])

\* handleFrame: the local handler has run, or sendErrorResponse answers a frame
\* that makes no request; the write may fail on a cut connection.
HandleFrame(t, r) ==
    /\ r \in handling[t]
    /\ handling' = [handling EXCEPT ![t] = @ \ {r}]
    /\ served' = [served EXCEPT ![r] = @ + 1]
    /\ \/ /\ client[t] = "open" /\ t \notin closed
          /\ toHub' = [toHub EXCEPT ![t] = @ \cup {r}]
       \/ t \in broken /\ UNCHANGED toHub
    /\ UNCHANGED <<hubVars, pumpVars, tunVars, reqVars, runVars, broken, toRunner>>

NetworkCut(t) ==
    /\ client[t] = "open" /\ t \notin broken
    /\ broken' = broken \cup {t}
    /\ UNCHANGED <<hubVars, pumpVars, tunVars, reqVars, runVars, wire, served>>

-----------------------------------------------------------------------------
\* Mutant: the waiters are forgotten, their channels never closed.
BadClose(t) ==
    IF t \in closed
      THEN UNCHANGED <<tunVars, broken, toHub>>
      ELSE /\ closed' = closed \cup {t}
           /\ pending' = [pending EXCEPT ![t] = {}]
           /\ broken' = broken \cup {t}
           /\ toHub' = [toHub EXCEPT ![t] = {}]
           /\ UNCHANGED toClose

(* tunnel.close: the first caller sets the flag, takes the waiters, closes *)
(* the connection and then closes the waiters' channels one by one.        *)
Close(t) ==
    IF t \in closed
      THEN UNCHANGED <<tunVars, broken, toHub>>
      ELSE /\ closed' = closed \cup {t}
           /\ toClose' = [toClose EXCEPT ![t] = pending[t]]
           /\ pending' = [pending EXCEPT ![t] = {}]
           /\ broken' = broken \cup {t}
           /\ toHub' = [toHub EXCEPT ![t] = {}]

CloseChannel(t, r) ==
    /\ r \in toClose[t]
    /\ toClose' = [toClose EXCEPT ![t] = @ \ {r}]
    /\ chan' = [chan EXCEPT ![r] = @ \cup {"closed"}]
    /\ UNCHANGED <<hubVars, pumpVars, closed, pending, req, via, runVars,
                   broken, wire, served>>

(* tunnelManager *)

\* register: an existing tunnel is closed before the new one takes its place,
\* all of it under the manager's mutex.
Register(t) ==
    /\ pump[t] = "accepted" /\ mmu = None
    /\ IF current = None
         THEN /\ current' = t
              /\ pump' = [pump EXCEPT ![t] = "reading"]
              /\ UNCHANGED <<mmu, tunVars, broken, toHub>>
         ELSE /\ mmu' = t
              /\ pump' = [pump EXCEPT ![t] = "evicting"]
              /\ Close(current)
              /\ UNCHANGED current
    /\ UNCHANGED <<hub, shutting, held, reqVars, runVars, toRunner, handling, served>>

\* Mutant: the evicted tunnel's slot is not given to the new one.
BadEvicted(t) ==
    /\ pump[t] = "evicting" /\ toClose[current] = {}
    /\ mmu' = None
    /\ pump' = [pump EXCEPT ![t] = "reading"]
    /\ UNCHANGED <<hub, current, shutting, held, tunVars, reqVars, runVars,
                   broken, wire, served>>

Evicted(t) ==
    /\ pump[t] = "evicting" /\ toClose[current] = {}
    /\ current' = t
    /\ mmu' = None
    /\ pump' = [pump EXCEPT ![t] = "reading"]
    /\ UNCHANGED <<hub, shutting, held, tunVars, reqVars, runVars, broken, wire, served>>

\* Mutant: the entry is deleted whoever holds it by now.
BadDeregister(t) ==
    /\ pump[t] = "leaving" /\ mmu = None
    /\ current' = None
    /\ pump' = [pump EXCEPT ![t] = "closing"]
    /\ UNCHANGED <<hub, mmu, shutting, held, tunVars, reqVars, runVars, broken, wire, served>>

Deregister(t) ==
    /\ pump[t] = "leaving" /\ mmu = None
    /\ current' = IF current = t THEN None ELSE current
    /\ pump' = [pump EXCEPT ![t] = "closing"]
    /\ UNCHANGED <<hub, mmu, shutting, held, tunVars, reqVars, runVars, broken, wire, served>>

\* closeAll: the map is emptied first, the tunnel closed after the unlock.
CloseAllTake ==
    /\ hub = "up" /\ mmu = None
    /\ hub' = "down"
    /\ current' = None
    /\ shutting' = current
    /\ UNCHANGED <<mmu, pumpVars, tunVars, reqVars, runVars, broken, wire, served>>

CloseAllClose ==
    /\ shutting # None
    /\ Close(shutting)
    /\ shutting' = None
    /\ UNCHANGED <<hub, current, mmu, pumpVars, reqVars, runVars, toRunner, handling, served>>

-----------------------------------------------------------------------------
(* handleRelayTunnel's read loop, dispatch and the deferred calls           *)

\* A response frame: dispatch looks its waiter up under tunnel.mu.
PumpRead(t, r) ==
    /\ pump[t] = "reading" /\ t \notin closed /\ r \in toHub[t]
    /\ toHub' = [toHub EXCEPT ![t] = @ \ {r}]
    /\ IF r \in pending[t]
         THEN /\ pump' = [pump EXCEPT ![t] = "dispatching"]
              /\ held' = [held EXCEPT ![t] = r]
         ELSE UNCHANGED pumpVars
    /\ UNCHANGED <<hubVars, tunVars, reqVars, runVars, broken, toRunner, handling, served>>

\* The send happens after the unlock.  On a channel closed in between it
\* panics; the handler's deferred calls run and net/http recovers.
Dispatch(t) ==
    /\ pump[t] = "dispatching"
    /\ IF "closed" \in chan[held[t]]
         THEN /\ pump' = [pump EXCEPT ![t] = "leaving"]
              /\ UNCHANGED chan
         ELSE /\ pump' = [pump EXCEPT ![t] = "reading"]
              /\ chan' = [chan EXCEPT ![held[t]] = @ \cup {"value"}]
    /\ held' = [held EXCEPT ![t] = None]
    /\ UNCHANGED <<hubVars, tunVars, req, via, runVars, broken, wire, served>>

\* Mutant: the loop closes the tunnel while it is still in the map.
EagerPumpReadError(t) ==
    /\ pump[t] = "reading" /\ t \in broken
    /\ pump' = [pump EXCEPT ![t] = "leaving"]
    /\ Close(t)
    /\ UNCHANGED <<hubVars, held, reqVars, runVars, toRunner, handling, served>>

\* Mutant: the loop returns without the deferred calls.
NoDeferPumpReadError(t) ==
    /\ pump[t] = "reading" /\ t \in broken
    /\ pump' = [pump EXCEPT ![t] = "gone"]
    /\ UNCHANGED <<hubVars, held, tunVars, reqVars, runVars, broken, wire, served>>

PumpReadError(t) ==
    /\ pump[t] = "reading" /\ t \in broken
    /\ pump' = [pump EXCEPT ![t] = "leaving"]
    /\ UNCHANGED <<hubVars, held, tunVars, reqVars, runVars, broken, wire, served>>

PumpClose(t) ==
    /\ pump[t] = "closing"
    /\ pump' = [pump EXCEPT ![t] = "gone"]
    /\ Close(t)
    /\ UNCHANGED <<hubVars, held, reqVars, runVars, toRunner, handling, served>>

-----------------------------------------------------------------------------
(* handleRelayInbound and roundTrip                                        *)

Lookup(r) ==
    /\ req[r] = "idle" /\ mmu = None
    /\ via' = [via EXCEPT ![r] = current]
    /\ req' = [req EXCEPT ![r] = IF current = None THEN "badGateway" ELSE "found"]
    /\ UNCHANGED <<hubVars, pumpVars, tunVars, chan, runVars, broken, wire, served>>

\* roundTrip: the slot is registered before the frame is sent (#686).
AwaitSlot(r) ==
    /\ req[r] = "found"
    /\ IF via[r] \in closed
         THEN /\ req' = [req EXCEPT ![r] = "badGateway"]
              /\ UNCHANGED pending
         ELSE /\ req' = [req EXCEPT ![r] = "sending"]
              /\ pending' = [pending EXCEPT ![via[r]] = @ \cup {r}]
    /\ UNCHANGED <<hubVars, pumpVars, closed, toClose, via, chan, runVars, broken, wire, served>>

SendFrame(r) ==
    /\ req[r] = "sending" /\ via[r] \notin closed
    /\ toRunner' = IF client[via[r]] = "open"
                      THEN [toRunner EXCEPT ![via[r]] = @ \cup {r}]
                      ELSE toRunner
    /\ req' = [req EXCEPT ![r] = "waiting"]
    /\ UNCHANGED <<hubVars, pumpVars, tunVars, via, chan, runVars, broken,
                   handling, toHub, served>>

\* Leaving roundTrip runs the deferred delete of the slot.
EndRoundTrip(r, result) ==
    /\ req' = [req EXCEPT ![r] = result]
    /\ pending' = [pending EXCEPT ![via[r]] = @ \ {r}]
    /\ UNCHANGED <<hubVars, pumpVars, closed, toClose, via, chan, runVars,
                   broken, wire, served>>

SendFails(r) ==
    /\ req[r] = "sending" /\ via[r] \in broken
    /\ EndRoundTrip(r, "badGateway")

\* Mutant: a receive from the closed channel taken for a response.
BadReceive(r) ==
    /\ req[r] = "waiting" /\ chan[r] # {}
    /\ EndRoundTrip(r, IF "value" \in chan[r] THEN "answered" ELSE "nil")

\* A buffered value is received before the closing is seen.
Receive(r) ==
    /\ req[r] = "waiting" /\ chan[r] # {}
    /\ EndRoundTrip(r, IF "value" \in chan[r] THEN "answered" ELSE "badGateway")

\* relayRequestTimeout, or the caller went away.
Timeout(r) == req[r] = "waiting" /\ EndRoundTrip(r, "timeout")

-----------------------------------------------------------------------------
ClientWork(t) ==
    \/ RunnerReadError(t)
    \/ \E r \in Requests : RunnerRead(t, r) \/ HandleFrame(t, r)
PumpWork(t) ==
    \/ Register(t) \/ Evicted(t) \/ Deregister(t) \/ PumpClose(t)
    \/ Dispatch(t) \/ PumpReadError(t)
    \/ \E r \in Requests : PumpRead(t, r) \/ CloseChannel(t, r)
RequestWork(r) == AwaitSlot(r) \/ SendFrame(r) \/ SendFails(r) \/ Receive(r)

Next ==
    \/ \E u \in Runners : Dial(u) \/ RunnerStop(u)
    \/ \E t \in Tunnels : ClientWork(t) \/ PumpWork(t) \/ NetworkCut(t)
    \/ \E r \in Requests : Lookup(r) \/ RequestWork(r) \/ Timeout(r)
    \/ CloseAllTake \/ CloseAllClose

Spec == Init /\ [][Next]_vars

(***************************************************************************)
(* Goroutines that can go on do, each of those that serve a tunnel on its  *)
(* own, and a read on a cut connection fails in the end.  The timeout is   *)
(* given no fairness: the properties must hold without its help.           *)
(***************************************************************************)
Fairness ==
    /\ \A t \in Tunnels :
          /\ WF_vars(Register(t)) /\ WF_vars(Evicted(t)) /\ WF_vars(Deregister(t))
          /\ WF_vars(PumpClose(t)) /\ WF_vars(Dispatch(t)) /\ WF_vars(PumpReadError(t))
          /\ WF_vars(RunnerReadError(t))
          /\ \A r \in Requests :
                /\ WF_vars(RunnerRead(t, r)) /\ WF_vars(HandleFrame(t, r))
                /\ WF_vars(PumpRead(t, r)) /\ WF_vars(CloseChannel(t, r))
    /\ \A r \in Requests : WF_vars(RequestWork(r))
    /\ WF_vars(CloseAllClose)

FairSpec == Spec /\ Fairness

-----------------------------------------------------------------------------
\* Every variable has its type.
TypeOK ==
    /\ hub \in {"up", "down"}
    /\ current \in Tunnels \cup {None}
    /\ mmu \in Tunnels \cup {None}
    /\ shutting \in Tunnels \cup {None}
    /\ pump \in [Tunnels -> {"none", "accepted", "evicting", "reading",
                             "dispatching", "leaving", "closing", "gone"}]
    /\ held \in [Tunnels -> Requests \cup {None}]
    /\ closed \subseteq Tunnels
    /\ pending \in [Tunnels -> SUBSET Requests]
    /\ toClose \in [Tunnels -> SUBSET Requests]
    /\ req \in [Requests -> {"idle", "found", "sending", "waiting"} \cup Ended]
    /\ via \in [Requests -> Tunnels \cup {None}]
    /\ chan \in [Requests -> SUBSET {"value", "closed"}]
    /\ dials \in 0..MaxTunnels
    /\ client \in [Tunnels -> {"none", "open", "closed"}]
    /\ link \in [Runners -> Tunnels \cup {None}]
    /\ broken \subseteq Tunnels
    /\ served \in [Requests -> Nat]
    /\ toRunner \in [Tunnels -> SUBSET Requests]
    /\ handling \in [Tunnels -> SUBSET Requests]
    /\ toHub \in [Tunnels -> SUBSET Requests]

(***************************************************************************)
(* register evicts, deregister removes only its own entry, and the pump    *)
(* deregisters before it closes: what lookup hands out, whenever the mutex *)
(* lets it look, is a tunnel that was not closed at that moment.           *)
(***************************************************************************)
LookupFindsOpen == mmu = None /\ current # None => current \notin closed

(***************************************************************************)
(* No tunnel is served without being reachable: one whose read loop runs   *)
(* and that nobody has closed is the one in the map (or is the one the     *)
(* shutdown is about to close).  A late exit of a replaced connection must *)
(* not take the entry of its successor away.                               *)
(***************************************************************************)
OpenIsRegistered ==
    \A t \in Tunnels :
        pump[t] \in {"reading", "dispatching"} /\ t \notin closed
            => t \in {current, shutting}

(***************************************************************************)
(* A handler that waits for a response can still be woken without its      *)
(* timeout: its channel has something to receive, or is in the map that    *)
(* dispatch and close look at, or in the list close is working through.    *)
(***************************************************************************)
WaiterReachable ==
    \A r \in Requests : req[r] = "waiting" =>
        \/ chan[r] # {}
        \/ r \in pending[via[r]] \cup toClose[via[r]]

(***************************************************************************)
(* A runner that believes its tunnel open is in the hub's map in the end,  *)
(* or finds out that its connection is gone and can dial again.            *)
(***************************************************************************)
OpenRegistersOrNotices ==
    \A t \in Tunnels : client[t] = "open" ~> current = t \/ client[t] = "closed"

\* A call as the caller of /relay sees it.
Outcome(state) ==
    IF state = "idle" THEN "idle"
    ELSE IF state = "answered" THEN "ok"
    ELSE IF state \in Ended THEN "error" ELSE "pending"
CallResult == [r \in Requests |-> Outcome(req[r])]
CallTries == [r \in Requests |-> IF via[r] = None THEN 0 ELSE 1]

(***************************************************************************)
(* What the hub promises the caller of /relay: RemoteCall with a single    *)
(* attempt.  The runner's handler runs at most once, an answer is the      *)
(* runner's, and whatever happens to the tunnel every forwarded request    *)
(* ends, although the timeout need never fire (#686: a waiter registered   *)
(* after the send would be stranded until then).                           *)
(***************************************************************************)
Call == INSTANCE RemoteCall WITH
    Calls <- Requests,
    MaxTries <- 1,
    result <- CallResult,
    tries <- CallTries,
    runs <- served

ImplementsRemoteCall == Call!FairSpec
=============================================================================

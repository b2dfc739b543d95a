-------------------------- MODULE HubTunnel_proofs --------------------------
(***************************************************************************)
(* The hub's tunnel map, the waiting handlers and the promise to the       *)
(* caller, for any number of runners, connections and requests.            *)
(***************************************************************************)
EXTENDS HubTunnel, TLAPS

Unregistered == {"none", "accepted", "evicting"}
Serving == {"reading", "dispatching", "leaving"}

\* The tunnel in the map has been registered and has not been taken out by its
\* own goroutine; the one the shutdown took is no longer in the map; only
\* registered tunnels are closed; numbers are given out in order.
Mapped ==
    /\ current # None => pump[current] \in Serving
    /\ shutting # None => pump[shutting] \notin Unregistered /\ shutting # current
    /\ hub = "up" => shutting = None
    /\ \A t \in closed : pump[t] \notin Unregistered
    /\ \A t \in Tunnels : t > dials => pump[t] = "none"

\* While register holds the mutex it has closed the tunnel it replaces.
Evicting ==
    \A t \in Tunnels :
        /\ pump[t] = "evicting" <=> mmu = t
        /\ mmu = t => current # None /\ current \in closed

\* A handler in roundTrip has a tunnel; from the slot's registration on it can
\* be reached; a tunnel nobody closed has no channels to close.
Slots ==
    /\ \A r \in Requests : req[r] \in {"found", "sending", "waiting"} => via[r] \in Tunnels
    /\ \A r \in Requests : req[r] \in {"sending", "waiting"} =>
          chan[r] # {} \/ r \in pending[via[r]] \cup toClose[via[r]]
    /\ \A t \in Tunnels : t \notin closed => toClose[t] = {}

\* Where a request is on its way to the runner and back: it is in one place,
\* and it is served once, between the two directions.
Journey ==
    /\ \A r \in Requests : req[r] = "idle" => via[r] = None
    /\ \A r \in Requests : req[r] \in {"idle", "found", "sending"} => served[r] = 0
    /\ \A t \in Tunnels : \A r \in toRunner[t] \cup handling[t] :
          /\ req[r] \notin {"idle", "found", "sending"}
          /\ via[r] = t /\ served[r] = 0
    /\ \A t \in Tunnels : toRunner[t] \cap handling[t] = {}
    /\ \A t \in Tunnels : \A r \in Requests :
          r \in toHub[t] \/ held[t] = r => served[r] > 0
    /\ \A r \in Requests : "value" \in chan[r] => served[r] > 0

IInv ==
    /\ TypeOK /\ Mapped /\ Evicting /\ LookupFindsOpen /\ OpenIsRegistered
    /\ Slots /\ Journey

\* The idle hub satisfies the invariant.
LEMMA InitIInv == Init => IInv
<1> SUFFICES ASSUME Init PROVE IInv
    OBVIOUS
<1> USE TunnelAssumption DEF Init
<1>1. TypeOK
    BY DEF TypeOK, Ended
<1>2. Mapped /\ Evicting /\ LookupFindsOpen /\ OpenIsRegistered
    BY DEF Mapped, Evicting, LookupFindsOpen, OpenIsRegistered, Tunnels
<1>3. Slots
    BY DEF Slots
<1>4. Journey
  <2>1. \A r \in Requests : req[r] = "idle" /\ via[r] = None /\ served[r] = 0 /\ chan[r] = {}
    OBVIOUS
  <2>2. \A t \in Tunnels : toRunner[t] = {} /\ handling[t] = {} /\ toHub[t] = {}
    OBVIOUS
  <2>3. \A t \in Tunnels : \A r \in Requests : held[t] # r
    BY TunnelAssumption
  <2> QED
    BY <2>1, <2>2, <2>3 DEF Journey
<1> QED
    BY <1>1, <1>2, <1>3, <1>4 DEF IInv

\* None of the tunnels is None.
LEMMA NoneIsNoTunnel == None \notin Tunnels
BY TunnelAssumption DEF Tunnels

\* tunnel.close: types, and what becomes of the waiters.
LEMMA CloseEffect ==
    ASSUME TypeOK, Slots, NEW t \in Tunnels, Close(t)
    PROVE  /\ closed' = closed \cup {t}
           /\ pending' \in [Tunnels -> SUBSET Requests]
           /\ toClose' \in [Tunnels -> SUBSET Requests]
           /\ broken' \subseteq Tunnels
           /\ toHub' \in [Tunnels -> SUBSET Requests]
           /\ \A u \in Tunnels : /\ toHub'[u] \subseteq toHub[u]
                                 /\ pending[u] \cup toClose[u] \subseteq pending'[u] \cup toClose'[u]
                                 /\ u \notin closed' => toClose'[u] = {}
<1>1. CASE t \in closed
    BY <1>1 DEF Close, TypeOK, Slots, tunVars
<1>2. CASE t \notin closed
  <2>1. /\ closed' = closed \cup {t} /\ broken' = broken \cup {t}
        /\ toClose' = [toClose EXCEPT ![t] = pending[t]]
        /\ pending' = [pending EXCEPT ![t] = {}]
        /\ toHub' = [toHub EXCEPT ![t] = {}]
    BY <1>2 DEF Close
  <2>2. \A u \in Tunnels : u \notin closed => toClose[u] = {}
    BY DEF Slots
  <2> QED
    BY <1>2, <2>1, <2>2, SMTT(30) DEF TypeOK
<1> QED
    BY <1>1, <1>2

\* Every step keeps the types.
LEMMA TypeStep == IInv /\ [Next]_vars => TypeOK'
<1> SUFFICES ASSUME IInv, [Next]_vars PROVE TypeOK'
    OBVIOUS
<1> USE TunnelAssumption DEF IInv, Ended
<1>1. ASSUME NEW u \in Runners, Dial(u) PROVE TypeOK'
  <2>1. dials + 1 \in 0..MaxTunnels
    BY <1>1 DEF Dial, TypeOK, Tunnels
  <2> QED
    BY <1>1, <2>1 DEF Dial, TypeOK, hubVars, tunVars, reqVars, wire
<1>2. ASSUME NEW t \in Tunnels, ClientClose(t) PROVE TypeOK'
    BY <1>2 DEF ClientClose, TypeOK, hubVars, pumpVars, tunVars, reqVars
<1>3. ASSUME NEW t \in Tunnels, NEW r \in Requests, RunnerRead(t, r) PROVE TypeOK'
    BY <1>3 DEF RunnerRead, TypeOK, hubVars, pumpVars, tunVars, reqVars, runVars
<1>4. ASSUME NEW t \in Tunnels, NEW r \in Requests, HandleFrame(t, r) PROVE TypeOK'
    BY <1>4, SMTT(30) DEF HandleFrame, TypeOK, hubVars, pumpVars, tunVars, reqVars, runVars
<1>5. ASSUME NEW t \in Tunnels, NetworkCut(t) PROVE TypeOK'
    BY <1>5 DEF NetworkCut, TypeOK, hubVars, pumpVars, tunVars, reqVars, runVars, wire
<1>6. ASSUME NEW t \in Tunnels, NEW r \in Requests, CloseChannel(t, r) PROVE TypeOK'
    BY <1>6 DEF CloseChannel, TypeOK, hubVars, pumpVars, runVars, wire
<1>7. ASSUME NEW t \in Tunnels, Register(t) PROVE TypeOK'
  <2>1. CASE current = None
    BY <1>7, <2>1 DEF Register, TypeOK, tunVars, reqVars, runVars
  <2>2. CASE current # None
    <3>1. current \in Tunnels /\ Close(current)
      BY <1>7, <2>2 DEF Register, TypeOK
    <3>2. /\ closed' \subseteq Tunnels /\ broken' \subseteq Tunnels
          /\ pending' \in [Tunnels -> SUBSET Requests]
          /\ toClose' \in [Tunnels -> SUBSET Requests]
          /\ toHub' \in [Tunnels -> SUBSET Requests]
      BY <3>1, CloseEffect DEF TypeOK
    <3> QED
      BY <1>7, <2>2, <3>2, ZenonT(60) DEF Register, TypeOK, reqVars, runVars
  <2> QED
    BY <2>1, <2>2
<1>8. ASSUME NEW t \in Tunnels, Evicted(t) \/ Deregister(t) PROVE TypeOK'
    BY <1>8 DEF Evicted, Deregister, TypeOK, tunVars, reqVars, runVars, wire
<1>9. ASSUME CloseAllTake PROVE TypeOK'
    BY <1>9 DEF CloseAllTake, TypeOK, pumpVars, tunVars, reqVars, runVars, wire
<1>10. ASSUME CloseAllClose PROVE TypeOK'
  <2>1. shutting \in Tunnels /\ Close(shutting)
    BY <1>10 DEF CloseAllClose, TypeOK
  <2>2. /\ closed' \subseteq Tunnels /\ broken' \subseteq Tunnels
        /\ pending' \in [Tunnels -> SUBSET Requests]
        /\ toClose' \in [Tunnels -> SUBSET Requests]
        /\ toHub' \in [Tunnels -> SUBSET Requests]
    BY <2>1, CloseEffect DEF TypeOK
  <2> QED
    BY <1>10, <2>2 DEF CloseAllClose, TypeOK, pumpVars, reqVars, runVars
<1>11. ASSUME NEW t \in Tunnels, NEW r \in Requests, PumpRead(t, r) PROVE TypeOK'
    BY <1>11 DEF PumpRead, TypeOK, hubVars, pumpVars, tunVars, reqVars, runVars
<1>12. ASSUME NEW t \in Tunnels, Dispatch(t) PROVE TypeOK'
    BY <1>12, SMTT(30) DEF Dispatch, TypeOK, hubVars, tunVars, runVars, wire
<1>13. ASSUME NEW t \in Tunnels, PumpReadError(t) PROVE TypeOK'
    BY <1>13 DEF PumpReadError, TypeOK, hubVars, tunVars, reqVars, runVars, wire
<1>14. ASSUME NEW t \in Tunnels, PumpClose(t) PROVE TypeOK'
  <2>1. /\ closed' \subseteq Tunnels /\ broken' \subseteq Tunnels
        /\ pending' \in [Tunnels -> SUBSET Requests]
        /\ toClose' \in [Tunnels -> SUBSET Requests]
        /\ toHub' \in [Tunnels -> SUBSET Requests]
    BY <1>14, CloseEffect DEF PumpClose, TypeOK
  <2> QED
    BY <1>14, <2>1 DEF PumpClose, TypeOK, hubVars, reqVars, runVars
<1>15. ASSUME NEW r \in Requests, Lookup(r) PROVE TypeOK'
    BY <1>15 DEF Lookup, TypeOK, hubVars, pumpVars, tunVars, runVars, wire
<1>16. ASSUME NEW r \in Requests, AwaitSlot(r) PROVE TypeOK'
    BY <1>16 DEF AwaitSlot, TypeOK, hubVars, pumpVars, runVars, wire
<1>17. ASSUME NEW r \in Requests, SendFrame(r) PROVE TypeOK'
  <2>1. via[r] \in Tunnels
    BY <1>17 DEF SendFrame, Slots
  <2>2. toRunner' \in [Tunnels -> SUBSET Requests]
    BY <1>17, <2>1 DEF SendFrame, TypeOK
  <2>3. req' \in [Requests -> {"idle", "found", "sending", "waiting"} \cup Ended]
    BY <1>17 DEF SendFrame, TypeOK
  <2> QED
    BY <1>17, <2>2, <2>3 DEF SendFrame, TypeOK, hubVars, pumpVars, tunVars, runVars
<1>18. ASSUME NEW r \in Requests, NEW x \in Ended, EndRoundTrip(r, x) PROVE TypeOK'
    BY <1>18 DEF EndRoundTrip, TypeOK, hubVars, pumpVars, runVars, wire
<1>19. ASSUME UNCHANGED vars PROVE TypeOK'
    BY <1>19 DEF vars, hubVars, pumpVars, tunVars, reqVars, runVars, wire, TypeOK
<1>20. ASSUME NEW r \in Requests, SendFails(r) \/ Receive(r) \/ Timeout(r) PROVE TypeOK'
    BY <1>18, <1>20 DEF SendFails, Receive, Timeout
<1>21. ASSUME NEW u \in Runners, RunnerStop(u) PROVE TypeOK'
  <2>1. link[u] \in Tunnels
    BY <1>21 DEF RunnerStop, TypeOK
  <2> QED
    BY <1>2, <1>21, <2>1 DEF RunnerStop
<1> QED
    BY <1>1, <1>2, <1>3, <1>4, <1>5, <1>6, <1>7, <1>8, <1>9, <1>10, <1>11, <1>12, <1>13,
       <1>14, <1>15, <1>16, <1>17, <1>19, <1>20, <1>21
    DEF Next, ClientWork, PumpWork, RequestWork, RunnerReadError

-----------------------------------------------------------------------------
\* Map is what the tunnel map's invariants say together.
Map == Mapped /\ Evicting /\ LookupFindsOpen /\ OpenIsRegistered

\* Steps of the runner, the network and the handlers leave the map alone.
LEMMA MapKept ==
    ASSUME Map, UNCHANGED <<hubVars, pump, closed, dials>>
    PROVE  Map'
BY DEF Map, Mapped, Evicting, LookupFindsOpen, OpenIsRegistered, hubVars

\* A goroutine that goes on within, or leaves, its read loop.
LEMMA MapPump ==
    ASSUME TypeOK, Map, UNCHANGED <<hubVars, closed, dials>>, NEW t \in Tunnels, NEW x \in Serving,
           pump' = [pump EXCEPT ![t] = x], pump[t] \in Serving,
           x # "leaving" => pump[t] \in {"reading", "dispatching"}
    PROVE  Map'
<1>1. pump'[t] = x /\ \A u \in Tunnels : u # t => pump'[u] = pump[u]
    BY DEF TypeOK
<1> QED
    BY <1>1 DEF Map, Mapped, Evicting, LookupFindsOpen, OpenIsRegistered, hubVars,
                Serving, Unregistered, TypeOK

\* Every step keeps the map sound.
LEMMA MapStep == IInv /\ [Next]_vars => Map'
<1> SUFFICES ASSUME IInv, [Next]_vars PROVE Map'
    OBVIOUS
<1>a. TypeOK /\ Map /\ Slots
    BY DEF IInv, Map
<1> USE NoneIsNoTunnel
<1>1. ASSUME NEW u \in Runners, Dial(u) PROVE Map'
  <2> DEFINE t == dials + 1
  <2>1. /\ t \in Tunnels /\ dials \in Nat /\ dials' = t /\ UNCHANGED <<hubVars, closed>>
        /\ pump' = [pump EXCEPT ![t] = "accepted"]
    BY <1>1, <1>a, TunnelAssumption DEF Dial, TypeOK, tunVars
  <2>2. pump[t] = "none"
    BY <2>1, <1>a DEF Map, Mapped
  <2>3. pump'[t] = "accepted" /\ \A v \in Tunnels : v # t => pump'[v] = pump[v]
    BY <2>1, <1>a DEF TypeOK
  <2>4. current # t /\ shutting # t /\ t \notin closed /\ mmu # t
    BY <2>1, <2>2, <1>a DEF Map, Mapped, Evicting, Unregistered, Serving
  <2>5. \A v \in Tunnels : v > dials' => v > dials /\ v # t
    BY <2>1 DEF Tunnels
  <2>6. Mapped'
    BY <1>a, <2>1, <2>2, <2>3, <2>4, <2>5 DEF Map, Mapped, hubVars, TypeOK, Unregistered, Serving
  <2>7. (Evicting /\ LookupFindsOpen /\ OpenIsRegistered)'
    BY <1>a, <2>1, <2>2, <2>3, <2>4
    DEF Map, Evicting, LookupFindsOpen, OpenIsRegistered, hubVars, TypeOK
  <2> QED
    BY <2>6, <2>7 DEF Map
<1>2. ASSUME NEW t \in Tunnels, ClientClose(t) \/ NetworkCut(t) PROVE Map'
    BY <1>2, <1>a, MapKept DEF ClientClose, NetworkCut, pumpVars, tunVars, runVars
<1>3. ASSUME NEW t \in Tunnels, NEW r \in Requests,
             RunnerRead(t, r) \/ HandleFrame(t, r) \/ CloseChannel(t, r)
      PROVE  Map'
    BY <1>3, <1>a, MapKept DEF RunnerRead, HandleFrame, CloseChannel, pumpVars, tunVars, runVars
<1>4. ASSUME NEW t \in Tunnels, Register(t) PROVE Map'
  <2>1. /\ pump[t] = "accepted" /\ mmu = None /\ UNCHANGED <<hub, shutting, dials>>
        /\ t \notin closed /\ current # t /\ shutting # t
    BY <1>4, <1>a DEF Register, Map, Mapped, Unregistered, Serving, runVars
  <2>2. CASE current = None
    <3>1. /\ pump'[t] = "reading" /\ \A u \in Tunnels : u # t => pump'[u] = pump[u]
          /\ current' = t /\ UNCHANGED <<mmu, closed>>
      BY <1>4, <1>a, <2>2 DEF Register, TypeOK, tunVars
    <3>2. Mapped'
      BY <1>a, <2>1, <3>1 DEF Map, Mapped, Unregistered, Serving, TypeOK
    <3>3. Evicting'
      BY <1>a, <2>1, <3>1 DEF Map, Evicting
    <3>4. LookupFindsOpen' /\ OpenIsRegistered'
      BY <1>a, <2>1, <2>2, <3>1 DEF Map, LookupFindsOpen, OpenIsRegistered
    <3> QED
      BY <3>2, <3>3, <3>4 DEF Map
  <2>3. CASE current # None
    <3>1. current \in Tunnels /\ Close(current)
      BY <1>4, <1>a, <2>3 DEF Register, TypeOK
    <3>2. closed' = closed \cup {current}
      BY <1>a, <3>1, CloseEffect
    <3>3. /\ pump'[t] = "evicting" /\ \A u \in Tunnels : u # t => pump'[u] = pump[u]
          /\ mmu' = t /\ UNCHANGED current
      BY <1>4, <1>a, <2>3 DEF Register, TypeOK
    <3>4. Mapped'
      BY <1>a, <2>1, <3>1, <3>2, <3>3 DEF Map, Mapped, Unregistered, Serving, TypeOK
    <3>5. Evicting'
      BY <1>a, <2>1, <2>3, <3>2, <3>3 DEF Map, Evicting
    <3>6. LookupFindsOpen' /\ OpenIsRegistered'
      BY <1>a, <2>1, <3>2, <3>3 DEF Map, LookupFindsOpen, OpenIsRegistered
    <3> QED
      BY <3>4, <3>5, <3>6 DEF Map
  <2> QED
    BY <2>2, <2>3
<1>5. ASSUME NEW t \in Tunnels, Evicted(t) PROVE Map'
  <2>1. /\ pump[t] = "evicting" /\ mmu = t /\ current # None /\ current \in closed
        /\ t \notin closed /\ shutting # t
    BY <1>5, <1>a DEF Evicted, Map, Evicting, Mapped, Unregistered
  <2>2. /\ pump'[t] = "reading" /\ \A u \in Tunnels : u # t => pump'[u] = pump[u]
        /\ current' = t /\ mmu' = None /\ UNCHANGED <<hub, shutting, closed, dials>>
    BY <1>5, <1>a DEF Evicted, TypeOK, tunVars, runVars
  <2>3. Mapped'
    BY <1>a, <2>1, <2>2 DEF Map, Mapped, Unregistered, Serving, TypeOK
  <2>4. Evicting'
    BY <1>a, <2>1, <2>2 DEF Map, Evicting
  <2>5. LookupFindsOpen' /\ OpenIsRegistered'
    BY <1>a, <2>1, <2>2 DEF Map, LookupFindsOpen, OpenIsRegistered
  <2> QED
    BY <2>3, <2>4, <2>5 DEF Map
<1>6. ASSUME NEW t \in Tunnels, Deregister(t) PROVE Map'
  <2>1. /\ pump[t] = "leaving" /\ mmu = None
        /\ pump'[t] = "closing" /\ \A u \in Tunnels : u # t => pump'[u] = pump[u]
        /\ current' = IF current = t THEN None ELSE current
        /\ UNCHANGED <<hub, mmu, shutting, closed, dials>>
    BY <1>6, <1>a DEF Deregister, TypeOK, tunVars, runVars
  <2> QED
    BY <1>a, <2>1 DEF Map, Mapped, Evicting, LookupFindsOpen, OpenIsRegistered,
                      Unregistered, Serving, TypeOK
<1>7. ASSUME CloseAllTake PROVE Map'
  <2>1. /\ hub = "up" /\ mmu = None /\ hub' = "down" /\ current' = None
        /\ shutting' = current /\ UNCHANGED <<mmu, pump, closed, dials>>
    BY <1>7 DEF CloseAllTake, pumpVars, tunVars, runVars
  <2> QED
    BY <1>a, <2>1 DEF Map, Mapped, Evicting, LookupFindsOpen, OpenIsRegistered,
                      Unregistered, Serving, TypeOK
<1>8. ASSUME CloseAllClose PROVE Map'
  <2>1. shutting \in Tunnels /\ Close(shutting)
    BY <1>8, <1>a DEF CloseAllClose, TypeOK
  <2>2. closed' = closed \cup {shutting}
    BY <1>a, <2>1, CloseEffect
  <2>3. shutting' = None /\ UNCHANGED <<hub, current, mmu, pump, dials>>
    BY <1>8 DEF CloseAllClose, pumpVars, runVars
  <2> QED
    BY <1>a, <2>1, <2>2, <2>3 DEF Map, Mapped, Evicting, LookupFindsOpen, OpenIsRegistered
<1>9. ASSUME NEW t \in Tunnels, PumpClose(t) PROVE Map'
  <2>1. closed' = closed \cup {t}
    BY <1>9, <1>a, CloseEffect DEF PumpClose
  <2>2. /\ pump[t] = "closing" /\ pump'[t] = "gone"
        /\ \A u \in Tunnels : u # t => pump'[u] = pump[u]
        /\ UNCHANGED <<hub, current, mmu, shutting, dials>>
    BY <1>9, <1>a DEF PumpClose, TypeOK, hubVars, runVars
  <2>3. current # t
    BY <1>a, <2>2 DEF Map, Mapped, Serving
  <2> QED
    BY <1>a, <2>1, <2>2, <2>3 DEF Map, Mapped, Evicting, LookupFindsOpen, OpenIsRegistered,
                                  Unregistered, Serving, TypeOK
<1>10. ASSUME NEW t \in Tunnels, NEW r \in Requests, PumpRead(t, r) PROVE Map'
  <2>1. UNCHANGED <<hubVars, closed, dials>> /\ pump[t] = "reading"
        /\ (pump' = pump \/ pump' = [pump EXCEPT ![t] = "dispatching"])
    BY <1>10 DEF PumpRead, pumpVars, tunVars, runVars
  <2> QED
    BY <1>a, <2>1, MapKept, MapPump DEF Serving
<1>11. ASSUME NEW t \in Tunnels, Dispatch(t) \/ PumpReadError(t) PROVE Map'
  <2>1. /\ UNCHANGED <<hubVars, closed, dials>> /\ pump[t] \in {"reading", "dispatching"}
        /\ \E x \in Serving : pump' = [pump EXCEPT ![t] = x]
    BY <1>11 DEF Dispatch, PumpReadError, tunVars, runVars, Serving
  <2> QED
    BY <1>a, <2>1, MapPump DEF Serving
<1>12. ASSUME NEW r \in Requests,
              Lookup(r) \/ RequestWork(r) \/ Timeout(r)
       PROVE  Map'
    BY <1>12, <1>a, MapKept
    DEF Lookup, RequestWork, AwaitSlot, SendFrame, SendFails, Receive, Timeout,
        EndRoundTrip, pumpVars, tunVars, runVars
<1>13. ASSUME UNCHANGED vars PROVE Map'
    BY <1>13, <1>a, MapKept DEF vars, pumpVars, tunVars, runVars
<1>14. ASSUME NEW u \in Runners, RunnerStop(u) PROVE Map'
  <2>1. link[u] \in Tunnels
    BY <1>14, <1>a DEF RunnerStop, TypeOK
  <2> QED
    BY <1>2, <1>14, <2>1 DEF RunnerStop
<1> QED
    BY <1>1, <1>2, <1>3, <1>4, <1>5, <1>6, <1>7, <1>8, <1>9, <1>10, <1>11, <1>12, <1>13, <1>14
    DEF Next, ClientWork, PumpWork, RunnerReadError

-----------------------------------------------------------------------------
\* Steps that leave the handlers and the tunnels' waiters alone.
LEMMA SlotsKept ==
    ASSUME Slots, UNCHANGED <<req, via, chan, tunVars>>
    PROVE  Slots'
BY DEF Slots, tunVars

\* Closing a tunnel moves its waiters and loses none.
LEMMA SlotsClose ==
    ASSUME TypeOK, Slots, NEW t \in Tunnels, Close(t), UNCHANGED <<req, via, chan>>
    PROVE  Slots'
<1>1. \A u \in Tunnels : /\ pending[u] \cup toClose[u] \subseteq pending'[u] \cup toClose'[u]
                         /\ u \notin closed' => toClose'[u] = {}
    BY CloseEffect
<1> QED
    BY <1>1 DEF Slots

\* A handler that ends takes only its own slot away.
LEMMA SlotsEnd ==
    ASSUME TypeOK, Slots, NEW r \in Requests, NEW x \in Ended, EndRoundTrip(r, x)
    PROVE  Slots'
<1>1. /\ req'[r] = x /\ \A q \in Requests : q # r => req'[q] = req[q]
      /\ \A u \in Tunnels : pending[u] \ {r} \subseteq pending'[u]
      /\ UNCHANGED <<via, chan, toClose, closed>>
    BY DEF EndRoundTrip, TypeOK
<1> QED
    BY <1>1 DEF Slots, Ended

\* Every step keeps the waiting handlers within reach.
LEMMA SlotsStep == IInv /\ [Next]_vars => Slots'
<1> SUFFICES ASSUME IInv, [Next]_vars PROVE Slots'
    OBVIOUS
<1> USE DEF IInv
<1>1. ASSUME NEW u \in Runners, Dial(u) \/ RunnerStop(u) PROVE Slots'
    BY <1>1, SlotsKept DEF Dial, RunnerStop, ClientClose, reqVars
<1>2. ASSUME NEW t \in Tunnels, ClientWork(t) \/ NetworkCut(t) PROVE Slots'
    BY <1>2, SlotsKept DEF ClientWork, RunnerReadError, ClientClose, RunnerRead, HandleFrame,
                           NetworkCut, reqVars
<1>3. ASSUME NEW t \in Tunnels, Register(t) PROVE Slots'
  <2>1. CASE current = None
    BY <1>3, <2>1, SlotsKept DEF Register, reqVars
  <2>2. CASE current # None
    BY <1>3, <2>2, SlotsClose DEF Register, reqVars, TypeOK
  <2> QED
    BY <2>1, <2>2
<1>4. ASSUME NEW t \in Tunnels, Evicted(t) \/ Deregister(t) \/ PumpReadError(t) PROVE Slots'
    BY <1>4, SlotsKept DEF Evicted, Deregister, PumpReadError, reqVars
<1>5. ASSUME NEW t \in Tunnels, PumpClose(t) PROVE Slots'
    BY <1>5, SlotsClose DEF PumpClose, reqVars
<1>6. ASSUME NEW t \in Tunnels, Dispatch(t) PROVE Slots'
  <2>1. /\ UNCHANGED <<req, via, tunVars>>
        /\ \A r \in Requests : chan[r] # {} => chan'[r] # {}
    BY <1>6 DEF Dispatch, TypeOK
  <2> QED
    BY <2>1 DEF Slots, tunVars
<1>7. ASSUME NEW t \in Tunnels, NEW r \in Requests, PumpRead(t, r) PROVE Slots'
    BY <1>7, SlotsKept DEF PumpRead, reqVars
<1>8. ASSUME NEW t \in Tunnels, NEW r \in Requests, CloseChannel(t, r) PROVE Slots'
  <2>1. /\ UNCHANGED <<req, via, pending, closed>> /\ chan'[r] # {}
        /\ \A q \in Requests : q # r => chan'[q] = chan[q]
        /\ \A u \in Tunnels : toClose'[u] \subseteq toClose[u] /\ toClose[u] \ {r} \subseteq toClose'[u]
    BY <1>8 DEF CloseChannel, TypeOK
  <2> QED
    BY <2>1 DEF Slots
<1>9. ASSUME CloseAllTake PROVE Slots'
    BY <1>9, SlotsKept DEF CloseAllTake, reqVars
<1>10. ASSUME CloseAllClose PROVE Slots'
  <2>1. shutting \in Tunnels /\ Close(shutting)
    BY <1>10 DEF CloseAllClose, TypeOK
  <2> QED
    BY <1>10, <2>1, SlotsClose DEF CloseAllClose, reqVars
<1>11. ASSUME NEW r \in Requests, Lookup(r) PROVE Slots'
  <2>1. /\ req'[r] = (IF current = None THEN "badGateway" ELSE "found") /\ via'[r] = current
        /\ \A q \in Requests : q # r => req'[q] = req[q] /\ via'[q] = via[q]
        /\ UNCHANGED <<chan, tunVars>> /\ current \in Tunnels \cup {None}
    BY <1>11 DEF Lookup, TypeOK
  <2> QED
    BY <2>1 DEF Slots, tunVars
<1>12. ASSUME NEW r \in Requests, AwaitSlot(r) PROVE Slots'
  <2>1. via[r] \in Tunnels /\ UNCHANGED <<via, chan, toClose, closed>>
        /\ \A q \in Requests : q # r => req'[q] = req[q]
    BY <1>12 DEF AwaitSlot, Slots, TypeOK
  <2>2. CASE via[r] \in closed
    BY <1>12, <2>1, <2>2 DEF AwaitSlot, Slots, TypeOK
  <2>3. CASE via[r] \notin closed
    <3>1. /\ r \in pending'[via[r]] /\ \A u \in Tunnels : pending[u] \subseteq pending'[u]
          /\ req'[r] = "sending"
      BY <1>12, <2>1, <2>3, SMTT(30) DEF AwaitSlot, TypeOK
    <3> QED
      BY <2>1, <3>1 DEF Slots
  <2> QED
    BY <2>2, <2>3
<1>13. ASSUME NEW r \in Requests, SendFrame(r) PROVE Slots'
  <2>1. /\ req[r] = "sending" /\ req'[r] = "waiting" /\ UNCHANGED <<via, chan, tunVars>>
        /\ \A q \in Requests : q # r => req'[q] = req[q]
    BY <1>13 DEF SendFrame, TypeOK
  <2> QED
    BY <2>1 DEF Slots, tunVars
<1>14. ASSUME NEW r \in Requests, SendFails(r) \/ Receive(r) \/ Timeout(r) PROVE Slots'
    BY <1>14, SlotsEnd DEF SendFails, Receive, Timeout, Ended
<1>15. ASSUME UNCHANGED vars PROVE Slots'
    BY <1>15, SlotsKept DEF vars, reqVars
<1> QED
    BY <1>1, <1>2, <1>3, <1>4, <1>5, <1>6, <1>7, <1>8, <1>9, <1>10, <1>11, <1>12, <1>13,
       <1>14, <1>15 DEF Next, PumpWork, RequestWork

-----------------------------------------------------------------------------
\* Steps that move no frame: at most, frames of a closed connection are lost.
LEMMA JourneyKept ==
    ASSUME Journey, UNCHANGED <<req, via, served, handling, held>>,
           \A r \in Requests : "value" \in chan'[r] => "value" \in chan[r] \/ served[r] > 0,
           \A t \in Tunnels : toRunner'[t] \subseteq toRunner[t] /\ toHub'[t] \subseteq toHub[t]
    PROVE  Journey'
BY DEF Journey

\* A handler that ends was already past the sending.
LEMMA JourneyEnd ==
    ASSUME TypeOK, Journey, NEW r \in Requests, NEW x \in Ended, EndRoundTrip(r, x)
    PROVE  Journey'
<1>1. /\ req'[r] = x /\ \A q \in Requests : q # r => req'[q] = req[q]
      /\ UNCHANGED <<via, chan, served, wire, held>>
    BY DEF EndRoundTrip, TypeOK, pumpVars
<1> QED
    BY <1>1 DEF Journey, Ended, wire, TypeOK

\* Every step keeps a request in one place, served once on its way.
LEMMA JourneyStep == IInv /\ [Next]_vars => Journey'
<1> SUFFICES ASSUME IInv, [Next]_vars PROVE Journey'
    OBVIOUS
<1> USE DEF IInv
<1>1. ASSUME NEW u \in Runners, Dial(u) PROVE Journey'
    BY <1>1, JourneyKept DEF Dial, reqVars, wire
<1>2. ASSUME NEW t \in Tunnels, ClientClose(t) PROVE Journey'
  <2>1. \A u \in Tunnels : toRunner'[u] \subseteq toRunner[u]
    BY <1>2 DEF ClientClose, TypeOK
  <2> QED
    BY <1>2, <2>1, JourneyKept DEF ClientClose, reqVars, pumpVars
<1>3. ASSUME NEW t \in Tunnels, NEW r \in Requests, RunnerRead(t, r) PROVE Journey'
  <2>1. /\ r \in toRunner[t]
        /\ toRunner'[t] = toRunner[t] \ {r} /\ handling'[t] = handling[t] \cup {r}
        /\ \A u \in Tunnels : u # t => toRunner'[u] = toRunner[u] /\ handling'[u] = handling[u]
        /\ UNCHANGED <<req, via, chan, served, toHub, held>>
    BY <1>3 DEF RunnerRead, TypeOK, reqVars, pumpVars
  <2> QED
    BY <2>1 DEF Journey
<1>4. ASSUME NEW t \in Tunnels, NEW r \in Requests, HandleFrame(t, r) PROVE Journey'
  <2>1. /\ r \in handling[t]
        /\ handling'[t] = handling[t] \ {r}
        /\ \A u \in Tunnels : u # t => handling'[u] = handling[u]
        /\ served'[r] = served[r] + 1 /\ served[r] \in Nat
        /\ \A q \in Requests : q # r => served'[q] = served[q]
        /\ \A u \in Tunnels : toHub'[u] \subseteq toHub[u] \cup {r}
        /\ UNCHANGED <<req, via, chan, toRunner, held>>
    BY <1>4 DEF HandleFrame, TypeOK, reqVars, pumpVars
  <2>2. served'[r] > 0 /\ via[r] = t /\ r \notin toRunner[t]
        /\ req[r] \notin {"idle", "found", "sending"}
    BY <2>1 DEF Journey
  <2>3. \A u \in Tunnels : r \notin toRunner'[u] \cup handling'[u]
    BY <2>1, <2>2 DEF Journey
  <2>4. \A u \in Tunnels : \A q \in toRunner'[u] \cup handling'[u] :
          /\ q # r
          /\ q \in toRunner[u] \cup handling[u]
    BY <2>1, <2>3
  <2>5. \A u \in Tunnels : \A q \in toRunner'[u] \cup handling'[u] :
          /\ req'[q] \notin {"idle", "found", "sending"}
          /\ via'[q] = u /\ served'[q] = 0
    <3>1. \A u \in Tunnels : \A q \in toRunner[u] \cup handling[u] : q \in Requests
      BY DEF TypeOK
    <3> QED
      BY <2>1, <2>4, <3>1 DEF Journey
  <2>6. \A u \in Tunnels : toRunner'[u] \cap handling'[u] = {}
    BY <2>1 DEF Journey
  <2>7. \A q \in Requests : served[q] > 0 => served'[q] > 0
    BY <2>1, <2>2
  <2>8. /\ \A u \in Tunnels : \A q \in Requests :
              q \in toHub'[u] \/ held'[u] = q => served'[q] > 0
        /\ \A q \in Requests : "value" \in chan'[q] => served'[q] > 0
    BY <2>1, <2>2, <2>7 DEF Journey
  <2>9. /\ \A q \in Requests : req'[q] = "idle" => via'[q] = None
        /\ \A q \in Requests : req'[q] \in {"idle", "found", "sending"} => served'[q] = 0
    BY <2>1, <2>2 DEF Journey
  <2> QED
    BY <2>5, <2>6, <2>8, <2>9 DEF Journey
<1>5. ASSUME NEW t \in Tunnels, NetworkCut(t) PROVE Journey'
    BY <1>5, JourneyKept DEF NetworkCut, reqVars, pumpVars, wire
<1>6. ASSUME NEW t \in Tunnels, NEW r \in Requests, CloseChannel(t, r) PROVE Journey'
  <2>1. \A q \in Requests : "value" \in chan'[q] => "value" \in chan[q]
    BY <1>6 DEF CloseChannel, TypeOK
  <2> QED
    BY <1>6, <2>1, JourneyKept DEF CloseChannel, pumpVars, wire
<1>7. ASSUME NEW t \in Tunnels, Register(t) PROVE Journey'
  <2>1. CASE current = None
    BY <1>7, <2>1, JourneyKept DEF Register, reqVars
  <2>2. CASE current # None
    <3>1. \A u \in Tunnels : toHub'[u] \subseteq toHub[u]
      BY <1>7, <2>2, CloseEffect DEF Register, TypeOK
    <3> QED
      BY <1>7, <3>1, JourneyKept DEF Register, reqVars
  <2> QED
    BY <2>1, <2>2
<1>8. ASSUME NEW t \in Tunnels, Evicted(t) \/ Deregister(t) \/ PumpReadError(t) PROVE Journey'
    BY <1>8, JourneyKept DEF Evicted, Deregister, PumpReadError, reqVars, wire
<1>9. ASSUME CloseAllTake PROVE Journey'
    BY <1>9, JourneyKept DEF CloseAllTake, reqVars, pumpVars, wire
<1>10. ASSUME CloseAllClose PROVE Journey'
  <2>1. \A u \in Tunnels : toHub'[u] \subseteq toHub[u]
    BY <1>10, CloseEffect DEF CloseAllClose, TypeOK
  <2> QED
    BY <1>10, <2>1, JourneyKept DEF CloseAllClose, reqVars, pumpVars
<1>11. ASSUME NEW t \in Tunnels, NEW r \in Requests, PumpRead(t, r) PROVE Journey'
  <2>1. /\ r \in toHub[t] /\ UNCHANGED <<req, via, chan, served, toRunner, handling>>
        /\ \A u \in Tunnels : /\ toHub'[u] \subseteq toHub[u]
                              /\ held'[u] = held[u] \/ held'[u] = r
    BY <1>11 DEF PumpRead, TypeOK, reqVars, pumpVars
  <2> QED
    BY <2>1 DEF Journey
<1>12. ASSUME NEW t \in Tunnels, Dispatch(t) PROVE Journey'
  <2>1. /\ UNCHANGED <<req, via, served, wire>>
        /\ \A u \in Tunnels : held'[u] = held[u] \/ held'[u] = None
        /\ \A r \in Requests : "value" \in chan'[r] => "value" \in chan[r] \/ r = held[t]
    BY <1>12 DEF Dispatch, TypeOK
  <2> QED
    BY <2>1, TunnelAssumption DEF Journey, wire
<1>13. ASSUME NEW t \in Tunnels, PumpClose(t) PROVE Journey'
  <2>1. \A u \in Tunnels : toHub'[u] \subseteq toHub[u]
    BY <1>13, CloseEffect DEF PumpClose, TypeOK
  <2> QED
    BY <1>13, <2>1, JourneyKept DEF PumpClose, reqVars
<1>14. ASSUME NEW r \in Requests, Lookup(r) PROVE Journey'
  <2>1. /\ req[r] = "idle" /\ req'[r] \in {"badGateway", "found"}
        /\ \A q \in Requests : q # r => req'[q] = req[q] /\ via'[q] = via[q]
        /\ UNCHANGED <<chan, served, wire, held>>
    BY <1>14 DEF Lookup, TypeOK, pumpVars
  <2>2. \A t \in Tunnels : r \notin toRunner[t] \cup handling[t]
    BY <2>1 DEF Journey
  <2> QED
    BY <2>1, <2>2 DEF Journey, wire, TypeOK
<1>15. ASSUME NEW r \in Requests, AwaitSlot(r) PROVE Journey'
  <2>1. /\ req[r] = "found" /\ req'[r] \in {"badGateway", "sending"}
        /\ \A q \in Requests : q # r => req'[q] = req[q]
        /\ UNCHANGED <<via, chan, served, wire, held>>
    BY <1>15 DEF AwaitSlot, TypeOK, pumpVars
  <2>2. \A t \in Tunnels : r \notin toRunner[t] \cup handling[t]
    BY <2>1 DEF Journey
  <2> QED
    BY <2>1, <2>2 DEF Journey, wire, TypeOK
<1>16. ASSUME NEW r \in Requests, SendFrame(r) PROVE Journey'
  <2>1. /\ req[r] = "sending" /\ req'[r] = "waiting" /\ via[r] \in Tunnels
        /\ \A q \in Requests : q # r => req'[q] = req[q]
        /\ \A t \in Tunnels : toRunner'[t] \subseteq toRunner[t] \cup
                                    (IF t = via[r] THEN {r} ELSE {})
        /\ UNCHANGED <<via, chan, served, handling, toHub, held>>
    BY <1>16 DEF SendFrame, Slots, TypeOK, pumpVars
  <2>2. served[r] = 0 /\ \A t \in Tunnels : r \notin toRunner[t] \cup handling[t]
    BY <2>1 DEF Journey
  <2> QED
    BY <2>1, <2>2 DEF Journey, TypeOK
<1>17. ASSUME NEW r \in Requests, SendFails(r) \/ Receive(r) \/ Timeout(r) PROVE Journey'
    BY <1>17, JourneyEnd DEF SendFails, Receive, Timeout, Ended
<1>18. ASSUME UNCHANGED vars PROVE Journey'
    BY <1>18, JourneyKept DEF vars, reqVars, pumpVars, wire
<1>19. ASSUME NEW u \in Runners, RunnerStop(u) PROVE Journey'
  <2>1. link[u] \in Tunnels
    BY <1>19 DEF RunnerStop, TypeOK
  <2> QED
    BY <1>2, <1>19, <2>1 DEF RunnerStop
<1> QED
    BY <1>1, <1>2, <1>3, <1>4, <1>5, <1>6, <1>7, <1>8, <1>9, <1>10, <1>11, <1>12, <1>13,
       <1>14, <1>15, <1>16, <1>17, <1>18, <1>19
    DEF Next, ClientWork, PumpWork, RequestWork, RunnerReadError

-----------------------------------------------------------------------------
\* The invariant holds in every reachable state.
LEMMA IInvHolds == Spec => []IInv
<1>1. IInv /\ [Next]_vars => IInv'
    BY TypeStep, MapStep, SlotsStep, JourneyStep DEF IInv, Map
<1> QED
    BY InitIInv, <1>1, PTL DEF Spec

(***************************************************************************)
(* Every variable of hub, runners and connections keeps its type: a        *)
(* handler never ends with anything but an answer, a 502 or a timeout.     *)
(***************************************************************************)
THEOREM TypesKept == Spec => []TypeOK
BY IInvHolds, PTL DEF IInv

(***************************************************************************)
(* tunnelManager.lookup never returns a tunnel that is closed at that      *)
(* moment.                                                                 *)
(***************************************************************************)
THEOREM LookupIsOpen == Spec => []LookupFindsOpen
BY IInvHolds, PTL DEF IInv

(***************************************************************************)
(* A tunnel that is being served and not closed is the one in the map, or  *)
(* the one the shutdown is closing.                                        *)
(***************************************************************************)
THEOREM ServedIsRegistered == Spec => []OpenIsRegistered
BY IInvHolds, PTL DEF IInv

(***************************************************************************)
(* No handler of roundTrip is left waiting where neither dispatch nor      *)
(* close will find its channel.                                            *)
(***************************************************************************)
THEOREM WaitersReachable == Spec => []WaiterReachable
<1>1. IInv => WaiterReachable
    BY DEF IInv, Slots, WaiterReachable
<1> QED
    BY IInvHolds, <1>1, PTL

-----------------------------------------------------------------------------
(* Refinement                                                              *)

\* What Outcome makes of the states of a handler.
LEMMA Outcomes ==
    /\ Outcome("idle") = "idle" /\ Outcome("answered") = "ok"
    /\ Outcome("badGateway") = "error" /\ Outcome("timeout") = "error"
    /\ Outcome("found") = "pending" /\ Outcome("sending") = "pending"
    /\ Outcome("waiting") = "pending"
BY DEF Outcome, Ended

\* A handler's step from one state to another, for the caller of /relay.
LEMMA OneRequest ==
    ASSUME TypeOK, NEW r \in Requests, NEW x, req' = [req EXCEPT ![r] = x]
    PROVE  CallResult' = [CallResult EXCEPT ![r] = Outcome(x)]
BY DEF CallResult, TypeOK

\* Ending a round trip without an answer is giving up.
LEMMA EndIsGiveUp ==
    ASSUME IInv, NEW r \in Requests, req[r] \in {"found", "sending", "waiting"},
           NEW x \in {"badGateway", "timeout"}, req' = [req EXCEPT ![r] = x],
           UNCHANGED <<via, served>>
    PROVE  Call!Next
<1>1. Outcome(x) = "error"
    BY Outcomes
<1>2. CallResult' = [CallResult EXCEPT ![r] = Outcome(x)]
    BY OneRequest DEF IInv
<1>3. CallTries' = CallTries
    BY DEF CallTries
<1>4. CallResult[r] = "pending"
    BY Outcomes DEF CallResult
<1> QED
    BY <1>1, <1>2, <1>3, <1>4 DEF Call!Next, Call!GiveUp

\* Every step of hub and runners is a step of the call, or none.
LEMMA CallStep == IInv /\ [Next]_vars => [Call!Next]_(Call!vars)
<1> SUFFICES ASSUME IInv, [Next]_vars PROVE [Call!Next]_(Call!vars)
    OBVIOUS
<1>a. TypeOK /\ Slots /\ Journey
    BY DEF IInv
<1>b. ASSUME UNCHANGED <<req, via, served>> PROVE [Call!Next]_(Call!vars)
    BY <1>b DEF Call!vars, CallResult, CallTries
<1>1. ASSUME NEW u \in Runners, Dial(u) \/ RunnerStop(u) PROVE UNCHANGED <<req, via, served>>
    BY <1>1 DEF Dial, RunnerStop, ClientClose, reqVars
<1>2. ASSUME NEW t \in Tunnels, PumpWork(t) \/ NetworkCut(t) \/ RunnerReadError(t)
      PROVE  UNCHANGED <<req, via, served>>
    BY <1>2 DEF PumpWork, Register, Evicted, Deregister, PumpClose, Dispatch, PumpReadError,
                PumpRead, CloseChannel, NetworkCut, RunnerReadError, ClientClose, reqVars
<1>3. ASSUME CloseAllTake \/ CloseAllClose PROVE UNCHANGED <<req, via, served>>
    BY <1>3 DEF CloseAllTake, CloseAllClose, reqVars
<1>4. ASSUME NEW t \in Tunnels, NEW r \in Requests, RunnerRead(t, r)
      PROVE  UNCHANGED <<req, via, served>>
    BY <1>4 DEF RunnerRead, reqVars
<1>5. ASSUME NEW t \in Tunnels, NEW r \in Requests, HandleFrame(t, r)
      PROVE  [Call!Next]_(Call!vars)
  <2>1. served[r] = 0 /\ via[r] = t
    BY <1>5, <1>a DEF HandleFrame, Journey
  <2>2. CallTries[r] = 1
    BY <2>1, NoneIsNoTunnel DEF CallTries
  <2>3. served' = [served EXCEPT ![r] = @ + 1] /\ UNCHANGED <<CallResult, CallTries>>
    BY <1>5 DEF HandleFrame, reqVars, CallResult, CallTries
  <2>4. Call!Run(r)
    BY <2>1, <2>2, <2>3 DEF Call!Run
  <2> QED
    BY <2>4 DEF Call!Next
<1>6. ASSUME NEW r \in Requests, Lookup(r) PROVE [Call!Next]_(Call!vars)
  <2>1. /\ req[r] = "idle" /\ via[r] = None /\ UNCHANGED served
        /\ via' = [via EXCEPT ![r] = current]
        /\ req' = [req EXCEPT ![r] = IF current = None THEN "badGateway" ELSE "found"]
    BY <1>6, <1>a DEF Lookup, Journey
  <2>2. CallResult[r] = "idle"
    BY <2>1, Outcomes DEF CallResult
  <2>3. CASE current = None
    <3>1. CallResult' = [CallResult EXCEPT ![r] = "error"]
      BY <1>a, <2>1, <2>3, OneRequest, Outcomes, ZenonT(60)
    <3>2. CallTries' = CallTries
      BY <1>a, <2>1, <2>3, SMTT(30) DEF CallTries, TypeOK
    <3> QED
      BY <2>1, <2>2, <3>1, <3>2 DEF Call!Next, Call!Refuse
  <2>4. CASE current # None
    <3>1. CallResult' = [CallResult EXCEPT ![r] = "pending"]
      BY <1>a, <2>1, <2>4, OneRequest, Outcomes, ZenonT(60)
    <3>2. CallTries' = [CallTries EXCEPT ![r] = 1]
      BY <1>a, <2>1, <2>4, ZenonT(60) DEF CallTries, TypeOK
    <3> QED
      BY <2>1, <2>2, <3>1, <3>2 DEF Call!Next, Call!Begin
  <2> QED
    BY <2>3, <2>4
<1>7. ASSUME NEW r \in Requests, AwaitSlot(r) PROVE [Call!Next]_(Call!vars)
  <2>1. req[r] = "found" /\ UNCHANGED <<via, served>>
    BY <1>7 DEF AwaitSlot
  <2>2. CASE req' = [req EXCEPT ![r] = "badGateway"]
    BY <2>1, <2>2, EndIsGiveUp
  <2>3. CASE req' = [req EXCEPT ![r] = "sending"]
    <3>1. CallResult' = CallResult
      BY <1>a, <2>1, <2>3, OneRequest, Outcomes DEF CallResult
    <3> QED
      BY <2>1, <3>1 DEF Call!vars, CallTries
  <2> QED
    BY <1>7, <2>2, <2>3 DEF AwaitSlot
<1>8. ASSUME NEW r \in Requests, SendFrame(r) PROVE [Call!Next]_(Call!vars)
  <2>1. req[r] = "sending" /\ req' = [req EXCEPT ![r] = "waiting"] /\ UNCHANGED <<via, served>>
    BY <1>8 DEF SendFrame
  <2>2. CallResult' = CallResult
    BY <1>a, <2>1, OneRequest, Outcomes DEF CallResult
  <2> QED
    BY <2>1, <2>2 DEF Call!vars, CallTries
<1>9. ASSUME NEW r \in Requests, SendFails(r) \/ Timeout(r) PROVE [Call!Next]_(Call!vars)
    BY <1>9, EndIsGiveUp DEF SendFails, Timeout, EndRoundTrip
<1>10. ASSUME NEW r \in Requests, Receive(r) PROVE [Call!Next]_(Call!vars)
  <2>1. req[r] = "waiting" /\ UNCHANGED <<via, served>>
    BY <1>10 DEF Receive, EndRoundTrip
  <2>2. CASE "value" \in chan[r]
    <3>1. req' = [req EXCEPT ![r] = "answered"] /\ served[r] > 0
      BY <1>10, <1>a, <2>2 DEF Receive, EndRoundTrip, Journey
    <3>2. CallResult' = [CallResult EXCEPT ![r] = "ok"]
      BY <1>a, <3>1, OneRequest, Outcomes
    <3>3. CallResult[r] = "pending"
      BY <2>1, Outcomes DEF CallResult
    <3>4. CallTries' = CallTries
      BY <2>1 DEF CallTries
    <3> QED
      BY <2>1, <3>1, <3>2, <3>3, <3>4 DEF Call!Next, Call!Return
  <2>3. CASE "value" \notin chan[r]
    <3>1. req' = [req EXCEPT ![r] = "badGateway"]
      BY <1>10, <2>3 DEF Receive, EndRoundTrip
    <3> QED
      BY <2>1, <3>1, EndIsGiveUp
  <2> QED
    BY <2>2, <2>3
<1>11. ASSUME UNCHANGED vars PROVE UNCHANGED <<req, via, served>>
    BY <1>11 DEF vars, reqVars
<1> QED
    BY <1>b, <1>1, <1>2, <1>3, <1>4, <1>5, <1>6, <1>7, <1>8, <1>9, <1>10, <1>11
    DEF Next, ClientWork, RequestWork

(***************************************************************************)
(* The tunnel keeps the safety part of RemoteCall's promise: the runner's  *)
(* handler runs at most once for a request of /relay, and an answer is     *)
(* handed out only if it ran.                                              *)
(***************************************************************************)
THEOREM TunnelRefinesCall == Spec => Call!Spec
<1>1. Init => Call!Init
    BY Outcomes DEF Init, Call!Init, CallResult, CallTries
<1> QED
    BY IInvHolds, <1>1, CallStep, PTL DEF Spec, Call!Spec
=============================================================================

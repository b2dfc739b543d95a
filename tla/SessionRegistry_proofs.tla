----------------------- MODULE SessionRegistry_proofs -----------------------
(***************************************************************************)
(* The name index of Runtime is sound, for any number of names, sessions   *)
(* and concurrent requests of every kind.                                  *)
(***************************************************************************)
EXTENDS SessionRegistry, TLAPS

\* No map mentions the id.
Unused(id) == id \notin reg /\ \A n \in Names : byName[n] # id

\* A request that works for a name has one, and so has a registered session.
Named ==
    /\ \A c \in Callers : call[c].pc # "idle" => call[c].name \in Names
    /\ \A id \in reg : nameOf[id] \in Names

\* A started child is not registered yet, and belongs to one Spawn.
Fresh ==
    /\ \A c \in Callers : call[c].pc = "started" =>
          call[c].id \in Ids /\ pty[call[c].id] # "none" /\ Unused(call[c].id)
    /\ \A c, d \in Callers :
          call[c].pc = "started" /\ call[d].pc = "started" /\ call[c].id = call[d].id
              => c = d
    /\ \A c \in Callers : call[c].pc = "registered" => call[c].id \in Ids
    /\ \A id \in Ids : pty[id] = "none" => Unused(id)

\* The sentinel of a Spawn stays in place until a Stop takes it away.
Held ==
    \A c \in Callers : \A n \in SpawningNames(c) :
        n \notin robbed => byName[n] = Pending

Claims == Held /\ Reachable /\ SpawnsExclusive /\ ReservationOwned

IInv == TypeOK /\ Named /\ IndexSound /\ Fresh /\ Claims

\* Every step of c's request that changes nothing but the request: the Get of
\* the handler, the first critical section of Restart or Handoff, and the
\* ends of Stop, Restart and Handoff.
Quiet(c) ==
    \/ \E n \in Names, what \in {"restart", "handoff"}, to \in Names \cup {None} :
          Ask(c, n, what, to)
    \/ Read(c) \/ ReadUnknown(c) \/ ReadPanics(c) \/ StopUnknown(c)
    \/ StopClosed(c) \/ StopContainer(c) \/ RestartFails(c)

\* A request whose state is set, or its state, name and id, is still a request.
LEMMA RecordStep ==
    ASSUME NEW r \in CallRecord, NEW p \in CallStates
    PROVE  /\ [r EXCEPT !.pc = p] \in CallRecord
           /\ [r EXCEPT !.pc = p].pc = p /\ [r EXCEPT !.pc = p].name = r.name
BY DEF CallRecord

LEMMA RecordClosing ==
    ASSUME NEW r \in CallRecord, NEW n \in Names, NEW id \in Ids \cup {Pending, None}
    PROVE  /\ [r EXCEPT !.pc = "closing", !.name = n, !.id = id] \in CallRecord
           /\ [r EXCEPT !.pc = "closing", !.name = n, !.id = id].name = n
<1>1. "closing" \in CallStates
    BY DEF CallStates
<1> QED
    BY <1>1 DEF CallRecord

\* After a Stop the request is over, stops its target or spawns, under a name.
LEMMA AfterStopRecord ==
    ASSUME NEW r \in CallRecord, r.name \in Names
    PROVE  /\ AfterStop(r) \in CallRecord
           /\ AfterStop(r).pc \in {"idle", "stopping", "respawn"}
           /\ AfterStop(r).pc # "idle" => AfterStop(r).name \in Names
<1>1. Idle \in CallRecord /\ Idle.pc = "idle"
    BY DEF Idle, CallRecord, CallStates
<1>2. CASE r.again = "no"
    BY <1>1, <1>2 DEF AfterStop
<1>3. CASE r.again # "no" /\ r.to # None
  <2>1. /\ AfterStop(r) = [pc |-> "stopping", name |-> r.to, id |-> None,
                           again |-> r.again, to |-> None]
        /\ r.to \in Names /\ r.again \in {"no", "restart", "handoff"}
    BY <1>3 DEF AfterStop, Idle, CallRecord
  <2> QED
    BY <2>1 DEF CallRecord, CallStates
<1>4. CASE r.again # "no" /\ r.to = None
  <2>1. AfterStop(r) = [pc |-> "respawn", name |-> r.name, id |-> None,
                        again |-> "no", to |-> None]
    BY <1>4 DEF AfterStop, Idle
  <2> QED
    BY <2>1 DEF CallRecord, CallStates
<1> QED
    BY <1>2, <1>3, <1>4

\* A quiet step leaves the maps alone and gives the request a record that does
\* not start or register a child.
LEMMA QuietStep ==
    ASSUME call \in [Callers -> CallRecord], Named, NEW c \in Callers, Quiet(c)
    PROVE  /\ UNCHANGED <<byName, reg, nameOf, exited, pty, sniffer, robbed>>
           /\ container \in [Names -> Ids \cup {None}]
                  => container' \in [Names -> Ids \cup {None}]
           /\ mu' \in {mu, "leaked"}
           /\ call[c].pc \notin {"starting", "started", "registered"}
           /\ \E r \in CallRecord :
                 /\ call' = [call EXCEPT ![c] = r]
                 /\ r.pc \notin {"starting", "started", "registered"}
                 /\ r.pc # "idle" => r.name \in Names
<1> DEFINE Fits(r) == /\ r \in CallRecord
                      /\ call' = [call EXCEPT ![c] = r]
                      /\ r.pc \notin {"starting", "started", "registered"}
                      /\ r.pc # "idle" => r.name \in Names
           Kept == /\ UNCHANGED <<byName, reg, nameOf, exited, pty, sniffer, robbed>>
                   /\ container \in [Names -> Ids \cup {None}]
                         => container' \in [Names -> Ids \cup {None}]
                   /\ mu' \in {mu, "leaked"}
                   /\ call[c].pc \notin {"starting", "started", "registered"}
<1>i. Idle \in CallRecord /\ Idle.pc = "idle"
    BY DEF Idle, CallRecord, CallStates
<1>c. call[c] \in CallRecord /\ (call[c].pc # "idle" => call[c].name \in Names)
    BY DEF Named
<1>1. ASSUME NEW n \in Names, NEW what \in {"restart", "handoff"},
             NEW to \in Names \cup {None}, Ask(c, n, what, to)
      PROVE  Kept /\ \E r : Fits(r)
  <2> DEFINE r == [pc |-> "asked", name |-> n, id |-> None, again |-> what, to |-> to]
  <2>1. r \in CallRecord
    BY DEF CallRecord, CallStates
  <2>2. call' = [call EXCEPT ![c] = r]
    BY <1>1 DEF Ask
  <2>3. Kept
    BY <1>1 DEF Ask
  <2>4. Fits(r)
    BY <2>1, <2>2
  <2> QED
    BY <2>3, <2>4
<1>2. ASSUME ReadUnknown(c) \/ ReadPanics(c) \/ RestartFails(c)
             \/ (Read(c) /\ call' = [call EXCEPT ![c] = Idle])
      PROVE  Kept /\ \E r : Fits(r)
  <2>1. Kept /\ call' = [call EXCEPT ![c] = Idle]
    BY <1>2 DEF ReadUnknown, ReadPanics, RestartFails, Read
  <2>2. Fits(Idle)
    BY <1>i, <2>1
  <2> QED
    BY <2>1, <2>2
<1>3. ASSUME Read(c), call' = [call EXCEPT ![c].pc = "stopping"]
      PROVE  Kept /\ \E r : Fits(r)
  <2>1. Kept /\ call[c].pc # "idle"
    BY <1>3 DEF Read
  <2>2. Fits([call[c] EXCEPT !.pc = "stopping"])
    BY <1>3, <1>c, RecordStep, <2>1 DEF CallStates
  <2> QED
    BY <2>1, <2>2
<1>4. ASSUME StopClosed(c) PROVE Kept /\ \E r : Fits(r)
  <2>1. Kept /\ call[c].pc # "idle" /\ call' = [call EXCEPT ![c].pc = "teardown"]
    BY <1>4 DEF StopClosed
  <2>2. Fits([call[c] EXCEPT !.pc = "teardown"])
    BY <1>c, RecordStep, <2>1 DEF CallStates
  <2> QED
    BY <2>1, <2>2
<1>5. ASSUME StopUnknown(c) \/ StopContainer(c) PROVE Kept /\ \E r : Fits(r)
  <2>1. Kept /\ call[c].pc # "idle"
    BY <1>5 DEF StopUnknown, StopContainer
  <2>2. call' \in {[call EXCEPT ![c] = Idle], [call EXCEPT ![c] = AfterStop(call[c])]}
    BY <1>5 DEF StopUnknown, StopContainer
  <2>3. Fits(Idle) \/ Fits(AfterStop(call[c]))
    BY <1>i, <1>c, <2>1, <2>2, AfterStopRecord
  <2> QED
    BY <2>1, <2>3
<1>6. Kept /\ \E r : Fits(r)
    BY <1>1, <1>2, <1>3, <1>4, <1>5 DEF Quiet, Read
<1> QED
    BY <1>6

\* The empty registry satisfies the invariant.
LEMMA InitIInv == Init => IInv
<1> SUFFICES ASSUME Init PROVE IInv
    OBVIOUS
<1> USE DistinctAssumption DEF Init
<1>1. Idle \in CallRecord
    BY DEF Idle, CallRecord, CallStates
<1>2. TypeOK
    BY <1>1 DEF TypeOK, CallRecord, PtyStates, SnifferStates
<1>3. \A c \in Callers : call[c].pc = "idle"
    BY DEF Idle
<1>4. Named /\ IndexSound
    BY <1>3 DEF Named, IndexSound
<1>5. Fresh
    BY <1>3 DEF Fresh, Unused
<1>6. Claims
    BY <1>3 DEF Claims, Held, Reachable, SpawnsExclusive, ReservationOwned, SpawningNames
<1> QED
    BY <1>2, <1>4, <1>5, <1>6 DEF IInv

\* The steps of the program.
LEMMA NextSteps ==
    ASSUME call \in [Callers -> CallRecord], Named, [Next]_vars
    PROVE  \/ \E c \in Callers :
              \/ SpawnFail(c) \/ SpawnRegister(c) \/ SpawnReturn(c) \/ Quiet(c)
              \/ \E id \in Ids : SpawnStart(c, id)
              \/ \E n \in Names : /\ call[c].pc \in {"idle", "respawn"}
                                 /\ Reserve(c, n)
              \/ \E n \in Names : /\ call[c].pc \in {"idle", "stopping"}
                                 /\ Remove(c, n)
              \/ \E n, m \in Names : Rename(c, n, m)
           \/ \E id \in Ids : \/ PtyClose(id) \/ SnifferSubscribe(id)
                              \/ MarkExited(id) \/ MarkRemove(id)
           \/ UNCHANGED vars
<1>1. ASSUME NEW c \in Callers, StopAgain(c)
      PROVE  \E n \in Names : call[c].pc \in {"idle", "stopping"} /\ Remove(c, n)
    BY <1>1 DEF StopAgain, Named
<1>2. ASSUME NEW c \in Callers, RestartReserve(c)
      PROVE  \E n \in Names : call[c].pc \in {"idle", "respawn"} /\ Reserve(c, n)
    BY <1>2 DEF RestartReserve, Named
<1>3. ASSUME NEW c \in Callers, NEW n \in Names, NEW m \in Names,
             RestartAsk(c, n) \/ HandoffAsk(c, n, m)
      PROVE  Quiet(c)
    BY <1>3 DEF RestartAsk, HandoffAsk, Quiet
<1>4. ASSUME NEW c \in Callers, NEW n \in Names, RestartAsk(c, n) PROVE Quiet(c)
    BY <1>4 DEF RestartAsk, Quiet
<1>5. ASSUME NEW c \in Callers, StopWork(c)
      PROVE  Quiet(c) \/ StopAgain(c) \/ RestartReserve(c)
    BY <1>5 DEF StopWork, Quiet
<1> QED
    BY <1>1, <1>2, <1>3, <1>4, <1>5
    DEF Next, SpawnWork, SnifferWork, SpawnReserve, StopRemove

\* Every step keeps the types and the names of the requests.
LEMMA TypeStep == IInv /\ [Next]_vars => TypeOK' /\ Named'
<1> SUFFICES ASSUME IInv, [Next]_vars PROVE TypeOK' /\ Named'
    OBVIOUS
<1>i. Idle \in CallRecord
    BY DEF Idle, CallRecord, CallStates
\* The two steps that write into a request in place.
<1>t. call \in [Callers -> CallRecord] /\ byName \in [Names -> Ids \cup {Pending, None}]
    BY DEF IInv, TypeOK
<1>g. ASSUME NEW c \in Callers, SpawnRegister(c)
      PROVE  /\ call' \in [Callers -> CallRecord] /\ call'[c].name = call[c].name
             /\ \A d \in Callers : d # c => call'[d] = call[d]
    <2> DEFINE r == [call[c] EXCEPT !.pc = "registered"]
    <2>1. r \in CallRecord /\ r.name = call[c].name
        BY <1>t, RecordStep DEF CallStates
    <2>2. call' = [call EXCEPT ![c] = r]
        BY <1>g DEF SpawnRegister
    <2> QED
        BY <1>t, <2>1, <2>2
<1>m. ASSUME NEW c \in Callers, NEW n \in Names, Remove(c, n)
      PROVE  /\ call' \in [Callers -> CallRecord] /\ call'[c].name = n
             /\ \A d \in Callers : d # c => call'[d] = call[d]
    <2> DEFINE r == [call[c] EXCEPT !.pc = "closing", !.name = n, !.id = byName[n]]
    <2>0. call[c] \in CallRecord /\ byName[n] \in Ids \cup {Pending, None}
        BY <1>t
    <2>1. r \in CallRecord /\ r.name = n
        BY <2>0, RecordClosing
    <2>2. call' = [call EXCEPT ![c] = r]
        BY <1>t, <1>m, Zenon DEF Remove
    <2> QED
        BY <1>t, <2>1, <2>2
<1> USE DistinctAssumption DEF IInv, TypeOK, Named, CallRecord, CallStates
<1>1. ASSUME NEW c \in Callers, NEW n \in Names, Reserve(c, n) PROVE TypeOK' /\ Named'
    <2>1. [Idle EXCEPT !.pc = "starting", !.name = n] \in CallRecord
        BY <1>i
    <2>2. [Idle EXCEPT !.pc = "starting", !.name = n].name = n
        BY <1>i DEF Idle
    <2> QED
        BY <1>1, <2>1, <2>2 DEF Reserve
<1>2. ASSUME NEW c \in Callers, SpawnFail(c) PROVE TypeOK' /\ Named'
    BY <1>2, <1>i DEF SpawnFail, Idle
<1>3. ASSUME NEW c \in Callers, NEW id \in Ids, SpawnStart(c, id) PROVE TypeOK' /\ Named'
    <2> USE <1>3 DEF SpawnStart
    <2>1. call'[c].name = call[c].name /\ call'[c].name \in Names
        OBVIOUS
    <2>2. \A d \in Callers : d # c => call'[d] = call[d]
        OBVIOUS
    <2>3. Named'
        BY <2>1, <2>2
    <2>4. call' \in [Callers -> CallRecord]
        <3>1. [call[c] EXCEPT !.pc = "started", !.id = id] \in CallRecord
            BY ZenonT(60)
        <3>2. call'[c] = [call[c] EXCEPT !.pc = "started", !.id = id]
            OBVIOUS
        <3> QED
            BY <3>1, <3>2, <2>2
    <2>5. pty' \in [Ids -> PtyStates]
        BY DEF PtyStates
    <2>6. container' \in [Names -> Ids \cup {None}]
        OBVIOUS
    <2> QED
        BY <2>3, <2>4, <2>5, <2>6
<1>4. ASSUME NEW c \in Callers, SpawnRegister(c) PROVE TypeOK' /\ Named'
    <2>1. call[c].id \in Ids /\ call[c].name \in Names
        BY <1>4 DEF SpawnRegister, Fresh
    <2> QED
        BY <1>4, <1>g, <2>1 DEF SpawnRegister
<1>5. ASSUME NEW c \in Callers, SpawnReturn(c) PROVE TypeOK' /\ Named'
    BY <1>5, <1>i DEF SpawnReturn, SnifferStates, Fresh, Idle
<1>6. ASSUME NEW c \in Callers, NEW n \in Names, Remove(c, n) PROVE TypeOK' /\ Named'
    <2>1. /\ reg' \subseteq reg /\ byName' = [byName EXCEPT ![n] = None]
          /\ robbed' \in {robbed, robbed \cup {n}}
          /\ UNCHANGED <<nameOf, exited, pty, sniffer, container, mu>>
        BY <1>6 DEF Remove
    <2>2. Named'
        BY <1>6, <1>m, <2>1
    <2> QED
        BY <1>6, <1>m, <2>1, <2>2
<1>7. ASSUME NEW c \in Callers, Quiet(c) PROVE TypeOK' /\ Named'
    <2>1. PICK r \in CallRecord : call' = [call EXCEPT ![c] = r]
                                   /\ (r.pc # "idle" => r.name \in Names)
        BY <1>7, QuietStep
    <2>2. /\ UNCHANGED <<byName, reg, nameOf, exited, pty, sniffer, robbed>>
          /\ container' \in [Names -> Ids \cup {None}] /\ mu' \in {mu, "leaked"}
        BY <1>7, QuietStep
    <2> QED
        BY <2>1, <2>2
<1>10. ASSUME NEW c \in Callers, NEW old \in Names, NEW new \in Names, Rename(c, old, new)
       PROVE  TypeOK' /\ Named'
    BY <1>10 DEF Rename
<1>11. ASSUME NEW id \in Ids, PtyClose(id) PROVE TypeOK' /\ Named'
    BY <1>11 DEF PtyClose, PtyStates
<1>12. ASSUME NEW id \in Ids, SnifferSubscribe(id) PROVE TypeOK' /\ Named'
    BY <1>12 DEF SnifferSubscribe, SnifferStates
<1>13. ASSUME NEW id \in Ids, MarkExited(id) PROVE TypeOK' /\ Named'
    BY <1>13 DEF MarkExited, SnifferStates
<1>14. ASSUME NEW id \in Ids, MarkRemove(id) PROVE TypeOK' /\ Named'
    BY <1>14 DEF MarkRemove, SnifferStates
<1>15. CASE UNCHANGED vars
    BY <1>15 DEF vars
<1> QED
    BY <1>1, <1>2, <1>3, <1>4, <1>5, <1>6, <1>7, <1>10, <1>11, <1>12, <1>13, <1>14,
       <1>15, NextSteps

\* Every step keeps the index sound and the started children fresh.
LEMMA IndexStep == IInv /\ [Next]_vars => IndexSound' /\ Fresh'
<1> SUFFICES ASSUME IInv, [Next]_vars PROVE IndexSound' /\ Fresh'
    OBVIOUS
<1> USE DistinctAssumption DEF IInv, TypeOK, Named, CallRecord, CallStates
<1>s. ASSUME UNCHANGED <<byName, reg, nameOf>> PROVE IndexSound'
    BY <1>s DEF IndexSound
\* What is not started or registered in a request cannot break freshness.
<1>f. ASSUME NEW c \in Callers, call'[c].pc \notin {"started", "registered"},
             \A d \in Callers : d # c => call'[d] = call[d],
             pty' = pty,
             \A id \in Ids : Unused(id) => Unused(id)'
      PROVE  Fresh'
    <2>1. \A d \in Callers : call'[d].pc \in {"started", "registered"} => call'[d] = call[d]
        BY <1>f
    <2> QED
        BY <1>f, <2>1 DEF Fresh
<1>1. ASSUME NEW c \in Callers, NEW n \in Names, Reserve(c, n)
      PROVE  IndexSound' /\ Fresh'
    <2> USE <1>1 DEF Reserve
    <2>1. IndexSound'
        BY DEF IndexSound
    <2>2. call'[c].pc = "starting" /\ \A d \in Callers : d # c => call'[d] = call[d]
        BY DEF Idle
    <2>3. \A id \in Ids : Unused(id) => Unused(id)'
        BY DEF Unused
    <2> QED
        BY <2>1, <2>2, <2>3, <1>f
<1>2. ASSUME NEW c \in Callers, SpawnFail(c) PROVE IndexSound' /\ Fresh'
    <2> USE <1>2 DEF SpawnFail
    <2>1. IndexSound'
        BY DEF IndexSound
    <2>2. call'[c].pc = "idle" /\ \A d \in Callers : d # c => call'[d] = call[d]
        BY DEF Idle
    <2>3. \A id \in Ids : Unused(id) => Unused(id)'
        BY DEF Unused
    <2> QED
        BY <2>1, <2>2, <2>3, <1>f
<1>3. ASSUME NEW c \in Callers, NEW id \in Ids, SpawnStart(c, id)
      PROVE  IndexSound' /\ Fresh'
    <2> USE <1>3 DEF SpawnStart
    <2>1. IndexSound'
        BY <1>s
    <2>2. call'[c].pc = "started" /\ call'[c].id = id
        OBVIOUS
    <2>3. \A d \in Callers : d # c => call'[d] = call[d]
        OBVIOUS
    <2>4. pty'[id] = "open" /\ \A i \in Ids : i # id => pty'[i] = pty[i]
        OBVIOUS
    <2>5. \A i \in Ids : Unused(i)' = Unused(i)
        BY DEF Unused
    <2>6. Unused(id) /\ \A d \in Callers : call[d].pc = "started" => call[d].id # id
        BY DEF Fresh
    <2>7. Fresh'
        BY <2>2, <2>3, <2>4, <2>5, <2>6 DEF Fresh
    <2> QED
        BY <2>1, <2>7
<1>4. ASSUME NEW c \in Callers, SpawnRegister(c) PROVE IndexSound' /\ Fresh'
    <2> DEFINE n == call[c].name
               id == call[c].id
    <2> USE <1>4 DEF SpawnRegister
    <2>1. n \in Names /\ id \in Ids /\ Unused(id) /\ pty[id] # "none"
        BY DEF Fresh
    <2>2. byName'[n] = id /\ nameOf'[id] = n /\ id \in reg'
        BY <2>1
    <2>3. \A m \in Names : m # n => byName'[m] = byName[m]
        OBVIOUS
    <2>4. \A i \in Ids : i # id => nameOf'[i] = nameOf[i]
        OBVIOUS
    <2>5. IndexSound'
        <3> SUFFICES ASSUME NEW m \in Names, byName'[m] \in Ids
                     PROVE  byName'[m] \in reg' /\ nameOf'[byName'[m]] = m
            BY DEF IndexSound
        <3>1. CASE m = n
            BY <3>1, <2>2
        <3>2. CASE m # n
            BY <3>2, <2>1, <2>3, <2>4 DEF IndexSound, Unused
        <3> QED
            BY <3>1, <3>2
    <2>6. call'[c].pc = "registered" /\ call'[c].id = id
        OBVIOUS
    <2>7. \A d \in Callers : d # c => call'[d] = call[d]
        OBVIOUS
    <2>8. \A i \in Ids : i # id /\ Unused(i) => Unused(i)'
        BY <2>3, <2>2 DEF Unused
    <2>9. \A d \in Callers : d # c /\ call[d].pc = "started" => call[d].id # id
        BY DEF Fresh
    <2>10. Fresh'
        BY <2>1, <2>6, <2>7, <2>8, <2>9 DEF Fresh
    <2> QED
        BY <2>5, <2>10
<1>5. ASSUME NEW c \in Callers, SpawnReturn(c) PROVE IndexSound' /\ Fresh'
    <2> USE <1>5 DEF SpawnReturn
    <2>1. call'[c].pc = "idle" /\ \A d \in Callers : d # c => call'[d] = call[d]
        BY DEF Idle
    <2>2. \A i \in Ids : Unused(i) => Unused(i)'
        BY DEF Unused
    <2> QED
        BY <1>s, <1>f, <2>1, <2>2
<1>6. ASSUME NEW c \in Callers, NEW n \in Names, Remove(c, n)
      PROVE  IndexSound' /\ Fresh'
    <2> USE <1>6 DEF Remove
    <2>1. IndexSound'
        BY DEF IndexSound
    <2>2. call'[c].pc = "closing" /\ \A d \in Callers : d # c => call'[d] = call[d]
        OBVIOUS
    <2>3. \A i \in Ids : Unused(i) => Unused(i)'
        BY DEF Unused
    <2> QED
        BY <1>f, <2>1, <2>2, <2>3
<1>7. ASSUME NEW c \in Callers, Quiet(c) PROVE IndexSound' /\ Fresh'
    <2>1. PICK r \in CallRecord : call' = [call EXCEPT ![c] = r]
                                   /\ r.pc \notin {"starting", "started", "registered"}
        BY <1>7, QuietStep
    <2>2. UNCHANGED <<byName, reg, nameOf, pty>>
        BY <1>7, QuietStep
    <2>3. /\ call'[c].pc \notin {"started", "registered"}
          /\ \A d \in Callers : d # c => call'[d] = call[d]
        BY <2>1
    <2>4. \A i \in Ids : Unused(i) => Unused(i)'
        BY <2>2 DEF Unused
    <2> QED
        BY <1>s, <1>f, <2>2, <2>3, <2>4
<1>8. ASSUME NEW c \in Callers, NEW old \in Names, NEW new \in Names, Rename(c, old, new)
      PROVE  IndexSound' /\ Fresh'
    <2> DEFINE id == byName[old]
    <2> USE <1>8 DEF Rename
    <2>1. id \in reg /\ nameOf[id] = old /\ old # new
        BY DEF IndexSound
    <2>2. byName'[old] = None /\ byName'[new] = id /\ nameOf'[id] = new
        BY <2>1
    <2>3. \A m \in Names : m # old /\ m # new => byName'[m] = byName[m]
        OBVIOUS
    <2>4. IndexSound'
        BY <2>1, <2>2, <2>3 DEF IndexSound
    <2>5. \A i \in Ids : Unused(i) => Unused(i)'
        BY <2>1, <2>2, <2>3 DEF Unused
    <2>6. Fresh'
        BY <2>5 DEF Fresh
    <2> QED
        BY <2>4, <2>6
<1>9. ASSUME NEW id \in Ids, PtyClose(id) PROVE IndexSound' /\ Fresh'
    <2> USE <1>9 DEF PtyClose
    <2>1. \A i \in Ids : (pty'[i] = "none") = (pty[i] = "none")
        OBVIOUS
    <2>2. \A i \in Ids : Unused(i)' = Unused(i)
        BY DEF Unused
    <2>3. Fresh'
        BY <2>1, <2>2 DEF Fresh
    <2> QED
        BY <1>s, <2>3
<1>10. ASSUME NEW id \in Ids, SnifferSubscribe(id) \/ MarkExited(id)
       PROVE  IndexSound' /\ Fresh'
    <2>1. UNCHANGED <<byName, reg, nameOf, pty, call>>
        BY <1>10 DEF SnifferSubscribe, MarkExited
    <2>2. Fresh'
        BY <2>1 DEF Fresh, Unused
    <2> QED
        BY <1>s, <2>1, <2>2
<1>11. ASSUME NEW id \in Ids, MarkRemove(id) PROVE IndexSound' /\ Fresh'
    <2> USE <1>11 DEF MarkRemove
    <2>1. IndexSound'
        BY DEF IndexSound
    <2>2. \A i \in Ids : Unused(i) => Unused(i)'
        BY DEF Unused
    <2>3. Fresh'
        BY <2>2 DEF Fresh
    <2> QED
        BY <2>1, <2>3
<1>12. CASE UNCHANGED vars
    BY <1>12, <1>s DEF vars, Fresh, Unused
<1> QED
    BY <1>1, <1>2, <1>3, <1>4, <1>5, <1>6, <1>7, <1>8, <1>9, <1>10, <1>11, <1>12, NextSteps

\* Every step keeps the reservations with their Spawns and the sessions
\* within reach of their names.
LEMMA ClaimsStep == IInv /\ [Next]_vars => Claims'
<1> SUFFICES ASSUME IInv, [Next]_vars PROVE Claims'
    OBVIOUS
<1> USE DistinctAssumption DEF IInv, TypeOK, Named, CallRecord, CallStates, Claims
\* Nothing but a request that does not start a child changes.
<1>s. ASSUME UNCHANGED <<byName, reg, nameOf, robbed>>,
             \A c \in Callers : SpawningNames(c)' = SpawningNames(c)
      PROVE  Claims'
    BY <1>s DEF Held, Reachable, SpawnsExclusive, ReservationOwned
<1>1. ASSUME NEW c \in Callers, NEW n \in Names, Reserve(c, n),
             call[c].pc \in {"idle", "respawn"}
      PROVE  Claims'
    <2> USE <1>1 DEF Reserve
    <2>1. SpawningNames(c) = {} /\ SpawningNames(c)' = {n}
        BY DEF SpawningNames, Idle
    <2>2. \A d \in Callers : d # c => SpawningNames(d)' = SpawningNames(d)
        BY DEF SpawningNames
    <2>3. byName'[n] = Pending /\ \A m \in Names : m # n => byName'[m] = byName[m]
        OBVIOUS
    <2>4. \A d \in Callers : n \in SpawningNames(d) => n \in robbed
        BY DEF Held
    <2>n. \A d \in Callers : SpawningNames(d) \subseteq Names
        BY DEF SpawningNames
    <2>h. Held'
      <3> SUFFICES ASSUME NEW d \in Callers, NEW m \in SpawningNames(d)', m \notin robbed'
                   PROVE  byName'[m] = Pending
        BY DEF Held
      <3>1. CASE m = n
        BY <2>3, <3>1
      <3>2. CASE m # n
        <4>1. m \in SpawningNames(d) /\ m \in Names
          BY <2>1, <2>2, <2>n, <3>2
        <4> QED
          BY <2>3, <3>2, <4>1 DEF Held
      <3> QED
        BY <3>1, <3>2
    <2>o. ReservationOwned'
      <3> SUFFICES ASSUME NEW m \in Names, byName'[m] = Pending
                   PROVE  \E d \in Callers : m \in SpawningNames(d)'
        BY DEF ReservationOwned
      <3>1. CASE m = n
        BY <2>1, <3>1
      <3>2. CASE m # n
        BY <2>1, <2>2, <2>3, <3>2 DEF ReservationOwned
      <3> QED
        BY <3>1, <3>2
    <2>6. SpawnsExclusive'
        BY <2>1, <2>2, <2>4 DEF SpawnsExclusive
    <2>7. Reachable'
        BY <2>3 DEF Reachable
    <2> QED
        BY <2>h, <2>o, <2>6, <2>7
<1>2. ASSUME NEW c \in Callers, SpawnFail(c) PROVE Claims'
    <2> DEFINE n == call[c].name
    <2> USE <1>2 DEF SpawnFail
    <2>1. SpawningNames(c) = {n} /\ SpawningNames(c)' = {} /\ n \in Names
        BY DEF SpawningNames, Idle
    <2>2. \A d \in Callers : d # c => SpawningNames(d)' = SpawningNames(d)
        BY DEF SpawningNames
    <2>3. \A m \in Names : m # n => byName'[m] = byName[m]
        OBVIOUS
    <2>4. byName'[n] # Pending /\ (byName[n] # Pending => byName'[n] = byName[n])
        OBVIOUS
    <2>5. \A d \in Callers : d # c /\ n \in SpawningNames(d) => n \in robbed
        BY <2>1 DEF SpawnsExclusive
    <2>6. \A d \in Callers : SpawningNames(d) \subseteq Names
        BY DEF SpawningNames
    <2>7. Held'
        BY <2>1, <2>2, <2>3, <2>5, <2>6 DEF Held
    <2>8. ReservationOwned'
        BY <2>1, <2>2, <2>3, <2>4 DEF ReservationOwned
    <2>9. SpawnsExclusive'
        BY <2>1, <2>2 DEF SpawnsExclusive
    <2>10. Reachable'
        BY <2>1, <2>3, <2>4 DEF Reachable
    <2> QED
        BY <2>7, <2>8, <2>9, <2>10
<1>3. ASSUME NEW c \in Callers, NEW id \in Ids, SpawnStart(c, id) PROVE Claims'
    BY <1>3, <1>s, ZenonT(60) DEF SpawnStart, SpawningNames
<1>4. ASSUME NEW c \in Callers, SpawnRegister(c) PROVE Claims'
    <2> DEFINE n == call[c].name
               id == call[c].id
    <2> USE <1>4 DEF SpawnRegister
    <2>1. SpawningNames(c) = {n} /\ SpawningNames(c)' = {} /\ n \in Names
        BY DEF SpawningNames
    <2>2. \A d \in Callers : d # c => SpawningNames(d)' = SpawningNames(d)
        BY DEF SpawningNames
    <2>3. id \in Ids /\ id \notin reg
        BY DEF Fresh, Unused
    <2>4. byName'[n] = id /\ \A m \in Names : m # n => byName'[m] = byName[m]
        BY <2>1
    <2>5. nameOf'[id] = n /\ \A i \in Ids : i # id => nameOf'[i] = nameOf[i]
        BY <2>3
    <2>6. \A d \in Callers : d # c /\ n \in SpawningNames(d) => n \in robbed
        BY <2>1 DEF SpawnsExclusive
    <2>7. \A d \in Callers : SpawningNames(d) \subseteq Names
        BY DEF SpawningNames
    <2>8. Held'
        BY <2>1, <2>2, <2>4, <2>6, <2>7 DEF Held
    <2>9. ReservationOwned'
        BY <2>1, <2>2, <2>3, <2>4 DEF ReservationOwned
    <2>10. SpawnsExclusive'
        BY <2>1, <2>2 DEF SpawnsExclusive
    <2>11. \A i \in reg : nameOf[i] = n => n \in robbed
        BY <2>1 DEF Held, Reachable
    <2>12. Reachable'
        BY <2>1, <2>3, <2>4, <2>5, <2>11 DEF Reachable
    <2> QED
        BY <2>8, <2>9, <2>10, <2>12
<1>5. ASSUME NEW c \in Callers, SpawnReturn(c) PROVE Claims'
    BY <1>5, <1>s DEF SpawnReturn, SpawningNames, Idle
<1>6. ASSUME NEW c \in Callers, NEW n \in Names, Remove(c, n),
             call[c].pc \in {"idle", "stopping"}
      PROVE  Claims'
    <2> USE <1>6 DEF Remove
    <2>0. call'[c].pc = "closing" /\ \A d \in Callers : d # c => call'[d] = call[d]
        OBVIOUS
    <2>1. \A d \in Callers : SpawningNames(d)' = SpawningNames(d)
        BY <2>0 DEF SpawningNames
    <2>2. byName'[n] = None /\ \A m \in Names : m # n => byName'[m] = byName[m]
        OBVIOUS
    <2>3. robbed \subseteq robbed' /\ (byName[n] = Pending => n \in robbed')
        OBVIOUS
    <2>4. \A d \in Callers : SpawningNames(d) \subseteq Names
        BY DEF SpawningNames
    <2>5. Held'
        BY <2>1, <2>2, <2>3, <2>4 DEF Held
    <2>6. ReservationOwned' /\ SpawnsExclusive'
        BY <2>1, <2>2, <2>3 DEF ReservationOwned, SpawnsExclusive
    <2>7. Reachable'
        BY <2>2, <2>3 DEF Reachable
    <2> QED
        BY <2>5, <2>6, <2>7
<1>7. ASSUME NEW c \in Callers, Quiet(c) PROVE Claims'
    <2>1. PICK r \in CallRecord : call' = [call EXCEPT ![c] = r]
                                   /\ r.pc \notin {"starting", "started", "registered"}
        BY <1>7, QuietStep
    <2>2. /\ UNCHANGED <<byName, reg, nameOf, robbed>>
          /\ call[c].pc \notin {"starting", "started", "registered"}
        BY <1>7, QuietStep
    <2>3. \A d \in Callers : SpawningNames(d)' = SpawningNames(d)
        BY <2>1, <2>2 DEF SpawningNames
    <2> QED
        BY <1>s, <2>2, <2>3
<1>8. ASSUME NEW c \in Callers, NEW old \in Names, NEW new \in Names, Rename(c, old, new)
      PROVE  Claims'
    <2> DEFINE id == byName[old]
    <2> USE <1>8 DEF Rename
    <2>1. id \in reg /\ nameOf[id] = old /\ old # new
        BY DEF IndexSound
    <2>2. byName'[old] = None /\ byName'[new] = id
        BY <2>1
    <2>3. \A m \in Names : m # old /\ m # new => byName'[m] = byName[m]
        OBVIOUS
    <2>4. nameOf'[id] = new /\ \A i \in Ids : i # id => nameOf'[i] = nameOf[i]
        OBVIOUS
    <2>5. \A d \in Callers : SpawningNames(d)' = SpawningNames(d) /\ SpawningNames(d) \subseteq Names
        BY DEF SpawningNames
    <2>6. Held'
        BY <2>3, <2>5 DEF Held
    <2>7. ReservationOwned' /\ SpawnsExclusive'
        BY <2>2, <2>3, <2>5 DEF ReservationOwned, SpawnsExclusive
    <2>8. Reachable'
        BY <2>1, <2>2, <2>3, <2>4 DEF Reachable
    <2> QED
        BY <2>6, <2>7, <2>8
<1>9. ASSUME NEW id \in Ids, PtyClose(id) \/ SnifferSubscribe(id) \/ MarkExited(id)
      PROVE  Claims'
    BY <1>9, <1>s DEF PtyClose, SnifferSubscribe, MarkExited, SpawningNames
<1>10. ASSUME NEW id \in Ids, MarkRemove(id) PROVE Claims'
    <2> DEFINE n == nameOf[id]
    <2> USE <1>10 DEF MarkRemove
    <2>1. \A d \in Callers : SpawningNames(d)' = SpawningNames(d) /\ SpawningNames(d) \subseteq Names
        BY DEF SpawningNames
    <2>2. CASE id \notin reg
        BY <2>1, <2>2 DEF Held, Reachable, SpawnsExclusive, ReservationOwned
    <2>3. CASE id \in reg
        <3>1. \A m \in Names : m # n => byName'[m] = byName[m]
            BY <2>3
        <3>2. n \in Names => byName'[n] = None
            BY <2>3
        <3>3. n \in robbed \/ byName[n] = id
            BY <2>3 DEF Reachable
        <3>4. Held'
            BY <2>1, <3>1, <3>3 DEF Held
        <3>5. ReservationOwned' /\ SpawnsExclusive'
            BY <2>1, <3>1, <3>2 DEF ReservationOwned, SpawnsExclusive
        <3>6. Reachable'
            <4> SUFFICES ASSUME NEW i \in reg', nameOf'[i] \notin robbed'
                         PROVE  byName'[nameOf'[i]] = i
                BY DEF Reachable
            <4>1. i \in reg /\ i # id /\ nameOf'[i] = nameOf[i] /\ byName[nameOf[i]] = i
                BY DEF Reachable
            <4>2. nameOf[i] \in Names \cup {None}
                BY <4>1
            <4>3. nameOf[i] # n
                BY <3>3, <4>1
            <4> QED
                BY <2>3, <4>1, <4>2, <4>3
        <3> QED
            BY <3>4, <3>5, <3>6
    <2> QED
        BY <2>2, <2>3
<1>11. CASE UNCHANGED vars
    BY <1>11, <1>s DEF vars, SpawningNames
<1> QED
    BY <1>1, <1>2, <1>3, <1>4, <1>5, <1>6, <1>7, <1>8, <1>9, <1>10, <1>11, NextSteps

\* The invariant holds in every reachable state.
THEOREM Inductive == Spec => []IInv
<1>1. IInv /\ [Next]_vars => IInv'
    BY TypeStep, IndexStep, ClaimsStep DEF IInv
<1> QED
    BY InitIInv, <1>1, PTL DEF Spec

\* Types, for any number of names, ids and callers.
THEOREM TypeCorrect == Spec => []TypeOK
<1>1. IInv => TypeOK
    BY DEF IInv
<1> QED
    BY Inductive, <1>1, PTL

(***************************************************************************)
(* byName never leads to a session that is not registered, or registered   *)
(* under another name, whatever Spawns, Stops, Restarts, Handoffs, Renames *)
(* and exits interleave.                                                   *)
(***************************************************************************)
THEOREM NameIndexSound == Spec => []IndexSound
<1>1. IInv => IndexSound
    BY DEF IInv
<1> QED
    BY Inductive, <1>1, PTL

(***************************************************************************)
(* A registered session can be reached by its name, however children exit  *)
(* and operators interleave, while no Stop has hit a Spawn of that name.   *)
(***************************************************************************)
THEOREM SessionsReachable == Spec => []Reachable
<1>1. IInv => Reachable
    BY DEF IInv, Claims
<1> QED
    BY Inductive, <1>1, PTL

(***************************************************************************)
(* Two Spawns that start a container for one name at the same time have    *)
(* had the reservation taken away by a Stop (#647).                        *)
(***************************************************************************)
THEOREM OneSpawnPerName == Spec => []SpawnsExclusive
<1>1. IInv => SpawnsExclusive
    BY DEF IInv, Claims
<1> QED
    BY Inductive, <1>1, PTL

(***************************************************************************)
(* Every sentinel in byName belongs to a Spawn that is still running.      *)
(***************************************************************************)
THEOREM NoOrphanReservation == Spec => []ReservationOwned
<1>1. IInv => ReservationOwned
    BY DEF IInv, Claims
<1> QED
    BY Inductive, <1>1, PTL
-----------------------------------------------------------------------------
(* SessionStore lets an id be registered once: a finished Spawn never      *)
(* registers its id again, and Stops and the reaper rely on it.  This is   *)
(* where it comes from.                                                    *)

\* A child that is not registered yet has no name in info, nor has one that is
\* not started.
Unnamed ==
    \A id \in Ids :
        (pty[id] = "none" \/ \E c \in Callers : call[c].pc = "started" /\ call[c].id = id)
            => nameOf[id] = None

\* Once in info for the first time, an id that has left never comes back.
RegisteredOnce ==
    \A id \in Ids : nameOf[id] # None => /\ nameOf'[id] # None
                                         /\ id \notin reg => id \notin reg'

\* A step that starts, registers and renames nothing.
Calm ==
    /\ nameOf' = nameOf /\ reg' \subseteq reg
    /\ \A id \in Ids : pty'[id] = "none" => pty[id] = "none"
    /\ \A c \in Callers : call'[c].pc = "started" =>
          call[c].pc = "started" /\ call'[c].id = call[c].id

LEMMA CalmStep == Unnamed /\ Calm => Unnamed' /\ RegisteredOnce
BY DEF Unnamed, Calm, RegisteredOnce

\* The steps of the callers that are calm.
LEMMA CalmCalls ==
    ASSUME IInv, NEW c \in Callers,
           \/ SpawnFail(c) \/ SpawnReturn(c) \/ Quiet(c)
           \/ \E n \in Names : Reserve(c, n) \/ Remove(c, n)
    PROVE  Calm
<1>t. call \in [Callers -> CallRecord] /\ Named
    BY DEF IInv, TypeOK
<1>1. nameOf' = nameOf /\ pty' = pty /\ reg' \subseteq reg
  <2>1. CASE Quiet(c)
    BY <1>t, <2>1, QuietStep
  <2> QED
    BY <2>1 DEF SpawnFail, SpawnReturn, Reserve, Remove
<1> DEFINE Steady == /\ \A d \in Callers : d # c => call'[d] = call[d]
                     /\ call'[c].pc # "started"
<1>2. Steady
  <2>1. CASE SpawnFail(c) \/ SpawnReturn(c)
    <3>1. call' = [call EXCEPT ![c] = Idle]
      BY <2>1 DEF SpawnFail, SpawnReturn
    <3> QED
      BY <1>t, <3>1 DEF Idle
  <2>2. CASE Quiet(c)
    <3>1. PICK r \in CallRecord : call' = [call EXCEPT ![c] = r] /\ r.pc # "started"
      BY <1>t, <2>2, QuietStep
    <3> QED
      BY <1>t, <3>1
  <2>3. ASSUME NEW n \in Names, Reserve(c, n) PROVE Steady
    <3>1. call' = [call EXCEPT ![c] = [Idle EXCEPT !.pc = "starting", !.name = n]]
      BY <2>3 DEF Reserve
    <3> QED
      BY <1>t, <3>1 DEF Idle
  <2>4. ASSUME NEW n \in Names, Remove(c, n) PROVE Steady
    <3>1. call' = [call EXCEPT ![c].pc = "closing", ![c].name = n, ![c].id = byName[n]]
      BY <2>4 DEF Remove
    <3> QED
      BY <1>t, <3>1 DEF CallRecord
  <2> QED
    BY <2>1, <2>2, <2>3, <2>4
<1>3. ASSUME NEW d \in Callers, call'[d].pc = "started"
      PROVE  call[d].pc = "started" /\ call'[d].id = call[d].id
    BY <1>t, <1>2, <1>3
<1> QED
    BY <1>1, <1>3 DEF Calm

\* Only SpawnRegister adds to the registry, and its id has no name yet.
LEMMA UnnamedStep == IInv /\ Unnamed /\ [Next]_vars => Unnamed' /\ RegisteredOnce
<1> SUFFICES ASSUME IInv, Unnamed, [Next]_vars PROVE Unnamed' /\ RegisteredOnce
    OBVIOUS
<1>t. /\ call \in [Callers -> CallRecord] /\ nameOf \in [Ids -> Names \cup {None}]
      /\ pty \in [Ids -> PtyStates]
    BY DEF IInv, TypeOK, CallRecord
<1>1. ASSUME NEW c \in Callers,
             \/ SpawnFail(c) \/ SpawnReturn(c) \/ Quiet(c)
             \/ \E n \in Names : Reserve(c, n) \/ Remove(c, n)
      PROVE  Unnamed' /\ RegisteredOnce
    BY <1>1, CalmCalls, CalmStep
<1>2. ASSUME NEW id \in Ids,
             PtyClose(id) \/ SnifferSubscribe(id) \/ MarkExited(id) \/ MarkRemove(id)
      PROVE  Unnamed' /\ RegisteredOnce
  <2>1. nameOf' = nameOf /\ call' = call /\ reg' \subseteq reg
    BY <1>2 DEF PtyClose, SnifferSubscribe, MarkExited, MarkRemove
  <2>2. pty' \in {pty, [pty EXCEPT ![id] = "closed"]}
    BY <1>2 DEF PtyClose, SnifferSubscribe, MarkExited, MarkRemove
  <2>3. Calm
    BY <1>t, <2>1, <2>2 DEF Calm
  <2> QED
    BY <2>3, CalmStep
<1>3. CASE UNCHANGED vars
    BY <1>3, CalmStep DEF vars, Calm
<1>4. ASSUME NEW c \in Callers, NEW id \in Ids, SpawnStart(c, id)
      PROVE  Unnamed' /\ RegisteredOnce
  <2>1. /\ pty[id] = "none" /\ pty' = [pty EXCEPT ![id] = "open"]
        /\ call' = [call EXCEPT ![c].pc = "started", ![c].id = id]
        /\ nameOf' = nameOf /\ reg' = reg
    BY <1>4 DEF SpawnStart
  <2>2. \A d \in Callers : d # c => call'[d] = call[d]
    BY <1>t, <2>1
  <2>3. call'[c].id = id
    BY <1>t, <2>1 DEF CallRecord
  <2>4. \A i \in Ids : pty'[i] = "none" => pty[i] = "none"
    BY <1>t, <2>1
  <2>5. Unnamed'
    <3> SUFFICES ASSUME NEW i \in Ids,
                        \/ pty'[i] = "none"
                        \/ \E d \in Callers : call'[d].pc = "started" /\ call'[d].id = i
                 PROVE  nameOf[i] = None
      BY <2>1 DEF Unnamed
    <3>1. CASE i = id
      BY <2>1, <3>1 DEF Unnamed
    <3>2. CASE i # id
      BY <2>2, <2>3, <2>4, <3>2 DEF Unnamed
    <3> QED
      BY <3>1, <3>2
  <2>6. RegisteredOnce
    BY <2>1 DEF RegisteredOnce
  <2> QED
    BY <2>5, <2>6
<1>5. ASSUME NEW c \in Callers, SpawnRegister(c) PROVE Unnamed' /\ RegisteredOnce
  <2> DEFINE id == call[c].id
             n == call[c].name
  <2>1. /\ call[c].pc = "started" /\ reg' = reg \cup {id}
        /\ nameOf' = [nameOf EXCEPT ![id] = n]
        /\ call' = [call EXCEPT ![c].pc = "registered"] /\ pty' = pty
    BY <1>5 DEF SpawnRegister
  <2>2. /\ id \in Ids /\ pty[id] # "none" /\ n \in Names
        /\ \A d \in Callers : call[d].pc = "started" /\ call[d].id = id => d = c
    BY <2>1 DEF IInv, Fresh, Named
  <2>3. nameOf[id] = None
    BY <2>1, <2>2 DEF Unnamed
  <2>4. call'[c].pc = "registered" /\ \A d \in Callers : d # c => call'[d] = call[d]
    BY <1>t, <2>1 DEF CallRecord
  <2>5. \A i \in Ids : i # id => nameOf'[i] = nameOf[i]
    BY <1>t, <2>1
  <2>6. Unnamed'
    <3> SUFFICES ASSUME NEW i \in Ids,
                        \/ pty'[i] = "none"
                        \/ \E d \in Callers : call'[d].pc = "started" /\ call'[d].id = i
                 PROVE  nameOf'[i] = None
      BY DEF Unnamed
    <3>1. i # id
      BY <2>1, <2>2, <2>4
    <3> QED
      BY <2>1, <2>4, <2>5, <3>1 DEF Unnamed
  <2>7. RegisteredOnce
    BY <2>1, <2>3, <2>5 DEF RegisteredOnce
  <2> QED
    BY <2>6, <2>7
<1>6. ASSUME NEW c \in Callers, NEW old \in Names, NEW new \in Names, Rename(c, old, new)
      PROVE  Unnamed' /\ RegisteredOnce
  <2> DEFINE id == byName[old]
  <2>1. /\ id \in Ids /\ nameOf' = [nameOf EXCEPT ![id] = new]
        /\ reg' = reg /\ pty' = pty /\ call' = call
    BY <1>6 DEF Rename
  <2>2. ~Unused(id)
    BY DEF Unused
  <2>3. /\ pty[id] # "none"
        /\ ~\E d \in Callers : call[d].pc = "started" /\ call[d].id = id
    BY <2>1, <2>2 DEF IInv, Fresh
  <2>4. \A i \in Ids : nameOf'[i] = IF i = id THEN new ELSE nameOf[i]
    BY <1>t, <2>1
  <2>5. new # None
    BY DistinctAssumption
  <2> QED
    BY <2>1, <2>3, <2>4, <2>5 DEF Unnamed, RegisteredOnce
<1> QED
    BY <1>1, <1>2, <1>3, <1>4, <1>5, <1>6, NextSteps DEF IInv, TypeOK

(* However Spawn, Stop, Restart, Handoff, Rename and the sniffers          *)
(* interleave, an id that has left the registry is never in it again: what *)
(* SessionStore's SpawnRegister and its proof of LiveRowKept take for      *)
(* granted.                                                                *)
THEOREM IdsRegisteredOnce == Spec => [][RegisteredOnce]_vars
<1>1. Init => Unnamed
    BY DEF Init, Unnamed
<1>2. IInv /\ Unnamed /\ [Next]_vars => Unnamed' /\ [RegisteredOnce]_vars
    BY UnnamedStep
<1> QED
    BY <1>1, <1>2, Inductive, PTL DEF Spec

=============================================================================

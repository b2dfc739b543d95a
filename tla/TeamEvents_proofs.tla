-------------------------- MODULE TeamEvents_proofs --------------------------
(***************************************************************************)
(* The canon file and the briefings catch up, whatever the number of       *)
(* agents and teams, the capacity of the channel and the number of         *)
(* operations.                                                             *)
(***************************************************************************)
EXTENDS TeamEvents, SequenceTheorems, TLAPS

\* A session that Spawn has begun belongs to a team, and so does an event
\* that is being fanned out.
Rooted ==
    /\ \A a \in Agents : sp[a] # "idle" => home[a] \in Teams
    /\ \A a \in Agents : st[a] # "absent" => sp[a] \in {"registered", "done"}
    /\ \A a \in Agents : sp[a] \in {"briefing", "registered"} => spec[a] \in Teams
    /\ loop.stage # "idle" => loop.team \in Teams

\* The peers of a briefing were last read by one regeneration.
OneNewest == \A v, w \in newest : v.to = w.to => v = w

\* What is owed is owed between two live sessions of one team.
Owing(p) ==
    /\ p[1] # p[2]
    /\ st[p[1]] = "live" /\ st[p[2]] = "live"
    /\ home[p[1]] = home[p[2]] /\ home[p[1]] \in Teams

\* Some piece of work is going to pay the debt, or has paid it.
Covered(p) ==
    \/ Announced(p[1]) \/ FannedOut(p[1])
    \/ timer[p[1]] = home[p[1]] \/ LastReadLists(p[1], p[2])

\* A fan-out that still counts on the team a session was in replaces the
\* timer with one for that team: what is owed since the session moved is then
\* announced by an event behind it, which will replace the timer again.
Diverted(p) == loop.stage = "fan" /\ p[1] \in loop.targets /\ loop.team # home[p[1]]
Stale(p) == timer[p[1]] # None /\ timer[p[1]] # home[p[1]]
Settled(p) ==
    /\ Diverted(p) => Announced(p[1])
    /\ Stale(p) => Announced(p[1]) \/ FannedOut(p[1])

Debts == \A p \in owed : Owing(p) /\ Covered(p) /\ Settled(p)

IInv == TypeOK /\ Rooted /\ OneNewest /\ CanonCurrent /\ Debts

-----------------------------------------------------------------------------
\* What Append puts into the channel.
LEMMA InAppend ==
    ASSUME NEW S, NEW q \in Seq(S), NEW e \in S
    PROVE  ToSet(Append(q, e)) = ToSet(q) \cup {e}
<1>1. /\ Len(Append(q, e)) = Len(q) + 1
      /\ \A i \in 1..Len(q) : Append(q, e)[i] = q[i]
      /\ Append(q, e)[Len(q) + 1] = e
      /\ Len(q) \in Nat
    BY AppendProperties
<1>2. ToSet(Append(q, e)) \subseteq ToSet(q) \cup {e}
    BY <1>1 DEF ToSet
<1>3. ToSet(q) \cup {e} \subseteq ToSet(Append(q, e))
    BY <1>1 DEF ToSet
<1> QED
    BY <1>2, <1>3

\* What the goroutine leaves in the channel.
LEMMA InTail ==
    ASSUME NEW S, NEW q \in Seq(S), q # <<>>
    PROVE  /\ Head(q) \in S /\ Tail(q) \in Seq(S) /\ Len(Tail(q)) <= Len(q)
           /\ ToSet(q) \subseteq ToSet(Tail(q)) \cup {Head(q)}
<1>1. /\ Head(q) \in S /\ Tail(q) \in Seq(S)
      /\ Len(Tail(q)) = Len(q) - 1 /\ Head(q) = q[1] /\ Len(q) \in Nat \ {0}
      /\ \A i \in 1..Len(Tail(q)) : Tail(q)[i] = q[i + 1]
    BY HeadTailProperties
<1>2. ASSUME NEW i \in 1..Len(q)
      PROVE  q[i] \in ToSet(Tail(q)) \cup {Head(q)}
  <2>1. CASE i = 1
    BY <1>1, <2>1
  <2>2. CASE i # 1
    <3>1. i - 1 \in 1..Len(Tail(q)) /\ Tail(q)[i - 1] = q[(i - 1) + 1] /\ (i - 1) + 1 = i
      BY <1>1, <2>2
    <3>2. DOMAIN Tail(q) = 1..Len(Tail(q))
      BY <1>1, LenProperties
    <3>3. q[i] \in ToSet(Tail(q))
      BY <3>1, <3>2 DEF ToSet
    <3> QED
      BY <3>3
  <2> QED
    BY <2>1, <2>2
<1>3. DOMAIN q = 1..Len(q)
    BY LenProperties
<1> QED
    BY <1>1, <1>2, <1>3 DEF ToSet

-----------------------------------------------------------------------------
(* Emit                                                                    *)

\* The channel stays within its capacity, the events in it stay there.
LEMMA EmitQueue ==
    ASSUME TypeOK, NEW a \in Agents, NEW t \in Teams, NEW out, Emit(a, t, out)
    PROVE  /\ queue' \in Seq(Events) /\ Len(queue') <= Cap
           /\ missed' \subseteq Teams /\ owed' \subseteq Agents \X Agents
           /\ ToSet(queue) \subseteq ToSet(queue')
           /\ Len(queue) < Cap => [agent |-> a, team |-> t] \in ToSet(queue')
<1> DEFINE e == [agent |-> a, team |-> t]
<1>1. e \in Events /\ queue \in Seq(Events) /\ Len(queue) \in Nat /\ Cap \in Nat
    BY TeamAssumption, LenProperties DEF TypeOK, Events
<1>2. Append(queue, e) \in Seq(Events) /\ Len(Append(queue, e)) = Len(queue) + 1
    BY <1>1, AppendProperties
<1>3. ToSet(Append(queue, e)) = ToSet(queue) \cup {e}
    BY <1>1, InAppend
<1>4. queue' \in Seq(Events) /\ Len(queue') <= Cap
    BY <1>1, <1>2 DEF Emit, TypeOK
<1>5. missed' \subseteq Teams
    BY DEF Emit, TypeOK
<1>6. owed' \subseteq Agents \X Agents
    BY DEF Emit, TypeOK, Kept, Due
<1>7. /\ ToSet(queue) \subseteq ToSet(queue')
      /\ Len(queue) < Cap => e \in ToSet(queue')
    BY <1>3 DEF Emit
<1> QED
    BY <1>4, <1>5, <1>6, <1>7

\* A change of one team's members with its event keeps the canon current.
LEMMA EmitCanon ==
    ASSUME TypeOK, CanonCurrent, NEW a \in Agents, NEW t \in Teams, NEW out,
           Emit(a, t, out), UNCHANGED <<loop, canon>>,
           teams' \subseteq teams \cup {t},
           \A u \in Teams : u # t => role'[u] = role[u],
           t \in teams' \ teams => role'[t] # role[t],
           teams' \subseteq Teams
    PROVE  CanonCurrent'
<1>1. SUFFICES ASSUME NEW u \in teams', u \notin missed'
               PROVE  (Queued(u) \/ OnWay(u) \/ OnFile(u))'
    BY DEF CanonCurrent
<1>2. ToSet(queue) \subseteq ToSet(queue')
      /\ (Len(queue) < Cap => [agent |-> a, team |-> t] \in ToSet(queue'))
    BY EmitQueue
<1>3. Queued(u) => Queued(u)'
    BY <1>2 DEF Queued
<1>4. CASE u # t
  <2>1. u \in teams /\ u \notin missed /\ role'[u] = role[u]
    BY <1>1, <1>4 DEF Emit
  <2> QED
    BY <2>1, <1>3 DEF CanonCurrent, OnWay, OnFile
<1>5. CASE u = t /\ Len(queue) < Cap
    BY <1>2, <1>5 DEF Queued
<1>6. CASE u = t /\ ~(Len(queue) < Cap)
  <2>1. CASE role'[t] # role[t]
    BY <2>1, <1>6, <1>3, <1>1 DEF Emit
  <2>2. CASE role'[t] = role[t]
    <3>1. u \in teams /\ u \notin missed
      BY <2>2, <1>6, <1>1 DEF Emit
    <3> QED
      BY <3>1, <2>2, <1>6, <1>3 DEF CanonCurrent, OnWay, OnFile
  <2> QED
    BY <2>1, <2>2
<1> QED
    BY <1>4, <1>5, <1>6

\* What an event adds to the debt is covered by an event in the channel.
LEMMA EmitOwed ==
    ASSUME TypeOK, Debts, NEW a \in Agents, NEW t \in Teams,
           NEW out, Emit(a, t, out), UNCHANGED <<loop, timer, newest, behind, brief>>,
           \A b \in Agents \ out : st'[b] = st[b] /\ home'[b] = home[b]
    PROVE  Debts'
<1>1. ToSet(queue) \subseteq ToSet(queue')
    BY EmitQueue
<1>2. ASSUME NEW p \in owed' PROVE Owing(p)' /\ Covered(p)' /\ Settled(p)'
  <2>1. CASE p \in Kept(out)
    <3>1. p \in owed /\ p[1] \in Agents \ out /\ p[2] \in Agents \ out
      BY <2>1 DEF Kept, TypeOK
    <3>2. st'[p[1]] = st[p[1]] /\ st'[p[2]] = st[p[2]]
          /\ home'[p[1]] = home[p[1]] /\ home'[p[2]] = home[p[2]]
      BY <3>1
    <3>3. Announced(p[1]) => Announced(p[1])'
      BY <1>1, <3>2 DEF Announced
    <3>4. FannedOut(p[1])' = FannedOut(p[1])
      BY <3>2 DEF FannedOut
    <3>5. LastReadLists(p[1], p[2])' = LastReadLists(p[1], p[2])
      BY DEF LastReadLists, NewestPending
    <3>6. Owing(p) /\ Covered(p) /\ Settled(p)
      BY <3>1 DEF Debts
    <3>7. Owing(p)'
      BY <3>2, <3>6 DEF Owing
    <3>8. Covered(p)'
      BY <3>2, <3>3, <3>4, <3>5, <3>6 DEF Covered
    <3>9. Settled(p)'
      BY <3>2, <3>3, <3>4, <3>6 DEF Settled, Diverted, Stale
    <3> QED
      BY <3>7, <3>8, <3>9
  <2>2. CASE p \in Due(t, queue', out)
    <3>1. /\ p[1] \in Agents \ out /\ p[2] \in Agents \ out /\ p[1] # p[2]
          /\ st[p[1]] = "live" /\ home[p[1]] = t /\ st[p[2]] = "live" /\ home[p[2]] = t
          /\ \E e \in ToSet(queue') : e.team = t /\ e.agent # p[1]
      BY <2>2 DEF Due
    <3>2. st'[p[1]] = st[p[1]] /\ st'[p[2]] = st[p[2]]
          /\ home'[p[1]] = home[p[1]] /\ home'[p[2]] = home[p[2]]
      BY <3>1
    <3>3. Announced(p[1])'
      BY <3>1, <3>2 DEF Announced
    <3> QED
      BY <3>1, <3>2, <3>3 DEF Owing, Covered, Settled
  <2> QED
    BY <2>1, <2>2 DEF Emit
<1> QED
    BY <1>2 DEF Debts

-----------------------------------------------------------------------------
\* The empty runtime satisfies the invariant.
LEMMA InitIInv == Init => IInv
<1> SUFFICES ASSUME Init PROVE IInv
    OBVIOUS
<1> USE DEF Init
<1>1. [a \in Agents |-> None] \in Rosters
    BY DEF Rosters
<1>2. <<>> \in Seq(Events) /\ Len(<<>>) <= Cap
    BY TeamAssumption, EmptySeq
<1>3. TypeOK
    BY <1>1, <1>2, TeamAssumption DEF TypeOK, Idle
<1>4. Rooted
    BY DEF Rooted, Idle
<1>5. CanonCurrent /\ Debts /\ OneNewest
    BY DEF CanonCurrent, Debts, OneNewest
<1> QED
    BY <1>3, <1>4, <1>5 DEF IInv

\* A regeneration that reads the peers becomes the newest one of its agent.
LEMMA ReadPeersStep ==
    ASSUME TypeOK, OneNewest, NEW a \in Agents, NEW t, ReadPeers(a, t)
    PROVE  /\ writing' \subseteq Writes /\ newest' \subseteq writing'
           /\ behind' = behind \ {a} /\ OneNewest'
           /\ \E w \in newest' : /\ w.to = a /\ w.peers = Peers(a, t)
                                /\ newest' = {v \in newest : v.to # a} \cup {w}
<1> DEFINE free == {g \in Runs : \A v \in writing : v.to = a => v.run # g}
           g1 == CHOOSE g \in free : TRUE
           w == [to |-> a, run |-> g1, peers |-> Peers(a, t)]
<1>1. /\ free # {} /\ writing' = writing \cup {w} /\ behind' = behind \ {a}
      /\ newest' = {v \in newest : v.to # a} \cup {w}
    BY DEF ReadPeers
<1>2. g1 \in Runs
    BY <1>1
<1> HIDE DEF g1
<1>3. w \in Writes /\ w.to = a /\ w.peers = Peers(a, t)
    BY <1>2 DEF Writes, Peers
<1> HIDE DEF w
<1>4. writing' \subseteq Writes /\ newest' \subseteq writing'
    BY <1>1, <1>3 DEF TypeOK
<1>5. OneNewest'
    BY <1>1, <1>3 DEF OneNewest
<1> QED
    BY <1>1, <1>3, <1>4, <1>5

\* Every step keeps the types, and the team of every session.
LEMMA TypeStep == IInv /\ [Next]_vars => TypeOK' /\ Rooted' /\ OneNewest'
<1> SUFFICES ASSUME IInv, [Next]_vars PROVE TypeOK' /\ Rooted' /\ OneNewest'
    OBVIOUS
<1> USE TeamAssumption DEF IInv
<1>1. ASSUME NEW a \in Agents, NEW t \in Teams, SpawnBrief(a, t)
      PROVE  TypeOK' /\ Rooted' /\ OneNewest'
  <2>1. ReadPeers(a, t)
    BY <1>1 DEF SpawnBrief
  <2>2. /\ writing' \subseteq Writes /\ newest' \subseteq writing' /\ OneNewest'
        /\ behind' \subseteq Agents
    BY <2>1, ReadPeersStep DEF TypeOK
  <2> QED
    BY <1>1, <2>2 DEF SpawnBrief, TypeOK, Rooted, files
<1>2. ASSUME NEW a \in Agents, SpawnRegister(a) PROVE TypeOK' /\ Rooted' /\ OneNewest'
    BY <1>2 DEF SpawnRegister, TypeOK, Rooted, OneNewest, regens, files
<1>3. ASSUME NEW a \in Agents, SpawnEmit(a) PROVE TypeOK' /\ Rooted' /\ OneNewest'
  <2>1. spec[a] \in Teams /\ Emit(a, spec[a], {})
    BY <1>3 DEF SpawnEmit, Rooted
  <2>2. /\ queue' \in Seq(Events) /\ Len(queue') <= Cap
        /\ missed' \subseteq Teams /\ owed' \subseteq Agents \X Agents
    BY <2>1, EmitQueue
  <2> QED
    BY <1>3, <2>2 DEF SpawnEmit, TypeOK, Rooted, OneNewest, regens, files
<1>4. ASSUME NEW a \in Agents, Stop(a) PROVE TypeOK' /\ Rooted' /\ OneNewest'
  <2>1. home[a] \in Teams /\ Emit(a, home[a], {a})
    BY <1>4 DEF Stop, Rooted
  <2>2. /\ queue' \in Seq(Events) /\ Len(queue') <= Cap
        /\ missed' \subseteq Teams /\ owed' \subseteq Agents \X Agents
    BY <2>1, EmitQueue
  <2> QED
    BY <1>4, <2>2 DEF Stop, TypeOK, Rooted, OneNewest, regens, files
<1>5. ASSUME NEW a \in Agents, Exit(a) \/ ExitRemove(a) PROVE TypeOK' /\ Rooted' /\ OneNewest'
  <2>1. CASE Exit(a)
    BY <2>1, SMTT(30) DEF Exit, Kept, TypeOK, Rooted, OneNewest, regens, files
  <2>2. CASE ExitRemove(a)
    BY <2>2, SMTT(30) DEF ExitRemove, TypeOK, Rooted, OneNewest, regens, files
  <2> QED
    BY <1>5, <2>1, <2>2
<1>6. ASSUME NEW a \in Agents, NEW t \in Teams, Assign(a, t) PROVE TypeOK' /\ Rooted' /\ OneNewest'
    BY <1>6 DEF Assign, Change, Kept, TypeOK, Rooted, OneNewest, regens, files
<1>7. ASSUME NEW t \in Teams, CreateTeam(t) \/ DeleteTeam(t) PROVE TypeOK' /\ Rooted' /\ OneNewest'
  <2>1. CASE CreateTeam(t)
    BY <2>1 DEF CreateTeam, Change, TypeOK, Rooted, OneNewest, regens, files
  <2>2. CASE DeleteTeam(t)
    <3>1. [a \in Agents |-> None] \in Rosters
      BY DEF Rosters
    <3>2. role' \in [Teams -> Rosters]
      BY <2>2, <3>1 DEF DeleteTeam, TypeOK
    <3> QED
      BY <2>2, <3>2 DEF DeleteTeam, Change, TypeOK, Rooted, OneNewest, regens, files
  <2> QED
    BY <1>7, <2>1, <2>2
<1>8. ASSUME NEW a \in Agents, NEW t \in Teams, NEW r \in Roles, JoinTeam(a, t, r)
      PROVE  TypeOK' /\ Rooted' /\ OneNewest'
  <2>1. /\ queue' \in Seq(Events) /\ Len(queue') <= Cap
        /\ missed' \subseteq Teams /\ owed' \subseteq Agents \X Agents
    BY <1>8, EmitQueue DEF JoinTeam
  <2>2. role' \in [Teams -> Rosters]
    BY <1>8 DEF JoinTeam, TypeOK, Rosters
  <2> QED
    BY <1>8, <2>1, <2>2 DEF JoinTeam, Change, TypeOK, Rooted, OneNewest, regens, files
<1>9. ASSUME NEW a \in Agents, NEW t \in Teams, LeaveTeam(a, t) PROVE TypeOK' /\ Rooted' /\ OneNewest'
  <2>1. /\ queue' \in Seq(Events) /\ Len(queue') <= Cap
        /\ missed' \subseteq Teams /\ owed' \subseteq Agents \X Agents
    BY <1>9, EmitQueue DEF LeaveTeam
  <2>2. role' \in [Teams -> Rosters]
    BY <1>9 DEF LeaveTeam, TypeOK, Rosters
  <2> QED
    BY <1>9, <2>1, <2>2 DEF LeaveTeam, Change, TypeOK, Rooted, OneNewest, regens, files
<1>10. ASSUME TakeEvent PROVE TypeOK' /\ Rooted' /\ OneNewest'
  <2>1. /\ Head(queue) \in Events /\ Tail(queue) \in Seq(Events)
        /\ Len(Tail(queue)) <= Len(queue) /\ Len(Tail(queue)) \in Nat
        /\ Len(queue) \in Nat
    BY <1>10, InTail, LenProperties DEF TakeEvent, TypeOK
  <2>2. Head(queue).team \in Teams
    BY <2>1 DEF Events
  <2>3. queue' \in Seq(Events) /\ Len(queue') <= Cap
    BY <1>10, <2>1 DEF TakeEvent, TypeOK
  <2> QED
    BY <1>10, <2>2, <2>3 DEF TakeEvent, TypeOK, Rooted, OneNewest, regens, registry, files
<1>11. ASSUME NEW a \in Agents, ScheduleBriefingRegen(a) PROVE TypeOK' /\ Rooted' /\ OneNewest'
    BY <1>11 DEF ScheduleBriefingRegen, TypeOK, Rooted, OneNewest, regens, registry, files
<1>12. ASSUME ReadMembers PROVE TypeOK' /\ Rooted' /\ OneNewest'
    BY <1>12 DEF ReadMembers, Idle, TypeOK, Rooted, OneNewest, regens, registry, files
<1>13. ASSUME WriteCanon \/ WriteCanonFails PROVE TypeOK' /\ Rooted' /\ OneNewest'
  <2>1. Idle.stage = "idle" /\ Idle \in [stage : {"idle", "fan", "write"},
             team : Teams \cup {None}, targets : SUBSET Agents, snap : Rosters \cup {None}]
    BY DEF Idle
  <2>2. CASE WriteCanon
    <3>1. loop.team \in Teams /\ loop.snap \in Rosters \cup {None}
      BY <2>2 DEF WriteCanon, Rooted, TypeOK
    <3> QED
      BY <2>1, <2>2, <3>1 DEF WriteCanon, TypeOK, Rooted, OneNewest, regens, registry
  <2>3. CASE WriteCanonFails
    <3>1. loop.team \in Teams
      BY <2>3 DEF WriteCanonFails, Rooted
    <3> QED
      BY <2>1, <2>3, <3>1 DEF WriteCanonFails, TypeOK, Rooted, OneNewest, regens, registry, files
  <2> QED
    BY <1>13, <2>2, <2>3
<1>14. ASSUME NEW a \in Agents, TimerFires(a) PROVE TypeOK' /\ Rooted' /\ OneNewest'
  <2>1. ReadPeers(a, timer[a])
    BY <1>14 DEF TimerFires
  <2>2. /\ writing' \subseteq Writes /\ newest' \subseteq writing' /\ OneNewest'
        /\ behind' \subseteq Agents
    BY <2>1, ReadPeersStep DEF TypeOK
  <2> QED
    BY <1>14, <2>2 DEF TimerFires, TypeOK, Rooted, registry, files
<1>15. ASSUME NEW w \in writing, WriteBriefing(w) \/ WriteBriefingFails(w)
       PROVE  TypeOK' /\ Rooted' /\ OneNewest'
  <2>1. w.to \in Agents /\ w.peers \subseteq Agents
    BY DEF TypeOK, Writes
  <2> QED
    BY <1>15, <2>1 DEF WriteBriefing, WriteBriefingFails, TypeOK, Rooted, OneNewest, regens, registry, files
<1>16. ASSUME UNCHANGED vars PROVE TypeOK' /\ Rooted' /\ OneNewest'
    BY <1>16 DEF vars, registry, files, TypeOK, Rooted, OneNewest, regens
<1> QED
    BY <1>1, <1>2, <1>3, <1>4, <1>5, <1>6, <1>7, <1>8, <1>9, <1>10, <1>11, <1>12,
       <1>13, <1>14, <1>15, <1>16 DEF Next

-----------------------------------------------------------------------------
\* Steps that touch neither a team nor its canon file nor the channel.
LEMMA CanonKept ==
    ASSUME CanonCurrent, UNCHANGED <<teams, role, queue, loop, canon, missed>>
    PROVE  CanonCurrent'
BY DEF CanonCurrent, Queued, OnWay, OnFile

\* Every step keeps the canon file current, or what will make it so.
LEMMA CanonStep == IInv /\ [Next]_vars => CanonCurrent'
<1> SUFFICES ASSUME IInv, [Next]_vars PROVE CanonCurrent'
    OBVIOUS
<1> USE DEF IInv
<1>1. ASSUME NEW a \in Agents, NEW t \in Teams, SpawnBrief(a, t) \/ Assign(a, t)
      PROVE  CanonCurrent'
    BY <1>1, CanonKept DEF SpawnBrief, Assign, files
<1>2. ASSUME NEW a \in Agents,
             SpawnRegister(a) \/ Exit(a) \/ ExitRemove(a) \/ TimerFires(a)
      PROVE  CanonCurrent'
    BY <1>2, CanonKept DEF SpawnRegister, Exit, ExitRemove, TimerFires, registry, files
<1>3. ASSUME NEW a \in Agents, SpawnEmit(a) \/ Stop(a) PROVE CanonCurrent'
  <2>1. UNCHANGED <<teams, role, loop, canon>>
    BY <1>3 DEF SpawnEmit, Stop, files
  <2>2. PICK t \in Teams, out \in {{}, {a}} : Emit(a, t, out)
    BY <1>3 DEF SpawnEmit, Stop, Rooted
  <2> QED
    BY <2>1, <2>2, EmitCanon DEF TypeOK
<1>4. ASSUME NEW t \in Teams, CreateTeam(t) PROVE CanonCurrent'
    BY <1>4 DEF CreateTeam, CanonCurrent, Queued, OnWay, OnFile, files
<1>5. ASSUME NEW t \in Teams, DeleteTeam(t) PROVE CanonCurrent'
  <2>1. \A u \in Teams : u # t => role'[u] = role[u]
    BY <1>5 DEF DeleteTeam, TypeOK
  <2> QED
    BY <1>5, <2>1 DEF DeleteTeam, CanonCurrent, Queued, OnWay, OnFile, files, TypeOK
<1>6. ASSUME NEW a \in Agents, NEW t \in Teams, NEW r \in Roles, JoinTeam(a, t, r)
      PROVE  CanonCurrent'
  <2>1. /\ Emit(a, t, {}) /\ UNCHANGED <<loop, canon>>
        /\ teams' = teams \cup {t} /\ teams' \subseteq Teams
        /\ \A u \in Teams : u # t => role'[u] = role[u]
    BY <1>6 DEF JoinTeam, files, TypeOK
  <2>2. role'[t][a] = r /\ role[t][a] # r
    BY <1>6 DEF JoinTeam, TypeOK, Rosters
  <2> QED
    BY <2>1, <2>2, EmitCanon
<1>7. ASSUME NEW a \in Agents, NEW t \in Teams, LeaveTeam(a, t) PROVE CanonCurrent'
  <2>1. /\ Emit(a, t, {}) /\ UNCHANGED <<loop, canon, teams>>
        /\ \A u \in Teams : u # t => role'[u] = role[u]
    BY <1>7 DEF LeaveTeam, files, TypeOK
  <2> QED
    BY <2>1, EmitCanon DEF TypeOK
<1>8. ASSUME TakeEvent PROVE CanonCurrent'
  <2>1. ToSet(queue) \subseteq ToSet(Tail(queue)) \cup {Head(queue)}
    BY <1>8, InTail DEF TakeEvent, TypeOK
  <2>2. /\ queue' = Tail(queue) /\ loop'.stage = "fan" /\ loop'.team = Head(queue).team
        /\ loop.stage = "idle" /\ UNCHANGED <<teams, role, canon, missed>>
    BY <1>8 DEF TakeEvent, registry, files
  <2>3. ASSUME NEW u, Queued(u) PROVE Queued(u)' \/ OnWay(u)'
    BY <2>1, <2>2, <2>3 DEF Queued, OnWay
  <2>4. ASSUME NEW u, OnFile(u) PROVE OnFile(u)'
    BY <2>2, <2>4 DEF OnFile
  <2>5. ASSUME NEW u PROVE ~OnWay(u)
    BY <2>2 DEF OnWay
  <2> QED
    BY <2>2, <2>3, <2>4, <2>5 DEF CanonCurrent
<1>9. ASSUME NEW a \in Agents, ScheduleBriefingRegen(a) PROVE CanonCurrent'
  <2>1. /\ loop'.stage = loop.stage /\ loop'.team = loop.team /\ loop'.snap = loop.snap
        /\ UNCHANGED <<teams, role, queue, canon, missed>>
    BY <1>9 DEF ScheduleBriefingRegen, TypeOK, registry, files
  <2> QED
    BY <2>1 DEF CanonCurrent, Queued, OnWay, OnFile
<1>10. ASSUME ReadMembers PROVE CanonCurrent'
  <2>1. loop.stage = "fan" /\ UNCHANGED <<teams, role, queue, canon, missed>>
    BY <1>10 DEF ReadMembers, registry, files
  <2>2. CASE loop.team \in teams
    <3>1. /\ loop'.stage = "write" /\ loop'.team = loop.team
          /\ loop'.snap = role[loop.team]
      BY <1>10, <2>2 DEF ReadMembers, TypeOK
    <3> QED
      BY <2>1, <3>1 DEF CanonCurrent, Queued, OnWay, OnFile
  <2>3. CASE loop.team \notin teams
    <3>1. loop'.stage = "idle"
      BY <1>10, <2>3 DEF ReadMembers, Idle
    <3> QED
      BY <2>1, <2>3, <3>1 DEF CanonCurrent, Queued, OnWay, OnFile
  <2> QED
    BY <2>2, <2>3
<1>11. ASSUME WriteCanon PROVE CanonCurrent'
  <2>1. /\ loop.stage = "write" /\ loop'.stage = "idle" /\ loop.team \in Teams
        /\ UNCHANGED <<teams, role, queue, missed>>
        /\ canon' = [canon EXCEPT ![loop.team] = loop.snap]
    BY <1>11 DEF WriteCanon, Idle, Rooted, registry
  <2>2. canon'[loop.team] = loop.snap
        /\ \A u \in Teams : u # loop.team => canon'[u] = canon[u]
    BY <2>1 DEF TypeOK
  <2> QED
    BY <2>1, <2>2 DEF CanonCurrent, Queued, OnWay, OnFile, TypeOK
<1>12. ASSUME WriteCanonFails PROVE CanonCurrent'
  <2>1. /\ loop.stage = "write" /\ loop'.stage = "idle"
        /\ UNCHANGED <<teams, role, queue, canon>>
        /\ missed' = IF Queued(loop.team) THEN missed ELSE missed \cup {loop.team}
    BY <1>12 DEF WriteCanonFails, Idle, registry, files
  <2> QED
    BY <2>1 DEF CanonCurrent, Queued, OnWay, OnFile
<1>13. ASSUME NEW w \in writing, WriteBriefing(w) \/ WriteBriefingFails(w)
       PROVE  CanonCurrent'
    BY <1>13, CanonKept DEF WriteBriefing, WriteBriefingFails, registry, files
<1>14. ASSUME UNCHANGED vars PROVE CanonCurrent'
    BY <1>14, CanonKept DEF vars, registry, files
<1> QED
    BY <1>1, <1>2, <1>3, <1>4, <1>5, <1>6, <1>7, <1>8, <1>9, <1>10, <1>11, <1>12,
       <1>13, <1>14 DEF Next

-----------------------------------------------------------------------------
\* Steps by which the two sessions stay what they are, and no piece of work
\* gets lost.
LEMMA OwedKept ==
    ASSUME Debts, owed' \subseteq owed,
           \A p \in owed' : /\ st'[p[1]] = st[p[1]] /\ st'[p[2]] = st[p[2]]
                            /\ home'[p[1]] = home[p[1]] /\ home'[p[2]] = home[p[2]]
                            /\ Covered(p)' /\ Settled(p)'
    PROVE  Debts'
BY DEF Debts, Owing

\* A regeneration of a's briefing leaves what was last read for others alone.
LEMMA ReadPeersOthers ==
    ASSUME TypeOK, OneNewest, NEW a \in Agents, NEW t, ReadPeers(a, t), brief' = brief,
           NEW c \in Agents, c # a, NEW b
    PROVE  LastReadLists(c, b)' = LastReadLists(c, b)
<1>1. PICK w \in newest' : w.to = a /\ newest' = {v \in newest : v.to # a} \cup {w}
    BY ReadPeersStep
<1>2. behind' = behind \ {a}
    BY ReadPeersStep
<1>3. NewestPending(c)' = NewestPending(c)
    BY <1>1 DEF NewestPending
<1>4. (\E v \in newest' : v.to = c /\ b \in v.peers)
         = (\E v \in newest : v.to = c /\ b \in v.peers)
    BY <1>1
<1> QED
    BY <1>2, <1>3, <1>4 DEF LastReadLists

\* The end of a regeneration keeps what was last read in sight, or the agent
\* falls behind.
LEMMA WriteLast ==
    ASSUME TypeOK, OneNewest, NEW w \in writing, WriteBriefing(w) \/ WriteBriefingFails(w),
           NEW c \in Agents, NEW b, LastReadLists(c, b)
    PROVE  LastReadLists(c, b)'
<1>1. newest' = newest \ {w} /\ w.to \in Agents
    BY DEF WriteBriefing, WriteBriefingFails, TypeOK, Writes
<1>2. CASE c # w.to
  <2>1. NewestPending(c)' = NewestPending(c)
    BY <1>1, <1>2 DEF NewestPending
  <2>2. (\E v \in newest' : v.to = c /\ b \in v.peers)
           = (\E v \in newest : v.to = c /\ b \in v.peers)
    BY <1>1, <1>2
  <2>3. brief'[c] = brief[c] /\ (c \in behind' <=> c \in behind)
    BY <1>2 DEF WriteBriefing, WriteBriefingFails, files, TypeOK
  <2> QED
    BY <2>1, <2>2, <2>3 DEF LastReadLists
<1>3. CASE c = w.to /\ w \in newest
  <2>1. NewestPending(c) /\ ~NewestPending(c)'
    BY <1>1, <1>3 DEF NewestPending, OneNewest
  <2>2. b \in w.peers
    BY <1>3, <2>1 DEF LastReadLists, OneNewest
  <2>3. b \in brief'[c] \/ c \in behind'
    BY <1>3, <2>2 DEF WriteBriefing, WriteBriefingFails, TypeOK
  <2> QED
    BY <2>1, <2>3 DEF LastReadLists
<1>4. CASE c = w.to /\ w \notin newest
  <2>1. newest' = newest /\ NewestPending(c)' = NewestPending(c)
    BY <1>1, <1>4 DEF NewestPending
  <2>2. CASE NewestPending(c)
    BY <2>1, <2>2 DEF LastReadLists
  <2>3. CASE ~NewestPending(c) /\ WriteBriefing(w)
    <3>1. c \in behind'
      BY <1>4, <2>3 DEF WriteBriefing
    <3> QED
      BY <2>1, <2>3, <3>1 DEF LastReadLists
  <2>4. CASE ~NewestPending(c) /\ WriteBriefingFails(w)
    <3>1. behind' = behind /\ brief' = brief
      BY <1>4, <2>4 DEF WriteBriefingFails, files
    <3> QED
      BY <2>1, <2>4, <3>1 DEF LastReadLists
  <2> QED
    BY <2>2, <2>3, <2>4
<1> QED
    BY <1>2, <1>3, <1>4

\* Every step keeps what is owed pending.
LEMMA OwedStep == IInv /\ [Next]_vars => Debts'
<1> SUFFICES ASSUME IInv, [Next]_vars PROVE Debts'
    OBVIOUS
<1> USE DEF IInv
<1>a. \A p \in owed : p[1] \in Agents /\ p[2] \in Agents /\ Owing(p)
    BY DEF TypeOK, Debts
<1>b. \A p \in owed : Covered(p) /\ Settled(p)
    BY DEF Debts
<1>c. ASSUME UNCHANGED <<newest, behind, brief>>
      PROVE  \A p : LastReadLists(p[1], p[2])' = LastReadLists(p[1], p[2])
    BY <1>c DEF LastReadLists, NewestPending
<1>1. ASSUME NEW a \in Agents, NEW t \in Teams, SpawnBrief(a, t)
      PROVE  Debts'
  <2>1. \A p \in owed : p[1] # a /\ p[2] # a
    BY <1>1, <1>a DEF SpawnBrief, Owing, Rooted
  <2>2. /\ UNCHANGED <<st, queue, loop, timer, brief, owed>> /\ ReadPeers(a, t)
        /\ \A b \in Agents : b # a => home'[b] = home[b]
    BY <1>1 DEF SpawnBrief, TypeOK, files
  <2>3. \A p \in owed : LastReadLists(p[1], p[2])' = LastReadLists(p[1], p[2])
    BY <1>a, <2>1, <2>2, ReadPeersOthers
  <2>4. \A p \in owed : Covered(p)' /\ Settled(p)'
    BY <1>a, <1>b, <2>1, <2>2, <2>3
    DEF Covered, Settled, Diverted, Stale, Announced, FannedOut
  <2> QED
    BY <1>a, <2>1, <2>2, <2>4, OwedKept
<1>2. ASSUME NEW a \in Agents, SpawnRegister(a) PROVE Debts'
  <2>1. \A p \in owed : p[1] # a /\ p[2] # a
    BY <1>2, <1>a DEF SpawnRegister, Owing, Rooted, regens, files
  <2>2. /\ UNCHANGED <<home, queue, loop, timer, newest, behind, brief, owed>>
        /\ \A b \in Agents : b # a => st'[b] = st[b]
    BY <1>2 DEF SpawnRegister, TypeOK, regens, files
  <2>3. \A p \in owed : Covered(p)' /\ Settled(p)'
    BY <1>a, <1>b, <1>c, <2>2
    DEF Covered, Settled, Diverted, Stale, Announced, FannedOut
  <2> QED
    BY <1>a, <2>1, <2>2, <2>3, OwedKept
<1>3. ASSUME NEW a \in Agents, SpawnEmit(a) PROVE Debts'
  <2>1. /\ spec[a] \in Teams /\ Emit(a, spec[a], {})
        /\ UNCHANGED <<loop, timer, newest, behind, brief, st, home>>
    BY <1>3 DEF SpawnEmit, Rooted, regens, files
  <2> QED
    BY <2>1, EmitOwed
<1>4. ASSUME NEW a \in Agents, Stop(a) PROVE Debts'
  <2>1. /\ home[a] \in Teams /\ Emit(a, home[a], {a})
        /\ UNCHANGED <<loop, timer, newest, behind, brief>>
        /\ \A b \in Agents \ {a} : st'[b] = st[b] /\ home'[b] = home[b]
    BY <1>4 DEF Stop, Rooted, TypeOK, regens, files
  <2> QED
    BY <2>1, EmitOwed
<1>5. ASSUME NEW a \in Agents, Exit(a) \/ \E t \in Teams : Assign(a, t)
      PROVE  Debts'
  <2>1. /\ UNCHANGED <<queue, loop, timer, newest, behind, brief>> /\ owed' = Kept({a})
        /\ \A b \in Agents : b # a => st'[b] = st[b] /\ home'[b] = home[b]
    BY <1>5 DEF Exit, Assign, TypeOK, regens, files
  <2>2. \A p \in owed' : p \in owed /\ p[1] # a /\ p[2] # a
    BY <2>1 DEF Kept
  <2>3. \A p \in owed' : Covered(p)' /\ Settled(p)'
    <3> SUFFICES ASSUME NEW p \in owed' PROVE Covered(p)' /\ Settled(p)'
      OBVIOUS
    <3>1. home'[p[1]] = home[p[1]] /\ Covered(p) /\ Settled(p)
      BY <1>a, <1>b, <2>1, <2>2
    <3>2. Announced(p[1])' = Announced(p[1]) /\ FannedOut(p[1])' = FannedOut(p[1])
      BY <2>1, <3>1 DEF Announced, FannedOut
    <3> QED
      BY <1>c, <2>1, <3>1, <3>2 DEF Covered, Settled, Diverted, Stale
  <2> QED
    BY <1>a, <2>1, <2>2, <2>3, OwedKept
<1>6. ASSUME NEW a \in Agents, ExitRemove(a) PROVE Debts'
  <2>1. \A p \in owed : p[1] # a /\ p[2] # a
    BY <1>6, <1>a DEF ExitRemove, Owing, regens, files
  <2>2. /\ UNCHANGED <<home, queue, loop, timer, newest, behind, brief, owed>>
        /\ \A b \in Agents : b # a => st'[b] = st[b]
    BY <1>6 DEF ExitRemove, TypeOK, regens, files
  <2>3. \A p \in owed : Covered(p)' /\ Settled(p)'
    BY <1>a, <1>b, <1>c, <2>2
    DEF Covered, Settled, Diverted, Stale, Announced, FannedOut
  <2> QED
    BY <1>a, <2>1, <2>2, <2>3, OwedKept
<1>7. ASSUME NEW t \in Teams, CreateTeam(t) \/ DeleteTeam(t)
      PROVE  Debts'
  <2>1. UNCHANGED <<st, home, queue, loop, timer, newest, behind, brief, owed>>
    BY <1>7 DEF CreateTeam, DeleteTeam, regens, files
  <2>2. \A p \in owed : Covered(p)' /\ Settled(p)'
    BY <1>a, <1>b, <1>c, <2>1
    DEF Covered, Settled, Diverted, Stale, Announced, FannedOut
  <2> QED
    BY <2>1, <2>2, OwedKept
<1>8. ASSUME NEW a \in Agents, NEW t \in Teams,
             LeaveTeam(a, t) \/ \E r \in Roles : JoinTeam(a, t, r)
      PROVE  Debts'
  <2>1. Emit(a, t, {}) /\ UNCHANGED <<loop, timer, newest, behind, brief, st, home>>
    BY <1>8 DEF LeaveTeam, JoinTeam, regens, files
  <2> QED
    BY <2>1, EmitOwed
<1>9. ASSUME TakeEvent PROVE Debts'
  <2>1. ToSet(queue) \subseteq ToSet(Tail(queue)) \cup {Head(queue)}
    BY <1>9, InTail DEF TakeEvent, TypeOK, regens, files
  <2>2. /\ queue' = Tail(queue) /\ loop.stage = "idle"
        /\ loop'.stage = "fan" /\ loop'.team = Head(queue).team
        /\ loop'.targets = {a \in Agents \ {Head(queue).agent} :
                               st[a] = "live" /\ home[a] = Head(queue).team}
        /\ UNCHANGED <<st, home, timer, newest, behind, brief, owed>>
    BY <1>9 DEF TakeEvent, registry, regens, files
  <2>3. ASSUME NEW p \in owed, Announced(p[1]) PROVE Announced(p[1])' \/ FannedOut(p[1])'
    BY <1>a, <2>1, <2>2, <2>3 DEF Announced, FannedOut, Owing
  <2>4. \A p \in owed : Covered(p)' /\ Settled(p)'
    BY <1>a, <1>b, <1>c, <2>2, <2>3
    DEF Covered, Settled, Diverted, Stale, FannedOut
  <2> QED
    BY <2>2, <2>4, OwedKept
<1>10. ASSUME NEW a \in Agents, ScheduleBriefingRegen(a) PROVE Debts'
  <2>1. /\ loop.stage = "fan" /\ loop'.stage = loop.stage /\ loop'.team = loop.team
        /\ loop'.targets = loop.targets \ {a}
        /\ UNCHANGED <<st, home, queue, newest, behind, brief, owed>>
        /\ timer'[a] = loop.team /\ \A b \in Agents : b # a => timer'[b] = timer[b]
    BY <1>10 DEF ScheduleBriefingRegen, TypeOK, registry, regens, files
  <2>2. ASSUME NEW p \in owed PROVE Covered(p)' /\ Settled(p)'
    <3>1. Announced(p[1])' = Announced(p[1])
      BY <2>1 DEF Announced
    <3>2. LastReadLists(p[1], p[2])' = LastReadLists(p[1], p[2])
      BY <2>1 DEF LastReadLists, NewestPending
    <3>3. Covered(p) /\ Settled(p)
      BY <1>b
    <3>4. CASE p[1] # a
      BY <1>a, <2>1, <3>1, <3>2, <3>3, <3>4
      DEF Covered, Settled, Diverted, Stale, FannedOut
    <3>5. CASE p[1] = a /\ loop.team = home[a]
      BY <2>1, <3>5 DEF Covered, Settled, Diverted, Stale
    <3>6. CASE p[1] = a /\ loop.team # home[a]
      <4>1. Announced(p[1])'
        BY <1>10, <3>1, <3>3, <3>6 DEF ScheduleBriefingRegen, Settled, Diverted
      <4> QED
        BY <4>1 DEF Covered, Settled
    <3> QED
      BY <3>4, <3>5, <3>6
  <2> QED
    BY <2>1, <2>2, OwedKept
<1>11. ASSUME ReadMembers PROVE Debts'
  <2>1. /\ loop.stage = "fan" /\ loop.targets = {} /\ loop'.stage # "fan"
        /\ UNCHANGED <<st, home, queue, timer, newest, behind, brief, owed>>
    BY <1>11 DEF ReadMembers, Idle, TypeOK, registry, regens, files
  <2>2. \A p \in owed : Covered(p)' /\ Settled(p)'
    BY <1>b, <1>c, <2>1 DEF Covered, Settled, Diverted, Stale, Announced, FannedOut
  <2> QED
    BY <2>1, <2>2, OwedKept
<1>12. ASSUME WriteCanon \/ WriteCanonFails PROVE Debts'
  <2>1. /\ loop.stage = "write" /\ loop'.stage # "fan"
        /\ UNCHANGED <<st, home, queue, timer, newest, behind, brief, owed>>
    BY <1>12 DEF WriteCanon, WriteCanonFails, Idle, registry, regens, files
  <2>2. \A p \in owed : Covered(p)' /\ Settled(p)'
    BY <1>b, <1>c, <2>1 DEF Covered, Settled, Diverted, Stale, Announced, FannedOut
  <2> QED
    BY <2>1, <2>2, OwedKept
<1>13. ASSUME NEW a \in Agents, TimerFires(a) PROVE Debts'
  <2>1. /\ UNCHANGED <<st, home, queue, loop, brief, owed>> /\ ReadPeers(a, timer[a])
        /\ timer'[a] = None /\ \A b \in Agents : b # a => timer'[b] = timer[b]
    BY <1>13 DEF TimerFires, TypeOK, registry, files
  <2>2. ASSUME NEW p \in owed PROVE Covered(p)' /\ Settled(p)'
    <3>1. Announced(p[1])' = Announced(p[1]) /\ FannedOut(p[1])' = FannedOut(p[1])
      BY <2>1 DEF Announced, FannedOut
    <3>2. Covered(p) /\ Settled(p) /\ Owing(p) /\ p[1] \in Agents
      BY <1>a, <1>b
    <3>3. CASE p[1] # a
      <4>1. LastReadLists(p[1], p[2])' = LastReadLists(p[1], p[2])
        BY <2>1, <3>2, <3>3, ReadPeersOthers
      <4> QED
        BY <2>1, <3>1, <3>2, <3>3, <4>1 DEF Covered, Settled, Diverted, Stale
    <3>4. CASE p[1] = a /\ timer[a] = home[a]
      <4>1. p[2] \in Peers(a, timer[a])
        BY <1>a, <3>2, <3>4 DEF Owing, Peers
      <4>2. PICK w \in newest' : w.to = a /\ w.peers = Peers(a, timer[a])
        BY <2>1, ReadPeersStep
      <4>3. LastReadLists(p[1], p[2])'
        BY <3>4, <4>1, <4>2 DEF LastReadLists, NewestPending
      <4> QED
        BY <2>1, <3>1, <3>2, <3>4, <4>3 DEF Covered, Settled, Diverted, Stale
    <3>5. CASE p[1] = a /\ timer[a] # home[a]
      <4>1. Announced(p[1])' \/ FannedOut(p[1])'
        BY <1>13, <3>1, <3>2, <3>5 DEF TimerFires, Settled, Stale
      <4> QED
        BY <2>1, <3>1, <3>2, <3>5, <4>1 DEF Covered, Settled, Diverted, Stale
    <3> QED
      BY <3>3, <3>4, <3>5
  <2> QED
    BY <2>1, <2>2, OwedKept
<1>14. ASSUME NEW w \in writing, WriteBriefing(w) \/ WriteBriefingFails(w) PROVE Debts'
  <2>1. UNCHANGED <<st, home, queue, loop, timer, owed>>
    BY <1>14 DEF WriteBriefing, WriteBriefingFails, registry
  <2>2. \A p \in owed : LastReadLists(p[1], p[2]) => LastReadLists(p[1], p[2])'
    BY <1>a, <1>14, WriteLast
  <2>3. \A p \in owed : Covered(p)' /\ Settled(p)'
    BY <1>b, <2>1, <2>2 DEF Covered, Settled, Diverted, Stale, Announced, FannedOut
  <2> QED
    BY <2>1, <2>3, OwedKept
<1>15. ASSUME UNCHANGED vars PROVE Debts'
  <2>1. UNCHANGED <<st, home, queue, loop, timer, newest, behind, brief, owed>>
    BY <1>15 DEF vars, registry, regens, files
  <2>2. \A p \in owed : Covered(p)' /\ Settled(p)'
    BY <1>b, <2>1 DEF Covered, Settled, Diverted, Stale, Announced, FannedOut, LastReadLists,
                      NewestPending
  <2> QED
    BY <2>1, <2>2, OwedKept
<1> QED
    BY <1>1, <1>2, <1>3, <1>4, <1>5, <1>6, <1>7, <1>8, <1>9, <1>10, <1>11, <1>12,
       <1>13, <1>14, <1>15 DEF Next

-----------------------------------------------------------------------------
\* The invariant holds in every reachable state.
LEMMA IInvHolds == Spec => []IInv
<1>1. IInv /\ [Next]_vars => IInv'
    BY TypeStep, CanonStep, OwedStep DEF IInv
<1> QED
    BY InitIInv, <1>1, PTL DEF Spec

(***************************************************************************)
(* The channel of team events never holds more than its capacity and every *)
(* variable keeps its type.                                                *)
(***************************************************************************)
THEOREM TypesKept == Spec => []TypeOK
BY IInvHolds, PTL DEF IInv

(***************************************************************************)
(* Runtime's materializeTeamCanon: the canon file says what the            *)
(* memberships say, unless an event of the team, or the goroutine that has *)
(* taken one, is still going to write it; only changes without an event    *)
(* are excepted.                                                           *)
(***************************************************************************)
THEOREM CanonCatchesUp == Spec => []CanonCurrent
BY IInvHolds, PTL DEF IInv

(***************************************************************************)
(* What emitTeamEvent promises of the briefings: whoever an event in the   *)
(* channel was to tell of a peer has a regeneration ahead, or the last one *)
(* that read the peers has the peer, and so has the file once that one has *)
(* written, for any number of regenerations of a briefing at a time.  Only *)
(* an older one that writes after it, or a write that fails, loses it.     *)
(***************************************************************************)
THEOREM NobodyForgotten == Spec => []OwedIsPending
<1>1. IInv => OwedIsPending
    BY DEF IInv, Debts, Covered, OwedIsPending
<1> QED
    BY IInvHolds, <1>1, PTL
=============================================================================

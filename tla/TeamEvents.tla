----------------------------- MODULE TeamEvents -----------------------------
(***************************************************************************)
(* How the agents of a team learn of each other: the Runtime's teams and   *)
(* memberships, the bounded channel of team events, the fan-out goroutine  *)
(* that reads it, the debounced regeneration of the agents' briefings and  *)
(* the team's canon file.                                                  *)
(*                                                                         *)
(* Every operation on the registry is one critical section of Runtime.mu;  *)
(* the emission of an event is part of it, except in Spawn, which takes    *)
(* the mutex again to emit.  Files are written outside of it.  An agent is *)
(* spawned at most once (a bound: a name that is used again is the subject *)
(* of SessionRegistry).                                                    *)
(***************************************************************************)
EXTENDS Naturals, Sequences, SequencesExt

CONSTANTS
    Agents, Teams, Roles,
    Cap,          \* capacity of Runtime.teamEvents (64 in the code)
    MaxChanges,   \* a bound on operations other than spawn, stop and exit
    Runs,         \* regenerations of one briefing at a time: a bound
    None

ASSUME TeamAssumption ==
    /\ Cap \in Nat \ {0} /\ MaxChanges \in Nat
    /\ None \notin Roles \cup Teams

Rosters == [Agents -> Roles \cup {None}]
Events == [agent : Agents, team : Teams]
Writes == [to : Agents, run : Runs, peers : SUBSET Agents]

VARIABLES
    sp,       \* [Agents -> how far Runtime.Spawn is]
    st,       \* [Agents -> Runtime.info: absent, live, exited, removed]
    home,     \* [Agents -> SessionInfo.Team]
    spec,     \* [Agents -> SpawnSpec.Team while Spawn runs, then None]
    teams,    \* keys of Runtime.teams
    role,     \* [Teams -> Rosters]: Runtime.memberships
    queue,    \* Runtime.teamEvents
    loop,     \* fanOutTeamEvent: stage, team, targets left, members read
    timer,    \* [Agents -> the team a pending regeneration is for, or None]
    writing,  \* briefings whose peers were read and that are not yet written
    brief,    \* [Agents -> peers listed in the agent's briefing file]
    canon,    \* [Teams -> members listed in the canon file, or None]
    missed,   \* history: teams with a change no queued event will cover
    owed,     \* history: <<a, b>>: a was to be told of b, and both are still there
    newest,   \* history: the writes whose peers were the last to be read for a
    behind,   \* history: agents whose file will not be what was read last for them
    changes

registry == <<sp, st, home, spec, teams, role, changes>>
files == <<brief, canon>>
regens == <<writing, newest, behind>>
vars == <<registry, queue, loop, timer, regens, files, missed, owed>>

Idle == [stage |-> "idle", team |-> None, targets |-> {}, snap |-> None]

Init ==
    /\ sp = [a \in Agents |-> "idle"]
    /\ st = [a \in Agents |-> "absent"]
    /\ home = [a \in Agents |-> None]
    /\ spec = [a \in Agents |-> None]
    /\ teams = {}
    /\ role = [t \in Teams |-> [a \in Agents |-> None]]
    /\ queue = <<>>
    /\ loop = Idle
    /\ timer = [a \in Agents |-> None]
    /\ writing = {}
    /\ brief = [a \in Agents |-> {}]
    /\ canon = [t \in Teams |-> None]
    /\ missed = {}
    /\ owed = {} /\ newest = {} /\ behind = {}
    /\ changes = 0

Queued(t) == \E e \in ToSet(queue) : e.team = t

\* snapshotPeersForBriefing: exited sessions stay in Runtime.info.
Peers(a, t) == {b \in Agents \ {a} : st[b] \in {"live", "exited"} /\ home[b] = t}

\* The pairs of live sessions of t, without those in out, that an event of q
\* is going to tell of each other: it is not a's own.
Due(t, q, out) ==
    {p \in (Agents \ out) \X (Agents \ out) :
        /\ p[1] # p[2]
        /\ \A i \in 1..2 : st[p[i]] = "live" /\ home[p[i]] = t
        /\ \E e \in ToSet(q) : e.team = t /\ e.agent # p[1]}
Kept(out) == {p \in owed : p[1] \notin out /\ p[2] \notin out}

\* Mutant: a channel without a bound.
BadEmit(a, t, out) ==
    /\ queue' = Append(queue, [agent |-> a, team |-> t])
    /\ missed' = missed \ {t}
    /\ owed' = Kept(out) \cup Due(t, queue', out)

\* emitTeamEvent: a non-blocking send, dropped when the channel is full.  The
\* agents in out are no longer in Runtime.info.
Emit(a, t, out) ==
    /\ queue' = IF Len(queue) < Cap THEN Append(queue, [agent |-> a, team |-> t])
                                    ELSE queue
    /\ missed' = IF Len(queue) < Cap THEN missed \ {t}
                 ELSE IF role'[t] # role[t] /\ ~Queued(t) THEN missed \cup {t}
                 ELSE missed
    /\ owed' = Kept(out) \cup Due(t, queue', out)

-----------------------------------------------------------------------------
(* Spawn: the briefing comes first, the registration and the event follow. *)

\* One more materializeAgentBriefing for a: the peers are read under the mutex.
\* Those that have read before and not yet written go on.
ReadPeers(a, t) ==
    LET free == {g \in Runs : \A v \in writing : v.to = a => v.run # g}
        w == [to |-> a, run |-> CHOOSE g \in free : TRUE, peers |-> Peers(a, t)]
    IN  /\ free # {}
        /\ writing' = writing \cup {w}
        /\ newest' = {v \in newest : v.to # a} \cup {w}
        /\ behind' = behind \ {a}

SpawnBrief(a, t) ==
    /\ sp[a] = "idle"
    /\ sp' = [sp EXCEPT ![a] = "briefing"]
    /\ home' = [home EXCEPT ![a] = t]
    /\ spec' = [spec EXCEPT ![a] = t]
    /\ ReadPeers(a, t)
    /\ UNCHANGED <<st, teams, role, changes, queue, loop, timer, files, missed, owed>>

SpawnRegister(a) ==
    /\ sp[a] = "briefing" /\ \A w \in writing : w.to # a
    /\ sp' = [sp EXCEPT ![a] = "registered"]
    /\ st' = [st EXCEPT ![a] = "live"]
    /\ UNCHANGED <<home, spec, teams, role, changes, queue, loop, timer, regens, files,
                   missed, owed>>

\* The event is for the team Spawn was asked for, wherever the session is now.
SpawnEmit(a) ==
    /\ sp[a] = "registered"
    /\ sp' = [sp EXCEPT ![a] = "done"]
    /\ spec' = [spec EXCEPT ![a] = None]
    /\ UNCHANGED <<st, home, teams, role, changes, loop, timer, regens, files>>
    /\ Emit(a, spec[a], {})

Stop(a) ==
    /\ st[a] \in {"live", "exited"}
    /\ st' = [st EXCEPT ![a] = "removed"]
    /\ UNCHANGED <<sp, home, spec, teams, role, changes, loop, timer, regens, files>>
    /\ Emit(a, home[a], {a})

\* markExited: nobody is told.  A clean exit removes the session later on.
Exit(a) ==
    /\ st[a] = "live"
    /\ st' = [st EXCEPT ![a] = "exited"]
    /\ owed' = Kept({a})
    /\ UNCHANGED <<sp, home, spec, teams, role, changes, queue, loop, timer, regens, files,
                   missed>>

ExitRemove(a) ==
    /\ st[a] = "exited"
    /\ st' = [st EXCEPT ![a] = "removed"]
    /\ UNCHANGED <<sp, home, spec, teams, role, changes, queue, loop, timer, regens, files,
                   missed, owed>>

-----------------------------------------------------------------------------
(* Teams and memberships                                                   *)

Change == changes < MaxChanges /\ changes' = changes + 1

\* Assign moves a session to another team; nobody is told.
Assign(a, t) ==
    /\ st[a] \in {"live", "exited"} /\ t # home[a] /\ Change
    /\ home' = [home EXCEPT ![a] = t]
    /\ owed' = Kept({a})
    /\ UNCHANGED <<sp, st, spec, teams, role, queue, loop, timer, regens, files, missed>>

\* A team starts without a canon file, or with the one of a deleted namesake.
CreateTeam(t) ==
    /\ t \notin teams /\ Change
    /\ teams' = teams \cup {t}
    /\ missed' = missed \cup {t}
    /\ UNCHANGED <<sp, st, home, spec, role, queue, loop, timer, regens, files, owed>>

\* Runtime.byName: a reserved name counts.
Known(a) == sp[a] # "idle" /\ st[a] # "removed"

\* The same role again changes nothing and is not announced.
JoinTeam(a, t, r) ==
    /\ Known(a) /\ role[t][a] # r /\ Change
    /\ teams' = teams \cup {t}
    /\ role' = [role EXCEPT ![t][a] = r]
    /\ UNCHANGED <<sp, st, home, spec, loop, timer, regens, files>>
    /\ Emit(a, t, {})

\* Mutant: a membership dropped without a word to anybody.
BadLeaveTeam(a, t) ==
    /\ role[t][a] # None /\ Change
    /\ role' = [role EXCEPT ![t][a] = None]
    /\ UNCHANGED <<sp, st, home, spec, teams, queue, loop, timer, regens, files, missed, owed>>

LeaveTeam(a, t) ==
    /\ role[t][a] # None /\ Change
    /\ role' = [role EXCEPT ![t][a] = None]
    /\ UNCHANGED <<sp, st, home, spec, teams, loop, timer, regens, files>>
    /\ Emit(a, t, {})

\* The memberships go with the team, the canon file stays.
DeleteTeam(t) ==
    /\ t \in teams /\ Change
    /\ \A a \in Agents : ~(st[a] = "live" /\ home[a] = t)
    /\ teams' = teams \ {t}
    /\ role' = [role EXCEPT ![t] = [a \in Agents |-> None]]
    /\ UNCHANGED <<sp, st, home, spec, queue, loop, timer, regens, files, missed, owed>>

-----------------------------------------------------------------------------
(* teamEventLoop and fanOutTeamEvent                                       *)

\* The sessions to tell are collected in one critical section.
TakeEvent ==
    LET e == Head(queue) IN
    /\ loop.stage = "idle" /\ queue # <<>>
    /\ queue' = Tail(queue)
    /\ loop' = [stage |-> "fan", team |-> e.team, snap |-> None,
                targets |-> {a \in Agents \ {e.agent} : st[a] = "live" /\ home[a] = e.team}]
    /\ UNCHANGED <<registry, timer, regens, files, missed, owed>>

\* Mutant: a timer that is pending already is kept, with what it was set for.
BadScheduleBriefingRegen(a) ==
    /\ loop.stage = "fan" /\ a \in loop.targets
    /\ loop' = [loop EXCEPT !.targets = @ \ {a}]
    /\ timer' = [timer EXCEPT ![a] = IF @ = None THEN loop.team ELSE @]
    /\ UNCHANGED <<registry, queue, regens, files, missed, owed>>

\* A pending timer of the session is stopped and replaced; a regeneration
\* that has begun is not waited for.
ScheduleBriefingRegen(a) ==
    /\ loop.stage = "fan" /\ a \in loop.targets
    /\ loop' = [loop EXCEPT !.targets = @ \ {a}]
    /\ timer' = [timer EXCEPT ![a] = loop.team]
    /\ UNCHANGED <<registry, queue, regens, files, missed, owed>>

\* materializeTeamCanon: the members are read under the mutex ...
ReadMembers ==
    /\ loop.stage = "fan" /\ loop.targets = {}
    /\ loop' = IF loop.team \in teams
                 THEN [loop EXCEPT !.stage = "write", !.snap = role[loop.team]]
                 ELSE Idle
    /\ UNCHANGED <<registry, queue, timer, regens, files, missed, owed>>

\* ... and written outside of it.
WriteCanon ==
    /\ loop.stage = "write"
    /\ canon' = [canon EXCEPT ![loop.team] = loop.snap]
    /\ loop' = Idle
    /\ UNCHANGED <<registry, queue, timer, regens, brief, missed, owed>>

WriteCanonFails ==
    /\ loop.stage = "write"
    /\ missed' = IF Queued(loop.team) THEN missed ELSE missed \cup {loop.team}
    /\ loop' = Idle
    /\ UNCHANGED <<registry, queue, timer, regens, files, owed>>

-----------------------------------------------------------------------------
(* The timer's function: the peers are read, then written.  Nothing orders *)
(* the writes of two regenerations of one briefing.                        *)

TimerFires(a) ==
    /\ timer[a] # None
    /\ timer' = [timer EXCEPT ![a] = None]
    /\ ReadPeers(a, timer[a])
    /\ UNCHANGED <<registry, queue, loop, files, missed, owed>>

\* A regeneration that read later than the others is pending for a.
NewestPending(a) == \E w \in newest : w.to = a

WriteBriefing(w) ==
    /\ w \in writing
    /\ writing' = writing \ {w}
    /\ newest' = newest \ {w}
    /\ brief' = [brief EXCEPT ![w.to] = w.peers]
    /\ behind' = IF NewestPending(w.to) THEN behind ELSE behind \cup {w.to}
    /\ UNCHANGED <<registry, queue, loop, timer, canon, missed, owed>>

\* The error is logged and the old file stays.
WriteBriefingFails(w) ==
    /\ w \in writing
    /\ writing' = writing \ {w}
    /\ newest' = newest \ {w}
    /\ behind' = IF w \in newest THEN behind \cup {w.to} ELSE behind
    /\ UNCHANGED <<registry, queue, loop, timer, files, missed, owed>>

-----------------------------------------------------------------------------
Next ==
    \/ \E a \in Agents :
          \/ SpawnRegister(a) \/ SpawnEmit(a) \/ Stop(a) \/ Exit(a) \/ ExitRemove(a)
          \/ ScheduleBriefingRegen(a) \/ TimerFires(a)
          \/ \E t \in Teams :
                \/ SpawnBrief(a, t) \/ Assign(a, t) \/ LeaveTeam(a, t)
                \/ \E r \in Roles : JoinTeam(a, t, r)
    \/ \E t \in Teams : CreateTeam(t) \/ DeleteTeam(t)
    \/ TakeEvent \/ ReadMembers \/ WriteCanon \/ WriteCanonFails
    \/ \E w \in writing : WriteBriefing(w) \/ WriteBriefingFails(w)

Spec == Init /\ [][Next]_vars

-----------------------------------------------------------------------------
\* Every variable has its type; the channel never holds more than Cap events.
TypeOK ==
    /\ sp \in [Agents -> {"idle", "briefing", "registered", "done"}]
    /\ st \in [Agents -> {"absent", "live", "exited", "removed"}]
    /\ home \in [Agents -> Teams \cup {None}]
    /\ spec \in [Agents -> Teams \cup {None}]
    /\ teams \subseteq Teams
    /\ role \in [Teams -> Rosters]
    /\ queue \in Seq(Events) /\ Len(queue) <= Cap
    /\ loop \in [stage : {"idle", "fan", "write"}, team : Teams \cup {None},
                 targets : SUBSET Agents, snap : Rosters \cup {None}]
    /\ timer \in [Agents -> Teams \cup {None}]
    /\ writing \subseteq Writes /\ newest \subseteq writing /\ behind \subseteq Agents
    /\ brief \in [Agents -> SUBSET Agents]
    /\ canon \in [Teams -> Rosters \cup {None}]
    /\ missed \subseteq Teams
    /\ owed \subseteq Agents \X Agents
    /\ changes \in 0..MaxChanges

(***************************************************************************)
(* The canon file of a team is what its memberships say, or it is going to *)
(* be: an event of the team is in the channel, or the goroutine has yet to *)
(* read the members, or has read what they still are.  Only a change that  *)
(* was not announced (the event dropped while the channel held none of the *)
(* team), a new team or a failed write leave it behind, until the next     *)
(* event of the team.  A write that is under way with an older roster must *)
(* never be the last word.                                                 *)
(***************************************************************************)
OnWay(t) ==
    /\ loop.team = t
    /\ loop.stage = "fan" \/ (loop.stage = "write" /\ loop.snap = role[t])
OnFile(t) == canon[t] = role[t] /\ ~(loop.stage = "write" /\ loop.team = t)
CanonCurrent ==
    \A t \in teams \ missed : Queued(t) \/ OnWay(t) \/ OnFile(t)

(***************************************************************************)
(* emitTeamEvent: "the next event will re-broadcast current state via      *)
(* regeneration so the briefing catches up".  Once an event of the team    *)
(* has been in the channel that tells a of b, and while both live in it,   *)
(* either a regeneration of a's briefing is still to begin, or the last    *)
(* one that read the peers read b, and b is in the file once it has        *)
(* written, however the events, timers and regenerations overlap.  What    *)
(* the code does not promise is that the last one to read is the last one  *)
(* to write: behind holds the agents whose file an older regeneration      *)
(* wrote after it (time.AfterFunc's functions are not serialised), or      *)
(* whose last write failed, and these stay so until the next event.        *)
(***************************************************************************)
Announced(a) == \E e \in ToSet(queue) : e.team = home[a] /\ e.agent # a
FannedOut(a) == loop.stage = "fan" /\ loop.team = home[a] /\ a \in loop.targets
LastReadLists(a, b) ==
    IF NewestPending(a) THEN \E w \in newest : w.to = a /\ b \in w.peers
                        ELSE a \in behind \/ b \in brief[a]
OwedIsPending ==
    \A p \in owed :
        \/ Announced(p[1]) \/ FannedOut(p[1])
        \/ timer[p[1]] = home[p[1]] \/ LastReadLists(p[1], p[2])

(***************************************************************************)
(* Runtime.Spawn: without the event "alpha (spawned first) never learns    *)
(* about beta (spawned later)".  With it, when nothing is left to be done, *)
(* the briefing of a live session lists every live session of its team.    *)
(* It does not: see the README.                                            *)
(***************************************************************************)
Quiet == queue = <<>> /\ loop = Idle /\ writing = {} /\ \A a \in Agents : timer[a] = None
BriefingsComplete ==
    Quiet /\ (\A a \in Agents : sp[a] \in {"idle", "done"}) =>
        \A a, b \in Agents :
            /\ a # b /\ st[a] = "live" /\ st[b] = "live"
            /\ home[a] = home[b]
            => b \in brief[a]
=============================================================================

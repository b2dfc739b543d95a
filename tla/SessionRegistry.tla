-------------------------- MODULE SessionRegistry --------------------------
(***************************************************************************)
(* The in-memory registry of Runtime: the maps sessions/info (by id) and   *)
(* byName (by @-address), guarded by one mutex, and the operations that    *)
(* hold it only for part of their work: Spawn reserves a name with a       *)
(* sentinel, starts the child without the lock and registers it; Stop      *)
(* removes the entries and tears the child down afterwards; the activity   *)
(* sniffer of each session notices the end of the PTY and calls            *)
(* markExited.  One step is one critical section or one call out.          *)
(***************************************************************************)
EXTENDS FiniteSets

CONSTANTS
    Names,      \* @-addresses
    Ids,        \* session ids; a bound: how many children are ever started
    Callers,    \* goroutines serving operator or MCP requests
    Requests,   \* operations the callers issue
    None,       \* no entry
    Pending     \* spawnPendingSentinel

ASSUME DistinctAssumption ==
    /\ None \notin Ids /\ Pending \notin Ids /\ None # Pending /\ None \notin Names
    /\ Requests \subseteq {"spawn", "stop", "restart", "handoff", "rename"}

VARIABLES
    byName,     \* [Names -> Ids, Pending or None]
    reg,        \* keys of sessions and info
    nameOf,     \* [Ids -> Names or None]: info.Name
    exited,     \* ids with info.Exited
    pty,        \* [Ids -> state of the ptyhost session]
    sniffer,    \* [Ids -> state of runActivitySniffer]
    container,  \* [Names -> Ids or None]: the container under that name
    call,       \* [Callers -> the request in progress]
    mu,         \* "free" between two critical sections, "leaked" for ever
    robbed      \* history: names whose reservation a Stop took away

vars == <<byName, reg, nameOf, exited, pty, sniffer, container, call, mu, robbed>>

PtyStates == {"none", "open", "closed"}
SnifferStates == {"off", "started", "watching", "marking", "done"}
CallStates == {"idle", "starting", "started", "registered", "asked", "stopping",
               "closing", "teardown", "respawn"}
\* again: the request of which a Stop and a Spawn are parts; to: a Handoff's
\* target, until its source has been stopped.
CallRecord == [pc : CallStates, name : Names \cup {None}, id : Ids \cup {Pending, None},
               again : {"no", "restart", "handoff"}, to : Names \cup {None}]
Idle == [pc |-> "idle", name |-> None, id |-> None, again |-> "no", to |-> None]

Init ==
    /\ byName = [n \in Names |-> None]
    /\ reg = {}
    /\ nameOf = [id \in Ids |-> None]
    /\ exited = {}
    /\ pty = [id \in Ids |-> "none"]
    /\ sniffer = [id \in Ids |-> "off"]
    /\ container = [n \in Names |-> None]
    /\ call = [c \in Callers |-> Idle]
    /\ mu = "free"
    /\ robbed = {}

-----------------------------------------------------------------------------
(* Spawn                                                                   *)

\* The name check and the reservation, in one critical section; a taken name
\* (real id or sentinel) is an error that changes nothing.
Reserve(c, n) ==
    /\ mu = "free" /\ byName[n] = None
    /\ byName' = [byName EXCEPT ![n] = Pending]
    /\ call' = [call EXCEPT ![c] = [Idle EXCEPT !.pc = "starting", !.name = n]]
    /\ UNCHANGED <<reg, nameOf, exited, pty, sniffer, container, mu, robbed>>

\* Mutant: the reservation is made without looking at the entry.
BadSpawnReserve(c, n) ==
    /\ "spawn" \in Requests /\ call[c].pc = "idle" /\ mu = "free"
    /\ byName' = [byName EXCEPT ![n] = Pending]
    /\ call' = [call EXCEPT ![c] = [Idle EXCEPT !.pc = "starting", !.name = n]]
    /\ UNCHANGED <<reg, nameOf, exited, pty, sniffer, container, mu, robbed>>

SpawnReserve(c, n) ==
    /\ "spawn" \in Requests /\ call[c].pc = "idle"
    /\ Reserve(c, n)

\* Mutant: an error path that forgets clearReservation.
BadSpawnFail(c) ==
    /\ call[c].pc = "starting"
    /\ call' = [call EXCEPT ![c] = Idle]
    /\ UNCHANGED <<byName, reg, nameOf, exited, pty, sniffer, container, mu, robbed>>

\* Mutant: the entry is overwritten with the zero value, not deleted.
ZeroSpawnFail(c) ==
    /\ call[c].pc = "starting"
    /\ byName' = [byName EXCEPT ![call[c].name] = ""]
    /\ call' = [call EXCEPT ![c] = Idle]
    /\ UNCHANGED <<reg, nameOf, exited, pty, sniffer, container, mu, robbed>>

\* Any error before registration: clearReservation, if a sentinel is there.
SpawnFail(c) ==
    LET n == call[c].name IN
    /\ call[c].pc = "starting" /\ mu = "free"
    /\ byName' = [byName EXCEPT ![n] = IF @ = Pending THEN None ELSE @]
    /\ call' = [call EXCEPT ![c] = Idle]
    /\ UNCHANGED <<reg, nameOf, exited, pty, sniffer, container, mu, robbed>>

\* session.New: "podman run --replace --name <n>" under a PTY.
SpawnStart(c, id) ==
    /\ call[c].pc = "starting"
    /\ pty[id] = "none"
    /\ pty' = [pty EXCEPT ![id] = "open"]
    /\ container' = [container EXCEPT ![call[c].name] = id]
    /\ call' = [call EXCEPT ![c].pc = "started", ![c].id = id]
    /\ UNCHANGED <<byName, reg, nameOf, exited, sniffer, mu, robbed>>

SpawnRegister(c) ==
    LET n == call[c].name  id == call[c].id IN
    /\ call[c].pc = "started" /\ mu = "free"
    /\ reg' = reg \cup {id}
    /\ byName' = [byName EXCEPT ![n] = id]
    /\ nameOf' = [nameOf EXCEPT ![id] = n]
    /\ call' = [call EXCEPT ![c].pc = "registered"]
    /\ UNCHANGED <<exited, pty, sniffer, container, mu, robbed>>

\* After the two persistence calls (module SessionStore) the sniffer starts.
SpawnReturn(c) ==
    /\ call[c].pc = "registered"
    /\ sniffer' = [sniffer EXCEPT ![call[c].id] = "started"]
    /\ call' = [call EXCEPT ![c] = Idle]
    /\ UNCHANGED <<byName, reg, nameOf, exited, pty, container, mu, robbed>>

-----------------------------------------------------------------------------
(* Stop, Restart and Handoff                                               *)

\* The entry may be the sentinel of a Spawn in progress: then there is no
\* session to remove, and the sentinel goes.
Remove(c, n) ==
    LET id == byName[n] IN
    /\ mu = "free" /\ id # None
    /\ reg' = reg \ {id}
    /\ byName' = [byName EXCEPT ![n] = None]
    /\ call' = [call EXCEPT ![c].pc = "closing", ![c].name = n, ![c].id = id]
    /\ robbed' = IF id = Pending THEN robbed \cup {n} ELSE robbed
    /\ UNCHANGED <<nameOf, exited, pty, sniffer, container, mu>>

StopRemove(c, n) ==
    "stop" \in Requests /\ call[c].pc = "idle" /\ Remove(c, n)

\* sessionByName: Runtime.Get must find a session under the name before the
\* handler calls Restart(n) or Handoff(n, to); of to it asks nothing.
Ask(c, n, what, to) ==
    /\ what \in Requests /\ call[c].pc = "idle"
    /\ mu = "free" /\ byName[n] \in Ids
    /\ call' = [call EXCEPT ![c] = [pc |-> "asked", name |-> n, id |-> None,
                                     again |-> what, to |-> to]]
    /\ UNCHANGED <<byName, reg, nameOf, exited, pty, sniffer, container, mu, robbed>>

RestartAsk(c, n) == Ask(c, n, "restart", None)
HandoffAsk(c, n, to) == Ask(c, n, "handoff", to)

\* The entry that decides how the first critical section of Restart or Handoff
\* ends: the one of the name, and if that is a session, the one of the target.
Looked(c) ==
    IF byName[call[c].name] \in Ids /\ call[c].to # None THEN byName[call[c].to]
                                                      ELSE byName[call[c].name]

\* info is copied into a spec.  A Handoff may fail next: no Claude session, no
\* home directory, a file error.
Read(c) ==
    /\ call[c].pc = "asked" /\ mu = "free" /\ Looked(c) \in Ids
    /\ \/ call' = [call EXCEPT ![c].pc = "stopping"]
       \/ call[c].again = "handoff" /\ call' = [call EXCEPT ![c] = Idle]
    /\ UNCHANGED <<byName, reg, nameOf, exited, pty, sniffer, container, mu, robbed>>

ReadUnknown(c) ==
    /\ call[c].pc = "asked" /\ mu = "free" /\ Looked(c) = None
    /\ call' = [call EXCEPT ![c] = Idle]
    /\ UNCHANGED <<byName, reg, nameOf, exited, pty, sniffer, container, mu, robbed>>

\* The entry is the sentinel: there is no info, the nil pointer panics, the
\* HTTP server recovers, and nobody unlocks the mutex.
ReadPanics(c) ==
    /\ call[c].pc = "asked" /\ mu = "free" /\ Looked(c) = Pending
    /\ mu' = "leaked"
    /\ call' = [call EXCEPT ![c] = Idle]
    /\ UNCHANGED <<byName, reg, nameOf, exited, pty, sniffer, container, robbed>>

\* What follows a Stop: nothing, Handoff's second Stop, or the Spawn.
AfterStop(r) ==
    IF r.again = "no" THEN Idle
    ELSE IF r.to # None
      THEN [Idle EXCEPT !.pc = "stopping", !.name = r.to, !.again = r.again]
      ELSE [Idle EXCEPT !.pc = "respawn", !.name = r.name]

\* Stop(name), on whatever the name stands for by now.
StopAgain(c) == call[c].pc = "stopping" /\ Remove(c, call[c].name)

\* Stop of a name that is gone is an error: Restart returns it, Handoff goes on.
StopUnknown(c) ==
    /\ call[c].pc = "stopping" /\ mu = "free" /\ byName[call[c].name] = None
    /\ call' = [call EXCEPT
           ![c] = IF call[c].again = "restart" THEN Idle ELSE AfterStop(call[c])]
    /\ UNCHANGED <<byName, reg, nameOf, exited, pty, sniffer, container, mu, robbed>>

\* Session.Close returns once the child is gone.
StopClosed(c) ==
    /\ call[c].pc = "closing"
    /\ call[c].id \in Ids => pty[call[c].id] = "closed"
    /\ call' = [call EXCEPT ![c].pc = "teardown"]
    /\ UNCHANGED <<byName, reg, nameOf, exited, pty, sniffer, container, mu, robbed>>

\* containerRuntime.StopContainer(name); an error is logged only.  Stop's last
\* call, broadcast, needs the mutex, as does everything its caller may do next.
StopContainer(c) ==
    /\ call[c].pc = "teardown"
    /\ \/ container' = [container EXCEPT ![call[c].name] = None]
       \/ UNCHANGED container
    /\ call' = [call EXCEPT ![c] = AfterStop(call[c])]
    /\ UNCHANGED <<byName, reg, nameOf, exited, pty, sniffer, mu, robbed>>

RestartReserve(c) == call[c].pc = "respawn" /\ Reserve(c, call[c].name)

\* The name was taken during the 500 ms pause before the Spawn.
RestartFails(c) ==
    /\ call[c].pc = "respawn" /\ mu = "free" /\ byName[call[c].name] # None
    /\ call' = [call EXCEPT ![c] = Idle]
    /\ UNCHANGED <<byName, reg, nameOf, exited, pty, sniffer, container, mu, robbed>>

-----------------------------------------------------------------------------
(* Rename: one critical section.  The container keeps its old name.  On a  *)
(* pending name the nil info panics before anything is changed, and the    *)
(* deferred unlock runs: no step.                                          *)
Rename(c, old, new) ==
    LET id == byName[old] IN
    /\ "rename" \in Requests /\ call[c].pc = "idle" /\ mu = "free"
    /\ id \in Ids /\ byName[new] = None
    /\ nameOf' = [nameOf EXCEPT ![id] = new]
    /\ byName' = [byName EXCEPT ![old] = None, ![new] = id]
    /\ UNCHANGED <<reg, exited, pty, sniffer, container, call, mu, robbed>>

-----------------------------------------------------------------------------
(* The child ends by itself, or because a Close signalled it or --replace  *)
(* took its container: waitLoop closes the session.                        *)
PtyClose(id) ==
    /\ pty[id] = "open"
    /\ pty' = [pty EXCEPT ![id] = "closed"]
    /\ UNCHANGED <<byName, reg, nameOf, exited, sniffer, container, call, mu, robbed>>

(* runActivitySniffer                                                      *)

\* Subscribe fails with ErrClosed when the session is already closed, and
\* the goroutine returns before its deferred markExited is set up.
SnifferSubscribe(id) ==
    /\ sniffer[id] = "started"
    /\ sniffer' = [sniffer EXCEPT
           ![id] = IF pty[id] = "open" THEN "watching" ELSE "done"]
    /\ UNCHANGED <<byName, reg, nameOf, exited, pty, container, call, mu, robbed>>

\* sub.Done fires: markExited's first critical section.  Only a child that has
\* exited with code 0 is removed by the second.
MarkExited(id) ==
    /\ sniffer[id] = "watching" /\ pty[id] = "closed" /\ mu = "free"
    /\ exited' = IF id \in reg THEN exited \cup {id} ELSE exited
    /\ \E clean \in BOOLEAN : sniffer' = [sniffer EXCEPT
           ![id] = IF id \in reg /\ clean THEN "marking" ELSE "done"]
    /\ UNCHANGED <<byName, reg, nameOf, pty, container, call, mu, robbed>>

\* Mutant: the entries are removed without the second look at info[id].
BadMarkRemove(id) ==
    /\ sniffer[id] = "marking"
    /\ reg' = reg \ {id}
    /\ byName' = [byName EXCEPT ![nameOf[id]] = None]
    /\ sniffer' = [sniffer EXCEPT ![id] = "done"]
    /\ UNCHANGED <<nameOf, exited, pty, container, call, mu, robbed>>

\* Mutant: the clean exit leaves the name behind.
KeepNameMarkRemove(id) ==
    /\ sniffer[id] = "marking"
    /\ reg' = reg \ {id}
    /\ sniffer' = [sniffer EXCEPT ![id] = "done"]
    /\ UNCHANGED <<byName, nameOf, exited, pty, container, call, mu, robbed>>

\* Clean exit, second critical section: by id, and byName by the name.
MarkRemove(id) ==
    /\ sniffer[id] = "marking" /\ mu = "free"
    /\ reg' = reg \ {id}
    /\ byName' = IF id \in reg THEN [byName EXCEPT ![nameOf[id]] = None]
                               ELSE byName
    /\ sniffer' = [sniffer EXCEPT ![id] = "done"]
    /\ UNCHANGED <<nameOf, exited, pty, container, call, mu, robbed>>

-----------------------------------------------------------------------------
SpawnWork(c) ==
    SpawnFail(c) \/ (\E id \in Ids : SpawnStart(c, id))
                 \/ SpawnRegister(c) \/ SpawnReturn(c)
StopWork(c) ==
    \/ Read(c) \/ ReadUnknown(c) \/ ReadPanics(c)
    \/ StopAgain(c) \/ StopUnknown(c) \/ StopClosed(c) \/ StopContainer(c)
    \/ RestartReserve(c) \/ RestartFails(c)
SnifferWork(id) == SnifferSubscribe(id) \/ MarkExited(id) \/ MarkRemove(id)

Next ==
    \/ \E c \in Callers :
          \/ SpawnWork(c) \/ StopWork(c)
          \/ \E n \in Names : SpawnReserve(c, n) \/ StopRemove(c, n) \/ RestartAsk(c, n)
          \/ \E n, m \in Names : HandoffAsk(c, n, m) \/ Rename(c, n, m)
    \/ \E id \in Ids : PtyClose(id) \/ SnifferWork(id)

Spec == Init /\ [][Next]_vars

(***************************************************************************)
(* Goroutines that are not blocked keep running, and Session.Close ends    *)
(* the child: SIGTERM, then SIGKILL after five seconds.  Requests and the  *)
(* children's own exits need not happen.                                   *)
(***************************************************************************)
BeingClosed(id) == \E c \in Callers : call[c].pc = "closing" /\ call[c].id = id
Fairness ==
    /\ \A c \in Callers : WF_vars(SpawnWork(c)) /\ WF_vars(StopWork(c))
    /\ \A id \in Ids : /\ WF_vars(SnifferWork(id))
                       /\ WF_vars(BeingClosed(id) /\ PtyClose(id))

FairSpec == Spec /\ Fairness

-----------------------------------------------------------------------------
\* Every variable has its type.
TypeOK ==
    /\ byName \in [Names -> Ids \cup {Pending, None}]
    /\ reg \subseteq Ids
    /\ nameOf \in [Ids -> Names \cup {None}]
    /\ exited \subseteq Ids
    /\ pty \in [Ids -> PtyStates]
    /\ sniffer \in [Ids -> SnifferStates]
    /\ container \in [Names -> Ids \cup {None}]
    /\ call \in [Callers -> CallRecord]
    /\ mu \in {"free", "leaked"}
    /\ robbed \subseteq Names

(***************************************************************************)
(* The name index never points at a session that is not registered, or at  *)
(* one whose info carries another name: Get, Assign, Pause and the others  *)
(* dereference info[byName[name]] without a check.                         *)
(***************************************************************************)
IndexSound ==
    \A n \in Names : byName[n] \in Ids =>
        byName[n] \in reg /\ nameOf[byName[n]] = n

(***************************************************************************)
(* Every registered session can be reached, and so stopped, by its name;   *)
(* in particular no two registered sessions have the same name.  A name    *)
(* whose reservation a Stop took away is excepted: a second Spawn of it    *)
(* may then register over the first.                                       *)
(***************************************************************************)
Reachable == \A id \in reg : nameOf[id] \notin robbed => byName[nameOf[id]] = id

(***************************************************************************)
(* Spawn's comment (#647): a caller that gets to start a container holds   *)
(* the name alone ("concurrent Spawn calls for the same name are rejected  *)
(* before they do any container-start work"), unless a Stop of the name    *)
(* has taken the reservation away.                                         *)
(***************************************************************************)
SpawningNames(c) == IF call[c].pc \in {"starting", "started"}
                      THEN {call[c].name} ELSE {}
SpawnsExclusive ==
    \A c, d \in Callers :
        c # d => SpawningNames(c) \cap SpawningNames(d) \subseteq robbed

(***************************************************************************)
(* A reservation belongs to a Spawn in progress, which registers it or     *)
(* gives it back: no error path, Stop or Restart leaves a sentinel behind  *)
(* that blocks the name for good.                                          *)
(***************************************************************************)
ReservationOwned ==
    \A n \in Names : byName[n] = Pending => \E c \in Callers : n \in SpawningNames(c)

(***************************************************************************)
(* A reserved name is released: the sentinel is replaced by the id of the  *)
(* new session or taken away by the error path, never left behind.         *)
(***************************************************************************)
ReservationResolved ==
    \A n \in Names : byName[n] = Pending ~> byName[n] # Pending

(***************************************************************************)
(* "the dashboard sees the agent exit immediately": a registered session   *)
(* whose PTY has closed is marked as exited or leaves the registry.        *)
(***************************************************************************)
ExitNoticed ==
    \A id \in Ids : (id \in reg /\ pty[id] = "closed")
                        ~> (id \in exited \/ id \notin reg)

(***************************************************************************)
(* Stop "calls containerRuntime.StopContainer so the sibling container is  *)
(* actually terminated": a teardown that succeeds leaves no container of   *)
(* the session it stopped.                                                 *)
(***************************************************************************)
StopEndsContainer ==
    [][\A c \in Callers :
         StopContainer(c) /\ container'[call[c].name] = None
             /\ call[c].id \in Ids =>
                 \A n \in Names : container'[n] # call[c].id]_vars

(***************************************************************************)
(* A teardown removes the container of the session that was stopped and of *)
(* no other session.                                                       *)
(***************************************************************************)
StopSparesOthers ==
    [][\A c \in Callers :
         StopContainer(c) /\ call[c].id \in Ids =>
             \A n \in Names : container'[n] # container[n] =>
                                 container[n] = call[c].id]_vars
=============================================================================

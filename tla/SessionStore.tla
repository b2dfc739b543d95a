---------------------------- MODULE SessionStore ----------------------------
(***************************************************************************)
(* The persisted side of a chepherd session.  Runtime.Spawn registers a    *)
(* session in memory and then writes its row, Runtime.Stop removes both,   *)
(* the orphan reaper deletes the rows that have no session in memory, and  *)
(* the scrum-master's tick loop reads and rewrites every row it listed.    *)
(* They share the SessionRepository with no lock around their sequences of *)
(* calls: each call of the repository is a step of its own here.           *)
(*                                                                         *)
(* A row is the set of key groups of its JSON state.  The repository       *)
(* answers Get of a row it does not have with an empty map and no error,   *)
(* so the empty set stands for "no row".                                   *)
(***************************************************************************)
EXTENDS Naturals

CONSTANTS
    Ids,         \* session ids, "<name>-<UnixNano>", never handed out twice
    MaxCrashes   \* bound: how often the daemon dies and is started again

ASSUME MaxCrashesAssumption == MaxCrashes \in Nat

VARIABLES
    up,       \* the daemon process is running
    reg,      \* keys of Runtime.sessions (and of info)
    spawn,    \* [Ids -> progress of the Spawn that created the id]
    stop,     \* [Ids -> progress of the Stop that removed the id]
    rows,     \* [Ids -> key groups of the row, {} when there is none]
    files,    \* ids with a <stateDir>/sessions/<id>.json
    saved,    \* history: ids whose first Save succeeded
    reaper,   \* [pc, todo]: reapOnce
    tick,     \* [pc, todo, cur, state]: shepherdImpl.tickOnce
    crashes   \* number of crashes so far

vars == <<up, reg, spawn, stop, rows, files, saved, reaper, tick, crashes>>

(***************************************************************************)
(* Key groups of a row's state map: what Spawn writes (agent_id, name,     *)
(* role, team, created_at), the two stamps of the tick loop, and the key   *)
(* the repository copies into the claude_session_uuid column.              *)
(***************************************************************************)
Keys == {"identity", "ticks", "claude_uuid"}
\* Mutant: the claude_session_uuid column's name used as a state key.
BadInitialState == {"identity", "claude_session_uuid"}
InitialState == {"identity"}
HasRow(id) == rows[id] # {}
RowIds == {id \in Ids : HasRow(id)}

SpawnSteps == {"new", "registered", "filed", "done"}
StopSteps == {"idle", "removed", "unfiled", "done"}
NoTick == [pc |-> "idle", todo |-> {}, cur |-> {}, state |-> {}]
NoReap == [pc |-> "idle", todo |-> {}]

Init ==
    /\ up = TRUE
    /\ reg = {}
    /\ spawn = [id \in Ids |-> "new"]
    /\ stop = [id \in Ids |-> "idle"]
    /\ rows = [id \in Ids |-> {}]
    /\ files = {}
    /\ saved = {}
    /\ reaper = NoReap
    /\ tick = NoTick
    /\ crashes = 0

-----------------------------------------------------------------------------
(* Runtime.Spawn, from the moment the id is known.                         *)

SpawnRegister(id) ==
    /\ up /\ spawn[id] = "new"
    /\ reg' = reg \cup {id}
    /\ spawn' = [spawn EXCEPT ![id] = "registered"]
    /\ UNCHANGED <<up, stop, rows, files, saved, reaper, tick, crashes>>

\* persistInfo; an error is logged and the spawn goes on.
SpawnPersistInfo(id) ==
    /\ spawn[id] = "registered"
    /\ \/ files' = files \cup {id}
       \/ UNCHANGED files
    /\ spawn' = [spawn EXCEPT ![id] = "filed"]
    /\ UNCHANGED <<up, reg, stop, rows, saved, reaper, tick, crashes>>

\* persistInitialSessionState: an UPSERT; an error is logged only.
SpawnSaveRow(id) ==
    /\ spawn[id] = "filed"
    /\ \/ /\ rows' = [rows EXCEPT ![id] = InitialState]
          /\ saved' = saved \cup {id}
       \/ UNCHANGED <<rows, saved>>
    /\ spawn' = [spawn EXCEPT ![id] = "done"]
    /\ UNCHANGED <<up, reg, stop, files, reaper, tick, crashes>>

(* markExited, clean exit: the id leaves the registry, its row and its     *)
(* file stay.  The sniffer that calls it is started after the two writes.  *)
ExitClean(id) ==
    /\ id \in reg /\ spawn[id] = "done"
    /\ reg' = reg \ {id}
    /\ UNCHANGED <<up, spawn, stop, rows, files, saved, reaper, tick, crashes>>

-----------------------------------------------------------------------------
(* Runtime.Stop: the maps under the lock, then file and row without it.    *)

StopRemove(id) ==
    /\ id \in reg
    /\ reg' = reg \ {id}
    /\ stop' = [stop EXCEPT ![id] = "removed"]
    /\ UNCHANGED <<up, spawn, rows, files, saved, reaper, tick, crashes>>

StopRemoveFile(id) ==
    /\ stop[id] = "removed"
    /\ files' = files \ {id}
    /\ stop' = [stop EXCEPT ![id] = "unfiled"]
    /\ UNCHANGED <<up, reg, spawn, rows, saved, reaper, tick, crashes>>

StopDeleteRow(id) ==
    /\ stop[id] = "unfiled"
    /\ \/ rows' = [rows EXCEPT ![id] = {}]
       \/ UNCHANGED rows
    /\ stop' = [stop EXCEPT ![id] = "done"]
    /\ UNCHANGED <<up, reg, spawn, files, saved, reaper, tick, crashes>>

-----------------------------------------------------------------------------
(* reapOnce: list the rows, then snapshot the registry, then delete every  *)
(* listed row whose id was not in the snapshot.                            *)

ReapList ==
    /\ up /\ reaper.pc = "idle"
    /\ reaper' = [pc |-> "listed", todo |-> RowIds]
    /\ UNCHANGED <<up, reg, spawn, stop, rows, files, saved, tick, crashes>>

\* Mutant: the registry snapshot is not consulted.
BadReapSnapshot ==
    /\ reaper.pc = "listed"
    /\ reaper' = [pc |-> "sweep", todo |-> reaper.todo]
    /\ UNCHANGED <<up, reg, spawn, stop, rows, files, saved, tick, crashes>>

ReapSnapshot ==
    /\ reaper.pc = "listed"
    /\ reaper' = [pc |-> "sweep", todo |-> reaper.todo \ reg]
    /\ UNCHANGED <<up, reg, spawn, stop, rows, files, saved, tick, crashes>>

\* Mutant: the first row that is gone ends the pass and every later one.
BadReapEnd ==
    /\ reaper.pc = "sweep" /\ reaper.todo = {}
    /\ reaper' = [reaper EXCEPT !.pc = "listed"]
    /\ UNCHANGED <<up, reg, spawn, stop, rows, files, saved, tick, crashes>>

Reaped(id) ==
    reaper' = [reaper EXCEPT !.todo = @ \ {id}]

ReapDelete(id) ==
    /\ reaper.pc = "sweep" /\ id \in reaper.todo
    /\ rows' = [rows EXCEPT ![id] = {}]
    /\ Reaped(id)
    /\ UNCHANGED <<up, reg, spawn, stop, files, saved, tick, crashes>>

ReapDeleteFails(id) ==
    /\ reaper.pc = "sweep" /\ id \in reaper.todo
    /\ Reaped(id)
    /\ UNCHANGED <<up, reg, spawn, stop, rows, files, saved, tick, crashes>>

ReapEnd ==
    /\ reaper.pc = "sweep" /\ reaper.todo = {}
    /\ reaper' = NoReap
    /\ UNCHANGED <<up, reg, spawn, stop, rows, files, saved, tick, crashes>>

-----------------------------------------------------------------------------
(* shepherdImpl.tickOnce: list, then for each id load, check the cadence,  *)
(* stamp and save.  The ids come in lexicographic order; any order is      *)
(* allowed here, since ids are allocated in any order too.                 *)

TickList ==
    /\ up /\ tick.pc = "idle"
    /\ tick' = [NoTick EXCEPT !.pc = "next", !.todo = RowIds]
    /\ UNCHANGED <<up, reg, spawn, stop, rows, files, saved, reaper, crashes>>

\* Mutant: a failed load is treated as an empty state.
BadTickLoad(id) ==
    /\ tick.pc = "next" /\ id \in tick.todo
    /\ tick' = [pc |-> "loaded", todo |-> tick.todo \ {id},
                cur |-> {id}, state |-> {}]
    /\ UNCHANGED <<up, reg, spawn, stop, rows, files, saved, reaper, crashes>>

\* loadState succeeded and the session is due.
TickLoad(id) ==
    /\ tick.pc = "next" /\ id \in tick.todo
    /\ tick' = [pc |-> "loaded", todo |-> tick.todo \ {id},
                cur |-> {id}, state |-> rows[id]]
    /\ UNCHANGED <<up, reg, spawn, stop, rows, files, saved, reaper, crashes>>

\* loadState failed, or next_tick_at lies in the future.
TickSkip(id) ==
    /\ tick.pc = "next" /\ id \in tick.todo
    /\ tick' = [tick EXCEPT !.todo = @ \ {id}]
    /\ UNCHANGED <<up, reg, spawn, stop, rows, files, saved, reaper, crashes>>

TickSave(id) ==
    /\ tick.pc = "loaded" /\ id \in tick.cur
    /\ \/ rows' = [rows EXCEPT ![id] = tick.state \cup {"ticks"}]
       \/ UNCHANGED rows
    /\ tick' = [tick EXCEPT !.pc = "next", !.cur = {}, !.state = {}]
    /\ UNCHANGED <<up, reg, spawn, stop, files, saved, reaper, crashes>>

TickEnd ==
    /\ tick.pc = "next" /\ tick.todo = {}
    /\ tick' = NoTick
    /\ UNCHANGED <<up, reg, spawn, stop, rows, files, saved, reaper, crashes>>

-----------------------------------------------------------------------------
(* The daemon dies: everything in memory is gone, every call in flight     *)
(* stops where it is.  A new process starts with empty maps.               *)

Crash ==
    /\ up /\ crashes < MaxCrashes
    /\ up' = FALSE
    /\ reg' = {}
    /\ spawn' = [id \in Ids |-> IF spawn[id] = "new" THEN "new" ELSE "done"]
    /\ stop' = [id \in Ids |-> IF stop[id] = "done" THEN "done" ELSE "idle"]
    /\ reaper' = NoReap
    /\ tick' = NoTick
    /\ crashes' = crashes + 1
    /\ UNCHANGED <<rows, files, saved>>

\* Boot counts the rows without a session, which are all of them, and with
\* CHEPHERD_CLEANUP_ORPHANS_ON_START deletes those whose Delete succeeds.
\* Nothing is resumed: Resumable, below, is empty.
Boot ==
    /\ ~up
    /\ up' = TRUE
    /\ \E gone \in SUBSET RowIds :
         rows' = [id \in Ids |-> IF id \in gone THEN {} ELSE rows[id]]
    /\ UNCHANGED <<reg, spawn, stop, files, saved, reaper, tick, crashes>>

Sweep(id) == ReapDelete(id) \/ ReapDeleteFails(id)
TickOne(id) == TickLoad(id) \/ TickSkip(id) \/ TickSave(id)
\* Mutant: the row is written first and the session registered last.
BadSpawnSteppedBy(id) ==
    \/ /\ up /\ spawn[id] = "new"
       /\ rows' = [rows EXCEPT ![id] = InitialState]
       /\ saved' = saved \cup {id}
       /\ spawn' = [spawn EXCEPT ![id] = "registered"]
       /\ UNCHANGED <<up, reg, stop, files, reaper, tick, crashes>>
    \/ SpawnPersistInfo(id)
    \/ /\ spawn[id] = "filed"
       /\ reg' = reg \cup {id}
       /\ spawn' = [spawn EXCEPT ![id] = "done"]
       /\ UNCHANGED <<up, stop, rows, files, saved, reaper, tick, crashes>>
SpawnSteppedBy(id) ==
    SpawnRegister(id) \/ SpawnPersistInfo(id) \/ SpawnSaveRow(id)
StopSteppedBy(id) ==
    StopRemove(id) \/ StopRemoveFile(id) \/ StopDeleteRow(id)

Next ==
    \/ \E id \in Ids :
          \/ SpawnSteppedBy(id) \/ StopSteppedBy(id) \/ ExitClean(id)
          \/ Sweep(id) \/ TickOne(id)
    \/ ReapList \/ ReapSnapshot \/ ReapEnd
    \/ TickList \/ TickEnd
    \/ Crash \/ Boot

Spec == Init /\ [][Next]_vars

(***************************************************************************)
(* The reaper goroutine loops on a ticker until the process exits, and     *)
(* its deletes are tried again 30 s later, so a delete that keeps being    *)
(* possible succeeds in the end.  The tick loop's steps always terminate   *)
(* too.  Nothing is assumed about operators, crashes or restarts.          *)
(***************************************************************************)
Fairness ==
    /\ WF_vars(ReapList) /\ WF_vars(ReapSnapshot) /\ WF_vars(ReapEnd)
    /\ \A id \in Ids : WF_vars(Sweep(id)) /\ SF_vars(ReapDelete(id))

FairSpec == Spec /\ Fairness

-----------------------------------------------------------------------------
\* Every variable has its type.
TypeOK ==
    /\ up \in BOOLEAN
    /\ reg \subseteq Ids
    /\ spawn \in [Ids -> SpawnSteps]
    /\ stop \in [Ids -> StopSteps]
    /\ rows \in [Ids -> SUBSET Keys]
    /\ files \subseteq Ids
    /\ saved \subseteq Ids
    /\ reaper \in [pc : {"idle", "listed", "sweep"}, todo : SUBSET Ids]
    /\ tick \in [pc : {"idle", "next", "loaded"}, todo : SUBSET Ids,
                 cur : SUBSET Ids, state : SUBSET Keys]
    /\ crashes \in 0..MaxCrashes

(***************************************************************************)
(* A session that is live and whose row was written keeps its row, whatever *)
(* the reaper, the tick loop and other sessions' Stops do in between: "in  *)
(* repo but not in memory is always a real orphan" (orphanReaperLoop).     *)
(***************************************************************************)
LiveRowKept == \A id \in reg \cap saved : HasRow(id)

(***************************************************************************)
(* The row of a live session always carries its identity: the tick loop,   *)
(* which saves the stamped EMPTY map when the row it listed was deleted    *)
(* before it loaded it, never does so to a session that is still running.  *)
(***************************************************************************)
LiveRowNamed == \A id \in reg : HasRow(id) => "identity" \in rows[id]

(***************************************************************************)
(* While the daemon stays up an orphan row, left by a crash, a clean exit, *)
(* a Stop whose Delete failed or a late Save, is eventually deleted.       *)
(***************************************************************************)
Orphan(id) == up /\ HasRow(id) /\ spawn[id] = "done" /\ id \notin reg
OrphanSwept == \A id \in Ids : Orphan(id) ~> (~HasRow(id) \/ ~up)

(***************************************************************************)
(* What Stop's comment promises of the persistence layer: once Stop has    *)
(* returned, the row does not come back ("Mirror the in-memory teardown    *)
(* into the persistence layer").                                           *)
(***************************************************************************)
StoppedRowStaysGone ==
    [][\A id \in Ids : stop[id] = "done" /\ rows[id] = {} => rows'[id] = {}]_vars

(***************************************************************************)
(* What cmd/run.go says of a restart: "Operator's pre-restart state        *)
(* continues seamlessly post-restart".  A session that was running, with   *)
(* its row written, when the daemon died is in the resumable set at boot.  *)
(***************************************************************************)
Resumable == {id \in Ids : "claude_uuid" \in rows[id]}
CrashLeavesResumable ==
    [][Crash => \A id \in reg \cap saved : id \in Resumable']_vars
=============================================================================

-------------------------- MODULE SessionStoreHTTP --------------------------
(***************************************************************************)
(* The session store together with the HTTP handlers that read and delete  *)
(* rows for the dashboard: GET /api/v1/sessions (listSessionsMerged), the  *)
(* DELETE of a row that is shown as not live (sessionByName), and POST     *)
(* /api/v1/sessions/_cleanup-orphans (cleanupOrphans).                     *)
(***************************************************************************)
EXTENDS SessionStore

CONSTANTS
    Names,     \* @-addresses, the keys of Runtime.byName
    NameOf     \* [Ids -> Names]: the name a session was spawned under

(* newSessionID appends a time stamp to the name: no id is also a name.    *)
ASSUME NamesAssumption == Names \cap Ids = {} /\ NameOf \in [Ids -> Names]

VARIABLES
    list,      \* [pc, live]: a listSessionsMerged in progress; .old is history:
               \* the ids that had been registered when it began
    shown,     \* ids the operator's page shows with live = false
    newborn,   \* history: those of them registered while the page was made
    cleanup    \* [pc, todo]: a cleanupOrphans in progress

httpVars == <<list, shown, newborn, cleanup>>
allVars == <<vars, httpVars>>

NoList == [pc |-> "idle", live |-> {}, old |-> {}]
NoCleanup == [pc |-> "idle", todo |-> {}]

HInit == Init /\ list = NoList /\ shown = {} /\ newborn = {} /\ cleanup = NoCleanup

\* Runtime.Get(key): the sessions registered under that NAME.
Get(key) == {id \in reg : NameOf[id] = key}

-----------------------------------------------------------------------------
(* listSessionsMerged: the live ids first, the rows second.                *)

ListLive ==
    /\ up /\ list.pc = "idle"
    /\ list' = [pc |-> "live", live |-> reg, old |-> {id \in Ids : spawn[id] # "new"}]
    /\ UNCHANGED <<vars, shown, newborn, cleanup>>

ListRows ==
    /\ list.pc = "live"
    /\ shown' = RowIds \ list.live
    /\ newborn' = RowIds \ list.old
    /\ list' = NoList
    /\ UNCHANGED <<vars, cleanup>>

(* sessionByName, DELETE of a row: Get(<id>) looks the id up as a name and *)
(* finds nothing, the row exists, and it is deleted (errors are ignored).  *)
DeleteShown(id) ==
    /\ up /\ id \in shown
    /\ Get(id) = {} /\ HasRow(id)
    /\ \/ rows' = [rows EXCEPT ![id] = {}]
       \/ UNCHANGED rows
    /\ UNCHANGED <<up, reg, spawn, stop, files, saved, reaper, tick, crashes>>
    /\ UNCHANGED httpVars

-----------------------------------------------------------------------------
(* cleanupOrphans: every listed row whose id Runtime.Get does not know.    *)

CleanupList ==
    /\ up /\ cleanup.pc = "idle"
    /\ cleanup' = [pc |-> "sweep", todo |-> RowIds]
    /\ UNCHANGED <<vars, list, shown, newborn>>

CleanupOne(id) ==
    /\ cleanup.pc = "sweep" /\ id \in cleanup.todo
    /\ rows' \in {rows, [rows EXCEPT ![id] = IF Get(id) = {} THEN {} ELSE @]}
    /\ cleanup' = [cleanup EXCEPT !.todo = @ \ {id}]
    /\ UNCHANGED <<up, reg, spawn, stop, files, saved, reaper, tick, crashes>>
    /\ UNCHANGED <<list, shown, newborn>>

CleanupEnd ==
    /\ cleanup.pc = "sweep" /\ cleanup.todo = {}
    /\ cleanup' = NoCleanup
    /\ UNCHANGED <<vars, list, shown, newborn>>

-----------------------------------------------------------------------------
\* A crash ends the requests in progress; the browser keeps its page.
HCrash ==
    /\ Crash
    /\ list' = NoList /\ cleanup' = NoCleanup
    /\ UNCHANGED <<shown, newborn>>

StoreStep ==
    /\ \/ \E id \in Ids :
             \/ SpawnSteppedBy(id) \/ StopSteppedBy(id) \/ ExitClean(id)
             \/ Sweep(id) \/ TickOne(id)
       \/ ReapList \/ ReapSnapshot \/ ReapEnd
       \/ TickList \/ TickEnd
       \/ Boot
    /\ UNCHANGED httpVars

HNext ==
    \/ StoreStep \/ HCrash
    \/ ListLive \/ ListRows \/ CleanupList \/ CleanupEnd
    \/ \E id \in Ids : DeleteShown(id) \/ CleanupOne(id)

HSpec == HInit /\ [][HNext]_allVars

HFairSpec ==
    /\ HSpec
    /\ WF_allVars(ReapList /\ UNCHANGED httpVars)
    /\ WF_allVars(ReapSnapshot /\ UNCHANGED httpVars)
    /\ WF_allVars(ReapEnd /\ UNCHANGED httpVars)
    /\ \A id \in Ids : /\ WF_allVars(Sweep(id) /\ UNCHANGED httpVars)
                       /\ SF_allVars(ReapDelete(id) /\ UNCHANGED httpVars)

-----------------------------------------------------------------------------
\* Every variable has its type.
HTypeOK ==
    /\ TypeOK
    /\ list \in [pc : {"idle", "live"}, live : SUBSET Ids, old : SUBSET Ids]
    /\ shown \subseteq Ids /\ newborn \subseteq Ids
    /\ cleanup \in [pc : {"idle", "sweep"}, todo : SUBSET Ids]

(***************************************************************************)
(* A page may show a live session as not live (ShownAreNotLive fails), and *)
(* its button deletes the row.  That happens to a session that was         *)
(* registered between the two reads of the very list that shows it and to  *)
(* no other: not to one that was running before, and, however long the     *)
(* page stays open and whatever is spawned, stopped, swept or crashes in   *)
(* the meantime, not to one that starts afterwards.                        *)
(***************************************************************************)
MisshownIsNewborn == shown \cap reg \subseteq newborn

(***************************************************************************)
(* listSessionsMerged: "live==false means it was persisted previously but  *)
(* isn't currently spawned".                                               *)
(***************************************************************************)
ShownAreNotLive == shown \cap reg = {}

(***************************************************************************)
(* cleanupOrphans: "Live sessions (rt.Get returns non-nil) are PRESERVED   *)
(* unconditionally".                                                       *)
(***************************************************************************)
CleanupPreservesLive ==
    [][\A id \in reg : CleanupOne(id) => rows'[id] = rows[id]]_allVars
=============================================================================

------------------------ MODULE SessionStore_proofs ------------------------
(***************************************************************************)
(* Proofs, for every set of session ids and every number of crashes, of    *)
(* what the concurrent users of the session rows keep true.                *)
(*                                                                         *)
(* LiveRowKept is not inductive: it needs to know that nobody who is about *)
(* to delete a row (a Stop, the reaper) holds the id of a live session,    *)
(* and this rests on ids being registered once (a finished spawn never     *)
(* registers its id again) and on a row existing only after registration.  *)
(*                                                                         *)
(* The dashboard deletes rows that it merely believes to be dead.  With it *)
(* LiveRowKept is lost, but the bookkeeping of who holds which ids, Book,  *)
(* is not: the second part proves from it what is still true, and that     *)
(* nobody but the dashboard ever takes a live session's row away.          *)
(***************************************************************************)
EXTENDS SessionStoreHTTP, TLAPS

\* Rows, and the ids anybody listed from the rows, come from finished spawns
\* whose first Save succeeded.
RowsFromSpawns ==
    /\ \A id \in saved : spawn[id] = "done"
    /\ \A id \in Ids : HasRow(id) => id \in saved
    /\ reaper.todo \subseteq saved
    /\ tick.todo \subseteq saved
    /\ tick.cur \subseteq saved

\* A daemon that is down has no registry; an id is in it only once its Spawn
\* ran, and a Stop that is under way or over holds an id that has left it.
RegistryDiscipline ==
    /\ ~up => reg = {}
    /\ \A id \in reg : spawn[id] # "new"
    /\ \A id \in Ids : stop[id] # "idle" => spawn[id] # "new" /\ id \notin reg

\* What the reaper still has to delete is not registered.
ReaperSparesLive == reaper.pc = "sweep" => reaper.todo \cap reg = {}

\* A loaded state without identity belongs to a session that is gone.
TickCarriesIdentity ==
    tick.pc = "loaded" =>
        \A id \in tick.cur : id \in reg => "identity" \in tick.state

\* Who holds which ids; nothing here says that a live session has its row.
Book == TypeOK /\ RowsFromSpawns /\ RegistryDiscipline /\ ReaperSparesLive

IInv ==
    /\ Book
    /\ TickCarriesIdentity
    /\ LiveRowKept
    /\ LiveRowNamed

-----------------------------------------------------------------------------
(* The initial states satisfy the inductive invariant.                     *)
LEMMA InitIInv == Init => IInv
BY MaxCrashesAssumption
   DEF Init, IInv, Book, TypeOK, RowsFromSpawns, RegistryDiscipline, ReaperSparesLive,
       TickCarriesIdentity, LiveRowKept, LiveRowNamed, HasRow, Keys,
       SpawnSteps, StopSteps, NoReap, NoTick

(* Every step, of the runtime, the reaper, the tick loop or a crash, keeps *)
(* every variable in its type.                                             *)
LEMMA TypeStep == TypeOK /\ [Next]_vars => TypeOK'
<1> SUFFICES ASSUME TypeOK, [Next]_vars PROVE TypeOK'
  OBVIOUS
<1> USE DEF TypeOK, SpawnSteps, StopSteps, Keys
<1>1. ASSUME NEW id \in Ids, SpawnSteppedBy(id) PROVE TypeOK'
  <2>1. CASE SpawnRegister(id)
    BY <2>1 DEF SpawnRegister
  <2>2. CASE SpawnPersistInfo(id)
    BY <2>2 DEF SpawnPersistInfo
  <2>3. CASE SpawnSaveRow(id)
    BY <2>3 DEF SpawnSaveRow, InitialState
  <2> QED
    BY <1>1, <2>1, <2>2, <2>3 DEF SpawnSteppedBy
<1>2. ASSUME NEW id \in Ids, StopSteppedBy(id) \/ ExitClean(id) PROVE TypeOK'
  BY <1>2 DEF StopSteppedBy, StopRemove, StopRemoveFile, StopDeleteRow, ExitClean
<1>3. ASSUME NEW id \in Ids, Sweep(id) PROVE TypeOK'
  <2>1. CASE ReapDelete(id)
    BY <2>1 DEF ReapDelete, Reaped
  <2>2. CASE ReapDeleteFails(id)
    BY <2>2 DEF ReapDeleteFails, Reaped
  <2> QED
    BY <1>3, <2>1, <2>2 DEF Sweep
<1>4. ASSUME NEW id \in Ids, TickOne(id) PROVE TypeOK'
  <2>1. CASE TickLoad(id)
    <3>1. rows[id] \subseteq Keys
      OBVIOUS
    <3> QED
      BY <2>1, <3>1 DEF TickLoad
  <2>2. CASE TickSkip(id)
    BY <2>2 DEF TickSkip
  <2>3. CASE TickSave(id)
    <3>1. tick' \in [pc : {"idle", "next", "loaded"}, todo : SUBSET Ids,
                     cur : SUBSET Ids, state : SUBSET Keys]
      BY <2>3 DEF TickSave
    <3>2. rows' \in [Ids -> SUBSET Keys]
      BY <2>3 DEF TickSave
    <3> QED
      BY <2>3, <3>1, <3>2 DEF TickSave
  <2> QED
    BY <1>4, <2>1, <2>2, <2>3 DEF TickOne
<1>5. CASE ReapList \/ ReapSnapshot \/ ReapEnd
  BY <1>5 DEF ReapList, ReapSnapshot, ReapEnd, RowIds, NoReap
<1>6. CASE TickList \/ TickEnd
  <2>1. RowIds \subseteq Ids
    BY DEF RowIds
  <2>2. CASE TickList
    BY <2>1, <2>2 DEF TickList, NoTick
  <2>3. CASE TickEnd
    BY <2>3 DEF TickEnd, NoTick
  <2> QED
    BY <1>6, <2>2, <2>3
<1>7. CASE Crash \/ Boot
  <2>1. CASE Crash
    <3>1. crashes' \in 0..MaxCrashes
      BY <2>1, MaxCrashesAssumption DEF Crash
    <3>2. spawn' \in [Ids -> SpawnSteps] /\ stop' \in [Ids -> StopSteps]
      BY <2>1 DEF Crash
    <3>3. /\ reaper' \in [pc : {"idle", "listed", "sweep"}, todo : SUBSET Ids]
          /\ tick' \in [pc : {"idle", "next", "loaded"}, todo : SUBSET Ids,
                        cur : SUBSET Ids, state : SUBSET Keys]
      BY <2>1 DEF Crash, NoReap, NoTick
    <3> QED
      BY <2>1, <3>1, <3>2, <3>3 DEF Crash
  <2>2. CASE Boot
    <3>1. PICK gone \in SUBSET RowIds :
             rows' = [id \in Ids |-> IF id \in gone THEN {} ELSE rows[id]]
      BY <2>2 DEF Boot
    <3>2. rows' \in [Ids -> SUBSET Keys]
      BY <3>1
    <3> QED
      BY <2>2, <3>2 DEF Boot
  <2> QED
    BY <1>7, <2>1, <2>2
<1>8. CASE UNCHANGED vars
  BY <1>8 DEF vars
<1> QED
  BY <1>1, <1>2, <1>3, <1>4, <1>5, <1>6, <1>7, <1>8 DEF Next

(* The bookkeeping is inductive by itself, one case per actor.             *)
LEMMA BookStep == Book /\ [Next]_vars => Book'
<1> SUFFICES ASSUME Book, [Next]_vars PROVE Book'
  OBVIOUS
<1>t. TypeOK /\ TypeOK'
  BY TypeStep DEF Book
<1> DEFINE Rest == RowsFromSpawns /\ RegistryDiscipline /\ ReaperSparesLive
<1>0. SUFFICES Rest'
  BY <1>t DEF Book
<1> USE <1>t DEF Book, TypeOK, SpawnSteps, StopSteps, Keys, HasRow,
                 RowsFromSpawns, RegistryDiscipline, ReaperSparesLive
<1>1. ASSUME NEW id \in Ids, SpawnRegister(id) PROVE Rest'
  BY <1>1 DEF SpawnRegister
<1>2. ASSUME NEW id \in Ids, SpawnPersistInfo(id) PROVE Rest'
  BY <1>2 DEF SpawnPersistInfo
<1>3. ASSUME NEW id \in Ids, SpawnSaveRow(id) PROVE Rest'
  BY <1>3 DEF SpawnSaveRow, InitialState
<1>4. ASSUME NEW id \in Ids, StopSteppedBy(id) \/ ExitClean(id) PROVE Rest'
  BY <1>4 DEF StopSteppedBy, StopRemove, StopRemoveFile, StopDeleteRow, ExitClean
<1>5. ASSUME NEW id \in Ids, Sweep(id) PROVE Rest'
  BY <1>5 DEF Sweep, ReapDelete, ReapDeleteFails, Reaped
<1>6. ASSUME NEW id \in Ids, TickLoad(id) PROVE Rest'
  BY <1>6 DEF TickLoad
<1>7. ASSUME NEW id \in Ids, TickSkip(id) \/ TickSave(id) PROVE Rest'
  <2>1. CASE TickSkip(id)
    BY <2>1 DEF TickSkip
  <2>2. CASE TickSave(id)
    BY <2>2 DEF TickSave
  <2> QED
    BY <1>7, <2>1, <2>2
<1>8. CASE ReapList \/ ReapSnapshot \/ ReapEnd
  BY <1>8 DEF ReapList, ReapSnapshot, ReapEnd, RowIds, NoReap
<1>9. CASE TickList \/ TickEnd
  <2>1. RowIds \subseteq saved
    BY DEF RowIds
  <2>2. CASE TickList
    BY <2>1, <2>2 DEF TickList, NoTick
  <2>3. CASE TickEnd
    BY <2>3 DEF TickEnd, NoTick
  <2> QED
    BY <1>9, <2>2, <2>3
<1>10. CASE Crash \/ Boot
  <2>1. CASE Crash
    BY <2>1 DEF Crash, NoReap, NoTick
  <2>2. CASE Boot
    BY <2>2 DEF Boot, RowIds
  <2> QED
    BY <1>10, <2>1, <2>2
<1>11. CASE UNCHANGED vars
  BY <1>11 DEF vars
<1> QED
  BY <1>1, <1>2, <1>3, <1>4, <1>5, <1>6, <1>7, <1>8, <1>9, <1>10, <1>11
     DEF Next, SpawnSteppedBy, TickOne

(* The inductive step of what concerns the rows of live sessions.          *)
LEMMA InvStep == IInv /\ [Next]_vars => IInv'
<1> SUFFICES ASSUME IInv, [Next]_vars PROVE IInv'
  OBVIOUS
<1>t. TypeOK /\ TypeOK' /\ Book'
  BY TypeStep, BookStep DEF IInv, Book
<1> DEFINE Rest == TickCarriesIdentity /\ LiveRowKept /\ LiveRowNamed
<1>0. SUFFICES Rest'
  BY <1>t DEF IInv
<1> USE <1>t DEF IInv, Book, TypeOK, SpawnSteps, StopSteps, Keys, HasRow,
                 RowsFromSpawns, RegistryDiscipline, ReaperSparesLive,
                 TickCarriesIdentity, LiveRowKept, LiveRowNamed
<1>1. ASSUME NEW id \in Ids, SpawnRegister(id) PROVE Rest'
  BY <1>1 DEF SpawnRegister
<1>2. ASSUME NEW id \in Ids, SpawnPersistInfo(id) PROVE Rest'
  BY <1>2 DEF SpawnPersistInfo
<1>3. ASSUME NEW id \in Ids, SpawnSaveRow(id) PROVE Rest'
  BY <1>3 DEF SpawnSaveRow, InitialState
<1>4. ASSUME NEW id \in Ids, StopSteppedBy(id) \/ ExitClean(id) PROVE Rest'
  BY <1>4 DEF StopSteppedBy, StopRemove, StopRemoveFile, StopDeleteRow, ExitClean
<1>5. ASSUME NEW id \in Ids, Sweep(id) PROVE Rest'
  BY <1>5 DEF Sweep, ReapDelete, ReapDeleteFails, Reaped
<1>6. ASSUME NEW id \in Ids, TickLoad(id) PROVE Rest'
  BY <1>6 DEF TickLoad
<1>7. ASSUME NEW id \in Ids, TickSkip(id) \/ TickSave(id) PROVE Rest'
  <2>1. CASE TickSkip(id)
    BY <2>1 DEF TickSkip
  <2>2. CASE TickSave(id)
    BY <2>2 DEF TickSave
  <2> QED
    BY <1>7, <2>1, <2>2
<1>8. CASE ReapList \/ ReapSnapshot \/ ReapEnd
  BY <1>8 DEF ReapList, ReapSnapshot, ReapEnd, RowIds, NoReap
<1>9. CASE TickList \/ TickEnd
  <2>1. RowIds \subseteq saved
    BY DEF RowIds
  <2>2. CASE TickList
    BY <2>1, <2>2 DEF TickList, NoTick
  <2>3. CASE TickEnd
    BY <2>3 DEF TickEnd, NoTick
  <2> QED
    BY <1>9, <2>2, <2>3
<1>10. CASE Crash \/ Boot
  <2>1. CASE Crash
    BY <2>1 DEF Crash, NoReap, NoTick
  <2>2. CASE Boot
    BY <2>2 DEF Boot, RowIds
  <2> QED
    BY <1>10, <2>1, <2>2
<1>11. CASE UNCHANGED vars
  BY <1>11 DEF vars
<1> QED
  BY <1>1, <1>2, <1>3, <1>4, <1>5, <1>6, <1>7, <1>8, <1>9, <1>10, <1>11
     DEF Next, SpawnSteppedBy, TickOne

-----------------------------------------------------------------------------
(* Every variable of the session store keeps its type.                     *)
THEOREM TypeCorrect == Spec => []TypeOK
<1>1. Init => TypeOK
  BY InitIInv DEF IInv, Book
<1> QED
  BY <1>1, TypeStep, PTL DEF Spec

(* The strengthened invariant holds in every reachable state.              *)
THEOREM Inductive == Spec => []IInv
BY InitIInv, InvStep, PTL DEF Spec

(* orphanReaperLoop's comment: the reaper, the Stops, the tick loop and    *)
(* crashes never leave a live session whose row was written without it.    *)
THEOREM LiveRowsSurvive == Spec => []LiveRowKept
<1>1. IInv => LiveRowKept
  BY DEF IInv
<1> QED
  BY <1>1, Inductive, PTL

(* tickOnce never replaces the row of a live session by a bare time stamp. *)
THEOREM LiveRowsKeepIdentity == Spec => []LiveRowNamed
<1>1. IInv => LiveRowNamed
  BY DEF IInv
<1> QED
  BY <1>1, Inductive, PTL
-----------------------------------------------------------------------------
(* The dashboard.  What a page shows and what a cleanup still has to do    *)
(* are ids of rows, and so of spawns whose first Save succeeded.           *)
DashboardHolds == shown \subseteq saved /\ cleanup.todo \subseteq saved

\* A list in progress knows every live session that had been registered when
\* it began.
ListKnowsOld ==
    list.pc = "live" => /\ \A id \in list.old : spawn[id] # "new"
                        /\ reg \cap list.old \subseteq list.live

HIInv == HTypeOK /\ Book /\ DashboardHolds /\ ListKnowsOld /\ MisshownIsNewborn

\* Rows that are listed are rows of finished spawns.
LEMMA RowsAreSaved == Book => RowIds \subseteq saved
BY DEF Book, RowsFromSpawns, RowIds

\* The initial states, with no request in progress and no page.
LEMMA HInitIInv == HInit => HIInv
<1> SUFFICES ASSUME HInit PROVE HIInv
  OBVIOUS
<1>1. Book /\ TypeOK
  BY InitIInv DEF HInit, IInv, Book
<1> QED
  BY <1>1 DEF HInit, HIInv, HTypeOK, DashboardHolds, NoList, NoCleanup, ListKnowsOld,
              MisshownIsNewborn

\* Deleting a row, by whoever it is, disturbs nobody's bookkeeping.
LEMMA BookRows ==
  ASSUME Book, rows' \in [Ids -> SUBSET Keys],
         \A id \in Ids : rows'[id] \in {rows[id], {}},
         UNCHANGED <<up, reg, spawn, stop, files, saved, reaper, tick, crashes>>
  PROVE  Book'
<1>1. TypeOK' /\ RegistryDiscipline' /\ ReaperSparesLive'
  BY DEF Book, TypeOK, RegistryDiscipline, ReaperSparesLive
<1>2. RowsFromSpawns'
  BY DEF Book, RowsFromSpawns, HasRow
<1> QED
  BY <1>1, <1>2 DEF Book

\* What each delete of the dashboard does to the rows.
LEMMA DashboardDeletes ==
  ASSUME TypeOK, NEW id \in Ids, DeleteShown(id) \/ CleanupOne(id)
  PROVE  /\ rows' \in [Ids -> SUBSET Keys]
         /\ \A i \in Ids : rows'[i] \in {rows[i], {}} /\ (i # id => rows'[i] = rows[i])
         /\ UNCHANGED <<up, reg, spawn, stop, files, saved, reaper, tick, crashes>>
<1>1. rows' \in {rows, [rows EXCEPT ![id] = {}]}
  BY DEF DeleteShown, CleanupOne, TypeOK
<1>2. UNCHANGED <<up, reg, spawn, stop, files, saved, reaper, tick, crashes>>
  BY DEF DeleteShown, CleanupOne
<1> QED
  BY <1>1, <1>2 DEF TypeOK

\* Once a first Save succeeded, it did.
LEMMA SavedGrows == [Next]_vars => saved \subseteq saved'
BY DEF Next, vars, SpawnSteppedBy, SpawnRegister, SpawnPersistInfo, SpawnSaveRow,
       StopSteppedBy, StopRemove, StopRemoveFile, StopDeleteRow, ExitClean,
       Sweep, ReapDelete, ReapDeleteFails, TickOne, TickLoad, TickSkip, TickSave,
       ReapList, ReapSnapshot, ReapEnd, TickList, TickEnd, Crash, Boot

\* An id is registered once: only the Spawn that created it registers it.
LEMMA RegisteredOnce ==
  ASSUME TypeOK, [Next]_vars
  PROVE  \A id \in Ids : spawn[id] # "new" =>
            spawn'[id] # "new" /\ (id \in reg' => id \in reg)
<1> SUFFICES ASSUME NEW id \in Ids, spawn[id] # "new"
             PROVE  spawn'[id] # "new" /\ (id \in reg' => id \in reg)
  OBVIOUS
<1>1. ASSUME NEW i \in Ids, SpawnSteppedBy(i)
      PROVE  spawn'[id] # "new" /\ (id \in reg' => id \in reg)
  <2>1. CASE SpawnRegister(i)
    BY <2>1 DEF SpawnRegister, TypeOK
  <2>2. CASE SpawnPersistInfo(i) \/ SpawnSaveRow(i)
    BY <2>2 DEF SpawnPersistInfo, SpawnSaveRow, TypeOK
  <2> QED
    BY <1>1, <2>1, <2>2 DEF SpawnSteppedBy
<1>2. CASE Crash
  BY <1>2 DEF Crash
<1>3. CASE ~Crash /\ ~\E i \in Ids : SpawnSteppedBy(i)
  BY <1>3 DEF Next, vars, StopSteppedBy, StopRemove, StopRemoveFile, StopDeleteRow, ExitClean,
              Sweep, ReapDelete, ReapDeleteFails, TickOne, TickLoad, TickSkip, TickSave,
              ReapList, ReapSnapshot, ReapEnd, TickList, TickEnd, Boot
<1> QED
  BY <1>1, <1>2, <1>3

\* So a page and a list in progress stay as right as they were.
LEMMA PageAges ==
  ASSUME HIInv, [Next]_vars, shown' = shown, newborn' = newborn,
         list' \in {list, NoList}
  PROVE  ListKnowsOld' /\ MisshownIsNewborn'
<1>t. TypeOK /\ shown \subseteq Ids /\ list.old \subseteq Ids /\ reg \subseteq Ids
  BY DEF HIInv, HTypeOK, TypeOK
<1>o. \A id \in Ids : spawn[id] # "new" =>
            spawn'[id] # "new" /\ (id \in reg' => id \in reg)
  BY <1>t, RegisteredOnce
<1>1. MisshownIsNewborn'
  <2>1. \A id \in shown : spawn[id] = "done"
    BY DEF HIInv, DashboardHolds, Book, RowsFromSpawns
  <2>2. shown \cap reg' \subseteq shown \cap reg
    BY <1>t, <1>o, <2>1
  <2> QED
    BY <2>2 DEF HIInv, MisshownIsNewborn
<1>2. ListKnowsOld'
  BY <1>t, <1>o DEF HIInv, ListKnowsOld, NoList
<1> QED
  BY <1>1, <1>2

\* Every step of the store or of the dashboard keeps the bookkeeping.
LEMMA HInvStep == HIInv /\ [HNext]_allVars => HIInv'
<1> SUFFICES ASSUME HIInv, [HNext]_allVars PROVE HIInv'
  OBVIOUS
<1>t. Book /\ TypeOK
  BY DEF HIInv, Book
<1>1. CASE StoreStep \/ UNCHANGED allVars
  <2>1. [Next]_vars /\ UNCHANGED httpVars
    BY <1>1 DEF StoreStep, Next, allVars
  <2>2. Book' /\ TypeOK' /\ saved \subseteq saved'
    BY <1>t, <2>1, BookStep, SavedGrows DEF Book
  <2>3. ListKnowsOld' /\ MisshownIsNewborn'
    BY <2>1, PageAges DEF httpVars
  <2> QED
    BY <2>1, <2>2, <2>3 DEF HIInv, HTypeOK, DashboardHolds, httpVars
<1>2. CASE HCrash
  <2>1. Next /\ saved' = saved
    BY <1>2 DEF HCrash, Next, Crash
  <2>2. Book' /\ TypeOK'
    BY <1>t, <2>1, BookStep DEF Book
  <2>3. ListKnowsOld' /\ MisshownIsNewborn'
    BY <1>2, <2>1, PageAges DEF HCrash
  <2> QED
    BY <1>2, <2>1, <2>2, <2>3 DEF HCrash, HIInv, HTypeOK, DashboardHolds, NoList, NoCleanup
<1>3. CASE ListLive \/ ListRows \/ CleanupList \/ CleanupEnd
  <2>1. UNCHANGED vars
    BY <1>3 DEF ListLive, ListRows, CleanupList, CleanupEnd
  <2>2. Book' /\ TypeOK'
    BY <1>t, <2>1, BookStep DEF Book
  <2>3. RowIds \subseteq saved /\ saved \subseteq Ids /\ saved' = saved /\ reg \subseteq Ids
    BY <1>t, <2>1, RowsAreSaved DEF TypeOK, vars
  <2>4. HTypeOK' /\ DashboardHolds'
    <3>1. CASE ListLive
      BY <3>1, <2>2, <2>3 DEF ListLive, HIInv, HTypeOK, DashboardHolds
    <3>2. CASE ListRows
      BY <3>2, <2>2, <2>3 DEF ListRows, NoList, HIInv, HTypeOK, DashboardHolds
    <3>3. CASE CleanupList
      BY <3>3, <2>2, <2>3 DEF CleanupList, HIInv, HTypeOK, DashboardHolds
    <3>4. CASE CleanupEnd
      BY <3>4, <2>2, <2>3 DEF CleanupEnd, NoCleanup, HIInv, HTypeOK, DashboardHolds
    <3> QED
      BY <1>3, <3>1, <3>2, <3>3, <3>4
  <2>5. ListKnowsOld' /\ MisshownIsNewborn'
    <3>1. CASE ListLive
      BY <3>1, <2>1 DEF ListLive, HIInv, ListKnowsOld, MisshownIsNewborn, vars
    <3>2. CASE ListRows
      <4>1. /\ shown' = RowIds \ list.live /\ newborn' = RowIds \ list.old /\ reg' = reg
            /\ list' = NoList /\ list.pc = "live"
        BY <3>2, <2>1 DEF ListRows, vars
      <4>2. reg \cap list.old \subseteq list.live
        BY <4>1 DEF HIInv, ListKnowsOld
      <4> QED
        BY <4>1, <4>2 DEF ListKnowsOld, MisshownIsNewborn, NoList
    <3>3. CASE CleanupList \/ CleanupEnd
      BY <3>3, <2>1, PageAges DEF CleanupList, CleanupEnd
    <3> QED
      BY <1>3, <3>1, <3>2, <3>3
  <2> QED
    BY <2>2, <2>4, <2>5 DEF HIInv
<1>4. ASSUME NEW id \in Ids, DeleteShown(id) \/ CleanupOne(id) PROVE HIInv'
  <2>1. Book' /\ TypeOK' /\ saved' = saved
    BY <1>t, <1>4, DashboardDeletes, BookRows DEF Book
  <2>2. /\ list' = list /\ shown' = shown /\ newborn' = newborn
        /\ cleanup' \in {cleanup, [cleanup EXCEPT !.todo = @ \ {id}]}
        /\ reg' = reg /\ spawn' = spawn
    BY <1>4 DEF DeleteShown, CleanupOne, httpVars
  <2>3. ListKnowsOld' /\ MisshownIsNewborn'
    BY <2>2 DEF HIInv, ListKnowsOld, MisshownIsNewborn
  <2> QED
    BY <2>1, <2>2, <2>3 DEF HIInv, HTypeOK, DashboardHolds
<1> QED
  BY <1>1, <1>2, <1>3, <1>4 DEF HNext

(* The bookkeeping holds in every reachable state, the dashboard's deletes *)
(* included.                                                               *)
THEOREM HInductive == HSpec => []HIInv
BY HInitIInv, HInvStep, PTL DEF HSpec

(* Every variable of the store and of the dashboard requests keeps its     *)
(* type.                                                                   *)
THEOREM HTypeCorrect == HSpec => []HTypeOK
<1>1. HIInv => HTypeOK
  BY DEF HIInv
<1> QED
  BY <1>1, HInductive, PTL

(* A page is merged from two reads and acted upon later.  The only live    *)
(* sessions it can show as dead, and so delete, are those registered       *)
(* between its two reads: a page that was right when it was made stays     *)
(* right, and a session that was running all along is never at risk.       *)
THEOREM OnlyNewbornMisshown == HSpec => []MisshownIsNewborn
<1>1. HIInv => MisshownIsNewborn
  BY DEF HIInv
<1> QED
  BY <1>1, HInductive, PTL

(* A live session loses its row only to the dashboard: to the DELETE of a  *)
(* row that a page shows, or to a cleanup that listed it.                  *)
OnlyDashboard ==
    \A id \in reg : HasRow(id) /\ rows'[id] = {} => DeleteShown(id) \/ CleanupOne(id)

\* No step of the store itself takes the row of a live session away.
LEMMA StoreSparesLive ==
  ASSUME Book, [Next]_vars, NEW id \in reg, HasRow(id)
  PROVE  rows'[id] # {}
<1>t. TypeOK /\ id \in Ids /\ up = TRUE /\ stop[id] = "idle" /\ rows[id] # {}
  BY DEF Book, TypeOK, RegistryDiscipline, HasRow
<1>1. ASSUME NEW i \in Ids, SpawnSteppedBy(i) PROVE rows'[id] # {}
  <2>1. rows' \in {rows, [rows EXCEPT ![i] = InitialState]}
    BY <1>1 DEF SpawnSteppedBy, SpawnRegister, SpawnPersistInfo, SpawnSaveRow
  <2> QED
    BY <1>t, <2>1 DEF TypeOK, InitialState
<1>2. ASSUME NEW i \in Ids, StopSteppedBy(i) \/ ExitClean(i) PROVE rows'[id] # {}
  <2>1. rows' = rows \/ (stop[i] = "unfiled" /\ rows' = [rows EXCEPT ![i] = {}])
    BY <1>2 DEF StopSteppedBy, StopRemove, StopRemoveFile, StopDeleteRow, ExitClean
  <2> QED
    BY <1>t, <2>1 DEF TypeOK
<1>3. ASSUME NEW i \in Ids, Sweep(i) PROVE rows'[id] # {}
  <2>1. i # id
    BY <1>3 DEF Sweep, ReapDelete, ReapDeleteFails, Book, ReaperSparesLive
  <2> QED
    BY <1>t, <1>3, <2>1 DEF Sweep, ReapDelete, ReapDeleteFails, TypeOK
<1>4. ASSUME NEW i \in Ids, TickOne(i) PROVE rows'[id] # {}
  <2>1. rows' \in {rows, [rows EXCEPT ![i] = tick.state \cup {"ticks"}]}
    BY <1>4 DEF TickOne, TickLoad, TickSkip, TickSave
  <2> QED
    BY <1>t, <2>1 DEF TypeOK
<1>5. CASE ReapList \/ ReapSnapshot \/ ReapEnd \/ TickList \/ TickEnd \/ Crash
           \/ UNCHANGED vars
  BY <1>t, <1>5 DEF ReapList, ReapSnapshot, ReapEnd, TickList, TickEnd, Crash, vars
<1>6. CASE Boot
  BY <1>t, <1>6 DEF Boot
<1> QED
  BY <1>1, <1>2, <1>3, <1>4, <1>5, <1>6 DEF Next

(* Neither the reaper, nor a Stop, a crash, a boot with cleanup or the     *)
(* tick loop deletes a live session's row, also while the dashboard        *)
(* deletes rows behind their backs: the one component that does is the     *)
(* dashboard, which looks an id up as a name.                              *)
THEOREM OnlyDashboardDeletes == HSpec => [][OnlyDashboard]_allVars
<1>1. HIInv /\ [HNext]_allVars => [OnlyDashboard]_allVars
  <2> SUFFICES ASSUME HIInv, [HNext]_allVars, NEW id \in reg, HasRow(id), rows'[id] = {}
               PROVE  DeleteShown(id) \/ CleanupOne(id)
    BY DEF OnlyDashboard
  <2>t. Book /\ TypeOK /\ id \in Ids
    BY DEF HIInv, Book, TypeOK
  <2>1. ~[Next]_vars
    BY <2>t, StoreSparesLive
  <2>2. \E i \in Ids : DeleteShown(i) \/ CleanupOne(i)
    BY <2>1 DEF HNext, StoreStep, Next, HCrash, ListLive, ListRows, CleanupList,
                CleanupEnd, allVars
  <2>3. PICK i \in Ids : DeleteShown(i) \/ CleanupOne(i)
    BY <2>2
  <2>4. i # id => rows'[id] = rows[id]
    BY <2>t, <2>3, DashboardDeletes
  <2> QED
    BY <2>3, <2>4 DEF HasRow
<1> QED
  BY <1>1, HInductive, PTL DEF HSpec

-----------------------------------------------------------------------------
(* A row that Stop deleted may come back (StoppedRowStaysGone fails): from *)
(* the Spawn it overtook or from a tick that listed the row before.  There *)
(* is no third way.                                                        *)

\* No row, and nobody left who could write one: the Spawn that created the id
\* is over and the tick in progress did not list it.
Gone(id) ==
    /\ spawn[id] = "done" /\ ~HasRow(id)
    /\ id \notin tick.todo \cup tick.cur

GoneStays == \A id \in Ids : Gone(id) => Gone(id)'

\* No step of the store brings such a row back.
LEMMA StoreGoneStays ==
  ASSUME TypeOK, [Next]_vars, NEW id \in Ids, Gone(id)
  PROVE  Gone(id)'
<1>t. /\ spawn[id] = "done" /\ rows[id] = {} /\ id \notin tick.todo /\ id \notin tick.cur
      /\ tick \in [pc : {"idle", "next", "loaded"}, todo : SUBSET Ids,
                   cur : SUBSET Ids, state : SUBSET Keys]
  BY DEF Gone, HasRow, TypeOK
<1>1. ASSUME NEW i \in Ids, SpawnSteppedBy(i) PROVE Gone(id)'
  <2>1. i # id /\ tick' = tick
    BY <1>t, <1>1 DEF SpawnSteppedBy, SpawnRegister, SpawnPersistInfo, SpawnSaveRow
  <2>2. spawn'[id] = spawn[id] /\ rows'[id] = rows[id]
    BY <1>1, <2>1 DEF SpawnSteppedBy, SpawnRegister, SpawnPersistInfo, SpawnSaveRow, TypeOK
  <2> QED
    BY <1>t, <2>1, <2>2 DEF Gone, HasRow
<1>2. ASSUME NEW i \in Ids, StopSteppedBy(i) \/ ExitClean(i) \/ Sweep(i) PROVE Gone(id)'
  <2>1. spawn' = spawn /\ tick' = tick /\ rows' \in {rows, [rows EXCEPT ![i] = {}]}
    BY <1>2 DEF StopSteppedBy, StopRemove, StopRemoveFile, StopDeleteRow, ExitClean,
                Sweep, ReapDelete, ReapDeleteFails
  <2>2. rows'[id] = {}
    BY <1>t, <2>1 DEF TypeOK
  <2> QED
    BY <1>t, <2>1, <2>2 DEF Gone, HasRow
<1>3. ASSUME NEW i \in Ids, TickOne(i) PROVE Gone(id)'
  <2>1. i # id /\ spawn' = spawn
    BY <1>t, <1>3 DEF TickOne, TickLoad, TickSkip, TickSave
  <2>2. rows'[id] = rows[id]
    BY <1>3, <2>1 DEF TickOne, TickLoad, TickSkip, TickSave, TypeOK
  <2>3. id \notin tick'.todo /\ id \notin tick'.cur
    <3>1. CASE TickLoad(i)
      BY <1>t, <2>1, <3>1 DEF TickLoad
    <3>2. CASE TickSkip(i)
      BY <1>t, <3>2 DEF TickSkip
    <3>3. CASE TickSave(i)
      BY <1>t, <3>3 DEF TickSave
    <3> QED
      BY <1>3, <3>1, <3>2, <3>3 DEF TickOne
  <2> QED
    BY <1>t, <2>1, <2>2, <2>3 DEF Gone, HasRow
<1>4. CASE ReapList \/ ReapSnapshot \/ ReapEnd \/ UNCHANGED vars
  BY <1>t, <1>4 DEF ReapList, ReapSnapshot, ReapEnd, vars, Gone, HasRow
<1>5. CASE TickList
  <2>1. id \notin RowIds
    BY <1>t DEF RowIds, HasRow
  <2> QED
    BY <1>t, <1>5, <2>1 DEF TickList, NoTick, Gone, HasRow
<1>6. CASE TickEnd
  BY <1>t, <1>6 DEF TickEnd, NoTick, Gone, HasRow
<1>7. CASE Crash
  BY <1>t, <1>7 DEF Crash, NoTick, Gone, HasRow
<1>8. CASE Boot
  <2>1. rows'[id] = {} /\ spawn' = spawn /\ tick' = tick
    BY <1>t, <1>8 DEF Boot
  <2> QED
    BY <1>t, <2>1 DEF Gone, HasRow
<1> QED
  BY <1>1, <1>2, <1>3, <1>4, <1>5, <1>6, <1>7, <1>8 DEF Next

(* Once the row of a finished Spawn is gone, and gone from the list of the *)
(* tick in progress, nothing brings it back, not even a crash and reboot:  *)
(* the two late writers are the only way in which a stopped session comes  *)
(* back to the dashboard.                                                  *)
THEOREM GoneRowsStayGone == HSpec => [][GoneStays]_allVars
<1>1. HIInv /\ [HNext]_allVars => [GoneStays]_allVars
  <2> SUFFICES ASSUME HIInv, [HNext]_allVars, NEW id \in Ids, Gone(id) PROVE Gone(id)'
    BY DEF GoneStays
  <2>t. TypeOK
    BY DEF HIInv, Book
  <2>1. CASE [Next]_vars
    BY <2>t, <2>1, StoreGoneStays
  <2>2. ASSUME NEW i \in Ids, DeleteShown(i) \/ CleanupOne(i) PROVE Gone(id)'
    <3>1. rows'[id] \in {rows[id], {}} /\ spawn' = spawn /\ tick' = tick
      BY <2>t, <2>2, DashboardDeletes
    <3> QED
      BY <3>1 DEF Gone, HasRow
  <2> QED
    BY <2>1, <2>2 DEF HNext, StoreStep, Next, HCrash, ListLive, ListRows, CleanupList,
                      CleanupEnd, allVars
<1> QED
  BY <1>1, HInductive, PTL DEF HSpec

=============================================================================

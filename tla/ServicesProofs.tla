--------------------------- MODULE ServicesProofs ---------------------------
(***************************************************************************)
(* Theorems about delivery receipts, for any number of messages and        *)
(* launches, about the task ledger, for any number of rows, children and   *)
(* breaches, and about the provider guard, for any clock and any number of *)
(* reports.                                                                *)
(***************************************************************************)
EXTENDS Guard, Receipts, Tasks, TLAPS

-----------------------------------------------------------------------------
(* Receipts.                                                               *)


Phases == {"none", "starting", "failed", "ready", "live", "dead", "retired", "over"}

ReceiptsTypeOK ==
  /\ nextGen \in 0..MaxLaunches /\ current \in 0..MaxLaunches /\ slot \in 0..MaxLaunches
  /\ insts \subseteq Gens /\ entries \subseteq [gen : Gens, uuid : Uuids]
  /\ phase \in [Gens -> Phases]
  /\ sending \subseteq Uuids
  /\ filed \in [Uuids -> 0..MaxLaunches] /\ writtenTo \in [Uuids -> 0..MaxLaunches]
  /\ receipts \in [Uuids -> Nat]

(* Only the last launch can be on its way or alive, and while it is its    *)
(* generation is the current one.                                          *)
LaunchesInv ==
  /\ current \in {0, nextGen}
  /\ \A g \in Gens : phase[g] \in {"starting", "ready", "live"} => g = nextGen /\ current = g

(* What is awaited is awaited by the current launch, was filed under it    *)
(* and has no receipt yet.                                                 *)
EntriesInv ==
  /\ \A e \in entries : e.gen = current /\ filed[e.uuid] = e.gen /\ receipts[e.uuid] = 0
  /\ \A u \in Uuids : filed[u] = 0 => receipts[u] = 0 /\ writtenTo[u] = 0
  /\ \A u \in Uuids : filed[u] <= nextGen

(* A message in the writer's hands was filed and not written, and stays    *)
(* awaited while the launch it was filed under can still receive it.       *)
SendingInv ==
  \A u \in sending :
    /\ filed[u] # 0 /\ writtenTo[u] = 0 /\ receipts[u] = 0
    /\ \A g \in Gens : g = filed[u] /\ phase[g] \in {"starting", "ready", "live"} => Entry(g, u) \in entries

(* No message is written to a launch before the one it was filed under, or *)
(* to one that is not activated.                                           *)
WrittenInv ==
  \A u \in Uuids : writtenTo[u] # 0 =>
    /\ filed[u] <= writtenTo[u] /\ writtenTo[u] <= nextGen
    /\ phase[writtenTo[u]] \notin {"starting", "ready"}

ReceiptsInv ==
  ReceiptsTypeOK /\ LaunchesInv /\ EntriesInv /\ SendingInv /\ WrittenInv /\ Awaited /\ ReceiptTrue

-----------------------------------------------------------------------------
LEMMA ReceiptsInitHolds == ReceiptsInit => ReceiptsInv
  BY ReceiptsAssumption
  DEF ReceiptsInit, ReceiptsInv, ReceiptsTypeOK, LaunchesInv, EntriesInv, SendingInv, WrittenInv,
      Awaited, ReceiptTrue, Gens, Phases

LEMMA BeginLaunchHolds == ASSUME ReceiptsInv, BeginLaunch PROVE ReceiptsInv'
  BY ReceiptsAssumption
  DEF BeginLaunch, ReceiptsInv, ReceiptsTypeOK, LaunchesInv, EntriesInv, SendingInv, WrittenInv,
      Awaited, ReceiptTrue, Gens, Phases, Entry

LEMMA SpawnOkHolds == ASSUME ReceiptsInv, NEW g \in Gens, SpawnOk(g) PROVE ReceiptsInv'
  BY ReceiptsAssumption
  DEF SpawnOk, ReceiptsInv, ReceiptsTypeOK, LaunchesInv, EntriesInv, SendingInv, WrittenInv,
      Awaited, ReceiptTrue, Gens, Phases, Entry

LEMMA SpawnFailsHolds == ASSUME ReceiptsInv, NEW g \in Gens, SpawnFails(g) PROVE ReceiptsInv'
  BY ReceiptsAssumption
  DEF SpawnFails, ReceiptsInv, ReceiptsTypeOK, LaunchesInv, EntriesInv, SendingInv, WrittenInv,
      Awaited, ReceiptTrue, Gens, Phases, Entry

LEMMA ActivateHolds == ASSUME ReceiptsInv, NEW g \in Gens, Activate(g) PROVE ReceiptsInv'
  BY ReceiptsAssumption
  DEF Activate, ReceiptsInv, ReceiptsTypeOK, LaunchesInv, EntriesInv, SendingInv, WrittenInv,
      Awaited, ReceiptTrue, Gens, Phases, Entry

LEMMA DieHolds == ASSUME ReceiptsInv, NEW g \in Gens, Die(g) PROVE ReceiptsInv'
  BY ReceiptsAssumption
  DEF Die, ReceiptsInv, ReceiptsTypeOK, LaunchesInv, EntriesInv, SendingInv, WrittenInv,
      Awaited, ReceiptTrue, Gens, Phases, Entry

LEMMA ExitEndsLaunchHolds == ASSUME ReceiptsInv, NEW g \in Gens, ExitEndsLaunch(g) PROVE ReceiptsInv'
  BY ReceiptsAssumption
  DEF ExitEndsLaunch, EndLaunch, ReceiptsInv, ReceiptsTypeOK, LaunchesInv, EntriesInv, SendingInv, WrittenInv,
      Awaited, ReceiptTrue, Gens, Phases, Entry

LEMMA AbortSpawnHolds == ASSUME ReceiptsInv, AbortSpawn PROVE ReceiptsInv'
  BY ReceiptsAssumption
  DEF AbortSpawn, EndLaunch, ReceiptsInv, ReceiptsTypeOK, LaunchesInv, EntriesInv, SendingInv, WrittenInv,
      Awaited, ReceiptTrue, Gens, Phases, Entry

LEMMA ExitRemovesHolds == ASSUME ReceiptsInv, NEW g \in Gens, ExitRemoves(g) PROVE ReceiptsInv'
  BY ReceiptsAssumption
  DEF ExitRemoves, ReceiptsInv, ReceiptsTypeOK, LaunchesInv, EntriesInv, SendingInv, WrittenInv,
      Awaited, ReceiptTrue, Gens, Phases, Entry

LEMMA RegisterHolds == ASSUME ReceiptsInv, NEW u \in Uuids, Register(u) PROVE ReceiptsInv'
  BY ReceiptsAssumption
  DEF Register, ReceiptsInv, ReceiptsTypeOK, LaunchesInv, EntriesInv, SendingInv, WrittenInv,
      Awaited, ReceiptTrue, Gens, Phases, Entry

LEMMA WriteOkHolds == ASSUME ReceiptsInv, NEW u \in Uuids, WriteOk(u) PROVE ReceiptsInv'
  BY ReceiptsAssumption
  DEF WriteOk, ReceiptsInv, ReceiptsTypeOK, LaunchesInv, EntriesInv, SendingInv, WrittenInv,
      Awaited, ReceiptTrue, Gens, Phases, Entry

LEMMA WriteFailsHolds == ASSUME ReceiptsInv, NEW u \in Uuids, WriteFails(u) PROVE ReceiptsInv'
  BY ReceiptsAssumption
  DEF WriteFails, ReceiptsInv, ReceiptsTypeOK, LaunchesInv, EntriesInv, SendingInv, WrittenInv,
      Awaited, ReceiptTrue, Gens, Phases, Entry

LEMMA EchoHolds == ASSUME ReceiptsInv, NEW g \in Gens, NEW u \in Uuids, Echo(g, u) PROVE ReceiptsInv'
  BY ReceiptsAssumption
  DEF Echo, Take, ReceiptsInv, ReceiptsTypeOK, LaunchesInv, EntriesInv, SendingInv, WrittenInv,
      Awaited, ReceiptTrue, Gens, Phases, Entry

LEMMA ReceiptsNextHolds == ReceiptsInv /\ [ReceiptsNext]_receiptVars => ReceiptsInv'
<1>. SUFFICES ASSUME ReceiptsInv, [ReceiptsNext]_receiptVars PROVE ReceiptsInv'
  OBVIOUS
<1>1. CASE UNCHANGED receiptVars
  BY <1>1 DEF receiptVars, ReceiptsInv, ReceiptsTypeOK, LaunchesInv, EntriesInv, SendingInv, WrittenInv,
              Awaited, ReceiptTrue
<1>. QED
  BY <1>1, BeginLaunchHolds, SpawnOkHolds, SpawnFailsHolds, ActivateHolds, DieHolds,
     ExitEndsLaunchHolds, AbortSpawnHolds, ExitRemovesHolds, RegisterHolds, WriteOkHolds,
     WriteFailsHolds, EchoHolds
  DEF ReceiptsNext

-----------------------------------------------------------------------------
(* The registry of receipts keeps its invariant: one launch at most is on  *)
(* its way or alive, and what is awaited was filed under it and has no     *)
(* receipt (claude_delivery.go, beginLaunch, register and endLaunch).      *)
THEOREM ReceiptsHeld == ReceiptsSpec => []ReceiptsInv
  BY ReceiptsInitHolds, ReceiptsNextHolds, PTL DEF ReceiptsSpec

(* A message sent to the launch it was filed under keeps its claim on a    *)
(* receipt as long as that process runs, whatever exits, failed launches   *)
(* and failed writes do (claude_delivery.go, endLaunch).                   *)
THEOREM ReceiptsAwaited == ReceiptsSpec => []Awaited
<1>1. ReceiptsInv => Awaited
  BY DEF ReceiptsInv
<1>. QED
  BY <1>1, ReceiptsHeld, PTL

(* A receipt is given once and for the launch that was sent the message    *)
(* (claude_delivery.go, take).                                             *)
THEOREM ReceiptsTrue == ReceiptsSpec => []ReceiptTrue
<1>1. ReceiptsInv => ReceiptTrue
  BY DEF ReceiptsInv
<1>. QED
  BY <1>1, ReceiptsHeld, PTL

-----------------------------------------------------------------------------
(* Tasks.                                                                  *)


Statuses == {"none", "open", "blocked", "done", "dropped", "orphaned"}
Lives    == {"none", "spawned", "live", "dead", "over", "lost"}

TaskRow == [parent : 0..MaxTasks, status : Statuses, assignee : Workers \cup {NoWorker}]

TasksTypeOK ==
  /\ task \in [TaskIds -> TaskRow]
  /\ life \in [Workers -> Lives] /\ wants \in [Workers -> 0..MaxTasks]
  /\ drop \in [phase : {"none", "read", "locked"}, rows : SUBSET TaskIds]
  /\ blocking \subseteq TaskIds /\ touched \subseteq TaskIds
  /\ breached \in BOOLEAN /\ breaches \in Nat

(* A spawn is for a row.                                                   *)
WantsInv == \A c \in Workers : life[c] = "spawned" => wants[c] \in TaskIds

(* Nobody is assigned a row that a Drop has locked.                        *)
LockInv == drop.phase = "locked" => \A t \in drop.rows : task[t].assignee = NoWorker

TasksInv == TasksTypeOK /\ WantsInv /\ LockInv /\ DeadNotAtWork

LEMMA StatusSet ==
  ASSUME TasksTypeOK, NEW ts \in SUBSET TaskIds, NEW s \in Statuses
  PROVE  /\ SetStatus(ts, s) \in [TaskIds -> TaskRow]
         /\ \A t \in TaskIds : /\ SetStatus(ts, s)[t].assignee = task[t].assignee
                               /\ SetStatus(ts, s)[t].status = IF t \in ts THEN s ELSE task[t].status
  BY DEF SetStatus, TasksTypeOK, TaskRow

(* A status written to rows keeps what the Drop's lock and the types need; *)
(* the rows of dead children are the writer's affair.                      *)
LEMMA StatusKeeps ==
  ASSUME TasksInv, NEW ts \in SUBSET TaskIds, NEW s \in Statuses, task' = SetStatus(ts, s),
         life' = life, wants' = wants, drop' = drop, breached' = breached, breaches' = breaches,
         blocking' \subseteq TaskIds, touched' \subseteq TaskIds, touched \subseteq touched',
         \A t \in ts : t \in touched' \/ t \notin Swept \/ s \notin {"open", "blocked"}
  PROVE  TasksInv'
<1>1. TasksTypeOK'
  BY StatusSet DEF TasksInv, TasksTypeOK
<1>2. \A t \in TaskIds : task'[t].assignee = task[t].assignee
  BY StatusSet DEF TasksInv
<1>5. WantsInv'
  BY DEF TasksInv, WantsInv
<1>6. LockInv'
  BY <1>2 DEF TasksInv, LockInv, TasksTypeOK
<1>3. Swept' = Swept
  BY <1>2 DEF Swept
<1>4. DeadNotAtWork'
  BY <1>3, StatusSet DEF TasksInv, DeadNotAtWork, Swept
<1>. QED
  BY <1>1, <1>4, <1>5, <1>6 DEF TasksInv

-----------------------------------------------------------------------------
LEMMA TasksInitHolds == TasksInit => TasksInv
<1>. SUFFICES ASSUME TasksInit PROVE TasksInv
  OBVIOUS
<1>1. NoTask \in TaskRow /\ NoDrop \in [phase : {"none", "read", "locked"}, rows : SUBSET TaskIds]
  BY TasksAssumption DEF NoTask, NoDrop, TaskRow, Statuses
<1>2. TasksTypeOK
  <2>1. task \in [TaskIds -> TaskRow] /\ breached \in BOOLEAN
    BY <1>1 DEF TasksInit
  <2>2. life \in [Workers -> Lives] /\ wants \in [Workers -> 0..MaxTasks]
    BY TasksAssumption DEF TasksInit, Lives
  <2>. QED
    BY <1>1, <2>1, <2>2 DEF TasksInit, TasksTypeOK
<1>3. WantsInv /\ LockInv /\ DeadNotAtWork
  BY <1>1 DEF TasksInit, WantsInv, LockInv, DeadNotAtWork, Swept, NoTask, NoDrop
<1>. QED
  BY <1>2, <1>3 DEF TasksInv

LEMMA AddHolds == ASSUME TasksInv, NEW t \in TaskIds, NEW p \in 0..MaxTasks, Add(t, p) PROVE TasksInv'
  BY TasksAssumption
  DEF Add, NoTask, Added, TasksInv, TasksTypeOK, WantsInv, LockInv, DeadNotAtWork, Swept, TaskIds,
      TaskRow, Statuses, Lives

LEMMA UpdateHolds ==
  ASSUME TasksInv, NEW t \in TaskIds, NEW s \in {"open", "blocked", "done"}, Update(t, s) PROVE TasksInv'
<1>1. touched' \subseteq TaskIds
  BY DEF Update, TasksInv, TasksTypeOK
<1>. QED
  BY <1>1, StatusKeeps DEF Update, TasksInv, TasksTypeOK, Statuses

LEMMA DropReadHolds == ASSUME TasksInv, NEW t \in TaskIds, DropRead(t) PROVE TasksInv'
  BY TasksAssumption
  DEF DropRead, Subtree, NoDrop, Added, TasksInv, TasksTypeOK, WantsInv, LockInv, DeadNotAtWork, Swept, TaskIds,
      TaskRow, Statuses, Lives

LEMMA DropLockHolds == ASSUME TasksInv, DropLock PROVE TasksInv'
  BY TasksAssumption
  DEF DropLock, NoDrop, TasksInv, TasksTypeOK, WantsInv, LockInv, DeadNotAtWork, Swept, TaskIds,
      TaskRow, Statuses, Lives

LEMMA DropCommitHolds == ASSUME TasksInv, DropCommit PROVE TasksInv'
<1>. DEFINE ts == {t \in drop.rows : task[t].status \notin Closed}
<1>1. ts \in SUBSET TaskIds /\ "dropped" \in Statuses
  BY DEF TasksInv, TasksTypeOK, Statuses
<1>2. task' = SetStatus(ts, "dropped")
  BY DEF DropCommit
<1>. HIDE DEF ts
<1>3. TasksTypeOK'
  <2>1. task' \in [TaskIds -> TaskRow]
    BY <1>1, <1>2, StatusSet DEF TasksInv
  <2>. QED
    BY <2>1 DEF DropCommit, NoDrop, TasksInv, TasksTypeOK
<1>4. WantsInv' /\ LockInv'
  BY DEF DropCommit, NoDrop, TasksInv, WantsInv, LockInv
<1>7. \A t \in TaskIds : task'[t].assignee = task[t].assignee
  BY <1>1, <1>2, StatusSet DEF TasksInv
<1>5. Swept' = Swept
  BY <1>7 DEF DropCommit, Swept
<1>6. DeadNotAtWork'
  BY <1>1, <1>2, <1>5, StatusSet DEF DropCommit, TasksInv, DeadNotAtWork, Swept
<1>. QED
  BY <1>3, <1>4, <1>6 DEF TasksInv

LEMMA SpawnForHolds == ASSUME TasksInv, NEW c \in Workers, NEW t \in TaskIds, SpawnFor(c, t) PROVE TasksInv'
  BY TasksAssumption
  DEF SpawnFor, Added, TasksInv, TasksTypeOK, WantsInv, LockInv, DeadNotAtWork, Swept, TaskIds,
      TaskRow, Statuses, Lives

LEMMA AssignTaskHolds == ASSUME TasksInv, NEW c \in Workers, AssignTask(c) PROVE TasksInv'
<1>1. wants[c] \in TaskIds
  BY DEF AssignTask, TasksInv, WantsInv
<1>2. CASE UNCHANGED <<task, touched>>
  BY <1>2 DEF AssignTask, TasksInv, TasksTypeOK, WantsInv, LockInv, DeadNotAtWork, Swept, Lives
<1>3. CASE ~Locked(wants[c]) /\ task' = Assigned(c) /\ touched' = touched \ {wants[c]}
  <2>1. task' = [task EXCEPT ![wants[c]] = [task[wants[c]] EXCEPT !.assignee = c]]
    BY <1>3 DEF Assigned
  <2>2. [task[wants[c]] EXCEPT !.assignee = c] \in TaskRow
    BY <1>1 DEF TasksInv, TasksTypeOK, TaskRow
  <2>3. TasksTypeOK'
    BY <1>1, <1>3, <2>1, <2>2 DEF AssignTask, TasksInv, TasksTypeOK, Lives
  <2>4. WantsInv' /\ LockInv'
    BY <1>1, <1>3, <2>1 DEF AssignTask, Locked, TasksInv, WantsInv, LockInv, TasksTypeOK, Lives
  <2>5. DeadNotAtWork'
    BY <1>1, <1>3, <2>1 DEF AssignTask, TasksInv, DeadNotAtWork, Swept, TasksTypeOK, TaskRow, Lives
  <2>. QED
    BY <2>3, <2>4, <2>5 DEF TasksInv
<1>. QED
  BY <1>2, <1>3 DEF AssignTask

LEMMA ExitWorkerHolds == ASSUME TasksInv, NEW c \in Workers, ExitWorker(c) PROVE TasksInv'
  BY TasksAssumption
  DEF ExitWorker, TasksInv, TasksTypeOK, WantsInv, LockInv, DeadNotAtWork, Swept, TaskIds,
      TaskRow, Statuses, Lives

LEMMA SweepExitHolds == ASSUME TasksInv, NEW c \in Workers, SweepExit(c) PROVE TasksInv'
<1>. DEFINE ts == {t \in Added : task[t].assignee = c /\ task[t].status \in Orphanable}
<1>1. ts \in SUBSET TaskIds /\ "orphaned" \in Statuses
  BY DEF Added, Statuses
<1>2. CASE life' = [life EXCEPT ![c] = "lost"] /\ UNCHANGED task
  BY <1>2 DEF SweepExit, TasksInv, TasksTypeOK, WantsInv, LockInv, DeadNotAtWork, Swept, Lives
<1>3. CASE task' = SetStatus(ts, "orphaned") /\ life' = [life EXCEPT ![c] = "over"]
  <2>1. \A t \in TaskIds : task[t].assignee = c => t \in ts \/ task[t].status \notin {"open", "blocked"}
    BY DEF Added, Orphanable
  <2>. HIDE DEF ts
  <2>2. TasksTypeOK'
    BY <1>1, <1>3, StatusSet DEF SweepExit, TasksInv, TasksTypeOK, Lives
  <2>3. WantsInv' /\ LockInv'
    <3>1. \A t \in TaskIds : task'[t].assignee = task[t].assignee
      BY <1>1, <1>3, StatusSet DEF TasksInv
    <3>2. WantsInv'
      BY <1>3 DEF SweepExit, TasksInv, WantsInv, TasksTypeOK
    <3>3. LockInv'
      BY <3>1 DEF SweepExit, TasksInv, LockInv, TasksTypeOK
    <3>. QED
      BY <3>2, <3>3
  <2>4. \A t \in Swept' : t \in Swept \/ task[t].assignee = c
    BY <1>1, <1>3, StatusSet DEF TasksInv, TasksTypeOK, TaskRow, Swept
  <2>5. DeadNotAtWork'
    BY <1>1, <1>3, <2>1, <2>4, StatusSet DEF SweepExit, TasksInv, DeadNotAtWork, Swept
  <2>. QED
    BY <2>2, <2>3, <2>5 DEF TasksInv
<1>. QED
  BY <1>2, <1>3 DEF SweepExit

LEMMA ResumeWorkerHolds == ASSUME TasksInv, NEW c \in Workers, ResumeWorker(c) PROVE TasksInv'
  BY TasksAssumption
  DEF ResumeWorker, TasksInv, TasksTypeOK, WantsInv, LockInv, DeadNotAtWork, Swept, TaskIds,
      TaskRow, Statuses, Lives

LEMMA BlockListHolds == ASSUME TasksInv, BlockList PROVE TasksInv'
  BY TasksAssumption
  DEF BlockList, Added, TasksInv, TasksTypeOK, WantsInv, LockInv, DeadNotAtWork, Swept, TaskIds,
      TaskRow, Statuses, Lives

LEMMA BlockUpdateHolds == ASSUME TasksInv, BlockUpdate PROVE TasksInv'
<1>1. CASE UNCHANGED <<task, touched>>
  BY <1>1 DEF BlockUpdate, TasksInv, TasksTypeOK, WantsInv, LockInv, DeadNotAtWork, Swept
<1>2. CASE task' = SetStatus(blocking, "blocked") /\ touched' = touched \cup (blocking \cap Swept)
  BY <1>2, StatusKeeps DEF BlockUpdate, TasksInv, TasksTypeOK, Statuses
<1>. QED
  BY <1>1, <1>2 DEF BlockUpdate

LEMMA RaiseBudgetHolds == ASSUME TasksInv, RaiseBudget PROVE TasksInv'
  BY TasksAssumption
  DEF RaiseBudget, TasksInv, TasksTypeOK, WantsInv, LockInv, DeadNotAtWork, Swept, TaskIds,
      TaskRow, Statuses, Lives

LEMMA TasksNextHolds == TasksInv /\ [TasksNext]_taskVars => TasksInv'
<1>. SUFFICES ASSUME TasksInv, [TasksNext]_taskVars PROVE TasksInv'
  OBVIOUS
<1>1. CASE UNCHANGED taskVars
  BY <1>1 DEF taskVars, TasksInv, TasksTypeOK, WantsInv, LockInv, DeadNotAtWork, Swept
<1>. QED
  BY <1>1, AddHolds, UpdateHolds, DropReadHolds, DropLockHolds, DropCommitHolds, SpawnForHolds,
     AssignTaskHolds, ExitWorkerHolds, SweepExitHolds, ResumeWorkerHolds, BlockListHolds,
     BlockUpdateHolds, RaiseBudgetHolds
  DEF TasksNext

-----------------------------------------------------------------------------
(* The ledger keeps its invariant: nobody is assigned a row that a Drop    *)
(* has locked, and dead children have no row at work                       *)
(* (tasksdb/postgres.go, Drop, Assign and OrphanAssigned).                 *)
THEOREM TasksHeld == TasksSpec => []TasksInv
  BY TasksInitHolds, TasksNextHolds, PTL DEF TasksSpec

(* Once the exit of a child is swept, its rows are orphaned or closed      *)
(* until somebody writes them (controller.go, handleChildExit).            *)
THEOREM DeadChildrenNotAtWork == TasksSpec => []DeadNotAtWork
<1>1. TasksInv => DeadNotAtWork
  BY DEF TasksInv
<1>. QED
  BY <1>1, TasksHeld, PTL

(* Only the commit of a Drop makes a row dropped.                          *)
LEMMA OnlyDropDrops ==
  ASSUME TasksInv, TasksNext, NEW r \in TaskIds, ~Dropped(r), Dropped(r)' PROVE DropCommit /\ r \in drop.rows
<1>1. task \in [TaskIds -> TaskRow]
  BY DEF TasksInv, TasksTypeOK
<1>2. ASSUME NEW t \in TaskIds, NEW p \in 0..MaxTasks, Add(t, p) PROVE FALSE
  BY <1>1, <1>2 DEF Add, Dropped, NoTask
<1>3. ASSUME NEW t \in TaskIds, NEW s \in {"open", "blocked", "done"}, Update(t, s) PROVE FALSE
  BY <1>3, StatusSet DEF Update, Dropped, Statuses, TasksInv
<1>4. ASSUME DropCommit PROVE r \in drop.rows
  BY <1>4, StatusSet DEF DropCommit, Dropped, SetStatus
<1>5. ASSUME NEW c \in Workers, AssignTask(c) PROVE FALSE
  BY <1>1, <1>5 DEF AssignTask, Assigned, Dropped, TaskRow, TasksInv, WantsInv
<1>6. ASSUME NEW c \in Workers, SweepExit(c) PROVE FALSE
  BY <1>1, <1>6 DEF SweepExit, SetStatus, Dropped, TaskRow
<1>7. ASSUME BlockUpdate PROVE FALSE
  BY <1>1, <1>7 DEF BlockUpdate, SetStatus, Dropped, TaskRow
<1>8. CASE UNCHANGED task
  BY <1>8 DEF Dropped
<1>. QED
  BY <1>2, <1>3, <1>4, <1>5, <1>6, <1>7, <1>8
  DEF TasksNext, DropRead, DropLock, SpawnFor, ExitWorker, ResumeWorker, BlockList, RaiseBudget

(* No Drop takes a row from the agent it is assigned to, whatever commits  *)
(* between its check and its write (tasksdb/postgres.go, Drop).            *)
THEOREM DropsSpare == TasksSpec => DropSpares
<1>1. TasksInv /\ [TasksNext]_taskVars =>
        [\A t \in TaskIds : ~Dropped(t) /\ Dropped(t)' => task'[t].assignee = NoWorker]_taskVars
  <2>. SUFFICES ASSUME TasksInv, TasksNext, NEW t \in TaskIds, ~Dropped(t), Dropped(t)'
                PROVE  task'[t].assignee = NoWorker
    OBVIOUS
  <2>1. DropCommit /\ t \in drop.rows
    BY OnlyDropDrops
  <2>2. task[t].assignee = NoWorker
    BY <2>1 DEF DropCommit, TasksInv, LockInv
  <2>. QED
    BY <2>1, <2>2 DEF DropCommit, SetStatus, TasksInv, TasksTypeOK, TaskRow
<1>. QED
  BY <1>1, TasksHeld, PTL DEF TasksSpec, DropSpares

-----------------------------------------------------------------------------
(* The provider guard.                                                     *)

Bans == [reason : {"none", "lift", "unavailable", "structural", "operator"}, exp : Nat]

(* What the holder of opMu may have left to do: a report or the lift of    *)
(* the line, a request for the operator's ban with its memory still to be  *)
(* written, or only that.                                                  *)
LineOp(e)    == op = <<AppendStep("line", e, FALSE)>>
StarOp(f, e) == op = <<AppendStep("*", f, TRUE), PutStep("*", e)>>
PutOp(e)     == op = <<PutStep("*", e)>>

(* The row f and the entry e of one request of the operator.               *)
Pair(f, e) == \/ f = e /\ e.reason = "operator"
              \/ f.reason = "lift" /\ e = NoBan

OpInv ==
  \/ op = <<>>
  \/ \E e \in Bans : LineOp(e)
  \/ \E e, f \in Bans : StarOp(f, e) /\ Pair(f, e)
  \/ \E e \in Bans : PutOp(e) /\ Pair(log["*"], e)

GuardTypeOK ==
  /\ ejected \in [Keys -> Bans] /\ log \in [Keys -> Bans] /\ promise \in Bans
  /\ pend \subseteq [key : {"line"}, ban : Bans]
  /\ clock \in Nat /\ clean \in BOOLEAN /\ blind \in BOOLEAN
  /\ \A k \in Keys : ejected[k].reason # "lift"

(* A confirmed ban is the latest row of its key, in memory while in force  *)
(* unless the log could not be read, and no longer a promise once a        *)
(* request for the key has been logged.                                    *)
PromiseInv ==
  promise # NoBan =>
    /\ promise.reason = "operator" /\ log["*"] = promise
    /\ Live(promise) /\ ~blind => ejected["*"] = promise
    /\ \A e \in Bans : ~PutOp(e)

(* What a ban amounts to after a restart: nothing, if it is a lift, a      *)
(* short one or expired.                                                   *)
Effect(e) == IF Live(e) /\ e.reason \notin {"lift", "unavailable"} THEN e ELSE NoBan

StarInv ==
  clean => \/ \E e \in Bans : PutOp(e)
           \/ Effect(log["*"]) = Effect(ejected["*"])

(* The row b of the line, written or about to be, amounts to what is in    *)
(* memory, or to nothing while the report of the ban in memory is pending. *)
LineAgrees(b) ==
  \/ Effect(b) = Effect(ejected["line"])
  \/ Effect(b) = NoBan /\ [key |-> "line", ban |-> ejected["line"]] \in pend

LineInv ==
  clean => /\ \A e \in Bans : LineOp(e) => LineAgrees(e)
           /\ (\A e \in Bans : ~LineOp(e)) => LineAgrees(log["line"])

GuardInv == OpInv /\ GuardTypeOK /\ PromiseInv /\ StarInv /\ LineInv

-----------------------------------------------------------------------------
(* The sequences an operation is made of.                                  *)

LEMMA LineOpParts ==
  ASSUME NEW e, LineOp(e)
  PROVE  /\ op # <<>> /\ Tail(op) = <<>>
         /\ Step.do = "append" /\ Step.key = "line" /\ Step.ban = e /\ Step.must = FALSE
<1>1. op # <<>> /\ Tail(op) = <<>>
  BY DEF LineOp
<1>2. Step = AppendStep("line", e, FALSE)
  BY DEF LineOp, Step
<1>. QED
  BY <1>1, <1>2 DEF AppendStep

LEMMA StarOpParts ==
  ASSUME NEW e, NEW f, StarOp(f, e)
  PROVE  /\ op # <<>> /\ Tail(op) = <<PutStep("*", e)>>
         /\ Step.do = "append" /\ Step.key = "*" /\ Step.ban = f /\ Step.must = TRUE
<1>1. op # <<>> /\ Tail(op) = <<PutStep("*", e)>>
  BY DEF StarOp
<1>2. Step = AppendStep("*", f, TRUE)
  BY DEF StarOp, Step
<1>. QED
  BY <1>1, <1>2 DEF AppendStep

LEMMA PutOpParts ==
  ASSUME NEW e, PutOp(e)
  PROVE  /\ op # <<>> /\ Tail(op) = <<>>
         /\ Step.do = "put" /\ Step.key = "*" /\ Step.ban = e
<1>1. op # <<>> /\ Tail(op) = <<>>
  BY DEF PutOp
<1>2. Step = PutStep("*", e)
  BY DEF PutOp, Step
<1>. QED
  BY <1>1, <1>2 DEF PutStep

(* The kinds of operation exclude each other, and name their ban.          *)
Distinct ==
  /\ \A e, g : LineOp(e) /\ LineOp(g) => e = g
  /\ \A e, f, g : LineOp(e) => ~StarOp(f, g) /\ ~PutOp(g)
  /\ \A e, f, g : StarOp(f, e) => ~PutOp(g)
  /\ \A e, g : PutOp(e) /\ PutOp(g) => e = g
  /\ \A e, f : op = <<>> => ~LineOp(e) /\ ~StarOp(f, e) /\ ~PutOp(e)

LEMMA OpDistinct == Distinct
<1>1. \A e : LineOp(e) => op # <<>> /\ Step.do = "append" /\ Step.key = "line" /\ Step.ban = e
  BY LineOpParts, Zenon
<1>2. \A f, e : StarOp(f, e) => op # <<>> /\ Step.do = "append" /\ Step.key = "*"
  BY StarOpParts, Zenon
<1>3. \A e : PutOp(e) => op # <<>> /\ Step.do = "put" /\ Step.ban = e
  BY PutOpParts, Zenon
<1>. QED
  BY <1>1, <1>2, <1>3 DEF Distinct

LEMMA OpDistinctNext == Distinct'
  BY OpDistinct, PTL

(* The same operation after a step as before it, or none.                  *)
LEMMA OpSame ==
  ASSUME op' = op
  PROVE  \A e, f : /\ LineOp(e)' = LineOp(e) /\ StarOp(f, e)' = StarOp(f, e)
                   /\ PutOp(e)' = PutOp(e)
  BY DEF LineOp, StarOp, PutOp

LEMMA OpNone ==
  ASSUME op' = <<>> PROVE \A e, f : ~LineOp(e)' /\ ~StarOp(f, e)' /\ ~PutOp(e)'
  BY DEF LineOp, StarOp, PutOp

(* Which operation is at work decides the parts of the invariant that the  *)
(* rest of the state must satisfy.                                         *)
LEMMA EffectLater ==
  ASSUME clock \in Nat, clock' \in Nat, clock <= clock', NEW a \in Bans, NEW b \in Bans
  PROVE  Effect(a) = Effect(b) => Effect(a)' = Effect(b)'
  BY DEF Effect, Live, Bans, NoBan

LEMMA EffectNow ==
  ASSUME clock' = clock, NEW a \in Bans PROVE Effect(a)' = Effect(a) /\ Live(a)' = Live(a)
  BY DEF Effect, Live, Bans, NoBan

LEMMA RehydratedIsEffect ==
  ASSUME GuardTypeOK, NEW k \in Keys
  PROVE  /\ Rehydrated(k) = Effect(log[k]) /\ Rehydrated(k) \in Bans
         /\ Effect(Rehydrated(k)) = Rehydrated(k) /\ Rehydrated(k).reason # "lift"
<1>1. log[k] \in Bans /\ NoBan \in Bans
  BY DEF GuardTypeOK, Bans, NoBan
<1>. QED
  BY <1>1 DEF Rehydrated, Active, Effect, Live, NoBan, Bans

-----------------------------------------------------------------------------
LEMMA GuardInitHolds == GuardInit => GuardInv
<1>. SUFFICES ASSUME GuardInit PROVE GuardInv
  OBVIOUS
<1>1. NoBan \in Bans
  BY DEF NoBan, Bans
<1>2. GuardTypeOK /\ OpInv
  BY <1>1, GuardAssumption DEF GuardInit, GuardTypeOK, OpInv, Keys, NoBan
<1>3. PromiseInv /\ StarInv
  BY DEF GuardInit, PromiseInv, StarInv, Keys
<1>4. LineInv
  BY <1>1, OpDistinct DEF Distinct, GuardInit, LineInv, LineAgrees, Keys
<1>. QED
  BY <1>2, <1>3, <1>4 DEF GuardInv

LEMMA ObserveHolds == ASSUME GuardInv, Observe PROVE GuardInv'
<1>1. PICK e \in Bans : /\ e.reason # "lift"
                        /\ ejected' = [ejected EXCEPT !["line"] = e]
                        /\ pend' = pend \cup {[key |-> "line", ban |-> e]}
  <2>1. clock + 1 \in Nat /\ clock + 2 \in Nat
    BY DEF GuardInv, GuardTypeOK
  <2>2. \A e \in {[reason |-> "unavailable", exp |-> clock + 1],
                  [reason |-> "structural", exp |-> clock + 2]} : e \in Bans /\ e.reason # "lift"
    BY <2>1 DEF Bans
  <2>. QED
    BY <2>2, Zenon DEF Observe
<1>2. op' = op /\ log' = log /\ clock' = clock /\ clean' = clean /\ promise' = promise /\ blind' = blind
  BY DEF Observe
<1>3. ejected["line"] \in Bans /\ log["line"] \in Bans /\ Effect(ejected["line"]) = NoBan
  BY DEF Observe, Effect, GuardInv, GuardTypeOK, Keys
<1>4. ejected'["*"] = ejected["*"] /\ ejected'["line"] = e /\ e \in Bans
  BY <1>1 DEF GuardInv, GuardTypeOK, Keys
<1>5. OpInv'
  BY <1>2 DEF OpInv, GuardInv, LineOp, StarOp, PutOp, Pair
<1>6. GuardTypeOK'
  BY <1>1, <1>2 DEF GuardInv, GuardTypeOK, Keys
<1>7. PromiseInv' /\ StarInv'
  BY <1>2, <1>4, OpSame DEF GuardInv, PromiseInv, StarInv, Live, Effect
<1>8. ASSUME NEW b \in Bans, LineAgrees(b) PROVE LineAgrees(b)'
  <2>1. Effect(b) = NoBan
    BY <1>3, <1>8 DEF LineAgrees
  <2>2. Effect(b)' = NoBan
    BY <1>2, <2>1, EffectNow
  <2>. QED
    BY <1>1, <1>4, <2>2 DEF LineAgrees
<1>9. LineInv'
  BY <1>2, <1>3, <1>8, OpSame DEF GuardInv, LineInv
<1>. QED
  BY <1>5, <1>6, <1>7, <1>9 DEF GuardInv

LEMMA PruneHolds == ASSUME GuardInv, Prune PROVE GuardInv'
<1>1. \A k \in Keys : ejected'[k] = IF Live(ejected[k]) THEN ejected[k] ELSE NoBan
  BY DEF Prune
<1>2. op' = op /\ log' = log /\ clock' = clock /\ clean' = clean /\ promise' = promise /\ pend' = pend /\ blind' = blind
  BY DEF Prune
<1>3. NoBan \in Bans /\ \A k \in Keys : ejected[k] \in Bans
  BY DEF NoBan, Bans, GuardInv, GuardTypeOK
<1>4. \A k \in Keys : (Effect(ejected[k]))' = Effect(ejected[k])
  BY <1>1, <1>2, <1>3 DEF Effect, Live
<1>5. OpInv'
  BY <1>2 DEF OpInv, GuardInv, LineOp, StarOp, PutOp, Pair
<1>6. GuardTypeOK'
  BY <1>2, <1>3 DEF Prune, GuardInv, GuardTypeOK, NoBan
<1>7. PromiseInv' /\ StarInv'
  BY <1>1, <1>2, <1>4, OpSame DEF GuardInv, PromiseInv, StarInv, Live, Effect, Keys
<1>8. ASSUME NEW b \in Bans, LineAgrees(b) PROVE LineAgrees(b)'
  <2>1. Effect(b)' = Effect(b)
    BY <1>2, EffectNow
  <2>2. "line" \in Keys
    BY DEF Keys
  <2>3. CASE Live(ejected["line"])
    BY <1>1, <1>2, <1>4, <1>8, <2>1, <2>2, <2>3 DEF LineAgrees
  <2>4. CASE ~Live(ejected["line"])
    <3>1. Effect(b) = NoBan /\ Effect(ejected["line"]) = NoBan
      BY <1>8, <2>4 DEF LineAgrees, Effect
    <3>. QED
      BY <1>4, <2>1, <2>2, <3>1 DEF LineAgrees
  <2>. QED
    BY <2>3, <2>4
<1>9. LineInv'
  BY <1>2, <1>8, OpSame DEF GuardInv, LineInv, GuardTypeOK, Keys
<1>. QED
  BY <1>5, <1>6, <1>7, <1>9 DEF GuardInv

LEMMA TickHolds == ASSUME GuardInv, Tick PROVE GuardInv'
<1>1. ejected' = ejected /\ op' = op /\ log' = log /\ clean' = clean /\ promise' = promise /\ pend' = pend /\ blind' = blind
  BY DEF Tick
<1>2. clock \in Nat /\ clock' \in Nat /\ clock <= clock'
  BY DEF Tick, GuardInv, GuardTypeOK
<1>3. \A k \in Keys : ejected[k] \in Bans /\ log[k] \in Bans
  BY DEF GuardInv, GuardTypeOK
<1>4. OpInv'
  BY <1>1 DEF OpInv, GuardInv, LineOp, StarOp, PutOp, Pair
<1>5. GuardTypeOK'
  BY <1>1, <1>2 DEF GuardInv, GuardTypeOK
<1>6. PromiseInv'
  <2>1. Live(promise)' => Live(promise)
    BY <1>1, <1>2 DEF Live, GuardInv, GuardTypeOK, Bans
  <2>. QED
    BY <1>1, <2>1, OpSame DEF GuardInv, PromiseInv
<1>7. StarInv'
  <2>1. Effect(log["*"]) = Effect(ejected["*"]) => (Effect(log["*"]) = Effect(ejected["*"]))'
    BY <1>1, <1>2, <1>3, EffectLater DEF Keys
  <2>. QED
    BY <1>1, <2>1, OpSame DEF GuardInv, StarInv
<1>8. ASSUME NEW b \in Bans, LineAgrees(b) PROVE LineAgrees(b)'
  <2>1. NoBan \in Bans /\ Effect(NoBan) = NoBan /\ Effect(NoBan)' = NoBan
    BY DEF NoBan, Bans, Effect, Live
  <2>2. Effect(b) = NoBan => Effect(b)' = NoBan
    BY <1>2, <2>1, EffectLater
  <2>3. Effect(b) = Effect(ejected["line"]) => (Effect(b) = Effect(ejected["line"]))'
    BY <1>1, <1>2, <1>3, EffectLater DEF Keys
  <2>. QED
    BY <1>1, <1>8, <2>2, <2>3 DEF LineAgrees
<1>9. LineInv'
  BY <1>1, <1>3, <1>8, OpSame DEF GuardInv, LineInv, Keys
<1>. QED
  BY <1>4, <1>5, <1>6, <1>7, <1>9 DEF GuardInv

LEMMA RestartHolds == ASSUME GuardInv, Restart PROVE GuardInv'
<1>1. op' = <<>> /\ pend' = {} /\ log' = log /\ clock' = clock /\ promise' = promise
  BY DEF Restart
<1>2. NoBan \in Bans /\ Effect(NoBan) = NoBan /\ \A k \in Keys : log[k] \in Bans
  BY DEF NoBan, Bans, Effect, Live, GuardInv, GuardTypeOK
<1>3. OpInv'
  BY <1>1 DEF OpInv
<1>4. CASE ejected' = [k \in Keys |-> NoBan] /\ blind' = TRUE /\ clean' = FALSE
  <2>1. GuardTypeOK'
    BY <1>1, <1>2, <1>4 DEF GuardInv, GuardTypeOK, NoBan
  <2>2. PromiseInv'
    BY <1>1, <1>4, OpNone DEF GuardInv, PromiseInv, Live
  <2>3. StarInv' /\ LineInv'
    BY <1>4 DEF StarInv, LineInv
  <2>. QED
    BY <1>3, <2>1, <2>2, <2>3 DEF GuardInv
<1>5. CASE ejected' = [k \in Keys |-> Rehydrated(k)] /\ blind' = FALSE /\ clean' = clean
  <2>1. \A k \in Keys : /\ ejected'[k] = Effect(log[k]) /\ ejected'[k] \in Bans
                        /\ Effect(ejected'[k]) = ejected'[k] /\ ejected'[k].reason # "lift"
    BY <1>5, RehydratedIsEffect DEF GuardInv
  <2>2. GuardTypeOK'
    BY <1>1, <1>5, <2>1 DEF GuardInv, GuardTypeOK
  <2>3. \A k \in Keys : (Effect(log[k]) = Effect(ejected[k]))'
    BY <1>1, <1>2, <2>1 DEF Effect, Live
  <2>4. StarInv' /\ LineInv'
    BY <1>1, <2>3, OpNone DEF StarInv, LineInv, LineAgrees, Keys
  <2>5. PromiseInv'
    <3>1. promise # NoBan /\ Live(promise) => Effect(log["*"]) = promise
      BY DEF GuardInv, PromiseInv, Effect
    <3>. QED
      BY <1>1, <1>5, <2>1, <3>1, OpNone DEF GuardInv, PromiseInv, Live, Keys
  <2>. QED
    BY <1>3, <2>2, <2>4, <2>5 DEF GuardInv
<1>. QED
  BY <1>4, <1>5 DEF Restart

LEMMA ReportBanHolds == ASSUME GuardInv, NEW r \in pend, ReportBan(r) PROVE GuardInv'
<1>1. /\ ejected' = ejected /\ log' = log /\ clock' = clock /\ clean' = clean /\ promise' = promise /\ blind' = blind
      /\ op = <<>> /\ pend' = pend \ {r}
  BY DEF ReportBan
<1>2. r.key = "line" /\ r.ban \in Bans /\ r = [key |-> "line", ban |-> r.ban]
  BY DEF GuardInv, GuardTypeOK
<1>3. GuardTypeOK'
  BY <1>1 DEF GuardInv, GuardTypeOK
<1>4. LineInv => (clean => LineAgrees(log["line"]))
  BY <1>1, OpDistinct DEF Distinct, LineInv
<1>5. StarInv => (clean => Effect(log["*"]) = Effect(ejected["*"]))
  BY <1>1, OpDistinct DEF Distinct, StarInv
<1>6. \A b : Effect(b)' = Effect(b)
  BY <1>1 DEF Effect, Live
<1>7. CASE ejected["line"] = r.ban
  <2>1. LineOp(r.ban)'
    BY <1>1, <1>2, <1>7 DEF ReportBan, LineOp
  <2>2. OpInv'
    BY <1>2, <2>1 DEF OpInv
  <2>3. \A e, f : (LineOp(e)' => e = r.ban) /\ ~PutOp(e)'
    BY <2>1, OpDistinctNext DEF Distinct
  <2>4. PromiseInv' /\ StarInv'
    BY <1>1, <1>5, <1>6, <2>3 DEF GuardInv, PromiseInv, StarInv, Live
  <2>5. LineInv'
    BY <1>1, <1>2, <1>7, <2>1, <2>3 DEF LineInv, LineAgrees
  <2>. QED
    BY <1>3, <2>2, <2>4, <2>5 DEF GuardInv
<1>8. CASE ejected["line"] # r.ban
  <2>1. op' = <<>>
    BY <1>2, <1>8 DEF ReportBan
  <2>2. OpInv'
    BY <2>1 DEF OpInv
  <2>3. PromiseInv' /\ StarInv'
    BY <1>1, <1>5, <1>6, <2>1, OpNone DEF GuardInv, PromiseInv, StarInv, Live
  <2>4. LineAgrees(log["line"]) => LineAgrees(log["line"])'
    BY <1>1, <1>2, <1>6, <1>8 DEF LineAgrees
  <2>5. LineInv'
    BY <1>1, <1>4, <2>1, <2>4, OpNone DEF GuardInv, LineInv
  <2>. QED
    BY <1>3, <2>2, <2>3, <2>5 DEF GuardInv
<1>. QED
  BY <1>7, <1>8

(* A request of the operator: the memory is unchanged, but for a lifted    *)
(* line.                                                                   *)
LEMMA StarRequestHolds ==
  ASSUME GuardInv, NEW e \in Bans, NEW f \in Bans, Pair(f, e), op = <<>>, StarOp(f, e)',
         UNCHANGED <<ejected, log, pend, clock, clean, promise, blind>>
  PROVE  GuardInv'
<1>1. OpInv'
  BY DEF OpInv, Pair, NoBan
<1>2. GuardTypeOK'
  BY DEF GuardInv, GuardTypeOK
<1>3. \A b : Effect(b)' = Effect(b)
  BY DEF Effect, Live
<1>4. \A b : ~LineOp(b)' /\ ~PutOp(b)'
  BY OpDistinctNext DEF Distinct
<1>5. \A b : ~LineOp(b) /\ ~PutOp(b)
  BY OpDistinct DEF Distinct
<1>6. PromiseInv' /\ StarInv'
  BY <1>3, <1>4, <1>5 DEF GuardInv, PromiseInv, StarInv, Live
<1>7. LineInv'
  BY <1>3, <1>4, <1>5 DEF GuardInv, LineInv, LineAgrees
<1>. QED
  BY <1>1, <1>2, <1>6, <1>7 DEF GuardInv

LEMMA BanHolds == ASSUME GuardInv, Ban PROVE GuardInv'
<1>1. PICK exp \in {clock + 1, Never} :
        /\ Request(<<AppendStep("*", [reason |-> "operator", exp |-> exp], TRUE),
                     PutStep("*", [reason |-> "operator", exp |-> exp])>>)
        /\ UNCHANGED ejected
  BY Zenon DEF Ban
<1>2. [reason |-> "operator", exp |-> exp] \in Bans
  BY GuardAssumption DEF Bans, Never, GuardInv, GuardTypeOK
<1>3. Pair([reason |-> "operator", exp |-> exp], [reason |-> "operator", exp |-> exp])
  BY DEF Pair
<1>4. StarOp([reason |-> "operator", exp |-> exp], [reason |-> "operator", exp |-> exp])'
  BY <1>1, Zenon DEF Request, StarOp
<1>. QED
  BY <1>1, <1>2, <1>3, <1>4, StarRequestHolds DEF Request

LEMMA LiftHolds == ASSUME GuardInv, Lift PROVE GuardInv'
<1>1. LiftOf \in Bans /\ NoBan \in Bans /\ Pair(LiftOf, NoBan)
  BY DEF LiftOf, NoBan, Bans, Pair, GuardInv, GuardTypeOK
<1>2. LiftOf' = LiftOf
  BY DEF Lift, Request, LiftOf
<1>3. StarOp(LiftOf, NoBan)'
  BY <1>2, Zenon DEF Lift, Request, StarOp
<1>. QED
  BY <1>1, <1>2, <1>3, StarRequestHolds DEF Lift, Request

LEMMA LiftLineHolds == ASSUME GuardInv, LiftLine PROVE GuardInv'
<1>0. PICK b \in Bans : b = LiftOf
  BY DEF LiftOf, Bans, GuardInv, GuardTypeOK
<1>1. /\ log' = log /\ clock' = clock /\ clean' = clean /\ promise' = promise /\ pend' = pend
      /\ blind' = blind /\ op = <<>> /\ ejected' = [ejected EXCEPT !["line"] = NoBan]
  BY DEF LiftLine, Request
<1>2. b \in Bans /\ NoBan \in Bans /\ NoBan.reason # "lift"
  BY DEF NoBan, Bans, GuardInv, GuardTypeOK
<1>3. LineOp(b)'
  BY <1>0, Zenon DEF LiftLine, Request, LineOp
<1>4. OpInv'
  BY <1>2, <1>3 DEF OpInv
<1>5. GuardTypeOK'
  BY <1>1, <1>2 DEF GuardInv, GuardTypeOK, Keys
<1>6. \A e : (LineOp(e)' => e = b) /\ ~PutOp(e)' /\ ~PutOp(e)
  BY <1>1, <1>3, OpDistinctNext, OpDistinct DEF Distinct
<1>7. ejected'["*"] = ejected["*"] /\ ejected'["line"] = NoBan
  BY <1>1 DEF GuardInv, GuardTypeOK, Keys
<1>8. PromiseInv' /\ StarInv'
  BY <1>1, <1>6, <1>7 DEF GuardInv, PromiseInv, StarInv, Live, Effect
<1>9. Effect(b)' = NoBan /\ Effect(NoBan)' = NoBan
  BY <1>0 DEF Effect, Live, LiftOf
<1>10. LineInv'
  BY <1>2, <1>3, <1>6, <1>7, <1>9 DEF LineInv, LineAgrees
<1>. QED
  BY <1>4, <1>5, <1>8, <1>10 DEF GuardInv

LEMMA AppendRowHolds == ASSUME GuardInv, AppendRow PROVE GuardInv'
<1>1. /\ ejected' = ejected /\ pend' = pend /\ clock' = clock /\ clean' = clean
      /\ op # <<>> /\ Step.do = "append" /\ op' = Tail(op)
      /\ log' = [log EXCEPT ![Step.key] = Step.ban]
      /\ promise' = (IF Step.key = "*" THEN NoBan ELSE promise) /\ blind' = blind
  BY DEF AppendRow
<1>2. \A b : Effect(b)' = Effect(b)
  BY <1>1 DEF Effect, Live
<1>3. NoBan \in Bans /\ "line" \in Keys /\ "*" \in Keys
  BY DEF NoBan, Bans, Keys
<1>4. ASSUME NEW e \in Bans, LineOp(e) PROVE GuardInv'
  <2>1. Step.key = "line" /\ Step.ban = e /\ Tail(op) = <<>>
    BY <1>4, LineOpParts, Zenon
  <2>2. op' = <<>> /\ promise' = promise /\ log'["line"] = e /\ log'["*"] = log["*"] /\ log' \in [Keys -> Bans]
    BY <1>1, <1>3, <2>1 DEF GuardInv, GuardTypeOK
  <2>3. OpInv' /\ GuardTypeOK'
    BY <1>1, <2>2 DEF OpInv, GuardInv, GuardTypeOK
  <2>4. (\A b : ~LineOp(b)' /\ ~PutOp(b)') /\ \A b : ~PutOp(b)
    BY <1>4, <2>2, OpNone, OpDistinct DEF Distinct
  <2>5. PromiseInv' /\ StarInv'
    BY <1>1, <1>2, <2>2, <2>4 DEF GuardInv, PromiseInv, StarInv, Live
  <2>6. LineInv'
    BY <1>1, <1>2, <1>4, <2>2, <2>4 DEF GuardInv, LineInv, LineAgrees
  <2>. QED
    BY <2>3, <2>5, <2>6 DEF GuardInv
<1>5. ASSUME NEW e \in Bans, NEW f \in Bans, StarOp(f, e), Pair(f, e) PROVE GuardInv'
  <2>1. Step.key = "*" /\ Step.ban = f /\ Tail(op) = <<PutStep("*", e)>>
    BY <1>5, StarOpParts, Zenon
  <2>2. /\ PutOp(e)' /\ promise' = NoBan /\ log'["line"] = log["line"] /\ log'["*"] = f
        /\ log' \in [Keys -> Bans]
    BY <1>1, <1>3, <2>1 DEF GuardInv, GuardTypeOK, PutOp
  <2>3. OpInv'
    <3>1. Pair(log'["*"], e)
      BY <1>5, <2>2
    <3>2. (PutOp(e) /\ Pair(log["*"], e))'
      BY <2>2, <3>1 DEF Pair
    <3>. QED
      BY <3>2 DEF OpInv
  <2>4. GuardTypeOK' /\ PromiseInv' /\ StarInv'
    BY <1>1, <1>3, <2>2 DEF GuardInv, GuardTypeOK, PromiseInv, StarInv
  <2>5. (\A b : ~LineOp(b)) /\ \A b : ~LineOp(b)'
    BY <1>5, <2>2, OpDistinct, OpDistinctNext DEF Distinct
  <2>6. LineInv'
    BY <1>1, <1>2, <2>2, <2>5 DEF GuardInv, LineInv, LineAgrees
  <2>. QED
    BY <2>3, <2>4, <2>6 DEF GuardInv
<1>6. ASSUME NEW e \in Bans, PutOp(e) PROVE FALSE
  BY <1>1, <1>6, PutOpParts
<1>. QED
  BY <1>1, <1>4, <1>5, <1>6 DEF GuardInv, OpInv

LEMMA AppendFailsHolds == ASSUME GuardInv, AppendFails PROVE GuardInv'
<1>1. /\ ejected' = ejected /\ pend' = pend /\ clock' = clock /\ log' = log /\ promise' = promise
      /\ blind' = blind /\ op # <<>> /\ Step.do = "append"
  BY DEF AppendFails
<1>2. \A b : Effect(b)' = Effect(b)
  BY <1>1 DEF Effect, Live
<1>3. ASSUME NEW e \in Bans, LineOp(e) PROVE op' = <<>> /\ clean' = FALSE
  <2>1. Step.must = FALSE /\ Tail(op) = <<>>
    BY <1>3, LineOpParts, Zenon
  <2>. QED
    BY <2>1, Zenon DEF AppendFails
<1>4. ASSUME NEW e \in Bans, NEW f \in Bans, StarOp(f, e)
      PROVE  op' = <<>> /\ clean' = clean /\ \A b : ~LineOp(b) /\ ~PutOp(b)
  <2>1. Step.must = TRUE
    BY <1>4, StarOpParts, Zenon
  <2>2. op' = <<>> /\ clean' = (clean /\ TRUE)
    BY <2>1, Zenon DEF AppendFails
  <2>3. clean' = clean
    BY <2>2 DEF GuardInv, GuardTypeOK
  <2>4. \A b : ~LineOp(b) /\ ~PutOp(b)
    BY <1>4, OpDistinct DEF Distinct
  <2>. QED
    BY <2>2, <2>3, <2>4
<1>5. ASSUME NEW e \in Bans, PutOp(e) PROVE FALSE
  BY <1>1, <1>5, PutOpParts
<1>6. /\ op' = <<>>
      /\ clean' = FALSE \/ (clean' = clean /\ \A b : ~LineOp(b) /\ ~PutOp(b))
  BY <1>1, <1>3, <1>4, <1>5 DEF GuardInv, OpInv
<1>7. (\A b : ~LineOp(b)' /\ ~PutOp(b)') /\ OpInv'
  BY <1>6, OpNone DEF OpInv
<1>8. GuardTypeOK'
  BY <1>1, <1>6 DEF GuardInv, GuardTypeOK
<1>9. PromiseInv'
  BY <1>1, <1>7 DEF GuardInv, PromiseInv, Live
<1>10. StarInv' /\ LineInv'
  <2>1. CASE clean' = FALSE
    BY <2>1 DEF StarInv, LineInv
  <2>2. CASE clean' = clean /\ \A b : ~LineOp(b) /\ ~PutOp(b)
    BY <1>1, <1>2, <1>7, <2>2 DEF GuardInv, StarInv, LineInv, LineAgrees
  <2>. QED
    BY <1>6, <2>1, <2>2
<1>. QED
  BY <1>7, <1>8, <1>9, <1>10 DEF GuardInv

LEMMA ApplyBanHolds == ASSUME GuardInv, ApplyBan PROVE GuardInv'
<1>1. /\ log' = log /\ pend' = pend /\ clock' = clock /\ clean' = clean
      /\ op # <<>> /\ Step.do = "put" /\ op' = Tail(op) /\ promise' = Step.ban
      /\ blind' = FALSE
      /\ ejected' = [ejected EXCEPT ![Step.key] = Step.ban]
  BY DEF ApplyBan
<1>2. \A e, f : ~LineOp(e) /\ ~StarOp(f, e)
  BY <1>1, LineOpParts, StarOpParts, Zenon
<1>3. PICK e \in Bans : PutOp(e) /\ Pair(log["*"], e)
  BY <1>1, <1>2 DEF GuardInv, OpInv
<1>4. Step.key = "*" /\ Step.ban = e /\ Tail(op) = <<>>
  BY <1>3, PutOpParts, Zenon
<1>5. /\ op' = <<>> /\ promise' = e /\ ejected'["*"] = e /\ ejected'["line"] = ejected["line"]
      /\ ejected' \in [Keys -> Bans] /\ e.reason # "lift"
  BY <1>1, <1>3, <1>4 DEF GuardInv, GuardTypeOK, Keys, Pair, NoBan
<1>6. \A b : ~LineOp(b)' /\ ~PutOp(b)'
  BY <1>5, OpNone
<1>7. OpInv' /\ GuardTypeOK'
  BY <1>1, <1>5 DEF OpInv, GuardInv, GuardTypeOK, Keys
<1>8. PromiseInv' /\ StarInv'
  <2>1. e = NoBan \/ (log["*"] = e /\ e.reason = "operator")
    BY <1>3 DEF Pair
  <2>2. Effect(log["*"]) = Effect(e)
    BY <1>3 DEF Pair, Effect, Live
  <2>. QED
    BY <1>1, <1>5, <1>6, <2>1, <2>2 DEF PromiseInv, StarInv, Effect, Live
<1>9. LineInv'
  BY <1>1, <1>2, <1>5, <1>6 DEF GuardInv, LineInv, LineAgrees, Effect, Live
<1>. QED
  BY <1>7, <1>8, <1>9 DEF GuardInv

LEMMA GuardNextHolds == GuardInv /\ [GuardNext]_guardVars => GuardInv'
<1>. SUFFICES ASSUME GuardInv, [GuardNext]_guardVars PROVE GuardInv'
  OBVIOUS
<1>1. CASE UNCHANGED guardVars
  BY <1>1 DEF guardVars, GuardInv, OpInv, GuardTypeOK, PromiseInv, StarInv, LineInv, LineAgrees, Effect, Live,
              LineOp, StarOp, PutOp, Pair
<1>. QED
  BY <1>1, ReportBanHolds, ObserveHolds, BanHolds, LiftHolds, LiftLineHolds, AppendRowHolds,
     AppendFailsHolds, ApplyBanHolds, PruneHolds, TickHolds, RestartHolds
  DEF GuardNext

-----------------------------------------------------------------------------
(* The guard keeps its invariant: what opMu's holder has still to do       *)
(* accounts for every difference between the log and the memory            *)
(* (providerguard.go, Ban and Lift; providerhealth.go, reportBan).         *)
THEOREM GuardHeld == GuardSpec => []GuardInv
  BY GuardInitHolds, GuardNextHolds, PTL DEF GuardSpec

(* A ban confirmed to the operator stays in the log until it expires or is *)
(* lifted, over every failed append and every restart, and in memory       *)
(* unless the last start could not read that log (providerguard.go, Ban    *)
(* and Rehydrate).                                                         *)
THEOREM OperatorBansStand == GuardSpec => []OperatorStands
<1>1. GuardInv => OperatorStands
  BY DEF GuardInv, PromiseInv, OperatorStands, Live
<1>. QED
  BY <1>1, GuardHeld, PTL

(* While every append succeeds, a quiet guard and its log agree            *)
(* (providerhealth.go, reportBan).                                         *)
THEOREM LogStaysInAgreement == GuardSpec => []LogAgrees
<1>1. GuardInv => LogAgrees
  <2>. SUFFICES ASSUME GuardInv, clean, op = <<>>, pend = {}, NEW k \in Keys
                PROVE  Rehydrated(k) = IF Live(ejected[k]) /\ ejected[k].reason # "unavailable"
                                         THEN ejected[k] ELSE NoBan
    BY DEF LogAgrees
  <2>1. Effect(log["*"]) = Effect(ejected["*"]) /\ LineAgrees(log["line"])
    BY OpDistinct DEF Distinct, GuardInv, StarInv, LineInv
  <2>2. Effect(log[k]) = Effect(ejected[k])
    BY <2>1 DEF LineAgrees, Keys
  <2>3. Rehydrated(k) = Effect(ejected[k])
    BY <2>2, RehydratedIsEffect DEF GuardInv
  <2>. QED
    BY <2>3 DEF Effect, GuardInv, GuardTypeOK
<1>. QED
  BY <1>1, GuardHeld, PTL
=============================================================================

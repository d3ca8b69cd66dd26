-------------------------------- MODULE Tasks --------------------------------
(***************************************************************************)
(* The task ledger of one conversation (pkg/tasks, pkg/tasksdb) and those  *)
(* who write it: the agent that owns it, a spawn that hands a row to a new *)
(* child, the exit of that child (cmd/rafikid/controller.go) and the       *)
(* budget sweep (cmd/rafikid/budget_sweep.go).  A transaction that reads   *)
(* only handles, which never change, is one step; Drop, which reads what   *)
(* others write, is three.  Pending and in_progress are one status, "open",*)
(* and so are completed and failed, "done": no code tells them apart.      *)
(* Handles, texts and the notices to the bus are left out.                 *)
(***************************************************************************)
EXTENDS Integers

CONSTANTS MaxTasks,     \* bound on the rows
          Workers,      \* children the agent may spawn
          NoWorker,
          MaxBreaches   \* bound on how often the budget is exceeded

ASSUME TasksAssumption ==
  /\ MaxTasks \in Nat /\ MaxBreaches \in Nat
  /\ NoWorker \notin Workers

VARIABLES
  task,      \* the rows: parent (0 for none), status ("none" if not added), assignee
  life,      \* of each child: see SpawnFor to SweepExit
  wants,     \* the row a spawn is for
  drop,      \* the Drop in progress: its phase and the subtree it read
  blocking,  \* what blockTasksFor has listed and not yet written
  breached,  \* breachSet has the agent
  breaches,
  touched    \* rows some Update wrote after their assignee's exit was swept

taskVars == <<task, life, wants, drop, blocking, breached, breaches, touched>>

TaskIds == 1..MaxTasks
Added   == {t \in TaskIds : task[t].status # "none"}
Closed  == {"done", "dropped"}

NoTask == [parent |-> 0, status |-> "none", assignee |-> NoWorker]
NoDrop == [phase |-> "none", rows |-> {}]

TasksInit ==
  /\ task = [t \in TaskIds |-> NoTask]
  /\ life = [c \in Workers |-> "none"] /\ wants = [c \in Workers |-> 0]
  /\ drop = NoDrop /\ blocking = {} /\ breached = FALSE /\ breaches = 0 /\ touched = {}

(* descendantIDs, and the row itself.  A parent is older than its children.*)
Subtree(r) ==
  LET under[t \in TaskIds] == t = r \/ (task[t].parent # 0 /\ under[task[t].parent])
  IN  {t \in Added : under[t]}

SetStatus(ts, s) == [t \in TaskIds |-> IF t \in ts THEN [task[t] EXCEPT !.status = s] ELSE task[t]]

Locked_never(t) == FALSE

(* FOR UPDATE over the whole subtree: writers of these rows wait.          *)
Locked(t) == drop.phase = "locked" /\ t \in drop.rows

(* Rows whose child is gone, once its exit handler has seen to them.       *)
Swept == {t \in TaskIds : task[t].assignee # NoWorker /\ life[task[t].assignee] = "over"}

-----------------------------------------------------------------------------
(* The agent's own calls.                                                  *)

Add(t, p) ==
  /\ task[t].status = "none" /\ \A u \in 1..(t - 1) : u \in Added
  /\ p = 0 \/ p \in Added
  /\ task' = [task EXCEPT ![t] = [NoTask EXCEPT !.parent = p, !.status = "open"]]
  /\ UNCHANGED <<life, wants, drop, blocking, breached, breaches, touched>>

(* Any row, whatever its status, to any status UserSettable allows.        *)
Update(t, s) ==
  /\ t \in Added /\ ~Locked(t) /\ task[t].status # s
  /\ task' = SetStatus({t}, s)
  /\ touched' = touched \cup ({t} \cap Swept)
  /\ UNCHANGED <<life, wants, drop, blocking, breached, breaches>>

DropRead(t) ==
  /\ t \in Added /\ drop = NoDrop
  /\ drop' = [phase |-> "read", rows |-> Subtree(t)]
  /\ UNCHANGED <<task, life, wants, blocking, breached, breaches, touched>>

(* An assignee anywhere in the subtree refuses the drop.                   *)
DropLock ==
  /\ drop.phase = "read"
  /\ drop' = IF \A t \in drop.rows : task[t].assignee = NoWorker
               THEN [drop EXCEPT !.phase = "locked"] ELSE NoDrop
  /\ UNCHANGED <<task, life, wants, blocking, breached, breaches, touched>>

DropCommit ==
  /\ drop.phase = "locked"
  /\ task' = SetStatus({t \in drop.rows : task[t].status \notin Closed}, "dropped")
  /\ drop' = NoDrop
  /\ UNCHANGED <<life, wants, blocking, breached, breaches, touched>>

-----------------------------------------------------------------------------
(* The children.                                                           *)

(* A spawn for row t: the child is registered, nobody watches it yet.      *)
SpawnFor(c, t) ==
  /\ life[c] = "none" /\ t \in Added
  /\ life' = [life EXCEPT ![c] = "spawned"]
  /\ wants' = [wants EXCEPT ![c] = t]
  /\ UNCHANGED <<task, drop, blocking, breached, breaches, touched>>

Assigned(c) == [task EXCEPT ![wants[c]].assignee = c]

(* The row is assigned before activateLiveChild starts the monitor.  It is *)
(* tried once: a failure is logged.                                        *)
AssignTask(c) ==
  /\ life[c] = "spawned"
  /\ \/ ~Locked(wants[c]) /\ task' = Assigned(c) /\ touched' = touched \ {wants[c]}
     \/ UNCHANGED <<task, touched>>
  /\ life' = [life EXCEPT ![c] = "live"]
  /\ UNCHANGED <<wants, drop, blocking, breached, breaches>>

ExitWorker(c) ==
  /\ life[c] = "live"
  /\ life' = [life EXCEPT ![c] = "dead"]
  /\ UNCHANGED <<task, wants, drop, blocking, breached, breaches, touched>>

Orphanable_open == {"open"}

Orphanable == {"open", "blocked"}

(* OrphanAssigned, before cm.Remove.  Best effort: a failure, "lost" here, *)
(* leaves the rows as they are.                                            *)
SweepExit(c) ==
  /\ life[c] = "dead"
  /\ \/ /\ task' = SetStatus({t \in Added : task[t].assignee = c /\ task[t].status \in Orphanable},
                             "orphaned")
        /\ life' = [life EXCEPT ![c] = "over"]
     \/ life' = [life EXCEPT ![c] = "lost"] /\ UNCHANGED task
  /\ UNCHANGED <<wants, drop, blocking, breached, breaches, touched>>

(* Its rows stay as they are.                                              *)
ResumeWorker(c) ==
  /\ life[c] \in {"over", "lost"}
  /\ life' = [life EXCEPT ![c] = "live"]
  /\ touched' = {t \in touched : task[t].assignee # c}
  /\ UNCHANGED <<task, wants, drop, blocking, breached, breaches>>

-----------------------------------------------------------------------------
(* The budget of the agent.                                                *)

(* List, without the lock: every row that is neither closed nor blocked.   *)
BlockList ==
  /\ ~breached /\ breaches < MaxBreaches /\ blocking = {}
  /\ breached' = TRUE /\ breaches' = breaches + 1
  /\ blocking' = {t \in Added : task[t].status \notin Closed \cup {"blocked"}}
  /\ UNCHANGED <<task, life, wants, drop, touched>>

(* Update, of the rows as listed.  A failure is logged.                    *)
BlockUpdate ==
  /\ blocking # {}
  /\ \/ /\ \A t \in blocking : ~Locked(t)
        /\ task' = SetStatus(blocking, "blocked")
        /\ touched' = touched \cup (blocking \cap Swept)
     \/ UNCHANGED <<task, touched>>
  /\ blocking' = {}
  /\ UNCHANGED <<life, wants, drop, breached, breaches>>

RaiseBudget ==
  /\ breached /\ breached' = FALSE
  /\ UNCHANGED <<task, life, wants, drop, blocking, breaches, touched>>

-----------------------------------------------------------------------------
TasksNext ==
  \/ \E t \in TaskIds : \/ \E p \in 0..MaxTasks : Add(t, p)
                        \/ \E s \in {"open", "blocked", "done"} : Update(t, s)
                        \/ DropRead(t)
                        \/ \E c \in Workers : SpawnFor(c, t)
  \/ DropLock \/ DropCommit
  \/ \E c \in Workers : AssignTask(c) \/ ExitWorker(c) \/ SweepExit(c) \/ ResumeWorker(c)
  \/ BlockList \/ BlockUpdate \/ RaiseBudget

TasksSpec == TasksInit /\ [][TasksNext]_taskVars

-----------------------------------------------------------------------------
(* Properties.                                                             *)

Dropped(t) == task[t].status = "dropped"

(* No Drop takes a row away from the agent it is assigned to, whatever     *)
(* commits between its check and its write (tasksdb/postgres.go, Drop:     *)
(* "under a lock covering EVERY row").                                     *)
DropSpares ==
  [][\A t \in TaskIds : ~Dropped(t) /\ Dropped(t)' => task'[t].assignee = NoWorker]_taskVars

(* A dead child is not shown at work: once its exit is swept, its rows are *)
(* orphaned or closed until somebody writes them again (controller.go,     *)
(* handleChildExit: the sweep comes before "kill complete").  What a late  *)
(* budget breach writes over them is the matter of OrphansStay.            *)
DeadNotAtWork ==
  \A t \in Swept \ touched : task[t].status \notin {"open", "blocked"}

(* The budget sweep leaves the rows of dead children alone: a coordinator  *)
(* can tell "a dead worker from a paused one" (budget_sweep.go,            *)
(* sweepBudgets).                                                          *)
OrphansStay ==
  [][BlockUpdate => \A t \in TaskIds : task[t].status = "orphaned" => task'[t] = task[t]]_taskVars
=============================================================================

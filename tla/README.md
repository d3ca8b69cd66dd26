# rafiki: TLA+ models of the daemon

rafiki runs coding agents. A daemon (`cmd/rafikid`) spawns *children*: `fundi`
agents (an engine in the daemon's own process, `pkg/fundi` behind `pkg/inproc`),
`claude` and `pi` processes, and scripts. Humans, coordinators, timers,
executors and other children send messages to a child while it is mid-turn,
idle, exiting, exited, being resumed, or while the daemon itself is down; several
daemons may share one database and take over each other's children. This project
models how messages are kept, handed over, acknowledged and retried, who may
write a conversation, and the services that owe an agent something: executors,
background jobs, schedules, tasks, receipts and provider bans.

## The system's parts

| Part | State | Operations | What is hard about it |
| --- | --- | --- | --- |
| Durable inbox (`pkg/inbox`, `pkg/inboxdb`) | rows: pending, sent, consumed, dropped; one mutex per child | Accept, Deliver, DeliverSteer, DeliverAll, Pull, Consume, Reset, Drop, Reject, Sweep | senders, drains, flushes, acks and exits on one child's rows at the same time |
| Coalescing (`pkg/inbox/coalesce.go`) | none, a pure function of rows | Coalesce, applyCaps | every row must be accounted for whatever the caps cut |
| Inbox wiring (`cmd/rafikid/inbox_wiring.go`) | `sentFrames`: frame id to rows | acceptAndDeliver, deliverInbox, consumeFrames, forgetFrames, releaseInboxOnExit, resetUnconfirmedOnOwnership, replayInbox, releaseHeldInbox | an ack may arrive before its row is marked sent |
| Event buffer (`pkg/eventbuf`, `eventbuf_wiring.go`) | per source: dirty, deferred, first push, timer, orphans | Push, PushDurable, PushNow, PushSteer, fire, DrainIdle, Forget | timers, the busy gate and turn ends race |
| Fundi engine (`pkg/fundi/engine.go`) | turn queue, steer buffer, turn context | HandlePrompt, HandleSteer, worker, drainSteers, requeueSteers, fatal | acks before the turn runs; shutdown while turns are queued |
| Child process (`pkg/child`) | command channel of 16 frames, stdin pipe | Send, Shutdown, supervise | Send never blocks, so a backlog is refused |
| Child life cycle (`controller.go`, `child_manager.go`, `load_children.go`, `pending_resume.go`) | store entry, manager slot, durable row, claims | spawn, Kill, exit handler, Resume, boot recovery, Close, shutdown | exited is visible long before the exit handler is done; everything is keyed by child id, nothing by launch |
| Leases (`pkg/store/lease.go`, `lease_renew.go`) | a lease row per conversation, the tokens a daemon tracks | acquire, renew, release, lapse, fence | a daemon that pauses wakes up believing it owns the child |
| Claude receipts (`claude_delivery.go`) | generations, awaited uuids | beginLaunch, attach, register, take, endLaunch | the exit of one launch meets the start of the next |
| Executor pool (`pkg/execpool`, `session_executor.go`) | live, parked and evicted executors, session tickets | admit, install, health, park, sweep, evict, revoke | probing and parking outside the lock |
| Background jobs (`pkg/executor/jobs.go`, `server.go`, `jobwatch.go`) | registry, subscription with replay, the daemon's view | start, promote, exit, publish, subscribe, ack, reconcile | an exit must survive cut streams, slow readers and crashes, and be told once as what it was |
| Schedules (`cmd/rafikid/schedules.go`, `pkg/schedules`, `pkg/sched`) | the job's row, a timer, held instants | fire, hold, advance, release, retry, recover | push and advance are two writes; budgets change in between |
| Task ledger (`pkg/tasks`, `pkg/tasksdb`) | rows with parent, status, assignee | Add, Update, Drop, Assign, OrphanAssigned, budget block | read, check and write in different transactions |
| Provider guard (`pkg/routing/providerguard.go`, `providerhealth.go`, `pkg/ejection`) | bans in memory, an append-only log | observe, ban, lift, report, rehydrate | memory and log are written in different orders by different callers |
| Routing, event bus and ring, batches, UIs, auth, reports | | | not modelled, see below |

How they interact: a sender calls `Controller.Send` → `acceptAndDeliver`, which
validates the target, persists a row and delivers at once. A daemon-made
notification (a job's exit, a schedule's fire, a task's end, a lost executor)
goes to the event buffer, which persists a fragment row and arms a timer; the
timer's `fire` calls back into the wiring (`flushInboxSource`), which delivers
the rows of that source. `Queue.deliver` reads the pending rows under the child's
mutex, coalesces them, writes one frame per batch to the child's command channel
and marks the rows. A fundi engine acknowledges each frame when its turn worker
takes the prompt (`consumeFrames` → `Queue.Consume`); a claude child's row is
consumed with the write, and its echo becomes a receipt. When a turn ends,
`handleStatusChange` calls `DrainIdle` on the buffer and `drainInbox` on the
queue. When a child exits, `handleChildExit` marks it exited, forgets its buffer
schedule and its frames, resets unconfirmed rows, orphans its tasks, releases its
lease and only then removes it from the manager. A restarted daemon lists its
rows, recovers the children whose row does not say exited (acquiring their lease,
which fences whoever held it), resets their unconfirmed rows before the new
engine reads a frame, replays the queue, and rearms schedules.

What makes each part correct: no row is handed to a child twice, or retired
without being run; direct messages arrive in order; nothing stays queued for
ever; one daemon runs one engine per child, and no engine writes behind a later
one; what an agent is owed (an exit, a fire, a lost executor, a receipt) it is
told. `PROJECT.json` lists the places where this is hard to test (`hazards`),
each with the properties that would catch it going wrong.

## Modules

| Module | Models |
| --- | --- |
| `Mailbox` | the abstract promise to a sender: queued, taken by one turn, run; lost only by a close or between the taking and the turn's first write |
| `Inbox` | the queue, the wiring, the engine's turn queue and the life cycle of ONE child; `Box` maps its rows to `Mailbox` |
| `MCInbox`, `MCKinds` | message shapes for TLC; the three runtimes (fundi, claude, script) side by side |
| `Coalesce` | the coalescing algorithm, row by row, with both caps |
| `EventBuf`, `MCEventBuf` | the event buffer of ONE child |
| `Fleet`, `MCFleet` | ONE fundi child and the daemons that share its database |
| `Receipts` | delivery receipts of a claude child |
| `Guard` | provider bans, their log and the restart from it |
| `Tasks` | the task ledger of one conversation |
| `ExecPool` | the executor pool: a durable executor and a session's transient ones |
| `Jobs` | background jobs, from the executor's registry to the child |
| `Schedules` | one schedule, one-shot or recurring |
| `MCServices` | composes `Coalesce`, `Guard`, `Receipts`, `Tasks` |
| `MCWork` | composes `ExecPool`, `Jobs`, `Schedules`, with their fairness |
| `InboxProofs`, `CoalesceProofs`, `EventBufProofs`, `FleetProofs` | theorems about the component of that name |
| `KindsProofs` | the theorems of `InboxProofs` for the runtimes of `MCKinds` |
| `ServicesProofs` | theorems about `Receipts`, `Tasks` and `Guard` |
| `WorkProofs` | theorems about `ExecPool`, `Jobs` and `Schedules` |

One child is enough: every store operation that changes a row is scoped to one
child, the queue's mutex is per child, the buffer's keys of different children
share only the lock, and leases are per conversation. The services of
`MCServices` and `MCWork` share no state with each other, so a behaviour is about
one of them (`focus`) and the others stand still.

### Inbox

`Threads` are the goroutines that send and deliver. A delivery is five steps, so
that everything else can happen in between: `Submit` (validate), `Persist`,
`Read` (take the child's lock, read, coalesce), then for each batch `Prepare`
(decide, record the frame), `Write`, `Mark`. `Hold` is deliverInbox's refusal
for a script child or an over-budget one, `WriteFails` the full channel or the
process that is gone, `DeliverFails` a store error. `due` holds the deliveries
that something asked for: the idle drain (direct messages), a flush (one
source), a replay (everything).

A frame travels `wire` (the command channel and the stdin pipe), then `pending`
or `steerBuf` in the engine. The turn worker takes it (`TakePrompt`,
`DrainSteers`), acks it (`Consume`), and only then appends its text to the
conversation (`EnterTurn`): the row counts as *run* from there on. Between the
last two the turn may be cut down: an abort frame or the end of a shutdown's grace
cancels its context (`aborted`; the cancel is published before the append,
`engine.go:1012-1020`), the append fails (`EnterFails`), the worker panics
(`Fatal`, which covers every step of the worker) or the daemon dies. The rows it
held are then `lost`: acked, and never run. The engine says so itself ("Two
residual exposures"); in `Mailbox` it is `Lose` and nowhere else. An abort frame
cancels the turn that runs and is itself never a turn.

The life of the process is `phase` (building, up, stopping, cancelled, dead,
exited), the child store's `status`, the durable `record`, the manager's slot
`attached`, and the exit handler's progress `xpc`. `Kill`, `Terminate` and
`Finish` are the rungs of a shutdown, `Fatal` a panic in a turn, `MarkExited`,
`ForgetFrames`, `ReleaseInbox` and `RemoveChild` the exit handler in the order of
the code, `Resume`, `Recover`, `BuildEngine`, `Activate` and `ResumeFails` the
way back, `Crash` the daemon's death and boot, `Close` and `DropInbox` the end.

`Adverse` names the events an instance lets happen and `MaxHits` bounds how many.
Two of them open a window in which the code breaks some property (see Other
disagreements): `early` (a child used while its first engine builds) and
`impatient` (a resume while the old exit handler runs). Each run lets happen all
those its properties survive.

`Next` is `Steps` (everything that happens to a child that is written to, while
its store answers), `StoreFails` and `Pull` (a script child's own). `FundiSpec`
has `Steps` alone.

`rejectBatch` is modelled as what it does: it leads to a state with no way out,
because it waits for the lock its own goroutine holds.

Left out: text, attachments (carried with the row), frame bytes, the wording of
rejections, slash commands (`/compact`, `/clear` and the like end without a turn
of the conversation, so their rows are acked and not run in the sense above),
prefill. `Recover` always replays the queue; an engine that is still being built
when the recovery stops waiting for it has no lease yet, and then the code skips
the replay (`pending_resume.go:313-317`) until something else drains the queue. A
panic of the engine's startup resume, before its first frame, is not guarded by
the worker's recovery and is the daemon's death. Claude receipts
(which confirm after the queue has let go) are in `Receipts`, the second daemon
in `Fleet`.

### EventBuf

Each lock hold of `Buffer.mu` is a step. A push is `Accept` (the durable write,
before any lock), then `PushMark` and `PushArm` (`Push` takes the lock twice),
`PushDurable` (once) or `PushNow` (mark, then a fire). `Expire` is a timer
goroutine that `Stop` can no longer reach. A fire is `FireCheck` (lock, dirty?
busy?), then `FireDefer` or `FireTake`; in between it holds the lock (`mu`) while
the status may change under it. `Flush` is the delivery after the unlock. The
child's status goroutine is sequential: `TurnEnd` stores idle, then `DrainIdle`
reads the deferred keys and `DrainNext` fires them one by one. `Exit` makes the
child exited for every push and fire at once; the exit handler it leaves behind
(`leaving`) calls `Forget` in its own time, and a `Resume`, which needs the status
only, may overtake it (`controller.go:5201` against `5348`): the late `Forget` then
orphans what the new launch was sent. `Tick` moves the clock; a due timer expires
first.

Left out: the rule on source names, truncation, and the change callback.

### Coalesce

`Loop[k]` is what the code's loop has built from the first `k` rows: `AddRow` is
its body, `JoinGroup` the part about a group. `ApplyCaps` is the cap on fragments
and then the budget of bytes, whose running count is `Used`. A row's position
stands for its id and text. `Partition`, `LatestWins` and `CapsHold` say
independently what must come out. `Inbox` uses the result of this module, the
partition, as a set with an order; `InboxModelsCoalesce` proves that it may.

Left out: attachments, which are carried along in row order.

### Fleet

An *incarnation* is one launch of the child: an engine, the goroutines that watch
it and the exit handler they end in. `lease` and `row` are the database's,
`dm[d]` is what daemon `d` keeps in memory (the store's entry and its owner
label, the manager's slot `cm`, the tracked token `held`, the launch in progress
`start`, the pended recovery, the renewal pass). A boot is `BootList` (list, with
the ownership filter and the takeover of stale foreign rows), then `Recover` or
`Pend` with `SweepPending`; a launch is `Resume` or one of those, `Build` (the
lease is acquired and the unconfirmed inbox rows reset) or `BuildRefused`, and
`Activate`. A boot reads the rows and the leases once, in `BootList`; what
`Recover` decides it decides on what was read then, and recovery's own first
write of the row is `OnConversationResolved`. Queries may fail (`BootFails`,
`AcquireFails`, `BuildFails`: the daemon logs it, and a launch that fails is
activated as exited and goes through the exit handler), and so may every write of
the row (`Unwritten`, which is only logged). The exit handler is `MarkExited`,
`ExitRow`, `ExitInbox`, `ExitLease`, `ExitRemove`, in the order of the code and
each with the ownership check the code makes there. Renewal is `RenewSnapshot`,
`Renew`, `DropLost`, `KillLost`: what was read may be stale at each. `Write` is a
conversation commit behind `fenceLease`. `Lapse` and `Age` let time pass; `Stop`,
`Halt` and `Crash` end a daemon. That a reset of inbox rows fails is in `Inbox`.

Left out: native children, RespawnChild, admission checks of a spawn, and the
contents of the inbox, of which one row in flight remains.

### ExecPool

A step holds `Pool.mu` once. `ConnStep` is one connection: `Authorize` (and the
read of the incumbent), `Admit` (which probes it outside the lock), `Describe`,
`Install`, then the serving goroutine and the health loop, whose failure removes
the live entry and parks in two steps. `SweepParked` and `HandleExecutorLost`
declare an executor lost; `FlipRow` and `DisconnectOwner` are the row's and the
owner's changes; `ExecutorSession`, `EndSession`, `ReleaseSession`, `Revoke` and
`Evict` a terminal's session. Left out: draining, labels, workspaces and calls,
and `evictConn` (`pool.go:753`), which no code but a test calls.

### Jobs

The registry publishes under its lock after the job was marked exited under its
own; `publish` drops a subscriber that is too slow. `Subscribe` takes the replay;
`Receive` is the daemon's handler, which pushes before it acknowledges, and whose
`ReplayComplete` reports as gone what was believed running and was not replayed.
Promotion, kill, discard, a release of the workspace that stops its jobs or fails
to, stream cuts, and restarts on both sides are actions. The owner may exit and be
resumed; after a restart of the daemon it is an exited placeholder until its
resume, which nothing orders before the replay. An exit handled meanwhile is acked
and told to nobody (`missed`, `jobwatch.go:97-102` and `211-217`); `former` are the
jobs of the workspaces its earlier launches had. Left out: output, and the undo
of a kill's ack (`jobs.go:885-891`): it needs a signal to the process group and
then one to the process to fail, both for another reason than that they are gone,
which for its own unreaped child the kernel does not do.

### Schedules

`Fire`, `Hold`, `PushFire`, `AdvanceRow`, the retries, `ListHeld`, `PushHeld`,
`ClearHeld`, `RetryClearHeld`, exit, resume, boot and deletion, each one store
call, and each may fail: `LoadFails`, `HoldFails`, `AdvanceFails`,
`ListHeldFails`, `ClearFails`, `ResumeFails` and `RecoverFails`, up to
`MaxFailures`. Where the code only logs the failure and arms nothing, `gaveUp`
remembers it: a failed list of the open jobs (`schedules.go:551-555`), a failed
skip at a resume (574-577), a failed RecordHeld of a one-shot, a failed list of
the held ones (478-482, 492-496), and a recovery that is slower than its wait and
returns before it registers anything (`pending_resume.go:313-317`). An instant is
*covered* when a frame that names it was pushed. `excused` marks the races listed
under Other disagreements: once one has happened the instants of that job are not
counted.

### Tasks

Transactions that read only handles are one step. `DropRead`, `DropLock` and
`DropCommit` are Drop, whose descendants are read before the lock and checked
under it; `BlockList` and `BlockUpdate` the budget sweep; `SweepExit` the exit
handler's OrphanAssigned, which may fail. Left out: handles, texts, notices.

### Guard and Receipts

`Guard`: `op` is what the holder of `opMu` has still to do, append or put, in the
order of each operation; appends may fail; `Restart` rehydrates, or cannot read
the log and goes on without any ban (`blind`, `providerguard.go:563-567`), while
what the operator was promised stands. What counts as evidence for an automatic
ban is an arbitrary choice. `Receipts`: a launch registers its generation before
the process exists; a spawn may be aborted before or after its process took the
slot (`AbortSpawn`); `Register` and the write are two steps; an echo may come
from a later process that replays the conversation.

## Runs

All state spaces are exhaustive. Deadlock checking is off: a system whose bounded
senders are done and whose child is closed really stops.

| Run | Checks | Instance | Distinct states |
| --- | --- | --- | --- |
| `inbox_fundi` | `OneCopy`, `NothingStranded`, `RunOnce`, `ImplementsMailbox` | fundi, 2 rows, 2 goroutines, 2 adverse events out of 9 kinds | 470,779 |
| `inbox_kinds` | `TypeOK`, `DeliveryInv`, `FundiAcked`, `KindsRunOnce`, `DirectOrder` | fundi with every kind of failure, slow engines, impatient resumes, an old oversized row and aborts, on a channel of 1; claude with kills, resumes, budget holds and closes; script with crashes | 1,895,029 |
| `inbox_live` | `EventuallyRun` | fundi, channel of 1, crashes and budget holds | 16,562 |
| `eventbuf` | `NoLostWakeup`, `OrphanOnce`, `Ceiling`, `EventuallyFlushed` | a source that may steer, 2 pushes of every kind, store failures, an exit whose handler a resume may overtake, Debounce 2, MaxWait 3 | 604,991 |
| `services` | `Partition`, `LatestWins`, `CapsHold`; `LogAgrees`, `OperatorStands`; `Awaited`, `ReceiptTrue`; `DeadNotAtWork`, `DropSpares` | queues of at most 4 rows of 8 shapes with 12 cap settings; 2 ban keys, 2 reports at once, clock to 2; 3 messages, 3 launches; 2 tasks, 2 workers, 1 breach | 936,087 |
| `work` | `NoneLeftBehind`, `SessionsEnd`, `RevokedLeaves`, `GoneIsTold`; `ExitNotLost`, `GoneIsTrue`, `JobsResolved`; `FireAccounted`, `DueIsTold` | 2 connections of an executor, 2 sessions with 2 connections; 2 jobs of which one may start unseen or be stopped (`JobsBound`), a channel of 1, 1 fault; 2 instants, 2 failures | 215,736 |
| `fleet_chaos` | `OneEngine`, `SlotHeld`, `Tracked`, `WritesInOrder` | 2 daemons, 3 incarnations, 2 adverse events out of 12 kinds, a patient operator | 2,928,663 |
| `fleet_restart` | `RowTruth` | 1 daemon, 2 incarnations, 5 adverse events out of 12 kinds | 395,452 |
| `fleet_live` | `InFlight`, `FencedStops`, `RunsAgain` | 2 daemons, 3 incarnations, 1 adverse event out of 7 kinds, fair | 113,378 |
| `fleet_v_recovery`, `work_v_lost`, `tasks_v_orphan` | one property each, violated | see Findings | |

What they show, in words. The inbox never holds two live copies of a message
(`OneCopy`), never leaves one where nothing will pick it up (`NothingStranded`),
and does for a sender what `Mailbox` promises. Nobody takes a row out of a
delivery's hands (`DeliveryInv`); what an engine confirmed has entered a turn, is
about to, or was when that turn was cut down before its first write, by an abort,
the end of a grace, a failed append, a panic or a crash (`FundiAcked`): no ack
retires a row that waits. No child runs a message twice. A pushed fragment always
has a timer, a fire or a drain to come, is flushed, and its ceiling does not
move. A daemon runs one engine of a child as long as operators wait for an exit
to be over (with one daemon it does so whatever they do, unless a launch fails on
a query, which is proved). The
conversation's writes follow the order of the leases; a patient operator's engine
is in the manager's slot and tracked, and with one daemon, and while the writes
of the row succeed, has a row a restart would resume; a fenced engine stops; a
child nobody ended runs again after a crash, a shutdown, a lapsed lease or a
failed renewal, whichever writes of its row fail. After a failed query of the
boot or of the launch itself it does not: it waits for an operator or the next
restart (`RunsAgain`). A revoked executor leaves and a lost one is declared; no
connection and no session is left behind. An exit the executor may forget was
told, unless the job was stopped on purpose or the exit was handled while its
child was exited or not yet resumed; no job is reported gone that is not. Every
instant a schedule has left behind was told, is held or was skipped on purpose,
and what is due is told unless a logged failure left the schedule without a timer
(`DueIsTold`). A ban confirmed to an operator stands in the log over failures and
restarts, and in memory unless the last start could not read that log; no Drop
takes a row from its assignee; a receipt is given once and only for a message its
own launch was sent.

Why the bounds are enough. Two rows are the smallest number with an order, a
backlog and a coalesced pair; two goroutines the smallest with a race for the
lock (a third would only wait with them, and the engine, the exit handler and the
builder are actors of their own). A channel of 1 or 2 frames makes "full" happen
where the code has 16; a subscriber's channel of 1 likewise. Three frame ids never
run out: an id is taken while a frame, an entry or an ack refers to it. Two
adverse events allow a crash in the recovery from a crash, or a failed resume
after an exit. In the buffer, pushes until time 3 with a MaxWait longer than
Debounce let a second push arrive just before the first one's timer, where the
ceiling must not move. Two daemons are the smallest with a takeover, three
incarnations let a third launch meet two exits; five adverse events in
`fleet_restart` are two rounds of kill and resume and a crash. Two connections of
one executor are a reconnection, two sessions a replacement. Three launches make
an exit handler meet its successor's successor. Two instants are a fire that is
missed while another is held. Symmetry permutes goroutines or daemons, in safety
runs only.

Each property is broken by a mutated operation (`mutants`): a lock not taken, an
ack point moved, frame ids dropped on a requeue, a drop for a reset, a drain
forgotten, pressing on after a failed write, a restarted ceiling, orphans not
taken, an early return between the caps, a fence not checked, a claim not taken,
an ack before the push, an advance before the push.

### Fairness

* `FairFundiSpec` (Inbox): goroutines that can run do run; a Go mutex starves
  nobody, so taking the lock is strongly fair; turns end; the exit handler, crash
  recovery and the raising of a budget happen (raising is an operator's choice,
  not the code's: `EventuallyRun` speaks of holds that are lifted). Nobody has to
  resume, close or send anything.
* `EventBuf!FairSpec`: time passes, timers and goroutines run and get the lock,
  exit handlers among them, and a turn ends sooner or later (strongly fair, since
  turns may alternate with other states).
* `Fleet!Fairness`: a daemon's own goroutines run (boot, builds, activation,
  renewal, the exit handler, the sweep of pended recoveries, the shutdown that has
  begun), and a daemon that is down is started again, which is the supervisor's
  part. Nothing makes a lease lapse, an engine die or an operator act.
* `PoolFairness`, `JobsFairness`, `SchedFairness`: goroutines and tickers run, a
  subscription that was cut is made again (watch_jobs.go's loop), timers expire and
  time passes. No executor has to dial, no fault has to happen.

## Proofs

The seven proof modules are checked by TLAPS for every value of the constants:
any number of rows, frames, goroutines, sources, pushes, daemons, incarnations,
connections, sessions, jobs, tasks and faults, any capacity and any bound on time.
They assume only the ranges of the constants (`InboxAssumption`,
`CoalesceAssumption`, `EventBufAssumption`, `FleetAssumption`,
`ReceiptsAssumption`, `TasksAssumption`, `GuardAssumption`, `PoolAssumption`,
`JobsAssumption`, `SchedulesAssumption`) and, where a theorem says so, that some
adverse events do not happen. Each such hypothesis names a window in which the
code breaks the property (see Other disagreements); a run that checks the
property closes the same windows.

In every module the argument has one shape: an invariant that implies the
property, a lemma per action (or per group of actions that touch the same part of
the state) that the action keeps it, and a temporal step. What follows is what
each property had to be strengthened with.

### Inbox

* `TypeCorrect`: `Spec => []TypeOK`. One step per action; lemmas say what the
  store's moves, `Coalesce` and `Join` return.
* `DeliveryHeld`: `Spec => []DeliveryInv`, the inductive invariant of the delivery
  critical section. `RowsHeld` alone (a delivery holds the lock and its rows are
  pending) is not inductive: when `Mark` retires one batch, the rows of the
  remaining ones stay pending only because batches are disjoint (`BatchesSound`);
  and the order of direct messages needs to know that no earlier pending one is
  outside the delivery (`BacklogHeld`), which a message accepted meanwhile keeps
  because its id is larger (`RowsAccepted`). `RowsStayHeld` is its first conjunct.
* `DirectMessagesInOrder`: `Spec => DirectOrder`. Only `Write` makes the channel
  longer (`OnlyWriteGrows`), and what it writes is first in its delivery, which
  holds the whole backlog (`WriteInOrder`).
* `OneCopyHeld` and `NoRowStranded`, under `Undisturbed`: the store answers, no
  resume overtakes an exit handler and nobody writes to an engine that is not
  built. `CopyInv` says where a row's one copy is: entries of the channel, the
  turn queue, the steers and the worker are disjoint (`ApartInv`); a held row that
  is pending is the one its delivery is about to mark (`TakenInv`); what is over
  or not built holds nothing (`QuietInv`). That a sent row will be confirmed or
  reset needs the bookkeeping of frames: a frame id is fresh until it is written
  (`FrameInv`), and until the exit handler forgets the frames a sent row is behind
  a frame that the child holds or in the worker's ack (`StrandInv`).
* `AcksAreTrue`, for a fundi child and whatever adverse events: `AckedMeansRan`. The
  turns that are cut down before their first write, which lose an acked row by
  design ("Two residual exposures"), are not assumed away; the property names them,
  `lost`, and only the worker's own rows get there. The strengthening is
  `BehindInv`: a frame's rows are rows of the entry that carries it, so that what
  the worker acks is what it took; `AbortRows` says that no turn takes an abort.
* `MessagesRunOnce`, under `Undisturbed`, and without crashes for a claude child.
  `FullInv` is the converse of `BehindInv`: every row of an entry is behind one of
  its frames, so that when the text enters the turn its rows are retired and no
  exit puts them back.
* `InboxIsMailbox`, under `Queueing` (a fundi child that starts with an empty
  queue, `Undisturbed`, and no aborts, which no turn takes): `Inbox` implements
  `Mailbox`. `Persist` is `Accept`; `Consume` is `Take` of what is acked, or nothing;
  `EnterTurn` is `Run`, or `Lose` under a cancelled context; `EnterFails` and `Crash`
  are `Lose`; `Close` is `Forget`; `DropInbox` is `Discard`; every other step is a
  stutter, because rows move between the store, the channel and the engine without
  the sender being able to tell. `MailInv` adds to the invariants above that what a
  running child holds unacked is open (`OpenInv`), that a forgotten child's process
  is over (`EndInv`), and the order (`OrderInv`): along the channel, the turn
  queue and the worker direct prompts are in the order of acceptance, and all of
  them before any open one the child does not hold. `Take` needs the last part: a
  turn must not take a prompt while an earlier one is still in the store.
* `FundiAcksAreTrue` and `KindsRunMessagesOnce` carry `AcksAreTrue` and
  `MessagesRunOnce` to `MCKinds`: each of its runtimes is an instance of
  `InboxProofs` whose constants keep `InboxAssumption` and whose events keep the
  hypothesis, and a behaviour that chose its runtime stays one of that instance
  (`FundiBehaves`, `ClaudeBehaves`, `ScriptBehaves`).

### Coalescing

The state is a queue that grows, and the properties speak of what the loop
computes from all of it, so these are inductions over data. The induction rule of
the library takes a predicate, which the provers cannot instantiate; `Induction`
and `InductionUpTo` state it for *sets* of numbers instead, from the least
element of the complement (`WFMin`). With it `LoopIs` and `UsedIs` show that the
recursive functions satisfy their equations, for queues of any length.

* `PartitionAlways`. `AccSound(acc, k)` is the loop's invariant: the output so far is
  the direct messages among the first `k` rows, in order; the groups' order is
  that of the sources' first rows; each group has exactly its source's rows, is a
  steer if and only if one of them is, and knows of each key the last row
  (`KeysSound`). `DirectAdds` and `GroupAdds` show that one more row keeps it,
  `LoopSound` concludes.
* `LatestWinsAlways`. The fragments of a group are, each once, the rows that count
  (`FragsAre`), and the caps keep a prefix of them (`ApplyCapsIs`). That the number
  left out is told needs their number to be the cardinality of a set (`OnceCount`).
* `CapsAlways`. Only a cap that the *whole* group exceeds leaves anything out. The
  property counts the bytes of the group in another order than the code, so the
  sum must not depend on the order: `Weight` sums over the positions of the queue
  instead, and `BytesOfSet` shows that any sequence without repetition has the
  weight of its set.
* `InboxModelsCoalesce`. For every queue, both modes of a flush and any choice of
  the big messages, the batches of the loop are as a set `Inbox!Coalesce`, and
  their order is `Inbox!Before`. What `InboxProofs` shows of deliveries therefore
  holds of the batches the code builds.

### Event buffer

* `TypeCorrect`, and `WakeupsKept` through `WakeupInv`. The strengthening is
  `GateFresh`: a fire that found the child busy still holds the lock, so whoever
  ended the turn has not yet looked for deferred batches. This is the argument of
  the comment on `fire`, made exact.
* `CeilingKept`: a source's first-push time is no later than any of its queued
  fragments (`FirstKnown`), and whoever takes it over from a timer arms or fires.
* `OrphansKeptOnce`: an orphan is in the queue (`OrphanHome`), in the hands of one
  fire (`OrphanFlight`), handed over or lost, never two of these.

### Fleet

* `FenceHeld`: `Spec => []FleetInv`, one lemma per action. `WritesInOrder` needs that
  a writer whose token is the lease's writes no less than the last writer: the last
  committed token is at most the lease's (`FenceInv`). That is kept because an
  acquisition mints a larger token, a live lease has a token, and a renewal never
  carries token 0 (`Calm`), so it cannot revive a lease that was released.
  `FleetTypeCorrect` is a corollary, `WritesStayInOrder` the property.
* `OneEngineAlone`, for one daemon and every adverse event but a failed query of
  a launch; `OneEnginePatient`, for any number of daemons while `Patient`: no
  impatient resume and nothing pended. `Seats` ties each launch to its daemon
  (until it is watched it is the launch its daemon starts; the manager's slot
  holds a launch that exists), and `AloneInv` or `PatientInv` says that a daemon
  has at most one launch whose exit is not marked, or at most one launch. Neither
  hypothesis can be dropped, see Other disagreements.
* `SlotsStayHeld` (`Patient`), `LeasesStayTracked` (`Patient`, and no exit and
  resume inside one renewal pass, "slow") and `RowsStayTrue` (`Patient`, one
  daemon, and writes of the row succeed) follow from `PatientInv` with what a
  daemon remembers of its engine's token (`TrackedInv`) and the agreement of
  store entry and row (`RowTruthInv`).
* `RowInFlightStays` (`Patient`, one daemon): whoever could reset the row in flight,
  an earlier exit, a boot or a Close, finds no room beside the one launch of
  `PatientInv`. `fleet_live` checks `InFlight` for two daemons.

### Services

* `ReceiptsAwaited`, `ReceiptsTrue`: at most one launch is on its way or alive, what
  is awaited was filed under it and has no receipt yet, and no message is written to
  a launch before it is activated.
* `DeadChildrenNotAtWork`, `DropsSpare`: nobody is assigned a row that a Drop has
  locked (`LockInv`).
* `OperatorBansStand` (over restarts that could not read the log too),
  `LogStaysInAgreement`: what the holder of `opMu` has still to do accounts for
  every difference between log and memory (`OpInv`, `StarInv`, `LineInv`).
* `ConnectionsNotLeftBehind`, `SessionsLeaveNothing`: an entry is a connection of its
  own id, one connection redeems a ticket, and who joins after the end of its
  session meets a tombstone (`JoinersEnd`).
* `ExitsNotLost`, `GoneStaysTrue`: for a job nobody killed, the last event on its way
  is its exit (`LastWord`), a replay brings what the registry has (`Replays`), and
  what left the registry was acknowledged, discarded or lost with it (`Kept`). An
  exit that is acked without a push was handled while its child was exited, which is
  where `missed` comes from; nothing is assumed of the order of replay and resume.
* `FiresAccounted`: what a callback, a retry or a release is about to move the row
  past, or to clear, was told, held or skipped before (`RecurringInv`,
  `OneShotInv`).

### Only model-checked

Every safety property of the runs is stated by a theorem. What remains:

* `RowTruth` and `InFlight` beyond their theorems: the first with pended recoveries,
  the second with two daemons, within the bounds of the runs.
* `EventuallyRun`, `EventuallyFlushed`, `FencedStops`, `RunsAgain`,
  `RevokedLeaves`, `GoneIsTold`, `JobsResolved`, `DueIsTold`: liveness under fairness
  and `ENABLED` are outside the prover's reach.

## Findings

Each is a run that TLC ends with a counterexample; `PROJECT.json` quotes the text
the code disagrees with.

* `fleet_v_recovery`: during boot recovery the in-memory entry of the child says
  exited; when the engine resolves its conversation, `noteConversationID`
  (`controller.go:5506`) writes that to the durable row. A crash before
  `activateLiveChild` rewrites it leaves a row no boot resumes, where
  `load_children.go:71-74` says a crash writes nothing.
* `work_v_lost`: a Park of the old connection that runs between reattach and the
  install of the new one (`pool.go:1029`) parks an executor that is connected;
  `pool.go:1026-1028` calls the gap benign. The sweep then declares it lost.
* `tasks_v_orphan`: the budget sweep turns orphaned rows into blocked ones
  (`budget_sweep.go:142`), the very distinction `budget_sweep.go:55-58` wants kept.

### Other disagreements

Met while modelling, and not kept as runs. Where constants are named, the modules
show it as they are under those constants.

Inbox and event buffer:

* `Adverse = {"early"}` violates `OneCopy`: a first engine that builds for longer
  than the startup stall resets the message the child was already sent, although
  `inbox_wiring.go:839-841` calls the reset "a harmless no-op" for a brand-new
  conversation.
* `Kind = "claude"`, `Adverse = {"crash"}` violates `RunOnce`: the frame is written
  first and the row consumed after, so a crash in between delivers it again;
  `queue.go:101-103` speaks of "the same at-most-once contract the claude children
  already have".
* `Adverse = {"kill", "close"}` reaches a closed child with a pending row:
  validation and persistence are two steps, and a message can be persisted behind
  the drop, which `controller.go:4068-4069` says it cannot.
* A fragment whose flush failed on a full channel is not retried by the idle drain
  (`drainInbox` reads direct messages only), although `queue.go:87-89` describes
  the drain of every row "on the child's idle transition".
* In the event buffer, an arm that comes after its fragment was flushed leaves a
  first-push time behind (`buffer.go:475` returns without clearing it), and a
  later fragment's quiet window is measured from it; `Config` promises the window
  "after last push" (`buffer.go:38`).
* A row too large for the child, stored before the size check existed, deadlocks
  its delivery on the child's own lock (`deliver` → `deliverInbox` →
  `rejectBatch` → `Queue.Reject`, `queue.go:230`), and with it everything else of
  that child's queue; `inbox_wiring.go:393-394` expects a rejection.
* `Adverse = {"terminate"}` fills `lost`: when a shutdown's grace runs out, prompts
  queued behind the running turn are acked and then run under a cancelled context
  (`engine.go:730`, against the comment at 722-724).
* `Adverse = {"impatient", ...}` violates `RunOnce`: a resume needs only the exited
  status (`controller.go:5391`), which the exit handler sets first; the handler
  then forgets and resets what the new process was sent
  (`inbox_wiring.go:762-763`).
* A manual resume shows the daemon no busy-to-idle transition, so nothing drains
  the queue it was meant to run (`controller.go:5359-5360`,
  `load_children.go:473-475`).

Fleet, all outside the windows the runs keep open:

* With two daemons `RowTruth` fails: a daemon that lost the child between its
  ownership read and its write overwrites the new owner's row
  (`controller.go:3884-3893`).
* An impatient resume breaks `SlotHeld` (`controller.go:5466`: the old launch's
  exit handler removes its successor by id).
* With a second daemon it breaks `OneEngine` too: a build the lease refuses is
  activated as exited (`controller.go:2819`), a second resume starts and is
  activated live, the refused launch's late `MarkExited`, keyed by child id
  (`controller.go:5153`), says exited over it, and a third resume starts a second
  engine. A pended recovery that is refused does the same without any haste. It is
  four adverse events deep, where no test and no run of two reaches; the attempt to
  prove `OneEngine` without `Patient` found it.
* A launch whose acquire or build fails ("query") is listed as exited
  (`controller.go:3014`, from the process's status) before its own exit handler
  marks it (`controller.go:5201`). An impatient resume is admitted in between,
  the late mark is of the new launch, and a third resume starts a second engine:
  `OneEngine` fails for one daemon too. With a pended recovery in the place of
  the operator `RowTruth` fails. `fleet_chaos` has failing queries and a patient
  operator, and `RowsStayTrue` covers them without pended recoveries;
  `fleet_restart` leaves "query" out.
* A failed write of the row at the activation is only logged
  (`controller.go:5548-5555`): the row says what it said, perhaps exited, while the
  engine runs, and a crash then leaves a child no boot resumes until something
  writes the row again. `RowTruth` is checked and proved without "store".
* A child whose recovery failed on a query stays exited until an operator resumes it
  (`pending_resume.go:293-295`) or, if the row still says live, until the next boot.
* A pended recovery that a manual resume overtakes breaks `Tracked`:
  `sweepPendingResumes` drops the lease of the child that runs
  (`pending_resume.go:294`, against `lease_renew.go:22-24`). A renewal pass whose
  snapshot is older than a resume does the same.
* A daemon stopped while its lease had lapsed resets the inbox row of the new
  owner's engine (`InFlight`), and Close does not take the child's claim. A
  daemon that recovers from a row its boot walk listed before another one resumed
  the child resets it too: with `Adverse = {"crash"}` and two adverse events
  `recoverOne` acts on the list (`load_children.go`), not on the row. For this
  reason `fleet_live` lets one happen, and `RowInFlightStays` speaks of one daemon.

Services:

* Tasks: `tasks.go:40` calls Terminal "an end state a task cannot leave", but
  Update checks only UserSettable, so completed and dropped rows can be reopened.
  The budget sweep lists, then updates: a row completed in between turns blocked.
  `DeadNotAtWork` speaks of the sweep of the exit and gives no cover to what a
  late breach overwrites: that is `tasks_v_orphan`. A row added or assigned under
  a subtree between Drop's read of the descendants and its lock survives the
  Drop; an Assign after a committed Drop assigns a dropped row.
* Jobs: after a restart of the daemon a child is an exited placeholder until its
  resume, and an exit replayed in that window is acked and told to nobody.
  `docs/reference/executor-protocol.md:464-473` describes the window;
  `docs/guide/executors.md:125-128` says of an unacked exit that "a daemon crash does
  not lose it". `ExitNotLost` and `JobsResolved` leave out exactly these exits. An
  exit may be in the replay and in the live channel (`server.go:723-725`
  says never both). A killed job that is not reaped yet may later be reported gone
  (`jobwatch.go:195-198`); `GoneIsTrue` leaves killed jobs out.
* Pool: `GoneIsTold` speaks of the first time an executor is lost. Evict and
  DisconnectOwner of a durable executor never tell its children, and
  DisconnectOwner misses an executor that is still joining.
* Schedules: a budget raised between fireSchedule's read of the breach
  (`schedules.go:298`) and RecordHeld leaves a held one-shot with neither timer
  nor release (`schedules.go:465-467` says otherwise); a breach during a release,
  or a pending retryClearHeld, wipes instants held meanwhile; a failure that is
  only logged (a RecordHeld of a one-shot, a ListHeld, a ListOpen or a skip at a
  resume) or a slow recovery leaves a job without a timer until the child comes
  up again, which `DueIsTold` excepts as `Stranded`; retryAdvance of a deleted
  job retries for ever.
* Receipts: a failed Resume or Respawn does not abandon its generation; a message
  registered under a dying launch and written to its successor gets no receipt.
* Coalescing: the marker that tells how many fragments were left out counts as a
  fragment, its bytes are not counted against the byte budget; `CapsHold` says so.
* Guard: a daemon that cannot read its log at the start routes to a banned
  provider until it starts again (`providerguard.go:563-567` logs it). The
  no_cache rule's check for an existing ban ignores its expiry.

## Plan

Done: the inbox, coalescing, the event buffer, the fleet with its leases, and the
services; and the proof of every safety property the runs check. Left, in this
order:

1. The ring and the event log: cursors against overflow, replay after a gap.
2. Composition of `EventBuf` with `Inbox`: the buffer's `Flush` as the inbox's
   `Start`; `Jobs` and `Schedules` as its pushers.
3. RespawnChild and native children in `Fleet`.

### Not modelled

Cron expressions (pure calendar arithmetic), model routing and its primary breaker
(functions of one request and one flag), the Daraja pool (a second pool of the
shape of `ExecPool`), batch requests (the state is the provider's), heartbeats,
the control protocol and its servers (encoding and transport), the terminal and
web interfaces, the command line, OAuth and credentials, reports and recall,
database migrations, and generated code. They are presentation, input and output,
or protocols of third parties, and they are most of the repository: of about
253,000 lines of implementation, generated code and interfaces alone are the
larger part, so the modelled lines are a small share of the whole although they
hold most of the daemon's concurrency.

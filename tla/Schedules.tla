------------------------------ MODULE Schedules ------------------------------
(***************************************************************************)
(* Scheduled prompts (cmd/rafikid/schedules.go) with their store           *)
(* (pkg/schedules, pkg/schedulesdb), the timers (pkg/sched) and the budget *)
(* that holds fires back.  One job of one child: recurring, due at every   *)
(* instant from 1, or a one-shot, due at 1.  A step makes one call of the  *)
(* store.  The timer map is keyed, so arming replaces; a callback ends     *)
(* within its ten seconds, before a resumed child's timer starts another.  *)
(* Telling is EventBuf's Push.                                             *)
(***************************************************************************)
EXTENDS Integers, Sequences

CONSTANTS MaxInstant,     \* bound on the clock
          MaxFailures    \* bound on failed calls, crashes and exits

ASSUME SchedulesAssumption == MaxInstant \in Nat /\ MaxFailures \in Nat

VARIABLES
  recurring,  \* Job.Recurring
  job,        \* the row: open, next fire, instants held
  timer,      \* what is armed under the job's key
  fire,       \* the callback at work: what it read, and what it has to do
  release,    \* releaseHeldSchedules at work, likewise
  reclear,    \* retryClearHeld is armed
  now,
  child,      \* "live", "exited", or "booting" until it is recovered
  breached,   \* budgetHalted
  covered,    \* instants some pushed frame covers
  dropped,    \* instants a manual resume skipped
  deleted,    \* the job was deleted
  excused,    \* see Excuse
  gaveUp,     \* the last arming was given up: see GiveUp
  failures

schedVars == <<recurring, job, timer, fire, release, reclear, now, child, breached, covered,
               dropped, deleted, excused, gaveUp, failures>>

NoTimer     == [kind |-> "none", at |-> 0, seen |-> 0]
NoWork      == [todo |-> <<>>, due |-> 0, seen |-> 0, held |-> {}]
ArmAt(t)    == [kind |-> "fire", at |-> t, seen |-> 0]
RetryOf(w)  == [kind |-> "retry", at |-> now, seen |-> w.seen]

SchedInit ==
  /\ recurring \in BOOLEAN
  /\ job = [open |-> TRUE, next |-> 1, held |-> {}]
  /\ timer = ArmAt(1) /\ fire = NoWork /\ release = NoWork /\ reclear = FALSE
  /\ now = 0 /\ child = "live" /\ breached = FALSE
  /\ covered = {} /\ dropped = {} /\ deleted = FALSE /\ excused = FALSE /\ gaveUp = FALSE
  /\ failures = 0

Faulty == failures < MaxFailures /\ failures' = failures + 1

-----------------------------------------------------------------------------
(* fireSchedule.                                                           *)

FireSteps_advanceFirst == <<"advance", "push">>

(* Push FIRST, then advance.                                               *)
FireSteps == <<"push", "advance">>

Due == job.open /\ child = "live" /\ job.next <= now

(* The row decides: a timer that is stale, early or of a child that is not *)
(* live does nothing, or is armed again.                                   *)
Fire ==
  /\ timer.kind = "fire" /\ timer.at <= now /\ fire = NoWork
  /\ timer' = IF job.open /\ child = "live" /\ job.next > now THEN ArmAt(job.next) ELSE NoTimer
  /\ fire' = IF Due THEN [todo |-> IF breached THEN <<"hold">> ELSE FireSteps,
                          due |-> job.next, seen |-> now, held |-> job.held]
                    ELSE NoWork
  /\ UNCHANGED <<recurring, job, release, reclear, now, child, breached, covered, dropped,
                 deleted, excused, gaveUp, failures>>

LoadFails ==
  /\ timer.kind = "fire" /\ timer.at <= now /\ fire = NoWork
  /\ Faulty
  /\ timer' = ArmAt(now)
  /\ UNCHANGED <<recurring, job, fire, release, reclear, now, child, breached, covered, dropped,
                 deleted, excused, gaveUp>>

(* retryAdvance and retryTombstone: the row only.                          *)
RunRetry ==
  /\ timer.kind = "retry" /\ fire = NoWork
  /\ timer' = NoTimer
  /\ fire' = [NoWork EXCEPT !.todo = <<"advance">>, !.seen = timer.seen]
  /\ UNCHANGED <<recurring, job, release, reclear, now, child, breached, covered, dropped,
                 deleted, excused, gaveUp, failures>>

At(s) == fire.todo # <<>> /\ Head(fire.todo) = s
Worked == IF Len(fire.todo) = 1 THEN NoWork ELSE [fire EXCEPT !.todo = Tail(@)]

(* RecordHeld.  A held one-shot is the same single fire when it is armed   *)
(* again, and is not armed here; a recurring job goes on.                  *)
Hold ==
  /\ At("hold")
  /\ fire' = NoWork
  /\ IF recurring
       THEN /\ job' = IF job.open THEN [job EXCEPT !.held = @ \cup fire.due..fire.seen,
                                                   !.next = fire.seen + 1]
                                  ELSE job
            /\ timer' = ArmAt(fire.seen + 1)
       ELSE /\ job' = IF job.open THEN [job EXCEPT !.held = {fire.due}] ELSE job
            /\ UNCHANGED timer
  /\ UNCHANGED <<recurring, release, reclear, now, child, breached, covered, dropped, deleted,
                 excused, gaveUp, failures>>

(* Failures that are logged and nothing else.  A one-shot is left without  *)
(* a timer, and so is every job of a child that comes up.                  *)
GiveUp == gaveUp' = TRUE

(* A recurring job is armed again, for an instant within the bound; a      *)
(* one-shot that is held already is not written.                           *)
HoldFails ==
  /\ At("hold") /\ IF recurring THEN fire.seen < MaxInstant ELSE fire.held = {}
  /\ Faulty
  /\ fire' = NoWork
  /\ IF recurring THEN timer' = ArmAt(fire.seen + 1) /\ UNCHANGED gaveUp
                  ELSE GiveUp /\ UNCHANGED timer
  /\ UNCHANGED <<recurring, job, release, reclear, now, child, breached, covered, dropped, deleted,
                 excused>>

(* One frame covers the missed and the held.                               *)
PushFire ==
  /\ At("push")
  /\ covered' = covered \cup fire.due..fire.seen \cup fire.held
  /\ fire' = Worked
  /\ UNCHANGED <<recurring, job, timer, release, reclear, now, child, breached, dropped, deleted,
                 excused, gaveUp, failures>>

(* Advance is refused on a closed row and tried again; Tombstone is not.   *)
AdvanceRow ==
  /\ At("advance")
  /\ fire' = Worked
  /\ IF ~recurring THEN job' = [job EXCEPT !.open = FALSE] /\ UNCHANGED timer
     ELSE IF job.open THEN /\ job' = [job EXCEPT !.next = fire.seen + 1, !.held = {}]
                           /\ timer' = ArmAt(fire.seen + 1)
     ELSE timer' = RetryOf(fire) /\ UNCHANGED job
  /\ UNCHANGED <<recurring, release, reclear, now, child, breached, covered, dropped, deleted,
                 excused, gaveUp, failures>>

AdvanceFails ==
  /\ At("advance")
  /\ Faulty
  /\ fire' = Worked
  /\ timer' = RetryOf(fire)
  /\ UNCHANGED <<recurring, job, release, reclear, now, child, breached, covered, dropped, deleted, excused, gaveUp>>

-----------------------------------------------------------------------------
(* The budget: sweepBudgets, applyBudgetChange and the release.            *)

(* What the code leaves open: a budget that changes while a callback or a  *)
(* release is between reading it and writing the row.                      *)
Excuse == excused' = (excused \/ fire # NoWork \/ release # NoWork \/ reclear)

Breach ==
  /\ ~breached /\ release = NoWork
  /\ breached' = TRUE
  /\ Excuse
  /\ UNCHANGED <<recurring, job, timer, fire, release, reclear, now, child, covered, dropped,
                 deleted, gaveUp, failures>>

Raise ==
  /\ breached /\ release = NoWork
  /\ breached' = FALSE
  /\ release' = [NoWork EXCEPT !.todo = <<"list">>]
  /\ Excuse
  /\ UNCHANGED <<recurring, job, timer, fire, reclear, now, child, covered, dropped, deleted, gaveUp,
                 failures>>

Releasing(s) == release.todo # <<>> /\ Head(release.todo) = s

(* ListHeld; a child that is exited is left to its next resume.            *)
ListHeld ==
  /\ Releasing("list")
  /\ release' = IF job.open /\ job.held # {} /\ ~breached /\ child = "live"
                  THEN [NoWork EXCEPT !.todo = <<"push", "clear">>, !.held = job.held, !.seen = now]
                  ELSE NoWork
  /\ UNCHANGED <<recurring, job, timer, fire, reclear, now, child, breached, covered, dropped,
                 deleted, excused, gaveUp, failures>>

(* Nor is anything released if ListHeld fails, or a job if its Get does.   *)
ListHeldFails ==
  /\ Releasing("list")
  /\ Faulty
  /\ release' = NoWork
  /\ IF recurring THEN UNCHANGED gaveUp ELSE GiveUp
  /\ UNCHANGED <<recurring, job, timer, fire, reclear, now, child, breached, covered, dropped,
                 deleted, excused>>

PushHeld ==
  /\ Releasing("push")
  /\ covered' = covered \cup release.held
  /\ release' = [release EXCEPT !.todo = <<"clear">>]
  /\ UNCHANGED <<recurring, job, timer, fire, reclear, now, child, breached, dropped, deleted,
                 excused, gaveUp, failures>>

(* ClearHeld, or the one-shot's Tombstone.                                 *)
Cleared == IF ~recurring THEN [job EXCEPT !.open = FALSE]
           ELSE IF job.open THEN [job EXCEPT !.held = {}] ELSE job

ClearHeld ==
  /\ Releasing("clear")
  /\ release' = NoWork
  /\ job' = Cleared
  /\ UNCHANGED <<recurring, timer, fire, reclear, now, child, breached, covered, dropped, deleted,
                 excused, gaveUp, failures>>

(* Tried again, under a key of its own if the job goes on.                 *)
ClearFails ==
  /\ Releasing("clear")
  /\ Faulty
  /\ release' = NoWork
  /\ reclear' = (reclear \/ recurring)
  /\ timer' = IF recurring THEN timer ELSE RetryOf(release)
  /\ UNCHANGED <<recurring, job, fire, now, child, breached, covered, dropped, deleted, excused, gaveUp>>

RetryClearHeld ==
  /\ reclear /\ reclear' = FALSE
  /\ job' = Cleared
  /\ UNCHANGED <<recurring, timer, fire, release, now, child, breached, covered, dropped, deleted,
                 excused, gaveUp, failures>>

-----------------------------------------------------------------------------
(* The child and the daemon.                                               *)

ChildExits ==
  /\ child = "live" /\ Faulty
  /\ child' = "exited"
  /\ UNCHANGED <<recurring, job, timer, fire, release, reclear, now, breached, covered, dropped,
                 deleted, excused, gaveUp>>

Rearm_unheld(j) == timer' = IF j.open /\ j.held = {} THEN ArmAt(j.next) ELSE timer

(* registerSchedules: every open job, the held ones too.                   *)
Rearm(j) == timer' = IF j.open THEN ArmAt(j.next) ELSE timer

Skips == recurring /\ job.open /\ job.next <= now

(* By hand: an overdue recurring job is moved to the future, its held      *)
(* fires dropped.                                                          *)
Resume ==
  /\ child = "exited"
  /\ child' = "live"
  /\ job' = IF Skips THEN [job EXCEPT !.next = now + 1, !.held = {}] ELSE job
  /\ dropped' = IF Skips THEN dropped \cup job.next..now \cup job.held ELSE dropped
  /\ Rearm(job') /\ gaveUp' = FALSE
  /\ UNCHANGED <<recurring, fire, release, reclear, now, breached, covered, deleted, excused, failures>>

(* ListOpen fails, or the Advance of an overdue row.                       *)
ResumeFails ==
  /\ child = "exited" /\ Faulty
  /\ child' = "live"
  /\ GiveUp
  /\ UNCHANGED <<recurring, job, timer, fire, release, reclear, now, breached, covered, dropped,
                 deleted, excused>>

Crash ==
  /\ child # "booting" /\ Faulty
  /\ timer' = NoTimer /\ fire' = NoWork /\ release' = NoWork /\ reclear' = FALSE
  /\ child' = IF child = "live" THEN "booting" ELSE child
  /\ UNCHANGED <<recurring, job, now, breached, covered, dropped, deleted, excused, gaveUp>>

(* With catch-up, after openScheduleGate has seeded the breaches.          *)
Recover ==
  /\ child = "booting"
  /\ child' = "live"
  /\ Rearm(job) /\ gaveUp' = FALSE
  /\ UNCHANGED <<recurring, job, fire, release, reclear, now, breached, covered, dropped, deleted,
                 excused, failures>>

(* The child does not come up; or it does, but ListOpen fails, or its      *)
(* engine is not built by the time recovery asks for its lease.            *)
RecoverFails ==
  /\ child = "booting" /\ Faulty
  /\ \/ child' = "exited" /\ UNCHANGED gaveUp
     \/ child' = "live" /\ GiveUp
  /\ UNCHANGED <<recurring, job, timer, fire, release, reclear, now, breached, covered, dropped,
                 deleted, excused>>

(* CronDelete cancels the timer, CancelWakeup and the child's close leave  *)
(* it to find the row closed.                                              *)
Delete ==
  /\ job.open /\ ~deleted
  /\ deleted' = TRUE
  /\ job' = [job EXCEPT !.open = FALSE]
  /\ timer' \in {timer, NoTimer}
  /\ UNCHANGED <<recurring, fire, release, reclear, now, child, breached, covered, dropped, excused, gaveUp, failures>>

SchedTick ==
  /\ now < MaxInstant
  /\ now' = now + 1
  /\ UNCHANGED <<recurring, job, timer, fire, release, reclear, child, breached, covered, dropped,
                 deleted, excused, gaveUp, failures>>

-----------------------------------------------------------------------------
SchedNext ==
  \/ Fire \/ LoadFails \/ RunRetry \/ Hold \/ HoldFails \/ PushFire \/ AdvanceRow \/ AdvanceFails
  \/ Breach \/ Raise \/ ListHeld \/ ListHeldFails \/ PushHeld \/ ClearHeld \/ ClearFails
  \/ RetryClearHeld
  \/ ChildExits \/ Resume \/ ResumeFails \/ Crash \/ Recover \/ RecoverFails \/ Delete \/ SchedTick

(* Time passes, timers go off, callbacks and releases run on, a boot       *)
(* recovers the live child.  Nothing makes the budget change or an exited  *)
(* child come back.                                                        *)
SchedFairness ==
  /\ WF_schedVars(Fire) /\ WF_schedVars(RunRetry) /\ WF_schedVars(Hold)
  /\ WF_schedVars(PushFire) /\ WF_schedVars(AdvanceRow)
  /\ WF_schedVars(ListHeld) /\ WF_schedVars(PushHeld) /\ WF_schedVars(ClearHeld)
  /\ WF_schedVars(RetryClearHeld) /\ WF_schedVars(Recover) /\ WF_schedVars(SchedTick)

SchedSpec == SchedInit /\ [][SchedNext]_schedVars /\ SchedFairness

-----------------------------------------------------------------------------
(* Properties.                                                             *)

(* Every instant the row has left behind was told, is held on the row, or  *)
(* was skipped by a manual resume: no crash, retry, release or exit loses  *)
(* a fire, whoever else writes the row (schedules.go, fireSchedule: "Push  *)
(* FIRST").                                                                *)
FireAccounted ==
  ~excused /\ ~deleted =>
    \A d \in 1..now : (IF recurring THEN d < job.next ELSE d = 1 /\ ~job.open) =>
      d \in covered \cup job.held \cup dropped

(* The daemon logged a failure instead of arming the job, and nothing that *)
(* is armed or at work will come back to it.                               *)
Stranded == gaveUp /\ timer = NoTimer /\ fire = NoWork

(* A due fire of a live child that no budget halts is told in the end, or  *)
(* else a logged failure left its job without a timer: no race of timer,   *)
(* hold, release, retry, exit and boot strands it (schedules.go,           *)
(* armSchedule: it keeps a held one-shot "from being stranded").           *)
DueIsTold == (Due /\ ~breached) ~> (~Due \/ breached \/ excused \/ Stranded)
=============================================================================

------------------------------ MODULE EventBuf ------------------------------
(***************************************************************************)
(* The event buffer (pkg/eventbuf) of ONE child: when the fragments pushed *)
(* for it are handed to the durable inbox for delivery.  A source has a    *)
(* debounce timer, a max-wait ceiling and a busy gate; DrainIdle releases  *)
(* what the gate held, on the child's turn end; Forget ends the schedule   *)
(* with the process.                                                       *)
(*                                                                         *)
(* Every lock hold of Buffer.mu is a step of its own, so producers, timer  *)
(* goroutines and the child's status goroutine interleave between them.    *)
(* A pushed fragment is known by its number.  Delivery itself is the       *)
(* inbox's (module Inbox): here a flush hands the source's rows over or    *)
(* fails.                                                                  *)
(***************************************************************************)
EXTENDS Integers, FiniteSets

CONSTANTS Sources,    \* the sources that push to the child
          Eligible,   \* those steersWhenBusy lets speak into a running turn
          Ops,        \* the push operations a run uses
          StoreFails, \* whether a durable accept may fail
          Exits,      \* how often the child may exit
          Debounce, MaxWait,
          MaxPush,    \* bound on pushes
          LastPush    \* bound on the time of the last push

MaxTime == LastPush + MaxWait
Pushes  == 1..MaxPush
Times   == 1..MaxTime
Never   == 0

ASSUME EventBufAssumption ==
  /\ Sources # {} /\ Eligible \subseteq Sources
  /\ Ops \subseteq {"push", "durable", "now", "steer"}
  /\ StoreFails \in BOOLEAN
  /\ Exits \in Nat /\ MaxPush \in Nat
  /\ Debounce \in Nat \ {0} /\ MaxWait \in Nat \ {0} /\ LastPush \in Nat \ {0}

NoTimer == [by |-> 0, at |-> Never]
NoPush  == [op |-> "push", src |-> CHOOSE s \in Sources : TRUE, at |-> Never]
Fires   == [by : 0..MaxPush, src : Sources, forced : BOOLEAN]
NoFire  == [by |-> 0, src |-> NoPush.src, forced |-> FALSE]
Handler == MaxPush + 1   \* in "by": the exit handler; 0 is the status goroutine

VARIABLES
  now,       \* the clock
  status,    \* the child store's status
  n, push,   \* pushes so far; the call and the time each reached the buffer
  step,      \* how far each push is
  row,       \* the fragment: in the store, delivered or lost
  waiting,   \* the pushes since the source's last flush; none: not dirty
  orphans,   \* the fragments the store refused
  deferred, first, timer,  \* the rest of perKey
  mu,        \* the fire that holds the lock, having read the busy state
  fires,     \* fire calls that have not taken the lock
  flights,   \* flush calls under way, outside the lock
  monitor,   \* what the child's status goroutine is in the middle of
  exits,     \* exits so far
  leaving    \* exit handlers that have yet to call Forget

keys == <<waiting, orphans, deferred, first, timer>>
life == <<exits, leaving>>
vars == <<now, status, n, push, step, row, keys, mu, fires, flights, monitor, life>>

NoOne == [fire |-> NoFire, busy |-> FALSE, held |-> FALSE]
Free  == ~mu.held

(* childIsBusy and steersWhenBusy: "waiting" is a compaction or a blocked  *)
(* prompt, not a moment to speak into.                                     *)
Busy         == status \notin {"idle", "exited"}
Steerable(s) == s \in Eligible /\ status = "running"

-----------------------------------------------------------------------------
Init ==
  /\ now = 1 /\ status = "idle" /\ n = 0 /\ exits = 0
  /\ push = [i \in Pushes |-> NoPush]
  /\ step = [i \in Pushes |-> "new"]
  /\ row = [i \in Pushes |-> "none"]
  /\ waiting = [s \in Sources |-> {}]
  /\ orphans = [s \in Sources |-> {}]
  /\ deferred = [s \in Sources |-> FALSE]
  /\ first = [s \in Sources |-> Never]
  /\ timer = [s \in Sources |-> NoTimer]
  /\ mu = NoOne /\ fires = {} /\ flights = {}
  /\ monitor = [doing |-> "nothing", drain |-> {}] /\ leaving = 0

-----------------------------------------------------------------------------
(* The producers.                                                          *)

(* The durable accept, before any lock is taken.  The inbox refuses an     *)
(* exited child, except for a notification, which alone is pushed durably; *)
(* a fragment that could not be stored is kept as an orphan, but PushDurable*)
(* reports the failure instead.                                            *)
Accept(op, s) ==
  /\ n < MaxPush /\ now <= LastPush
  /\ n' = n + 1
  /\ push' = [push EXCEPT ![n + 1] = [op |-> op, src |-> s, at |-> Never]]
  /\ \/ /\ status # "exited" \/ op = "durable"
        /\ step' = [step EXCEPT ![n + 1] = "stored"]
        /\ row' = [row EXCEPT ![n + 1] = "pending"]
     \/ /\ StoreFails \/ (status = "exited" /\ op # "durable")
        /\ step' = [step EXCEPT ![n + 1] = IF op = "durable" THEN "refused" ELSE "orphan"]
        /\ UNCHANGED row
  /\ UNCHANGED <<now, status, keys, mu, fires, flights, monitor, life>>

Earlier(a, b) == IF a < b THEN a ELSE b

ArmLocked_restart(i) ==
  LET s == push[i].src
  IN  /\ push' = [push EXCEPT ![i].at = now]
      /\ first' = [first EXCEPT ![s] = now]
      /\ timer' = [timer EXCEPT ![s] = [by |-> i, at |-> Earlier(now + Debounce, now + MaxWait)]]

(* min(now + Debounce, firstPushAt + MaxWait), and not in the past; the    *)
(* timer armed before is stopped, one that has already expired runs on.    *)
ArmLocked(i) ==
  LET s == push[i].src
      since == IF first[s] = Never THEN now ELSE first[s]
      due == Earlier(now + Debounce, since + MaxWait)
  IN  /\ push' = [push EXCEPT ![i].at = now]
      /\ first' = [first EXCEPT ![s] = since]
      /\ timer' = [timer EXCEPT ![s] = [by |-> i, at |-> IF due < now THEN now ELSE due]]

(* The perKey is marked dirty; an unstorable fragment is kept in it.       *)
MarkDirty(i) ==
  LET s == push[i].src
  IN  /\ waiting' = [waiting EXCEPT ![s] = @ \cup {i}]
      /\ orphans' = [orphans EXCEPT ![s] = IF step[i] = "orphan" THEN @ \cup {i} ELSE @]

(* Push marks under one lock hold and arms under the next.                 *)
PushMark(i) ==
  /\ step[i] \in {"stored", "orphan"} /\ push[i].op = "push" /\ Free
  /\ MarkDirty(i)
  /\ step' = [step EXCEPT ![i] = "marked"]
  /\ UNCHANGED <<now, status, n, push, row, deferred, first, timer, mu, fires, flights, monitor, life>>

PushArm(i) ==
  /\ step[i] = "marked" /\ Free
  /\ ArmLocked(i)
  /\ step' = [step EXCEPT ![i] = "done"]
  /\ UNCHANGED <<now, status, n, row, waiting, orphans, deferred, mu, fires, flights, monitor, life>>

(* PushDurable marks and arms under one.                                   *)
PushDurable(i) ==
  /\ step[i] = "stored" /\ push[i].op = "durable" /\ Free
  /\ MarkDirty(i)
  /\ ArmLocked(i)
  /\ step' = [step EXCEPT ![i] = "done"]
  /\ UNCHANGED <<now, status, n, row, deferred, mu, fires, flights, monitor, life>>

(* PushNow and PushSteer fire at once; a steer skips the busy gate.        *)
PushNow(i) ==
  /\ step[i] \in {"stored", "orphan"} /\ push[i].op \in {"now", "steer"} /\ Free
  /\ MarkDirty(i)
  /\ fires' = fires \cup {[by |-> i, src |-> push[i].src, forced |-> push[i].op = "steer"]}
  /\ step' = [step EXCEPT ![i] = "done"]
  /\ UNCHANGED <<now, status, n, push, row, deferred, first, timer, mu, flights, monitor, life>>

-----------------------------------------------------------------------------
(* fire.                                                                   *)

(* A timer that expired is a goroutine Stop no longer reaches.             *)
Expire(s) ==
  /\ timer[s] # NoTimer /\ timer[s].at <= now
  /\ fires' = fires \cup {[by |-> timer[s].by, src |-> s, forced |-> FALSE]}
  /\ timer' = [timer EXCEPT ![s] = NoTimer]
  /\ UNCHANGED <<now, status, n, push, step, row, waiting, orphans, deferred, first, mu, flights,
                 monitor, life>>

(* Under the lock: nothing to flush, or the busy state is read.            *)
FireCheck ==
  \E f \in fires :
    /\ Free
    /\ fires' = fires \ {f}
    /\ mu' = IF waiting[f.src] = {} THEN mu
             ELSE [fire |-> f, busy |-> ~f.forced /\ Busy, held |-> TRUE]
    /\ UNCHANGED <<now, status, n, push, step, row, keys, flights, monitor, life>>

(* Still under the lock, the child's status perhaps already another.       *)
FireDefer ==
  /\ mu.held /\ mu.busy /\ ~Steerable(mu.fire.src)
  /\ deferred' = [deferred EXCEPT ![mu.fire.src] = TRUE]
  /\ mu' = NoOne
  /\ UNCHANGED <<now, status, n, push, step, row, waiting, orphans, first, timer, fires, flights,
                 monitor, life>>

FireTake_keepsOrphans ==
  /\ mu.held /\ (mu.busy => Steerable(mu.fire.src))
  /\ LET s == mu.fire.src
     IN  /\ flights' = flights \cup {[by |-> mu.fire.by, src |-> s, orphans |-> orphans[s]]}
         /\ waiting' = [waiting EXCEPT ![s] = {}]
         /\ deferred' = [deferred EXCEPT ![s] = FALSE]
         /\ first' = [first EXCEPT ![s] = Never]
         /\ timer' = [timer EXCEPT ![s] = NoTimer]
  /\ mu' = NoOne
  /\ UNCHANGED <<now, status, n, push, step, row, orphans, fires, monitor, life>>

FireTake ==
  /\ mu.held /\ (mu.busy => Steerable(mu.fire.src))
  /\ LET s == mu.fire.src
     IN  /\ flights' = flights \cup {[by |-> mu.fire.by, src |-> s, orphans |-> orphans[s]]}
         /\ waiting' = [waiting EXCEPT ![s] = {}]
         /\ orphans' = [orphans EXCEPT ![s] = {}]
         /\ deferred' = [deferred EXCEPT ![s] = FALSE]
         /\ first' = [first EXCEPT ![s] = Never]
         /\ timer' = [timer EXCEPT ![s] = NoTimer]
  /\ mu' = NoOne
  /\ UNCHANGED <<now, status, n, push, step, row, fires, monitor, life>>

(* flushInboxSource: the source's pending rows are delivered, then the     *)
(* orphans; a failure leaves the rows queued and the orphans lost.         *)
Handed(f, outcome) ==
  [i \in Pushes |-> IF i \in f.orphans THEN outcome
                    ELSE IF outcome = "delivered" /\ push[i].src = f.src /\ row[i] = "pending"
                         THEN "delivered" ELSE row[i]]

Flush ==
  \E f \in flights :
    /\ flights' = flights \ {f}
    /\ \/ status # "exited" /\ row' = Handed(f, "delivered")
       \/ row' = Handed(f, "lost")
    /\ UNCHANGED <<now, status, n, push, step, keys, mu, fires, monitor, life>>

-----------------------------------------------------------------------------
(* The child's status goroutine: one transition at a time.                 *)

At(m) == monitor.doing = m
Doing(m) == monitor' = [monitor EXCEPT !.doing = m]

(* Its own fire and flush calls, made one after the other.                 *)
Settled == /\ \A f \in fires : f.by # 0
           /\ \A f \in flights : f.by # 0
           /\ mu.held => mu.fire.by # 0

TurnStart ==
  /\ At("nothing") /\ status \in {"idle", "running", "waiting"}
  /\ status' \in {"running", "waiting"} \ {status}
  /\ UNCHANGED <<now, n, push, step, row, keys, mu, fires, flights, monitor, life>>

(* handleStatusChange stores the status, and only then calls DrainIdle.    *)
TurnEnd ==
  /\ At("nothing") /\ Busy
  /\ status' = "idle"
  /\ Doing("idle")
  /\ UNCHANGED <<now, n, push, step, row, keys, mu, fires, flights, life>>

DrainIdle_unlocked ==
  /\ At("idle")
  /\ monitor' = [doing |-> "drain", drain |-> {s \in Sources : deferred[s] /\ waiting[s] # {}}]
  /\ UNCHANGED <<now, status, n, push, step, row, keys, mu, fires, flights, life>>

DrainIdle ==
  /\ At("idle") /\ Free
  /\ monitor' = [doing |-> "drain", drain |-> {s \in Sources : deferred[s] /\ waiting[s] # {}}]
  /\ UNCHANGED <<now, status, n, push, step, row, keys, mu, fires, flights, life>>

DrainNext ==
  /\ At("drain") /\ Settled
  /\ \/ \E s \in monitor.drain :
          /\ fires' = fires \cup {[by |-> 0, src |-> s, forced |-> TRUE]}
          /\ monitor' = [monitor EXCEPT !.drain = @ \ {s}]
     \/ /\ monitor.drain = {}
        /\ Doing("nothing")
        /\ UNCHANGED fires
  /\ UNCHANGED <<now, status, n, push, step, row, keys, mu, flights, life>>

(* MarkExited: from here on the child may be resumed, and its exit handler *)
(* has Forget still to call.                                               *)
Exit ==
  /\ At("nothing") /\ status # "exited" /\ exits < Exits
  /\ exits' = exits + 1 /\ leaving' = leaving + 1
  /\ status' = "exited"
  /\ Doing("exited")
  /\ UNCHANGED <<now, n, push, step, row, keys, mu, fires, flights>>

(* It forgets by child id, the successor's fragments too when the resume   *)
(* was faster.  The orphans have no other copy: they are flushed like a    *)
(* fire's, in the goroutine of the exit handler.                           *)
Forget ==
  /\ leaving > 0 /\ Free
  /\ leaving' = leaving - 1
  /\ flights' = flights \cup {[by |-> Handler, src |-> s, orphans |-> orphans[s]] :
                                s \in {k \in Sources : orphans[k] # {}}}
  /\ waiting' = [s \in Sources |-> {}]
  /\ orphans' = [s \in Sources |-> {}]
  /\ deferred' = [s \in Sources |-> FALSE]
  /\ first' = [s \in Sources |-> Never]
  /\ timer' = [s \in Sources |-> NoTimer]
  /\ UNCHANGED <<now, status, n, push, step, row, mu, fires, monitor, exits>>

(* Another process of the same child: activateLiveChild sets it idle.      *)
Resume ==
  /\ At("exited")
  /\ status' = "idle"
  /\ Doing("nothing")
  /\ UNCHANGED <<now, n, push, step, row, keys, mu, fires, flights, life>>

(* A due timer expires before time goes on.  The clock is bounded so that   *)
(* every armed timer can expire: after LastPush it waits for the producers. *)
Tick ==
  /\ now < MaxTime
  /\ now < LastPush \/ \A i \in Pushes : step[i] \in {"new", "done", "refused"}
  /\ \A s \in Sources : timer[s] # NoTimer => timer[s].at > now
  /\ now' = now + 1
  /\ UNCHANGED <<status, n, push, step, row, keys, mu, fires, flights, monitor, life>>

-----------------------------------------------------------------------------
Producer(i) == PushMark(i) \/ PushArm(i) \/ PushDurable(i) \/ PushNow(i)
Fire        == FireCheck \/ FireDefer \/ FireTake
Monitor     == DrainIdle \/ DrainNext

Next ==
  \/ \E op \in Ops, s \in Sources : Accept(op, s)
  \/ \E i \in Pushes : Producer(i)
  \/ \E s \in Sources : Expire(s)
  \/ Fire \/ Flush
  \/ TurnStart \/ TurnEnd \/ Exit \/ Forget \/ Monitor \/ Resume
  \/ Tick

Spec == Init /\ [][Next]_vars

(* Time passes, goroutines run and get the lock, and turns end.            *)
Fairness ==
  /\ \A i \in Pushes : WF_vars(Producer(i))
  /\ \A s \in Sources : WF_vars(Expire(s))
  /\ WF_vars(FireCheck) /\ WF_vars(FireDefer \/ FireTake) /\ WF_vars(Flush)
  /\ WF_vars(Monitor) /\ WF_vars(Forget) /\ SF_vars(TurnEnd) /\ WF_vars(Tick)

FairSpec == Spec /\ Fairness

-----------------------------------------------------------------------------
(* Properties.                                                             *)

TypeOK ==
  /\ now \in Times /\ status \in {"idle", "running", "waiting", "exited"}
  /\ n \in 0..MaxPush /\ exits \in 0..Exits
  /\ push \in [Pushes -> [op : Ops \cup {"push"}, src : Sources, at : {Never} \cup Times]]
  /\ step \in [Pushes -> {"new", "stored", "orphan", "refused", "marked", "done"}]
  /\ row \in [Pushes -> {"none", "pending", "delivered", "lost"}]
  /\ waiting \in [Sources -> SUBSET Pushes] /\ orphans \in [Sources -> SUBSET Pushes]
  /\ deferred \in [Sources -> BOOLEAN] /\ first \in [Sources -> {Never} \cup Times]
  /\ timer \in [Sources -> [by : 0..MaxPush, at : Nat]]
  /\ mu \in [fire : Fires, busy : BOOLEAN, held : BOOLEAN]
  /\ fires \subseteq Fires
  /\ flights \subseteq [by : 0..Handler, src : Sources, orphans : SUBSET Pushes]
  /\ monitor \in [doing : {"nothing", "idle", "drain", "exited"}, drain : SUBSET Sources]
  /\ leaving \in Nat

(* A fire for source s is under way.                                       *)
Firing(s) == (mu.held /\ mu.fire.src = s) \/ \E f \in fires : f.src = s

(* Somebody is about to look at source s.                                  *)
Watched(s) ==
  \/ timer[s] # NoTimer \/ Firing(s)
  \/ \E i \in Pushes : push[i].src = s /\ step[i] = "marked"

(* Somebody will release what the gate withholds: the turn's end, the      *)
(* DrainIdle after it, or Forget.                                          *)
Released(s) == Busy \/ At("idle") \/ leaving > 0 \/ (At("drain") /\ s \in monitor.drain)

(* No fragment waits unseen: while a source is dirty a timer is armed or a *)
(* fire is on its way, or the batch is deferred and the idle drain that    *)
(* releases it is still to come (buffer.go, the comment on fire).          *)
NoLostWakeup ==
  \A s \in Sources : waiting[s] # {} => Watched(s) \/ (deferred[s] /\ Released(s))

(* Why a deferral is never too late: a fire that found the child busy      *)
(* still holds the lock, and the goroutine that changed the status since   *)
(* has not yet got it (buffer.go, fire; controller.go, handleStatusChange).*)
GateFresh == mu.held /\ mu.busy => Busy \/ At("idle") \/ leaving > 0

ExitKnown == At("exited") => status = "exited"

NotYetPushed == \A i \in Pushes : i > n => step[i] = "new"

WakeupInv == NoLostWakeup /\ GateFresh /\ ExitKnown /\ NotYetPushed

(* The fragment of push i waits on a timer.                                *)
Timed(s, i) == i \in waiting[s] /\ step[i] = "done" /\ push[i].at # Never

(* MaxWait is a ceiling for every fragment, however many follow it: unless *)
(* the busy gate holds it or a fire is looking at it, a timer is armed no  *)
(* later than MaxWait after it was pushed (buffer.go, armLocked).          *)
Ceiling ==
  \A s \in Sources, i \in Pushes : Timed(s, i) =>
    \/ deferred[s] \/ Firing(s)
    \/ timer[s] # NoTimer /\ timer[s].at <= push[i].at + MaxWait

(* A fragment the store refused has one copy: it is queued in one place,   *)
(* or it has been handed over, once, or lost (buffer.go, fire and Forget). *)
OrphanOnce ==
  \A i \in Pushes : step[i] \in {"marked", "done"} =>
    Cardinality({s \in Sources : i \in orphans[s]}) + Cardinality({f \in flights : i \in f.orphans})
      + (IF row[i] = "none" THEN 0 ELSE 1) = 1

(* A fragment in the buffer is flushed, or forgotten with the process: no  *)
(* order of pushes, timers and turns leaves it there.                      *)
EventuallyFlushed ==
  \A s \in Sources, i \in Pushes : i \in waiting[s] ~> i \notin waiting[s]
=============================================================================

----------------------------- MODULE EventBufProofs -----------------------------
(***************************************************************************)
(* Proofs about EventBuf, for every set of sources and pushes, every       *)
(* debounce and max-wait.                                                  *)
(***************************************************************************)
EXTENDS EventBuf, TLAPS, FiniteSetTheorems

USE DEF life

LEMMA Blanks == /\ NoPush \in [op : Ops \cup {"push"}, src : Sources, at : {Never} \cup Times]
                /\ NoTimer \in [by : 0..MaxPush, at : Nat]
                /\ NoOne \in [fire : Fires, busy : BOOLEAN, held : BOOLEAN]
<1>1. NoPush.src \in Sources
  BY EventBufAssumption DEF NoPush
<1>2. NoFire \in Fires
  BY <1>1, EventBufAssumption DEF NoFire, Fires
<1>3. NoPush \in [op : Ops \cup {"push"}, src : Sources, at : {Never} \cup Times]
  BY <1>1 DEF NoPush
<1>4. NoTimer \in [by : 0..MaxPush, at : Nat]
  BY EventBufAssumption DEF NoTimer, Never
<1>. QED
  BY <1>2, <1>3, <1>4 DEF NoOne

LEMMA Clock == Times \subseteq Nat /\ MaxTime \in Nat /\ Never = 0 /\ LastPush \in Nat
  BY EventBufAssumption DEF Times, MaxTime, Never

LEMMA InitType == Init => TypeOK
  BY Blanks, EventBufAssumption DEF Init, TypeOK, Times, MaxTime, Never

(* What arming does to push, first and timer.                              *)
LEMMA ArmType ==
  ASSUME TypeOK, NEW i \in Pushes, ArmLocked(i)
  PROVE  /\ push' \in [Pushes -> [op : Ops \cup {"push"}, src : Sources, at : {Never} \cup Times]]
         /\ first' \in [Sources -> {Never} \cup Times]
         /\ timer' \in [Sources -> [by : 0..MaxPush, at : Nat]]
         /\ \A j \in Pushes : push'[j].src = push[j].src /\ push'[j].op = push[j].op
         /\ \A s \in Sources : timer[s] # NoTimer => timer'[s] # NoTimer
         /\ timer'[push[i].src] # NoTimer
<1>. DEFINE s == push[i].src
            since == IF first[s] = Never THEN now ELSE first[s]
            due == Earlier(now + Debounce, since + MaxWait)
<1>1. s \in Sources /\ now \in Times /\ first[s] \in {Never} \cup Times
  BY DEF TypeOK
<1>2. since \in Times
  BY <1>1
<1>3. due \in Nat /\ now \in Nat
  <2>1. now \in Nat /\ since \in Nat
    BY <1>1, <1>2, Clock
  <2>. HIDE DEF since
  <2>. QED
    BY <2>1, EventBufAssumption DEF Earlier
<1>4. /\ push' = [push EXCEPT ![i].at = now]
      /\ first' = [first EXCEPT ![s] = since]
      /\ timer' = [timer EXCEPT ![s] = [by |-> i, at |-> IF due < now THEN now ELSE due]]
  BY DEF ArmLocked
<1>. HIDE DEF s, since, due
<1>5. push' \in [Pushes -> [op : Ops \cup {"push"}, src : Sources, at : {Never} \cup Times]]
      /\ \A j \in Pushes : push'[j].src = push[j].src /\ push'[j].op = push[j].op
  <2>1. push[i] \in [op : Ops \cup {"push"}, src : Sources, at : {Never} \cup Times]
    BY DEF TypeOK
  <2>2. \A j \in Pushes : push'[j] = IF j = i THEN [push[i] EXCEPT !.at = now] ELSE push[j]
    BY <1>4 DEF TypeOK
  <2>3. DOMAIN push' = Pushes /\ push' = [j \in Pushes |-> push'[j]]
    BY <1>4 DEF TypeOK
  <2>4. \A j \in Pushes : /\ push'[j] \in [op : Ops \cup {"push"}, src : Sources, at : {Never} \cup Times]
                         /\ push'[j].src = push[j].src /\ push'[j].op = push[j].op
    <3>1. \A j \in Pushes : push[j] \in [op : Ops \cup {"push"}, src : Sources, at : {Never} \cup Times]
      BY DEF TypeOK
    <3>. QED
      BY <1>1, <2>1, <2>2, <3>1
  <2>. QED
    BY <2>3, <2>4
<1>6. first' \in [Sources -> {Never} \cup Times]
  BY <1>1, <1>2, <1>4 DEF TypeOK
<1>7. [by |-> i, at |-> IF due < now THEN now ELSE due] \in [by : 0..MaxPush, at : Nat]
  BY <1>3, EventBufAssumption DEF Pushes
<1>8. [by |-> i, at |-> IF due < now THEN now ELSE due] # NoTimer
  BY EventBufAssumption DEF Pushes, NoTimer
<1>9. timer' \in [Sources -> [by : 0..MaxPush, at : Nat]]
  BY <1>1, <1>4, <1>7 DEF TypeOK
<1>10. timer'[s] # NoTimer /\ \A k \in Sources : timer[k] # NoTimer => timer'[k] # NoTimer
  BY <1>1, <1>4, <1>8 DEF TypeOK
<1>. QED
  BY <1>5, <1>6, <1>9, <1>10 DEF s

LEMMA NextType == TypeOK /\ [Next]_vars => TypeOK'
<1>. SUFFICES ASSUME TypeOK, [Next]_vars PROVE TypeOK'
  OBVIOUS
<1>. USE EventBufAssumption
<1>1. ASSUME NEW op \in Ops, NEW s \in Sources, Accept(op, s) PROVE TypeOK'
  <2>1. n + 1 \in Pushes /\ n + 1 \in 0..MaxPush
    BY <1>1 DEF Accept, TypeOK, Pushes
  <2>2. [op |-> op, src |-> s, at |-> Never]
          \in [op : Ops \cup {"push"}, src : Sources, at : {Never} \cup Times]
    OBVIOUS
  <2>. QED
    <3>1. push' \in [Pushes -> [op : Ops \cup {"push"}, src : Sources, at : {Never} \cup Times]]
      BY <1>1, <2>1, <2>2 DEF Accept, TypeOK
    <3>2. step' \in [Pushes -> {"new", "stored", "orphan", "refused", "marked", "done"}]
      BY <1>1, <2>1 DEF Accept, TypeOK
    <3>3. row' \in [Pushes -> {"none", "pending", "delivered", "lost"}]
      BY <1>1, <2>1 DEF Accept, TypeOK
    <3>4. n' \in 0..MaxPush /\ UNCHANGED <<now, status, keys, mu, fires, flights, monitor, life>>
      BY <1>1, <2>1 DEF Accept
    <3>. QED
      BY <3>1, <3>2, <3>3, <3>4 DEF TypeOK, keys
<1>2. ASSUME NEW i \in Pushes, PushMark(i) PROVE TypeOK'
  BY <1>2 DEF PushMark, MarkDirty, TypeOK
<1>3. ASSUME NEW i \in Pushes, PushArm(i) PROVE TypeOK'
  BY <1>3, ArmType DEF PushArm, TypeOK
<1>4. ASSUME NEW i \in Pushes, PushDurable(i) PROVE TypeOK'
  BY <1>4, ArmType DEF PushDurable, MarkDirty, TypeOK
<1>5. ASSUME NEW i \in Pushes, PushNow(i) PROVE TypeOK'
  <2>1. [by |-> i, src |-> push[i].src, forced |-> push[i].op = "steer"] \in Fires
    <3>. DEFINE b == push[i].op = "steer"
    <3>1. b \in BOOLEAN
      OBVIOUS
    <3>2. push[i].src \in Sources /\ i \in 0..MaxPush
      BY DEF TypeOK, Pushes
    <3>. HIDE DEF b
    <3>3. [by |-> i, src |-> push[i].src, forced |-> b] \in Fires
      BY <3>1, <3>2 DEF Fires
    <3>. QED
      BY <3>3 DEF b
  <2>. QED
    BY <1>5, <2>1 DEF PushNow, MarkDirty, TypeOK
<1>6. ASSUME NEW s \in Sources, Expire(s) PROVE TypeOK'
  <2>1. [by |-> timer[s].by, src |-> s, forced |-> FALSE] \in Fires
    BY DEF TypeOK, Fires
  <2>. QED
    BY <1>6, <2>1, Blanks DEF Expire, TypeOK
<1>7. CASE FireCheck
  BY <1>7 DEF FireCheck, TypeOK, keys
<1>8. CASE FireDefer
  BY <1>8, Blanks DEF FireDefer, TypeOK, Fires
<1>9. CASE FireTake
  <2>1. [by |-> mu.fire.by, src |-> mu.fire.src, orphans |-> orphans[mu.fire.src]]
          \in [by : 0..Handler, src : Sources, orphans : SUBSET Pushes]
    BY EventBufAssumption DEF TypeOK, Fires, Handler
  <2>. QED
    BY <1>9, <2>1, Blanks DEF FireTake, TypeOK, Fires
<1>10. CASE Flush
  BY <1>10 DEF Flush, Handed, TypeOK, keys
<1>11. CASE TurnStart
  BY <1>11 DEF TurnStart, TypeOK, keys
<1>12. CASE TurnEnd
  BY <1>12 DEF TurnEnd, Doing, TypeOK, keys
<1>13. CASE Exit
  <2>1. exits' \in 0..Exits
    BY <1>13 DEF Exit, TypeOK
  <2>2. monitor' \in [doing : {"nothing", "idle", "drain", "exited"}, drain : SUBSET Sources]
    BY <1>13 DEF Exit, Doing, TypeOK
  <2>. QED
    BY <1>13, <2>1, <2>2 DEF Exit, TypeOK, keys
<1>14. CASE DrainIdle
  BY <1>14 DEF DrainIdle, TypeOK, keys
<1>15. CASE DrainNext
  <2>1. monitor' \in [doing : {"nothing", "idle", "drain", "exited"}, drain : SUBSET Sources]
    BY <1>15 DEF DrainNext, Doing, TypeOK
  <2>2. fires' \subseteq Fires
    <3>1. \A s \in Sources : [by |-> 0, src |-> s, forced |-> TRUE] \in Fires
      BY DEF Fires
    <3>. QED
      BY <1>15, <3>1 DEF DrainNext, TypeOK
  <2>. QED
    BY <1>15, <2>1, <2>2 DEF DrainNext, TypeOK, keys
<1>16. CASE Forget
  <2>1. leaving' \in Nat
    BY <1>16 DEF Forget, TypeOK
  <2>2. flights' \subseteq [by : 0..Handler, src : Sources, orphans : SUBSET Pushes]
    BY <1>16, EventBufAssumption DEF Forget, Handler, TypeOK
  <2>. QED
    BY <1>16, <2>1, <2>2, Blanks DEF Forget, TypeOK
<1>17. CASE Resume
  BY <1>17 DEF Resume, Doing, TypeOK, keys
<1>18. CASE Tick
  BY <1>18, Clock DEF Tick, TypeOK, keys, Times
<1>19. CASE UNCHANGED vars
  BY <1>19 DEF vars, TypeOK, keys
<1>. QED
  BY <1>1, <1>2, <1>3, <1>4, <1>5, <1>6, <1>7, <1>8, <1>9, <1>10, <1>11, <1>12, <1>13, <1>14, <1>15, <1>16, <1>17, <1>18, <1>19 DEF Next, Producer, Fire, Monitor

(* Every reachable state has the shape TypeOK describes.                   *)
THEOREM TypeCorrect == Spec => []TypeOK
<1>. QED
  BY InitType, NextType, PTL DEF Spec

-----------------------------------------------------------------------------
(* No lost wakeup.                                                         *)

LEMMA InitWakeup == Init => WakeupInv
  BY DEF Init, WakeupInv, NoLostWakeup, GateFresh, ExitKnown, NotYetPushed, At, NoOne

(* A step that changes none of what WakeupInv speaks of.                   *)
LEMMA WakeupStill ==
  ASSUME WakeupInv, UNCHANGED <<status, n, push, step, keys, mu, fires, monitor, leaving>>
  PROVE  WakeupInv'
  BY DEF WakeupInv, NoLostWakeup, GateFresh, ExitKnown, NotYetPushed, Watched, Firing, Released, At, Busy, keys

LEMMA NextWakeup == TypeOK /\ WakeupInv /\ [Next]_vars => WakeupInv'
<1>. SUFFICES ASSUME TypeOK, WakeupInv, [Next]_vars PROVE WakeupInv'
  OBVIOUS
<1>. USE EventBufAssumption
<1>0. /\ NoLostWakeup /\ GateFresh /\ ExitKnown /\ NotYetPushed
      /\ timer \in [Sources -> [by : 0..MaxPush, at : Nat]]
      /\ waiting \in [Sources -> SUBSET Pushes] /\ deferred \in [Sources -> BOOLEAN]
      /\ step \in [Pushes -> {"new", "stored", "orphan", "refused", "marked", "done"}]
      /\ push \in [Pushes -> [op : Ops \cup {"push"}, src : Sources, at : {Never} \cup Times]]
      /\ monitor \in [doing : {"nothing", "idle", "drain", "exited"}, drain : SUBSET Sources]
      /\ mu \in [fire : Fires, busy : BOOLEAN, held : BOOLEAN] /\ fires \subseteq Fires
      /\ n \in 0..MaxPush /\ leaving \in Nat
  BY DEF WakeupInv, TypeOK
<1>1. ASSUME NEW op \in Ops, NEW s \in Sources, Accept(op, s) PROVE WakeupInv'
  <2>8. NoLostWakeup'
    <3>1. n + 1 \in Pushes /\ step[n + 1] = "new"
      BY <1>0, <1>1 DEF Accept, NotYetPushed, Pushes
    <3>2. \A j \in Pushes : step[j] = "marked" => step'[j] = step[j] /\ push'[j] = push[j]
      BY <1>0, <1>1, <3>1 DEF Accept
    <3>3. UNCHANGED <<status, waiting, deferred, timer, mu, fires, monitor, leaving>>
      BY <1>1 DEF Accept, keys
    <3>4. ASSUME NEW k \in Sources PROVE Watched(k) => Watched(k)'
      BY <3>2, <3>3 DEF Watched, Firing
    <3>5. ASSUME NEW k \in Sources PROVE Released(k) => Released(k)'
      BY <3>3 DEF Released, At, Busy
    <3>. QED
      BY <1>0, <3>3, <3>4, <3>5 DEF NoLostWakeup
  <2>9. GateFresh' /\ ExitKnown' /\ NotYetPushed'
    <3>1. \A j \in Pushes : j > n + 1 => step'[j] = step[j]
      BY <1>0, <1>1, SMTT(30) DEF Accept, Pushes
    <3>2. NotYetPushed'
      BY <1>0, <1>1, <3>1, SMTT(30) DEF Accept, NotYetPushed, Pushes
    <3>. QED
      BY <1>0, <1>1, <3>2 DEF Accept, GateFresh, ExitKnown, At, Busy
  <2>. QED
    BY <2>8, <2>9 DEF WakeupInv
<1>2. ASSUME NEW i \in Pushes, PushMark(i) PROVE WakeupInv'
  <2>8. NoLostWakeup'
    BY <1>0, <1>2, SMTT(30) DEF PushMark, NoLostWakeup, Watched, Firing, Released, At, Busy, MarkDirty
  <2>9. GateFresh' /\ ExitKnown' /\ NotYetPushed'
    BY <1>0, <1>2 DEF PushMark, GateFresh, ExitKnown, NotYetPushed, At, Busy, Doing
  <2>. QED
    BY <2>8, <2>9 DEF WakeupInv
<1>3. ASSUME NEW i \in Pushes, PushArm(i) PROVE WakeupInv'
  <2>1. /\ \A j \in Pushes : push'[j].src = push[j].src
        /\ \A s \in Sources : timer[s] # NoTimer => timer'[s] # NoTimer
        /\ timer'[push[i].src] # NoTimer
    BY <1>3, ArmType DEF PushArm
  <2>2. /\ \A j \in Pushes : step'[j] = "marked" \/ j = i \/ step[j] # "marked"
        /\ UNCHANGED <<status, waiting, deferred, mu, fires, monitor, leaving>>
    BY <1>0, <1>3 DEF PushArm
  <2>8. NoLostWakeup'
    <3>. SUFFICES ASSUME NEW s \in Sources, waiting'[s] # {}
                  PROVE  Watched(s)' \/ (deferred'[s] /\ Released(s)')
      BY DEF NoLostWakeup
    <3>1. CASE s = push[i].src
      BY <2>1, <3>1 DEF Watched
    <3>2. CASE s # push[i].src
      <4>1. Watched(s) \/ (deferred[s] /\ Released(s))
        BY <1>0, <2>2, <3>2 DEF NoLostWakeup
      <4>2. Watched(s) => Watched(s)'
        BY <2>1, <2>2, <3>2 DEF Watched, Firing
      <4>3. deferred[s] /\ Released(s) => deferred'[s] /\ Released(s)'
        BY <2>2 DEF Released, At, Busy
      <4>. QED
        BY <4>1, <4>2, <4>3
    <3>. QED
      BY <3>1, <3>2
  <2>9. GateFresh' /\ ExitKnown' /\ NotYetPushed'
    BY <1>0, <1>3 DEF PushArm, GateFresh, ExitKnown, NotYetPushed, At, Busy, Doing
  <2>. QED
    BY <2>8, <2>9 DEF WakeupInv
<1>4. ASSUME NEW i \in Pushes, PushDurable(i) PROVE WakeupInv'
  <2>1. /\ \A j \in Pushes : push'[j].src = push[j].src
        /\ \A s \in Sources : timer[s] # NoTimer => timer'[s] # NoTimer
        /\ timer'[push[i].src] # NoTimer
    BY <1>4, ArmType DEF PushDurable
  <2>2. /\ \A j \in Pushes : step'[j] = "marked" \/ step[j] # "marked"
        /\ \A s \in Sources : s # push[i].src => waiting'[s] = waiting[s]
        /\ UNCHANGED <<status, deferred, mu, fires, monitor, leaving>>
    BY <1>0, <1>4 DEF PushDurable, MarkDirty
  <2>8. NoLostWakeup'
    <3>. SUFFICES ASSUME NEW s \in Sources, waiting'[s] # {}
                  PROVE  Watched(s)' \/ (deferred'[s] /\ Released(s)')
      BY DEF NoLostWakeup
    <3>1. CASE s = push[i].src
      BY <2>1, <3>1 DEF Watched
    <3>2. CASE s # push[i].src
      <4>1. Watched(s) \/ (deferred[s] /\ Released(s))
        BY <1>0, <2>2, <3>2 DEF NoLostWakeup
      <4>2. Watched(s) => Watched(s)'
        BY <2>1, <2>2, <3>2 DEF Watched, Firing
      <4>3. deferred[s] /\ Released(s) => deferred'[s] /\ Released(s)'
        BY <2>2 DEF Released, At, Busy
      <4>. QED
        BY <4>1, <4>2, <4>3
    <3>. QED
      BY <3>1, <3>2
  <2>9. GateFresh' /\ ExitKnown' /\ NotYetPushed'
    BY <1>0, <1>4 DEF PushDurable, GateFresh, ExitKnown, NotYetPushed, At, Busy, Doing
  <2>. QED
    BY <2>8, <2>9 DEF WakeupInv
<1>5. ASSUME NEW i \in Pushes, PushNow(i) PROVE WakeupInv'
  <2>1. /\ \A f \in fires : f \in fires'
        /\ \E f \in fires' : f.src = push[i].src
    <3>. DEFINE b == push[i].op = "steer"
                f == [by |-> i, src |-> push[i].src, forced |-> b]
    <3>1. fires' = fires \cup {f}
      BY <1>5 DEF PushNow
    <3>. HIDE DEF b
    <3>2. f.src = push[i].src
      OBVIOUS
    <3>. HIDE DEF f
    <3>. QED
      BY <3>1, <3>2
  <2>2. /\ \A j \in Pushes : step'[j] = "marked" \/ step[j] # "marked"
        /\ \A s \in Sources : s # push[i].src => waiting'[s] = waiting[s]
        /\ UNCHANGED <<status, push, timer, deferred, mu, monitor, leaving>>
    BY <1>0, <1>5 DEF PushNow, MarkDirty
  <2>8. NoLostWakeup'
    BY <1>0, <2>1, <2>2 DEF NoLostWakeup, Watched, Firing, Released, At, Busy
  <2>9. GateFresh' /\ ExitKnown' /\ NotYetPushed'
    BY <1>0, <1>5 DEF PushNow, GateFresh, ExitKnown, NotYetPushed, At, Busy, Doing
  <2>. QED
    BY <2>8, <2>9 DEF WakeupInv
<1>6. ASSUME NEW s \in Sources, Expire(s) PROVE WakeupInv'
  <2>1. /\ \A f \in fires : f \in fires'
        /\ \E f \in fires' : f.src = s
    <3>. DEFINE f == [by |-> timer[s].by, src |-> s, forced |-> FALSE]
    <3>1. fires' = fires \cup {f}
      BY <1>6 DEF Expire
    <3>2. f.src = s
      OBVIOUS
    <3>. HIDE DEF f
    <3>. QED
      BY <3>1, <3>2
  <2>2. /\ \A k \in Sources : k # s => timer'[k] = timer[k]
        /\ UNCHANGED <<status, push, step, waiting, deferred, mu, monitor, leaving>>
    BY <1>0, <1>6 DEF Expire
  <2>8. NoLostWakeup'
    BY <1>0, <2>1, <2>2 DEF NoLostWakeup, Watched, Firing, Released, At, Busy
  <2>9. GateFresh' /\ ExitKnown' /\ NotYetPushed'
    BY <1>0, <1>6 DEF Expire, GateFresh, ExitKnown, NotYetPushed, At, Busy, Doing
  <2>. QED
    BY <2>8, <2>9 DEF WakeupInv
<1>7. CASE FireCheck
  <2>8. NoLostWakeup'
    BY <1>0, <1>7 DEF FireCheck, NoLostWakeup, Watched, Firing, Released, At, Busy, keys, Free
  <2>9. GateFresh' /\ ExitKnown' /\ NotYetPushed'
    BY <1>0, <1>7 DEF FireCheck, GateFresh, ExitKnown, NotYetPushed, At, Busy, Doing
  <2>. QED
    BY <2>8, <2>9 DEF WakeupInv
<1>8. CASE FireDefer
  <2>8. NoLostWakeup'
    BY <1>0, <1>8 DEF FireDefer, NoLostWakeup, Watched, Firing, Released, At, Busy, GateFresh, NoOne
  <2>9. GateFresh' /\ ExitKnown' /\ NotYetPushed'
    BY <1>0, <1>8 DEF FireDefer, GateFresh, ExitKnown, NotYetPushed, At, Busy, Doing, NoOne
  <2>. QED
    BY <2>8, <2>9 DEF WakeupInv
<1>9. CASE FireTake
  <2>8. NoLostWakeup'
    BY <1>0, <1>9, SMTT(30) DEF FireTake, NoLostWakeup, Watched, Firing, Released, At, Busy, NoOne
  <2>9. GateFresh' /\ ExitKnown' /\ NotYetPushed'
    BY <1>0, <1>9 DEF FireTake, GateFresh, ExitKnown, NotYetPushed, At, Busy, Doing, NoOne
  <2>. QED
    BY <2>8, <2>9 DEF WakeupInv
<1>10. CASE Flush
  BY <1>10, WakeupStill DEF Flush
<1>11. CASE TurnStart
  <2>8. NoLostWakeup'
    BY <1>0, <1>11 DEF TurnStart, NoLostWakeup, Watched, Firing, Released, At, Busy, keys
  <2>9. GateFresh' /\ ExitKnown' /\ NotYetPushed'
    BY <1>0, <1>11 DEF TurnStart, GateFresh, ExitKnown, NotYetPushed, At, Busy, Doing
  <2>. QED
    BY <2>8, <2>9 DEF WakeupInv
<1>12. CASE TurnEnd
  <2>8. NoLostWakeup'
    BY <1>0, <1>12 DEF TurnEnd, NoLostWakeup, Watched, Firing, Released, At, Busy, Doing, keys
  <2>9. GateFresh' /\ ExitKnown' /\ NotYetPushed'
    BY <1>0, <1>12 DEF TurnEnd, GateFresh, ExitKnown, NotYetPushed, At, Busy, Doing
  <2>. QED
    BY <2>8, <2>9 DEF WakeupInv
<1>13. CASE Exit
  <2>8. NoLostWakeup'
    BY <1>0, <1>13 DEF Exit, NoLostWakeup, Watched, Firing, Released, At, Busy, Doing, keys
  <2>9. GateFresh' /\ ExitKnown' /\ NotYetPushed'
    BY <1>0, <1>13 DEF Exit, GateFresh, ExitKnown, NotYetPushed, At, Busy, Doing
  <2>. QED
    BY <2>8, <2>9 DEF WakeupInv
<1>14. CASE DrainIdle
  <2>8. NoLostWakeup'
    BY <1>0, <1>14 DEF DrainIdle, NoLostWakeup, Watched, Firing, Released, At, Busy, keys
  <2>9. GateFresh' /\ ExitKnown' /\ NotYetPushed'
    BY <1>0, <1>14 DEF DrainIdle, GateFresh, ExitKnown, NotYetPushed, At, Busy, Doing, Free
  <2>. QED
    BY <2>8, <2>9 DEF WakeupInv
<1>15. CASE DrainNext
  <2>1. /\ \A f \in fires : f \in fires'
        /\ \A s \in monitor.drain : s \in monitor'.drain \/ \E f \in fires' : f.src = s
        /\ monitor.drain # {} => monitor'.doing = "drain"
        /\ monitor.doing = "drain"
        /\ UNCHANGED <<status, push, step, timer, waiting, deferred, mu, leaving>>
    <3>1. CASE monitor.drain = {} /\ Doing("nothing") /\ UNCHANGED fires
      BY <1>0, <1>15, <3>1 DEF DrainNext, Doing, At, keys
    <3>2. ASSUME NEW k \in monitor.drain,
                 fires' = fires \cup {[by |-> 0, src |-> k, forced |-> TRUE]},
                 monitor' = [monitor EXCEPT !.drain = @ \ {k}]
          PROVE  /\ \A s \in monitor.drain : s \in monitor'.drain \/ \E f \in fires' : f.src = s
                 /\ monitor'.doing = "drain"
      <4>1. monitor'.drain = monitor.drain \ {k} /\ monitor'.doing = monitor.doing
        BY <1>0, <3>2
      <4>2. \E f \in fires' : f.src = k
        <5>. DEFINE f == [by |-> 0, src |-> k, forced |-> TRUE]
        <5>1. f \in fires' /\ f.src = k
          BY <3>2
        <5>. QED
          BY <5>1
      <4>. QED
        BY <1>15, <4>1, <4>2 DEF DrainNext, At
    <3>. QED
      BY <1>15, <3>1, <3>2 DEF DrainNext, At, keys
  <2>8. NoLostWakeup'
    BY <1>0, <2>1 DEF NoLostWakeup, Watched, Firing, Released, At, Busy
  <2>9. GateFresh' /\ ExitKnown' /\ NotYetPushed'
    BY <1>0, <1>15 DEF DrainNext, GateFresh, ExitKnown, NotYetPushed, At, Busy, Doing
  <2>. QED
    BY <2>8, <2>9 DEF WakeupInv
<1>16. CASE Forget
  <2>8. NoLostWakeup'
    BY <1>0, <1>16 DEF Forget, NoLostWakeup, Watched, Firing, Released, At, Busy, Doing
  <2>9. GateFresh' /\ ExitKnown' /\ NotYetPushed'
    BY <1>0, <1>16 DEF Forget, GateFresh, ExitKnown, NotYetPushed, At, Busy, Doing, Free
  <2>. QED
    BY <2>8, <2>9 DEF WakeupInv
<1>17. CASE Resume
  <2>8. NoLostWakeup'
    BY <1>0, <1>17 DEF Resume, NoLostWakeup, Watched, Firing, Released, At, Busy, ExitKnown, Doing, keys
  <2>9. GateFresh' /\ ExitKnown' /\ NotYetPushed'
    BY <1>0, <1>17 DEF Resume, GateFresh, ExitKnown, NotYetPushed, At, Busy, Doing
  <2>. QED
    BY <2>8, <2>9 DEF WakeupInv
<1>18. CASE Tick
  BY <1>18, WakeupStill DEF Tick
<1>19. CASE UNCHANGED vars
  BY <1>19, WakeupStill DEF vars
<1>. QED
  BY <1>1, <1>2, <1>3, <1>4, <1>5, <1>6, <1>7, <1>8, <1>9, <1>10, <1>11, <1>12, <1>13, <1>14, <1>15, <1>16, <1>17, <1>18, <1>19 DEF Next, Producer, Fire, Monitor

(* A dirty source always has a timer, a fire or a coming drain: no order   *)
(* of pushes, expiries, turns and exits loses a wakeup (buffer.go, fire).  *)
THEOREM WakeupsKept == Spec => []NoLostWakeup
<1>1. Spec => []WakeupInv
  BY TypeCorrect, InitWakeup, NextWakeup, PTL DEF Spec
<1>2. WakeupInv => NoLostWakeup
  BY DEF WakeupInv
<1>. QED
  BY <1>1, <1>2, PTL

-----------------------------------------------------------------------------
(* The ceiling.  It is not inductive alone: arming reuses firstPushAt, so  *)
(* that must be known to be no later than what waits, and a key's fragments*)
(* to be its own.                                                          *)

(* A waiting fragment waits in its own source's key, marked.               *)
Belongs ==
  \A s \in Sources : \A i \in waiting[s] : push[i].src = s /\ step[i] \in {"marked", "done"}

(* firstPushAt is no later than any timed fragment still waiting, and an   *)
(* armed timer is not overdue.                                             *)
FirstKnown ==
  \A s \in Sources :
    /\ first[s] <= now
    /\ timer[s] # NoTimer => timer[s].at >= now
    /\ \A i \in Pushes : Timed(s, i) => first[s] # Never /\ first[s] <= push[i].at

(* A push that has not armed a timer has no time.                          *)
NotArmed == \A i \in Pushes : step[i] \in {"new", "stored", "orphan"} => push[i].at = Never

CeilingInv == Ceiling /\ Belongs /\ NotArmed /\ FirstKnown


LEMMA InitCeiling == Init => CeilingInv
  BY Clock DEF Init, CeilingInv, Ceiling, Belongs, FirstKnown, NotArmed, Timed, NoPush

(* A step that changes none of what CeilingInv speaks of.                  *)
LEMMA CeilingStill ==
  ASSUME CeilingInv, UNCHANGED <<now, n, push, step, keys, mu, fires>>
  PROVE  CeilingInv'
  BY DEF CeilingInv, Ceiling, Belongs, FirstKnown, NotArmed, Timed, Firing, keys

(* What arming does to first and timer: the deadline is no later than      *)
(* MaxWait after firstPushAt, or it is now.                                *)
LEMMA ArmBounds ==
  ASSUME TypeOK, NEW i \in Pushes, ArmLocked(i)
  PROVE  LET s == push[i].src
         IN  /\ push'[i].at = now /\ now \in Nat /\ now # Never
             /\ \A j \in Pushes : j # i => push'[j] = push[j]
             /\ \A k \in Sources : k # s => first'[k] = first[k] /\ timer'[k] = timer[k]
             /\ first'[s] = IF first[s] = Never THEN now ELSE first[s]
             /\ timer'[s] # NoTimer /\ timer'[s].at \in Nat /\ timer'[s].at >= now
             /\ timer'[s].at = now \/ timer'[s].at <= first'[s] + MaxWait
<1>. DEFINE s == push[i].src
            since == IF first[s] = Never THEN now ELSE first[s]
            due == Earlier(now + Debounce, since + MaxWait)
            at == IF due < now THEN now ELSE due
<1>1. s \in Sources /\ now \in Times /\ first[s] \in {Never} \cup Times
  BY DEF TypeOK
<1>2. since \in Nat /\ now \in Nat /\ now # Never
  BY <1>1, Clock DEF Times
<1>3. /\ push' = [push EXCEPT ![i].at = now]
      /\ first' = [first EXCEPT ![s] = since]
      /\ timer' = [timer EXCEPT ![s] = [by |-> i, at |-> at]]
  BY DEF ArmLocked
<1>4. timer'[s] # NoTimer
  BY ArmType
<1>5. push'[i].at = now /\ \A j \in Pushes : j # i => push'[j] = push[j]
  BY <1>3 DEF TypeOK
<1>. HIDE DEF s, since
<1>6. at \in Nat /\ at >= now /\ (at = now \/ at <= since + MaxWait)
  BY <1>2, EventBufAssumption DEF Earlier
<1>. HIDE DEF at
<1>7. /\ first'[s] = since /\ timer'[s] = [by |-> i, at |-> at]
      /\ \A k \in Sources : k # s => first'[k] = first[k] /\ timer'[k] = timer[k]
  BY <1>1, <1>3 DEF TypeOK
<1>8. timer'[s].at = at
  BY <1>7
<1>9. first'[s] = IF first[s] = Never THEN now ELSE first[s]
  BY <1>7 DEF since
<1>10. /\ timer'[s].at \in Nat /\ timer'[s].at >= now
       /\ timer'[s].at = now \/ timer'[s].at <= first'[s] + MaxWait
  BY <1>6, <1>7, <1>8
<1>. QED
  BY <1>1, <1>2, <1>4, <1>5, <1>7, <1>9, <1>10 DEF s

LEMMA NextCeiling == TypeOK /\ WakeupInv /\ CeilingInv /\ [Next]_vars => CeilingInv'
<1>. SUFFICES ASSUME TypeOK, WakeupInv, CeilingInv, [Next]_vars PROVE CeilingInv'
  OBVIOUS
<1>. USE EventBufAssumption
<1>0. /\ Ceiling /\ Belongs /\ NotArmed /\ FirstKnown /\ NotYetPushed
      /\ now \in Nat /\ first \in [Sources -> Nat] /\ Never = 0
      /\ timer \in [Sources -> [by : 0..MaxPush, at : Nat]]
      /\ waiting \in [Sources -> SUBSET Pushes] /\ deferred \in [Sources -> BOOLEAN]
      /\ step \in [Pushes -> {"new", "stored", "orphan", "refused", "marked", "done"}]
      /\ push \in [Pushes -> [op : Ops \cup {"push"}, src : Sources, at : Nat]]
      /\ mu \in [fire : Fires, busy : BOOLEAN, held : BOOLEAN] /\ fires \subseteq Fires
      /\ n \in 0..MaxPush
  <2>1. first \in [Sources -> Nat] /\ push \in [Pushes -> [op : Ops \cup {"push"}, src : Sources, at : Nat]]
    <3>1. \A x \in {Never} \cup Times : x \in Nat
      BY Clock
    <3>2. first \in [Sources -> {Never} \cup Times]
          /\ push \in [Pushes -> [op : Ops \cup {"push"}, src : Sources, at : {Never} \cup Times]]
      BY DEF TypeOK
    <3>. HIDE DEF Times
    <3>. QED
      BY <3>1, <3>2
  <2>. QED
    BY <2>1, Clock DEF CeilingInv, WakeupInv, TypeOK
<1>1. ASSUME NEW op \in Ops, NEW s \in Sources, Accept(op, s) PROVE CeilingInv'
  <2>1. n + 1 \in Pushes /\ step[n + 1] = "new"
    BY <1>0, <1>1 DEF Accept, NotYetPushed, Pushes
  <2>2. /\ \A j \in Pushes : j # n + 1 => step'[j] = step[j] /\ push'[j] = push[j]
        /\ step'[n + 1] \in {"stored", "refused", "orphan"} /\ push'[n + 1].at = Never
    BY <1>0, <1>1, <2>1 DEF Accept
  <2>3. n' = n + 1 /\ UNCHANGED <<now, waiting, deferred, first, timer, mu, fires>>
    BY <1>1 DEF Accept, keys
  <2>5. Ceiling' /\ FirstKnown'
    <3>1. \A k \in Sources, j \in Pushes : Timed(k, j)' => Timed(k, j) /\ push'[j] = push[j]
      BY <2>2, <2>3 DEF Timed
    <3>2. \A k \in Sources : Firing(k)' <=> Firing(k)
      BY <2>3 DEF Firing
    <3>. QED
      BY <1>0, <2>3, <3>1, <3>2 DEF Ceiling, FirstKnown
  <2>6. Belongs' /\ NotArmed'
    <3>1. Belongs'
      BY <1>0, <2>1, <2>2, <2>3 DEF Belongs
    <3>2. NotArmed'
      BY <1>0, <2>2 DEF NotArmed
    <3>. QED
      BY <3>1, <3>2
  <2>. QED
    BY <2>5, <2>6 DEF CeilingInv
<1>2. ASSUME NEW i \in Pushes, PushMark(i) PROVE CeilingInv'
  <2>1. \A f \in fires : f \in fires'
    BY <1>2 DEF PushMark
  <2>2. /\ step' = [step EXCEPT ![i] = "marked"] /\ step[i] \in {"stored", "orphan"}
        /\ waiting' = [waiting EXCEPT ![push[i].src] = @ \cup {i}]
        /\ push[i].at = Never
        /\ UNCHANGED <<now, n, push, deferred, first, timer, mu>>
    BY <1>2, <1>0 DEF PushMark, MarkDirty, NotArmed
  <2>5. Ceiling' /\ FirstKnown'
    <3>1. \A k \in Sources, j \in Pushes : Timed(k, j)' => Timed(k, j)
      BY <1>0, <2>2 DEF Timed, Belongs
    <3>. QED
      BY <1>0, <2>1, <2>2, <3>1 DEF Ceiling, FirstKnown, Firing
  <2>6. Belongs' /\ NotArmed'
    <3>1. Belongs'
      BY <1>0, <2>2 DEF Belongs
    <3>2. NotArmed'
      BY <1>0, <2>2 DEF NotArmed
    <3>. QED
      BY <3>1, <3>2
  <2>. QED
    BY <2>5, <2>6 DEF CeilingInv
(* Arming push i, which is waiting or has just been marked.                *)
<1>a. ASSUME NEW i \in Pushes, ArmLocked(i), step' = [step EXCEPT ![i] = "done"],
             step[i] # "done",
             \A s \in Sources : \A j \in waiting'[s] : j \in waiting[s] \/ (j = i /\ s = push[i].src),
             UNCHANGED <<now, n, deferred, mu, fires>>
      PROVE  Ceiling' /\ Belongs' /\ NotArmed' /\ FirstKnown'
  <2>. DEFINE src == push[i].src
  <2>1. /\ push'[i].at = now /\ now # Never /\ src \in Sources
        /\ \A j \in Pushes : j # i => push'[j] = push[j]
        /\ \A k \in Sources : k # src => first'[k] = first[k] /\ timer'[k] = timer[k]
        /\ first'[src] = IF first[src] = Never THEN now ELSE first[src]
        /\ timer'[src] # NoTimer /\ timer'[src].at \in Nat /\ timer'[src].at >= now
        /\ timer'[src].at = now \/ timer'[src].at <= first'[src] + MaxWait
    BY <1>a, <1>0, ArmBounds
  <2>2. /\ \A j \in Pushes : push'[j].src = push[j].src
        /\ step'[i] = "done" /\ \A j \in Pushes : j # i => step'[j] = step[j]
        /\ \A s \in Sources : waiting'[s] \subseteq Pushes
    BY <1>a, <1>0, ArmType
  <2>. HIDE DEF src
  <2>3. \A s \in Sources, j \in Pushes : j # i /\ Timed(s, j)' => Timed(s, j)
    BY <1>a, <1>0, <2>1, <2>2 DEF Timed
  <2>4. \A s \in Sources : Timed(s, i)' => s = src
    BY <1>a, <1>0 DEF Timed, Belongs, src
  <2>5. Belongs' /\ NotArmed'
    <3>1. Belongs'
      BY <1>a, <1>0, <2>2 DEF Belongs
    <3>2. NotArmed'
      BY <1>a, <1>0, <2>1, <2>2 DEF NotArmed
    <3>. QED
      BY <3>1, <3>2
  <2>6. FirstKnown'
    <3>. SUFFICES ASSUME NEW s \in Sources
                  PROVE  /\ first'[s] <= now'
                         /\ timer'[s] # NoTimer => timer'[s].at >= now'
                         /\ \A j \in Pushes : Timed(s, j)' => first'[s] # Never /\ first'[s] <= push'[j].at
      BY DEF FirstKnown
    <3>1. first'[s] <= now' /\ (timer'[s] # NoTimer => timer'[s].at >= now')
      BY <1>a, <1>0, <2>1 DEF FirstKnown
    <3>2. ASSUME NEW j \in Pushes, Timed(s, j)' PROVE first'[s] # Never /\ first'[s] <= push'[j].at
      <4>1. CASE j = i
        BY <1>0, <2>1, <2>4, <3>1, <3>2, <4>1, <1>a
      <4>2. CASE j # i
        <5>1. Timed(s, j) /\ push'[j] = push[j]
          BY <2>1, <2>3, <3>2, <4>2
        <5>2. first[s] # Never /\ first[s] <= push[j].at
          BY <1>0, <5>1 DEF FirstKnown
        <5>. QED
          BY <2>1, <5>1, <5>2
      <4>. QED
        BY <4>1, <4>2
    <3>. QED
      BY <3>1, <3>2
  <2>7. Ceiling'
    <3>. SUFFICES ASSUME NEW s \in Sources, NEW j \in Pushes, Timed(s, j)', ~deferred'[s], ~Firing(s)'
                  PROVE  timer'[s] # NoTimer /\ timer'[s].at <= push'[j].at + MaxWait
      BY DEF Ceiling
    <3>0. ~deferred[s] /\ ~Firing(s)
      BY <1>a DEF Firing
    <3>1. CASE j = i
      <4>1. s = src /\ first'[s] <= now
        BY <1>a, <2>4, <2>6, <3>1 DEF FirstKnown
      <4>2. first'[s] \in Nat
        BY <1>0, <2>1, <4>1
      <4>. QED
        BY <1>0, <2>1, <3>1, <4>1, <4>2
    <3>2. CASE j # i
      <4>1. Timed(s, j) /\ push'[j] = push[j]
        BY <2>1, <2>3, <3>2
      <4>2. /\ timer[s] # NoTimer /\ timer[s].at <= push[j].at + MaxWait
            /\ timer[s].at >= now /\ first[s] # Never /\ first[s] <= push[j].at
        BY <1>0, <3>0, <4>1 DEF Ceiling, FirstKnown
      <4>3. /\ timer[s].at \in Nat /\ push[j].at \in Nat /\ first[s] \in Nat
        BY <1>0
      <4>4. CASE s = src
        <5>1. first'[s] = first[s]
          BY <2>1, <4>2, <4>4
        <5>2. CASE timer'[s].at = now
          BY <1>0, <2>1, <4>1, <4>2, <4>3, <4>4, <5>2
        <5>3. CASE timer'[s].at <= first'[s] + MaxWait
          BY <1>0, <2>1, <4>1, <4>2, <4>3, <4>4, <5>1, <5>3
        <5>. QED
          BY <2>1, <4>4, <5>2, <5>3
      <4>5. CASE s # src
        BY <2>1, <4>1, <4>2, <4>5
      <4>. QED
        BY <4>4, <4>5
    <3>. QED
      BY <3>1, <3>2
  <2>. QED
    BY <2>5, <2>6, <2>7
<1>3. ASSUME NEW i \in Pushes, PushArm(i) PROVE CeilingInv'
  BY <1>3, <1>a DEF PushArm, CeilingInv
<1>4. ASSUME NEW i \in Pushes, PushDurable(i) PROVE CeilingInv'
  <2>2. \A s \in Sources : \A j \in waiting'[s] : j \in waiting[s] \/ (j = i /\ s = push[i].src)
    BY <1>0, <1>4 DEF PushDurable, MarkDirty
  <2>. QED
    BY <1>4, <1>a, <2>2 DEF PushDurable, CeilingInv
<1>5. ASSUME NEW i \in Pushes, PushNow(i) PROVE CeilingInv'
  <2>1. \A f \in fires : f \in fires'
    BY <1>5 DEF PushNow
  <2>2. /\ step' = [step EXCEPT ![i] = "done"] /\ step[i] \in {"stored", "orphan"}
        /\ waiting' = [waiting EXCEPT ![push[i].src] = @ \cup {i}]
        /\ push[i].at = Never
        /\ UNCHANGED <<now, n, push, deferred, first, timer, mu>>
    BY <1>5, <1>0 DEF PushNow, MarkDirty, NotArmed
  <2>5. Ceiling' /\ FirstKnown'
    <3>1. \A k \in Sources, j \in Pushes : Timed(k, j)' => Timed(k, j)
      BY <1>0, <2>2 DEF Timed, Belongs
    <3>. QED
      BY <1>0, <2>1, <2>2, <3>1 DEF Ceiling, FirstKnown, Firing
  <2>6. Belongs' /\ NotArmed'
    <3>1. Belongs'
      BY <1>0, <2>2 DEF Belongs
    <3>2. NotArmed'
      BY <1>0, <2>2 DEF NotArmed
    <3>. QED
      BY <3>1, <3>2
  <2>. QED
    BY <2>5, <2>6 DEF CeilingInv
<1>6. ASSUME NEW s \in Sources, Expire(s) PROVE CeilingInv'
  <2>1. /\ \A f \in fires : f \in fires'
        /\ \E f \in fires' : f.src = s
    <3>. DEFINE f == [by |-> timer[s].by, src |-> s, forced |-> FALSE]
    <3>1. fires' = fires \cup {f}
      BY <1>6 DEF Expire
    <3>2. f.src = s
      OBVIOUS
    <3>. HIDE DEF f
    <3>. QED
      BY <3>1, <3>2
  <2>2. /\ \A k \in Sources : k # s => timer'[k] = timer[k]
        /\ timer'[s] = NoTimer
        /\ UNCHANGED <<now, n, push, step, waiting, deferred, first, mu>>
    BY <1>0, <1>6 DEF Expire
  <2>5. Ceiling' /\ FirstKnown'
    <3>1. \A k \in Sources, j \in Pushes : Timed(k, j)' => Timed(k, j)
      BY <1>0, <2>2 DEF Timed, Belongs
    <3>. QED
      BY <1>0, <2>1, <2>2, <3>1 DEF Ceiling, FirstKnown, Firing
  <2>6. Belongs' /\ NotArmed'
    <3>1. Belongs'
      BY <1>0, <2>2 DEF Belongs
    <3>2. NotArmed'
      BY <1>0, <2>2 DEF NotArmed
    <3>. QED
      BY <3>1, <3>2
  <2>. QED
    BY <2>5, <2>6 DEF CeilingInv
<1>7. CASE FireCheck
  BY <1>0, <1>7 DEF FireCheck, Free, keys, CeilingInv, Ceiling, Belongs, FirstKnown, NotArmed, Timed, Firing
<1>8. CASE FireDefer
  BY <1>0, <1>8 DEF FireDefer, NoOne, CeilingInv, Ceiling, Belongs, FirstKnown, NotArmed, Timed, Firing
<1>9. CASE FireTake
  BY <1>0, <1>9 DEF FireTake, NoOne, Fires, CeilingInv, Ceiling, Belongs, FirstKnown, NotArmed, Timed, Firing
<1>10. CASE Flush \/ TurnStart \/ TurnEnd \/ Exit \/ DrainIdle \/ Resume
  BY <1>10, CeilingStill DEF Flush, TurnStart, TurnEnd, Exit, DrainIdle, Resume
<1>15. CASE DrainNext
  <2>1. \A f \in fires : f \in fires'
    BY <1>15 DEF DrainNext
  <2>. QED
    BY <1>0, <1>15, <2>1 DEF DrainNext, keys, CeilingInv, Ceiling, Belongs, FirstKnown, NotArmed, Timed, Firing
<1>16. CASE Forget
  BY <1>0, <1>16 DEF Forget, CeilingInv, Ceiling, Belongs, FirstKnown, NotArmed, Timed, Firing
<1>18. CASE Tick
  BY <1>0, <1>18 DEF Tick, keys, CeilingInv, Ceiling, Belongs, FirstKnown, NotArmed, Timed, Firing
<1>19. CASE UNCHANGED vars
  BY <1>19, CeilingStill DEF vars
<1>. QED
  BY <1>1, <1>2, <1>3, <1>4, <1>5, <1>6, <1>7, <1>8, <1>9, <1>10, <1>15, <1>16, <1>18, <1>19 DEF Next, Producer, Fire, Monitor

(* MaxWait bounds every fragment's wait, whatever is pushed after it and   *)
(* whenever the timers expire, unless the busy gate holds it (buffer.go,   *)
(* armLocked).                                                             *)
THEOREM CeilingKept == Spec => []Ceiling
<1>1. Spec => []CeilingInv
  BY TypeCorrect, InitWakeup, NextWakeup, InitCeiling, NextCeiling, PTL DEF Spec
<1>2. CeilingInv => Ceiling
  BY DEF CeilingInv
<1>. QED
  BY <1>1, <1>2, PTL

-----------------------------------------------------------------------------
(* One copy of a refused fragment.                                         *)

(* Where a refused fragment is: nowhere yet, in its key, or in one flight. *)
Queued(i)  == i \in orphans[push[i].src]
Flying(i)  == \E f \in flights : i \in f.orphans
Handled(i) == step[i] \in {"marked", "done"}

OrphanHome ==
  \A s \in Sources : \A i \in orphans[s] : push[i].src = s /\ Handled(i) /\ row[i] = "none"

OrphanFlight ==
  \A f \in flights : \A i \in f.orphans :
    /\ Handled(i) /\ row[i] = "none" /\ ~Queued(i)
    /\ \A g \in flights : i \in g.orphans => g = f

OrphanKept ==
  \A i \in Pushes :
    /\ Handled(i) /\ row[i] = "none" => Queued(i) \/ Flying(i)
    /\ step[i] = "stored" => row[i] # "none"
    /\ step[i] \in {"new", "orphan", "refused"} => row[i] = "none"

OrphanInv == OrphanHome /\ OrphanFlight /\ OrphanKept

LEMMA InitOrphan == Init => OrphanInv
  BY DEF Init, OrphanInv, OrphanHome, OrphanFlight, OrphanKept, Queued, Flying, Handled

(* A step that changes none of what OrphanInv speaks of.                   *)
LEMMA OrphanStill ==
  ASSUME OrphanInv, UNCHANGED <<push, step, row, orphans, flights>>
  PROVE  OrphanInv'
  BY DEF OrphanInv, OrphanHome, OrphanFlight, OrphanKept, Queued, Flying, Handled

(* A push is marked: a refused one enters its source's key.                *)
LEMMA OrphanMark ==
  ASSUME TypeOK, OrphanInv, NEW i \in Pushes, step[i] \in {"stored", "orphan"},
         MarkDirty(i), NEW to \in {"marked", "done"}, step' = [step EXCEPT ![i] = to],
         \A j \in Pushes : push'[j].src = push[j].src,
         UNCHANGED <<row, flights>>
  PROVE  OrphanInv'
<1>0. /\ OrphanHome /\ OrphanFlight /\ OrphanKept
      /\ orphans \in [Sources -> SUBSET Pushes]
      /\ step \in [Pushes -> {"new", "stored", "orphan", "refused", "marked", "done"}]
      /\ \A j \in Pushes : push[j].src \in Sources
      /\ flights \subseteq [by : 0..Handler, src : Sources, orphans : SUBSET Pushes]
  BY DEF OrphanInv, TypeOK
<1>1. /\ \A j \in Pushes : j # i => step'[j] = step[j]
      /\ step'[i] \in {"marked", "done"}
      /\ ~Handled(i)
      /\ Handled(i)' /\ \A j \in Pushes : Handled(j) => Handled(j)'
  BY <1>0 DEF Handled
<1>2. /\ \A s \in Sources, j \in Pushes :
            j \in orphans'[s] <=> j \in orphans[s] \/ (j = i /\ s = push[i].src /\ step[i] = "orphan")
      /\ \A s \in Sources : orphans'[s] \subseteq Pushes
  BY <1>0 DEF MarkDirty
<1>3. OrphanHome'
  <2>1. step[i] = "orphan" => row[i] = "none"
    BY <1>0 DEF OrphanKept
  <2>. QED
    BY <1>0, <1>1, <1>2, <2>1 DEF OrphanHome
<1>4. OrphanFlight'
  BY <1>0, <1>1, <1>2 DEF OrphanFlight, Queued
<1>5. OrphanKept'
  BY <1>0, <1>1, <1>2 DEF OrphanKept, Queued, Flying, Handled
<1>. QED
  BY <1>3, <1>4, <1>5 DEF OrphanInv

LEMMA NextOrphan == TypeOK /\ WakeupInv /\ OrphanInv /\ [Next]_vars => OrphanInv'
<1>. SUFFICES ASSUME TypeOK, WakeupInv, OrphanInv, [Next]_vars PROVE OrphanInv'
  OBVIOUS
<1>0. /\ OrphanHome /\ OrphanFlight /\ OrphanKept /\ NotYetPushed
      /\ orphans \in [Sources -> SUBSET Pushes]
      /\ step \in [Pushes -> {"new", "stored", "orphan", "refused", "marked", "done"}]
      /\ row \in [Pushes -> {"none", "pending", "delivered", "lost"}]
      /\ push \in [Pushes -> [op : Ops \cup {"push"}, src : Sources, at : {Never} \cup Times]]
      /\ \A j \in Pushes : push[j].src \in Sources
      /\ flights \subseteq [by : 0..Handler, src : Sources, orphans : SUBSET Pushes]
      /\ n \in 0..MaxPush
  BY DEF OrphanInv, WakeupInv, TypeOK
<1>1. ASSUME NEW op \in Ops, NEW s \in Sources, Accept(op, s) PROVE OrphanInv'
  <2>0. n + 1 \in Pushes /\ step[n + 1] = "new"
    BY <1>0, <1>1, EventBufAssumption DEF Accept, NotYetPushed, Pushes
  <2>1. PICK m \in Pushes : m = n + 1 /\ step[m] = "new"
    BY <2>0
  <2>2. /\ \A j \in Pushes : j # m => step'[j] = step[j] /\ push'[j] = push[j] /\ row'[j] = row[j]
        /\ \/ step'[m] = "stored" /\ row'[m] = "pending"
           \/ step'[m] \in {"refused", "orphan"} /\ row'[m] = row[m]
        /\ UNCHANGED <<orphans, flights>>
    BY <1>0, <1>1, <2>1 DEF Accept, keys
  <2>3. /\ row[m] = "none" /\ ~Handled(m) /\ ~Handled(m)'
        /\ \A k \in Sources : m \notin orphans[k]
        /\ \A f \in flights : m \notin f.orphans
    BY <1>0, <2>1, <2>2 DEF Handled, OrphanHome, OrphanFlight, OrphanKept
  <2>4. \A j \in Pushes : j # m => /\ Handled(j)' <=> Handled(j)
                                   /\ Queued(j)' <=> Queued(j)
                                   /\ Flying(j)' <=> Flying(j)
    BY <2>2 DEF Handled, Queued, Flying
  <2>5. OrphanHome'
    BY <1>0, <2>2, <2>3, <2>4 DEF OrphanHome
  <2>6. OrphanFlight'
    <3>. SUFFICES ASSUME NEW f \in flights, NEW j \in f.orphans
                  PROVE  /\ Handled(j)' /\ row'[j] = "none" /\ ~Queued(j)'
                         /\ \A g \in flights : j \in g.orphans => g = f
      BY <2>2 DEF OrphanFlight
    <3>1. j \in Pushes /\ j # m
      BY <1>0, <2>3
    <3>. QED
      BY <1>0, <2>2, <2>4, <3>1 DEF OrphanFlight
  <2>7. OrphanKept'
    BY <1>0, <2>2, <2>3, <2>4 DEF OrphanKept
  <2>. QED
    BY <2>5, <2>6, <2>7 DEF OrphanInv
<1>2. ASSUME NEW i \in Pushes, PushMark(i) PROVE OrphanInv'
  BY <1>2, OrphanMark DEF PushMark
<1>3. ASSUME NEW i \in Pushes, PushArm(i) PROVE OrphanInv'
  <2>1. \A j \in Pushes : push'[j].src = push[j].src
    BY <1>3, ArmType DEF PushArm
  <2>2. /\ \A j \in Pushes : Handled(j)' <=> Handled(j)
        /\ \A j \in Pushes : step'[j] = step[j] \/ step'[j] = "done"
        /\ UNCHANGED <<row, orphans, flights>>
    BY <1>0, <1>3 DEF PushArm, Handled
  <2>3. OrphanHome'
    BY <1>0, <2>1, <2>2 DEF OrphanHome
  <2>4. OrphanFlight'
    BY <1>0, <2>1, <2>2 DEF OrphanFlight, Queued
  <2>5. OrphanKept'
    BY <1>0, <2>1, <2>2 DEF OrphanKept, Queued, Flying
  <2>. QED
    BY <2>3, <2>4, <2>5 DEF OrphanInv
<1>4. ASSUME NEW i \in Pushes, PushDurable(i) PROVE OrphanInv'
  <2>1. \A j \in Pushes : push'[j].src = push[j].src
    BY <1>4, ArmType DEF PushDurable
  <2>. QED
    BY <1>4, <2>1, OrphanMark DEF PushDurable
<1>5. ASSUME NEW i \in Pushes, PushNow(i) PROVE OrphanInv'
  BY <1>5, OrphanMark DEF PushNow
<1>9. CASE FireTake
  <2>. DEFINE s == mu.fire.src
              f == [by |-> mu.fire.by, src |-> s, orphans |-> orphans[s]]
  <2>1. /\ flights' = flights \cup {f} /\ f.orphans = orphans[s] /\ s \in Sources
        /\ orphans' = [orphans EXCEPT ![s] = {}]
        /\ UNCHANGED <<push, step, row>>
    BY <1>9 DEF FireTake, TypeOK, Fires
  <2>. HIDE DEF f, s
  <2>2. \A k \in Sources : orphans'[k] = IF k = s THEN {} ELSE orphans[k]
    BY <1>0, <2>1
  <2>3. OrphanHome'
    BY <1>0, <2>1, <2>2 DEF OrphanHome, Handled
  <2>4. OrphanFlight'
    BY <1>0, <2>1, <2>2 DEF OrphanFlight, OrphanHome, Queued, Handled
  <2>5. OrphanKept'
    BY <1>0, <2>1, <2>2 DEF OrphanKept, OrphanHome, Queued, Flying, Handled
  <2>. QED
    BY <2>3, <2>4, <2>5 DEF OrphanInv
<1>10. CASE Flush
  <2>1. PICK f \in flights : /\ flights' = flights \ {f}
                             /\ row' = Handed(f, "delivered") \/ row' = Handed(f, "lost")
                             /\ UNCHANGED <<push, step, orphans>>
    BY <1>10 DEF Flush, keys
  <2>2. \A j \in Pushes : /\ j \in f.orphans => row'[j] # "none"
                          /\ j \notin f.orphans => (row'[j] = "none" <=> row[j] = "none")
    BY <1>0, <2>1 DEF Handed
  <2>3. OrphanHome'
    BY <1>0, <2>1, <2>2 DEF OrphanHome, OrphanFlight, Handled, Queued
  <2>4. OrphanFlight'
    BY <1>0, <2>1, <2>2 DEF OrphanFlight, Queued, Handled
  <2>5. OrphanKept'
    BY <1>0, <2>1, <2>2 DEF OrphanKept, OrphanFlight, Queued, Flying, Handled
  <2>. QED
    BY <2>3, <2>4, <2>5 DEF OrphanInv
<1>16. CASE Forget
  <2>1. /\ flights' = flights \cup {[by |-> Handler, src |-> s, orphans |-> orphans[s]] :
                                      s \in {k \in Sources : orphans[k] # {}}}
        /\ \A s \in Sources : orphans'[s] = {}
        /\ UNCHANGED <<push, step, row>>
    BY <1>16 DEF Forget
  <2>2. \A g \in flights' : g \in flights \/ \E s \in Sources : g = [by |-> Handler, src |-> s, orphans |-> orphans[s]]
    BY <2>1
  <2>3. \A s \in Sources : \A i \in orphans[s] : \E g \in flights' : i \in g.orphans
    <3>. SUFFICES ASSUME NEW s \in Sources, NEW i \in orphans[s]
                  PROVE  \E g \in flights' : i \in g.orphans
      OBVIOUS
    <3>. DEFINE g == [by |-> Handler, src |-> s, orphans |-> orphans[s]]
    <3>1. g \in flights' /\ g.orphans = orphans[s]
      BY <2>1
    <3>. QED
      BY <3>1
  <2>4. OrphanHome'
    BY <1>0, <2>1 DEF OrphanHome, Handled
  <2>5. OrphanFlight'
    <3>. SUFFICES ASSUME NEW g \in flights', NEW i \in g.orphans
                  PROVE  /\ Handled(i) /\ row[i] = "none" /\ i \in Pushes
                         /\ \A h \in flights' : i \in h.orphans => h = g
      BY <1>0, <2>1 DEF OrphanFlight, Queued, Handled
    <3>1. CASE g \in flights
      <4>1. /\ Handled(i) /\ row[i] = "none" /\ i \in Pushes /\ ~Queued(i)
            /\ \A h \in flights : i \in h.orphans => h = g
        BY <1>0, <3>1 DEF OrphanFlight
      <4>2. \A s \in Sources : i \notin orphans[s]
        BY <1>0, <4>1 DEF OrphanHome, Queued
      <4>. QED
        BY <2>2, <4>1, <4>2
    <3>2. ASSUME NEW s \in Sources, g = [by |-> Handler, src |-> s, orphans |-> orphans[s]]
          PROVE  /\ Handled(i) /\ row[i] = "none" /\ i \in Pushes
                 /\ \A h \in flights' : i \in h.orphans => h = g
      <4>1. i \in orphans[s]
        BY <3>2
      <4>2. Handled(i) /\ row[i] = "none" /\ i \in Pushes /\ push[i].src = s
        BY <1>0, <4>1 DEF OrphanHome
      <4>3. \A h \in flights : i \notin h.orphans
        BY <1>0, <4>1, <4>2 DEF OrphanFlight, Queued
      <4>4. \A k \in Sources : i \in orphans[k] => k = s
        BY <1>0, <4>2 DEF OrphanHome
      <4>. QED
        BY <2>2, <3>2, <4>2, <4>3, <4>4
    <3>. QED
      BY <2>2, <3>1, <3>2
  <2>6. OrphanKept'
    <3>1. \A i \in Pushes : Queued(i) \/ Flying(i) => Flying(i)'
      BY <1>0, <2>1, <2>3 DEF Queued, Flying
    <3>. QED
      BY <1>0, <2>1, <3>1 DEF OrphanKept, Handled
  <2>. QED
    BY <2>4, <2>5, <2>6 DEF OrphanInv
<1>6. ASSUME NEW s \in Sources, Expire(s) PROVE OrphanInv'
  BY <1>6, OrphanStill DEF Expire
<1>17. CASE \/ FireCheck \/ FireDefer \/ TurnStart \/ TurnEnd \/ Exit
             \/ DrainIdle \/ DrainNext \/ Resume \/ Tick
  BY <1>17, OrphanStill DEF FireCheck, FireDefer, TurnStart, TurnEnd, Exit, DrainIdle, DrainNext, Resume, Tick, keys
<1>19. CASE UNCHANGED vars
  BY <1>19, OrphanStill DEF vars, keys
<1>. QED
  BY <1>1, <1>2, <1>3, <1>4, <1>5, <1>6, <1>9, <1>10, <1>16, <1>17, <1>19 DEF Next, Producer, Fire, Monitor

(* In one place: the counts OrphanOnce adds are 0 or 1.                    *)
LEMMA OrphanCounts == TypeOK /\ OrphanInv => OrphanOnce
<1>. SUFFICES ASSUME TypeOK, OrphanInv, NEW i \in Pushes, step[i] \in {"marked", "done"}
              PROVE  Cardinality({s \in Sources : i \in orphans[s]})
                       + Cardinality({f \in flights : i \in f.orphans})
                       + (IF row[i] = "none" THEN 0 ELSE 1) = 1
  BY DEF OrphanOnce
<1>. DEFINE S == {s \in Sources : i \in orphans[s]}
            F == {f \in flights : i \in f.orphans}
            r == IF row[i] = "none" THEN 0 ELSE 1
<1>0. OrphanHome /\ OrphanFlight /\ OrphanKept /\ Handled(i)
  BY DEF OrphanInv, Handled
<1>1. CASE row[i] # "none"
  <2>1. S = {} /\ F = {}
    BY <1>0, <1>1 DEF OrphanHome, OrphanFlight
  <2>2. Cardinality(S) = 0 /\ Cardinality(F) = 0
    BY <2>1, FS_EmptySet
  <2>. QED
    BY <1>1, <2>2
<1>2. CASE row[i] = "none" /\ Queued(i)
  <2>1. S = {push[i].src} /\ F = {}
    BY <1>0, <1>2 DEF OrphanHome, OrphanFlight, Queued, TypeOK
  <2>2. Cardinality(S) = 1 /\ Cardinality(F) = 0
    BY <2>1, FS_EmptySet, FS_Singleton
  <2>. QED
    BY <1>2, <2>2
<1>3. CASE row[i] = "none" /\ Flying(i)
  <2>1. PICK f \in flights : i \in f.orphans
    BY <1>3 DEF Flying
  <2>2. S = {} /\ F = {f}
    BY <1>0, <2>1 DEF OrphanHome, OrphanFlight, Queued
  <2>3. Cardinality(S) = 0 /\ Cardinality(F) = 1
    BY <2>2, FS_EmptySet, FS_Singleton
  <2>. QED
    BY <1>3, <2>3
<1>. QED
  BY <1>0, <1>1, <1>2, <1>3 DEF OrphanKept

(* A fragment the store refused has one copy in the buffer, in one flush   *)
(* or handed over, however fires, flushes and Forget interleave (buffer.go,*)
(* fire and Forget).                                                       *)
THEOREM OrphansKeptOnce == Spec => []OrphanOnce
<1>1. Spec => [](TypeOK /\ OrphanInv)
  BY TypeCorrect, InitWakeup, NextWakeup, InitOrphan, NextOrphan, PTL DEF Spec
<1>. QED
  BY <1>1, OrphanCounts, PTL
=============================================================================

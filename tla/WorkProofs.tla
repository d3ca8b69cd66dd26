------------------------------ MODULE WorkProofs ------------------------------
(***************************************************************************)
(* Proofs about the services that owe an agent something in the end: the   *)
(* executor pool, background jobs and schedules, in this order.  They      *)
(* share no state.                                                         *)
(***************************************************************************)
EXTENDS ExecPool, Jobs, Schedules, FiniteSetTheorems, TLAPS

-----------------------------------------------------------------------------
(* Proofs about the executor pool, for any number of sessions, connections *)
(* and changes of the row: no connection is left running against an entry  *)
(* that is not its own, and no session leaves an executor behind.          *)

(* The inductive invariant.                                                *)
PoolTypeOK ==
  /\ live \in [Ids -> Conns \cup {NoConn}]
  /\ serve \in [Conns -> {"idle", "probe", "join", "attached", "serving", "parking", "gone"}]
  /\ health \in [Conns -> {"off", "on", "parking"}]
  /\ leaving \in [Ids -> {"no", "revoke", "evict"}]
  /\ tickets \in SUBSET Sessions /\ opened \in SUBSET Sessions
  /\ held \in Sessions \cup {NoConn}

(* An entry is a connection that authenticated as its id.                  *)
EntriesOwn ==
  \A i \in Ids : live[i] # NoConn => IdOf[live[i]] = i /\ serve[live[i]] # "idle"

(* A ticket is redeemed once: until then nobody has dialled with it, and   *)
(* afterwards one connection has.                                          *)
TicketUnused ==
  \A c \in Conns : Transient(c) /\ serve[c] # "idle" => IdOf[c] \in opened \ tickets

TicketOnce ==
  \A c, d \in Conns :
    Transient(c) /\ IdOf[c] = IdOf[d] /\ serve[c] # "idle" /\ serve[d] # "idle" => c = d

(* What is held, on its way out or has a ticket was opened, and an         *)
(* eviction has revoked the ticket first.                                  *)
LeavingInv ==
  /\ held # NoConn => held \in opened
  /\ tickets \subseteq opened
  /\ \A s \in Sessions : leaving[s] # "no" => s \in opened
  /\ \A s \in Sessions : leaving[s] = "evict" => s \notin tickets

(* A connection that is still joining belongs to a session that is held or *)
(* being released, or its tombstone waits for it.                          *)
JoinersEnd ==
  \A c \in Conns : Transient(c) /\ serve[c] \in {"probe", "join", "attached"} =>
    held = IdOf[c] \/ leaving[IdOf[c]] # "no" \/ IdOf[c] \in evicted

PoolInv ==
  /\ PoolTypeOK /\ EntriesOwn /\ TicketUnused /\ TicketOnce /\ LeavingInv /\ JoinersEnd
  /\ NoneLeftBehind /\ SessionsEnd
-----------------------------------------------------------------------------
LEMMA PoolInitHolds ==
  ASSUME PoolInit
  PROVE  PoolInv
  BY PoolAssumption DEF PoolInit, PoolInv, PoolTypeOK, EntriesOwn, TicketUnused, TicketOnce, LeavingInv, JoinersEnd,
      NoneLeftBehind, SessionsEnd, Transient, Ids

(* One lemma per action.                                                   *)

LEMMA AuthorizeHolds ==
  ASSUME PoolInv, NEW c \in Conns, Authorize(c)
  PROVE  PoolInv'
  BY PoolAssumption
  DEF Authorize, Redeem, rowVars,
      PoolInv, PoolTypeOK, EntriesOwn, TicketUnused, TicketOnce, LeavingInv, JoinersEnd,
      NoneLeftBehind, SessionsEnd, Transient, Ids

LEMMA AdmitHolds ==
  ASSUME PoolInv, NEW c \in Conns, Admit(c)
  PROVE  PoolInv'
  BY PoolAssumption
  DEF Admit, rowVars, sessionVars,
      PoolInv, PoolTypeOK, EntriesOwn, TicketUnused, TicketOnce, LeavingInv, JoinersEnd,
      NoneLeftBehind, SessionsEnd, Transient, Ids

LEMMA DescribeHolds ==
  ASSUME PoolInv, NEW c \in Conns, Describe(c)
  PROVE  PoolInv'
  BY PoolAssumption
  DEF Describe, rowVars, sessionVars,
      PoolInv, PoolTypeOK, EntriesOwn, TicketUnused, TicketOnce, LeavingInv, JoinersEnd,
      NoneLeftBehind, SessionsEnd, Transient, Ids

LEMMA InstallHolds ==
  ASSUME PoolInv, NEW c \in Conns, Install(c)
  PROVE  PoolInv'
  BY PoolAssumption
  DEF Install, InstallLive, InstallTransient, Publish, rowVars, sessionVars,
      PoolInv, PoolTypeOK, EntriesOwn, TicketUnused, TicketOnce, LeavingInv, JoinersEnd,
      NoneLeftBehind, SessionsEnd, Transient, Ids

LEMMA ShutdownHolds ==
  ASSUME PoolInv, NEW c \in Conns, Shutdown(c)
  PROVE  PoolInv'
  BY PoolAssumption
  DEF Shutdown, rowVars, sessionVars,
      PoolInv, PoolTypeOK, EntriesOwn, TicketUnused, TicketOnce, LeavingInv, JoinersEnd,
      NoneLeftBehind, SessionsEnd, Transient, Ids

LEMMA DoneHolds ==
  ASSUME PoolInv, NEW c \in Conns, Done(c)
  PROVE  PoolInv'
<1>. USE PoolAssumption DEF PoolInv, Done, rowVars, sessionVars, Transient, Ids
<1>1. PoolTypeOK'
  BY DEF PoolTypeOK, Removed
<1>2. /\ \A i \in Ids : live'[i] = NoConn \/ (live'[i] = live[i] /\ live[i] # c)
      /\ \A d \in Conns : d # c => serve'[d] = serve[d] /\ (live[IdOf[d]] = d => live'[IdOf[d]] = d)
      /\ serve'[c] = "gone"
  BY DEF PoolTypeOK, EntriesOwn, Removed
<1>3. EntriesOwn'
  BY <1>1, <1>2 DEF PoolTypeOK, EntriesOwn
<1>4. TicketUnused' /\ TicketOnce' /\ LeavingInv' /\ JoinersEnd'
  BY <1>2 DEF TicketUnused, TicketOnce, LeavingInv, JoinersEnd
<1>5. NoneLeftBehind' /\ SessionsEnd'
  BY <1>2 DEF NoneLeftBehind, SessionsEnd
<1>. QED
  BY <1>1, <1>3, <1>4, <1>5

LEMMA HangupHolds ==
  ASSUME PoolInv, NEW c \in Conns, Hangup(c)
  PROVE  PoolInv'
  BY PoolAssumption
  DEF Hangup, Fail, Removed, rowVars, sessionVars,
      PoolInv, PoolTypeOK, EntriesOwn, TicketUnused, TicketOnce, LeavingInv, JoinersEnd,
      NoneLeftBehind, SessionsEnd, Transient, Ids

LEMMA HangupParkHolds ==
  ASSUME PoolInv, NEW c \in Conns, HangupPark(c)
  PROVE  PoolInv'
  BY PoolAssumption
  DEF HangupPark, FailPark, rowVars, sessionVars,
      PoolInv, PoolTypeOK, EntriesOwn, TicketUnused, TicketOnce, LeavingInv, JoinersEnd,
      NoneLeftBehind, SessionsEnd, Transient, Ids

LEMMA HealthTickHolds ==
  ASSUME PoolInv, NEW c \in Conns, HealthTick(c)
  PROVE  PoolInv'
  BY PoolAssumption
  DEF HealthTick, Fail, Removed, rowVars, sessionVars,
      PoolInv, PoolTypeOK, EntriesOwn, TicketUnused, TicketOnce, LeavingInv, JoinersEnd,
      NoneLeftBehind, SessionsEnd, Transient, Ids

LEMMA HealthParkHolds ==
  ASSUME PoolInv, NEW c \in Conns, HealthPark(c)
  PROVE  PoolInv'
  BY PoolAssumption
  DEF HealthPark, FailPark, rowVars, sessionVars,
      PoolInv, PoolTypeOK, EntriesOwn, TicketUnused, TicketOnce, LeavingInv, JoinersEnd,
      NoneLeftBehind, SessionsEnd, Transient, Ids

LEMMA HealthStopHolds ==
  ASSUME PoolInv, NEW c \in Conns, HealthStop(c)
  PROVE  PoolInv'
  BY PoolAssumption
  DEF HealthStop, rowVars, sessionVars,
      PoolInv, PoolTypeOK, EntriesOwn, TicketUnused, TicketOnce, LeavingInv, JoinersEnd,
      NoneLeftBehind, SessionsEnd, Transient, Ids

LEMMA DropHolds ==
  ASSUME PoolInv, NEW c \in Conns, Drop(c)
  PROVE  PoolInv'
  BY PoolAssumption
  DEF Drop, rowVars, sessionVars,
      PoolInv, PoolTypeOK, EntriesOwn, TicketUnused, TicketOnce, LeavingInv, JoinersEnd,
      NoneLeftBehind, SessionsEnd, Transient, Ids

LEMMA SweepParkedHolds ==
  ASSUME PoolInv, NEW i \in Ids, SweepParked(i)
  PROVE  PoolInv'
  BY PoolAssumption
  DEF SweepParked, connVars, rowVars, sessionVars,
      PoolInv, PoolTypeOK, EntriesOwn, TicketUnused, TicketOnce, LeavingInv, JoinersEnd,
      NoneLeftBehind, SessionsEnd, Transient, Ids

LEMMA SweepEvictedHolds ==
  ASSUME PoolInv, NEW i \in Ids, SweepEvicted(i)
  PROVE  PoolInv'
  BY PoolAssumption
  DEF SweepEvicted, connVars, rowVars, sessionVars,
      PoolInv, PoolTypeOK, EntriesOwn, TicketUnused, TicketOnce, LeavingInv, JoinersEnd,
      NoneLeftBehind, SessionsEnd, Transient, Ids

LEMMA HandleExecutorLostHolds ==
  ASSUME PoolInv, NEW i \in Ids, HandleExecutorLost(i)
  PROVE  PoolInv'
  BY PoolAssumption
  DEF HandleExecutorLost, connVars, rowVars, sessionVars,
      PoolInv, PoolTypeOK, EntriesOwn, TicketUnused, TicketOnce, LeavingInv, JoinersEnd,
      NoneLeftBehind, SessionsEnd, Transient, Ids

LEMMA EvictHolds ==
  ASSUME PoolInv, NEW i \in Ids, Evict(i)
  PROVE  PoolInv'
  BY PoolAssumption
  DEF Evict, rowVars, sessionVars,
      PoolInv, PoolTypeOK, EntriesOwn, TicketUnused, TicketOnce, LeavingInv, JoinersEnd,
      NoneLeftBehind, SessionsEnd, Transient, Ids

LEMMA ExecutorSessionHolds ==
  ASSUME PoolInv, NEW s \in Sessions, ExecutorSession(s)
  PROVE  PoolInv'
  BY PoolAssumption
  DEF ExecutorSession, Replace, connVars, rowVars,
      PoolInv, PoolTypeOK, EntriesOwn, TicketUnused, TicketOnce, LeavingInv, JoinersEnd,
      NoneLeftBehind, SessionsEnd, Transient, Ids

LEMMA RevokeHolds ==
  ASSUME PoolInv, NEW s \in Sessions, Revoke(s)
  PROVE  PoolInv'
  BY PoolAssumption
  DEF Revoke, connVars, rowVars,
      PoolInv, PoolTypeOK, EntriesOwn, TicketUnused, TicketOnce, LeavingInv, JoinersEnd,
      NoneLeftBehind, SessionsEnd, Transient, Ids

LEMMA FlipRowHolds ==
  ASSUME PoolInv, FlipRow
  PROVE  PoolInv'
  BY PoolAssumption
  DEF FlipRow, connVars, sessionVars,
      PoolInv, PoolTypeOK, EntriesOwn, TicketUnused, TicketOnce, LeavingInv, JoinersEnd,
      NoneLeftBehind, SessionsEnd, Transient, Ids

LEMMA DisconnectOwnerHolds ==
  ASSUME PoolInv, DisconnectOwner
  PROVE  PoolInv'
  BY PoolAssumption
  DEF DisconnectOwner, connVars, sessionVars,
      PoolInv, PoolTypeOK, EntriesOwn, TicketUnused, TicketOnce, LeavingInv, JoinersEnd,
      NoneLeftBehind, SessionsEnd, Transient, Ids

LEMMA EndSessionHolds ==
  ASSUME PoolInv, EndSession
  PROVE  PoolInv'
  BY PoolAssumption
  DEF EndSession, connVars, rowVars,
      PoolInv, PoolTypeOK, EntriesOwn, TicketUnused, TicketOnce, LeavingInv, JoinersEnd,
      NoneLeftBehind, SessionsEnd, Transient, Ids

LEMMA ReleaseSessionHolds ==
  ASSUME PoolInv, ReleaseSession
  PROVE  PoolInv'
  BY PoolAssumption
  DEF ReleaseSession, Replace, connVars, rowVars,
      PoolInv, PoolTypeOK, EntriesOwn, TicketUnused, TicketOnce, LeavingInv, JoinersEnd,
      NoneLeftBehind, SessionsEnd, Transient, Ids

LEMMA PoolNextHolds ==
  ASSUME PoolInv, [PoolNext]_poolVars
  PROVE  PoolInv'
<1>1. CASE UNCHANGED poolVars
  BY <1>1
  DEF poolVars, connVars, rowVars, sessionVars, PoolInv, PoolTypeOK, EntriesOwn, TicketUnused,
      TicketOnce, LeavingInv, JoinersEnd, NoneLeftBehind, SessionsEnd
<1>. QED
  BY <1>1, AuthorizeHolds, AdmitHolds, DescribeHolds, InstallHolds,
     ShutdownHolds, DoneHolds, HangupHolds, HangupParkHolds,
     HealthTickHolds, HealthParkHolds, HealthStopHolds, DropHolds,
     SweepParkedHolds, SweepEvictedHolds, HandleExecutorLostHolds,
     EvictHolds, ExecutorSessionHolds, RevokeHolds, FlipRowHolds,
     DisconnectOwnerHolds, EndSessionHolds, ReleaseSessionHolds
  DEF PoolNext, ConnStep

-----------------------------------------------------------------------------
(* The pool keeps its invariant: an entry is a connection of its own id, a *)
(* ticket is redeemed by one connection, and who joins late meets a        *)
(* tombstone (pool.go, serve and installTransient; tickets.go, Redeem).    *)
THEOREM PoolHeld == PoolSpec => []PoolInv
  BY PoolInitHolds, PoolNextHolds, PTL DEF PoolSpec

(* A connection that is still served is the pool's connection for its id   *)
(* or is being shut down, however reconnects, health failures and          *)
(* evictions interleave (pool.go, installLive and removeLive).             *)
THEOREM ConnectionsNotLeftBehind == PoolSpec => []NoneLeftBehind
<1>1. PoolInv => NoneLeftBehind
  BY DEF PoolInv
<1>. QED
  BY <1>1, PoolHeld, PTL

(* A replaced or ended session leaves neither an executor nor a usable     *)
(* ticket, whenever its connection joins (session_executor.go,             *)
(* releaseSessionExecutor; pool.go, Evict).                                *)
THEOREM SessionsLeaveNothing == PoolSpec => []SessionsEnd
<1>1. PoolInv => SessionsEnd
  BY DEF PoolInv
<1>. QED
  BY <1>1, PoolHeld, PTL

-----------------------------------------------------------------------------
(* Proofs about background jobs, for any number of jobs and faults and any *)
(* capacity of the subscriber's channel: no exit is lost, and a job is     *)
(* reported gone only if its executor lost it.  The argument follows the   *)
(* events of one job through the replay and the channel.                   *)

(* The inductive invariant.                                                *)
Events == {Running(j) : j \in Handles} \cup {Exited(j) : j \in Handles}

JobsTypeOK ==
  /\ reg \in SUBSET Handles /\ IsFiniteSet(reg)
  /\ proc \in [Handles -> {"none", "running", "exited"}]
  /\ waiting \in SUBSET Handles /\ acked \in SUBSET Handles
  /\ running \in SUBSET Handles
  /\ news \in [Handles -> SUBSET {"exit", "gone"}]
  /\ chan \in Seq(Events)
  /\ acking \in Handles \cup {NoHandle}
  /\ todo \in {<<>>, <<"push", "ack">>, <<"ack">>}
  /\ todo = <<>> <=> acking = NoHandle

(* A replay ends with its completion and has one event of a job at most:   *)
(* the job runs or has exited.                                             *)
ReplayOK ==
  /\ replay \in Seq(Events \cup {Complete})
  /\ \A k \in 1..Len(replay) : replay[k] = Complete <=> k = Len(replay)
  /\ replay # <<>> => replaying

InReplay(e) == \E k \in 1..Len(replay) : replay[k] = e
InChan(e)   == \E k \in 1..Len(chan) : chan[k] = e
InFlight(e) == InReplay(e) \/ InChan(e)

(* In the channel no job runs after its exit.                              *)
ExitLast(j) == \A k, m \in 1..Len(chan) : chan[k] = Exited(j) /\ k < m => chan[m] # Running(j)

(* Of a job that was not stopped on purpose:                               *)

(* the exit that is acknowledged next was pushed;                          *)
Pushed == todo = <<"ack">> => "exit" \in news[acking] \/ acking \in missed

(* a job is unknown to the daemon until it starts and is promoted;         *)
Fresh(j) ==
  proc[j] = "none" \/ (j \in provisional /\ j \in reg) =>
    /\ ~InFlight(Running(j)) /\ ~InFlight(Exited(j)) /\ j \notin running
    /\ acking # j /\ j \notin acked /\ news[j] = {}
    /\ proc[j] = "none" => j \notin reg /\ j \notin waiting /\ j \notin provisional

(* its exit is reported after it happened, and is the last word;           *)
Ended(j) ==
  InFlight(Exited(j)) \/ acking = j \/ j \in acked \/ j \in waiting \/ "exit" \in news[j] =>
    proc[j] = "exited"

LastWord(j) ==
  /\ acking = j \/ j \in acked \/ "exit" \in news[j] => j \notin running /\ ~InFlight(Running(j))
  /\ InReplay(Exited(j)) => ~InFlight(Running(j))
  /\ ExitLast(j)

(* only an acknowledged job leaves the registry while news of it is under  *)
(* way;                                                                    *)
Kept(j) ==
  InFlight(Running(j)) \/ InFlight(Exited(j)) \/ j \in waiting \/ proc[j] = "running" =>
    j \in reg \/ j \in acked

(* a replay under way brings what the registry still has;                  *)
Replays(j) ==
  replay # <<>> /\ j \in running /\ j \in reg =>
    j \in replayed \/ InReplay(Running(j)) \/ InReplay(Exited(j))

(* and a job reported gone has no news under way.                          *)
GoneForGood(j) ==
  "gone" \in news[j] =>
    /\ j \notin reg /\ "exit" \notin news[j] /\ proc[j] # "none"
    /\ j \notin acked /\ acking # j /\ ~InFlight(Running(j)) /\ ~InFlight(Exited(j))

JobInv(j) ==
  Fresh(j) /\ Ended(j) /\ LastWord(j) /\ Kept(j) /\ Replays(j) /\ GoneForGood(j)

JobsInv ==
  /\ JobsTypeOK /\ ReplayOK /\ Pushed /\ ExitNotLost
  /\ \A j \in Handles \ killed : JobInv(j)
-----------------------------------------------------------------------------
(* A sequence lists a set: every member, and nothing else.                 *)
Lists(s, S) ==
  /\ s \in Seq(S)
  /\ \A k \in 1..Len(s) : s[k] \in S
  /\ \A x \in S : \E k \in 1..Len(s) : s[k] = x

LEMMA SetToSeqLists ==
  ASSUME NEW S, IsFiniteSet(S)
  PROVE  Lists(SetToSeq(S), S)
<1>. DEFINE n == Cardinality(S)
            f == SetToSeq(S)
<1>1. n \in Nat /\ ExistsBijection(1..n, S)
  BY FS_CardinalityType
<1>2. \E g \in [1..n -> S] : IsInjective(g)
  BY <1>1 DEF ExistsBijection, Bijection, Injection
<1>3. f \in [1..n -> S] /\ IsInjective(f)
  BY <1>2 DEF SetToSeq
<1>4. IsFiniteSet(1..n) /\ Cardinality(1..n) = n
  BY <1>1, FS_Interval
<1>5. f \in Injection(1..n, S)
  BY <1>3 DEF Injection
<1>6. f \in Surjection(1..n, S)
  BY <1>4, <1>5, FS_Injection
<1>7. \A x \in S : \E k \in 1..n : f[k] = x
  BY <1>6 DEF Surjection
<1>8. f \in Seq(S) /\ Len(f) = n /\ \A k \in 1..n : f[k] \in S
  BY <1>1, <1>3
<1>. QED
  BY <1>7, <1>8 DEF Lists

LEMMA ConcatLists ==
  ASSUME NEW R, NEW X, NEW r, NEW x, Lists(r, R), Lists(x, X)
  PROVE  Lists(r \o x, R \cup X)
<1>1. r \in Seq(R \cup X) /\ x \in Seq(R \cup X)
  BY DEF Lists
<1>2. /\ r \o x \in Seq(R \cup X) /\ Len(r \o x) = Len(r) + Len(x)
      /\ Len(r) \in Nat /\ Len(x) \in Nat
  BY <1>1
<1>3. \A k \in 1..Len(r) : k \in 1..Len(r \o x) /\ (r \o x)[k] = r[k]
  BY <1>1, <1>2
<1>4. \A k \in 1..Len(x) : k + Len(r) \in 1..Len(r \o x) /\ (r \o x)[k + Len(r)] = x[k]
  BY <1>1, <1>2
<1>5. ASSUME NEW e \in R \cup X
      PROVE  \E k \in 1..Len(r \o x) : (r \o x)[k] = e
  <2>1. CASE e \in R
    BY <1>3, <2>1 DEF Lists
  <2>2. CASE e \in X
    BY <1>4, <2>2 DEF Lists
  <2>. QED
    BY <2>1, <2>2
<1>6. \A k \in 1..Len(r \o x) : (r \o x)[k] \in R \cup X
  BY <1>2
<1>. QED
  BY <1>2, <1>5, <1>6 DEF Lists

(* Events of two kinds, or of two jobs, are different.                     *)
LEMMA EventsDiffer ==
  /\ \A i, j : Running(i) # Exited(j) /\ Running(i) # Complete /\ Exited(i) # Complete
  /\ \A i, j : Running(i) = Running(j) => i = j
  /\ \A i, j : Exited(i) = Exited(j) => i = j
  BY DEF Running, Exited, Complete

(* What publish leaves in the channel: what was there, in its place, and   *)
(* then as many of the new events as fit.                                  *)
LEMMA Published ==
  ASSUME NEW evs \in Seq(Events), chan \in Seq(Events), PublishAll(evs)
  PROVE  /\ chan' \in Seq(Events)
         /\ Len(chan') <= Len(chan) + Len(evs)
         /\ \A k \in 1..Len(chan') :
              chan'[k] = IF k <= Len(chan) THEN chan[k] ELSE evs[k - Len(chan)]
  BY JobsAssumption DEF PublishAll


(* enforceBudget drops exited and acknowledged jobs only.                  *)
LEMMA BudgetKeeps ==
  ASSUME NEW jobs, IsFiniteSet(jobs), NEW acks, Budget(jobs, acks)
  PROVE  /\ reg' \subseteq jobs /\ IsFiniteSet(reg')
         /\ \A j \in jobs : j \in reg' \/ (proc[j] = "exited" /\ j \in acks)
<1>1. PICK drop \in SUBSET {j \in jobs : proc[j] = "exited" /\ j \in acks} : reg' = jobs \ drop
  BY DEF Budget
<1>2. IsFiniteSet(reg')
  BY <1>1, FS_Subset
<1>. QED
  BY <1>1, <1>2

(* What is under way of a job after a step that leaves the stream alone,   *)
(* cuts it or publishes to it.                                             *)
LEMMA StreamKept ==
  ASSUME replay' = replay, chan' = chan, NEW j
  PROVE  /\ InReplay(Running(j))' <=> InReplay(Running(j))
         /\ InReplay(Exited(j))' <=> InReplay(Exited(j))
         /\ InChan(Running(j))' <=> InChan(Running(j))
         /\ InChan(Exited(j))' <=> InChan(Exited(j))
         /\ ExitLast(j)' <=> ExitLast(j)
  BY DEF InReplay, InChan, ExitLast

LEMMA StreamCut ==
  ASSUME Cut, NEW j
  PROVE  /\ ~InReplay(Running(j))' /\ ~InReplay(Exited(j))'
         /\ ~InChan(Running(j))' /\ ~InChan(Exited(j))'
         /\ ExitLast(j)'
  BY DEF Cut, InReplay, InChan, ExitLast

LEMMA StreamPublished ==
  ASSUME NEW evs \in Seq(Events), chan \in Seq(Events), PublishAll(evs), replay' = replay, NEW j
  PROVE  /\ InReplay(Running(j))' <=> InReplay(Running(j))
         /\ InReplay(Exited(j))' <=> InReplay(Exited(j))
         /\ InChan(Running(j))' => InChan(Running(j)) \/ \E m \in 1..Len(evs) : evs[m] = Running(j)
         /\ InChan(Exited(j))' => InChan(Exited(j)) \/ \E m \in 1..Len(evs) : evs[m] = Exited(j)
         /\ /\ ExitLast(j)
            /\ \A m \in 1..Len(evs) : evs[m] = Running(j) =>
                 ~InChan(Exited(j)) /\ \A k \in 1..(m - 1) : evs[k] # Exited(j)
            => ExitLast(j)'
<1>1. /\ chan' \in Seq(Events)
      /\ Len(chan') <= Len(chan) + Len(evs)
      /\ \A k \in 1..Len(chan') :
           chan'[k] = IF k <= Len(chan) THEN chan[k] ELSE evs[k - Len(chan)]
  BY Published
<1>2. \A k \in 1..Len(chan') : k <= Len(chan) \/ k - Len(chan) \in 1..Len(evs)
  BY <1>1
<1>3. \A e : InChan(e)' => InChan(e) \/ \E m \in 1..Len(evs) : evs[m] = e
  BY <1>1, <1>2 DEF InChan
<1>4. /\ ExitLast(j)
      /\ \A m \in 1..Len(evs) : evs[m] = Running(j) =>
           ~InChan(Exited(j)) /\ \A k \in 1..(m - 1) : evs[k] # Exited(j)
      => ExitLast(j)'
  <2>1. SUFFICES ASSUME ExitLast(j),
                        \A m \in 1..Len(evs) : evs[m] = Running(j) =>
                          ~InChan(Exited(j)) /\ \A k \in 1..(m - 1) : evs[k] # Exited(j),
                        NEW k \in 1..Len(chan'), NEW m \in 1..Len(chan'),
                        chan'[k] = Exited(j), k < m, chan'[m] = Running(j)
                 PROVE  FALSE
    BY DEF ExitLast
  <2>2. CASE m <= Len(chan)
    BY <1>1, <2>1, <2>2 DEF ExitLast
  <2>3. CASE m > Len(chan)
    <3>0. Len(chan) \in Nat /\ Len(chan') \in Nat
      BY <1>1
    <3>1. m - Len(chan) \in 1..Len(evs) /\ evs[m - Len(chan)] = Running(j)
      <4>1. m - Len(chan) \in 1..Len(evs)
        BY <1>2, <2>1, <2>3, <3>0
      <4>2. chan'[m] = evs[m - Len(chan)]
        BY <1>1, <2>1, <2>3, <3>0
      <4>. QED
        BY <2>1, <4>1, <4>2
    <3>2. CASE k <= Len(chan)
      BY <1>1, <2>1, <3>1, <3>2 DEF InChan
    <3>3. CASE k > Len(chan)
      <4>1. k - Len(chan) \in 1..(m - Len(chan) - 1) /\ chan'[k] = evs[k - Len(chan)]
        BY <1>1, <1>2, <2>1, <3>0, <3>3
      <4>. QED
        BY <2>1, <3>1, <4>1
    <3>. QED
      BY <1>1, <3>2, <3>3
  <2>. QED
    BY <1>1, <2>2, <2>3
<1>5. /\ InReplay(Running(j))' <=> InReplay(Running(j))
      /\ InReplay(Exited(j))' <=> InReplay(Exited(j))
  BY DEF InReplay
<1>. QED
  BY <1>3, <1>4, <1>5

(* The same for what the registry publishes of a job i.                    *)
LEMMA StreamTells ==
  ASSUME NEW i \in Handles, NEW j, NEW evs,
         evs \in {<<Running(i)>>, <<Exited(i)>>, <<Running(i), Exited(i)>>},
         chan \in Seq(Events), PublishAll(evs), replay' = replay
  PROVE  /\ chan' \in Seq(Events)
         /\ InReplay(Running(j))' <=> InReplay(Running(j))
         /\ InReplay(Exited(j))' <=> InReplay(Exited(j))
         /\ InChan(Running(j))' => InChan(Running(j)) \/ (j = i /\ evs # <<Exited(i)>>)
         /\ InChan(Exited(j))' => InChan(Exited(j)) \/ (j = i /\ evs # <<Running(i)>>)
         /\ ExitLast(j) /\ (j = i /\ evs # <<Exited(i)>> => ~InChan(Exited(j))) => ExitLast(j)'
<1>1. Running(i) \in Events /\ Exited(i) \in Events
  BY DEF Events
<1>2. evs \in Seq(Events)
  <2>1. /\ <<Running(i)>> \in Seq(Events) /\ <<Exited(i)>> \in Seq(Events)
        /\ <<Running(i), Exited(i)>> \in Seq(Events)
    BY <1>1
  <2>. QED
    BY <2>1
<1>. DEFINE InTurn(m) ==
       /\ evs[m] = Running(j) => /\ j = i /\ evs # <<Exited(i)>>
                                 /\ \A k \in 1..(m - 1) : evs[k] # Exited(j)
       /\ evs[m] = Exited(j) => j = i /\ evs # <<Running(i)>>
<1>3. \A m \in 1..Len(evs) : InTurn(m)
  <2>1. CASE evs = <<Running(i)>>
    <3>1. \A m \in 1..Len(evs) : evs[m] = Running(i) /\ 1..(m - 1) = {}
      BY <2>1
    <3>2. evs # <<Exited(i)>>
      BY <2>1, EventsDiffer
    <3>. QED
      BY <3>1, <3>2, EventsDiffer
  <2>2. CASE evs = <<Exited(i)>>
    <3>1. \A m \in 1..Len(evs) : evs[m] = Exited(i)
      BY <2>2
    <3>2. evs # <<Running(i)>>
      BY <2>2, EventsDiffer
    <3>. QED
      BY <3>1, <3>2, EventsDiffer
  <2>3. CASE evs = <<Running(i), Exited(i)>>
    <3>1. \A m \in 1..Len(evs) : \/ evs[m] = Running(i) /\ 1..(m - 1) = {}
                                 \/ evs[m] = Exited(i)
      BY <2>3
    <3>2. evs # <<Running(i)>> /\ evs # <<Exited(i)>>
      BY <2>3
    <3>. QED
      BY <3>1, <3>2, EventsDiffer
  <2>. QED
    BY <2>1, <2>2, <2>3
<1>. QED
  BY <1>2, <1>3, StreamPublished, Published

-----------------------------------------------------------------------------
LEMMA JobsInitHolds ==
  ASSUME JobsInit
  PROVE  JobsInv
<1>1. JobsTypeOK /\ ReplayOK /\ Pushed /\ ExitNotLost
  BY FS_EmptySet DEF JobsInit, JobsTypeOK, ReplayOK, Pushed, ExitNotLost
<1>2. \A e : ~InReplay(e) /\ ~InChan(e)
  BY DEF JobsInit, InReplay, InChan
<1>3. \A j \in Handles : ExitLast(j)
  BY DEF JobsInit, ExitLast
<1>4. \A j \in Handles : JobInv(j)
  BY JobsAssumption, <1>2, <1>3 DEF JobsInit, JobInv, Fresh, Ended, LastWord, Kept, Replays, GoneForGood, InFlight
<1>. QED
  BY <1>1, <1>4 DEF JobsInv

(* Where the handler of an exit stands, and what a step of it leaves.      *)
LEMMA HandlerSteps ==
  ASSUME JobsTypeOK, Stepped, todo # <<>>
  PROVE  /\ Head(todo) = "push" => /\ todo = <<"push", "ack">>
                                    /\ todo' = <<"ack">> /\ acking' = acking
         /\ Head(todo) = "ack" => todo = <<"ack">> /\ todo' = <<>> /\ acking' = NoHandle
         /\ acking \in Handles
<1>. USE DEF JobsTypeOK, Stepped
<1>1. CASE todo = <<"push", "ack">>
  <2>1. Head(todo) = "push" /\ Tail(todo) = <<"ack">> /\ Len(todo) = 2
    BY <1>1
  <2>. QED
    BY <1>1, <2>1
<1>2. CASE todo = <<"ack">>
  <2>1. Head(todo) = "ack" /\ Tail(todo) = <<>> /\ Len(todo) = 1
    BY <1>2
  <2>. QED
    BY <1>2, <2>1
<1>. QED
  BY <1>1, <1>2

(* One lemma per action.                                                   *)

LEMMA StartProvisionalHolds ==
  ASSUME JobsInv, NEW i \in Handles, StartProvisional(i)
  PROVE  JobsInv'
<1>. USE JobsAssumption DEF JobsInv, registryVars, streamVars, daemonVars, childVars, toldVars, StartProvisional
<1>a. IsFiniteSet((reg \cup {i}))
  BY FS_AddElement DEF JobsTypeOK
<1>0. /\ reg' \subseteq (reg \cup {i}) /\ IsFiniteSet(reg')
      /\ \A j \in (reg \cup {i}) : j \in reg' \/ (proc[j] = "exited" /\ j \in acked)
  BY <1>a, BudgetKeeps
<1>1. JobsTypeOK'
  BY <1>0, FS_EmptySet, FS_Subset DEF JobsTypeOK
<1>2. ReplayOK' /\ Pushed' /\ ExitNotLost'
  BY <1>0, <1>1 DEF JobsTypeOK, ReplayOK, Pushed, ExitNotLost
<1>3. ASSUME NEW j \in Handles \ killed'
      PROVE  JobInv(j)'
  BY <1>0, <1>1, StreamKept DEF JobsTypeOK, JobInv, Fresh, Ended, LastWord, Kept, Replays, GoneForGood, InFlight
<1>. QED
  BY <1>1, <1>2, <1>3

LEMMA ExitHolds ==
  ASSUME JobsInv, NEW i \in Handles, Exit(i)
  PROVE  JobsInv'
<1>. USE JobsAssumption DEF JobsInv, registryVars, streamVars, daemonVars, childVars, toldVars, Exit
<1>1. JobsTypeOK'
  BY FS_EmptySet, FS_Subset DEF JobsTypeOK
<1>2. ReplayOK' /\ Pushed' /\ ExitNotLost'
  BY <1>1 DEF JobsTypeOK, ReplayOK, Pushed, ExitNotLost
<1>3. ASSUME NEW j \in Handles \ killed'
      PROVE  JobInv(j)'
  BY <1>1, StreamKept DEF JobsTypeOK, JobInv, Fresh, Ended, LastWord, Kept, Replays, GoneForGood, InFlight
<1>. QED
  BY <1>1, <1>2, <1>3

LEMMA DiscardHolds ==
  ASSUME JobsInv, NEW i \in Handles, Discard(i)
  PROVE  JobsInv'
<1>. USE JobsAssumption DEF JobsInv, registryVars, streamVars, daemonVars, childVars, toldVars, Discard
<1>1. JobsTypeOK'
  BY FS_EmptySet, FS_Subset DEF JobsTypeOK
<1>2. ReplayOK' /\ Pushed' /\ ExitNotLost'
  BY <1>1 DEF JobsTypeOK, ReplayOK, Pushed, ExitNotLost
<1>3. ASSUME NEW j \in Handles \ killed'
      PROVE  JobInv(j)'
  BY <1>1, StreamKept DEF JobsTypeOK, JobInv, Fresh, Ended, LastWord, Kept, Replays, GoneForGood, InFlight
<1>. QED
  BY <1>1, <1>2, <1>3

LEMMA KillHolds ==
  ASSUME JobsInv, NEW i \in Handles, Kill(i)
  PROVE  JobsInv'
<1>. USE JobsAssumption DEF JobsInv, registryVars, streamVars, daemonVars, childVars, toldVars, Kill
<1>1. JobsTypeOK'
  BY FS_EmptySet, FS_Subset DEF JobsTypeOK
<1>2. ReplayOK' /\ Pushed' /\ ExitNotLost'
  BY <1>1 DEF JobsTypeOK, ReplayOK, Pushed, ExitNotLost
<1>3. ASSUME NEW j \in Handles \ killed'
      PROVE  JobInv(j)'
  BY <1>1, StreamKept DEF JobsTypeOK, JobInv, Fresh, Ended, LastWord, Kept, Replays, GoneForGood, InFlight
<1>. QED
  BY <1>1, <1>2, <1>3

LEMMA ForgetRunningJobHolds ==
  ASSUME JobsInv, NEW i \in Handles, ForgetRunningJob(i)
  PROVE  JobsInv'
<1>. USE JobsAssumption DEF JobsInv, registryVars, streamVars, daemonVars, childVars, toldVars, ForgetRunningJob
<1>1. JobsTypeOK'
  BY FS_EmptySet, FS_Subset DEF JobsTypeOK
<1>2. ReplayOK' /\ Pushed' /\ ExitNotLost'
  BY <1>1 DEF JobsTypeOK, ReplayOK, Pushed, ExitNotLost
<1>3. ASSUME NEW j \in Handles \ killed'
      PROVE  JobInv(j)'
  BY <1>1, StreamKept DEF JobsTypeOK, JobInv, Fresh, Ended, LastWord, Kept, Replays, GoneForGood, InFlight
<1>. QED
  BY <1>1, <1>2, <1>3

LEMMA ReleaseWorkspaceHolds ==
  ASSUME JobsInv, ReleaseWorkspace
  PROVE  JobsInv'
<1>. USE JobsAssumption DEF JobsInv, registryVars, streamVars, daemonVars, childVars, toldVars, ReleaseWorkspace
<1>1. JobsTypeOK'
  BY FS_EmptySet, FS_Subset DEF JobsTypeOK
<1>2. ReplayOK' /\ Pushed' /\ ExitNotLost'
  BY <1>1 DEF JobsTypeOK, ReplayOK, Pushed, ExitNotLost
<1>3. ASSUME NEW j \in Handles \ killed'
      PROVE  JobInv(j)'
  BY <1>1, StreamKept DEF JobsTypeOK, JobInv, Fresh, Ended, LastWord, Kept, Replays, GoneForGood, InFlight
<1>. QED
  BY <1>1, <1>2, <1>3

LEMMA OwnerExitsHolds ==
  ASSUME JobsInv, OwnerExits
  PROVE  JobsInv'
<1>. USE JobsAssumption DEF JobsInv, registryVars, streamVars, daemonVars, childVars, toldVars, OwnerExits
<1>1. JobsTypeOK'
  BY FS_EmptySet, FS_Subset DEF JobsTypeOK
<1>2. ReplayOK' /\ Pushed' /\ ExitNotLost'
  BY <1>1 DEF JobsTypeOK, ReplayOK, Pushed, ExitNotLost
<1>3. ASSUME NEW j \in Handles \ killed'
      PROVE  JobInv(j)'
  BY <1>1, StreamKept DEF JobsTypeOK, JobInv, Fresh, Ended, LastWord, Kept, Replays, GoneForGood, InFlight
<1>. QED
  BY <1>1, <1>2, <1>3

LEMMA OwnerResumesHolds ==
  ASSUME JobsInv, OwnerResumes
  PROVE  JobsInv'
<1>. USE JobsAssumption DEF JobsInv, registryVars, streamVars, daemonVars, childVars, toldVars, OwnerResumes
<1>1. JobsTypeOK'
  BY FS_EmptySet, FS_Subset DEF JobsTypeOK
<1>2. ReplayOK' /\ Pushed' /\ ExitNotLost'
  BY <1>1 DEF JobsTypeOK, ReplayOK, Pushed, ExitNotLost
<1>3. ASSUME NEW j \in Handles \ killed'
      PROVE  JobInv(j)'
  BY <1>1, StreamKept DEF JobsTypeOK, JobInv, Fresh, Ended, LastWord, Kept, Replays, GoneForGood, InFlight
<1>. QED
  BY <1>1, <1>2, <1>3

LEMMA ReleaseFailsHolds ==
  ASSUME JobsInv, ReleaseFails
  PROVE  JobsInv'
<1>. USE JobsAssumption DEF JobsInv, registryVars, streamVars, daemonVars, childVars, toldVars, ReleaseFails
<1>1. JobsTypeOK'
  BY FS_EmptySet, FS_Subset DEF JobsTypeOK
<1>2. ReplayOK' /\ Pushed' /\ ExitNotLost'
  BY <1>1 DEF JobsTypeOK, ReplayOK, Pushed, ExitNotLost
<1>3. ASSUME NEW j \in Handles \ killed'
      PROVE  JobInv(j)'
  BY <1>1, StreamKept DEF JobsTypeOK, JobInv, Fresh, Ended, LastWord, Kept, Replays, GoneForGood, InFlight
<1>. QED
  BY <1>1, <1>2, <1>3

LEMMA StreamLostHolds ==
  ASSUME JobsInv, StreamLost
  PROVE  JobsInv'
<1>. USE JobsAssumption DEF JobsInv, registryVars, streamVars, daemonVars, childVars, toldVars, StreamLost
<1>1. JobsTypeOK'
  BY FS_EmptySet, FS_Subset DEF JobsTypeOK, Cut
<1>2. ReplayOK' /\ Pushed' /\ ExitNotLost'
  BY <1>1 DEF JobsTypeOK, ReplayOK, Pushed, ExitNotLost, Cut
<1>3. ASSUME NEW j \in Handles \ killed'
      PROVE  JobInv(j)'
  BY <1>1, StreamCut DEF JobsTypeOK, JobInv, Fresh, Ended, LastWord, Kept, Replays, GoneForGood, InFlight, Cut
<1>. QED
  BY <1>1, <1>2, <1>3

LEMMA StreamEndsHolds ==
  ASSUME JobsInv, StreamEnds
  PROVE  JobsInv'
<1>. USE JobsAssumption DEF JobsInv, registryVars, streamVars, daemonVars, childVars, toldVars, StreamEnds
<1>1. JobsTypeOK'
  BY FS_EmptySet, FS_Subset DEF JobsTypeOK, Cut
<1>2. ReplayOK' /\ Pushed' /\ ExitNotLost'
  BY <1>1 DEF JobsTypeOK, ReplayOK, Pushed, ExitNotLost, Cut
<1>3. ASSUME NEW j \in Handles \ killed'
      PROVE  JobInv(j)'
  BY <1>1, StreamCut DEF JobsTypeOK, JobInv, Fresh, Ended, LastWord, Kept, Replays, GoneForGood, InFlight, Cut
<1>. QED
  BY <1>1, <1>2, <1>3

LEMMA PushExitHolds ==
  ASSUME JobsInv, PushExit
  PROVE  JobsInv'
<1>. USE JobsAssumption DEF JobsInv, registryVars, streamVars, daemonVars, childVars, toldVars, PushExit
<1>b. todo = <<"push", "ack">> /\ todo' = <<"ack">> /\ acking' = acking /\ acking \in Handles
  BY HandlerSteps
<1>1. JobsTypeOK'
  BY <1>b, FS_EmptySet, FS_Subset DEF JobsTypeOK
<1>2. ReplayOK' /\ Pushed' /\ ExitNotLost'
  BY <1>b, <1>1 DEF JobsTypeOK, ReplayOK, Pushed, ExitNotLost
<1>3. ASSUME NEW j \in Handles \ killed'
      PROVE  JobInv(j)'
  BY <1>b, <1>1, StreamKept DEF JobsTypeOK, JobInv, Fresh, Ended, LastWord, Kept, Replays, GoneForGood, InFlight
<1>. QED
  BY <1>1, <1>2, <1>3

LEMMA AckFailsHolds ==
  ASSUME JobsInv, AckFails
  PROVE  JobsInv'
<1>. USE JobsAssumption DEF JobsInv, registryVars, streamVars, daemonVars, childVars, toldVars, AckFails
<1>b. todo = <<"ack">> /\ todo' = <<>> /\ acking' = NoHandle /\ acking \in Handles
  BY HandlerSteps
<1>1. JobsTypeOK'
  BY <1>b, FS_EmptySet, FS_Subset DEF JobsTypeOK
<1>2. ReplayOK' /\ Pushed' /\ ExitNotLost'
  BY <1>b, <1>1 DEF JobsTypeOK, ReplayOK, Pushed, ExitNotLost
<1>3. ASSUME NEW j \in Handles \ killed'
      PROVE  JobInv(j)'
  BY <1>b, <1>1, StreamKept DEF JobsTypeOK, JobInv, Fresh, Ended, LastWord, Kept, Replays, GoneForGood, InFlight
<1>. QED
  BY <1>1, <1>2, <1>3

LEMMA DaemonCrashHolds ==
  ASSUME JobsInv, DaemonCrash
  PROVE  JobsInv'
<1>. USE JobsAssumption DEF JobsInv, registryVars, streamVars, daemonVars, childVars, toldVars, DaemonCrash
<1>1. JobsTypeOK'
  BY FS_EmptySet, FS_Subset DEF JobsTypeOK, Cut
<1>2. ReplayOK' /\ Pushed' /\ ExitNotLost'
  BY <1>1 DEF JobsTypeOK, ReplayOK, Pushed, ExitNotLost, Cut
<1>3. ASSUME NEW j \in Handles \ killed'
      PROVE  JobInv(j)'
  BY <1>1, StreamCut DEF JobsTypeOK, JobInv, Fresh, Ended, LastWord, Kept, Replays, GoneForGood, InFlight, Cut
<1>. QED
  BY <1>1, <1>2, <1>3

LEMMA ExecutorRestartHolds ==
  ASSUME JobsInv, ExecutorRestart
  PROVE  JobsInv'
<1>. USE JobsAssumption DEF JobsInv, registryVars, streamVars, daemonVars, childVars, toldVars, ExecutorRestart
<1>1. JobsTypeOK'
  BY FS_EmptySet, FS_Subset DEF JobsTypeOK, Cut
<1>2. ReplayOK' /\ Pushed' /\ ExitNotLost'
  BY <1>1 DEF JobsTypeOK, ReplayOK, Pushed, ExitNotLost, Cut
<1>3. ASSUME NEW j \in Handles \ killed'
      PROVE  JobInv(j)'
  BY <1>1, StreamCut DEF JobsTypeOK, JobInv, Fresh, Ended, LastWord, Kept, Replays, GoneForGood, InFlight, Cut
<1>. QED
  BY <1>1, <1>2, <1>3


LEMMA AckJobExitHolds ==
  ASSUME JobsInv, AckJobExit
  PROVE  JobsInv'
<1>. USE JobsAssumption DEF JobsInv, registryVars, streamVars, daemonVars, childVars, toldVars
<1>1. /\ todo = <<"ack">> /\ todo' = <<>> /\ acking' = NoHandle /\ acking \in Handles
      /\ UNCHANGED <<proc, waiting, provisional, replay, chan, running, replayed, replaying,
                     childVars, toldVars>>
  BY HandlerSteps DEF AckJobExit
<1>2. /\ reg' \subseteq reg /\ IsFiniteSet(reg')
      /\ acked \subseteq acked' /\ acked' \subseteq acked \cup {acking}
      /\ acking \in acked' => acking \in acked \/ proc[acking] = "exited"
      /\ \A j \in reg : j \in reg' \/ (proc[j] = "exited" /\ j \in acked')
  <2>1. CASE acking \in reg /\ proc[acking] = "exited"
    <3>1. acked' = acked \cup {acking} /\ Budget(reg, acked')
      BY <2>1 DEF AckJobExit
    <3>2. IsFiniteSet(reg)
      BY DEF JobsTypeOK
    <3>3. /\ reg' \subseteq reg /\ IsFiniteSet(reg')
          /\ \A j \in reg : j \in reg' \/ (proc[j] = "exited" /\ j \in acked')
      BY <3>1, <3>2, BudgetKeeps
    <3>. QED
      BY <2>1, <3>1, <3>3
  <2>2. CASE ~(acking \in reg /\ proc[acking] = "exited")
    BY <2>2 DEF AckJobExit, JobsTypeOK
  <2>. QED
    BY <2>1, <2>2
<1>3. JobsTypeOK'
  BY <1>1, <1>2 DEF JobsTypeOK
<1>4. ReplayOK' /\ Pushed' /\ ExitNotLost'
  BY <1>1, <1>2 DEF JobsTypeOK, ReplayOK, Pushed, ExitNotLost
<1>5. ASSUME NEW j \in Handles \ killed'
      PROVE  JobInv(j)'
  BY <1>1, <1>2, StreamKept
  DEF JobsTypeOK, JobInv, Fresh, Ended, LastWord, Kept, Replays, GoneForGood, InFlight
<1>. QED
  BY <1>3, <1>4, <1>5

LEMMA StartHolds ==
  ASSUME JobsInv, NEW i \in Handles, Start(i)
  PROVE  JobsInv'
<1>. USE JobsAssumption DEF JobsInv, registryVars, streamVars, daemonVars, childVars, toldVars
<1>1. IsFiniteSet(reg \cup {i})
  BY FS_AddElement DEF JobsTypeOK
<1>2. /\ reg' \subseteq reg \cup {i} /\ IsFiniteSet(reg')
      /\ \A j \in reg \cup {i} : j \in reg' \/ (proc[j] = "exited" /\ j \in acked)
  BY <1>1, BudgetKeeps DEF Start
<1>3. <<Running(i)>> \in Seq(Events) /\ chan \in Seq(Events) /\ PublishAll(<<Running(i)>>) /\ replay' = replay
  BY DEF Start, Events, JobsTypeOK
<1>4. /\ proc[i] = "none" /\ proc' = [proc EXCEPT ![i] = "running"]
      /\ UNCHANGED <<waiting, provisional, acked, exitPublished, daemonVars, childVars, toldVars>>
  BY DEF Start
<1>5. /\ chan' \in Seq(Events)
      /\ \A j : /\ InReplay(Running(j))' <=> InReplay(Running(j))
                /\ InReplay(Exited(j))' <=> InReplay(Exited(j))
                /\ InChan(Running(j))' => InChan(Running(j)) \/ j = i
                /\ InChan(Exited(j))' => InChan(Exited(j))
                /\ ExitLast(j) /\ (j = i => ~InChan(Exited(j))) => ExitLast(j)'
  <2>1. <<Running(i)>> # <<Exited(i)>>
    BY EventsDiffer
  <2>. QED
    BY <1>3, <2>1, StreamTells
<1>6. JobsTypeOK'
  BY <1>2, <1>4, <1>5 DEF JobsTypeOK
<1>7. ReplayOK' /\ Pushed' /\ ExitNotLost'
  BY <1>3, <1>4 DEF ReplayOK, Pushed, ExitNotLost
<1>8. ASSUME NEW j \in Handles \ killed'
      PROVE  JobInv(j)'
  <2>1. JobInv(j)
    BY <1>4
  <2>2. CASE j = i
    BY <1>2, <1>4, <1>5, <2>1, <2>2
    DEF JobsTypeOK, JobInv, Fresh, Ended, LastWord, Kept, Replays, GoneForGood, InFlight
  <2>3. CASE j # i
    <3>1. /\ proc'[j] = proc[j] /\ (j \in reg' => j \in reg)
          /\ j \in reg => j \in reg' \/ j \in acked
      BY <1>2, <1>4, <2>3 DEF JobsTypeOK
    <3>2. /\ InReplay(Running(j))' <=> InReplay(Running(j))
          /\ InReplay(Exited(j))' <=> InReplay(Exited(j))
          /\ InChan(Running(j))' => InChan(Running(j))
          /\ InChan(Exited(j))' => InChan(Exited(j))
          /\ ExitLast(j) => ExitLast(j)'
      BY <1>5, <2>3
    <3>. QED
      BY <1>3, <1>4, <2>1, <3>1, <3>2
      DEF JobInv, Fresh, Ended, LastWord, Kept, Replays, GoneForGood, InFlight
  <2>. QED
    BY <2>2, <2>3
<1>. QED
  BY <1>6, <1>7, <1>8

LEMMA PublishExitHolds ==
  ASSUME JobsInv, NEW i \in Handles, PublishExit(i)
  PROVE  JobsInv'
<1>. USE JobsAssumption DEF JobsInv, registryVars, streamVars, daemonVars, childVars, toldVars
<1>1. /\ reg' \subseteq reg /\ IsFiniteSet(reg')
      /\ \A j \in reg : j \in reg' \/ (proc[j] = "exited" /\ j \in acked)
  <2>1. IsFiniteSet(reg)
    BY DEF JobsTypeOK
  <2>. QED
    BY <2>1, BudgetKeeps DEF PublishExit
<1>2. /\ i \in waiting /\ waiting' = waiting \ {i}
      /\ UNCHANGED <<proc, provisional, acked, replay, daemonVars, childVars, toldVars>>
  BY DEF PublishExit
<1>3. \/ Silent(i) /\ chan' = chan
      \/ ~Silent(i) /\ PublishAll(<<Exited(i)>>)
  BY DEF PublishExit
<1>4. /\ chan' \in Seq(Events)
      /\ \A j : /\ InReplay(Running(j))' <=> InReplay(Running(j))
                /\ InReplay(Exited(j))' <=> InReplay(Exited(j))
                /\ InChan(Running(j))' => InChan(Running(j))
                /\ InChan(Exited(j))' => InChan(Exited(j)) \/ (j = i /\ ~Silent(i))
                /\ ExitLast(j) => ExitLast(j)'
  <2>1. <<Running(i)>> # <<Exited(i)>> /\ chan \in Seq(Events)
    BY EventsDiffer DEF JobsTypeOK
  <2>2. CASE Silent(i) /\ chan' = chan
    BY <1>2, <2>1, <2>2, StreamKept
  <2>3. CASE ~Silent(i) /\ PublishAll(<<Exited(i)>>)
    BY <1>2, <2>1, <2>3, StreamTells
  <2>. QED
    BY <1>3, <2>2, <2>3
<1>5. JobsTypeOK'
  BY <1>1, <1>2, <1>4 DEF JobsTypeOK
<1>6. ReplayOK' /\ Pushed' /\ ExitNotLost'
  BY <1>2 DEF ReplayOK, Pushed, ExitNotLost
<1>7. ASSUME NEW j \in Handles \ killed'
      PROVE  JobInv(j)'
  <2>1. JobInv(j)
    BY <1>2
  <2>2. (j \in reg' => j \in reg) /\ (j \in reg => j \in reg' \/ j \in acked)
    BY <1>1
  <2>3. CASE j = i
    BY <1>2, <1>4, <2>1, <2>2, <2>3
    DEF JobInv, Fresh, Ended, LastWord, Kept, Replays, GoneForGood, InFlight, Silent
  <2>4. CASE j # i
    <3>1. /\ InReplay(Running(j))' <=> InReplay(Running(j))
          /\ InReplay(Exited(j))' <=> InReplay(Exited(j))
          /\ InChan(Running(j))' => InChan(Running(j))
          /\ InChan(Exited(j))' => InChan(Exited(j))
          /\ ExitLast(j) => ExitLast(j)'
      BY <1>4, <2>4
    <3>. QED
      BY <1>2, <2>1, <2>2, <3>1
      DEF JobInv, Fresh, Ended, LastWord, Kept, Replays, GoneForGood, InFlight
  <2>. QED
    BY <2>3, <2>4
<1>. QED
  BY <1>5, <1>6, <1>7

LEMMA PromoteHolds ==
  ASSUME JobsInv, NEW i \in Handles, Promote(i)
  PROVE  JobsInv'
<1>. USE JobsAssumption DEF JobsInv, registryVars, streamVars, daemonVars, childVars, toldVars
<1>1. /\ i \in reg /\ i \in provisional /\ provisional' = provisional \ {i}
      /\ UNCHANGED <<reg, proc, waiting, acked, replay, daemonVars, childVars, toldVars>>
      /\ PublishAll(Promoted(i))
  BY DEF Promote
<1>2. \/ Promoted(i) = <<Running(i)>>
      \/ Promoted(i) = <<Running(i), Exited(i)>> /\ proc[i] = "exited"
  BY DEF Promoted
<1>3. /\ chan' \in Seq(Events)
      /\ \A j : /\ InReplay(Running(j))' <=> InReplay(Running(j))
                /\ InReplay(Exited(j))' <=> InReplay(Exited(j))
                /\ InChan(Running(j))' => InChan(Running(j)) \/ j = i
                /\ InChan(Exited(j))' => InChan(Exited(j)) \/ (j = i /\ proc[i] = "exited")
                /\ ExitLast(j) /\ (j = i => ~InChan(Exited(j))) => ExitLast(j)'
  <2>1. chan \in Seq(Events)
    BY DEF JobsTypeOK
  <2>2. CASE Promoted(i) = <<Running(i)>>
    <3>. DEFINE evs == Promoted(i)
    <3>1. evs \in {<<Running(i)>>, <<Exited(i)>>, <<Running(i), Exited(i)>>} /\ PublishAll(evs)
      BY <1>1, <2>2
    <3>. HIDE DEF evs
    <3>2. evs = <<Running(i)>>
      BY <2>2 DEF evs
    <3>. QED
      BY <1>1, <2>1, <3>1, <3>2, StreamTells
  <2>3. CASE Promoted(i) = <<Running(i), Exited(i)>> /\ proc[i] = "exited"
    <3>. DEFINE evs == Promoted(i)
    <3>1. evs \in {<<Running(i)>>, <<Exited(i)>>, <<Running(i), Exited(i)>>} /\ PublishAll(evs)
      BY <1>1, <2>3
    <3>. HIDE DEF evs
    <3>. QED
      BY <1>1, <2>1, <2>3, <3>1, StreamTells
  <2>. QED
    BY <1>2, <2>2, <2>3
<1>4. JobsTypeOK'
  BY <1>1, <1>3 DEF JobsTypeOK
<1>5. ReplayOK' /\ Pushed' /\ ExitNotLost'
  BY <1>1 DEF ReplayOK, Pushed, ExitNotLost
<1>6. ASSUME NEW j \in Handles \ killed'
      PROVE  JobInv(j)'
  <2>1. JobInv(j)
    BY <1>1
  <2>3. CASE j = i
    BY <1>1, <1>3, <2>1, <2>3
    DEF JobInv, Fresh, Ended, LastWord, Kept, Replays, GoneForGood, InFlight
  <2>4. CASE j # i
    <3>1. /\ InReplay(Running(j))' <=> InReplay(Running(j))
          /\ InReplay(Exited(j))' <=> InReplay(Exited(j))
          /\ InChan(Running(j))' => InChan(Running(j))
          /\ InChan(Exited(j))' => InChan(Exited(j))
          /\ ExitLast(j) => ExitLast(j)'
      BY <1>3, <2>4
    <3>. QED
      BY <1>1, <2>1, <2>4, <3>1
      DEF JobInv, Fresh, Ended, LastWord, Kept, Replays, GoneForGood, InFlight
  <2>. QED
    BY <2>3, <2>4
<1>. QED
  BY <1>4, <1>5, <1>6

(* The replay of a subscription: the visible jobs that run, and those      *)
(* whose exit nobody has acknowledged.                                     *)
Listed(j, at) == j \in reg /\ j \notin provisional /\ proc[j] = at

LEMMA SnapshotLists ==
  ASSUME JobsTypeOK
  PROVE  /\ Snapshot \in Seq(Events)
         /\ \A j : (\E k \in 1..Len(Snapshot) : Snapshot[k] = Running(j)) <=> Listed(j, "running")
         /\ \A j : (\E k \in 1..Len(Snapshot) : Snapshot[k] = Exited(j)) <=>
                     Listed(j, "exited") /\ j \notin acked
<1>. DEFINE R == {Running(j) : j \in {k \in reg \ provisional : proc[k] = "running"}}
            X == {Exited(j) : j \in {k \in reg \ provisional : proc[k] = "exited" /\ k \notin acked}}
<1>1. IsFiniteSet(R)
  <2>. DEFINE f == [e \in R |-> e.job]
  <2>1. f \in [R -> reg] /\ \A a, b \in R : f[a] = f[b] => a = b
    BY DEF Running
  <2>2. f \in Injection(R, reg)
    BY <2>1 DEF Injection, IsInjective
  <2>. QED
    BY <2>2, FS_Injection DEF JobsTypeOK
<1>2. IsFiniteSet(X)
  <2>. DEFINE f == [e \in X |-> e.job]
  <2>1. f \in [X -> reg] /\ \A a, b \in X : f[a] = f[b] => a = b
    BY DEF Exited
  <2>2. f \in Injection(X, reg)
    BY <2>1 DEF Injection, IsInjective
  <2>. QED
    BY <2>2, FS_Injection DEF JobsTypeOK
<1>3. /\ R \subseteq Events /\ X \subseteq Events
      /\ \A j : Running(j) \in R <=> Listed(j, "running")
      /\ \A j : Exited(j) \in X <=> Listed(j, "exited") /\ j \notin acked
      /\ \A j : Exited(j) \notin R /\ Running(j) \notin X
  BY EventsDiffer DEF JobsTypeOK, Events, Listed
<1>. HIDE DEF R, X
<1>4. Lists(SetToSeq(R), R) /\ Lists(SetToSeq(X), X)
  BY <1>1, <1>2, SetToSeqLists
<1>5. Lists(SetToSeq(R) \o SetToSeq(X), R \cup X)
  BY <1>4, ConcatLists
<1>6. Lists(Snapshot, R \cup X)
  BY <1>5 DEF Snapshot, R, X
<1>7. Snapshot \in Seq(Events)
  BY <1>3, <1>6 DEF Lists
<1>. QED
  BY <1>3, <1>6, <1>7 DEF Lists

LEMMA SubscribeHolds ==
  ASSUME JobsInv, Subscribe
  PROVE  JobsInv'
<1>. USE JobsAssumption DEF JobsInv, registryVars, streamVars, daemonVars, childVars, toldVars
<1>1. /\ acking = NoHandle /\ chan' = <<>> /\ replay' = Append(Snapshot, Complete) /\ replaying'
      /\ UNCHANGED <<reg, proc, waiting, provisional, acked, running, acking, todo, childVars, toldVars>>
  BY DEF Subscribe, ReplayStart
<1>2. /\ Snapshot \in Seq(Events) /\ Len(Snapshot) \in Nat
      /\ Len(replay') = Len(Snapshot) + 1 /\ replay'[Len(Snapshot) + 1] = Complete
      /\ \A k \in 1..Len(Snapshot) : replay'[k] = Snapshot[k]
  BY <1>1, SnapshotLists
<1>3. Complete \notin Events
  BY EventsDiffer DEF Events
<1>4. \A j : /\ InReplay(Running(j))' <=> Listed(j, "running")
             /\ InReplay(Exited(j))' <=> Listed(j, "exited") /\ j \notin acked
             /\ ~InChan(Running(j))' /\ ~InChan(Exited(j))' /\ ExitLast(j)'
  <2>1. \A e : e # Complete => (InReplay(e)' <=> \E k \in 1..Len(Snapshot) : Snapshot[k] = e)
    BY <1>2 DEF InReplay
  <2>2. \A e : ~InChan(e)'
    BY <1>1 DEF InChan
  <2>3. \A j : ExitLast(j)'
    BY <1>1 DEF ExitLast
  <2>. QED
    BY <2>1, <2>2, <2>3, SnapshotLists, EventsDiffer
<1>5. JobsTypeOK'
  BY <1>1 DEF JobsTypeOK
<1>6. ReplayOK'
  <2>1. replay' \in Seq(Events \cup {Complete})
    BY <1>1, <1>2
  <2>2. \A k \in 1..Len(Snapshot) : Snapshot[k] # Complete
    BY <1>2, <1>3
  <2>3. \A k \in 1..Len(replay') : k \in 1..Len(Snapshot) \/ k = Len(Snapshot) + 1
    BY <1>2
  <2>4. \A k \in 1..Len(replay') : replay'[k] = Complete <=> k = Len(replay')
    BY <1>2, <2>2, <2>3
  <2>. QED
    BY <1>1, <2>1, <2>4 DEF ReplayOK
<1>7. Pushed' /\ ExitNotLost'
  BY <1>1 DEF Pushed, ExitNotLost
<1>8. ASSUME NEW j \in Handles \ killed'
      PROVE  JobInv(j)'
  <2>1. JobInv(j)
    BY <1>1
  <2>. QED
    BY <1>1, <1>4, <2>1
    DEF JobsTypeOK, JobInv, Fresh, Ended, LastWord, Kept, Replays, GoneForGood, InFlight, Listed
<1>. QED
  BY <1>5, <1>6, <1>7, <1>8

(* What the watcher receives, and what is left under way.                  *)
LEMMA Received ==
  ASSUME JobsTypeOK, ReplayOK, Receive, NEW e, e = Head(replay \o chan)
  PROVE  /\ e \in Events \/ (e = Complete /\ replay # <<>> /\ replay' = <<>>)
         /\ chan' \in Seq(Events) /\ replay' \in Seq(Events \cup {Complete})
         /\ \A k \in 1..Len(replay') : replay'[k] = Complete <=> k = Len(replay')
         /\ InFlight(e)
         /\ replay = <<>> => replay' = <<>>
         /\ replay # <<>> => InReplay(e)
         /\ e = Complete => \A x : InReplay(x) => x = Complete
         /\ \A x : InReplay(x)' => InReplay(x)
         /\ \A x : InReplay(x) => InReplay(x)' \/ x = e
         /\ \A x : InChan(x)' => InChan(x)
         /\ \A j : ExitLast(j) => ExitLast(j)'
         /\ \A j : replay = <<>> /\ ExitLast(j) /\ e = Exited(j) => ~InChan(Running(j))'
<1>. USE DEF JobsTypeOK, ReplayOK
<1>0. Complete \notin Events
  BY EventsDiffer DEF Events
<1>1. CASE replay # <<>>
  <2>1. replay' = Tail(replay) /\ chan' = chan
    BY <1>1 DEF Receive
  <2>2. Len(replay) \in Nat \ {0} /\ e = replay[1] /\ e \in Events \cup {Complete}
    BY <1>1
  <2>3. /\ Len(replay') = Len(replay) - 1 /\ replay' \in Seq(Events \cup {Complete})
        /\ \A k \in 1..Len(replay') : replay'[k] = replay[k + 1] /\ k + 1 \in 1..Len(replay)
    BY <1>1, <2>1, <2>2
  <2>4. \A k \in 1..Len(replay') : replay'[k] = Complete <=> k = Len(replay')
    BY <2>2, <2>3
  <2>5. e = Complete => Len(replay) = 1 /\ replay' = <<>>
    BY <2>2, <2>3
  <2>6. /\ InReplay(e)
        /\ \A x : InReplay(x)' => InReplay(x)
        /\ \A x : InReplay(x) => InReplay(x)' \/ x = e
    <3>1. InReplay(e)
      BY <2>2 DEF InReplay
    <3>2. ASSUME NEW x, InReplay(x)' PROVE InReplay(x)
      BY <2>3, <3>2 DEF InReplay
    <3>3. ASSUME NEW x, InReplay(x), x # e PROVE InReplay(x)'
      <4>1. PICK k \in 1..Len(replay) : replay[k] = x
        BY <3>3 DEF InReplay
      <4>2. k - 1 \in 1..Len(replay') /\ replay'[k - 1] = x
        BY <2>2, <2>3, <3>3, <4>1
      <4>. QED
        BY <4>2 DEF InReplay
    <3>. QED
      BY <3>1, <3>2, <3>3
  <2>7. e = Complete => \A x : InReplay(x) => x = Complete
    BY <2>2, <2>5 DEF InReplay
  <2>8. (\A x : InChan(x)' => InChan(x)) /\ \A j : ExitLast(j) => ExitLast(j)'
    BY <2>1 DEF InChan, ExitLast
  <2>. QED
    BY <1>1, <2>1, <2>2, <2>3, <2>4, <2>5, <2>6, <2>7, <2>8 DEF InFlight
<1>2. CASE replay = <<>>
  <2>1. replay' = <<>> /\ chan' = Tail(chan) /\ chan # <<>>
    BY <1>2 DEF Receive
  <2>2. Len(chan) \in Nat \ {0} /\ e = chan[1] /\ e \in Events
    BY <1>2, <2>1
  <2>3. /\ Len(chan') = Len(chan) - 1 /\ chan' \in Seq(Events)
        /\ \A k \in 1..Len(chan') : chan'[k] = chan[k + 1] /\ k + 1 \in 1..Len(chan)
    BY <2>1, <2>2
  <2>4. InFlight(e) /\ \A x : ~InReplay(x)' /\ ~InReplay(x)
    BY <1>2, <2>1, <2>2 DEF InFlight, InChan, InReplay
  <2>5. \A x : InChan(x)' => InChan(x)
    BY <2>3 DEF InChan
  <2>6. ASSUME NEW j, ExitLast(j) PROVE ExitLast(j)'
    <3>1. ASSUME NEW k \in 1..Len(chan'), NEW m \in 1..Len(chan'), chan'[k] = Exited(j), k < m
          PROVE  chan'[m] # Running(j)
      <4>1. k + 1 \in 1..Len(chan) /\ m + 1 \in 1..Len(chan) /\ chan[k + 1] = Exited(j) /\ k + 1 < m + 1
        BY <2>3, <3>1
      <4>2. chan[m + 1] # Running(j)
        BY <2>6, <4>1 DEF ExitLast
      <4>. QED
        BY <2>3, <4>2
    <3>. QED
      BY <3>1 DEF ExitLast
  <2>7. ASSUME NEW j, ExitLast(j), e = Exited(j) PROVE ~InChan(Running(j))'
    <3>1. ASSUME NEW k \in 1..Len(chan') PROVE chan'[k] # Running(j)
      <4>1. 1 \in 1..Len(chan) /\ k + 1 \in 1..Len(chan) /\ chan[1] = Exited(j) /\ 1 < k + 1
        BY <2>2, <2>3, <2>7
      <4>2. chan[k + 1] # Running(j)
        BY <2>7, <4>1 DEF ExitLast
      <4>. QED
        BY <2>3, <4>2
    <3>. QED
      BY <3>1 DEF InChan
  <2>8. e # Complete
    BY <1>0, <2>2
  <2>. QED
    BY <1>2, <2>1, <2>2, <2>3, <2>4, <2>5, <2>6, <2>7, <2>8
<1>. QED
  BY <1>1, <1>2

LEMMA ReceiveHolds ==
  ASSUME JobsInv, Receive
  PROVE  JobsInv'
<1>. USE JobsAssumption DEF JobsInv
<1>1. PICK e : e = Head(replay \o chan)
  OBVIOUS
<1>2. /\ e \in Events \/ (e = Complete /\ replay # <<>> /\ replay' = <<>>)
      /\ chan' \in Seq(Events) /\ replay' \in Seq(Events \cup {Complete})
      /\ \A k \in 1..Len(replay') : replay'[k] = Complete <=> k = Len(replay')
      /\ InFlight(e)
      /\ replay = <<>> => replay' = <<>>
      /\ replay # <<>> => InReplay(e)
      /\ e = Complete => \A x : InReplay(x) => x = Complete
      /\ \A x : InReplay(x)' => InReplay(x)
      /\ \A x : InReplay(x) => InReplay(x)' \/ x = e
      /\ \A x : InChan(x)' => InChan(x)
      /\ \A j : ExitLast(j) => ExitLast(j)'
      /\ \A j : replay = <<>> /\ ExitLast(j) /\ e = Exited(j) => ~InChan(Running(j))'
  BY <1>1, Received
<1>3. /\ acking = NoHandle /\ todo = <<>>
      /\ UNCHANGED <<reg, proc, waiting, provisional, acked, childVars, killed, missed>>
      /\ \/ e.kind = "running" /\ HandleRunning(e.job)
         \/ e.kind = "exited" /\ HandleExited(e.job)
         \/ e.kind = "complete" /\ HandleComplete
  BY <1>1 DEF Receive, JobsTypeOK, registryVars, childVars
<1>4. CASE \E i \in Handles : e = Running(i)
  <2>1. PICK i \in Handles : e = Running(i)
    BY <1>4
  <2>2. HandleRunning(i)
    BY <1>3, <2>1 DEF Running
  <2>3. JobsTypeOK' /\ ReplayOK' /\ Pushed' /\ ExitNotLost'
    BY <1>2, <1>3, <2>2 DEF HandleRunning, JobsTypeOK, ReplayOK, Pushed, ExitNotLost
  <2>4. ASSUME NEW j \in Handles \ killed'
        PROVE  JobInv(j)'
    <3>1. JobInv(j)
      BY <1>3
    <3>2. /\ InReplay(Running(j))' => InReplay(Running(j))
          /\ InReplay(Exited(j))' => InReplay(Exited(j))
          /\ InReplay(Running(j)) => InReplay(Running(j))' \/ j = i
          /\ InReplay(Exited(j)) => InReplay(Exited(j))'
          /\ InChan(Running(j))' => InChan(Running(j))
          /\ InChan(Exited(j))' => InChan(Exited(j))
          /\ ExitLast(j) => ExitLast(j)'
          /\ j = i => InFlight(Running(j))
          /\ replay' # <<>> => replay # <<>> /\ replaying
      BY <1>2, <2>1, EventsDiffer DEF ReplayOK
    <3>. QED
      BY <1>3, <2>2, <3>1, <3>2
      DEF HandleRunning, JobInv, Fresh, Ended, LastWord, Kept, Replays, GoneForGood, InFlight
  <2>. QED
    BY <2>3, <2>4
<1>5. CASE \E i \in Handles : e = Exited(i)
  <2>1. PICK i \in Handles : e = Exited(i)
    BY <1>5
  <2>2. HandleExited(i)
    BY <1>3, <2>1 DEF Exited
  <2>3. JobsTypeOK' /\ ReplayOK' /\ Pushed' /\ ExitNotLost'
    BY <1>2, <1>3, <2>2 DEF HandleExited, ExitSteps, JobsTypeOK, ReplayOK, Pushed, ExitNotLost
  <2>4. ASSUME NEW j \in Handles \ killed'
        PROVE  JobInv(j)'
    <3>1. JobInv(j)
      BY <1>3
    <3>2. /\ InReplay(Running(j))' => InReplay(Running(j))
          /\ InReplay(Exited(j))' => InReplay(Exited(j))
          /\ InReplay(Running(j)) => InReplay(Running(j))'
          /\ InReplay(Exited(j)) => InReplay(Exited(j))' \/ j = i
          /\ InChan(Running(j))' => InChan(Running(j))
          /\ InChan(Exited(j))' => InChan(Exited(j))
          /\ ExitLast(j) => ExitLast(j)'
          /\ j = i => InFlight(Exited(j))
          /\ j = i /\ replay # <<>> => InReplay(Exited(j))
          /\ j = i /\ replay = <<>> /\ ExitLast(j) => ~InChan(Running(j))'
          /\ replay' # <<>> => replay # <<>> /\ replaying
      BY <1>2, <2>1, EventsDiffer DEF ReplayOK
    <3>3. j = i => ~InFlight(Running(j))'
      <4>1. replay = <<>> => ~InReplay(Running(j))'
        BY <1>2 DEF InReplay
      <4>. QED
        BY <3>1, <3>2, <4>1 DEF JobInv, LastWord, InFlight
    <3>. QED
      BY <1>3, <2>2, <3>1, <3>2, <3>3
      DEF HandleExited, JobInv, Fresh, Ended, LastWord, Kept, Replays, GoneForGood, InFlight
  <2>. QED
    BY <2>3, <2>4
<1>6. CASE e = Complete /\ replay # <<>> /\ replay' = <<>>
  <2>1. HandleComplete
    BY <1>3, <1>6 DEF Complete
  <2>2. JobsTypeOK' /\ ReplayOK' /\ Pushed' /\ ExitNotLost'
    BY <1>2, <1>3, <1>6, <2>1 DEF HandleComplete, JobsTypeOK, ReplayOK, Pushed, ExitNotLost
  <2>3. ASSUME NEW j \in Handles \ killed'
        PROVE  JobInv(j)'
    <3>1. JobInv(j)
      BY <1>3
    <3>2. /\ ~InReplay(Running(j))' /\ ~InReplay(Exited(j))'
          /\ ~InReplay(Running(j)) /\ ~InReplay(Exited(j))
          /\ InChan(Running(j))' => InChan(Running(j))
          /\ InChan(Exited(j))' => InChan(Exited(j))
          /\ ExitLast(j) => ExitLast(j)'
      BY <1>2, <1>6, EventsDiffer DEF InReplay
    <3>3. /\ running' \subseteq running
          /\ news'[j] = news[j] \/ (news'[j] = news[j] \cup {"gone"} /\ j \in running \ replayed)
          /\ UNCHANGED <<acking, todo>>
      BY <2>1 DEF HandleComplete
    <3>. QED
      BY <1>3, <1>6, <3>1, <3>2, <3>3
      DEF JobsTypeOK, JobInv, Fresh, Ended, LastWord, Kept, Replays, GoneForGood, InFlight
  <2>. QED
    BY <2>2, <2>3
<1>. QED
  BY <1>2, <1>4, <1>5, <1>6 DEF Events

LEMMA JobsNextHolds ==
  ASSUME JobsInv, [JobsNext]_jobsVars
  PROVE  JobsInv'
<1>1. CASE UNCHANGED jobsVars
  <2>. USE <1>1 DEF jobsVars, registryVars, streamVars, daemonVars, childVars, toldVars, JobsInv
  <2>1. JobsTypeOK' /\ ReplayOK' /\ Pushed' /\ ExitNotLost'
    BY DEF JobsTypeOK, ReplayOK, Pushed, ExitNotLost
  <2>2. ASSUME NEW j \in Handles \ killed'
        PROVE  JobInv(j)'
    BY StreamKept DEF JobInv, Fresh, Ended, LastWord, Kept, Replays, GoneForGood, InFlight
  <2>. QED
    BY <2>1, <2>2
<1>. QED
  BY <1>1, StartProvisionalHolds, ExitHolds, DiscardHolds, KillHolds,
     ForgetRunningJobHolds, OwnerExitsHolds, OwnerResumesHolds, ReleaseWorkspaceHolds,
     ReleaseFailsHolds, StreamLostHolds,
     StreamEndsHolds, PushExitHolds, AckFailsHolds, DaemonCrashHolds,
     ExecutorRestartHolds, AckJobExitHolds, StartHolds, PublishExitHolds,
     PromoteHolds, SubscribeHolds, ReceiveHolds
  DEF JobsNext

-----------------------------------------------------------------------------
(* The registry, its stream and the daemon's view keep their invariant:    *)
(* the last word on a job is its exit, a replay brings what the registry   *)
(* has, and what left the registry was acknowledged or lost with it        *)
(* (jobs.go, publish and snapshotLocked; jobwatch.go, handleJobEvent).     *)
THEOREM JobsHeld == JobsSpec => []JobsInv
  BY JobsInitHolds, JobsNextHolds, PTL DEF JobsSpec

(* An exit the executor may forget was told, over every crash of the       *)
(* daemon, lost acknowledgement and cut stream (jobwatch.go, "Push BEFORE  *)
(* ack"): the one that may be lost was handled while its child was exited. *)
THEOREM ExitsNotLost == JobsSpec => []ExitNotLost
<1>1. JobsInv => ExitNotLost
  BY DEF JobsInv
<1>. QED
  BY <1>1, JobsHeld, PTL

(* A job is reported gone only if its executor lost it: events that were   *)
(* overtaken, cut off, truncated or replayed twice do not make the daemon  *)
(* give up a job that is there or has exited (jobwatch.go,                 *)
(* ReplayComplete).                                                        *)
THEOREM GoneStaysTrue == JobsSpec => []GoneIsTrue
<1>1. JobsInv => GoneIsTrue
  BY DEF JobsInv, JobInv, GoneForGood, GoneIsTrue
<1>. QED
  BY <1>1, JobsHeld, PTL

-----------------------------------------------------------------------------
(* Proofs about scheduled prompts, recurring and one-shot, for any length  *)
(* of time and any number of failures: no fire is lost.                    *)

(* The inductive invariant.                                                *)
Rows         == [open : BOOLEAN, next : Nat, held : SUBSET Nat]
Works(steps) == [todo : steps, due : Nat, seen : Nat, held : SUBSET Nat]

SchedTypeOK ==
  /\ job \in Rows
  /\ timer \in [kind : {"none", "fire", "retry"}, at : Nat, seen : Nat]
  /\ fire \in Works({<<>>, <<"hold">>, <<"push", "advance">>, <<"advance">>})
  /\ release \in Works({<<>>, <<"list">>, <<"push", "clear">>, <<"clear">>})
  /\ fire.todo = <<>> => fire = NoWork
  /\ release.todo = <<>> => release = NoWork
  /\ now \in Nat /\ fire.seen <= now /\ timer.seen <= now /\ release.seen <= now
  /\ covered \in SUBSET Nat /\ dropped \in SUBSET Nat

Told      == covered \cup dropped
Accounted == Told \cup job.held

(* Nothing excuses a lost fire so far.                                     *)
Clean == ~excused /\ ~deleted

(* Only a callback that found the budget breached holds a fire back, so    *)
(* none does while a release or its retry is at work.                      *)
BudgetInv ==
  Clean => /\ fire.todo = <<"hold">> => breached
           /\ breached => release.todo = <<>> /\ ~reclear

(* A recurring job: what is before the next fire, or before what a         *)
(* callback is about to move the row past, is accounted for, and what a    *)
(* callback, a retry or a release is about to clear is told.               *)
RecurringInv ==
  Clean /\ recurring =>
    /\ job.open /\ 0 < job.next /\ job.next <= now + 1
    /\ \A d \in Nat : 0 < d /\ d < job.next => d \in Accounted
    /\ fire.todo \in {<<"hold">>, <<"push", "advance">>} =>
         \A d \in Nat : 0 < d /\ d < fire.due => d \in Accounted
    /\ fire.todo = <<"push", "advance">> => job.held \subseteq fire.held
    /\ fire.todo = <<"advance">> =>
         job.held \subseteq Told /\ \A d \in Nat : 0 < d /\ d <= fire.seen => d \in Accounted
    /\ timer.kind = "retry" =>
         /\ fire.todo = <<>>
         /\ job.held \subseteq Told /\ \A d \in Nat : 0 < d /\ d <= timer.seen => d \in Accounted
    /\ release.todo = <<"push", "clear">> => job.held \subseteq release.held
    /\ release.todo = <<"clear">> \/ reclear => job.held \subseteq Told

(* A one-shot is due at 1, and the row is closed only after the push.      *)
OneShotInv ==
  Clean /\ ~recurring =>
    /\ job.next = 1 /\ job.held \subseteq {1} /\ ~reclear
    /\ fire.todo \in {<<"hold">>, <<"push", "advance">>} => fire.due = 1 /\ 1 <= fire.seen
    /\ release.todo = <<"push", "clear">> => 1 \in release.held
    /\ fire.todo = <<"advance">> \/ timer.kind = "retry" \/ release.todo = <<"clear">> \/ ~job.open =>
         1 \in covered

SchedInv == SchedTypeOK /\ BudgetInv /\ RecurringInv /\ OneShotInv
-----------------------------------------------------------------------------
LEMMA SchedInitHolds ==
  ASSUME SchedInit
  PROVE  SchedInv
<1>. USE DEF SchedInit, SchedInv, NoWork, ArmAt
<1>1. SchedTypeOK
  BY DEF SchedTypeOK, Rows, Works
<1>2. BudgetInv
  BY DEF BudgetInv
<1>3. RecurringInv
  BY DEF RecurringInv
<1>4. OneShotInv
  BY DEF OneShotInv
<1>. QED
  BY <1>1, <1>2, <1>3, <1>4

(* Where a callback stands, and what is left once that step is done.       *)
LEMMA FireStands ==
  ASSUME SchedTypeOK
  PROVE  /\ At("hold") => fire.todo = <<"hold">>
         /\ At("push") => /\ fire.todo = <<"push", "advance">>
                          /\ Worked = [fire EXCEPT !.todo = <<"advance">>]
         /\ At("advance") => fire.todo = <<"advance">> /\ Worked = NoWork
<1>. USE DEF SchedTypeOK, Works, At, Worked
<1>1. fire.todo \in {<<>>, <<"hold">>, <<"push", "advance">>, <<"advance">>}
  OBVIOUS
<1>2. CASE fire.todo = <<"push", "advance">>
  <2>1. Head(fire.todo) = "push" /\ Tail(fire.todo) = <<"advance">> /\ Len(fire.todo) = 2
    BY <1>2
  <2>. QED
    BY <1>2, <2>1
<1>3. CASE fire.todo # <<"push", "advance">>
  <2>1. Head(fire.todo) # "push" \/ fire.todo = <<>>
    BY <1>1, <1>3
  <2>. QED
    BY <1>1, <1>3, <2>1
<1>. QED
  BY <1>2, <1>3

LEMMA ReleaseStands ==
  ASSUME SchedTypeOK
  PROVE  /\ Releasing("list") => release.todo = <<"list">>
         /\ Releasing("push") => release.todo = <<"push", "clear">>
         /\ Releasing("clear") => release.todo = <<"clear">>
  BY DEF SchedTypeOK, Works, Releasing

LEMMA FireHolds ==
  ASSUME SchedInv, Fire
  PROVE  SchedInv'
<1>. USE DEF Fire, Due, FireSteps, NoWork, NoTimer, ArmAt, RetryOf, Faulty, SchedInv
<1>1. SchedTypeOK'
  BY DEF SchedTypeOK, Rows, Works
<1>2. BudgetInv'
  BY <1>1 DEF SchedTypeOK, Rows, Works, BudgetInv, Clean
<1>3. RecurringInv'
  BY <1>1 DEF SchedTypeOK, Rows, Works, BudgetInv, RecurringInv, Told, Accounted, Clean
<1>4. OneShotInv'
  BY <1>1 DEF SchedTypeOK, Rows, Works, BudgetInv, OneShotInv, Clean
<1>. QED
  BY <1>1, <1>2, <1>3, <1>4

LEMMA LoadFailsHolds ==
  ASSUME SchedInv, LoadFails
  PROVE  SchedInv'
<1>. USE DEF LoadFails, NoWork, NoTimer, ArmAt, RetryOf, Faulty, SchedInv
<1>1. SchedTypeOK'
  BY DEF SchedTypeOK, Rows, Works
<1>2. BudgetInv'
  BY <1>1 DEF SchedTypeOK, Rows, Works, BudgetInv, Clean
<1>3. RecurringInv'
  BY <1>1 DEF SchedTypeOK, Rows, Works, BudgetInv, RecurringInv, Told, Accounted, Clean
<1>4. OneShotInv'
  BY <1>1 DEF SchedTypeOK, Rows, Works, BudgetInv, OneShotInv, Clean
<1>. QED
  BY <1>1, <1>2, <1>3, <1>4

LEMMA RunRetryHolds ==
  ASSUME SchedInv, RunRetry
  PROVE  SchedInv'
<1>. USE DEF RunRetry, NoWork, NoTimer, ArmAt, RetryOf, Faulty, SchedInv
<1>1. SchedTypeOK'
  BY DEF SchedTypeOK, Rows, Works
<1>2. BudgetInv'
  BY <1>1 DEF SchedTypeOK, Rows, Works, BudgetInv, Clean
<1>3. RecurringInv'
  BY <1>1 DEF SchedTypeOK, Rows, Works, BudgetInv, RecurringInv, Told, Accounted, Clean
<1>4. OneShotInv'
  BY <1>1 DEF SchedTypeOK, Rows, Works, BudgetInv, OneShotInv, Clean
<1>. QED
  BY <1>1, <1>2, <1>3, <1>4

LEMMA HoldHolds ==
  ASSUME SchedInv, Hold
  PROVE  SchedInv'
<1>. USE DEF SchedInv, Works, NoWork, ArmAt
<1>0. fire.todo = <<"hold">> /\ fire' = NoWork
  BY FireStands DEF Hold
<1>a. UNCHANGED <<recurring, release, reclear, now, breached, covered, dropped, deleted, excused>>
  BY DEF Hold
<1>b. CASE recurring /\ job.open
  <2>0. job \in Rows /\ fire.seen + 1 \in Nat /\ job.held \cup fire.due..fire.seen \in SUBSET Nat
    BY DEF SchedTypeOK, Rows
  <2>1. /\ job' = [job EXCEPT !.next = fire.seen + 1, !.held = job.held \cup fire.due..fire.seen]
        /\ timer' = ArmAt(fire.seen + 1)
    BY <1>b DEF Hold, SchedTypeOK
  <2>2. /\ job' \in Rows /\ job'.open = job.open /\ job'.next = fire.seen + 1
        /\ job'.held = job.held \cup fire.due..fire.seen
    BY <2>0, <2>1 DEF Rows
  <2>3. SchedTypeOK'
    BY <1>0, <1>a, <2>1, <2>2 DEF SchedTypeOK
  <2>4. BudgetInv' /\ OneShotInv'
    BY <1>0, <1>a, <1>b DEF BudgetInv, OneShotInv, Clean
  <2>5. RecurringInv'
    BY <1>0, <1>a, <1>b, <2>1, <2>2 DEF SchedTypeOK, Rows, BudgetInv, RecurringInv, Told, Accounted, Clean
  <2>. QED
    BY <2>3, <2>4, <2>5
<1>c. CASE ~job.open
  <2>1. job' = job /\ (timer' = timer \/ timer' = ArmAt(fire.seen + 1))
    BY <1>c DEF Hold
  <2>2. SchedTypeOK'
    BY <1>0, <1>a, <2>1 DEF SchedTypeOK
  <2>3. BudgetInv'
    BY <1>0, <1>a DEF BudgetInv, Clean
  <2>4. RecurringInv'
    BY <1>a, <1>c DEF RecurringInv, Clean
  <2>5. OneShotInv'
    BY <1>0, <1>a, <2>1 DEF OneShotInv, Clean
  <2>. QED
    BY <2>2, <2>3, <2>4, <2>5
<1>d. CASE ~recurring /\ job.open
  <2>0. job \in Rows /\ {fire.due} \in SUBSET Nat
    BY DEF SchedTypeOK
  <2>1. job' = [job EXCEPT !.held = {fire.due}] /\ timer' = timer
    BY <1>d DEF Hold
  <2>2. job' \in Rows /\ job'.open = job.open /\ job'.next = job.next /\ job'.held = {fire.due}
    BY <2>0, <2>1 DEF Rows
  <2>3. SchedTypeOK'
    BY <1>0, <1>a, <2>1, <2>2 DEF SchedTypeOK
  <2>4. BudgetInv' /\ RecurringInv'
    BY <1>0, <1>a, <1>d DEF BudgetInv, RecurringInv, Clean
  <2>5. OneShotInv'
    BY <1>0, <1>a, <1>d, <2>1, <2>2 DEF OneShotInv, Clean
  <2>. QED
    BY <2>3, <2>4, <2>5
<1>. QED
  BY <1>b, <1>c, <1>d

LEMMA HoldFailsHolds ==
  ASSUME SchedInv, HoldFails
  PROVE  SchedInv'
<1>. USE DEF SchedInv, Works, NoWork
<1>0. fire.todo = <<"hold">> /\ fire' = NoWork
  BY FireStands DEF HoldFails
<1>a. UNCHANGED <<recurring, job, release, reclear, now, breached, covered, dropped, deleted, excused>>
  BY DEF HoldFails
<1>b. timer' = timer \/ timer' = ArmAt(fire.seen + 1)
  BY DEF HoldFails
<1>1. SchedTypeOK'
  BY <1>0, <1>a, <1>b DEF SchedTypeOK, ArmAt
<1>2. BudgetInv'
  BY <1>0, <1>a DEF BudgetInv, Clean
<1>3. RecurringInv'
  BY <1>0, <1>a, <1>b DEF RecurringInv, ArmAt, Told, Accounted, Clean
<1>4. OneShotInv'
  BY <1>0, <1>a, <1>b DEF OneShotInv, ArmAt, Clean
<1>. QED
  BY <1>1, <1>2, <1>3, <1>4

LEMMA PushFireHolds ==
  ASSUME SchedInv, PushFire
  PROVE  SchedInv'
<1>. USE DEF SchedInv, Works, NoWork
<1>0. /\ fire.todo = <<"push", "advance">>
      /\ fire' = [fire EXCEPT !.todo = <<"advance">>]
      /\ covered' = covered \cup fire.due..fire.seen \cup fire.held
  BY FireStands DEF PushFire
<1>a. UNCHANGED <<recurring, job, timer, release, reclear, now, breached, dropped, deleted, excused>>
  BY DEF PushFire
<1>1. SchedTypeOK'
  BY <1>0, <1>a DEF SchedTypeOK
<1>b. /\ fire'.todo = <<"advance">> /\ fire'.seen = fire.seen
      /\ \A d \in Nat : fire.due <= d /\ d <= fire.seen => d \in covered'
  BY <1>0 DEF SchedTypeOK
<1>2. BudgetInv'
  BY <1>a, <1>b DEF BudgetInv, Clean
<1>3. RecurringInv'
  BY <1>0, <1>a, <1>b DEF SchedTypeOK, Rows, RecurringInv, Told, Accounted, Clean
<1>4. OneShotInv'
  BY <1>0, <1>a, <1>b DEF SchedTypeOK, OneShotInv, Clean
<1>. QED
  BY <1>1, <1>2, <1>3, <1>4

LEMMA AdvanceRowHolds ==
  ASSUME SchedInv, AdvanceRow
  PROVE  SchedInv'
<1>. USE DEF SchedInv, Works, NoWork, ArmAt
<1>0. fire.todo = <<"advance">> /\ fire' = NoWork
  BY FireStands DEF AdvanceRow
<1>a. UNCHANGED <<recurring, release, reclear, now, breached, covered, dropped, deleted, excused>>
  BY DEF AdvanceRow
<1>2. BudgetInv'
  BY <1>0, <1>a DEF BudgetInv, Clean
<1>b. CASE ~recurring
  <2>0. job \in Rows
    BY DEF SchedTypeOK
  <2>1. job' = [job EXCEPT !.open = FALSE] /\ timer' = timer
    BY <1>b DEF AdvanceRow
  <2>2. job' \in Rows /\ job'.next = job.next /\ job'.held = job.held
    BY <2>0, <2>1 DEF Rows
  <2>3. SchedTypeOK'
    BY <1>0, <1>a, <2>1, <2>2 DEF SchedTypeOK
  <2>4. RecurringInv'
    BY <1>a, <1>b DEF RecurringInv
  <2>5. OneShotInv'
    BY <1>0, <1>a, <2>1, <2>2 DEF OneShotInv, Clean
  <2>. QED
    BY <1>2, <2>3, <2>4, <2>5
<1>c. CASE recurring /\ job.open
  <2>0. job \in Rows /\ fire.seen + 1 \in Nat
    BY DEF SchedTypeOK
  <2>1. job' = [job EXCEPT !.next = fire.seen + 1, !.held = {}] /\ timer' = ArmAt(fire.seen + 1)
    BY <1>c DEF AdvanceRow
  <2>2. job' \in Rows /\ job'.open = job.open /\ job'.next = fire.seen + 1 /\ job'.held = {}
    BY <2>0, <2>1 DEF Rows
  <2>3. SchedTypeOK'
    BY <1>0, <1>a, <2>1, <2>2 DEF SchedTypeOK
  <2>4. RecurringInv'
    BY <1>0, <1>a, <1>c, <2>1, <2>2 DEF SchedTypeOK, Rows, RecurringInv, Told, Accounted, Clean
  <2>5. OneShotInv'
    BY <1>a, <1>c DEF OneShotInv
  <2>. QED
    BY <1>2, <2>3, <2>4, <2>5
<1>d. CASE recurring /\ ~job.open
  <2>1. job' = job /\ timer' = RetryOf(fire)
    BY <1>d DEF AdvanceRow
  <2>2. SchedTypeOK'
    BY <1>0, <1>a, <2>1 DEF SchedTypeOK, RetryOf
  <2>3. RecurringInv' /\ OneShotInv'
    BY <1>a, <1>d DEF RecurringInv, OneShotInv, Clean
  <2>. QED
    BY <1>2, <2>2, <2>3
<1>. QED
  BY <1>b, <1>c, <1>d

LEMMA AdvanceFailsHolds ==
  ASSUME SchedInv, AdvanceFails
  PROVE  SchedInv'
<1>. USE DEF SchedInv, Works, NoWork
<1>0. /\ fire.todo = <<"advance">> /\ fire' = NoWork
      /\ timer' = RetryOf(fire)
  BY FireStands DEF AdvanceFails
<1>a. UNCHANGED <<recurring, job, release, reclear, now, breached, covered, dropped, deleted, excused>>
  BY DEF AdvanceFails
<1>1. SchedTypeOK'
  BY <1>0, <1>a DEF SchedTypeOK, RetryOf
<1>2. BudgetInv'
  BY <1>0, <1>a DEF BudgetInv, Clean
<1>3. RecurringInv'
  BY <1>0, <1>a DEF SchedTypeOK, Rows, RetryOf, RecurringInv, Told, Accounted, Clean
<1>4. OneShotInv'
  BY <1>0, <1>a DEF OneShotInv, Clean
<1>. QED
  BY <1>1, <1>2, <1>3, <1>4

LEMMA BreachHolds ==
  ASSUME SchedInv, Breach
  PROVE  SchedInv'
<1>. USE DEF Breach, Excuse, NoWork, NoTimer, ArmAt, RetryOf, Faulty, SchedInv
<1>1. SchedTypeOK'
  BY DEF SchedTypeOK, Rows, Works
<1>2. BudgetInv'
  BY <1>1 DEF SchedTypeOK, Rows, Works, BudgetInv, Clean
<1>3. RecurringInv'
  BY <1>1 DEF SchedTypeOK, Rows, Works, BudgetInv, RecurringInv, Told, Accounted, Clean
<1>4. OneShotInv'
  BY <1>1 DEF SchedTypeOK, Rows, Works, BudgetInv, OneShotInv, Clean
<1>. QED
  BY <1>1, <1>2, <1>3, <1>4

LEMMA RaiseHolds ==
  ASSUME SchedInv, Raise
  PROVE  SchedInv'
<1>. USE DEF SchedInv, Works, NoWork
<1>0. /\ release = NoWork /\ release' = [NoWork EXCEPT !.todo = <<"list">>]
      /\ ~excused' => ~excused /\ fire.todo = <<>>
      /\ breached' = FALSE
  BY DEF Raise, Excuse, SchedTypeOK
<1>a. UNCHANGED <<recurring, job, timer, fire, reclear, now, covered, dropped, deleted>>
  BY DEF Raise
<1>1. SchedTypeOK'
  BY <1>0, <1>a DEF SchedTypeOK
<1>2. BudgetInv'
  BY <1>0, <1>a DEF BudgetInv, Clean
<1>3. RecurringInv'
  BY <1>0, <1>a DEF RecurringInv, Told, Accounted, Clean
<1>4. OneShotInv'
  BY <1>0, <1>a DEF OneShotInv, Clean
<1>. QED
  BY <1>1, <1>2, <1>3, <1>4

LEMMA ListHeldHolds ==
  ASSUME SchedInv, ListHeld
  PROVE  SchedInv'
<1>. USE DEF SchedInv, Works, NoWork
<1>0. release.todo = <<"list">>
  BY ReleaseStands DEF ListHeld
<1>a. UNCHANGED <<recurring, job, timer, fire, reclear, now, breached, covered, dropped, deleted, excused>>
  BY DEF ListHeld
<1>2. BudgetInv'
  BY <1>0, <1>a DEF BudgetInv, Clean
<1>b. CASE release' = NoWork
  <2>1. SchedTypeOK'
    BY <1>a, <1>b DEF SchedTypeOK
  <2>2. RecurringInv' /\ OneShotInv'
    BY <1>a, <1>b DEF RecurringInv, OneShotInv, Told, Accounted, Clean
  <2>. QED
    BY <1>2, <2>1, <2>2
<1>c. CASE release' # NoWork
  <2>1. /\ release' = [todo |-> <<"push", "clear">>, due |-> 0, seen |-> now, held |-> job.held]
        /\ job.held # {}
    BY <1>c DEF ListHeld
  <2>2. release'.todo = <<"push", "clear">> /\ release'.held = job.held /\ release'.seen = now
    BY <2>1
  <2>3. SchedTypeOK'
    <3>1. job.held \in SUBSET Nat /\ now \in Nat
      BY DEF SchedTypeOK, Rows
    <3>2. release' \in Works({<<>>, <<"list">>, <<"push", "clear">>, <<"clear">>})
      BY <2>1, <3>1
    <3>. QED
      BY <1>a, <2>2, <3>1, <3>2 DEF SchedTypeOK
  <2>4. RecurringInv'
    BY <1>a, <2>2 DEF RecurringInv, Told, Accounted, Clean
  <2>5. OneShotInv'
    BY <1>a, <2>1, <2>2 DEF OneShotInv, Clean
  <2>. QED
    BY <1>2, <2>3, <2>4, <2>5
<1>. QED
  BY <1>b, <1>c

LEMMA ListHeldFailsHolds ==
  ASSUME SchedInv, ListHeldFails
  PROVE  SchedInv'
<1>. USE DEF ListHeldFails, Releasing, GiveUp, NoWork, NoTimer, ArmAt, RetryOf, Faulty, SchedInv
<1>1. SchedTypeOK'
  BY DEF SchedTypeOK, Rows, Works
<1>2. BudgetInv'
  BY <1>1 DEF SchedTypeOK, Rows, Works, BudgetInv, Clean
<1>3. RecurringInv'
  BY <1>1 DEF SchedTypeOK, Rows, Works, BudgetInv, RecurringInv, Told, Accounted, Clean
<1>4. OneShotInv'
  BY <1>1 DEF SchedTypeOK, Rows, Works, BudgetInv, OneShotInv, Clean
<1>. QED
  BY <1>1, <1>2, <1>3, <1>4

LEMMA PushHeldHolds ==
  ASSUME SchedInv, PushHeld
  PROVE  SchedInv'
<1>. USE DEF PushHeld, Releasing, NoWork, NoTimer, ArmAt, RetryOf, Faulty, SchedInv
<1>1. SchedTypeOK'
  BY DEF SchedTypeOK, Rows, Works
<1>2. BudgetInv'
  BY <1>1 DEF SchedTypeOK, Rows, Works, BudgetInv, Clean
<1>3. RecurringInv'
  BY <1>1 DEF SchedTypeOK, Rows, Works, BudgetInv, RecurringInv, Told, Accounted, Clean
<1>4. OneShotInv'
  BY <1>1 DEF SchedTypeOK, Rows, Works, BudgetInv, OneShotInv, Clean
<1>. QED
  BY <1>1, <1>2, <1>3, <1>4

LEMMA ClearHeldHolds ==
  ASSUME SchedInv, ClearHeld
  PROVE  SchedInv'
<1>. USE DEF SchedInv, Works, NoWork
<1>0. release.todo = <<"clear">> /\ release' = NoWork
  BY ReleaseStands DEF ClearHeld
<1>a. UNCHANGED <<recurring, timer, fire, reclear, now, breached, covered, dropped, deleted, excused>>
  BY DEF ClearHeld
<1>b. /\ job' \in Rows /\ job'.next = job.next
      /\ ~recurring => job'.held = job.held
      /\ recurring => job'.open = job.open /\ (job'.held = {} \/ job'.held = job.held)
  BY DEF ClearHeld, Cleared, SchedTypeOK, Rows
<1>1. SchedTypeOK'
  BY <1>0, <1>a, <1>b DEF SchedTypeOK
<1>2. BudgetInv'
  BY <1>0, <1>a DEF BudgetInv, Clean
<1>3. RecurringInv'
  BY <1>0, <1>a, <1>b DEF RecurringInv, Told, Accounted, Clean
<1>4. OneShotInv'
  BY <1>0, <1>a, <1>b DEF OneShotInv, Clean
<1>. QED
  BY <1>1, <1>2, <1>3, <1>4

LEMMA ClearFailsHolds ==
  ASSUME SchedInv, ClearFails
  PROVE  SchedInv'
<1>. USE DEF SchedInv, Works, NoWork
<1>0. release.todo = <<"clear">> /\ release' = NoWork
  BY ReleaseStands DEF ClearFails
<1>a. UNCHANGED <<recurring, job, fire, now, breached, covered, dropped, deleted, excused>>
  BY DEF ClearFails
<1>b. CASE recurring
  <2>1. reclear' /\ timer' = timer
    BY <1>b DEF ClearFails
  <2>2. SchedTypeOK'
    BY <1>0, <1>a, <2>1 DEF SchedTypeOK
  <2>3. BudgetInv' /\ OneShotInv'
    BY <1>0, <1>a, <1>b DEF BudgetInv, OneShotInv, Clean
  <2>4. RecurringInv'
    BY <1>0, <1>a, <2>1 DEF RecurringInv, Told, Accounted, Clean
  <2>. QED
    BY <2>2, <2>3, <2>4
<1>c. CASE ~recurring
  <2>1. (reclear' <=> reclear) /\ timer' = RetryOf(release)
    BY <1>c DEF ClearFails
  <2>2. SchedTypeOK'
    BY <1>0, <1>a, <2>1 DEF SchedTypeOK, RetryOf
  <2>3. BudgetInv' /\ RecurringInv'
    BY <1>0, <1>a, <1>c, <2>1 DEF BudgetInv, RecurringInv, Clean
  <2>4. OneShotInv'
    BY <1>0, <1>a, <2>1 DEF OneShotInv, Clean
  <2>. QED
    BY <2>2, <2>3, <2>4
<1>. QED
  BY <1>b, <1>c

LEMMA RetryClearHeldHolds ==
  ASSUME SchedInv, RetryClearHeld
  PROVE  SchedInv'
<1>. USE DEF SchedInv, Works, NoWork
<1>a. UNCHANGED <<recurring, timer, fire, release, now, breached, covered, dropped, deleted, excused>>
  BY DEF RetryClearHeld
<1>b. /\ reclear /\ ~reclear' /\ job' \in Rows /\ job'.next = job.next
      /\ recurring => job'.open = job.open /\ (job'.held = {} \/ job'.held = job.held)
  BY DEF RetryClearHeld, Cleared, SchedTypeOK, Rows
<1>1. SchedTypeOK'
  BY <1>a, <1>b DEF SchedTypeOK
<1>2. BudgetInv'
  BY <1>a, <1>b DEF BudgetInv, Clean
<1>3. RecurringInv'
  BY <1>a, <1>b DEF RecurringInv, Told, Accounted, Clean
<1>4. OneShotInv'
  BY <1>a, <1>b DEF OneShotInv, Clean
<1>. QED
  BY <1>1, <1>2, <1>3, <1>4

LEMMA ChildExitsHolds ==
  ASSUME SchedInv, ChildExits
  PROVE  SchedInv'
<1>. USE DEF ChildExits, NoWork, NoTimer, ArmAt, RetryOf, Faulty, SchedInv
<1>1. SchedTypeOK'
  BY DEF SchedTypeOK, Rows, Works
<1>2. BudgetInv'
  BY <1>1 DEF SchedTypeOK, Rows, Works, BudgetInv, Clean
<1>3. RecurringInv'
  BY <1>1 DEF SchedTypeOK, Rows, Works, BudgetInv, RecurringInv, Told, Accounted, Clean
<1>4. OneShotInv'
  BY <1>1 DEF SchedTypeOK, Rows, Works, BudgetInv, OneShotInv, Clean
<1>. QED
  BY <1>1, <1>2, <1>3, <1>4

LEMMA ResumeHolds ==
  ASSUME SchedInv, Resume
  PROVE  SchedInv'
<1>. USE DEF SchedInv, Works, NoWork, ArmAt
<1>a. UNCHANGED <<recurring, fire, release, reclear, now, breached, covered, deleted, excused>>
  BY DEF Resume
<1>b. timer' = timer \/ timer' = ArmAt(job'.next)
  BY DEF Resume, Rearm
<1>2. BudgetInv'
  BY <1>a DEF BudgetInv, Clean
<1>c. CASE Skips
  <2>0. job \in Rows /\ now + 1 \in Nat
    BY DEF SchedTypeOK
  <2>1. /\ job' = [job EXCEPT !.next = now + 1, !.held = {}]
        /\ dropped' = dropped \cup job.next..now \cup job.held
    BY <1>c DEF Resume
  <2>2. job' \in Rows /\ job'.open = job.open /\ job'.next = now + 1 /\ job'.held = {}
    BY <2>0, <2>1 DEF Rows
  <2>3. SchedTypeOK'
    <3>1. dropped' \in SUBSET Nat /\ (timer' = timer \/ timer' = ArmAt(now + 1))
      BY <1>b, <2>1, <2>2 DEF SchedTypeOK, Rows
    <3>. QED
      BY <1>a, <2>2, <3>1 DEF SchedTypeOK
  <2>4. RecurringInv'
    BY <1>a, <1>b, <2>1, <2>2 DEF SchedTypeOK, Rows, RecurringInv, Told, Accounted, Clean
  <2>5. OneShotInv'
    BY <1>a, <1>c DEF OneShotInv, Skips
  <2>. QED
    BY <1>2, <2>3, <2>4, <2>5
<1>d. CASE ~Skips
  <2>1. job' = job /\ dropped' = dropped
    BY <1>d DEF Resume
  <2>2. SchedTypeOK'
    BY <1>a, <1>b, <2>1 DEF SchedTypeOK, Rows
  <2>3. RecurringInv'
    BY <1>a, <1>b, <2>1 DEF RecurringInv, Told, Accounted, Clean
  <2>4. OneShotInv'
    BY <1>a, <1>b, <2>1 DEF OneShotInv, Clean
  <2>. QED
    BY <1>2, <2>2, <2>3, <2>4
<1>. QED
  BY <1>c, <1>d

LEMMA ResumeFailsHolds ==
  ASSUME SchedInv, ResumeFails
  PROVE  SchedInv'
<1>. USE DEF ResumeFails, GiveUp, NoWork, NoTimer, ArmAt, RetryOf, Faulty, SchedInv
<1>1. SchedTypeOK'
  BY DEF SchedTypeOK, Rows, Works
<1>2. BudgetInv'
  BY <1>1 DEF SchedTypeOK, Rows, Works, BudgetInv, Clean
<1>3. RecurringInv'
  BY <1>1 DEF SchedTypeOK, Rows, Works, BudgetInv, RecurringInv, Told, Accounted, Clean
<1>4. OneShotInv'
  BY <1>1 DEF SchedTypeOK, Rows, Works, BudgetInv, OneShotInv, Clean
<1>. QED
  BY <1>1, <1>2, <1>3, <1>4

LEMMA CrashHolds ==
  ASSUME SchedInv, Crash
  PROVE  SchedInv'
<1>. USE DEF Crash, NoWork, NoTimer, ArmAt, RetryOf, Faulty, SchedInv
<1>1. SchedTypeOK'
  BY DEF SchedTypeOK, Rows, Works
<1>2. BudgetInv'
  BY <1>1 DEF SchedTypeOK, Rows, Works, BudgetInv, Clean
<1>3. RecurringInv'
  BY <1>1 DEF SchedTypeOK, Rows, Works, BudgetInv, RecurringInv, Told, Accounted, Clean
<1>4. OneShotInv'
  BY <1>1 DEF SchedTypeOK, Rows, Works, BudgetInv, OneShotInv, Clean
<1>. QED
  BY <1>1, <1>2, <1>3, <1>4

LEMMA RecoverHolds ==
  ASSUME SchedInv, Recover
  PROVE  SchedInv'
<1>. USE DEF Recover, Rearm, NoWork, NoTimer, ArmAt, RetryOf, Faulty, SchedInv
<1>1. SchedTypeOK'
  BY DEF SchedTypeOK, Rows, Works
<1>2. BudgetInv'
  BY <1>1 DEF SchedTypeOK, Rows, Works, BudgetInv, Clean
<1>3. RecurringInv'
  BY <1>1 DEF SchedTypeOK, Rows, Works, BudgetInv, RecurringInv, Told, Accounted, Clean
<1>4. OneShotInv'
  BY <1>1 DEF SchedTypeOK, Rows, Works, BudgetInv, OneShotInv, Clean
<1>. QED
  BY <1>1, <1>2, <1>3, <1>4

LEMMA RecoverFailsHolds ==
  ASSUME SchedInv, RecoverFails
  PROVE  SchedInv'
<1>. USE DEF RecoverFails, GiveUp, NoWork, NoTimer, ArmAt, RetryOf, Faulty, SchedInv
<1>1. SchedTypeOK'
  BY DEF SchedTypeOK, Rows, Works
<1>2. BudgetInv'
  BY <1>1 DEF SchedTypeOK, Rows, Works, BudgetInv, Clean
<1>3. RecurringInv'
  BY <1>1 DEF SchedTypeOK, Rows, Works, BudgetInv, RecurringInv, Told, Accounted, Clean
<1>4. OneShotInv'
  BY <1>1 DEF SchedTypeOK, Rows, Works, BudgetInv, OneShotInv, Clean
<1>. QED
  BY <1>1, <1>2, <1>3, <1>4

LEMMA DeleteHolds ==
  ASSUME SchedInv, Delete
  PROVE  SchedInv'
<1>. USE DEF SchedInv, Works, NoWork, NoTimer
<1>1. job' \in Rows /\ (timer' = timer \/ timer' = NoTimer)
  BY DEF Delete, SchedTypeOK, Rows
<1>2. SchedTypeOK'
  BY <1>1 DEF Delete, SchedTypeOK
<1>3. BudgetInv' /\ RecurringInv' /\ OneShotInv'
  BY DEF Delete, BudgetInv, RecurringInv, OneShotInv, Clean
<1>. QED
  BY <1>2, <1>3

LEMMA SchedTickHolds ==
  ASSUME SchedInv, SchedTick
  PROVE  SchedInv'
<1>. USE DEF SchedTick, NoWork, NoTimer, ArmAt, RetryOf, Faulty, SchedInv
<1>1. SchedTypeOK'
  BY DEF SchedTypeOK, Rows, Works
<1>2. BudgetInv'
  BY <1>1 DEF SchedTypeOK, Rows, Works, BudgetInv, Clean
<1>3. RecurringInv'
  BY <1>1 DEF SchedTypeOK, Rows, Works, BudgetInv, RecurringInv, Told, Accounted, Clean
<1>4. OneShotInv'
  BY <1>1 DEF SchedTypeOK, Rows, Works, BudgetInv, OneShotInv, Clean
<1>. QED
  BY <1>1, <1>2, <1>3, <1>4

LEMMA SchedNextHolds ==
  ASSUME SchedInv, [SchedNext]_schedVars
  PROVE  SchedInv'
<1>1. CASE UNCHANGED schedVars
  BY <1>1
  DEF schedVars, SchedInv, SchedTypeOK, BudgetInv, RecurringInv, OneShotInv, Told, Accounted, Clean
<1>. QED
  BY <1>1, FireHolds, LoadFailsHolds, RunRetryHolds, HoldHolds, HoldFailsHolds,
     PushFireHolds, AdvanceRowHolds, AdvanceFailsHolds, BreachHolds,
     RaiseHolds, ListHeldHolds, ListHeldFailsHolds, PushHeldHolds, ClearHeldHolds,
     ClearFailsHolds, RetryClearHeldHolds, ChildExitsHolds, ResumeHolds, ResumeFailsHolds,
     CrashHolds, RecoverHolds, RecoverFailsHolds, DeleteHolds, SchedTickHolds
  DEF SchedNext

(* The schedule keeps its invariant: what a callback, a retry or a release *)
(* is about to move the row past or clear is told, held or skipped before  *)
(* it does (schedules.go, fireSchedule and releaseHeldSchedules).          *)
THEOREM SchedHeld == SchedSpec => []SchedInv
  BY SchedInitHolds, SchedNextHolds, PTL DEF SchedSpec

(* No fire is lost: every instant the row has left behind was told, is     *)
(* held on the row or was skipped by a manual resume, over every failed    *)
(* call, crash, exit and release (schedules.go, fireSchedule).             *)
THEOREM FiresAccounted == SchedSpec => []FireAccounted
<1>1. SchedInv => FireAccounted
  BY DEF SchedInv, SchedTypeOK, Rows, RecurringInv, OneShotInv, Told, Accounted, Clean, FireAccounted
<1>. QED
  BY <1>1, SchedHeld, PTL
=============================================================================

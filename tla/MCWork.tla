------------------------------- MODULE MCWork -------------------------------
(***************************************************************************)
(* Small instances of the services that owe an agent something in the end: *)
(* the executor pool, background jobs and schedules.  They share no state, *)
(* so a behaviour is about one of them, "focus", and the others stand      *)
(* still, in a state none of their fair actions is enabled in.  The pool   *)
(* appears twice, for a durable executor ("pool") and for the transient    *)
(* ones of a session ("session").                                          *)
(***************************************************************************)
EXTENDS ExecPool, Jobs, Schedules

VARIABLE focus

(* Two connections of the durable executor, two that dial with the first   *)
(* session's ticket.                                                       *)
MCIdOf == [c \in Conns |-> IF c \in {"t", "u"} THEN "s1" ELSE Exec]

PoolConns == {c \in Conns : Transient(c) <=> focus = "session"}

PoolStep ==
  \/ \E c \in PoolConns : ConnStep(c)
  \/ \E i \in Ids : SweepParked(i) \/ SweepEvicted(i) \/ HandleExecutorLost(i) \/ Evict(i)
  \/ focus = "pool" /\ (FlipRow \/ DisconnectOwner)
  \/ focus = "session" /\ (EndSession \/ ReleaseSession)
  \/ focus = "session" /\ \E s \in Sessions : ExecutorSession(s) \/ Revoke(s)

(* A stream on which nothing happens, and a schedule after its time.       *)
JobsStill ==
  /\ reg = {} /\ proc = [j \in Handles |-> "none"] /\ waiting = {}
  /\ provisional = {} /\ acked = {} /\ exitPublished = {}
  /\ replay = <<>> /\ chan = <<>> /\ sub = "open"
  /\ running = {} /\ replayed = {} /\ replaying = FALSE /\ acking = NoHandle /\ todo = <<>>
  /\ owner = FALSE /\ former = {} /\ releasing = {}
  /\ killed = {} /\ news = [j \in Handles |-> {}] /\ missed = {} /\ faults = 0

SchedStill ==
  /\ recurring = FALSE /\ job = [open |-> FALSE, next |-> 1, held |-> {}]
  /\ timer = NoTimer /\ fire = NoWork /\ release = NoWork /\ reclear = FALSE
  /\ now = MaxInstant /\ child = "live" /\ breached = FALSE
  /\ covered = {1} /\ dropped = {} /\ deleted = FALSE /\ excused = FALSE /\ gaveUp = FALSE
  /\ failures = 0

(* Of the two jobs one may start unseen or be stopped by the agent.        *)
JobsBound == "k" \notin provisional' /\ ("k" \in killed' => "k" \in killed \cup releasing)

WorkInit ==
  /\ PoolInit
  /\ \/ focus \in {"pool", "session"} /\ JobsStill /\ SchedStill
     \/ focus = "jobs" /\ JobsInit /\ SchedStill
     \/ focus = "schedules" /\ JobsStill /\ SchedInit

WorkNext ==
  \/ focus \in {"pool", "session"} /\ PoolStep /\ UNCHANGED <<jobsVars, schedVars, focus>>
  \/ focus = "jobs" /\ JobsNext /\ JobsBound /\ UNCHANGED <<poolVars, schedVars, focus>>
  \/ focus = "schedules" /\ SchedNext /\ UNCHANGED <<poolVars, jobsVars, focus>>

WorkSpec ==
  /\ WorkInit /\ [][WorkNext]_<<poolVars, jobsVars, schedVars, focus>>
  /\ PoolFairness /\ JobsFairness /\ SchedFairness
=============================================================================

-------------------------------- MODULE Guard --------------------------------
(***************************************************************************)
(* The provider guard (pkg/routing/providerguard.go, providerhealth.go)    *)
(* and its log (pkg/ejection): which providers are kept out of routing, in *)
(* memory and after a restart.  One provider on one model line, and its    *)
(* operator ban, which covers every line.  mu is held for a step; opMu is  *)
(* held while "op" has steps left.  What counts as evidence is left out:   *)
(* an observation may always ban.  The no_cache rule, which files the      *)
(* provider by its display name, is left out too: its entries live a life  *)
(* of their own under that key.  An append that fails inserted nothing.    *)
(***************************************************************************)
EXTENDS Integers, Sequences, FiniteSets

CONSTANTS MaxReports, \* bound on the bans being reported at once
          MaxClock     \* bound on the clock

ASSUME GuardAssumption == MaxClock \in Nat /\ MaxReports \in Nat

VARIABLES
  ejected,   \* ProviderGuard.ejected, by key
  log,       \* the latest row of each key, the only one that is read
  op,        \* what the holder of opMu has still to do
  pend,      \* bans whose reportBan has not entered opMu
  clock,
  clean,     \* every append and every rehydration so far succeeded
  promise,   \* the operator ban last confirmed to its caller
  blind      \* the last start could not read the log, and no ban was stored since

guardVars == <<ejected, log, op, pend, clock, clean, promise, blind>>

(* The provider on the line, and on AllModelLines.                         *)
Keys == {"line", "*"}

Never  == MaxClock + 10        \* a zero ExpiresAt: until lifted
NoBan  == [reason |-> "none", exp |-> 0]
LiftOf == [reason |-> "lift", exp |-> clock]
Live(e) == e # NoBan /\ e.exp > clock

GuardInit ==
  /\ ejected = [k \in Keys |-> NoBan] /\ log = [k \in Keys |-> NoBan]
  /\ op = <<>> /\ pend = {} /\ clock = 0 /\ clean = TRUE /\ promise = NoBan /\ blind = FALSE

-----------------------------------------------------------------------------
(* The guard's own ejections.                                              *)

(* failureBanLocked and successBanLocked: memory first, unless an ejection *)
(* is live; the report follows without the lock.                           *)
Observe ==
  /\ ~Live(ejected["line"]) /\ Cardinality(pend) < MaxReports
  /\ \E e \in {[reason |-> "unavailable", exp |-> clock + 1],
                [reason |-> "structural", exp |-> clock + 2]} :
       /\ ejected' = [ejected EXCEPT !["line"] = e]
       /\ pend' = pend \cup {[key |-> "line", ban |-> e]}
  /\ UNCHANGED <<log, op, clock, clean, promise, blind>>

(* A step of an operation under opMu.  A failed append that "must" be made *)
(* is returned to the caller, the others are logged.                       *)
AppendStep(k, e, must) == [do |-> "append", key |-> k, ban |-> e, must |-> must]
PutStep(k, e)          == [do |-> "put", key |-> k, ban |-> e, must |-> TRUE]

ReportBan_unchecked(r) ==
  /\ op = <<>> /\ r \in pend
  /\ pend' = pend \ {r}
  /\ op' = <<AppendStep(r.key, r.ban, FALSE)>>
  /\ UNCHANGED <<ejected, log, clock, clean, promise, blind>>

(* A ban that was lifted or superseded meanwhile is not written.           *)
ReportBan(r) ==
  /\ op = <<>> /\ r \in pend
  /\ pend' = pend \ {r}
  /\ op' = IF ejected[r.key] = r.ban THEN <<AppendStep(r.key, r.ban, FALSE)>> ELSE <<>>
  /\ UNCHANGED <<ejected, log, clock, clean, promise, blind>>

-----------------------------------------------------------------------------
(* The operator's requests.                                                *)

Request(steps) ==
  /\ op = <<>>
  /\ op' = steps
  /\ UNCHANGED <<log, pend, clock, clean, promise, blind>>

(* The log is written first, and its failure returned.                     *)
Ban ==
  \E exp \in {clock + 1, Never} :
    LET e == [reason |-> "operator", exp |-> exp] IN
    /\ Request(<<AppendStep("*", e, TRUE), PutStep("*", e)>>)
    /\ UNCHANGED ejected

Lift ==
  /\ Live(ejected["*"])
  /\ Request(<<AppendStep("*", LiftOf, TRUE), PutStep("*", NoBan)>>)
  /\ UNCHANGED ejected

(* The other way round: memory, then the row.                              *)
LiftLine ==
  /\ Live(ejected["line"])
  /\ Request(<<AppendStep("line", LiftOf, FALSE)>>)
  /\ ejected' = [ejected EXCEPT !["line"] = NoBan]

Step == Head(op)

AppendRow ==
  /\ op # <<>> /\ Step.do = "append"
  /\ log' = [log EXCEPT ![Step.key] = Step.ban]
  /\ promise' = IF Step.key = "*" THEN NoBan ELSE promise
  /\ op' = Tail(op)
  /\ UNCHANGED <<ejected, pend, clock, clean, blind>>

AppendFails ==
  /\ op # <<>> /\ Step.do = "append"
  /\ op' = IF Step.must THEN <<>> ELSE Tail(op)
  /\ clean' = (clean /\ Step.must)
  /\ UNCHANGED <<ejected, log, pend, clock, promise, blind>>

ApplyBan ==
  /\ op # <<>> /\ Step.do = "put"
  /\ ejected' = [ejected EXCEPT ![Step.key] = Step.ban]
  /\ promise' = Step.ban /\ blind' = FALSE
  /\ op' = Tail(op)
  /\ UNCHANGED <<log, pend, clock, clean>>

-----------------------------------------------------------------------------
(* exclusionsLocked: expired entries go when a route is computed.          *)
Prune ==
  /\ ejected' = [k \in Keys |-> IF Live(ejected[k]) THEN ejected[k] ELSE NoBan]
  /\ UNCHANGED <<log, op, pend, clock, clean, promise, blind>>

Tick ==
  /\ clock < MaxClock
  /\ clock' = clock + 1
  /\ UNCHANGED <<ejected, log, op, pend, clean, promise, blind>>

Active_expiring(k) ==
  IF log[k].reason # "lift" /\ Live(log[k]) /\ log[k].exp < Never THEN log[k] ELSE NoBan

(* EjectionStore.Active: the latest row of the key, if it is in force.     *)
Active(k) == IF log[k].reason # "lift" /\ Live(log[k]) THEN log[k] ELSE NoBan

(* Rehydrate skips the short bans.                                         *)
Rehydrated(k) == IF Active(k).reason = "unavailable" THEN NoBan ELSE Active(k)

(* The log that cannot be read is logged, and the daemon starts without.   *)
Restart ==
  /\ pend' = {} /\ op' = <<>>
  /\ \/ ejected' = [k \in Keys |-> Rehydrated(k)] /\ blind' = FALSE /\ UNCHANGED clean
     \/ ejected' = [k \in Keys |-> NoBan] /\ blind' = TRUE /\ clean' = FALSE
  /\ UNCHANGED <<log, clock, promise>>

GuardNext ==
  \/ \E r \in pend : ReportBan(r)
  \/ Observe \/ Ban \/ Lift \/ LiftLine \/ AppendRow \/ AppendFails \/ ApplyBan
  \/ Prune \/ Tick \/ Restart

GuardSpec == GuardInit /\ [][GuardNext]_guardVars

-----------------------------------------------------------------------------
(* Properties.                                                             *)

(* While no append failed, a quiet guard and its log agree: a restart now  *)
(* would bring back the very bans that stand, but the short ones           *)
(* (providerhealth.go, reportBan: "so the log and the map cannot           *)
(* disagree").                                                             *)
LogAgrees ==
  clean /\ op = <<>> /\ pend = {} =>
    \A k \in Keys : Rehydrated(k) =
      IF Live(ejected[k]) /\ ejected[k].reason # "unavailable" THEN ejected[k] ELSE NoBan

(* A ban the operator was told had stuck stays the latest row of the log   *)
(* until it expires or is lifted, and keeps the provider out, whatever     *)
(* fails, is lifted automatically or restarts meanwhile.  A daemon that    *)
(* could not read its log at the start does without the ban until it       *)
(* starts again (providerguard.go, Ban; Rehydrate, "A failure is logged    *)
(* and swallowed").                                                        *)
OperatorStands ==
  op = <<>> /\ Live(promise) =>
    log["*"] = promise /\ (ejected["*"] = promise \/ blind)
=============================================================================

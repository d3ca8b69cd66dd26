-------------------------------- MODULE Fleet --------------------------------
(***************************************************************************)
(* One fundi child and the daemons that share its database: the write      *)
(* lease on its conversation (pkg/store/lease.go, lease_renew.go), its row *)
(* in conversations.child, boot recovery (load_children.go,                *)
(* pending_resume.go), and the life of its engines (controller.go: resume, *)
(* activate, kill, exit handling, close, shutdown).                        *)
(*                                                                         *)
(* An incarnation is one launch of the child: its in-process engine and    *)
(* the goroutines that watch it.  Everything a daemon keeps about the      *)
(* child is keyed by the child's id, not by the incarnation: the store     *)
(* entry, the manager's slot, the tracked lease.  The exit handler of one  *)
(* incarnation and the start of the next can therefore meet.               *)
(*                                                                         *)
(* Time is abstract: a lease lapses and a row ages in steps of their own.  *)
(***************************************************************************)
EXTENDS Integers, FiniteSets

CONSTANTS Daemons,   \* daemon identities (RAFIKI_DAEMON_ID), one database
          MaxInc,    \* incarnations that can exist at one time
          Adverse,   \* the adverse events this instance lets happen
          MaxHits    \* bound on how often they happen

Incs   == 1..MaxInc
Nobody == "nobody"
Events == {"crash",     \* a daemon dies
           "stop",      \* a daemon is shut down
           "pause",     \* a live daemon's lease lapses: five renewals failed
           "error",     \* one renewal fails
           "fatal",     \* an engine dies on its own
           "kill",      \* an operator kills the child
           "resume",    \* an operator resumes it
           "close",     \* it is closed, by hand or by the grace timer
           "impatient", \* a resume or a close may come before the exit is over
           "foreign",   \* a resume may name a child another daemon runs
           "slow",      \* an exit and a resume fit into one renewal pass
           "stall",     \* an engine needs more than five seconds to build
           "pend",      \* recovery may have to wait for an executor
           "query",     \* a query of a boot or of a launch fails
           "store"}     \* writes of the child's row may fail, each of them

ASSUME FleetAssumption ==
  /\ Nobody \notin Daemons
  /\ MaxInc \in Nat \ {0} /\ MaxHits \in Nat
  /\ Adverse \subseteq Events

VARIABLES
  lease,    \* the lease row: token (0: no row), holder, unexpired
  minted,   \* tokens minted so far
  row,      \* the child's row: owner, status, written within the grace, closed
  inbox,    \* the incarnation the inbox's row in flight was sent to, or 0
  dm,       \* per daemon: what it keeps in memory (Off: nothing)
  inc,      \* per incarnation: its daemon, phase, token, monitor, exit step
  wrote,    \* the token of the last committed conversation write
  ended,    \* the child was ended while its daemon lived to record it
  hits      \* adverse events so far

vars == <<lease, minted, row, inbox, dm, inc, wrote, ended, hits>>

Row  == [owner : Daemons, status : {"live", "exited"}, fresh : BOOLEAN, closed : BOOLEAN]
Tok  == Nat

(* up: the process.  rec, leased: the row and whether its lease was live,  *)
(* as the boot walk read them.  st, label: the store entry.  cm: the        *)
(* manager's slot.  held: heldLeases.  start, how: the launch in flight and *)
(* who asked for it (spawnClaims holds the child while a resume is).  pend: *)
(* pendingResumes.  rpc, ren: the renewal pass.                             *)
Off(r) == [up |-> "down", rec |-> r, leased |-> FALSE,
           st |-> "absent", label |-> Nobody, cm |-> 0,
           held |-> 0, start |-> 0, how |-> "spawn", pend |-> FALSE,
           rpc |-> "idle", ren |-> 0]

NoInc == [d |-> Nobody, phase |-> "gone", tok |-> 0, mon |-> FALSE, x |-> "none"]

Hit(e) == e \in Adverse /\ hits < MaxHits /\ hits' = hits + 1

Running(i) == inc[i].phase = "running"
Alive(i)   == inc[i].phase \in {"building", "running"}

(* The engine the database would let write.                                *)
Owner(i) == Running(i) /\ inc[i].tok = lease.tok

Up(d)      == dm[d].up = "up"
Serving(d) == dm[d].up \in {"up", "stopping"}
Claimed(d) == dm[d].start # 0 /\ dm[d].how # "spawn"

-----------------------------------------------------------------------------
(* The database.                                                           *)

NoLease == [tok |-> 0, holder |-> Nobody, live |-> FALSE]

(* Acquire: a free, lapsed or own lease is taken under a new token.        *)
Acquirable(d) == lease.tok = 0 \/ ~lease.live \/ lease.holder = d

(* fenceLease, inside the transaction of every conversation write.         *)
Fenced_unfenced(i) == FALSE
Fenced(i) == ~(lease.tok = inc[i].tok /\ lease.live)

(* A write of the row fails: whoever wrote it logs that and goes on.       *)
Unwritten == "store" \in Adverse /\ row' = row

(* writeRecord: the daemon's whole view of the child, upserted as its own; *)
(* a child gone from its store leaves nothing to write.                    *)
Upsert(d, status) == [owner |-> d, status |-> status, fresh |-> TRUE, closed |-> FALSE]

WriteRecord(d, status) ==
  \/ row' = IF status = "absent" THEN row ELSE Upsert(d, status)
  \/ Unwritten

Labelled(d, status) == IF status = "absent" THEN dm[d].label ELSE d

-----------------------------------------------------------------------------
(* The child runs under one daemon, or was spawned there a moment ago and  *)
(* its engine still builds; the other daemons are down.                    *)
Init ==
  \E d \in Daemons : \E built \in BOOLEAN :
    /\ lease = IF built THEN [tok |-> 1, holder |-> d, live |-> TRUE] ELSE NoLease
    /\ minted = IF built THEN 1 ELSE 0
    /\ row = Upsert(d, "live")
    /\ inbox = 0
    /\ dm = [e \in Daemons |->
               IF e # d THEN Off(row)
               ELSE [Off(row) EXCEPT !.up = "up", !.st = "live", !.label = d, !.cm = 1,
                                     !.held = minted, !.start = IF built THEN 0 ELSE 1]]
    /\ inc = [i \in Incs |->
                IF i # 1 THEN NoInc
                ELSE [d |-> d, phase |-> IF built THEN "running" ELSE "building",
                      tok |-> minted, mon |-> built, x |-> "none"]]
    /\ wrote = 0 /\ ended = FALSE /\ hits = 0

-----------------------------------------------------------------------------
(* Boot: loadChildren.                                                     *)

BootList(d) ==
  /\ dm[d].up = "down"
  /\ dm' = [dm EXCEPT ![d] = [Off(row) EXCEPT !.up = "boot", !.leased = lease.live]]
  /\ UNCHANGED <<lease, minted, row, inbox, inc, wrote, ended, hits>>

(* The children cannot be listed: the store stays empty.  Or the leases    *)
(* cannot be read: the child is loaded as exited, and nobody resumes it.   *)
BootFails(d) ==
  /\ dm[d].up = "boot" /\ Hit("query")
  /\ \/ dm' = [dm EXCEPT ![d].up = "up", ![d].leased = FALSE]
     \/ /\ ~dm[d].rec.closed
        /\ dm' = [dm EXCEPT ![d].up = "up", ![d].leased = FALSE, ![d].st = "exited",
                            ![d].label = dm[d].rec.owner]
  /\ UNCHANGED <<lease, minted, row, inbox, inc, wrote, ended>>

(* recoveryOwnership, from the row and the lease as the walk read them.    *)
Ownership(d) ==
  LET rec == dm[d].rec
  IN  CASE rec.owner = d -> "ownedByMe"
        [] rec.owner # d /\ (dm[d].leased \/ rec.fresh) -> "foreignLive"
        [] OTHER -> "foreignLapsed"

(* Whether adoptOwnership stamped the row of a lapsed child as d's own.    *)
Adopts(d) == IF Ownership(d) # "foreignLapsed" THEN {FALSE}
             ELSE IF "store" \in Adverse THEN BOOLEAN ELSE {TRUE}

(* recoverOne.  A foreign live child is listed and left alone; a lapsed    *)
(* one is adopted on disk; a row that says exited is loaded with its       *)
(* unconfirmed inbox rows reset; any other is resumed, its claim taken     *)
(* before the walk goes on.                                                *)
RecoveredEntry(d, adopted) ==
  [dm[d] EXCEPT !.up = "up", !.leased = FALSE, !.st = "exited",
                !.label = IF adopted THEN d ELSE dm[d].rec.owner]

RecoverAs(d, adopted) ==
  LET rec   == dm[d].rec
      mine  == Ownership(d) # "foreignLive"
      entry == RecoveredEntry(d, adopted)
  IN  IF rec.closed
        THEN /\ dm' = [dm EXCEPT ![d].up = "up", ![d].leased = FALSE]
             /\ UNCHANGED <<row, inbox, inc>>
        ELSE /\ row' = IF adopted /\ ~row.closed
                         THEN [row EXCEPT !.owner = d, !.fresh = TRUE] ELSE row
             /\ IF mine /\ rec.status # "exited"
                  THEN /\ UNCHANGED inbox
                       /\ \E i \in Incs :
                            /\ inc[i].phase = "gone"
                            /\ inc' = [inc EXCEPT ![i] = [NoInc EXCEPT !.d = d, !.phase = "building"]]
                            /\ dm' = [dm EXCEPT ![d] = [entry EXCEPT !.start = i, !.how = "auto"]]
                  ELSE /\ inbox' = IF mine THEN 0 ELSE inbox
                       /\ dm' = [dm EXCEPT ![d] = entry]
                       /\ UNCHANGED inc

Recover(d) ==
  /\ dm[d].up = "boot"
  /\ \E adopted \in Adopts(d) : RecoverAs(d, adopted)
  /\ UNCHANGED <<lease, minted, wrote, ended, hits>>

-----------------------------------------------------------------------------
(* Starting an engine: resumeClaimed, the build, activateLiveChild.        *)

Resume_unclaimed(d) ==
  /\ Serving(d) /\ dm[d].st = "exited"
  /\ "impatient" \notin Adverse => dm[d].cm = 0
  /\ "foreign" \notin Adverse => dm[d].label = d
  /\ Hit("resume")
  /\ \E i \in Incs :
       /\ inc[i].phase = "gone"
       /\ inc' = [inc EXCEPT ![i] = [NoInc EXCEPT !.d = d, !.phase = "building"]]
       /\ dm' = [dm EXCEPT ![d].start = i, ![d].how = "manual"]
  /\ UNCHANGED <<lease, minted, row, inbox, wrote, ended>>

(* resumeClaimed looks at the claim and at the store's status only.  A     *)
(* patient operator resumes once the old process is out of the manager,    *)
(* and on the daemon the child belongs to.                                 *)
Resume(d) ==
  /\ Serving(d) /\ dm[d].st = "exited" /\ dm[d].start = 0
  /\ "impatient" \notin Adverse => dm[d].cm = 0
  /\ "foreign" \notin Adverse => dm[d].label = d
  /\ Hit("resume")
  /\ \E i \in Incs :
       /\ inc[i].phase = "gone"
       /\ inc' = [inc EXCEPT ![i] = [NoInc EXCEPT !.d = d, !.phase = "building"]]
       /\ dm' = [dm EXCEPT ![d].start = i, ![d].how = "manual"]
  /\ UNCHANGED <<lease, minted, row, inbox, wrote, ended>>

(* A resumed child's MCP server lives on an executor that is not connected *)
(* yet: the recovery is parked.                                            *)
Pend(d) ==
  /\ dm[d].how = "auto" /\ dm[d].start # 0 /\ inc[dm[d].start].phase = "building" /\ Hit("pend")
  /\ inc' = [inc EXCEPT ![dm[d].start] = NoInc]
  /\ dm' = [dm EXCEPT ![d].start = 0, ![d].pend = TRUE]
  /\ UNCHANGED <<lease, minted, row, inbox, wrote, ended>>

(* sweepPendingResumes on an executor's connect.  A child that is not      *)
(* exited any more fails the resume, and the failure drops the lease.      *)
SweepPending(d) ==
  /\ Up(d) /\ dm[d].pend /\ dm[d].start = 0
  /\ IF dm[d].st = "exited"
       THEN \E i \in Incs :
              /\ inc[i].phase = "gone"
              /\ inc' = [inc EXCEPT ![i] = [NoInc EXCEPT !.d = d, !.phase = "building"]]
              /\ dm' = [dm EXCEPT ![d].pend = FALSE, ![d].start = i, ![d].how = "auto"]
       ELSE /\ dm' = [dm EXCEPT ![d].pend = FALSE, ![d].held = 0]
            /\ UNCHANGED inc
  /\ UNCHANGED <<lease, minted, row, inbox, wrote, ended, hits>>

OnConversationResolved_untracked(d) ==
  /\ minted' = minted + 1
  /\ lease' = [tok |-> minted + 1, holder |-> d, live |-> TRUE]
  /\ WriteRecord(d, dm[d].st)
  /\ inbox' = 0
  /\ dm' = [dm EXCEPT ![d].label = Labelled(d, dm[d].st)]

(* OnConversationResolved: acquire, track, record the conversation on the  *)
(* row (with whatever status the store has), reset the inbox.              *)
OnConversationResolved(d) ==
  /\ minted' = minted + 1
  /\ lease' = [tok |-> minted + 1, holder |-> d, live |-> TRUE]
  /\ WriteRecord(d, dm[d].st)
  /\ inbox' = 0
  /\ dm' = [dm EXCEPT ![d].held = minted + 1, ![d].label = Labelled(d, dm[d].st)]

Build(i) ==
  /\ inc[i].phase = "building" /\ Acquirable(inc[i].d)
  /\ "slow" \notin Adverse => dm[inc[i].d].rpc = "idle"
  /\ OnConversationResolved(inc[i].d)
  /\ inc' = [inc EXCEPT ![i].phase = "running", ![i].tok = minted + 1]
  /\ ended' = FALSE
  /\ UNCHANGED <<wrote, hits>>

(* Another daemon holds a live lease: the engine is never started.         *)
BuildRefused(i) ==
  /\ inc[i].phase = "building" /\ ~Acquirable(inc[i].d)
  /\ inc' = [inc EXCEPT ![i].phase = "dead"]
  /\ UNCHANGED <<lease, minted, row, inbox, dm, wrote, ended, hits>>

(* The lease cannot be acquired, or was and a later query of the build     *)
(* fails: the engine is never started.                                     *)
AcquireFails(i) ==
  /\ inc[i].phase = "building" /\ Hit("query")
  /\ inc' = [inc EXCEPT ![i].phase = "dead"]
  /\ UNCHANGED <<lease, minted, row, inbox, dm, wrote, ended>>

BuildFails(i) ==
  /\ inc[i].phase = "building" /\ Acquirable(inc[i].d) /\ Hit("query")
  /\ "slow" \notin Adverse => dm[inc[i].d].rpc = "idle"
  /\ OnConversationResolved(inc[i].d)
  /\ inc' = [inc EXCEPT ![i].phase = "dead"]
  /\ UNCHANGED <<wrote, ended>>

Activate_unwritten(d) ==
  LET i  == dm[d].start
      st == IF i # 0 /\ inc[i].phase = "dead" THEN "exited" ELSE "live"
      to == IF dm[d].how = "spawn" THEN dm[d].st ELSE st
  IN  /\ i # 0
      /\ inc[i].phase \in {"running", "dead"} \/ (inc[i].phase = "building" /\ "stall" \in Adverse)
      /\ UNCHANGED row
      /\ dm' = [dm EXCEPT ![d].st = to, ![d].start = 0, ![d].label = Labelled(d, to),
                          ![d].cm = IF dm[d].how = "spawn" THEN @ ELSE i]
      /\ inc' = [inc EXCEPT ![i].mon = TRUE]
      /\ UNCHANGED <<lease, minted, inbox, wrote, ended, hits>>

Activate_unslotted(d) ==
  LET i  == dm[d].start
      st == IF i # 0 /\ inc[i].phase = "dead" THEN "exited" ELSE "live"
      to == IF dm[d].how = "spawn" THEN dm[d].st ELSE st
  IN  /\ i # 0
      /\ inc[i].phase \in {"running", "dead"} \/ (inc[i].phase = "building" /\ "stall" \in Adverse)
      /\ WriteRecord(d, to)
      /\ dm' = [dm EXCEPT ![d].st = to, ![d].start = 0, ![d].label = Labelled(d, to)]
      /\ inc' = [inc EXCEPT ![i].mon = TRUE]
      /\ UNCHANGED <<lease, minted, inbox, wrote, ended, hits>>

(* activateLiveChild: the engine is idle, or five seconds have passed.  A  *)
(* resume replaces the exited entry and takes the manager's slot here; a   *)
(* spawn did both when it forked.                                          *)
Activate(d) ==
  LET i  == dm[d].start
      st == IF i # 0 /\ inc[i].phase = "dead" THEN "exited" ELSE "live"
      to == IF dm[d].how = "spawn" THEN dm[d].st ELSE st
  IN  /\ i # 0
      /\ inc[i].phase \in {"running", "dead"} \/ (inc[i].phase = "building" /\ "stall" \in Adverse)
      /\ WriteRecord(d, to)
      /\ dm' = [dm EXCEPT ![d].st = to, ![d].start = 0, ![d].label = Labelled(d, to),
                          ![d].cm = IF dm[d].how = "spawn" THEN @ ELSE i]
      /\ inc' = [inc EXCEPT ![i].mon = TRUE]
      /\ UNCHANGED <<lease, minted, inbox, wrote, ended, hits>>

-----------------------------------------------------------------------------
(* A running engine.                                                       *)

Write(i) ==
  /\ Running(i) /\ ~Fenced(i) /\ wrote # inc[i].tok
  /\ wrote' = inc[i].tok
  /\ UNCHANGED <<lease, minted, row, inbox, dm, inc, ended, hits>>

(* deliverInbox hands a row to the engine in the manager's slot.           *)
Deliver(i) ==
  /\ Running(i) /\ inc[i].mon /\ dm[inc[i].d].cm = i /\ dm[inc[i].d].st = "live"
  /\ inbox = 0
  /\ inbox' = i
  /\ UNCHANGED <<lease, minted, row, dm, inc, wrote, ended, hits>>

(* handleStatusChange ends every transition with writeRecord (which may    *)
(* fail; then nothing has changed here).                                   *)
StatusChange(i) ==
  LET d == inc[i].d
  IN  /\ Running(i) /\ inc[i].mon /\ dm[d].st = "live"
      /\ row # Upsert(d, "live")
      /\ row' = Upsert(d, "live")
      /\ UNCHANGED <<lease, minted, inbox, dm, inc, wrote, ended, hits>>

Fatal(i) ==
  /\ Running(i) /\ inc[i].mon /\ Hit("fatal")
  /\ inc' = [inc EXCEPT ![i].phase = "dead"]
  /\ ended' = (ended \/ Owner(i))
  /\ UNCHANGED <<lease, minted, row, inbox, dm, wrote>>

(* Kill: the child in the manager's slot goes to shutting_down, which is   *)
(* written, and is reaped.                                                 *)
Reap(d) ==
  LET i == dm[d].cm
  IN  IF i = 0 \/ ~Alive(i)
        THEN UNCHANGED <<row, inc>>
        ELSE /\ \/ row' = IF dm[d].st = "live" THEN Upsert(d, "live") ELSE row
                \/ Unwritten
             /\ inc' = [inc EXCEPT ![i].phase = "dead"]

Kill(d) ==
  /\ Up(d) /\ dm[d].cm # 0 /\ Alive(dm[d].cm) /\ Hit("kill")
  /\ Reap(d)
  /\ dm' = [dm EXCEPT ![d].pend = FALSE]
  /\ ended' = (ended \/ Owner(dm[d].cm) \/ inc[dm[d].cm].phase = "building")
  /\ UNCHANGED <<lease, minted, inbox, wrote>>

-----------------------------------------------------------------------------
(* handleChildExit, step by step.  Its first step makes the child          *)
(* resumable; every later one is keyed by the child's id.                  *)

Exiting(i) == inc[i].phase = "dead" /\ inc[i].mon

MarkExited(i) ==
  LET d == inc[i].d
  IN  /\ Exiting(i) /\ inc[i].x = "none"
      /\ dm' = [dm EXCEPT ![d].st = IF @ = "absent" THEN @ ELSE "exited"]
      /\ inc' = [inc EXCEPT ![i].x = "row"]
      /\ UNCHANGED <<lease, minted, row, inbox, wrote, ended, hits>>

ExitRow_stopping(i) ==
  LET d == inc[i].d
  IN  /\ inc[i].x = "row"
      /\ WriteRecord(d, dm[d].st)
      /\ dm' = [dm EXCEPT ![d].label = Labelled(d, dm[d].st)]
      /\ inc' = [inc EXCEPT ![i].x = "inbox"]
      /\ UNCHANGED <<lease, minted, inbox, wrote, ended, hits>>

(* Not during the daemon's own shutdown: the row must go on saying live.   *)
ExitRow(i) ==
  LET d == inc[i].d
  IN  /\ inc[i].x = "row"
      /\ IF dm[d].up = "stopping"
           THEN UNCHANGED <<row, dm>>
           ELSE /\ WriteRecord(d, dm[d].st)
                /\ dm' = [dm EXCEPT ![d].label = Labelled(d, dm[d].st)]
      /\ inc' = [inc EXCEPT ![i].x = "inbox"]
      /\ UNCHANGED <<lease, minted, inbox, wrote, ended, hits>>

(* releaseInboxOnExit, for a daemon that holds the lease as far as it      *)
(* knows.                                                                  *)
ExitInbox(i) ==
  /\ inc[i].x = "inbox"
  /\ inbox' = IF dm[inc[i].d].held # 0 THEN 0 ELSE inbox
  /\ inc' = [inc EXCEPT ![i].x = "lease"]
  /\ UNCHANGED <<lease, minted, row, dm, wrote, ended, hits>>

Released(d) == IF dm[d].held # 0 /\ dm[d].held = lease.tok THEN NoLease ELSE lease

ExitLease(i) ==
  LET d == inc[i].d
  IN  /\ inc[i].x = "lease"
      /\ lease' = Released(d)
      /\ dm' = [dm EXCEPT ![d].held = 0]
      /\ inc' = [inc EXCEPT ![i].x = "remove"]
      /\ UNCHANGED <<minted, row, inbox, wrote, ended, hits>>

ExitRemove(i) ==
  /\ inc[i].x = "remove"
  /\ dm' = [dm EXCEPT ![inc[i].d].cm = 0]
  /\ inc' = [inc EXCEPT ![i] = NoInc]
  /\ UNCHANGED <<lease, minted, row, inbox, wrote, ended, hits>>

ExitStep(i) == MarkExited(i) \/ ExitRow(i) \/ ExitInbox(i) \/ ExitLease(i) \/ ExitRemove(i)

-----------------------------------------------------------------------------
(* Lease renewal.                                                          *)

RenewSnapshot(d) ==
  /\ Up(d) /\ dm[d].rpc = "idle" /\ dm[d].held # 0
  /\ dm' = [dm EXCEPT ![d].rpc = "renew", ![d].ren = dm[d].held]
  /\ UNCHANGED <<lease, minted, row, inbox, inc, wrote, ended, hits>>

(* Renew extends the lease whose token it is, lapsed or not.               *)
Renew(d) ==
  /\ dm[d].rpc = "renew"
  /\ IF lease.tok = dm[d].ren
       THEN /\ lease' = [lease EXCEPT !.live = TRUE]
            /\ dm' = [dm EXCEPT ![d].rpc = "idle", ![d].ren = 0]
       ELSE /\ dm' = [dm EXCEPT ![d].rpc = "lost"]
            /\ UNCHANGED lease
  /\ UNCHANGED <<minted, row, inbox, inc, wrote, ended, hits>>

(* A failed renewal is no answer: the lease is kept for the next pass.     *)
RenewError(d) ==
  /\ dm[d].rpc = "renew" /\ Hit("error")
  /\ dm' = [dm EXCEPT ![d].rpc = "idle", ![d].ren = 0]
  /\ UNCHANGED <<lease, minted, row, inbox, inc, wrote, ended>>

DropLost_killsFirst(d) ==
  /\ dm[d].rpc = "lost"
  /\ dm' = [dm EXCEPT ![d].ren = 0,
                      ![d].rpc = IF dm[d].st = "absent" THEN "idle" ELSE "kill"]
  /\ UNCHANGED <<lease, minted, row, inbox, inc, wrote, ended, hits>>

(* onLeaseLost: first forget the lease, then kill.                         *)
DropLost(d) ==
  /\ dm[d].rpc = "lost"
  /\ dm' = [dm EXCEPT ![d].held = 0, ![d].ren = 0,
                      ![d].rpc = IF dm[d].st = "absent" THEN "idle" ELSE "kill"]
  /\ UNCHANGED <<lease, minted, row, inbox, inc, wrote, ended, hits>>

KillLost_skips(d) ==
  /\ dm[d].rpc = "kill"
  /\ dm' = [dm EXCEPT ![d].rpc = "idle", ![d].pend = FALSE]
  /\ UNCHANGED <<lease, minted, row, inbox, inc, wrote, ended, hits>>

KillLost(d) ==
  /\ dm[d].rpc = "kill"
  /\ Reap(d)
  /\ dm' = [dm EXCEPT ![d].rpc = "idle", ![d].pend = FALSE]
  /\ UNCHANGED <<lease, minted, inbox, wrote, ended, hits>>

RenewStep(d) == RenewSnapshot(d) \/ Renew(d) \/ DropLost(d) \/ KillLost(d)

(* The lease of a dead daemon runs out; that of a live one only if five    *)
(* renewals in a row fail, which takes longer than any launch.             *)
Lapse ==
  /\ lease.tok # 0 /\ lease.live
  /\ \/ dm[lease.holder].up = "down" /\ UNCHANGED hits
     \/ dm[lease.holder].up # "down" /\ dm[lease.holder].start = 0 /\ Hit("pause")
  /\ lease' = [lease EXCEPT !.live = FALSE]
  /\ UNCHANGED <<minted, row, inbox, dm, inc, wrote, ended>>

(* foreignFreshGrace passes since the row's last write.  It is longer than *)
(* any launch or exit of a daemon that is alive.                           *)
Age ==
  /\ row.fresh
  /\ \A d \in Daemons : dm[d].start = 0
  /\ \A i \in Incs : inc[i].phase # "dead"
  /\ row' = [row EXCEPT !.fresh = FALSE]
  /\ UNCHANGED <<lease, minted, inbox, dm, inc, wrote, ended, hits>>

-----------------------------------------------------------------------------
(* Close, shutdown and crash.                                              *)

(* ownsChildRow reads the label of the local entry.  An owner's close      *)
(* drops the inbox and tombstones the row; it is refused if the row cannot *)
(* be written first, and goes through if the tombstone cannot.             *)
Close(d) ==
  /\ Serving(d) /\ dm[d].st = "exited"
  /\ "impatient" \notin Adverse => dm[d].cm = 0 /\ dm[d].start = 0
  /\ Hit("close")
  /\ IF dm[d].label \in {Nobody, d}
       THEN /\ \/ row' = [Upsert(d, "exited") EXCEPT !.closed = TRUE]
               \/ "store" \in Adverse /\ row' = Upsert(d, "exited")
            /\ inbox' = 0
       ELSE UNCHANGED <<row, inbox>>
  /\ dm' = [dm EXCEPT ![d].st = "absent", ![d].label = Nobody, ![d].pend = FALSE]
  /\ UNCHANGED <<lease, minted, inc, wrote, ended>>

(* ShutdownAllChildren latches stopping, then takes every live child down  *)
(* the kill ladder.  The renewal pass is cancelled before.                 *)
Stop(d) ==
  /\ Up(d) /\ Hit("stop")
  /\ Reap(d)
  /\ dm' = [dm EXCEPT ![d].up = "stopping", ![d].rpc = "idle", ![d].ren = 0]
  /\ UNCHANGED <<lease, minted, inbox, wrote, ended>>

Vanish(d) == [i \in Incs |-> IF inc[i].d = d THEN NoInc ELSE inc[i]]

(* The children are down, or the drain's deadline passed: the leases still *)
(* held are released and the process ends.                                 *)
Halt(d) ==
  /\ dm[d].up = "stopping"
  /\ lease' = Released(d)
  /\ dm' = [dm EXCEPT ![d] = Off(dm[d].rec)]
  /\ inc' = Vanish(d)
  /\ UNCHANGED <<minted, row, inbox, wrote, ended, hits>>

Crash(d) ==
  /\ dm[d].up # "down" /\ Hit("crash")
  /\ dm' = [dm EXCEPT ![d] = Off(dm[d].rec)]
  /\ inc' = Vanish(d)
  /\ UNCHANGED <<lease, minted, row, inbox, wrote, ended>>

-----------------------------------------------------------------------------
Next ==
  \/ \E d \in Daemons : \/ BootList(d) \/ BootFails(d) \/ Recover(d)
                        \/ Resume(d) \/ Pend(d) \/ SweepPending(d) \/ Activate(d) \/ Kill(d)
                        \/ RenewStep(d) \/ RenewError(d)
                        \/ Close(d) \/ Stop(d) \/ Halt(d) \/ Crash(d)
  \/ \E i \in Incs : \/ Build(i) \/ BuildRefused(i) \/ AcquireFails(i) \/ BuildFails(i)
                     \/ Write(i) \/ Deliver(i) \/ StatusChange(i) \/ Fatal(i)
                     \/ ExitStep(i)
  \/ Lapse \/ Age

Spec == Init /\ [][Next]_vars

(* Goroutines run and the service manager restarts a daemon that is down.  *)
(* Nobody has to resume, close, kill or stop anything.                     *)
Fairness ==
  /\ \A d \in Daemons : /\ WF_vars(BootList(d)) /\ WF_vars(Recover(d)) /\ WF_vars(Activate(d))
                        /\ WF_vars(SweepPending(d)) /\ WF_vars(RenewStep(d)) /\ WF_vars(Halt(d))
  /\ \A i \in Incs : WF_vars(Build(i)) /\ WF_vars(BuildRefused(i)) /\ WF_vars(ExitStep(i))

FairSpec == Spec /\ Fairness
-----------------------------------------------------------------------------
(* Properties.                                                             *)

LeaseOK == lease \in [tok : Tok, holder : Daemons \cup {Nobody}, live : BOOLEAN]

Memory ==
  [up : {"down", "boot", "up", "stopping"}, rec : Row, leased : BOOLEAN,
   st : {"absent", "live", "exited"}, label : Daemons \cup {Nobody}, cm : 0..MaxInc,
   held : Tok, start : 0..MaxInc, how : {"spawn", "manual", "auto"}, pend : BOOLEAN,
   rpc : {"idle", "renew", "lost", "kill"}, ren : Tok]

Launch ==
  [d : Daemons \cup {Nobody}, phase : {"gone", "building", "running", "dead"}, tok : Tok,
   mon : BOOLEAN, x : {"none", "row", "inbox", "lease", "remove"}]

(* What the database and the daemons may hold.                             *)
FleetTypeOK ==
  /\ LeaseOK /\ dm \in [Daemons -> Memory] /\ inc \in [Incs -> Launch]
  /\ minted \in Nat /\ row \in Row /\ inbox \in 0..MaxInc
  /\ wrote \in Tok /\ ended \in BOOLEAN /\ hits \in Nat

(* Conversation writes are committed in the order their leases were        *)
(* acquired: no engine writes once a later one has, whoever paused, died   *)
(* or was taken over in between (pkg/store/tree.go, fenceLease).           *)
WritesInOrder == [][wrote' >= wrote]_vars

(* One daemon never runs two engines of the child, however resume, boot    *)
(* recovery, a late exit and a kill interleave (controller.go,             *)
(* childClaimSet): with an operator who waits for an exit to be over, or a *)
(* daemon alone in the database no launch of which fails on a query.       *)
(* Otherwise a failed launch is listed as exited before its exit handler   *)
(* has run, and the handler can mark the next launch exited.               *)
OneEngine ==
  \A i, j \in Incs : Alive(i) /\ Alive(j) /\ inc[i].d = inc[j].d => i = j

(* The manager's slot holds the engine that runs: it can be reached by a   *)
(* send, a kill and the daemon's shutdown (child_manager.go).              *)
SlotHeld ==
  \A i \in Incs : Alive(i) /\ inc[i].mon => dm[inc[i].d].cm = i

(* The engine that may write has its lease renewed, or is being killed: no *)
(* healthy child's lease is left to lapse (lease_renew.go, dropLease).     *)
Tracked ==
  \A i \in Incs : Owner(i) /\ inc[i].mon =>
    dm[inc[i].d].held = inc[i].tok \/ dm[inc[i].d].rpc = "kill"

(* The inbox row in flight to the engine that owns the conversation is not *)
(* taken from it by anyone else's exit, boot or close (controller.go,      *)
(* handleChildExit's lease gate; load_children.go, foreignLive).           *)
InFlight ==
  [][\A i \in Incs : inbox = i /\ inbox' # i => ~(Owner(i) /\ Owner(i)')]_vars

(* The engine that owns the conversation has a row a restart would resume: *)
(* not exited and not closed (controller.go, ownsChildRow and Close),      *)
(* while writes of the row succeed: one that fails at the activation is    *)
(* only logged, and the row goes on saying what it said.                   *)
RowTruth ==
  \A i \in Incs : Owner(i) /\ inc[i].mon => row.status = "live" /\ ~row.closed

(* A child nobody ended is not lost: with every daemon down, its row is    *)
(* one the next boot resumes (load_children.go, shouldAutoResume).         *)
NoChildLost ==
  (\A d \in Daemons : dm[d].up = "down") /\ ~ended => row.status = "live" \/ row.closed

(* An engine that lost its lease to another stops (lease_renew.go,         *)
(* onLeaseLost).                                                           *)
FencedStops ==
  \A i \in Incs : (Running(i) /\ inc[i].tok # lease.tok /\ lease.tok # 0) ~> ~Running(i)

(* A child nobody ended runs again after a crash, a shutdown, a lapsed     *)
(* lease or a failed renewal, whichever writes of its row fail             *)
(* (load_children.go, loadChildren).  Not after a failed query of the boot *)
(* or of the launch itself: then it waits for an operator's resume or the  *)
(* next restart, if the row still says live.                               *)
RunsAgain == []<>(ended \/ row.closed \/ \E i \in Incs : Owner(i) /\ inc[i].mon)
=============================================================================

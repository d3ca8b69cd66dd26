------------------------------ MODULE ExecPool ------------------------------
(***************************************************************************)
(* pkg/execpool: the executors connected to the daemon.  A durable one,    *)
(* Exec, has a database row and a credential, may reconnect and is parked  *)
(* while it is away; a transient one belongs to a terminal's session, has  *)
(* a one-shot ticket and is evicted with the session                       *)
(* (cmd/rafikid/session_executor.go).  A step holds the pool's lock once:  *)
(* probing, shutting a connection down and parking happen outside it.      *)
(* Draining, labels and the calls an executor serves are left out.         *)
(***************************************************************************)
EXTENDS Integers

CONSTANTS Exec,       \* the durable executor's id
          Sessions,   \* ids of transient executors
          Conns,      \* connection attempts
          IdOf,       \* the id each attempt authenticates as
          NoConn,     \* no connection, no session
          MaxFlips    \* bound on the changes of the executor's row

ASSUME PoolAssumption ==
  /\ Exec \notin Sessions /\ MaxFlips \in Nat
  /\ IdOf \in [Conns -> Sessions \cup {Exec}]
  /\ NoConn \notin Conns /\ NoConn \notin Sessions

VARIABLES
  live,       \* Pool.live
  parked,     \* ids in Pool.parked
  evicted,    \* ids in Pool.evicted, the tombstones of transient executors
  losing,     \* expired parks whose onLost callback has not run yet
  told,       \* ids whose children HandleExecutorLost has dealt with
  serve,      \* where the goroutine that serves each connection is
  health,     \* and its healthLoop
  alive,      \* the peer still answers on the connection
  seen,       \* the incumbent admit read before it probes it
  closing,    \* connections some goroutine is about to shut down
  done,       \* connections whose done channel is closed
  row,        \* the executor's row says enabled
  flips,      \* changes of the row so far
  removed,    \* the executor's owner was removed
  leaving,    \* ids on their way out: "no", "revoke" the ticket, "evict"
  tickets,    \* unredeemed tickets, by the id they grant
  opened,     \* sessions ever opened
  held,       \* sessionExecs of the one session key
  over,       \* that key's context has ended
  watchers    \* goroutines that wait for it

connVars    == <<serve, health, alive, seen, closing, done>>
sessionVars == <<tickets, opened, held, over, watchers>>
rowVars     == <<row, flips, removed>>
poolVars    == <<live, parked, evicted, losing, told, connVars, rowVars, leaving, sessionVars>>

Ids == Sessions \cup {Exec}
Transient(c) == IdOf[c] \in Sessions

PoolInit ==
  /\ live = [i \in Ids |-> NoConn] /\ parked = {} /\ evicted = {} /\ losing = {} /\ told = {}
  /\ serve = [c \in Conns |-> "idle"] /\ health = [c \in Conns |-> "off"]
  /\ alive = [c \in Conns |-> TRUE] /\ seen = [c \in Conns |-> NoConn]
  /\ closing = {} /\ done = {}
  /\ row = TRUE /\ flips = 0 /\ removed = FALSE
  /\ leaving = [i \in Ids |-> "no"]
  /\ tickets = {} /\ opened = {} /\ held = NoConn /\ over = FALSE /\ watchers = 0

-----------------------------------------------------------------------------
(* Joining: authorize, admit, serve up to the select.                      *)

(* A ticket redeems once; a credential authenticates while its row is on.  *)
Redeem(c) ==
  IF Transient(c) THEN IdOf[c] \in tickets /\ tickets' = tickets \ {IdOf[c]}
                  ELSE row /\ UNCHANGED tickets

Authorize(c) ==
  /\ serve[c] = "idle"
  /\ Redeem(c)
  /\ seen' = [seen EXCEPT ![c] = live[IdOf[c]]]
  /\ serve' = [serve EXCEPT ![c] = "probe"]
  /\ UNCHANGED <<live, parked, evicted, losing, told, health, alive, closing, done, rowVars,
                 leaving, opened, held, over, watchers>>

(* Only an incumbent that does not answer is replaced.                     *)
Admit(c) ==
  /\ serve[c] = "probe"
  /\ serve' = [serve EXCEPT ![c] =
       IF seen[c] # NoConn /\ alive[seen[c]] THEN "gone" ELSE "join"]
  /\ seen' = [seen EXCEPT ![c] = NoConn]
  /\ UNCHANGED <<live, parked, evicted, losing, told, health, alive, closing, done, rowVars,
                 leaving, sessionVars>>

(* Describe, then reattach: the executor is no longer parked.              *)
Describe(c) ==
  /\ serve[c] = "join"
  /\ serve' = [serve EXCEPT ![c] = IF alive[c] THEN "attached" ELSE "gone"]
  /\ parked' = IF alive[c] /\ ~Transient(c) THEN parked \ {IdOf[c]} ELSE parked
  /\ UNCHANGED <<live, evicted, losing, told, health, alive, seen, closing, done, rowVars,
                 leaving, sessionVars>>

Publish(c) ==
  /\ live' = [live EXCEPT ![IdOf[c]] = c]
  /\ serve' = [serve EXCEPT ![c] = "serving"]
  /\ health' = [health EXCEPT ![c] = "on"]

(* The displaced connection is shut down once the lock is released.        *)
InstallLive(c) ==
  /\ serve[c] = "attached" /\ ~Transient(c)
  /\ Publish(c)
  /\ closing' = closing \cup ({live[IdOf[c]]} \ {NoConn, c})

InstallTransient_untombed(c) == serve[c] = "attached" /\ Transient(c) /\ Publish(c) /\ UNCHANGED closing

InstallTransient(c) ==
  /\ serve[c] = "attached" /\ Transient(c)
  /\ IF IdOf[c] \in evicted
       THEN serve' = [serve EXCEPT ![c] = "gone"] /\ UNCHANGED <<live, health>>
       ELSE Publish(c)
  /\ UNCHANGED closing

Install(c) ==
  /\ InstallLive(c) \/ InstallTransient(c)
  /\ UNCHANGED <<parked, evicted, losing, told, alive, seen, done, rowVars, leaving, sessionVars>>

-----------------------------------------------------------------------------
(* Leaving: what ends a connection, and what that does to the pool.        *)

Removed_byId(c) == [live EXCEPT ![IdOf[c]] = NoConn]

(* removeLive: only the connection that is still the mapped one.           *)
Removed(c) == IF live[IdOf[c]] = c THEN [live EXCEPT ![IdOf[c]] = NoConn] ELSE live

ParkId_unparked(i) == UNCHANGED parked

ParkId(i) == parked' = IF live[i] = NoConn THEN parked \cup {i} ELSE parked

Shutdown(c) ==
  /\ c \in closing
  /\ closing' = closing \ {c}
  /\ done' = done \cup {c}
  /\ UNCHANGED <<live, parked, evicted, losing, told, serve, health, alive, seen, rowVars,
                 leaving, sessionVars>>

Done(c) ==
  /\ serve[c] = "serving" /\ c \in done
  /\ live' = Removed(c)
  /\ serve' = [serve EXCEPT ![c] = "gone"]
  /\ UNCHANGED <<parked, evicted, losing, told, health, alive, seen, closing, done, rowVars,
                 leaving, sessionVars>>

(* onHealthFailure, its first half, for the goroutine whose place is in    *)
(* "at": the entry leaves the map, and Park follows only if this did it.   *)
Fail(c, at, rest) ==
  /\ live' = Removed(c)
  /\ IF live[IdOf[c]] = c
       THEN at' = [at EXCEPT ![c] = "parking"] /\ UNCHANGED done
       ELSE at' = [at EXCEPT ![c] = rest] /\ done' = done \cup {c}

FailPark(c, at, rest) ==
  /\ at[c] = "parking"
  /\ ParkId(IdOf[c])
  /\ at' = [at EXCEPT ![c] = rest]
  /\ done' = done \cup {c}

Hangup(c) ==
  /\ serve[c] = "serving" /\ ~alive[c]
  /\ Fail(c, serve, "gone")
  /\ UNCHANGED <<parked, evicted, losing, told, health, alive, seen, closing, rowVars, leaving, sessionVars>>

HangupPark(c) ==
  /\ FailPark(c, serve, "gone")
  /\ UNCHANGED <<live, evicted, losing, told, health, alive, seen, closing, rowVars, leaving, sessionVars>>

RefreshRow_deaf(c) == FALSE

(* refreshRow: a transient executor has no row to read.                    *)
RefreshRow(c) == ~Transient(c) /\ ~row

(* A tick that finds nothing wrong, or cannot read the row, changes        *)
(* nothing.                                                                *)
HealthTick(c) ==
  /\ health[c] = "on" /\ c \notin done
  /\ RefreshRow(c) \/ ~alive[c]
  /\ Fail(c, health, "off")
  /\ UNCHANGED <<parked, evicted, losing, told, serve, alive, seen, closing, rowVars, leaving, sessionVars>>

HealthPark(c) ==
  /\ FailPark(c, health, "off")
  /\ UNCHANGED <<live, evicted, losing, told, serve, alive, seen, closing, rowVars, leaving, sessionVars>>

HealthStop(c) ==
  /\ health[c] = "on" /\ c \in done
  /\ health' = [health EXCEPT ![c] = "off"]
  /\ UNCHANGED <<live, parked, evicted, losing, told, serve, alive, seen, closing, done, rowVars,
                 leaving, sessionVars>>

(* sweepParkedOnce: the callbacks run after the lock is dropped.           *)
SweepParked(i) ==
  /\ i \in parked
  /\ parked' = parked \ {i}
  /\ losing' = losing \cup {i}
  /\ UNCHANGED <<live, evicted, told, connVars, rowVars, leaving, sessionVars>>

(* A tombstone lives five minutes, longer than any join takes.             *)
SweepEvicted(i) ==
  /\ i \in evicted
  /\ \A c \in Conns : IdOf[c] = i => serve[c] \notin {"probe", "join", "attached"}
  /\ evicted' = evicted \ {i}
  /\ UNCHANGED <<live, parked, losing, told, connVars, rowVars, leaving, sessionVars>>

HandleExecutorLost(i) ==
  /\ i \in losing
  /\ losing' = losing \ {i}
  /\ told' = told \cup {i}
  /\ UNCHANGED <<live, parked, evicted, connVars, rowVars, leaving, sessionVars>>

Evict(i) ==
  /\ leaving[i] = "evict"
  /\ leaving' = [leaving EXCEPT ![i] = "no"]
  /\ live' = [live EXCEPT ![i] = NoConn]
  /\ parked' = parked \ {i}
  /\ evicted' = IF i \in Sessions THEN evicted \cup {i} ELSE evicted
  /\ closing' = closing \cup ({live[i]} \ {NoConn})
  /\ UNCHANGED <<losing, told, serve, health, alive, seen, done, rowVars, sessionVars>>

-----------------------------------------------------------------------------
(* What happens to the executor: the network, its row, its owner.          *)

Drop(c) ==
  /\ serve[c] # "idle" /\ alive[c]
  /\ alive' = [alive EXCEPT ![c] = FALSE]
  /\ UNCHANGED <<live, parked, evicted, losing, told, serve, health, seen, closing, done, rowVars,
                 leaving, sessionVars>>

FlipRow ==
  /\ flips < MaxFlips
  /\ row' = ~row
  /\ flips' = flips + 1
  /\ UNCHANGED <<live, parked, evicted, losing, told, connVars, removed, leaving, sessionVars>>

(* DisconnectOwner collects under the lock and evicts after it.            *)
DisconnectOwner ==
  /\ ~removed
  /\ removed' = TRUE
  /\ leaving' = [leaving EXCEPT ![Exec] = IF live[Exec] # NoConn THEN "evict" ELSE @]
  /\ UNCHANGED <<live, parked, evicted, losing, told, connVars, row, flips, sessionVars>>

-----------------------------------------------------------------------------
(* Sessions: executorSession and releaseSessionExecutor.                   *)

(* One executor per key: the one this call replaces is released.           *)
Replace == IF held = NoConn THEN leaving ELSE [leaving EXCEPT ![held] = "revoke"]

ExecutorSession(s) ==
  /\ s \notin opened
  /\ opened' = opened \cup {s}
  /\ tickets' = tickets \cup {s}
  /\ held' = s
  /\ leaving' = Replace
  /\ watchers' = watchers + 1
  /\ UNCHANGED <<live, parked, evicted, losing, told, connVars, rowVars, over>>

EndSession ==
  /\ ~over /\ over' = TRUE
  /\ UNCHANGED <<live, parked, evicted, losing, told, connVars, rowVars, leaving,
                 tickets, opened, held, watchers>>

(* releaseSessionExecutor acts on whatever the key holds now.              *)
ReleaseSession ==
  /\ over /\ watchers > 0
  /\ watchers' = watchers - 1
  /\ held' = NoConn
  /\ leaving' = Replace
  /\ UNCHANGED <<live, parked, evicted, losing, told, connVars, rowVars, tickets, opened, over>>

Revoke(s) ==
  /\ leaving[s] = "revoke"
  /\ leaving' = [leaving EXCEPT ![s] = "evict"]
  /\ tickets' = tickets \ {s}
  /\ UNCHANGED <<live, parked, evicted, losing, told, connVars, rowVars, opened, held, over, watchers>>

-----------------------------------------------------------------------------
ConnStep(c) ==
  \/ Authorize(c) \/ Admit(c) \/ Describe(c) \/ Install(c)
  \/ Shutdown(c) \/ Done(c) \/ Hangup(c) \/ HangupPark(c)
  \/ HealthTick(c) \/ HealthPark(c) \/ HealthStop(c) \/ Drop(c)

PoolNext ==
  \/ \E c \in Conns : ConnStep(c)
  \/ \E i \in Ids : SweepParked(i) \/ SweepEvicted(i) \/ HandleExecutorLost(i) \/ Evict(i)
  \/ \E s \in Sessions : ExecutorSession(s) \/ Revoke(s)
  \/ FlipRow \/ DisconnectOwner \/ EndSession \/ ReleaseSession

(* Goroutines run, the tickers tick and a row can be read in the end.      *)
(* Nothing makes a peer dial, drop or hang up.                             *)
PoolFairness ==
  /\ \A c \in Conns : /\ WF_poolVars(Admit(c)) /\ WF_poolVars(Describe(c)) /\ WF_poolVars(Install(c))
                      /\ WF_poolVars(Shutdown(c)) /\ WF_poolVars(Done(c))
                      /\ WF_poolVars(HangupPark(c)) /\ WF_poolVars(HealthTick(c))
                      /\ WF_poolVars(HealthPark(c)) /\ WF_poolVars(HealthStop(c))
  /\ \A i \in Ids : /\ WF_poolVars(SweepParked(i)) /\ WF_poolVars(HandleExecutorLost(i))
                    /\ WF_poolVars(Evict(i)) /\ WF_poolVars(Revoke(i))
  /\ WF_poolVars(ReleaseSession)

PoolSpec == PoolInit /\ [][PoolNext]_poolVars /\ PoolFairness

-----------------------------------------------------------------------------
(* Properties.                                                             *)

(* A connection that is still served is the pool's connection for its id,  *)
(* or someone is about to shut it down: none is left behind running        *)
(* against an entry that names another or nothing (pool.go, installLive    *)
(* and removeLive).                                                        *)
NoneLeftBehind ==
  \A c \in Conns : serve[c] = "serving" /\ c \notin done =>
    live[IdOf[c]] = c \/ c \in closing \/ health[c] = "parking"

(* A transient executor that is connected, or still could be, belongs to   *)
(* the session its key holds or is being released: neither a replaced nor  *)
(* an ended session leaves an executor or a usable ticket                  *)
(* (session_executor.go, releaseSessionExecutor).                          *)
SessionsEnd ==
  \A s \in Sessions : s \in tickets \/ live[s] # NoConn => held = s \/ leaving[s] # "no"

(* An executor whose row stays off leaves the pool and stays out, however  *)
(* its connections and reconnections fall (pool.go, refreshRow).           *)
RevokedLeaves == <>[](~row) => <>[](live[Exec] = NoConn)

(* An executor that was connected and stays away is declared lost to its   *)
(* children, the first time it does, unless its owner's removal cut it     *)
(* (departure.go, sweepParkedOnce).                                        *)
GoneIsTold ==
  <>(live[Exec] # NoConn) /\ <>[](live[Exec] = NoConn) => <>(Exec \in told \/ removed)

(* A connected executor is not parked (pool.go, onHealthFailure: a         *)
(* reconnect inside the gap "installs a new entry, and Park sees it and    *)
(* no-ops").                                                               *)
LiveNotParked == \A i \in Ids : live[i] # NoConn => i \notin parked
=============================================================================

-------------------------------- MODULE Jobs --------------------------------
(***************************************************************************)
(* Background jobs: the registry of an executor (pkg/executor/jobs.go),    *)
(* the stream that carries its events (pkg/executor/server.go WatchJobs,   *)
(* pkg/execpool/watch_jobs.go) and the daemon that tells the child         *)
(* (cmd/rafikid/jobwatch.go).  One executor, one child with one workspace, *)
(* one subscription at a time.  A step holds one of the locks once: a job  *)
(* is marked exited under its own lock and published under the registry's, *)
(* and the daemon pushes the news before it acknowledges it.  The child    *)
(* may exit and be resumed; a daemon that starts again holds it as exited  *)
(* until its recovery has resumed it, and its new life has a workspace of  *)
(* its own.  Output files are left out, and so is a kill whose signal      *)
(* fails, which undoes its mark; telling is EventBuf's Push.               *)
(***************************************************************************)
EXTENDS Integers, SequencesExt

CONSTANTS Handles,      \* the jobs that may be started
          SubCapacity,  \* subscriberCapacity
          MaxFaults,    \* bound on the streams cut, failed calls, crashes,
                        \* restarts and exits of the child
          NoHandle

ASSUME JobsAssumption ==
  /\ SubCapacity \in Nat \ {0} /\ MaxFaults \in Nat
  /\ NoHandle \notin Handles

VARIABLES
  reg,         \* the registry: jobs by handle
  proc,        \* of each job: "none" before it starts, "running", "exited"
  waiting,     \* exited jobs whose wait goroutine is not at the registry yet
  provisional, acked, exitPublished,   \* fields of job, as sets of handles
  replay,      \* the replay a subscription still has to send
  chan,        \* the subscriber's channel
  sub,         \* the subscription: "none", "open", "closed" by the registry
  running,     \* Controller.jobRunning
  replayed,        \* Controller.jobReplay
  replaying,   \* Controller.jobReplaying
  acking,      \* the exit whose handler is at work
  todo,        \* what it still has to do: ExitSteps
  owner,       \* jobDeliverable: the child is there and not exited
  former,      \* the jobs of workspaces the child no longer has
  releasing,   \* those whose workspace is about to be released
  killed,      \* jobs the agent killed, discarded or released
  news,        \* what the child was told of each job
  missed,      \* jobs whose exit was handled while the child was exited
  faults

registryVars == <<reg, proc, waiting, provisional, acked, exitPublished>>
streamVars   == <<replay, chan, sub>>
daemonVars   == <<running, replayed, replaying, acking, todo>>
childVars    == <<owner, former, releasing>>
toldVars     == <<killed, news, missed>>
jobsVars     == <<registryVars, streamVars, daemonVars, childVars, toldVars, faults>>

Running(j) == [kind |-> "running", job |-> j]
Exited(j)  == [kind |-> "exited", job |-> j]
Complete   == [kind |-> "complete", job |-> NoHandle]

JobsInit ==
  /\ reg = {} /\ proc = [j \in Handles |-> "none"] /\ waiting = {}
  /\ provisional = {} /\ acked = {} /\ exitPublished = {}
  /\ replay = <<>> /\ chan = <<>> /\ sub = "none"
  /\ running = {} /\ replayed = {} /\ replaying = FALSE /\ acking = NoHandle /\ todo = <<>>
  /\ owner = TRUE /\ former = {} /\ releasing = {}
  /\ killed = {} /\ news = [j \in Handles |-> {}] /\ missed = {} /\ faults = 0

-----------------------------------------------------------------------------
(* The registry.                                                           *)

(* publish: the events that fit are sent, and a subscriber that cannot     *)
(* take one is closed, never skipped.                                      *)
PublishAll(evs) ==
  LET all == chan \o evs IN
  /\ chan' = IF sub # "open" THEN chan
             ELSE IF Len(all) > SubCapacity THEN SubSeq(all, 1, SubCapacity) ELSE all
  /\ sub' = IF sub = "open" /\ Len(all) > SubCapacity THEN "closed" ELSE sub

(* enforceBudget may drop finished, acknowledged jobs and nothing else.    *)
Budget(jobs, acks) ==
  \E drop \in SUBSET {j \in jobs : proc[j] = "exited" /\ j \in acks} : reg' = jobs \ drop

Start(j) ==
  /\ proc[j] = "none" /\ owner
  /\ proc' = [proc EXCEPT ![j] = "running"]
  /\ Budget(reg \cup {j}, acked)
  /\ PublishAll(<<Running(j)>>)
  /\ UNCHANGED <<waiting, provisional, acked, exitPublished, replay, daemonVars, childVars, toldVars, faults>>

StartProvisional(j) ==
  /\ proc[j] = "none" /\ owner
  /\ proc' = [proc EXCEPT ![j] = "running"]
  /\ provisional' = provisional \cup {j}
  /\ Budget(reg \cup {j}, acked)
  /\ UNCHANGED <<waiting, acked, exitPublished, streamVars, daemonVars, childVars, toldVars, faults>>

(* wait, up to the unlock of the job: the exit is recorded.                *)
Exit(j) ==
  /\ proc[j] = "running"
  /\ proc' = [proc EXCEPT ![j] = "exited"]
  /\ waiting' = waiting \cup {j}
  /\ UNCHANGED <<reg, provisional, acked, exitPublished, streamVars, daemonVars, childVars, toldVars, faults>>

Silent(j) == j \in provisional \/ j \in exitPublished \/ j \in acked

(* wait, under the registry's lock: publishExitLocked.                     *)
PublishExit(j) ==
  /\ j \in waiting
  /\ waiting' = waiting \ {j}
  /\ IF Silent(j) THEN UNCHANGED <<exitPublished, chan, sub>>
                  ELSE exitPublished' = exitPublished \cup {j} /\ PublishAll(<<Exited(j)>>)
  /\ Budget(reg, acked)
  /\ UNCHANGED <<proc, provisional, acked, replay, daemonVars, childVars, toldVars, faults>>

(* What promote publishes: an exit the wait goroutine had to leave to it   *)
(* too, if there was one.                                                  *)
Promoted(j) ==
  IF proc[j] = "exited" /\ j \notin exitPublished /\ j \notin acked
    THEN <<Running(j), Exited(j)>> ELSE <<Running(j)>>

Promote(j) ==
  /\ j \in reg /\ j \in provisional
  /\ provisional' = provisional \ {j}
  /\ PublishAll(Promoted(j))
  /\ exitPublished' = IF Len(Promoted(j)) = 2 THEN exitPublished \cup {j} ELSE exitPublished
  /\ UNCHANGED <<reg, proc, waiting, acked, replay, daemonVars, childVars, toldVars, faults>>

Discard(j) ==
  /\ j \in reg /\ j \in provisional
  /\ acked' = acked \cup {j} /\ reg' = reg \ {j} /\ killed' = killed \cup {j}
  /\ UNCHANGED <<proc, waiting, provisional, exitPublished, streamVars, daemonVars, childVars, news, missed, faults>>

(* kill marks the job before it signals it; the process dies by Exit.      *)
Kill(j) ==
  /\ j \in reg /\ j \notin provisional
  /\ acked' = acked \cup {j} /\ killed' = killed \cup {j}
  /\ UNCHANGED <<reg, proc, waiting, provisional, exitPublished, streamVars, daemonVars, childVars, news, missed, faults>>

(* forgetRunningJob, once the kill has answered.                           *)
ForgetRunningJob(j) ==
  /\ j \in killed /\ j \in running
  /\ running' = running \ {j}
  /\ UNCHANGED <<registryVars, streamVars, replayed, replaying, acking, todo, childVars, toldVars, faults>>

-----------------------------------------------------------------------------
(* The child and its workspace.                                            *)

Started == {j \in Handles : proc[j] # "none"}

(* The release of its workspace is left to a goroutine.                    *)
OwnerExits ==
  /\ owner /\ owner' = FALSE
  /\ faults < MaxFaults /\ faults' = faults + 1
  /\ releasing' = releasing \cup (Started \ former) /\ former' = Started
  /\ UNCHANGED <<registryVars, streamVars, daemonVars, toldVars>>

(* By hand, or by the recovery of a daemon that started again.             *)
OwnerResumes ==
  /\ ~owner /\ owner' = TRUE
  /\ UNCHANGED <<registryVars, streamVars, daemonVars, former, releasing, toldVars, faults>>

ReleaseWorkspace ==
  /\ releasing # {} /\ releasing' = {}
  /\ LET ended == reg \cap releasing IN
     acked' = acked \cup ended /\ killed' = killed \cup ended /\ reg' = reg \ ended
  /\ UNCHANGED <<proc, waiting, provisional, exitPublished, streamVars, daemonVars, owner, former,
                 news, missed, faults>>

(* A failed release is logged, and its jobs run on.                        *)
ReleaseFails ==
  /\ releasing # {} /\ releasing' = {}
  /\ faults < MaxFaults /\ faults' = faults + 1
  /\ UNCHANGED <<registryVars, streamVars, daemonVars, owner, former, toldVars>>

-----------------------------------------------------------------------------
(* The stream.                                                             *)

(* snapshotLocked: the running jobs, then the unacknowledged exits.        *)
Snapshot ==
  SetToSeq({Running(j) : j \in {k \in reg \ provisional : proc[k] = "running"}}) \o
  SetToSeq({Exited(j) : j \in {k \in reg \ provisional : proc[k] = "exited" /\ k \notin acked}})

ReplayStart_keeps == replaying' = TRUE /\ UNCHANGED replayed

ReplayStart == replaying' = TRUE /\ replayed' = {}

(* subscribeSnapshot on the executor; the daemon's only watcher announces  *)
(* the replay before it receives anything.                                 *)
Subscribe ==
  /\ sub = "none" /\ acking = NoHandle
  /\ sub' = "open" /\ chan' = <<>>
  /\ replay' = Append(Snapshot, Complete)
  /\ ReplayStart
  /\ UNCHANGED <<registryVars, running, acking, todo, childVars, toldVars, faults>>

(* A cut stream: what was not received is gone with it.                    *)
Cut == sub' = "none" /\ replay' = <<>> /\ chan' = <<>>

StreamLost ==
  /\ sub # "none" /\ faults < MaxFaults
  /\ faults' = faults + 1
  /\ Cut
  /\ UNCHANGED <<registryVars, daemonVars, childVars, toldVars>>

StreamEnds ==
  /\ sub = "closed" /\ replay = <<>> /\ chan = <<>> /\ acking = NoHandle
  /\ Cut
  /\ UNCHANGED <<registryVars, daemonVars, childVars, toldVars, faults>>

-----------------------------------------------------------------------------
(* handleJobEvent.                                                         *)

HandleRunning_untracked(j) ==
  /\ running' = running \cup {j}
  /\ UNCHANGED <<replayed, replaying, acking, todo, news>>

HandleRunning(j) ==
  /\ running' = running \cup {j}
  /\ replayed' = IF replaying THEN replayed \cup {j} ELSE replayed
  /\ UNCHANGED <<replaying, acking, todo, news>>

ExitSteps_ackFirst == <<"ack", "push">>

(* Push BEFORE ack.                                                        *)
ExitSteps == <<"push", "ack">>

HandleExited(j) ==
  /\ running' = running \ {j}
  /\ replayed' = IF replaying THEN replayed \cup {j} ELSE replayed
  /\ acking' = j /\ todo' = ExitSteps
  /\ UNCHANGED <<replaying, news>>

HandleComplete ==
  /\ news' = [j \in Handles |-> IF j \in running \ replayed /\ owner THEN news[j] \cup {"gone"} ELSE news[j]]
  /\ running' = running \cap replayed
  /\ replayed' = {} /\ replaying' = FALSE
  /\ UNCHANGED <<acking, todo>>

Receive ==
  LET left == replay \o chan IN
  /\ sub # "none" /\ acking = NoHandle /\ left # <<>>
  /\ IF replay # <<>> THEN replay' = Tail(replay) /\ UNCHANGED chan
                      ELSE chan' = Tail(chan) /\ UNCHANGED replay
  /\ \/ Head(left).kind = "running" /\ HandleRunning(Head(left).job)
     \/ Head(left).kind = "exited" /\ HandleExited(Head(left).job)
     \/ Head(left).kind = "complete" /\ HandleComplete
  /\ UNCHANGED <<registryVars, sub, childVars, killed, missed, faults>>

Stepped ==
  /\ todo' = Tail(todo)
  /\ acking' = IF Len(todo) = 1 THEN NoHandle ELSE acking

(* An exited child is not told, and the exit is acknowledged all the same. *)
PushExit ==
  /\ todo # <<>> /\ Head(todo) = "push"
  /\ Stepped
  /\ news' = [news EXCEPT ![acking] = IF owner THEN @ \cup {"exit"} ELSE @]
  /\ missed' = IF owner THEN missed ELSE missed \cup {acking}
  /\ UNCHANGED <<registryVars, streamVars, running, replayed, replaying, childVars, killed, faults>>

(* ack: a job that is unknown or still running is not acked.               *)
AckJobExit ==
  /\ todo # <<>> /\ Head(todo) = "ack"
  /\ Stepped
  /\ IF acking \in reg /\ proc[acking] = "exited"
       THEN acked' = acked \cup {acking} /\ Budget(reg, acked \cup {acking})
       ELSE UNCHANGED <<acked, reg>>
  /\ UNCHANGED <<proc, waiting, provisional, exitPublished, streamVars, running, replayed, replaying,
                 childVars, toldVars, faults>>

(* A failed call is logged: the next subscription replays the exit.        *)
AckFails ==
  /\ todo # <<>> /\ Head(todo) = "ack" /\ faults < MaxFaults
  /\ faults' = faults + 1
  /\ Stepped
  /\ UNCHANGED <<registryVars, streamVars, running, replayed, replaying, childVars, toldVars>>

(* What was loaded is exited, and no longer bound to a workspace.          *)
DaemonCrash ==
  /\ faults < MaxFaults
  /\ faults' = faults + 1
  /\ running' = {} /\ replayed' = {} /\ replaying' = FALSE /\ acking' = NoHandle /\ todo' = <<>>
  /\ owner' = FALSE /\ former' = Started /\ releasing' = {}
  /\ Cut
  /\ UNCHANGED <<registryVars, toldVars>>

ExecutorRestart ==
  /\ faults < MaxFaults /\ reg # {}
  /\ faults' = faults + 1
  /\ reg' = {} /\ waiting' = {}
  /\ proc' = [j \in Handles |-> IF proc[j] = "none" THEN "none" ELSE "exited"]
  /\ Cut
  /\ UNCHANGED <<provisional, acked, exitPublished, daemonVars, childVars, toldVars>>

-----------------------------------------------------------------------------
JobsNext ==
  \/ \E j \in Handles : \/ Start(j) \/ StartProvisional(j) \/ Exit(j) \/ PublishExit(j)
                        \/ Promote(j) \/ Discard(j) \/ Kill(j) \/ ForgetRunningJob(j)
  \/ OwnerExits \/ OwnerResumes \/ ReleaseWorkspace \/ ReleaseFails
  \/ Subscribe \/ StreamLost \/ StreamEnds \/ Receive
  \/ PushExit \/ AckJobExit \/ AckFails \/ DaemonCrash \/ ExecutorRestart

(* The goroutines of both sides run, and the watcher resubscribes after    *)
(* its backoff.  Nothing makes a job exit.                                 *)
JobsFairness ==
  /\ \A j \in Handles : WF_jobsVars(PublishExit(j))
  /\ WF_jobsVars(Subscribe) /\ WF_jobsVars(StreamEnds) /\ WF_jobsVars(Receive)
  /\ WF_jobsVars(PushExit) /\ WF_jobsVars(AckJobExit)

JobsSpec == JobsInit /\ [][JobsNext]_jobsVars /\ JobsFairness

-----------------------------------------------------------------------------
(* Properties.                                                             *)

(* An exit the executor may forget was told, over every crash of the       *)
(* daemon, lost acknowledgement and cut stream, unless the job was stopped *)
(* on purpose or the exit was handled while the child was exited           *)
(* (jobwatch.go, "Push BEFORE ack"; docs/reference/executor-protocol.md,   *)
(* Undeliverable owners).                                                  *)
ExitNotLost == \A j \in acked \ killed : "exit" \in news[j] \/ j \in missed

(* A job is reported gone only when its executor lost it: one that is      *)
(* still there, or whose exit was told, never is.  Jobs the agent killed   *)
(* are left out: see the README.                                           *)
GoneIsTrue ==
  \A j \in Handles \ killed : "gone" \in news[j] => j \notin reg /\ "exit" \notin news[j]

(* The child is owed news of a job that ended while it was visible, and of *)
(* one the daemon believes running that its executor has lost.             *)
Owed(j) ==
  /\ j \notin killed \cup missed /\ news[j] = {}
  /\ \/ j \in reg \ provisional /\ proc[j] = "exited"
     \/ j \in running \ reg

(* The daemon settles what is owed, whatever was cut, dropped for being    *)
(* too slow or restarted meanwhile: the child is told, if it is not exited *)
(* at that moment (jobs.go, publish and subscribe; jobwatch.go,            *)
(* ReplayComplete).                                                        *)
JobsResolved == \A j \in Handles : Owed(j) ~> ~Owed(j)
=============================================================================

------------------------------- MODULE MCKinds -------------------------------
(***************************************************************************)
(* Small instances of Inbox for the three runtimes of a child, "kind",     *)
(* chosen at the start: each meets the adverse events its delivery path is *)
(* exposed to.  The constants of MCInbox itself only bound the values, the *)
(* properties are those of Inbox.                                          *)
(***************************************************************************)
EXTENDS MCInbox

VARIABLE kind

AllMsgs == MixedMsgs \cup AbortMsgs
AllOld  == OldBig \cup OldAbort

Fundi == INSTANCE Inbox WITH
           Kind <- "fundi", Msgs <- AbortMsgs, Legacy <- OldBig, WireCap <- 1,
           Adverse <- {"store", "early", "impatient", "fatal", "resume", "refuse", "append",
                        "crash", "kill", "terminate"}

(* A claude child's rows are consumed when written: crashes apart.         *)
Claude == INSTANCE Inbox WITH
            Kind <- "claude", Msgs <- MixedMsgs, Legacy <- OldAbort,
            Adverse <- {"fatal", "kill", "terminate", "resume", "budget", "close"}

(* A script child's daemon may crash: its rows are consumed when pulled.   *)
Script == INSTANCE Inbox WITH
            Kind <- "script", Msgs <- AbortMsgs, Legacy <- {},
            Adverse <- {"crash", "kill", "close", "budget"}

KindsInit == \/ kind = "fundi"  /\ Fundi!Init
             \/ kind = "claude" /\ Claude!Init
             \/ kind = "script" /\ Script!Init

KindsNext == \/ kind = "fundi"  /\ Fundi!Next  /\ UNCHANGED kind
             \/ kind = "claude" /\ Claude!Next /\ UNCHANGED kind
             \/ kind = "script" /\ Script!Next /\ UNCHANGED kind

KindsSpec == KindsInit /\ [][KindsNext]_<<vars, kind>>

(* A row a fundi child confirmed has entered a live turn, is on its way    *)
(* into one, or was when an abort, the shutdown, a failed append, a panic  *)
(* or a crash cut that turn down: whatever else fails, no ack retires it   *)
(* sooner (engine.go, the turn worker's ack point).                        *)
FundiAcked == kind = "fundi" => AckedMeansRan

(* No message enters two turns of a claude or a script child, over every   *)
(* exit, kill, resume and budget hold (queue.go, deliver: the rows are     *)
(* consumed with the hand-over).                                           *)
KindsRunOnce == kind # "fundi" => RunOnce
=============================================================================

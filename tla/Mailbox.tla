------------------------------- MODULE Mailbox -------------------------------
(***************************************************************************)
(* What the durable inbox promises the sender of a message to a fundi      *)
(* child, with no lock, frame, channel, engine or process in sight: an     *)
(* accepted message is queued, one turn takes it, once, direct prompts in  *)
(* the order they were accepted.  It is lost only when its child is closed *)
(* before that, or when its turn is cut down between the taking and its    *)
(* first write (pkg/fundi/engine.go, "Two residual exposures").            *)
(***************************************************************************)
EXTENDS Integers

CONSTANTS Rows,   \* 1..k: message ids, in the order of acceptance
          Shapes  \* the messages' content

VARIABLES msg,    \* the content of each message
          box,    \* "none", "queued", "taken", "ran" or "gone"
          closed  \* the child was forgotten

Queued  == {r \in Rows : box[r] = "queued"}
Taken   == {r \in Rows : box[r] = "taken"}
Ordered == {r \in Rows : msg[r].source = "" /\ msg[r].mode = "prompt"}

Init ==
  /\ msg \in [Rows -> Shapes]
  /\ box = [r \in Rows |-> "none"]
  /\ closed = FALSE

Accept(r) ==
  /\ box[r] = "none" /\ \A q \in Rows : q < r => box[q] # "none"
  /\ box' = [box EXCEPT ![r] = "queued"]
  /\ \E m \in Shapes : msg' = [msg EXCEPT ![r] = m]
  /\ UNCHANGED closed

(* One turn at a time takes the messages S, and then runs them.            *)
Take(S) ==
  /\ S # {} /\ S \subseteq Queued /\ ~closed /\ Taken = {}
  /\ \A r \in S \cap Ordered : \A q \in (Queued \cap Ordered) \ S : r < q
  /\ box' = [r \in Rows |-> IF r \in S THEN "taken" ELSE box[r]]
  /\ UNCHANGED <<msg, closed>>

Run ==
  /\ box' = [r \in Rows |-> IF r \in Taken THEN "ran" ELSE box[r]]
  /\ UNCHANGED <<msg, closed>>

(* In between the daemon dies, or the turn is cancelled, panics or cannot  *)
(* write.                                                                  *)
Lose ==
  /\ box' = [r \in Rows |-> IF r \in Taken THEN "gone" ELSE box[r]]
  /\ UNCHANGED <<msg, closed>>

Forget ==
  /\ ~closed /\ closed' = TRUE
  /\ UNCHANGED <<msg, box>>

Discard ==
  /\ closed
  /\ box' = [r \in Rows |-> IF r \in Queued THEN "gone" ELSE box[r]]
  /\ UNCHANGED <<msg, closed>>

Next == \/ \E r \in Rows : Accept(r)
        \/ \E S \in SUBSET Rows : Take(S)
        \/ Run \/ Lose \/ Forget \/ Discard

MailboxSpec == Init /\ [][Next]_<<msg, box, closed>>
=============================================================================

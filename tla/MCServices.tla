----------------------------- MODULE MCServices -----------------------------
(***************************************************************************)
(* Small instances of the services with safety properties only.  They      *)
(* share no state, so a behaviour is about one of them, "focus", and the   *)
(* others stand still.                                                     *)
(***************************************************************************)
EXTENDS Coalesce, Guard, Receipts, Tasks

VARIABLE focus

(* Coalesce: two sources, keyed and unkeyed rows, short and long ones,     *)
(* direct messages and an abort.                                           *)
RowOf(s, k, m, l) == [source |-> s, key |-> k, mode |-> m, len |-> l]

MCRows == {RowOf(Direct, "", "prompt", 1), RowOf(Direct, "", "abort", 0),
           RowOf("a", "", "prompt", 1), RowOf("a", "", "steer", 2),
           RowOf("a", "k", "prompt", 2), RowOf("a", "k", "steer", 1), RowOf("a", "l", "prompt", 1),
           RowOf("b", "k", "prompt", 1)}

ServicesInit ==
  /\ focus \in {"coalesce", "guard", "receipts", "tasks"}
  /\ GuardInit /\ ReceiptsInit /\ CoalesceInit /\ TasksInit
  /\ focus # "coalesce" => cfg = [frags |-> 0, bytes |-> 0]

ServicesNext ==
  \/ /\ focus = "coalesce" /\ CoalesceNext
     /\ UNCHANGED <<guardVars, receiptVars, taskVars, focus>>
  \/ /\ focus = "guard" /\ GuardNext
     /\ UNCHANGED <<coalesceVars, receiptVars, taskVars, focus>>
  \/ /\ focus = "receipts" /\ ReceiptsNext
     /\ UNCHANGED <<coalesceVars, guardVars, taskVars, focus>>
  \/ /\ focus = "tasks" /\ TasksNext
     /\ UNCHANGED <<coalesceVars, guardVars, receiptVars, focus>>

servicesVars == <<coalesceVars, guardVars, receiptVars, taskVars, focus>>

ServicesSpec == ServicesInit /\ [][ServicesNext]_servicesVars
=============================================================================

------------------------------- MODULE MCInbox -------------------------------
(***************************************************************************)
(* Small instances of Inbox: the message shapes a run uses.                *)
(***************************************************************************)
EXTENDS Inbox, TLC

M(mode, source, big) == [mode |-> mode, source |-> source, big |-> big]

DirectMsgs   == {M("prompt", Direct, FALSE)}
MixedMsgs    == {M("prompt", Direct, FALSE), M("steer", Direct, FALSE), M("prompt", "subagents", FALSE)}
AbortMsgs    == {M("prompt", Direct, FALSE), M("abort", Direct, FALSE), M("steer", "subagents", FALSE)}
FragmentMsgs == {M("prompt", Direct, FALSE), M("prompt", "subagents", FALSE)}
OldBig       == {M("prompt", Direct, TRUE)}
OldAbort     == {M("abort", Direct, FALSE)}

(* A fundi child while the store answers; MCKinds has the other cases.     *)
FundiSpec     == Init /\ [][Steps]_vars
FairFundiSpec == FundiSpec /\ Fairness

ThreadSymmetry == Permutations(Threads)
=============================================================================

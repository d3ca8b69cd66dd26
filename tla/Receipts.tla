------------------------------ MODULE Receipts ------------------------------
(***************************************************************************)
(* Delivery receipts of a claude child (cmd/rafikid/claude_delivery.go).   *)
(* The process echoes each message it accepts, by the uuid the daemon gave *)
(* it, and the daemon turns the echo into one receipt.  A launch is known  *)
(* by its generation, and so is the Child instance it produces.  One       *)
(* child: spawn, resume and respawn are launches, of which the claim lets  *)
(* one start at a time, once the last process reads exited; its exit       *)
(* handler may then still be at work.  The queue's lock makes deliveries   *)
(* one at a time.                                                          *)
(***************************************************************************)
EXTENDS Integers, FiniteSets

CONSTANTS Uuids,         \* one per attempt at a delivery
          MaxLaunches    \* bound on the launches

ASSUME ReceiptsAssumption == MaxLaunches \in Nat

VARIABLES
  nextGen,    \* claudeDeliveryRegistry.nextGen
  current,    \* gens[childID], 0 for none
  insts,      \* generations that an instance is attached to
  entries,    \* the rows map: [gen, uuid]
  phase,      \* of each launch
  slot,       \* the instance frames are written to, 0 for none
  sending,    \* the delivery between its registration and its write
  filed,      \* the generation each uuid was registered under, 0 for none
  writtenTo,  \* the launch whose process was sent it, 0 for none
  receipts    \* MessageDelivered events published for each uuid

receiptVars == <<nextGen, current, insts, entries, phase, slot, sending, filed, writtenTo, receipts>>

Gens == 1..MaxLaunches
Entry(g, u) == [gen |-> g, uuid |-> u]

(* "none", "starting" until child.Spawn returns, "failed" when it fails,   *)
(* "ready" until the manager has the instance, "live", "dead" when the     *)
(* process is gone and its row says exited, "retired" after endLaunch,     *)
(* "over" once the exit handler has ended.                                 *)
ReceiptsInit ==
  /\ nextGen = 0 /\ current = 0 /\ insts = {} /\ entries = {}
  /\ phase = [g \in Gens |-> "none"] /\ slot = 0
  /\ sending = {} /\ filed = [u \in Uuids |-> 0]
  /\ writtenTo = [u \in Uuids |-> 0] /\ receipts = [u \in Uuids |-> 0]

-----------------------------------------------------------------------------
(* Launches.                                                               *)

(* installChildHooks: a new generation, before the process exists.  A      *)
(* child whose first spawn failed is never launched again.                 *)
BeginLaunch ==
  /\ nextGen < MaxLaunches
  /\ nextGen > 0 => \/ phase[nextGen] \in {"dead", "retired", "over"}
                    \/ nextGen > 1 /\ phase[nextGen] = "failed"
  /\ nextGen' = nextGen + 1 /\ current' = nextGen + 1
  /\ entries' = {}
  /\ phase' = [phase EXCEPT ![nextGen + 1] = "starting"]
  /\ UNCHANGED <<insts, slot, sending, filed, writtenTo, receipts>>

SpawnOk(g) ==
  /\ phase[g] = "starting"
  /\ phase' = [phase EXCEPT ![g] = "ready"]
  /\ insts' = insts \cup {g}
  /\ UNCHANGED <<nextGen, current, entries, slot, sending, filed, writtenTo, receipts>>

(* Only a first spawn abandons its generation; a failed resume leaves it   *)
(* current until the next launch.                                          *)
SpawnFails(g) ==
  /\ phase[g] = "starting"
  /\ phase' = [phase EXCEPT ![g] = "failed"]
  /\ IF g = 1 THEN current' = 0 /\ entries' = {e \in entries : e.gen # g}
              ELSE UNCHANGED <<current, entries>>
  /\ UNCHANGED <<nextGen, insts, slot, sending, filed, writtenTo, receipts>>

(* cm.Add.                                                                 *)
Activate(g) ==
  /\ phase[g] = "ready"
  /\ phase' = [phase EXCEPT ![g] = "live"]
  /\ slot' = g
  /\ UNCHANGED <<nextGen, current, insts, entries, sending, filed, writtenTo, receipts>>

Die(g) ==
  /\ phase[g] = "live"
  /\ phase' = [phase EXCEPT ![g] = "dead"]
  /\ UNCHANGED <<nextGen, current, insts, entries, slot, sending, filed, writtenTo, receipts>>

EndLaunch_current(g) == current' = 0 /\ entries' = {}

(* The dying instance's generation, never whatever is current.             *)
EndLaunch(g) ==
  IF current = g THEN current' = 0 /\ entries' = {e \in entries : e.gen # g}
                 ELSE UNCHANGED <<current, entries>>

ExitEndsLaunch(g) ==
  /\ phase[g] = "dead" /\ g \in insts
  /\ EndLaunch(g)
  /\ insts' = insts \ {g}
  /\ phase' = [phase EXCEPT ![g] = "retired"]
  /\ UNCHANGED <<nextGen, slot, sending, filed, writtenTo, receipts>>

(* abortSpawn: the first record, due soon after cm.Add, could not be       *)
(* written.  The process is shut down and the manager forgets the child.   *)
AbortSpawn ==
  /\ nextGen = 1 /\ phase[1] \in {"live", "dead"}
  /\ EndLaunch(1)
  /\ insts' = insts \ {1} /\ slot' = 0
  /\ phase' = [phase EXCEPT ![1] = "failed"]
  /\ UNCHANGED <<nextGen, sending, filed, writtenTo, receipts>>

(* The last of handleChildExit: cm.Remove, by the child's id.              *)
ExitRemoves(g) ==
  /\ phase[g] = "retired"
  /\ phase' = [phase EXCEPT ![g] = "over"]
  /\ slot' = 0
  /\ UNCHANGED <<nextGen, current, insts, entries, sending, filed, writtenTo, receipts>>

-----------------------------------------------------------------------------
(* Deliveries: deliverInbox.                                               *)

(* Registered before it is written.  Without a launch the message goes out *)
(* without a uuid, which changes nothing here.                             *)
Register(u) ==
  /\ sending = {} /\ filed[u] = 0 /\ current # 0
  /\ entries' = entries \cup {Entry(current, u)}
  /\ filed' = [filed EXCEPT ![u] = current]
  /\ sending' = {u}
  /\ UNCHANGED <<nextGen, current, insts, phase, slot, writtenTo, receipts>>

WriteOk(u) ==
  /\ u \in sending /\ slot # 0 /\ phase[slot] = "live"
  /\ writtenTo' = [writtenTo EXCEPT ![u] = slot]
  /\ sending' = {}
  /\ UNCHANGED <<nextGen, current, insts, entries, phase, slot, filed, receipts>>

(* The frame cannot be built, is too long, or cannot be written: drop.     *)
WriteFails(u) ==
  /\ u \in sending
  /\ entries' = entries \ {Entry(filed[u], u)}
  /\ sending' = {}
  /\ UNCHANGED <<nextGen, current, insts, phase, slot, filed, writtenTo, receipts>>

Take_kept(g, u) ==
  /\ current = g /\ Entry(g, u) \in entries
  /\ UNCHANGED entries

(* The check of the generation and the removal are one critical section.   *)
Take(g, u) ==
  /\ current = g /\ Entry(g, u) \in entries
  /\ entries' = entries \ {Entry(g, u)}

(* The hook of launch g hears u: from the process it was written to, more  *)
(* than once, or from a later one that replays the conversation.           *)
Echo(g, u) ==
  /\ phase[g] \in {"ready", "live", "dead"}
  /\ writtenTo[u] \in 1..g
  /\ Take(g, u)
  /\ receipts' = [receipts EXCEPT ![u] = @ + 1]
  /\ UNCHANGED <<nextGen, current, insts, phase, slot, sending, filed, writtenTo>>

-----------------------------------------------------------------------------
ReceiptsNext ==
  \/ BeginLaunch \/ AbortSpawn
  \/ \E g \in Gens : \/ SpawnOk(g) \/ SpawnFails(g) \/ Activate(g) \/ Die(g)
                     \/ ExitEndsLaunch(g) \/ ExitRemoves(g)
                     \/ \E u \in Uuids : Echo(g, u)
  \/ \E u \in Uuids : Register(u) \/ WriteOk(u) \/ WriteFails(u)

ReceiptsSpec == ReceiptsInit /\ [][ReceiptsNext]_receiptVars

-----------------------------------------------------------------------------
(* Properties.                                                             *)

(* A message its own launch was sent, whose process runs, has its receipt  *)
(* or can still get it: no earlier launch's exit, failed write or failed   *)
(* launch takes that away (claude_delivery.go, endLaunch).                 *)
Awaited ==
  \A u \in Uuids : LET g == writtenTo[u] IN
    g # 0 /\ g = filed[u] /\ phase[g] = "live" =>
      receipts[u] > 0 \/ (current = g /\ Entry(g, u) \in entries)

(* A message has at most one receipt, and only when the launch it was      *)
(* registered under was sent it: no second echo and no replay by a later   *)
(* process counts (claude_delivery.go, take).                              *)
ReceiptTrue ==
  \A u \in Uuids : receipts[u] > 0 => receipts[u] = 1 /\ writtenTo[u] = filed[u]
=============================================================================

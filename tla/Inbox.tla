-------------------------------- MODULE Inbox --------------------------------
(***************************************************************************)
(* The durable inbox of ONE child: pkg/inbox (rows, Queue, keyed mutex),   *)
(* the daemon wiring of cmd/rafikid/inbox_wiring.go (deliverInbox,         *)
(* sentFrames, acks), and the part of the child's life the queue depends   *)
(* on: the command channel, the fundi engine's turn queue, the exit        *)
(* handler, resume, crash recovery and close.                              *)
(*                                                                         *)
(* One child is enough: every mutating operation of the store is scoped to *)
(* one child and the queue's mutex is per child (pkg/inbox/keyedmutex.go). *)
(*                                                                         *)
(* Threads are the goroutines that deliver: a sender's Send, an event      *)
(* buffer flush, the idle drain, a replay.  The engine's turn worker, the  *)
(* exit handler and the builder of a resumed engine are actors of their    *)
(* own.  Adverse names the adverse events a run lets happen.               *)
(***************************************************************************)
EXTENDS Integers, Sequences, FiniteSets

CONSTANTS Kind,       \* the child's runtime: "fundi", "claude" or "script"
          Msgs,       \* the shapes of message that can be submitted
          Legacy,     \* the shapes of row an older daemon may have left pending
          Threads,    \* delivering goroutines
          MaxRows,    \* bound on accepted rows
          MaxFrames,  \* bound on frame ids in use at one time
          WireCap,    \* capacity of the child's command channel (16 in the code)
          Adverse,    \* the adverse events this instance lets happen
          MaxHits     \* bound on how often they happen

RowIds   == 1..MaxRows
FrameIds == 1..MaxFrames
Direct   == ""        \* the source of a message a human or a coordinator sent
All      == "*"       \* DeliverAll: every source
Modes    == {"prompt", "steer", "abort"}
States   == {"none", "pending", "sent", "consumed", "dropped", "deleted"}
Open     == {"pending", "sent"}
NoThread == "nobody"
Events   == {"crash", "fatal", "kill", "terminate", "budget", "close",
             "resume", "refuse", "impatient", "early", "store", "append"}

(* The sources that occur.  A source is a name of no particular form.      *)
Sources == {m.source : m \in Msgs \cup Legacy} \cup {Direct}

ASSUME InboxAssumption ==
  /\ Kind \in {"fundi", "claude", "script"}
  /\ Msgs \cup Legacy \subseteq [mode : Modes, source : Sources, big : BOOLEAN]
  /\ Legacy # {} => Kind # "script"
  /\ MaxRows \in Nat /\ MaxFrames \in Nat /\ WireCap \in Nat /\ MaxHits \in Nat
  /\ NoThread \notin Threads
  /\ Adverse \subseteq Events

Calls   == [sel : Sources \cup {All}, steer : BOOLEAN]
NoCall  == [sel |-> Direct, steer |-> FALSE]
NoMsg   == [mode |-> "prompt", source |-> Direct, big |-> FALSE]
Shapes  == Msgs \cup Legacy \cup {NoMsg}
Batch   == [ids : SUBSET RowIds, source : Sources, mode : Modes, big : BOOLEAN]
Entry   == [fids : SUBSET FrameIds, ids : SUBSET RowIds, mode : Modes]

VARIABLES
  n, msg, st,        \* the store: rows accepted, their content, their state
  lock,              \* q.locks[child]: the thread holding it, or NoThread
  inbound, pc, call, todo, frame, \* the sending and delivering goroutines
  due,               \* deliveries asked for and not started yet
  sentFrames,        \* frame id -> the rows behind it ({}: no entry)
  wire,              \* the child's command channel and stdin pipe
  pending, steerBuf, \* the engine's turn queue and mid-turn steers
  eng, cur, ack,     \* the turn worker: what it does, runs, and is acking
  aborted,           \* the running turn's context was cancelled by an abort
  lost,              \* rows acked into a turn that was cut down before it had them
  phase,             \* the child process
  status,            \* the child store's status
  record,            \* the durable child record says the child is running
  attached,          \* the child manager holds this process
  xpc,               \* where the exit handler is
  recovering,        \* the resume in flight is crash recovery's
  halted,            \* the child is over budget
  ran,               \* how often each row entered a live turn
  hits               \* adverse events so far

store   == <<n, msg, st>>
goers   == <<inbound, pc, call, todo, frame>>
fate    == <<aborted, lost>>
engine  == <<pending, steerBuf, eng, cur, ack, fate, ran>>
life    == <<phase, status, record, attached, xpc, recovering>>
vars    == <<store, lock, goers, due, sentFrames, wire, engine, life, halted, hits>>

Hit(e) == e \in Adverse /\ hits < MaxHits /\ hits' = hits + 1

-----------------------------------------------------------------------------
(* The store: a move applies to the rows whose state allows it.            *)

MarkSent(ids)     == [r \in RowIds |-> IF r \in ids /\ st[r] = "pending" THEN "sent" ELSE st[r]]
MarkConsumed_sent(ids) == [r \in RowIds |-> IF r \in ids /\ st[r] = "sent" THEN "consumed" ELSE st[r]]
MarkConsumed(ids) == [r \in RowIds |-> IF r \in ids /\ st[r] \in Open THEN "consumed" ELSE st[r]]
ResetSent         == [r \in RowIds |-> IF st[r] = "sent" THEN "pending" ELSE st[r]]
Drop              == [r \in RowIds |-> IF st[r] \in Open THEN "dropped" ELSE st[r]]
PendingRows       == {r \in RowIds : st[r] = "pending"}

(* What Coalesce makes of the rows S: a batch per direct message and one   *)
(* per other source, a steer when any row of it is or the flush says so.   *)
DirectBatch(r) ==
  [ids |-> {r}, source |-> Direct, mode |-> msg[r].mode, big |-> msg[r].big]

GroupBatch(S, s, steer) ==
  LET ids == {r \in S : msg[r].source = s}
  IN  [ids |-> ids, source |-> s,
       mode |-> IF steer \/ \E r \in ids : msg[r].mode = "steer" THEN "steer" ELSE "prompt",
       big |-> \E r \in ids : msg[r].big]

Coalesce(S, steer) ==
  {DirectBatch(r) : r \in {q \in S : msg[q].source = Direct}}
    \cup {GroupBatch(S, s, steer) : s \in {msg[r].source : r \in S} \ {Direct}}

(* Delivery order: direct messages in arrival order, then the groups by    *)
(* their first row.                                                        *)
Before(b, c) ==
  /\ c.source = Direct => b.source = Direct
  /\ \/ b.source = Direct /\ c.source # Direct
     \/ \E r \in b.ids : \A q \in c.ids : r < q

First(b, S) == b \in S /\ \A c \in S \ {b} : Before(b, c)

AwaitAck_never(b) == FALSE

AwaitAck(b) == Kind = "fundi" /\ b.mode # "abort"

-----------------------------------------------------------------------------
(* A fresh child with an empty queue, its engine perhaps still building; or *)
(* a daemon just started over the row an older one left, about to recover   *)
(* the child that row is for.                                               *)
Init ==
  /\ lock = NoThread
  /\ inbound = [t \in Threads |-> NoMsg]
  /\ pc = [t \in Threads |-> "off"]
  /\ call = [t \in Threads |-> NoCall]
  /\ todo = [t \in Threads |-> {}]
  /\ frame = [t \in Threads |-> 0]
  /\ due = {}
  /\ sentFrames = [f \in FrameIds |-> {}]
  /\ wire = <<>> /\ pending = <<>> /\ steerBuf = <<>>
  /\ eng = "idle" /\ cur = {} /\ ack = {} /\ aborted = FALSE /\ lost = {}
  /\ xpc = "none" /\ record = TRUE /\ halted = FALSE /\ hits = 0
  /\ ran = [r \in RowIds |-> 0]
  /\ \/ /\ n = 0
        /\ msg = [r \in RowIds |-> NoMsg]
        /\ st = [r \in RowIds |-> "none"]
        /\ phase \in {"up"} \cup (IF "early" \in Adverse THEN {"building"} ELSE {})
        /\ status = "live" /\ attached = TRUE /\ recovering = FALSE
     \/ \E m \in Legacy :
        /\ n = 1 /\ n <= MaxRows
        /\ msg = [r \in RowIds |-> IF r = 1 THEN m ELSE NoMsg]
        /\ st = [r \in RowIds |-> IF r = 1 THEN "pending" ELSE "none"]
        /\ phase = "exited" /\ status = "exited"
        /\ attached = FALSE /\ recovering = TRUE

-----------------------------------------------------------------------------
(* Accepting a message: validate, then persist; the two are not atomic.    *)

(* validateSendTarget: an exited child is refused unless a resume holds    *)
(* its claim.                                                              *)
ValidTarget == status = "live" \/ (status = "exited" /\ phase = "building")

(* acceptAndDeliver's up-front refusals, for a sender that can be told.    *)
Refused(m) == m.source = Direct /\ m.mode # "abort"
                /\ (halted \/ (Kind = "fundi" /\ m.big))

(* A claude abort is a signal, not a message: it is never persisted.       *)
Submit(t, m) ==
  /\ pc[t] = "off" /\ n + Cardinality({u \in Threads : pc[u] = "persist"}) < MaxRows
  /\ ValidTarget /\ ~Refused(m)
  /\ ~(Kind = "claude" /\ m.mode = "abort")
  /\ pc' = [pc EXCEPT ![t] = "persist"]
  /\ inbound' = [inbound EXCEPT ![t] = m]
  /\ UNCHANGED <<store, lock, call, todo, frame, due, sentFrames, wire, engine, life, halted, hits>>

(* A direct message is delivered at once by its sender; a fragment waits   *)
(* for the event buffer's flush of its source.                             *)
Persist(t) ==
  /\ pc[t] = "persist" /\ n < MaxRows
  /\ n' = n + 1
  /\ msg' = [msg EXCEPT ![n + 1] = inbound[t]]
  /\ st' = [st EXCEPT ![n + 1] = "pending"]
  /\ inbound' = [inbound EXCEPT ![t] = NoMsg]
  /\ \/ /\ inbound[t].source = Direct
        /\ pc' = [pc EXCEPT ![t] = "lock"]
        /\ call' = [call EXCEPT ![t] = NoCall]
        /\ UNCHANGED due
     \/ /\ inbound[t].source # Direct
        /\ pc' = [pc EXCEPT ![t] = "off"]
        /\ due' = due \cup {inbound[t].source}
        /\ UNCHANGED call
  /\ UNCHANGED <<lock, todo, frame, sentFrames, wire, engine, life, halted, hits>>

-----------------------------------------------------------------------------
(* Queue.deliver, one goroutine at a time under the child's lock.          *)

(* drainInbox asks for Direct, replayInbox for All, a flush for its source *)
(* (as a steer only while a turn runs).                                    *)
Start(t) ==
  \E s \in due, steer \in BOOLEAN :
    /\ pc[t] = "off"
    /\ steer => s \notin {Direct, All} /\ eng = "turn"
    /\ pc' = [pc EXCEPT ![t] = "lock"]
    /\ call' = [call EXCEPT ![t] = [sel |-> s, steer |-> steer]]
    /\ due' = due \ {s}
    /\ UNCHANGED <<store, lock, inbound, todo, frame, sentFrames, wire, engine, life, halted, hits>>

Return(t) ==
  /\ lock' = NoThread
  /\ pc' = [pc EXCEPT ![t] = "off"]
  /\ call' = [call EXCEPT ![t] = NoCall]
  /\ todo' = [todo EXCEPT ![t] = {}]
  /\ frame' = [frame EXCEPT ![t] = 0]
  /\ UNCHANGED inbound

Chosen(t) == {r \in PendingRows : call[t].sel \in {All, msg[r].source}}

Read_unlocked(t) ==
  /\ pc[t] = "lock" /\ Chosen(t) # {}
  /\ lock' = t
  /\ pc' = [pc EXCEPT ![t] = "batch"]
  /\ todo' = [todo EXCEPT ![t] = Coalesce(Chosen(t), call[t].steer)]
  /\ UNCHANGED <<store, inbound, call, frame, due, sentFrames, wire, engine, life, halted, hits>>

Read(t) ==
  /\ pc[t] = "lock" /\ lock = NoThread
  /\ IF Chosen(t) = {}
       THEN /\ pc' = [pc EXCEPT ![t] = "off"]
            /\ call' = [call EXCEPT ![t] = NoCall]
            /\ UNCHANGED <<lock, todo>>
       ELSE /\ lock' = t
            /\ pc' = [pc EXCEPT ![t] = "batch"]
            /\ todo' = [todo EXCEPT ![t] = Coalesce(Chosen(t), call[t].steer)]
            /\ UNCHANGED call
  /\ UNCHANGED <<store, inbound, frame, due, sentFrames, wire, engine, life, halted, hits>>

(* deliverInbox's decisions for the batch b, before the write.             *)
Deferred(b) == Kind = "script" \/ (b.mode = "prompt" /\ halted)
Retired(b)  == Kind = "claude" /\ b.mode = "abort"
TooBig(b)   == Kind = "fundi" /\ b.big

InUse == {f \in FrameIds : \/ sentFrames[f] # {}
                           \/ \E t \in Threads : frame[t] = f
                           \/ \E q \in {wire, pending, steerBuf} :
                                \E i \in DOMAIN q : f \in q[i].fids}

Fresh(f) == f \notin InUse /\ \A g \in FrameIds : g < f => g \in InUse

Hold(t) ==
  /\ pc[t] = "batch" /\ \E b \in todo[t] : First(b, todo[t]) /\ Deferred(b)
  /\ Return(t)
  /\ UNCHANGED <<store, due, sentFrames, wire, engine, life, halted, hits>>

(* rejectBatch, called with the lock held, calls Queue.Reject, which takes *)
(* the same lock: the goroutine waits for itself and no step leads on.     *)
RejectBatch(t) == pc' = [pc EXCEPT ![t] = "reject"]

(* The frame is recorded BEFORE the write: its ack may come first.         *)
Prepare(t) ==
  \E b \in todo[t] :
    /\ pc[t] = "batch" /\ First(b, todo[t]) /\ ~Deferred(b)
    /\ \/ /\ Retired(b)
          /\ pc' = [pc EXCEPT ![t] = "mark"]
          /\ UNCHANGED <<frame, sentFrames>>
       \/ /\ TooBig(b)
          /\ RejectBatch(t)
          /\ UNCHANGED <<frame, sentFrames>>
       \/ /\ ~Retired(b) /\ ~TooBig(b) /\ ~AwaitAck(b)
          /\ pc' = [pc EXCEPT ![t] = "write"]
          /\ UNCHANGED <<frame, sentFrames>>
       \/ \E f \in FrameIds :
            /\ ~TooBig(b) /\ AwaitAck(b) /\ Fresh(f)
            /\ pc' = [pc EXCEPT ![t] = "write"]
            /\ frame' = [frame EXCEPT ![t] = f]
            /\ sentFrames' = [sentFrames EXCEPT ![f] = b.ids]
    /\ UNCHANGED <<store, lock, inbound, call, todo, due, wire, engine, life, halted, hits>>

(* sendFrame: the target is checked again, and the channel never blocks.   *)
Writable == status = "live" /\ attached /\ Len(wire) < WireCap

Encode_noid(t, b) == [fids |-> {frame[t]}, ids |-> b.ids, mode |-> b.mode]

(* buildInjectionFrame: a frame carries an id only when its ack is awaited.*)
Encode(t, b) ==
  [fids |-> IF frame[t] = 0 THEN {} ELSE {frame[t]}, ids |-> b.ids, mode |-> b.mode]

Write(t) ==
  \E b \in todo[t] :
    /\ pc[t] = "write" /\ First(b, todo[t]) /\ Writable
    /\ wire' = Append(wire, Encode(t, b))
    /\ pc' = [pc EXCEPT ![t] = "mark"]
    /\ UNCHANGED <<store, lock, inbound, call, todo, frame, due, sentFrames, engine, life, halted, hits>>

WriteFails_onward(t) ==
  \E b \in todo[t] :
    /\ pc[t] = "write" /\ First(b, todo[t]) /\ ~Writable /\ todo[t] # {b}
    /\ pc' = [pc EXCEPT ![t] = "batch"]
    /\ todo' = [todo EXCEPT ![t] = @ \ {b}]
    /\ frame' = [frame EXCEPT ![t] = 0]
    /\ sentFrames' = [f \in FrameIds |-> IF f = frame[t] THEN {} ELSE sentFrames[f]]
    /\ UNCHANGED <<store, lock, inbound, call, due, wire, engine, life, halted, hits>>

(* The rows stay pending and the frame is forgotten; deliver stops, so     *)
(* nothing later overtakes.  A process that just died may refuse too.      *)
WriteFails(t) ==
  /\ pc[t] = "write" /\ (~Writable \/ phase = "dead")
  /\ Return(t)
  /\ sentFrames' = [f \in FrameIds |-> IF f = frame[t] THEN {} ELSE sentFrames[f]]
  /\ UNCHANGED <<store, due, wire, engine, life, halted, hits>>

Mark(t) ==
  \E b \in todo[t] :
    /\ pc[t] = "mark" /\ First(b, todo[t])
    /\ st' = IF AwaitAck(b) THEN MarkSent(b.ids) ELSE MarkConsumed(b.ids)
    /\ IF todo[t] = {b}
         THEN Return(t)
         ELSE /\ pc' = [pc EXCEPT ![t] = "batch"]
              /\ todo' = [todo EXCEPT ![t] = @ \ {b}]
              /\ frame' = [frame EXCEPT ![t] = 0]
              /\ UNCHANGED <<lock, inbound, call>>
    /\ UNCHANGED <<n, msg, due, sentFrames, wire, engine, life, halted, hits>>

(* The store's read, its mark or the caller's deadline fails: the rest of  *)
(* the delivery is abandoned and the rows keep the state they have.        *)
DeliverFails(t) ==
  /\ pc[t] \in {"batch", "mark"} \/ (pc[t] = "lock" /\ lock = NoThread)
  /\ Hit("store")
  /\ Return(t)
  /\ UNCHANGED <<store, due, sentFrames, wire, engine, life, halted>>

(* A script child's Receive stream takes every pending row at once.        *)
Pull ==
  /\ Kind = "script" /\ status = "live" /\ phase = "up"
  /\ lock = NoThread /\ PendingRows # {}
  /\ st' = MarkConsumed(PendingRows)
  /\ ran' = [r \in RowIds |-> IF r \in PendingRows THEN ran[r] + 1 ELSE ran[r]]
  /\ UNCHANGED <<n, msg, lock, goers, due, sentFrames, wire, pending, steerBuf, eng, cur, ack,
                 fate, life, halted, hits>>

Sweep ==
  /\ \E r \in RowIds : st[r] \in {"consumed", "dropped"}
  /\ st' = [r \in RowIds |-> IF st[r] \in {"consumed", "dropped"} THEN "deleted" ELSE st[r]]
  /\ UNCHANGED <<n, msg, lock, goers, due, sentFrames, wire, engine, life, halted, hits>>

-----------------------------------------------------------------------------
(* The child: its reader, its turn worker, and the acks.                   *)

Running == phase \in {"up", "stopping", "cancelled"}
InTurn  == eng \in {"turn", "steerack", "enter"}

(* HandleAbort cancels the turn in flight, whose context runTurn published  *)
(* before anything else, and does nothing without one; a steer joins the   *)
(* running turn's buffer.                                                  *)
ReadFrame ==
  /\ Running /\ Kind # "script" /\ wire # <<>>
  /\ wire' = Tail(wire)
  /\ LET e == Head(wire)
         steers == e.mode = "steer" /\ InTurn
     IN  \/ /\ e.mode = "abort"
            /\ aborted' = (aborted \/ InTurn) /\ UNCHANGED <<pending, steerBuf>>
         \/ /\ steers
            /\ steerBuf' = Append(steerBuf, e) /\ UNCHANGED <<pending, aborted>>
         \/ /\ e.mode # "abort" /\ ~steers
            /\ pending' = Append(pending, e) /\ UNCHANGED <<steerBuf, aborted>>
  /\ UNCHANGED <<store, lock, goers, due, sentFrames, eng, cur, ack, lost, ran, life, halted, hits>>

Join_noids(q) == [fids |-> {}, ids |-> UNION {q[i].ids : i \in DOMAIN q}, mode |-> "prompt"]

(* Several entries joined into one, carrying every frame id.               *)
Join(q) == [fids |-> UNION {q[i].fids : i \in DOMAIN q},
            ids  |-> UNION {q[i].ids : i \in DOMAIN q},
            mode |-> "prompt"]

(* consumeFrames' first half: the entries leave sentFrames.                *)
TakeFrames(e) ==
  /\ cur' = e.ids
  /\ ack' = UNION {sentFrames[f] : f \in e.fids}
  /\ sentFrames' = [f \in FrameIds |-> IF f \in e.fids THEN {} ELSE sentFrames[f]]

TakePrompt ==
  /\ Running /\ eng = "idle" /\ pending # <<>>
  /\ TakeFrames(Head(pending))
  /\ pending' = Tail(pending)
  /\ eng' = "ack"
  /\ UNCHANGED <<store, lock, goers, due, wire, steerBuf, fate, ran, life, halted, hits>>

(* PendingUser polls the buffer after each call, a cancelled turn's too.   *)
DrainSteers ==
  /\ Running /\ eng = "turn" /\ steerBuf # <<>>
  /\ TakeFrames(Join(steerBuf))
  /\ steerBuf' = <<>>
  /\ eng' = "steerack"
  /\ UNCHANGED <<store, lock, goers, due, wire, pending, fate, ran, life, halted, hits>>

Consume_unlocked ==
  /\ Running /\ eng \in {"ack", "steerack"}
  /\ st' = MarkConsumed(ack)
  /\ eng' = "enter" /\ ack' = {}
  /\ UNCHANGED <<n, msg, lock, goers, due, sentFrames, wire, pending, steerBuf, cur, fate, ran,
                 life, halted, hits>>

(* Queue.Consume, on the turn worker: the rows are retired BEFORE the turn *)
(* has appended their text to the conversation.                            *)
Consume ==
  /\ Running /\ eng \in {"ack", "steerack"}
  /\ ack # {} => lock = NoThread
  /\ st' = MarkConsumed(ack)
  /\ eng' = "enter" /\ ack' = {}
  /\ UNCHANGED <<n, msg, lock, goers, due, sentFrames, wire, pending, steerBuf, cur, fate, ran,
                 life, halted, hits>>

ConsumeFails ==
  /\ Running /\ eng \in {"ack", "steerack"} /\ ack # {} /\ Hit("store")
  /\ lock = NoThread
  /\ eng' = "enter" /\ ack' = {}
  /\ UNCHANGED <<store, lock, goers, due, sentFrames, wire, pending, steerBuf, cur, fate, ran, life,
                 halted>>

(* The turn ends before its text is in the conversation: a row it acked is *)
(* past redelivery, one it has not acked yet still awaits the reset.       *)
CutDown == lost' = lost \cup {r \in cur : st[r] \notin Open}

(* AppendUser under the turn's context: the text enters the turn, and from *)
(* here on survives, unless an abort or the shutdown cancelled the context.*)
EnterTurn ==
  /\ Running /\ eng = "enter"
  /\ eng' = "turn" /\ cur' = {}
  /\ \/ /\ phase # "cancelled" /\ ~aborted
        /\ ran' = [r \in RowIds |-> IF r \in cur THEN ran[r] + 1 ELSE ran[r]]
        /\ UNCHANGED lost
     \/ /\ phase = "cancelled" \/ aborted
        /\ CutDown /\ UNCHANGED ran
  /\ UNCHANGED <<store, lock, goers, due, sentFrames, wire, pending, steerBuf, ack, aborted, life,
                 halted, hits>>

(* The append fails: the turn ends in an error, its rows already retired.  *)
EnterFails ==
  /\ Running /\ eng = "enter" /\ Hit("append")
  /\ eng' = "turn" /\ cur' = {}
  /\ CutDown
  /\ UNCHANGED <<store, lock, goers, due, sentFrames, wire, pending, steerBuf, ack, aborted, ran,
                 life, halted>>

EndTurn_nodrain ==
  /\ Running /\ eng = "turn"
  /\ eng' = "idle" /\ aborted' = FALSE
  /\ pending' = IF steerBuf = <<>> THEN pending ELSE Append(pending, Join(steerBuf))
  /\ steerBuf' = <<>>
  /\ UNCHANGED <<store, lock, goers, due, sentFrames, wire, cur, ack, lost, ran, life, halted, hits>>

(* The idle transition starts the drain of direct messages; steers that    *)
(* missed the turn are requeued as one unacked prompt.                     *)
EndTurn ==
  /\ Running /\ eng = "turn"
  /\ eng' = "idle" /\ aborted' = FALSE
  /\ pending' = IF steerBuf = <<>> THEN pending ELSE Append(pending, Join(steerBuf))
  /\ steerBuf' = <<>>
  /\ due' = IF status = "live" THEN due \cup {Direct} ELSE due
  /\ UNCHANGED <<store, lock, goers, sentFrames, wire, cur, ack, lost, ran, life, halted, hits>>

-----------------------------------------------------------------------------
(* The end of a process.                                                   *)

(* The turn panicked, before or after its text was appended: what is       *)
(* queued is dropped unacked and the child ends.                           *)
Fatal ==
  /\ Running /\ InTurn /\ Hit("fatal")
  /\ phase' = "dead" /\ eng' = "idle"
  /\ CutDown /\ cur' = {} /\ ack' = {} /\ aborted' = FALSE
  /\ pending' = <<>> /\ steerBuf' = <<>> /\ wire' = <<>>
  /\ UNCHANGED <<store, lock, goers, due, sentFrames, ran,
                 status, record, attached, xpc, recovering, halted>>

(* BeginShutdown, then stdin closes: frames still in the channel are lost, *)
(* the ones already in the pipe are read.                                  *)
Kill ==
  /\ phase = "up" /\ attached /\ Hit("kill")
  /\ phase' = "stopping" /\ status' = "shutting_down"
  /\ \E k \in 0..Len(wire) : wire' = SubSeq(wire, 1, k)
  /\ UNCHANGED <<store, lock, goers, due, sentFrames, engine, record, attached, xpc, recovering, halted>>

(* The grace ran out: every turn's context is cancelled, and the last rung *)
(* closes the reader.                                                      *)
Terminate ==
  /\ phase = "stopping" /\ "terminate" \in Adverse
  /\ phase' = "cancelled"
  /\ wire' \in {wire, <<>>}
  /\ UNCHANGED <<store, lock, goers, due, sentFrames, engine, status, record, attached, xpc,
                 recovering, halted, hits>>

(* run() waits for every queued turn before the child is over.             *)
Finish ==
  /\ phase \in {"stopping", "cancelled"}
  /\ wire = <<>> /\ pending = <<>> /\ eng = "idle"
  /\ phase' = "dead"
  /\ UNCHANGED <<store, lock, goers, due, sentFrames, wire, engine, status, record, attached, xpc,
                 recovering, halted, hits>>

(* handleChildExit, once the process was activated and is gone: MarkExited  *)
(* makes the child resumable; only then come the durable record, the        *)
(* frames, the rows and the manager.                                        *)
MarkExited ==
  /\ phase = "dead" /\ xpc = "none" /\ (attached \/ status # "exited")
  /\ phase' = "exited" /\ status' = "exited" /\ xpc' = "forget"
  /\ wire' = <<>>
  /\ UNCHANGED <<store, lock, goers, due, sentFrames, engine, record, attached, recovering,
                 halted, hits>>

ForgetFrames ==
  /\ xpc = "forget"
  /\ record' = (status # "exited")
  /\ sentFrames' = [f \in FrameIds |-> {}]
  /\ xpc' = "reset"
  /\ UNCHANGED <<store, lock, goers, due, wire, engine, phase, status, attached, recovering,
                 halted, hits>>

ReleaseInbox_drops ==
  /\ xpc = "reset" /\ lock = NoThread
  /\ st' = Drop
  /\ xpc' = "remove"
  /\ UNCHANGED <<n, msg, lock, goers, due, sentFrames, wire, engine, phase, status, record,
                 attached, recovering, halted, hits>>

ReleaseInbox ==
  /\ xpc = "reset" /\ lock = NoThread
  /\ st' = ResetSent
  /\ xpc' = "remove"
  /\ UNCHANGED <<n, msg, lock, goers, due, sentFrames, wire, engine, phase, status, record,
                 attached, recovering, halted, hits>>

RemoveChild ==
  /\ xpc = "remove"
  /\ attached' = FALSE /\ xpc' = "none"
  /\ UNCHANGED <<store, lock, goers, due, sentFrames, wire, engine, phase, status, record,
                 recovering, halted, hits>>

-----------------------------------------------------------------------------
(* Resume, crash recovery and close.                                       *)

(* resumeClaimed looks at the status only; a patient client resumes once   *)
(* the old process is out of the manager.                                  *)
Resume ==
  /\ Kind # "script" /\ status = "exited" /\ phase = "exited" /\ ~recovering
  /\ "impatient" \notin Adverse => xpc = "none"
  /\ Hit("resume")
  /\ phase' = "building"
  /\ UNCHANGED <<store, lock, goers, due, sentFrames, wire, engine, status, record, attached, xpc,
                 recovering, halted>>

(* launchRecoveryResume after a restart.                                   *)
Recover ==
  /\ recovering /\ phase = "exited"
  /\ phase' = "building"
  /\ UNCHANGED <<store, lock, goers, due, sentFrames, wire, engine, status, record, attached, xpc,
                 recovering, halted, hits>>

(* The spawn or the engine's build fails: the child stays exited.          *)
ResumeFails ==
  /\ phase = "building" /\ status = "exited" /\ Hit("refuse")
  /\ phase' = "exited" /\ recovering' = FALSE
  /\ UNCHANGED <<store, lock, goers, due, sentFrames, wire, engine, status, record, attached, xpc,
                 halted>>

(* OnConversationResolved: unconfirmed rows go back to pending before the  *)
(* engine reads a frame.  A child already in the store makes its idle      *)
(* transition now; a resume's own startup transitions are discarded.  A    *)
(* recovered engine may first finish the turn the crash cut (startupResume)*)
BuildEngine ==
  /\ phase = "building" /\ lock = NoThread
  /\ st' = IF Kind = "fundi" \/ recovering THEN ResetSent ELSE st
  /\ phase' = "up"
  /\ eng' \in {"idle"} \cup (IF recovering /\ Kind = "fundi" THEN {"turn"} ELSE {})
  /\ due' = IF attached /\ status = "live" THEN due \cup {Direct} ELSE due
  /\ UNCHANGED <<n, msg, lock, goers, sentFrames, wire, pending, steerBuf, cur, ack, fate, ran,
                 status, record, attached, xpc, recovering, halted, hits>>

(* activateLiveChild: after the engine answered, or after a five second    *)
(* stall; the process may be dead by then.  Only recovery replays the queue.*)
Activate ==
  /\ status = "exited" /\ (~attached \/ xpc # "none")
  /\ phase \in {"up", "dead"} \/ (phase = "building" /\ "early" \in Adverse)
  /\ status' = IF phase = "dead" THEN "exited" ELSE "live"
  /\ record' = (phase # "dead")
  /\ attached' = TRUE
  /\ due' = IF recovering THEN due \cup {All} ELSE due
  /\ recovering' = FALSE
  /\ UNCHANGED <<store, lock, goers, sentFrames, wire, engine, phase, xpc, halted, hits>>

(* The daemon dies: the rows and the record survive.  A child whose record *)
(* does not say exited is recovered; else its rows are reset at boot.      *)
Crash ==
  /\ status # "absent" /\ Hit("crash")
  /\ lock' = NoThread
  /\ inbound' = [t \in Threads |-> NoMsg]
  /\ pc' = [t \in Threads |-> "off"]
  /\ call' = [t \in Threads |-> NoCall]
  /\ todo' = [t \in Threads |-> {}]
  /\ frame' = [t \in Threads |-> 0]
  /\ due' = {}
  /\ sentFrames' = [f \in FrameIds |-> {}]
  /\ wire' = <<>> /\ pending' = <<>> /\ steerBuf' = <<>>
  /\ CutDown /\ eng' = "idle" /\ cur' = {} /\ ack' = {} /\ aborted' = FALSE
  /\ phase' = "exited" /\ status' = "exited" /\ attached' = FALSE
  /\ xpc' = "none"
  /\ recovering' = (Kind # "script" /\ record)
  /\ st' = IF recovering' THEN st ELSE ResetSent
  /\ UNCHANGED <<n, msg, ran, record, halted>>

(* Close: the store forgets the child, then its queue is dropped.          *)
Close ==
  /\ status = "exited" /\ phase = "exited" /\ ~recovering /\ xpc = "none" /\ Hit("close")
  /\ status' = "absent" /\ xpc' = "drop"
  /\ sentFrames' = [f \in FrameIds |-> {}]
  /\ UNCHANGED <<store, lock, goers, due, wire, engine, phase, record, attached, recovering, halted>>

DropInbox ==
  /\ xpc = "drop" /\ lock = NoThread
  /\ st' = Drop
  /\ xpc' = "none"
  /\ UNCHANGED <<n, msg, lock, goers, due, sentFrames, wire, engine, phase, status, record,
                 attached, recovering, halted, hits>>

(* The budget runs out; when it is raised the held queue is replayed.      *)
Breach ==
  /\ ~halted /\ Hit("budget")
  /\ halted' = TRUE
  /\ UNCHANGED <<store, lock, goers, due, sentFrames, wire, engine, life>>

Raise ==
  /\ halted
  /\ halted' = FALSE
  /\ due' = IF status \in {"live", "shutting_down"} THEN due \cup {All} ELSE due
  /\ UNCHANGED <<store, lock, goers, sentFrames, wire, engine, life, hits>>

-----------------------------------------------------------------------------
Deliver(t) == \/ Persist(t) \/ Read(t) \/ Hold(t) \/ Prepare(t)
              \/ Write(t) \/ WriteFails(t) \/ Mark(t)

StoreFails == ConsumeFails \/ \E t \in Threads : DeliverFails(t)

(* What can happen to a child that is written to, while the store answers. *)
Steps ==
  \/ \E t \in Threads : \/ \E m \in Msgs : Submit(t, m)
                        \/ Start(t) \/ Deliver(t)
  \/ Sweep
  \/ ReadFrame \/ TakePrompt \/ DrainSteers \/ Consume
  \/ EnterTurn \/ EnterFails \/ EndTurn
  \/ Fatal \/ Kill \/ Terminate \/ Finish
  \/ MarkExited \/ ForgetFrames \/ ReleaseInbox \/ RemoveChild
  \/ Resume \/ Recover \/ ResumeFails \/ BuildEngine \/ Activate
  \/ Crash \/ Close \/ DropInbox \/ Breach \/ Raise

Next == Steps \/ StoreFails \/ Pull

Spec == Init /\ [][Next]_vars

(* Goroutines run; a Go mutex starves nobody; turns end; the exit handler  *)
(* and crash recovery run on their own.  Nobody has to resume or close.    *)
Fairness ==
  /\ \A t \in Threads : WF_vars(Deliver(t)) /\ SF_vars(Read(t)) /\ WF_vars(Start(t))
  /\ WF_vars(ReadFrame) /\ WF_vars(TakePrompt) /\ WF_vars(DrainSteers)
  /\ SF_vars(Consume) /\ WF_vars(EnterTurn) /\ WF_vars(EndTurn) /\ WF_vars(Finish)
  /\ WF_vars(MarkExited) /\ WF_vars(ForgetFrames) /\ SF_vars(ReleaseInbox)
  /\ WF_vars(RemoveChild) /\ WF_vars(Recover) /\ SF_vars(BuildEngine)
  /\ WF_vars(Activate) /\ SF_vars(DropInbox) /\ WF_vars(Raise) /\ WF_vars(Pull)

-----------------------------------------------------------------------------
(* Properties.                                                             *)

Delivering(t) == pc[t] \in {"batch", "write", "mark", "reject"}

StoreOK ==
  /\ n \in 0..MaxRows
  /\ msg \in [RowIds -> Shapes]
  /\ st \in [RowIds -> States]

DeliveryOK ==
  /\ lock \in Threads \cup {NoThread}
  /\ inbound \in [Threads -> Shapes]
  /\ pc \in [Threads -> {"off", "persist", "lock", "batch", "write", "mark", "reject"}]
  /\ call \in [Threads -> Calls]
  /\ todo \in [Threads -> SUBSET Batch]
  /\ frame \in [Threads -> 0..MaxFrames]
  /\ due \subseteq Sources \cup {All}

EngineOK ==
  /\ sentFrames \in [FrameIds -> SUBSET RowIds]
  /\ wire \in Seq(Entry) /\ pending \in Seq(Entry) /\ steerBuf \in Seq(Entry)
  /\ eng \in {"idle", "ack", "steerack", "enter", "turn"}
  /\ cur \subseteq RowIds /\ ack \subseteq RowIds
  /\ ran \in [RowIds -> Nat]

FateOK == aborted \in BOOLEAN /\ lost \subseteq RowIds

LifeOK ==
  /\ phase \in {"building", "up", "stopping", "cancelled", "dead", "exited"}
  /\ status \in {"live", "shutting_down", "exited", "absent"}
  /\ record \in BOOLEAN /\ attached \in BOOLEAN /\ recovering \in BOOLEAN
  /\ xpc \in {"none", "forget", "reset", "remove", "drop"}
  /\ halted \in BOOLEAN

(* The shape of the state: what the store, the goroutines, the child and   *)
(* its life cycle may hold.                                                *)
TypeOK == StoreOK /\ DeliveryOK /\ EngineOK /\ FateOK /\ LifeOK /\ hits \in 0..MaxHits

(* While a delivery runs it alone holds the child's lock, and every row it *)
(* has yet to hand over is still pending: nobody else can send, ack, reset *)
(* or drop a row between the read and the mark (queue.go, deliver).        *)
RowsHeld ==
  \A t \in Threads : Delivering(t) =>
    /\ lock = t
    /\ \A b \in todo[t] : \A r \in b.ids : st[r] = "pending"

(* Why the order holds: what a delivery still has to hand over is a set of *)
(* accepted rows in disjoint batches, grouped by source, direct messages   *)
(* one by one, and no earlier direct message waits outside it (queue.go,   *)
(* deliver; coalesce.go, Coalesce).                                        *)
BatchesSound ==
  \A t \in Threads : Delivering(t) => \A b \in todo[t] :
    /\ b.ids # {} /\ \A r \in b.ids : r <= n /\ msg[r].source = b.source
    /\ b.source = Direct => \E r \in RowIds : b.ids = {r}
    /\ \A c \in todo[t] : c # b => b.ids \cap c.ids = {}

BacklogHeld ==
  \A t \in Threads : Delivering(t) => \A b \in todo[t] : b.source = Direct =>
    \A r \in b.ids : \A q \in RowIds :
      q < r /\ msg[q].source = Direct /\ st[q] = "pending" =>
        \E c \in todo[t] : c.source = Direct /\ q \in c.ids

RowsAccepted == \A r \in RowIds : r > n => st[r] = "none"

(* The inductive invariant of the delivery critical section.               *)
DeliveryInv == RowsHeld /\ BatchesSound /\ BacklogHeld /\ RowsAccepted

Queues == <<wire, pending, steerBuf>>

Held == Len(wire) + Len(pending) + Len(steerBuf)

Copies(r) == {x \in (1..3) \X (1..Held) :
                x[2] \in DOMAIN Queues[x[1]] /\ r \in Queues[x[1]][x[2]].ids}

(* The child never holds two copies of a message, waiting or being acked:  *)
(* the immediate delivery, the idle drain, a replay and a flush never both *)
(* hand the same row over (queue.go, the comment on the critical section). *)
OneCopy == \A r \in RowIds : Cardinality(Copies(r)) + Cardinality(cur \cap {r}) <= 1

(* No message enters two turns, over every crash, exit and resume.         *)
RunOnce == \A r \in RowIds : ran[r] <= 1

(* A row a fundi child confirmed has entered a live turn, or is in the     *)
(* worker's hands on its way into one, or was in them when that turn was   *)
(* cut down before its first write: by an abort, the end of the shutdown's *)
(* grace, a failed append, a panic or the daemon's death, and nothing else *)
(* (engine.go, the ack point of the turn worker).  No ack retires a row    *)
(* that waits in the channel, a queue or the steer buffer.                 *)
AckedMeansRan ==
  \A r \in RowIds :
    st[r] = "consumed" /\ msg[r].mode # "abort" => ran[r] > 0 \/ r \in cur \cup lost

(* While a child runs undisturbed, a row marked sent is one it still holds *)
(* under a frame its ack will resolve, or is acking: none is stranded in a *)
(* state no drain ever looks at (inbox_wiring.go, sentFrames).             *)
NothingStranded ==
  phase = "up" /\ xpc = "none" =>
    \A r \in RowIds : st[r] = "sent" =>
      \/ r \in ack
      \/ \E f \in FrameIds : /\ r \in sentFrames[f]
                             /\ \E q \in 1..3 : \E i \in DOMAIN Queues[q] :
                                  f \in Queues[q][i].fids

InOrder ==
  Len(wire') > Len(wire) =>
    \A r \in wire'[Len(wire')].ids : msg[r].source = Direct =>
      \A q \in RowIds : q < r /\ msg[q].source = Direct => st[q] # "pending"

(* A direct message is written to the child only when no earlier direct    *)
(* message is still waiting: a failed write, a hold or a reset never lets  *)
(* a later one overtake (queue.go, "Stop at the first failure").           *)
DirectOrder == [][InOrder]_vars

(* A turn worker took row r, or its child was closed.                      *)
Settled(r) == ran[r] > 0 \/ st[r] \in {"consumed", "dropped", "deleted"}

(* A direct prompt, once accepted, is taken into a turn: a full channel, a *)
(* budget hold and a daemon crash delay it, and the idle drain, the raise  *)
(* and the recovery replay bring it back (inbox_wiring.go,                 *)
(* acceptAndDeliver).                                                      *)
EventuallyRun ==
  \A r \in RowIds : (st[r] = "pending" /\ msg[r].source = Direct /\ ~msg[r].big) ~> Settled(r)

-----------------------------------------------------------------------------
(* What the sender can see of row r.                                       *)
Box(r) == IF ran[r] > 0 THEN "ran"
          ELSE IF st[r] = "none" THEN "none"
          ELSE IF st[r] \in Open THEN "queued"
          ELSE IF r \in cur THEN "taken" ELSE "gone"

Mail == INSTANCE Mailbox WITH
          Rows <- RowIds, Shapes <- Shapes,
          box <- [r \in RowIds |-> Box(r)], closed <- status = "absent"

(* The inbox of a fundi child that is sent no abort implements the         *)
(* mailbox: over every crash, exit, resume and close, each accepted        *)
(* message is taken by one turn, direct prompts in order, and only a       *)
(* close, or a turn cut down between its ack and its first write, loses    *)
(* one.                                                                    *)
ImplementsMailbox == Mail!MailboxSpec
=============================================================================

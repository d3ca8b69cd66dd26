---------------------------- MODULE KindsProofs ----------------------------
(***************************************************************************)
(* The properties MCKinds checks of the three runtimes, from the theorems  *)
(* of InboxProofs: the instance of each runtime is one of those modules,   *)
(* its constants keep InboxAssumption, and a behaviour of KindsSpec is one *)
(* of the instance its kind chose at the start.                            *)
(***************************************************************************)
EXTENDS MCKinds, TLAPS

InFundi == INSTANCE InboxProofs WITH
  Kind <- "fundi", Msgs <- AbortMsgs, Legacy <- OldBig, WireCap <- 1,
  Adverse <- {"store", "early", "impatient", "fatal", "resume", "refuse", "append", "crash", "kill", "terminate"}

InClaude == INSTANCE InboxProofs WITH
  Kind <- "claude", Msgs <- MixedMsgs, Legacy <- OldAbort,
  Adverse <- {"fatal", "kill", "terminate", "resume", "budget", "close"}

InScript == INSTANCE InboxProofs WITH
  Kind <- "script", Msgs <- AbortMsgs, Legacy <- {},
  Adverse <- {"crash", "kill", "close", "budget"}

-----------------------------------------------------------------------------
(* The messages the runs use are of the shapes InboxAssumption asks for.   *)
MsgsOf(S) == [mode : Modes, source : S, big : BOOLEAN]

LEMMA MessagesAre ==
  ASSUME NEW S, Direct \in S
  PROVE  /\ OldBig \subseteq MsgsOf(S) /\ OldAbort \subseteq MsgsOf(S)
         /\ "subagents" \in S => AbortMsgs \subseteq MsgsOf(S) /\ MixedMsgs \subseteq MsgsOf(S)
<1>1. \A md \in Modes, so \in S, bg \in BOOLEAN : M(md, so, bg) \in MsgsOf(S)
  BY DEF M, MsgsOf
<1>2. /\ M("prompt", Direct, FALSE) \in MsgsOf(S) /\ M("prompt", Direct, TRUE) \in MsgsOf(S)
      /\ M("steer", Direct, FALSE) \in MsgsOf(S) /\ M("abort", Direct, FALSE) \in MsgsOf(S)
      /\ "subagents" \in S => /\ M("prompt", "subagents", FALSE) \in MsgsOf(S)
                              /\ M("steer", "subagents", FALSE) \in MsgsOf(S)
  BY <1>1 DEF Modes
<1>. QED
  BY <1>2 DEF AbortMsgs, MixedMsgs, OldBig, OldAbort

LEMMA SubagentsAre ==
  /\ "subagents" \in {m.source : m \in AbortMsgs}
  /\ "subagents" \in {m.source : m \in MixedMsgs}
<1>1. M("steer", "subagents", FALSE) \in AbortMsgs /\ M("prompt", "subagents", FALSE) \in MixedMsgs
  BY DEF AbortMsgs, MixedMsgs
<1>2. M("steer", "subagents", FALSE).source = "subagents" /\ M("prompt", "subagents", FALSE).source = "subagents"
  BY DEF M
<1>. QED
  BY <1>1, <1>2

LEMMA FundiAssumption == InFundi!InboxAssumption
<1>1. {"store", "early", "impatient", "fatal", "resume", "refuse", "append", "crash", "kill", "terminate"} \subseteq InFundi!Events
  BY DEF InFundi!Events
<1>2. Direct \in InFundi!Sources /\ "subagents" \in InFundi!Sources
  BY SubagentsAre DEF InFundi!Sources, InFundi!Direct, Direct
<1>3. AbortMsgs \cup OldBig \subseteq [mode : InFundi!Modes, source : InFundi!Sources, big : BOOLEAN]
  BY <1>2, MessagesAre DEF MsgsOf, InFundi!Modes, Modes
<1>. QED
  BY <1>1, <1>3, InboxAssumption DEF InFundi!InboxAssumption, InboxAssumption, InFundi!NoThread, NoThread

LEMMA ClaudeAssumption == InClaude!InboxAssumption
<1>1. {"fatal", "kill", "terminate", "resume", "budget", "close"} \subseteq InClaude!Events
  BY DEF InClaude!Events
<1>2. Direct \in InClaude!Sources /\ "subagents" \in InClaude!Sources
  BY SubagentsAre DEF InClaude!Sources, InClaude!Direct, Direct
<1>3. MixedMsgs \cup OldAbort \subseteq [mode : InClaude!Modes, source : InClaude!Sources, big : BOOLEAN]
  BY <1>2, MessagesAre DEF MsgsOf, InClaude!Modes, Modes
<1>. QED
  BY <1>1, <1>3, InboxAssumption DEF InClaude!InboxAssumption, InboxAssumption, InClaude!NoThread, NoThread

LEMMA ScriptAssumption == InScript!InboxAssumption
<1>1. {"crash", "kill", "close", "budget"} \subseteq InScript!Events
  BY DEF InScript!Events
<1>2. Direct \in InScript!Sources /\ "subagents" \in InScript!Sources
  BY SubagentsAre DEF InScript!Sources, InScript!Direct, Direct
<1>3. AbortMsgs \cup {} \subseteq [mode : InScript!Modes, source : InScript!Sources, big : BOOLEAN]
  BY <1>2, MessagesAre DEF MsgsOf, InScript!Modes, Modes
<1>. QED
  BY <1>1, <1>3, InboxAssumption DEF InScript!InboxAssumption, InboxAssumption, InScript!NoThread, NoThread

-----------------------------------------------------------------------------
(* The instance of MCKinds and that of InboxProofs are the same.           *)
LEMMA FundiSame == (Fundi!Init => InFundi!Init) /\ (Fundi!Next => InFundi!Next)
<1>1. Fundi!Init => InFundi!Init
  BY Zenon DEF
    Fundi!RowIds, Fundi!FrameIds, Fundi!Direct, Fundi!NoThread, Fundi!NoCall, Fundi!NoMsg, Fundi!Init,
    InFundi!RowIds, InFundi!FrameIds, InFundi!Direct, InFundi!NoThread, InFundi!NoCall, InFundi!NoMsg,
    InFundi!Init
<1>2. \A t \in Threads, m \in AbortMsgs : Fundi!Submit(t, m) => InFundi!Submit(t, m)
  BY Zenon DEF
    Fundi!Direct, Fundi!store, Fundi!fate, Fundi!engine, Fundi!life, Fundi!ValidTarget, Fundi!Refused,
    Fundi!Submit, Fundi!Cardinality, InFundi!Direct, InFundi!store, InFundi!fate, InFundi!engine,
    InFundi!life, InFundi!ValidTarget, InFundi!Refused, InFundi!Submit, InFundi!Cardinality
<1>3. \A t \in Threads : (Fundi!Read(t) => InFundi!Read(t)) /\ (Fundi!Hold(t) => InFundi!Hold(t))
  BY Zenon DEF
    Fundi!RowIds, Fundi!Direct, Fundi!All, Fundi!NoThread, Fundi!NoCall, Fundi!store, Fundi!fate,
    Fundi!engine, Fundi!life, Fundi!PendingRows, Fundi!DirectBatch, Fundi!GroupBatch, Fundi!Coalesce,
    Fundi!Before, Fundi!First, Fundi!Return, Fundi!Chosen, Fundi!Read, Fundi!Deferred, Fundi!Hold,
    InFundi!RowIds, InFundi!Direct, InFundi!All, InFundi!NoThread, InFundi!NoCall, InFundi!store,
    InFundi!fate, InFundi!engine, InFundi!life, InFundi!PendingRows, InFundi!DirectBatch,
    InFundi!GroupBatch, InFundi!Coalesce, InFundi!Before, InFundi!First, InFundi!Return, InFundi!Chosen,
    InFundi!Read, InFundi!Deferred, InFundi!Hold
<1>4. \A t \in Threads : (Fundi!Prepare(t) => InFundi!Prepare(t)) /\ (Fundi!Write(t) => InFundi!Write(t))
  BY Zenon DEF
    Fundi!FrameIds, Fundi!Direct, Fundi!store, Fundi!fate, Fundi!engine, Fundi!life, Fundi!Before,
    Fundi!First, Fundi!AwaitAck, Fundi!Deferred, Fundi!Retired, Fundi!TooBig, Fundi!InUse, Fundi!Fresh,
    Fundi!RejectBatch, Fundi!Prepare, Fundi!Writable, Fundi!Encode, Fundi!Write, InFundi!FrameIds,
    InFundi!Direct, InFundi!store, InFundi!fate, InFundi!engine, InFundi!life, InFundi!Before,
    InFundi!First, InFundi!AwaitAck, InFundi!Deferred, InFundi!Retired, InFundi!TooBig, InFundi!InUse,
    InFundi!Fresh, InFundi!RejectBatch, InFundi!Prepare, InFundi!Writable, InFundi!Encode, InFundi!Write
<1>5. \A t \in Threads : /\ (Fundi!Start(t) => InFundi!Start(t)) /\ (Fundi!Persist(t) => InFundi!Persist(t))
                         /\ (Fundi!WriteFails(t) => InFundi!WriteFails(t)) /\ (Fundi!Mark(t) => InFundi!Mark(t))
  BY Zenon DEF
    Fundi!RowIds, Fundi!FrameIds, Fundi!Direct, Fundi!All, Fundi!Open, Fundi!NoThread, Fundi!NoCall,
    Fundi!NoMsg, Fundi!store, Fundi!fate, Fundi!engine, Fundi!life, Fundi!MarkSent, Fundi!MarkConsumed,
    Fundi!Before, Fundi!First, Fundi!AwaitAck, Fundi!Persist, Fundi!Start, Fundi!Return, Fundi!Writable,
    Fundi!WriteFails, Fundi!Mark, InFundi!RowIds, InFundi!FrameIds, InFundi!Direct, InFundi!All,
    InFundi!Open, InFundi!NoThread, InFundi!NoCall, InFundi!NoMsg, InFundi!store, InFundi!fate,
    InFundi!engine, InFundi!life, InFundi!MarkSent, InFundi!MarkConsumed, InFundi!Before, InFundi!First,
    InFundi!AwaitAck, InFundi!Persist, InFundi!Start, InFundi!Return, InFundi!Writable,
    InFundi!WriteFails, InFundi!Mark
<1>6. /\ (Fundi!Sweep => InFundi!Sweep) /\ (Fundi!StoreFails => InFundi!StoreFails)
      /\ (Fundi!Pull => InFundi!Pull) /\ (Fundi!ReadFrame => InFundi!ReadFrame)
      /\ (Fundi!TakePrompt => InFundi!TakePrompt) /\ (Fundi!DrainSteers => InFundi!DrainSteers)
      /\ (Fundi!Consume => InFundi!Consume) /\ (Fundi!EnterTurn => InFundi!EnterTurn)
      /\ (Fundi!EnterFails => InFundi!EnterFails) /\ (Fundi!EndTurn => InFundi!EndTurn)
  BY Zenon DEF
    Fundi!RowIds, Fundi!FrameIds, Fundi!Direct, Fundi!Open, Fundi!NoThread, Fundi!NoCall, Fundi!store,
    Fundi!goers, Fundi!fate, Fundi!engine, Fundi!life, Fundi!Hit, Fundi!MarkConsumed, Fundi!PendingRows,
    Fundi!Return, Fundi!DeliverFails, Fundi!Pull, Fundi!Sweep, Fundi!Running, Fundi!InTurn,
    Fundi!ReadFrame, Fundi!Join, Fundi!TakeFrames, Fundi!TakePrompt, Fundi!DrainSteers, Fundi!Consume,
    Fundi!ConsumeFails, Fundi!CutDown, Fundi!EnterTurn, Fundi!EnterFails, Fundi!EndTurn,
    Fundi!StoreFails, InFundi!RowIds, InFundi!FrameIds, InFundi!Direct, InFundi!Open, InFundi!NoThread,
    InFundi!NoCall, InFundi!store, InFundi!goers, InFundi!fate, InFundi!engine, InFundi!life,
    InFundi!Hit, InFundi!MarkConsumed, InFundi!PendingRows, InFundi!Return, InFundi!DeliverFails,
    InFundi!Pull, InFundi!Sweep, InFundi!Running, InFundi!InTurn, InFundi!ReadFrame, InFundi!Join,
    InFundi!TakeFrames, InFundi!TakePrompt, InFundi!DrainSteers, InFundi!Consume, InFundi!ConsumeFails,
    InFundi!CutDown, InFundi!EnterTurn, InFundi!EnterFails, InFundi!EndTurn, InFundi!StoreFails
<1>7. /\ (Fundi!Fatal => InFundi!Fatal) /\ (Fundi!Kill => InFundi!Kill)
      /\ (Fundi!Terminate => InFundi!Terminate) /\ (Fundi!Finish => InFundi!Finish)
      /\ (Fundi!MarkExited => InFundi!MarkExited) /\ (Fundi!ForgetFrames => InFundi!ForgetFrames)
      /\ (Fundi!ReleaseInbox => InFundi!ReleaseInbox) /\ (Fundi!RemoveChild => InFundi!RemoveChild)
  BY Zenon DEF
    Fundi!RowIds, Fundi!FrameIds, Fundi!Open, Fundi!NoThread, Fundi!store, Fundi!goers, Fundi!fate,
    Fundi!engine, Fundi!Hit, Fundi!ResetSent, Fundi!Running, Fundi!InTurn, Fundi!CutDown, Fundi!Fatal,
    Fundi!Kill, Fundi!Terminate, Fundi!Finish, Fundi!MarkExited, Fundi!ForgetFrames, Fundi!ReleaseInbox,
    Fundi!RemoveChild, InFundi!RowIds, InFundi!FrameIds, InFundi!Open, InFundi!NoThread, InFundi!store,
    InFundi!goers, InFundi!fate, InFundi!engine, InFundi!Hit, InFundi!ResetSent, InFundi!Running,
    InFundi!InTurn, InFundi!CutDown, InFundi!Fatal, InFundi!Kill, InFundi!Terminate, InFundi!Finish,
    InFundi!MarkExited, InFundi!ForgetFrames, InFundi!ReleaseInbox, InFundi!RemoveChild
<1>8. /\ (Fundi!Resume => InFundi!Resume) /\ (Fundi!Recover => InFundi!Recover)
      /\ (Fundi!ResumeFails => InFundi!ResumeFails) /\ (Fundi!BuildEngine => InFundi!BuildEngine)
      /\ (Fundi!Activate => InFundi!Activate) /\ (Fundi!Crash => InFundi!Crash)
      /\ (Fundi!Close => InFundi!Close) /\ (Fundi!DropInbox => InFundi!DropInbox)
      /\ (Fundi!Breach => InFundi!Breach) /\ (Fundi!Raise => InFundi!Raise)
  BY Zenon DEF
    Fundi!RowIds, Fundi!FrameIds, Fundi!Direct, Fundi!All, Fundi!Open, Fundi!NoThread, Fundi!NoCall,
    Fundi!NoMsg, Fundi!store, Fundi!goers, Fundi!fate, Fundi!engine, Fundi!life, Fundi!Hit,
    Fundi!ResetSent, Fundi!Drop, Fundi!CutDown, Fundi!Resume, Fundi!Recover, Fundi!ResumeFails,
    Fundi!BuildEngine, Fundi!Activate, Fundi!Crash, Fundi!Close, Fundi!DropInbox, Fundi!Breach,
    Fundi!Raise, InFundi!RowIds, InFundi!FrameIds, InFundi!Direct, InFundi!All, InFundi!Open,
    InFundi!NoThread, InFundi!NoCall, InFundi!NoMsg, InFundi!store, InFundi!goers, InFundi!fate,
    InFundi!engine, InFundi!life, InFundi!Hit, InFundi!ResetSent, InFundi!Drop, InFundi!CutDown,
    InFundi!Resume, InFundi!Recover, InFundi!ResumeFails, InFundi!BuildEngine, InFundi!Activate,
    InFundi!Crash, InFundi!Close, InFundi!DropInbox, InFundi!Breach, InFundi!Raise
<1>. QED
  BY <1>1, <1>2, <1>3, <1>4, <1>5, <1>6, <1>7, <1>8
  DEF Fundi!Next, Fundi!Steps, Fundi!Deliver, InFundi!Next, InFundi!Steps, InFundi!Deliver

LEMMA ClaudeSame == (Claude!Init => InClaude!Init) /\ (Claude!Next => InClaude!Next)
<1>1. Claude!Init => InClaude!Init
  BY Zenon DEF
    Claude!RowIds, Claude!FrameIds, Claude!Direct, Claude!NoThread, Claude!NoCall, Claude!NoMsg,
    Claude!Init, InClaude!RowIds, InClaude!FrameIds, InClaude!Direct, InClaude!NoThread,
    InClaude!NoCall, InClaude!NoMsg, InClaude!Init
<1>2. \A t \in Threads, m \in MixedMsgs : Claude!Submit(t, m) => InClaude!Submit(t, m)
  BY Zenon DEF
    Claude!Direct, Claude!store, Claude!fate, Claude!engine, Claude!life, Claude!ValidTarget,
    Claude!Refused, Claude!Submit, Claude!Cardinality, InClaude!Direct, InClaude!store, InClaude!fate,
    InClaude!engine, InClaude!life, InClaude!ValidTarget, InClaude!Refused, InClaude!Submit,
    InClaude!Cardinality
<1>3. \A t \in Threads : (Claude!Read(t) => InClaude!Read(t)) /\ (Claude!Hold(t) => InClaude!Hold(t))
  BY Zenon DEF
    Claude!RowIds, Claude!Direct, Claude!All, Claude!NoThread, Claude!NoCall, Claude!store, Claude!fate,
    Claude!engine, Claude!life, Claude!PendingRows, Claude!DirectBatch, Claude!GroupBatch,
    Claude!Coalesce, Claude!Before, Claude!First, Claude!Return, Claude!Chosen, Claude!Read,
    Claude!Deferred, Claude!Hold, InClaude!RowIds, InClaude!Direct, InClaude!All, InClaude!NoThread,
    InClaude!NoCall, InClaude!store, InClaude!fate, InClaude!engine, InClaude!life,
    InClaude!PendingRows, InClaude!DirectBatch, InClaude!GroupBatch, InClaude!Coalesce, InClaude!Before,
    InClaude!First, InClaude!Return, InClaude!Chosen, InClaude!Read, InClaude!Deferred, InClaude!Hold
<1>4. \A t \in Threads : (Claude!Prepare(t) => InClaude!Prepare(t)) /\ (Claude!Write(t) => InClaude!Write(t))
  BY Zenon DEF
    Claude!FrameIds, Claude!Direct, Claude!store, Claude!fate, Claude!engine, Claude!life,
    Claude!Before, Claude!First, Claude!AwaitAck, Claude!Deferred, Claude!Retired, Claude!TooBig,
    Claude!InUse, Claude!Fresh, Claude!RejectBatch, Claude!Prepare, Claude!Writable, Claude!Encode,
    Claude!Write, InClaude!FrameIds, InClaude!Direct, InClaude!store, InClaude!fate, InClaude!engine,
    InClaude!life, InClaude!Before, InClaude!First, InClaude!AwaitAck, InClaude!Deferred,
    InClaude!Retired, InClaude!TooBig, InClaude!InUse, InClaude!Fresh, InClaude!RejectBatch,
    InClaude!Prepare, InClaude!Writable, InClaude!Encode, InClaude!Write
<1>5. \A t \in Threads : /\ (Claude!Start(t) => InClaude!Start(t)) /\ (Claude!Persist(t) => InClaude!Persist(t))
                         /\ (Claude!WriteFails(t) => InClaude!WriteFails(t)) /\ (Claude!Mark(t) => InClaude!Mark(t))
  BY Zenon DEF
    Claude!RowIds, Claude!FrameIds, Claude!Direct, Claude!All, Claude!Open, Claude!NoThread,
    Claude!NoCall, Claude!NoMsg, Claude!store, Claude!fate, Claude!engine, Claude!life, Claude!MarkSent,
    Claude!MarkConsumed, Claude!Before, Claude!First, Claude!AwaitAck, Claude!Persist, Claude!Start,
    Claude!Return, Claude!Writable, Claude!WriteFails, Claude!Mark, InClaude!RowIds, InClaude!FrameIds,
    InClaude!Direct, InClaude!All, InClaude!Open, InClaude!NoThread, InClaude!NoCall, InClaude!NoMsg,
    InClaude!store, InClaude!fate, InClaude!engine, InClaude!life, InClaude!MarkSent,
    InClaude!MarkConsumed, InClaude!Before, InClaude!First, InClaude!AwaitAck, InClaude!Persist,
    InClaude!Start, InClaude!Return, InClaude!Writable, InClaude!WriteFails, InClaude!Mark
<1>6. /\ (Claude!Sweep => InClaude!Sweep) /\ (Claude!StoreFails => InClaude!StoreFails)
      /\ (Claude!Pull => InClaude!Pull) /\ (Claude!ReadFrame => InClaude!ReadFrame)
      /\ (Claude!TakePrompt => InClaude!TakePrompt) /\ (Claude!DrainSteers => InClaude!DrainSteers)
      /\ (Claude!Consume => InClaude!Consume) /\ (Claude!EnterTurn => InClaude!EnterTurn)
      /\ (Claude!EnterFails => InClaude!EnterFails) /\ (Claude!EndTurn => InClaude!EndTurn)
  BY Zenon DEF
    Claude!RowIds, Claude!FrameIds, Claude!Direct, Claude!Open, Claude!NoThread, Claude!NoCall,
    Claude!store, Claude!goers, Claude!fate, Claude!engine, Claude!life, Claude!Hit,
    Claude!MarkConsumed, Claude!PendingRows, Claude!Return, Claude!DeliverFails, Claude!Pull,
    Claude!Sweep, Claude!Running, Claude!InTurn, Claude!ReadFrame, Claude!Join, Claude!TakeFrames,
    Claude!TakePrompt, Claude!DrainSteers, Claude!Consume, Claude!ConsumeFails, Claude!CutDown,
    Claude!EnterTurn, Claude!EnterFails, Claude!EndTurn, Claude!StoreFails, InClaude!RowIds,
    InClaude!FrameIds, InClaude!Direct, InClaude!Open, InClaude!NoThread, InClaude!NoCall,
    InClaude!store, InClaude!goers, InClaude!fate, InClaude!engine, InClaude!life, InClaude!Hit,
    InClaude!MarkConsumed, InClaude!PendingRows, InClaude!Return, InClaude!DeliverFails, InClaude!Pull,
    InClaude!Sweep, InClaude!Running, InClaude!InTurn, InClaude!ReadFrame, InClaude!Join,
    InClaude!TakeFrames, InClaude!TakePrompt, InClaude!DrainSteers, InClaude!Consume,
    InClaude!ConsumeFails, InClaude!CutDown, InClaude!EnterTurn, InClaude!EnterFails, InClaude!EndTurn,
    InClaude!StoreFails
<1>7. /\ (Claude!Fatal => InClaude!Fatal) /\ (Claude!Kill => InClaude!Kill)
      /\ (Claude!Terminate => InClaude!Terminate) /\ (Claude!Finish => InClaude!Finish)
      /\ (Claude!MarkExited => InClaude!MarkExited)
      /\ (Claude!ForgetFrames => InClaude!ForgetFrames)
      /\ (Claude!ReleaseInbox => InClaude!ReleaseInbox)
      /\ (Claude!RemoveChild => InClaude!RemoveChild)
  BY Zenon DEF
    Claude!RowIds, Claude!FrameIds, Claude!Open, Claude!NoThread, Claude!store, Claude!goers,
    Claude!fate, Claude!engine, Claude!Hit, Claude!ResetSent, Claude!Running, Claude!InTurn,
    Claude!CutDown, Claude!Fatal, Claude!Kill, Claude!Terminate, Claude!Finish, Claude!MarkExited,
    Claude!ForgetFrames, Claude!ReleaseInbox, Claude!RemoveChild, InClaude!RowIds, InClaude!FrameIds,
    InClaude!Open, InClaude!NoThread, InClaude!store, InClaude!goers, InClaude!fate, InClaude!engine,
    InClaude!Hit, InClaude!ResetSent, InClaude!Running, InClaude!InTurn, InClaude!CutDown,
    InClaude!Fatal, InClaude!Kill, InClaude!Terminate, InClaude!Finish, InClaude!MarkExited,
    InClaude!ForgetFrames, InClaude!ReleaseInbox, InClaude!RemoveChild
<1>8. /\ (Claude!Resume => InClaude!Resume) /\ (Claude!Recover => InClaude!Recover)
      /\ (Claude!ResumeFails => InClaude!ResumeFails)
      /\ (Claude!BuildEngine => InClaude!BuildEngine) /\ (Claude!Activate => InClaude!Activate)
      /\ (Claude!Crash => InClaude!Crash) /\ (Claude!Close => InClaude!Close)
      /\ (Claude!DropInbox => InClaude!DropInbox) /\ (Claude!Breach => InClaude!Breach)
      /\ (Claude!Raise => InClaude!Raise)
  BY Zenon DEF
    Claude!RowIds, Claude!FrameIds, Claude!Direct, Claude!All, Claude!Open, Claude!NoThread,
    Claude!NoCall, Claude!NoMsg, Claude!store, Claude!goers, Claude!fate, Claude!engine, Claude!life,
    Claude!Hit, Claude!ResetSent, Claude!Drop, Claude!CutDown, Claude!Resume, Claude!Recover,
    Claude!ResumeFails, Claude!BuildEngine, Claude!Activate, Claude!Crash, Claude!Close,
    Claude!DropInbox, Claude!Breach, Claude!Raise, InClaude!RowIds, InClaude!FrameIds, InClaude!Direct,
    InClaude!All, InClaude!Open, InClaude!NoThread, InClaude!NoCall, InClaude!NoMsg, InClaude!store,
    InClaude!goers, InClaude!fate, InClaude!engine, InClaude!life, InClaude!Hit, InClaude!ResetSent,
    InClaude!Drop, InClaude!CutDown, InClaude!Resume, InClaude!Recover, InClaude!ResumeFails,
    InClaude!BuildEngine, InClaude!Activate, InClaude!Crash, InClaude!Close, InClaude!DropInbox,
    InClaude!Breach, InClaude!Raise
<1>. QED
  BY <1>1, <1>2, <1>3, <1>4, <1>5, <1>6, <1>7, <1>8
  DEF Claude!Next, Claude!Steps, Claude!Deliver, InClaude!Next, InClaude!Steps, InClaude!Deliver

LEMMA ScriptSame == (Script!Init => InScript!Init) /\ (Script!Next => InScript!Next)
<1>1. Script!Init => InScript!Init
  BY Zenon DEF
    Script!RowIds, Script!FrameIds, Script!Direct, Script!NoThread, Script!NoCall, Script!NoMsg,
    Script!Init, InScript!RowIds, InScript!FrameIds, InScript!Direct, InScript!NoThread,
    InScript!NoCall, InScript!NoMsg, InScript!Init
<1>2. \A t \in Threads, m \in AbortMsgs : Script!Submit(t, m) => InScript!Submit(t, m)
  BY Zenon DEF
    Script!Direct, Script!store, Script!fate, Script!engine, Script!life, Script!ValidTarget,
    Script!Refused, Script!Submit, Script!Cardinality, InScript!Direct, InScript!store, InScript!fate,
    InScript!engine, InScript!life, InScript!ValidTarget, InScript!Refused, InScript!Submit,
    InScript!Cardinality
<1>3. \A t \in Threads : (Script!Read(t) => InScript!Read(t)) /\ (Script!Hold(t) => InScript!Hold(t))
  BY Zenon DEF
    Script!RowIds, Script!Direct, Script!All, Script!NoThread, Script!NoCall, Script!store, Script!fate,
    Script!engine, Script!life, Script!PendingRows, Script!DirectBatch, Script!GroupBatch,
    Script!Coalesce, Script!Before, Script!First, Script!Return, Script!Chosen, Script!Read,
    Script!Deferred, Script!Hold, InScript!RowIds, InScript!Direct, InScript!All, InScript!NoThread,
    InScript!NoCall, InScript!store, InScript!fate, InScript!engine, InScript!life,
    InScript!PendingRows, InScript!DirectBatch, InScript!GroupBatch, InScript!Coalesce, InScript!Before,
    InScript!First, InScript!Return, InScript!Chosen, InScript!Read, InScript!Deferred, InScript!Hold
<1>4. \A t \in Threads : (Script!Prepare(t) => InScript!Prepare(t)) /\ (Script!Write(t) => InScript!Write(t))
  BY Zenon DEF
    Script!FrameIds, Script!Direct, Script!store, Script!fate, Script!engine, Script!life,
    Script!Before, Script!First, Script!AwaitAck, Script!Deferred, Script!Retired, Script!TooBig,
    Script!InUse, Script!Fresh, Script!RejectBatch, Script!Prepare, Script!Writable, Script!Encode,
    Script!Write, InScript!FrameIds, InScript!Direct, InScript!store, InScript!fate, InScript!engine,
    InScript!life, InScript!Before, InScript!First, InScript!AwaitAck, InScript!Deferred,
    InScript!Retired, InScript!TooBig, InScript!InUse, InScript!Fresh, InScript!RejectBatch,
    InScript!Prepare, InScript!Writable, InScript!Encode, InScript!Write
<1>5. \A t \in Threads : /\ (Script!Start(t) => InScript!Start(t)) /\ (Script!Persist(t) => InScript!Persist(t))
                         /\ (Script!WriteFails(t) => InScript!WriteFails(t)) /\ (Script!Mark(t) => InScript!Mark(t))
  BY Zenon DEF
    Script!RowIds, Script!FrameIds, Script!Direct, Script!All, Script!Open, Script!NoThread,
    Script!NoCall, Script!NoMsg, Script!store, Script!fate, Script!engine, Script!life, Script!MarkSent,
    Script!MarkConsumed, Script!Before, Script!First, Script!AwaitAck, Script!Persist, Script!Start,
    Script!Return, Script!Writable, Script!WriteFails, Script!Mark, InScript!RowIds, InScript!FrameIds,
    InScript!Direct, InScript!All, InScript!Open, InScript!NoThread, InScript!NoCall, InScript!NoMsg,
    InScript!store, InScript!fate, InScript!engine, InScript!life, InScript!MarkSent,
    InScript!MarkConsumed, InScript!Before, InScript!First, InScript!AwaitAck, InScript!Persist,
    InScript!Start, InScript!Return, InScript!Writable, InScript!WriteFails, InScript!Mark
<1>6. /\ (Script!Sweep => InScript!Sweep) /\ (Script!StoreFails => InScript!StoreFails)
      /\ (Script!Pull => InScript!Pull) /\ (Script!ReadFrame => InScript!ReadFrame)
      /\ (Script!TakePrompt => InScript!TakePrompt) /\ (Script!DrainSteers => InScript!DrainSteers)
      /\ (Script!Consume => InScript!Consume) /\ (Script!EnterTurn => InScript!EnterTurn)
      /\ (Script!EnterFails => InScript!EnterFails) /\ (Script!EndTurn => InScript!EndTurn)
  BY Zenon DEF
    Script!RowIds, Script!FrameIds, Script!Direct, Script!Open, Script!NoThread, Script!NoCall,
    Script!store, Script!goers, Script!fate, Script!engine, Script!life, Script!Hit,
    Script!MarkConsumed, Script!PendingRows, Script!Return, Script!DeliverFails, Script!Pull,
    Script!Sweep, Script!Running, Script!InTurn, Script!ReadFrame, Script!Join, Script!TakeFrames,
    Script!TakePrompt, Script!DrainSteers, Script!Consume, Script!ConsumeFails, Script!CutDown,
    Script!EnterTurn, Script!EnterFails, Script!EndTurn, Script!StoreFails, InScript!RowIds,
    InScript!FrameIds, InScript!Direct, InScript!Open, InScript!NoThread, InScript!NoCall,
    InScript!store, InScript!goers, InScript!fate, InScript!engine, InScript!life, InScript!Hit,
    InScript!MarkConsumed, InScript!PendingRows, InScript!Return, InScript!DeliverFails, InScript!Pull,
    InScript!Sweep, InScript!Running, InScript!InTurn, InScript!ReadFrame, InScript!Join,
    InScript!TakeFrames, InScript!TakePrompt, InScript!DrainSteers, InScript!Consume,
    InScript!ConsumeFails, InScript!CutDown, InScript!EnterTurn, InScript!EnterFails, InScript!EndTurn,
    InScript!StoreFails
<1>7. /\ (Script!Fatal => InScript!Fatal) /\ (Script!Kill => InScript!Kill)
      /\ (Script!Terminate => InScript!Terminate) /\ (Script!Finish => InScript!Finish)
      /\ (Script!MarkExited => InScript!MarkExited)
      /\ (Script!ForgetFrames => InScript!ForgetFrames)
      /\ (Script!ReleaseInbox => InScript!ReleaseInbox)
      /\ (Script!RemoveChild => InScript!RemoveChild)
  BY Zenon DEF
    Script!RowIds, Script!FrameIds, Script!Open, Script!NoThread, Script!store, Script!goers,
    Script!fate, Script!engine, Script!Hit, Script!ResetSent, Script!Running, Script!InTurn,
    Script!CutDown, Script!Fatal, Script!Kill, Script!Terminate, Script!Finish, Script!MarkExited,
    Script!ForgetFrames, Script!ReleaseInbox, Script!RemoveChild, InScript!RowIds, InScript!FrameIds,
    InScript!Open, InScript!NoThread, InScript!store, InScript!goers, InScript!fate, InScript!engine,
    InScript!Hit, InScript!ResetSent, InScript!Running, InScript!InTurn, InScript!CutDown,
    InScript!Fatal, InScript!Kill, InScript!Terminate, InScript!Finish, InScript!MarkExited,
    InScript!ForgetFrames, InScript!ReleaseInbox, InScript!RemoveChild
<1>8. /\ (Script!Resume => InScript!Resume) /\ (Script!Recover => InScript!Recover)
      /\ (Script!ResumeFails => InScript!ResumeFails)
      /\ (Script!BuildEngine => InScript!BuildEngine) /\ (Script!Activate => InScript!Activate)
      /\ (Script!Crash => InScript!Crash) /\ (Script!Close => InScript!Close)
      /\ (Script!DropInbox => InScript!DropInbox) /\ (Script!Breach => InScript!Breach)
      /\ (Script!Raise => InScript!Raise)
  BY Zenon DEF
    Script!RowIds, Script!FrameIds, Script!Direct, Script!All, Script!Open, Script!NoThread,
    Script!NoCall, Script!NoMsg, Script!store, Script!goers, Script!fate, Script!engine, Script!life,
    Script!Hit, Script!ResetSent, Script!Drop, Script!CutDown, Script!Resume, Script!Recover,
    Script!ResumeFails, Script!BuildEngine, Script!Activate, Script!Crash, Script!Close,
    Script!DropInbox, Script!Breach, Script!Raise, InScript!RowIds, InScript!FrameIds, InScript!Direct,
    InScript!All, InScript!Open, InScript!NoThread, InScript!NoCall, InScript!NoMsg, InScript!store,
    InScript!goers, InScript!fate, InScript!engine, InScript!life, InScript!Hit, InScript!ResetSent,
    InScript!Drop, InScript!CutDown, InScript!Resume, InScript!Recover, InScript!ResumeFails,
    InScript!BuildEngine, InScript!Activate, InScript!Crash, InScript!Close, InScript!DropInbox,
    InScript!Breach, InScript!Raise
<1>. QED
  BY <1>1, <1>2, <1>3, <1>4, <1>5, <1>6, <1>7, <1>8
  DEF Script!Next, Script!Steps, Script!Deliver, InScript!Next, InScript!Steps, InScript!Deliver

LEMMA FundiBehaves == KindsSpec /\ kind = "fundi" => InFundi!Spec /\ [](kind = "fundi")
<1>1. KindsInit /\ kind = "fundi" => InFundi!Init
  BY FundiSame DEF KindsInit
<1>2. kind = "fundi" /\ [KindsNext]_<<vars, kind>> => [InFundi!Next]_(InFundi!vars) /\ (kind = "fundi")'
  <2>1. vars' = vars => InFundi!vars' = InFundi!vars
    BY DEF vars, store, goers, fate, engine, life, InFundi!vars, InFundi!store, InFundi!goers, InFundi!fate,
           InFundi!engine, InFundi!life
  <2>. QED
    BY <2>1, FundiSame DEF KindsNext
<1>. QED
  BY <1>1, <1>2, PTL DEF KindsSpec, InFundi!Spec

LEMMA ClaudeBehaves == KindsSpec /\ kind = "claude" => InClaude!Spec /\ [](kind = "claude")
<1>1. KindsInit /\ kind = "claude" => InClaude!Init
  BY ClaudeSame DEF KindsInit
<1>2. kind = "claude" /\ [KindsNext]_<<vars, kind>> => [InClaude!Next]_(InClaude!vars) /\ (kind = "claude")'
  <2>1. vars' = vars => InClaude!vars' = InClaude!vars
    BY DEF vars, store, goers, fate, engine, life, InClaude!vars, InClaude!store, InClaude!goers, InClaude!fate,
           InClaude!engine, InClaude!life
  <2>. QED
    BY <2>1, ClaudeSame DEF KindsNext
<1>. QED
  BY <1>1, <1>2, PTL DEF KindsSpec, InClaude!Spec

LEMMA ScriptBehaves == KindsSpec /\ kind = "script" => InScript!Spec /\ [](kind = "script")
<1>1. KindsInit /\ kind = "script" => InScript!Init
  BY ScriptSame DEF KindsInit
<1>2. kind = "script" /\ [KindsNext]_<<vars, kind>> => [InScript!Next]_(InScript!vars) /\ (kind = "script")'
  <2>1. vars' = vars => InScript!vars' = InScript!vars
    BY DEF vars, store, goers, fate, engine, life, InScript!vars, InScript!store, InScript!goers, InScript!fate,
           InScript!engine, InScript!life
  <2>. QED
    BY <2>1, ScriptSame DEF KindsNext
<1>. QED
  BY <1>1, <1>2, PTL DEF KindsSpec, InScript!Spec

-----------------------------------------------------------------------------
(* Whatever writes the store loses, however slow the child and however it  *)
(* dies, a fundi child's daemon sees a row confirmed only when its message *)
(* has entered a live turn, is on its way into one, or was when that turn  *)
(* was cut down (engine.go).                                               *)
THEOREM FundiAcksAreTrue == KindsSpec => []FundiAcked
<1>1. InFundi!Spec => []InFundi!AckedMeansRan
  BY FundiAssumption, InFundi!AcksAreTrue
<1>2. InFundi!AckedMeansRan => AckedMeansRan
  BY DEF InFundi!AckedMeansRan, AckedMeansRan, InFundi!RowIds, RowIds
<1>3. ~(kind = "fundi") /\ [KindsNext]_<<vars, kind>> => (~(kind = "fundi"))'
  BY DEF KindsNext
<1>4. (~(kind = "fundi") => FundiAcked) /\ (AckedMeansRan => FundiAcked)
  BY DEF FundiAcked
<1>5. KindsSpec /\ kind = "fundi" => []FundiAcked
  BY <1>1, <1>2, <1>4, FundiBehaves, PTL
<1>6. KindsSpec /\ ~(kind = "fundi") => []FundiAcked
  BY <1>3, <1>4, PTL DEF KindsSpec
<1>. QED
  BY <1>5, <1>6, PTL

(* A claude child's daemon that does not crash, and a script child's       *)
(* whatever happens, hand each message over once: the rows are consumed    *)
(* with the hand-over (queue.go, deliver), so no exit, kill or resume      *)
(* sends them again.                                                       *)
THEOREM KindsRunMessagesOnce == KindsSpec => []KindsRunOnce
<1>1. InClaude!Spec => []RunOnce
  <2>1. InClaude!Undisturbed /\ ~("crash" \in {"fatal", "kill", "terminate", "resume", "budget", "close"})
    BY DEF InClaude!Undisturbed
  <2>2. InClaude!Spec => []InClaude!RunOnce
    BY <2>1, ClaudeAssumption, InClaude!MessagesRunOnce
  <2>3. InClaude!RunOnce => RunOnce
    BY DEF InClaude!RunOnce, RunOnce, InClaude!RowIds, RowIds
  <2>. QED
    BY <2>2, <2>3, PTL
<1>2. InScript!Spec => []RunOnce
  <2>1. InScript!Undisturbed /\ ~("crash" \in {"fatal", "kill", "terminate", "resume", "budget", "close"})
    BY DEF InScript!Undisturbed
  <2>2. InScript!Spec => []InScript!RunOnce
    BY <2>1, ScriptAssumption, InScript!MessagesRunOnce
  <2>3. InScript!RunOnce => RunOnce
    BY DEF InScript!RunOnce, RunOnce, InScript!RowIds, RowIds
  <2>. QED
    BY <2>2, <2>3, PTL
<1>3. KindsSpec => kind = "fundi" \/ kind = "claude" \/ kind = "script"
  BY DEF KindsSpec, KindsInit
<1>4. kind = "fundi" /\ [KindsNext]_<<vars, kind>> => (kind = "fundi")'
  BY DEF KindsNext
<1>5. (kind = "fundi" => KindsRunOnce) /\ (RunOnce => KindsRunOnce)
  BY DEF KindsRunOnce
<1>6. KindsSpec /\ kind = "fundi" => []KindsRunOnce
  BY <1>4, <1>5, PTL DEF KindsSpec
<1>7. KindsSpec /\ kind = "claude" => []KindsRunOnce
  BY <1>1, <1>5, ClaudeBehaves, PTL
<1>8. KindsSpec /\ kind = "script" => []KindsRunOnce
  BY <1>2, <1>5, ScriptBehaves, PTL
<1>. QED
  BY <1>3, <1>6, <1>7, <1>8, PTL
=============================================================================

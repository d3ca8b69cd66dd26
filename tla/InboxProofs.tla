------------------------------ MODULE InboxProofs ------------------------------
(***************************************************************************)
(* Proofs about Inbox, for every kind of child, every set of messages and  *)
(* goroutines and every bound: types, the delivery critical section and    *)
(* the order of direct messages over every set of adverse events; then,    *)
(* what an ack means; and outside the windows Undisturbed names, where     *)
(* each copy of a row is, how often a row runs, and the refinement of      *)
(* Mailbox.                                                                *)
(***************************************************************************)
EXTENDS Inbox, SequenceTheorems, TLAPS, FiniteSetTheorems

(* The variables each part of TypeOK is about.                             *)
deliveryVars == <<lock, goers, due>>
engineVars   == <<sentFrames, wire, engine>>
lifeVars     == <<life, halted>>

LEMMA ShapesType == Shapes \subseteq [mode : Modes, source : Sources, big : BOOLEAN]
<1>. SUFFICES ASSUME NEW m \in Shapes PROVE m \in [mode : Modes, source : Sources, big : BOOLEAN]
  OBVIOUS
<1>1. CASE m = NoMsg
  BY <1>1 DEF NoMsg, Modes, Sources
<1>2. CASE m \in Msgs \cup Legacy
  BY <1>2, InboxAssumption
<1>. QED
  BY <1>1, <1>2 DEF Shapes

LEMMA Blank == NoMsg \in Shapes /\ NoCall \in Calls /\ <<>> \in Seq(Entry)
  BY DEF NoMsg, NoCall, Shapes, Calls, Sources

LEMMA InitType == Init => TypeOK
<1>. SUFFICES ASSUME Init PROVE TypeOK
  OBVIOUS
<1>1. StoreOK
  BY Blank, InboxAssumption DEF Init, StoreOK, RowIds, States, Shapes
<1>2. DeliveryOK
  BY Blank, InboxAssumption DEF Init, DeliveryOK
<1>3. EngineOK
  BY Blank, InboxAssumption DEF Init, EngineOK
<1>4. LifeOK
  BY Zenon DEF Init, LifeOK
<1>6. FateOK
  BY DEF Init, FateOK
<1>5. hits \in 0..MaxHits
  BY InboxAssumption DEF Init
<1>. QED
  BY <1>1, <1>2, <1>3, <1>4, <1>5, <1>6 DEF TypeOK

(* A part none of whose variables change is preserved.                     *)
LEMMA Still ==
  /\ StoreOK /\ UNCHANGED store => StoreOK'
  /\ DeliveryOK /\ UNCHANGED deliveryVars => DeliveryOK'
  /\ EngineOK /\ UNCHANGED engineVars => EngineOK'
  /\ LifeOK /\ UNCHANGED lifeVars => LifeOK'
<1>1. StoreOK /\ UNCHANGED store => StoreOK'
  BY DEF StoreOK, store
<1>2. DeliveryOK /\ UNCHANGED deliveryVars => DeliveryOK'
  BY DEF DeliveryOK, deliveryVars, goers
<1>3. EngineOK /\ UNCHANGED engineVars => EngineOK'
  BY DEF EngineOK, engineVars, engine
<1>4. LifeOK /\ UNCHANGED lifeVars => LifeOK'
  BY Zenon DEF LifeOK, lifeVars, life
<1>. QED
  BY <1>1, <1>2, <1>3, <1>4

(* A store move changes the state of some rows, and nothing else.          *)
LEMMA MovesType ==
  ASSUME st \in [RowIds -> States], NEW ids
  PROVE  /\ MarkSent(ids) \in [RowIds -> States]
         /\ MarkConsumed(ids) \in [RowIds -> States]
         /\ ResetSent \in [RowIds -> States]
         /\ Drop \in [RowIds -> States]
  BY DEF MarkSent, MarkConsumed, ResetSent, Drop, States

(* What Coalesce makes of stored rows is a set of batches.                 *)
LEMMA CoalesceType ==
  ASSUME StoreOK, NEW S \in SUBSET RowIds, NEW steer \in BOOLEAN
  PROVE  Coalesce(S, steer) \in SUBSET Batch
<1>1. ASSUME NEW r \in S PROVE msg[r] \in [mode : Modes, source : Sources, big : BOOLEAN]
  BY ShapesType DEF StoreOK
<1>2. ASSUME NEW r \in S PROVE DirectBatch(r) \in Batch
  BY <1>1 DEF DirectBatch, Batch, Sources
<1>3. ASSUME NEW s \in {msg[r].source : r \in S} PROVE GroupBatch(S, s, steer) \in Batch
  BY <1>1 DEF GroupBatch, Batch, Modes
<1>. QED
  BY <1>2, <1>3 DEF Coalesce

(* Joined and queued entries are entries.                                  *)
LEMMA JoinType ==
  ASSUME NEW q \in Seq(Entry)
  PROVE  Join(q) \in Entry
<1>1. \A i \in DOMAIN q : q[i].fids \subseteq FrameIds /\ q[i].ids \subseteq RowIds
  <2>1. \A i \in DOMAIN q : q[i] \in Entry
    BY ElementOfSeq
  <2>. QED
    BY <2>1 DEF Entry
<1>. QED
  BY <1>1 DEF Join, Entry, Modes

LEMMA QueueType ==
  ASSUME NEW q \in Seq(Entry), q # <<>>
  PROVE  Head(q) \in Entry /\ Tail(q) \in Seq(Entry)
  OBVIOUS

(* The types but those of what cuts a turn down, which few steps change.   *)
PartsOK == StoreOK /\ DeliveryOK /\ EngineOK /\ LifeOK /\ hits \in 0..MaxHits

LEMMA NextParts == PartsOK /\ [Next]_vars => PartsOK'
<1>. SUFFICES ASSUME PartsOK, [Next]_vars PROVE PartsOK'
  OBVIOUS
<1>0. StoreOK /\ DeliveryOK /\ EngineOK /\ LifeOK /\ hits \in 0..MaxHits
  BY DEF PartsOK
<1>1. ASSUME NEW t \in Threads, NEW m \in Msgs, Submit(t, m) PROVE PartsOK'
  <2>1. UNCHANGED <<store, engineVars, lifeVars, hits>>
    BY <1>1 DEF Submit, store, deliveryVars, goers, engineVars, engine, lifeVars, life
  <2>2. DeliveryOK'
    BY <1>0, <1>1, Blank, InboxAssumption DEF Submit, DeliveryOK, goers, Shapes
  <2>. QED
    BY <1>0, <2>1, <2>2, Still DEF PartsOK
<1>2. ASSUME NEW t \in Threads, Start(t) PROVE PartsOK'
  <2>1. UNCHANGED <<store, engineVars, lifeVars, hits>>
    BY <1>2 DEF Start, store, deliveryVars, goers, engineVars, engine, lifeVars, life
  <2>2. DeliveryOK'
    BY <1>0, <1>2, Blank, InboxAssumption DEF Start, DeliveryOK, goers, Calls
  <2>. QED
    BY <1>0, <2>1, <2>2, Still DEF PartsOK
<1>3. ASSUME NEW t \in Threads, Persist(t) PROVE PartsOK'
  <2>1. UNCHANGED <<engineVars, lifeVars, hits>>
    BY <1>3 DEF Persist, store, deliveryVars, goers, engineVars, engine, lifeVars, life
  <2>2. StoreOK'
    BY <1>0, <1>3, Blank, InboxAssumption DEF Persist, StoreOK, DeliveryOK, States, store, RowIds
  <2>3. DeliveryOK'
    <3>1. inbound[t] \in Shapes
      BY <1>0 DEF DeliveryOK
    <3>2. inbound[t].source \in Sources
      BY <3>1, ShapesType
    <3>. QED
      BY <1>0, <1>3, <3>2, Blank DEF Persist, DeliveryOK, goers
  <2>. QED
    BY <1>0, <2>1, <2>2, <2>3, Still DEF PartsOK
<1>4. ASSUME NEW t \in Threads, Read(t) PROVE PartsOK'
  <2>1. UNCHANGED <<store, engineVars, lifeVars, hits>>
    BY <1>4 DEF Read, store, deliveryVars, goers, engineVars, engine, lifeVars, life
  <2>2. DeliveryOK'
    BY <1>0, <1>4, Blank, InboxAssumption, CoalesceType DEF Read, DeliveryOK, goers, Chosen, PendingRows, Calls
  <2>. QED
    BY <1>0, <2>1, <2>2, Still DEF PartsOK
<1>5. ASSUME NEW t \in Threads, Hold(t) PROVE PartsOK'
  <2>1. UNCHANGED <<store, engineVars, lifeVars, hits>>
    BY <1>5 DEF Hold, Return, store, deliveryVars, goers, engineVars, engine, lifeVars, life
  <2>2. DeliveryOK'
    BY <1>0, <1>5, Blank, InboxAssumption DEF Hold, Return, DeliveryOK, goers
  <2>. QED
    BY <1>0, <2>1, <2>2, Still DEF PartsOK
<1>6. ASSUME NEW t \in Threads, Prepare(t) PROVE PartsOK'
  <2>1. UNCHANGED <<store, lifeVars, hits>>
    BY <1>6 DEF Prepare, store, deliveryVars, goers, engineVars, engine, lifeVars, life
  <2>2. DeliveryOK'
    BY <1>0, <1>6, Blank, InboxAssumption DEF Prepare, DeliveryOK, goers, RejectBatch, FrameIds
  <2>3. EngineOK'
    <3>1. \A b \in todo[t] : b.ids \subseteq RowIds
      BY <1>0, <1>6 DEF DeliveryOK, Batch
    <3>2. /\ UNCHANGED <<wire, engine>>
          /\ \/ UNCHANGED sentFrames
             \/ \E b \in todo[t], f \in FrameIds : sentFrames' = [sentFrames EXCEPT ![f] = b.ids]
      BY <1>6, Zenon DEF Prepare
    <3>. QED
      BY <1>0, <3>1, <3>2 DEF EngineOK, engine
  <2>. QED
    BY <1>0, <2>1, <2>2, <2>3, Still DEF PartsOK
<1>7. ASSUME NEW t \in Threads, Write(t) PROVE PartsOK'
  <2>1. UNCHANGED <<store, lifeVars, hits>>
    BY <1>7 DEF Write, store, deliveryVars, goers, engineVars, engine, lifeVars, life
  <2>2. DeliveryOK'
    BY <1>0, <1>7, Blank, InboxAssumption DEF Write, DeliveryOK, goers
  <2>3. EngineOK'
    BY <1>0, <1>7, Blank, InboxAssumption DEF Write, EngineOK, engine, DeliveryOK, Encode, Entry, Batch, FrameIds
  <2>. QED
    BY <1>0, <2>1, <2>2, <2>3, Still DEF PartsOK
<1>8. ASSUME NEW t \in Threads, WriteFails(t) PROVE PartsOK'
  <2>1. UNCHANGED <<store, lifeVars, hits>>
    BY <1>8 DEF WriteFails, Return, store, deliveryVars, goers, engineVars, engine, lifeVars, life
  <2>2. DeliveryOK'
    BY <1>0, <1>8, Blank, InboxAssumption DEF WriteFails, Return, DeliveryOK, goers
  <2>3. EngineOK'
    BY <1>0, <1>8, Blank, InboxAssumption DEF WriteFails, Return, EngineOK, engine
  <2>. QED
    BY <1>0, <2>1, <2>2, <2>3, Still DEF PartsOK
<1>9. ASSUME NEW t \in Threads, Mark(t) PROVE PartsOK'
  <2>1. UNCHANGED <<engineVars, lifeVars, hits>>
    BY <1>9 DEF Mark, Return, store, deliveryVars, goers, engineVars, engine, lifeVars, life
  <2>2. StoreOK'
    BY <1>0, <1>9, Blank, InboxAssumption, MovesType DEF Mark, Return, StoreOK, States, store
  <2>3. DeliveryOK'
    BY <1>0, <1>9, Blank, InboxAssumption DEF Mark, Return, DeliveryOK, goers
  <2>. QED
    BY <1>0, <2>1, <2>2, <2>3, Still DEF PartsOK
<1>10. ASSUME NEW t \in Threads, DeliverFails(t) PROVE PartsOK'
  <2>1. UNCHANGED <<store, engineVars, lifeVars>>
    BY <1>10 DEF DeliverFails, Return, store, deliveryVars, goers, engineVars, engine, lifeVars, life
  <2>2. DeliveryOK'
    BY <1>0, <1>10, Blank, InboxAssumption DEF DeliverFails, Return, DeliveryOK, goers
  <2>3. (hits \in 0..MaxHits)'
    BY <1>0, <1>10, Blank, InboxAssumption DEF DeliverFails, Return, Hit
  <2>. QED
    BY <1>0, <2>1, <2>2, <2>3, Still DEF PartsOK
<1>11. CASE Pull
  <2>1. UNCHANGED <<deliveryVars, lifeVars, hits>>
    BY <1>11 DEF Pull, store, deliveryVars, goers, engineVars, engine, lifeVars, life
  <2>2. StoreOK'
    BY <1>0, <1>11, Blank, InboxAssumption, MovesType DEF Pull, StoreOK, States, store
  <2>3. EngineOK'
    BY <1>0, <1>11, Blank, InboxAssumption DEF Pull, EngineOK, engine
  <2>. QED
    BY <1>0, <2>1, <2>2, <2>3, Still DEF PartsOK
<1>12. CASE Sweep
  <2>1. UNCHANGED <<deliveryVars, engineVars, lifeVars, hits>>
    BY <1>12 DEF Sweep, store, deliveryVars, goers, engineVars, engine, lifeVars, life
  <2>2. StoreOK'
    BY <1>0, <1>12, Blank, InboxAssumption DEF Sweep, StoreOK, States, store
  <2>. QED
    BY <1>0, <2>1, <2>2, Still DEF PartsOK
<1>13. CASE ReadFrame
  <2>1. UNCHANGED <<store, deliveryVars, lifeVars, hits>>
    BY <1>13 DEF ReadFrame, store, deliveryVars, goers, engineVars, engine, lifeVars, life
  <2>2. EngineOK'
    <3>1. Head(wire) \in Entry /\ Tail(wire) \in Seq(Entry)
      BY <1>0, <1>13, QueueType DEF ReadFrame, EngineOK
    <3>2. /\ Append(steerBuf, Head(wire)) \in Seq(Entry)
          /\ Append(pending, Head(wire)) \in Seq(Entry)
      BY <1>0, <3>1, AppendProperties DEF EngineOK
    <3>3. /\ wire' = Tail(wire)
          /\ pending' \in {pending, Append(pending, Head(wire))}
          /\ steerBuf' \in {steerBuf, Append(steerBuf, Head(wire))}
          /\ UNCHANGED <<sentFrames, eng, cur, ack, ran>>
      BY <1>13, Zenon DEF ReadFrame
    <3>. QED
      BY <1>0, <3>1, <3>2, <3>3 DEF EngineOK
  <2>. QED
    BY <1>0, <2>1, <2>2, Still DEF PartsOK
<1>14. CASE TakePrompt
  <2>1. UNCHANGED <<store, deliveryVars, lifeVars, hits>>
    BY <1>14 DEF TakePrompt, store, deliveryVars, goers, engineVars, engine, lifeVars, life
  <2>2. EngineOK'
    <3>1. Head(pending) \in Entry /\ Tail(pending) \in Seq(Entry)
      BY <1>0, <1>14, QueueType DEF TakePrompt, EngineOK
    <3>2. Head(pending).fids \subseteq FrameIds /\ Head(pending).ids \subseteq RowIds
      BY <3>1 DEF Entry
    <3>. QED
      BY <1>0, <1>14, <3>1, <3>2 DEF TakePrompt, TakeFrames, EngineOK
  <2>. QED
    BY <1>0, <2>1, <2>2, Still DEF PartsOK
<1>15. CASE DrainSteers
  <2>1. UNCHANGED <<store, deliveryVars, lifeVars, hits>>
    BY <1>15 DEF DrainSteers, store, deliveryVars, goers, engineVars, engine, lifeVars, life
  <2>2. EngineOK'
    <3>1. Join(steerBuf) \in Entry
      BY <1>0, JoinType DEF EngineOK
    <3>2. Join(steerBuf).fids \subseteq FrameIds /\ Join(steerBuf).ids \subseteq RowIds
      BY <3>1 DEF Entry
    <3>. QED
      BY <1>0, <1>15, <3>2, Blank DEF DrainSteers, TakeFrames, EngineOK
  <2>. QED
    BY <1>0, <2>1, <2>2, Still DEF PartsOK
<1>16. CASE Consume
  <2>1. UNCHANGED <<deliveryVars, lifeVars, hits>>
    BY <1>16 DEF Consume, store, deliveryVars, goers, engineVars, engine, lifeVars, life
  <2>2. StoreOK'
    BY <1>0, <1>16, Blank, InboxAssumption, MovesType DEF Consume, StoreOK, States, store
  <2>3. EngineOK'
    BY <1>0, <1>16, Blank, InboxAssumption DEF Consume, EngineOK, engine
  <2>. QED
    BY <1>0, <2>1, <2>2, <2>3, Still DEF PartsOK
<1>17. CASE ConsumeFails
  <2>1. UNCHANGED <<store, deliveryVars, lifeVars>>
    BY <1>17 DEF ConsumeFails, store, deliveryVars, goers, engineVars, engine, lifeVars, life
  <2>2. EngineOK'
    BY <1>0, <1>17, Blank, InboxAssumption DEF ConsumeFails, EngineOK, engine
  <2>3. (hits \in 0..MaxHits)'
    BY <1>0, <1>17, Blank, InboxAssumption DEF ConsumeFails, Hit
  <2>. QED
    BY <1>0, <2>1, <2>2, <2>3, Still DEF PartsOK
<1>18. CASE EndTurn
  <2>1. UNCHANGED <<store, lifeVars, hits>>
    BY <1>18 DEF EndTurn, store, deliveryVars, goers, engineVars, engine, lifeVars, life
  <2>2. DeliveryOK'
    BY <1>0, <1>18, Blank, InboxAssumption DEF EndTurn, DeliveryOK, goers, Sources
  <2>3. EngineOK'
    BY <1>0, <1>18, Blank, InboxAssumption, JoinType DEF EndTurn, EngineOK, engine
  <2>. QED
    BY <1>0, <2>1, <2>2, <2>3, Still DEF PartsOK
<1>19. CASE Fatal
  <2>1. UNCHANGED <<store, deliveryVars>>
    BY <1>19 DEF Fatal, store, deliveryVars, goers, engineVars, engine, lifeVars, life
  <2>2. EngineOK'
    BY <1>0, <1>19, Blank, InboxAssumption DEF Fatal, EngineOK, engine
  <2>3. LifeOK'
    BY <1>0, <1>19, Zenon DEF Fatal, LifeOK, life
  <2>4. (hits \in 0..MaxHits)'
    BY <1>0, <1>19, Blank, InboxAssumption DEF Fatal, Hit
  <2>. QED
    BY <1>0, <2>1, <2>2, <2>3, <2>4, Still DEF PartsOK
<1>20. CASE Kill
  <2>1. UNCHANGED <<store, deliveryVars>>
    BY <1>20 DEF Kill, store, deliveryVars, goers, engineVars, engine, lifeVars, life
  <2>2. EngineOK'
    BY <1>0, <1>20, Blank, InboxAssumption DEF Kill, EngineOK, engine
  <2>3. LifeOK'
    BY <1>0, <1>20, Zenon DEF Kill, LifeOK, life
  <2>4. (hits \in 0..MaxHits)'
    BY <1>0, <1>20, Blank, InboxAssumption DEF Kill, Hit
  <2>. QED
    BY <1>0, <2>1, <2>2, <2>3, <2>4, Still DEF PartsOK
<1>21. CASE Terminate
  <2>1. UNCHANGED <<store, deliveryVars, hits>>
    BY <1>21 DEF Terminate, store, deliveryVars, goers, engineVars, engine, lifeVars, life
  <2>2. EngineOK'
    BY <1>0, <1>21, Blank, InboxAssumption DEF Terminate, EngineOK, engine
  <2>3. LifeOK'
    BY <1>0, <1>21, Zenon DEF Terminate, LifeOK, life
  <2>. QED
    BY <1>0, <2>1, <2>2, <2>3, Still DEF PartsOK
<1>22. CASE Finish
  <2>1. UNCHANGED <<store, deliveryVars, engineVars, hits>>
    BY <1>22 DEF Finish, store, deliveryVars, goers, engineVars, engine, lifeVars, life
  <2>2. LifeOK'
    BY <1>0, <1>22, Zenon DEF Finish, LifeOK, life
  <2>. QED
    BY <1>0, <2>1, <2>2, Still DEF PartsOK
<1>23. CASE MarkExited
  <2>1. UNCHANGED <<store, deliveryVars, hits>>
    BY <1>23 DEF MarkExited, store, deliveryVars, goers, engineVars, engine, lifeVars, life
  <2>2. EngineOK'
    BY <1>0, <1>23, Blank, InboxAssumption DEF MarkExited, EngineOK, engine
  <2>3. LifeOK'
    BY <1>0, <1>23, Zenon DEF MarkExited, LifeOK, life
  <2>. QED
    BY <1>0, <2>1, <2>2, <2>3, Still DEF PartsOK
<1>24. CASE ForgetFrames
  <2>1. UNCHANGED <<store, deliveryVars, hits>>
    BY <1>24 DEF ForgetFrames, store, deliveryVars, goers, engineVars, engine, lifeVars, life
  <2>2. EngineOK'
    BY <1>0, <1>24, Blank, InboxAssumption DEF ForgetFrames, EngineOK, engine
  <2>3. LifeOK'
    BY <1>0, <1>24, Zenon DEF ForgetFrames, LifeOK, life
  <2>. QED
    BY <1>0, <2>1, <2>2, <2>3, Still DEF PartsOK
<1>25. CASE ReleaseInbox
  <2>1. UNCHANGED <<deliveryVars, engineVars, hits>>
    BY <1>25 DEF ReleaseInbox, store, deliveryVars, goers, engineVars, engine, lifeVars, life
  <2>2. StoreOK'
    BY <1>0, <1>25, Blank, InboxAssumption, MovesType DEF ReleaseInbox, StoreOK, States, store
  <2>3. LifeOK'
    BY <1>0, <1>25, Zenon DEF ReleaseInbox, LifeOK, life
  <2>. QED
    BY <1>0, <2>1, <2>2, <2>3, Still DEF PartsOK
<1>26. CASE RemoveChild
  <2>1. UNCHANGED <<store, deliveryVars, engineVars, hits>>
    BY <1>26 DEF RemoveChild, store, deliveryVars, goers, engineVars, engine, lifeVars, life
  <2>2. LifeOK'
    BY <1>0, <1>26, Zenon DEF RemoveChild, LifeOK, life
  <2>. QED
    BY <1>0, <2>1, <2>2, Still DEF PartsOK
<1>27. CASE Resume
  <2>1. UNCHANGED <<store, deliveryVars, engineVars>>
    BY <1>27 DEF Resume, store, deliveryVars, goers, engineVars, engine, lifeVars, life
  <2>2. LifeOK'
    BY <1>0, <1>27, Zenon DEF Resume, LifeOK, life
  <2>3. (hits \in 0..MaxHits)'
    BY <1>0, <1>27, Blank, InboxAssumption DEF Resume, Hit
  <2>. QED
    BY <1>0, <2>1, <2>2, <2>3, Still DEF PartsOK
<1>28. CASE Recover
  <2>1. UNCHANGED <<store, deliveryVars, engineVars, hits>>
    BY <1>28 DEF Recover, store, deliveryVars, goers, engineVars, engine, lifeVars, life
  <2>2. LifeOK'
    BY <1>0, <1>28, Zenon DEF Recover, LifeOK, life
  <2>. QED
    BY <1>0, <2>1, <2>2, Still DEF PartsOK
<1>29. CASE ResumeFails
  <2>1. UNCHANGED <<store, deliveryVars, engineVars>>
    BY <1>29 DEF ResumeFails, store, deliveryVars, goers, engineVars, engine, lifeVars, life
  <2>2. LifeOK'
    BY <1>0, <1>29, Zenon DEF ResumeFails, LifeOK, life
  <2>3. (hits \in 0..MaxHits)'
    BY <1>0, <1>29, Blank, InboxAssumption DEF ResumeFails, Hit
  <2>. QED
    BY <1>0, <2>1, <2>2, <2>3, Still DEF PartsOK
<1>30. CASE BuildEngine
  <2>1. UNCHANGED <<hits>>
    BY <1>30 DEF BuildEngine, store, deliveryVars, goers, engineVars, engine, lifeVars, life
  <2>2. StoreOK'
    BY <1>0, <1>30, Blank, InboxAssumption, MovesType DEF BuildEngine, StoreOK, States, store
  <2>3. DeliveryOK'
    BY <1>0, <1>30, Blank, InboxAssumption DEF BuildEngine, DeliveryOK, goers, Sources
  <2>4. EngineOK'
    BY <1>0, <1>30, Blank, InboxAssumption DEF BuildEngine, EngineOK, engine
  <2>5. LifeOK'
    BY <1>0, <1>30, Zenon DEF BuildEngine, LifeOK, life
  <2>. QED
    BY <1>0, <2>1, <2>2, <2>3, <2>4, <2>5, Still DEF PartsOK
<1>31. CASE Activate
  <2>1. UNCHANGED <<store, engineVars, hits>>
    BY <1>31 DEF Activate, store, deliveryVars, goers, engineVars, engine, lifeVars, life
  <2>2. DeliveryOK'
    BY <1>0, <1>31, Blank, InboxAssumption DEF Activate, DeliveryOK, goers
  <2>3. LifeOK'
    BY <1>0, <1>31, Zenon DEF Activate, LifeOK, life
  <2>. QED
    BY <1>0, <2>1, <2>2, <2>3, Still DEF PartsOK
<1>32. CASE Crash
  <2>1. UNCHANGED <<>>
    BY <1>32 DEF Crash, store, deliveryVars, goers, engineVars, engine, lifeVars, life
  <2>2. StoreOK'
    BY <1>0, <1>32, Blank, InboxAssumption, MovesType DEF Crash, StoreOK, States, store
  <2>3. DeliveryOK'
    BY <1>0, <1>32, Blank, InboxAssumption DEF Crash, DeliveryOK, goers
  <2>4. EngineOK'
    BY <1>0, <1>32, Blank, InboxAssumption DEF Crash, EngineOK, engine
  <2>5. LifeOK'
    BY <1>0, <1>32, Zenon DEF Crash, LifeOK, life
  <2>6. (hits \in 0..MaxHits)'
    BY <1>0, <1>32, Blank, InboxAssumption DEF Crash, Hit
  <2>. QED
    BY <1>0, <2>1, <2>2, <2>3, <2>4, <2>5, <2>6, Still DEF PartsOK
<1>33. CASE Close
  <2>1. UNCHANGED <<store, deliveryVars>>
    BY <1>33 DEF Close, store, deliveryVars, goers, engineVars, engine, lifeVars, life
  <2>2. EngineOK'
    BY <1>0, <1>33, Blank, InboxAssumption DEF Close, EngineOK, engine
  <2>3. LifeOK'
    BY <1>0, <1>33, Zenon DEF Close, LifeOK, life
  <2>4. (hits \in 0..MaxHits)'
    BY <1>0, <1>33, Blank, InboxAssumption DEF Close, Hit
  <2>. QED
    BY <1>0, <2>1, <2>2, <2>3, <2>4, Still DEF PartsOK
<1>34. CASE DropInbox
  <2>1. UNCHANGED <<deliveryVars, engineVars, hits>>
    BY <1>34 DEF DropInbox, store, deliveryVars, goers, engineVars, engine, lifeVars, life
  <2>2. StoreOK'
    BY <1>0, <1>34, Blank, InboxAssumption, MovesType DEF DropInbox, StoreOK, States, store
  <2>3. LifeOK'
    BY <1>0, <1>34, Zenon DEF DropInbox, LifeOK, life
  <2>. QED
    BY <1>0, <2>1, <2>2, <2>3, Still DEF PartsOK
<1>35. CASE Breach
  <2>1. UNCHANGED <<store, deliveryVars, engineVars>>
    BY <1>35 DEF Breach, store, deliveryVars, goers, engineVars, engine, lifeVars, life
  <2>2. LifeOK'
    BY <1>0, <1>35, Zenon DEF Breach, LifeOK, life
  <2>3. (hits \in 0..MaxHits)'
    BY <1>0, <1>35, Blank, InboxAssumption DEF Breach, Hit
  <2>. QED
    BY <1>0, <2>1, <2>2, <2>3, Still DEF PartsOK
<1>36. CASE Raise
  <2>1. UNCHANGED <<store, engineVars, hits>>
    BY <1>36 DEF Raise, store, deliveryVars, goers, engineVars, engine, lifeVars, life
  <2>2. DeliveryOK'
    BY <1>0, <1>36, Blank, InboxAssumption DEF Raise, DeliveryOK, goers
  <2>3. LifeOK'
    BY <1>0, <1>36, Zenon DEF Raise, LifeOK, life
  <2>. QED
    BY <1>0, <2>1, <2>2, <2>3, Still DEF PartsOK
<1>37. CASE UNCHANGED vars
  BY <1>0, <1>37, Still DEF vars, PartsOK, deliveryVars, engineVars, lifeVars
<1>38. CASE EnterTurn
  <2>1. UNCHANGED <<store, deliveryVars, lifeVars, hits>>
    BY <1>38 DEF EnterTurn, store, deliveryVars, goers, engineVars, engine, lifeVars, life
  <2>2. EngineOK'
    BY <1>0, <1>38, Blank, InboxAssumption DEF EnterTurn, EngineOK, engine
  <2>. QED
    BY <1>0, <2>1, <2>2, Still DEF PartsOK
<1>39. CASE EnterFails
  <2>1. UNCHANGED <<store, deliveryVars, lifeVars>>
    BY <1>39 DEF EnterFails, store, deliveryVars, goers, engineVars, engine, lifeVars, life
  <2>2. EngineOK'
    BY <1>0, <1>39, Blank, InboxAssumption DEF EnterFails, EngineOK, engine
  <2>3. (hits \in 0..MaxHits)'
    BY <1>0, <1>39, Blank, InboxAssumption DEF EnterFails, Hit
  <2>. QED
    BY <1>0, <2>1, <2>2, <2>3, Still DEF PartsOK
<1>. QED
  BY <1>1, <1>2, <1>3, <1>4, <1>5, <1>6, <1>7, <1>8, <1>9, <1>10, <1>11, <1>12, <1>13, <1>14, <1>15, <1>16, <1>17, <1>18, <1>19, <1>20, <1>21, <1>22, <1>23, <1>24, <1>25, <1>26, <1>27, <1>28, <1>29, <1>30, <1>31, <1>32, <1>33, <1>34, <1>35, <1>36, <1>37,
     <1>38, <1>39 DEF Next, Steps, StoreFails, Deliver

(* The steps that can cut a turn down.                                     *)
LEMMA FateSteps ==
  [Next]_vars => UNCHANGED fate \/ ReadFrame \/ EnterTurn \/ EnterFails \/ EndTurn \/ Fatal \/ Crash
<1>. SUFFICES ASSUME [Next]_vars
              PROVE  UNCHANGED fate \/ ReadFrame \/ EnterTurn \/ EnterFails \/ EndTurn \/ Fatal \/ Crash
  OBVIOUS
<1>1. CASE UNCHANGED vars
  BY <1>1 DEF vars, engine
<1>2. ASSUME NEW t \in Threads,
             \/ \E m \in Msgs : Submit(t, m)
             \/ Start(t) \/ Persist(t) \/ Read(t) \/ Hold(t) \/ Prepare(t) \/ Write(t) \/ WriteFails(t)
             \/ Mark(t) \/ DeliverFails(t)
      PROVE  UNCHANGED fate
  BY <1>2 DEF Submit, Start, Persist, Read, Hold, Prepare, Write, WriteFails, Mark, DeliverFails, engine
<1>3. CASE Sweep \/ Pull \/ TakePrompt \/ DrainSteers \/ Consume \/ ConsumeFails
  BY <1>3 DEF Sweep, Pull, TakePrompt, DrainSteers, Consume, ConsumeFails, engine
<1>4. CASE Kill \/ Terminate \/ Finish \/ MarkExited \/ ForgetFrames \/ ReleaseInbox \/ RemoveChild
  BY <1>4 DEF Kill, Terminate, Finish, MarkExited, ForgetFrames, ReleaseInbox, RemoveChild, engine
<1>5. CASE Resume \/ Recover \/ ResumeFails \/ BuildEngine \/ Activate
  BY <1>5 DEF Resume, Recover, ResumeFails, BuildEngine, Activate, engine
<1>6. CASE Close \/ DropInbox \/ Breach \/ Raise
  BY <1>6 DEF Close, DropInbox, Breach, Raise, engine
<1>. QED
  BY <1>1, <1>2, <1>3, <1>4, <1>5, <1>6, Zenon DEF Next, Steps, StoreFails, Deliver

LEMMA FateKept == EngineOK /\ FateOK /\ [Next]_vars => FateOK'
<1>. SUFFICES ASSUME EngineOK, FateOK, [Next]_vars PROVE FateOK'
  OBVIOUS
<1>0. cur \subseteq RowIds /\ lost \subseteq RowIds /\ aborted \in BOOLEAN
  BY DEF EngineOK, FateOK
<1>1. CutDown => (lost \subseteq RowIds)'
  BY <1>0 DEF CutDown
<1>2. CASE UNCHANGED fate
  BY <1>0, <1>2, Zenon DEF fate, FateOK
<1>3. CASE ReadFrame
  <2>1. lost' = lost /\ (aborted' = aborted \/ aborted' = (aborted \/ InTurn))
    BY <1>3, Zenon DEF ReadFrame
  <2>. QED
    BY <1>0, <2>1, Zenon DEF FateOK
<1>4. CASE EnterTurn \/ EnterFails
  <2>1. (lost' = lost \/ CutDown) /\ aborted' = aborted
    BY <1>4, Zenon DEF EnterTurn, EnterFails
  <2>. QED
    BY <1>0, <1>1, <2>1, Zenon DEF FateOK
<1>5. CASE EndTurn \/ Fatal \/ Crash
  <2>1. (lost' = lost \/ CutDown) /\ aborted' = FALSE
    BY <1>5, Zenon DEF EndTurn, Fatal, Crash
  <2>. QED
    BY <1>0, <1>1, <2>1, Zenon DEF FateOK
<1>. QED
  BY <1>2, <1>3, <1>4, <1>5, FateSteps

LEMMA NextType == TypeOK /\ [Next]_vars => TypeOK'
  BY NextParts, FateKept DEF TypeOK, PartsOK

(* Every reachable state has the shape TypeOK describes.                   *)
THEOREM TypeCorrect == Spec => []TypeOK
<1>. QED
  BY InitType, NextType, PTL DEF Spec

-----------------------------------------------------------------------------
(* The delivery critical section.                                          *)

(* Nobody delivers while the lock is free.                                 *)
LEMMA FreeLock ==
  ASSUME RowsHeld, lock = NoThread, NEW t \in Threads
  PROVE  ~Delivering(t)
  BY InboxAssumption DEF RowsHeld

(* With no delivery under way only the unaccepted rows matter.             *)
LEMMA NobodyDelivers ==
  ASSUME \A t \in Threads : ~Delivering(t)', RowsAccepted'
  PROVE  DeliveryInv'
  BY Zenon DEF DeliveryInv, RowsHeld, BatchesSound, BacklogHeld

(* A step that leaves the store alone and lets no delivery in, nor changes *)
(* what one that goes on has to hand over.                                 *)
LEMMA Kept ==
  ASSUME DeliveryInv, UNCHANGED store,
         \A t \in Threads : Delivering(t)' => Delivering(t) /\ todo'[t] = todo[t] /\ lock' = lock
  PROVE  DeliveryInv'
<1>1. RowsHeld'
  BY DEF DeliveryInv, RowsHeld, store
<1>2. BatchesSound'
  BY DEF DeliveryInv, BatchesSound, store
<1>3. BacklogHeld'
  BY DEF DeliveryInv, BacklogHeld, store
<1>4. RowsAccepted'
  BY DEF DeliveryInv, RowsAccepted, store
<1>. QED
  BY <1>1, <1>2, <1>3, <1>4 DEF DeliveryInv

(* A move of the store made under the free lock.                           *)
LEMMA MovedUnderLock ==
  ASSUME DeliveryInv, lock = NoThread, UNCHANGED <<n, pc>>,
         \A r \in RowIds : st[r] = "none" => st'[r] = "none"
  PROVE  DeliveryInv'
<1>1. \A t \in Threads : ~Delivering(t)'
  BY FreeLock DEF DeliveryInv, Delivering
<1>2. RowsAccepted'
  BY DEF DeliveryInv, RowsAccepted
<1>. QED
  BY <1>1, <1>2, NobodyDelivers

(* What Read is about to deliver: disjoint batches of the rows it chose.   *)
LEMMA CoalesceSound ==
  ASSUME StoreOK, NEW S \in SUBSET RowIds, NEW steer \in BOOLEAN,
         NEW b \in Coalesce(S, steer)
  PROVE  /\ b.ids # {} /\ b.ids \subseteq S
         /\ \A r \in b.ids : msg[r].source = b.source
         /\ b.source = Direct => \E r \in S : b.ids = {r}
         /\ \A c \in Coalesce(S, steer) : c # b => b.ids \cap c.ids = {}
<1>1. ASSUME NEW c \in Coalesce(S, steer)
      PROVE  \/ \E r \in S : msg[r].source = Direct /\ c = DirectBatch(r)
             \/ \E s \in {msg[r].source : r \in S} \ {Direct} : c = GroupBatch(S, s, steer)
  BY <1>1, Zenon DEF Coalesce
<1>2. ASSUME NEW c \in Coalesce(S, steer)
      PROVE  /\ c.ids # {} /\ c.ids \subseteq S
             /\ \A r \in c.ids : msg[r].source = c.source
             /\ c.source = Direct => \E r \in S : c.ids = {r} /\ c = DirectBatch(r)
             /\ c.source # Direct => c = GroupBatch(S, c.source, steer)
  BY <1>1, <1>2 DEF DirectBatch, GroupBatch
<1>3. ASSUME NEW c \in Coalesce(S, steer), c # b PROVE b.ids \cap c.ids = {}
  <2>1. SUFFICES ASSUME NEW r \in b.ids, r \in c.ids PROVE FALSE
    OBVIOUS
  <2>2. b.source = c.source
    BY <1>2, <1>3, <2>1
  <2>3. CASE b.source = Direct
    BY <1>2, <1>3, <2>1, <2>2, <2>3
  <2>4. CASE b.source # Direct
    BY <1>2, <1>3, <2>2, <2>4
  <2>. QED
    BY <2>3, <2>4
<1>. QED
  BY <1>2, <1>3

(* and it holds every pending direct message.                              *)
LEMMA CoalesceDirect ==
  ASSUME NEW S, NEW steer, NEW r \in S, msg[r].source = Direct
  PROVE  \E c \in Coalesce(S, steer) : c.source = Direct /\ r \in c.ids
<1>1. DirectBatch(r) \in Coalesce(S, steer)
  BY DEF Coalesce
<1>. QED
  BY <1>1 DEF DirectBatch

LEMMA InitDelivery == Init => DeliveryInv
<1>. SUFFICES ASSUME Init PROVE DeliveryInv
  OBVIOUS
<1>1. \A t \in Threads : ~Delivering(t)
  BY DEF Init, Delivering
<1>2. RowsAccepted
  BY InboxAssumption DEF Init, RowsAccepted, RowIds
<1>. QED
  BY <1>1, <1>2, Zenon DEF DeliveryInv, RowsHeld, BatchesSound, BacklogHeld

(* The first batch of a delivery comes before every other; marking it      *)
(* leaves the others as they were.                                         *)
LEMMA MarkKeeps ==
  ASSUME TypeOK, DeliveryInv, NEW t \in Threads, Mark(t)
  PROVE  DeliveryInv'
<1>1. PICK b \in todo[t] :
        /\ pc[t] = "mark" /\ First(b, todo[t])
        /\ st' = IF AwaitAck(b) THEN MarkSent(b.ids) ELSE MarkConsumed(b.ids)
        /\ IF todo[t] = {b}
             THEN Return(t)
             ELSE /\ pc' = [pc EXCEPT ![t] = "batch"]
                  /\ todo' = [todo EXCEPT ![t] = @ \ {b}]
                  /\ UNCHANGED lock
        /\ UNCHANGED <<n, msg>>
  BY Zenon DEF Mark
<1>2. DeliveryOK /\ StoreOK
  BY DEF TypeOK
<1>3. Delivering(t) /\ lock = t
  BY <1>1 DEF Delivering, DeliveryInv, RowsHeld
<1>4. \A u \in Threads : u # t => ~Delivering(u)
  BY <1>3 DEF DeliveryInv, RowsHeld
<1>5. /\ \A r \in RowIds : st'[r] = "pending" => st[r] = "pending"
      /\ \A r \in RowIds : r \notin b.ids => st'[r] = st[r]
      /\ \A r \in RowIds : st[r] = "none" => st'[r] = "none"
  BY <1>1, <1>2 DEF MarkSent, MarkConsumed, Open, StoreOK
<1>6. RowsAccepted'
  BY <1>1, <1>5 DEF DeliveryInv, RowsAccepted
<1>7. CASE todo[t] = {b}
  <2>1. \A u \in Threads : ~Delivering(u)'
    BY <1>1, <1>2, <1>4, <1>7 DEF Return, Delivering, DeliveryOK
  <2>. QED
    BY <1>6, <2>1, NobodyDelivers
<1>8. CASE todo[t] # {b}
  <2>1. /\ \A u \in Threads : Delivering(u)' => u = t
        /\ lock' = t /\ todo'[t] = todo[t] \ {b}
    BY <1>1, <1>2, <1>3, <1>4, <1>8 DEF Delivering, DeliveryOK
  <2>2. ASSUME NEW c \in todo'[t], NEW r \in c.ids PROVE r \in RowIds /\ r \notin b.ids
    BY <1>2, <1>3, <2>1, <2>2 DEF DeliveryInv, BatchesSound, DeliveryOK, Batch
  <2>3. RowsHeld'
    BY <1>3, <1>5, <2>1, <2>2 DEF DeliveryInv, RowsHeld
  <2>4. BatchesSound'
    BY <1>1, <1>3, <2>1 DEF DeliveryInv, BatchesSound
  <2>5. BacklogHeld'
    <3>. SUFFICES ASSUME NEW c \in todo'[t], c.source = Direct, NEW r \in c.ids, NEW q \in RowIds,
                         q < r, msg[q].source = Direct, st'[q] = "pending"
                  PROVE  \E d \in todo'[t] : d.source = Direct /\ q \in d.ids
      BY <1>1, <2>1 DEF BacklogHeld
    <3>1. PICK d \in todo[t] : d.source = Direct /\ q \in d.ids
      BY <1>3, <1>5, <2>1 DEF DeliveryInv, BacklogHeld
    <3>2. q \notin b.ids
      BY <1>1, <1>2, <1>3 DEF DeliveryInv, RowsHeld, MarkSent, MarkConsumed, Open, StoreOK
    <3>. QED
      BY <2>1, <3>1, <3>2
  <2>. QED
    BY <1>6, <2>3, <2>4, <2>5 DEF DeliveryInv
<1>. QED
  BY <1>7, <1>8

(* A delivery that begins takes every pending row it chose.                *)
LEMMA ReadKeeps ==
  ASSUME TypeOK, DeliveryInv, NEW t \in Threads, Read(t)
  PROVE  DeliveryInv'
<1>1. DeliveryOK /\ StoreOK /\ lock = NoThread /\ UNCHANGED store
  BY DEF TypeOK, Read
<1>2. \A u \in Threads : ~Delivering(u)
  BY <1>1, FreeLock DEF DeliveryInv
<1>3. CASE Chosen(t) = {}
  <2>1. \A u \in Threads : ~Delivering(u)'
    BY <1>1, <1>2, <1>3 DEF Read, Delivering, DeliveryOK
  <2>. QED
    BY <1>1, <2>1, NobodyDelivers DEF DeliveryInv, RowsAccepted, store
<1>4. CASE Chosen(t) # {}
  <2>. DEFINE new == Coalesce(Chosen(t), call[t].steer)
  <2>1. /\ \A u \in Threads : Delivering(u)' => u = t
        /\ lock' = t /\ todo'[t] = new
    BY <1>1, <1>2, <1>4 DEF Read, Delivering, DeliveryOK
  <2>2. Chosen(t) \in SUBSET RowIds /\ call[t].steer \in BOOLEAN
    BY <1>1 DEF Chosen, PendingRows, DeliveryOK, Calls
  <2>3. ASSUME NEW r \in Chosen(t) PROVE r \in RowIds /\ r <= n /\ st[r] = "pending"
    BY <1>1, <2>3, InboxAssumption DEF Chosen, PendingRows, DeliveryInv, RowsAccepted, RowIds, StoreOK
  <2>. HIDE DEF new
  <2>4. ASSUME NEW b \in new
        PROVE  /\ b.ids # {} /\ b.ids \subseteq Chosen(t)
               /\ \A r \in b.ids : msg[r].source = b.source
               /\ b.source = Direct => \E r \in Chosen(t) : b.ids = {r}
               /\ \A c \in new : c # b => b.ids \cap c.ids = {}
    BY <1>1, <2>2, <2>4, CoalesceSound DEF new
  <2>5. RowsHeld'
    BY <1>1, <2>1, <2>3, <2>4 DEF RowsHeld, store
  <2>6. BatchesSound'
    BY <1>1, <2>1, <2>3, <2>4 DEF BatchesSound, store
  <2>7. BacklogHeld'
    <3>. SUFFICES ASSUME NEW b \in new, b.source = Direct, NEW r \in b.ids, NEW q \in RowIds,
                         msg[q].source = Direct, st[q] = "pending"
                  PROVE  \E c \in new : c.source = Direct /\ q \in c.ids
      BY <1>1, <2>1 DEF BacklogHeld, store
    <3>1. msg[r].source = Direct /\ r \in Chosen(t)
      BY <2>4
    <3>2. q \in Chosen(t)
      BY <3>1 DEF Chosen, PendingRows
    <3>. QED
      BY <3>2, CoalesceDirect DEF new
  <2>. QED
    BY <1>1, <2>5, <2>6, <2>7 DEF DeliveryInv, RowsAccepted, store
<1>. QED
  BY <1>3, <1>4

(* The row Persist adds is none a delivery under way knows of.             *)
LEMMA PersistKeeps ==
  ASSUME TypeOK, DeliveryInv, NEW t \in Threads, Persist(t)
  PROVE  DeliveryInv'
<1>1. DeliveryOK /\ StoreOK
  BY DEF TypeOK
<1>2. /\ n < MaxRows /\ n' = n + 1 /\ n + 1 \in RowIds
      /\ st[n + 1] = "none"
      /\ st'[n + 1] = "pending"
      /\ \A r \in RowIds : r # n + 1 => st'[r] = st[r] /\ msg'[r] = msg[r]
      /\ UNCHANGED <<lock, todo>>
  BY <1>1, InboxAssumption DEF Persist, StoreOK, RowIds, DeliveryInv, RowsAccepted
<1>3. \A u \in Threads : Delivering(u)' => Delivering(u)
  BY <1>1 DEF Persist, Delivering, DeliveryOK
<1>4. ASSUME NEW u \in Threads, Delivering(u), NEW b \in todo[u], NEW r \in b.ids
      PROVE  r \in RowIds /\ r <= n /\ r # n + 1 /\ r \in Nat
  BY <1>1, <1>4, InboxAssumption DEF DeliveryInv, BatchesSound, DeliveryOK, Batch, RowIds, StoreOK
<1>5. RowsHeld'
  BY <1>2, <1>3, <1>4 DEF DeliveryInv, RowsHeld
<1>6. BatchesSound'
  <2>. SUFFICES ASSUME NEW u \in Threads, Delivering(u), NEW b \in todo[u]
                PROVE  /\ b.ids # {} /\ \A r \in b.ids : r <= n' /\ msg'[r].source = b.source
                       /\ b.source = Direct => \E r \in RowIds : b.ids = {r}
                       /\ \A c \in todo[u] : c # b => b.ids \cap c.ids = {}
    BY <1>2, <1>3 DEF BatchesSound
  <2>1. \A r \in b.ids : r <= n' /\ msg'[r] = msg[r]
    BY <1>1, <1>2, <1>4 DEF StoreOK
  <2>. QED
    BY <2>1 DEF DeliveryInv, BatchesSound
<1>7. BacklogHeld'
  <2>. SUFFICES ASSUME NEW u \in Threads, Delivering(u), NEW b \in todo[u], b.source = Direct,
                       NEW r \in b.ids, NEW q \in RowIds,
                       q < r, msg'[q].source = Direct, st'[q] = "pending"
                PROVE  \E c \in todo[u] : c.source = Direct /\ q \in c.ids
    BY <1>2, <1>3 DEF BacklogHeld
  <2>1. q # n + 1
    BY <1>1, <1>4, InboxAssumption DEF RowIds, StoreOK
  <2>2. msg[q].source = Direct /\ st[q] = "pending"
    BY <1>2, <2>1
  <2>. QED
    BY <2>2 DEF DeliveryInv, BacklogHeld
<1>8. RowsAccepted'
  BY <1>1, <1>2, InboxAssumption DEF DeliveryInv, RowsAccepted, RowIds, StoreOK
<1>. QED
  BY <1>5, <1>6, <1>7, <1>8 DEF DeliveryInv

LEMMA NextDelivery == TypeOK /\ DeliveryInv /\ [Next]_vars => DeliveryInv'
<1>. SUFFICES ASSUME TypeOK, DeliveryInv, [Next]_vars PROVE DeliveryInv'
  OBVIOUS
<1>0. StoreOK /\ DeliveryOK /\ EngineOK
  BY DEF TypeOK
<1>1. ASSUME NEW t \in Threads, NEW m \in Msgs, Submit(t, m) PROVE DeliveryInv'
  BY <1>0, <1>1, Kept DEF Submit, Delivering, DeliveryOK
<1>2. ASSUME NEW t \in Threads, Start(t) PROVE DeliveryInv'
  BY <1>0, <1>2, Kept DEF Start, Delivering, DeliveryOK
<1>3. ASSUME NEW t \in Threads, Persist(t) PROVE DeliveryInv'
  BY <1>3, PersistKeeps
<1>4. ASSUME NEW t \in Threads, Read(t) PROVE DeliveryInv'
  BY <1>4, ReadKeeps
<1>5. ASSUME NEW t \in Threads, Hold(t) PROVE DeliveryInv'
  <2>1. \A u \in Threads : ~Delivering(u)'
    <3>1. \A u \in Threads : u # t => ~Delivering(u)
      BY <1>5, InboxAssumption DEF Hold, Delivering, DeliveryInv, RowsHeld
    <3>. QED
      BY <1>0, <1>5, <3>1 DEF Hold, Return, Delivering, DeliveryOK
  <2>. QED
    BY <1>5, <2>1, Kept DEF Hold
<1>6. ASSUME NEW t \in Threads, Prepare(t) PROVE DeliveryInv'
  BY <1>0, <1>6, Kept DEF Prepare, RejectBatch, Delivering, DeliveryOK
<1>7. ASSUME NEW t \in Threads, Write(t) PROVE DeliveryInv'
  BY <1>0, <1>7, Kept DEF Write, Delivering, DeliveryOK
<1>8. ASSUME NEW t \in Threads, WriteFails(t) PROVE DeliveryInv'
  <2>1. \A u \in Threads : ~Delivering(u)'
    <3>1. \A u \in Threads : u # t => ~Delivering(u)
      BY <1>8, InboxAssumption DEF WriteFails, Delivering, DeliveryInv, RowsHeld
    <3>. QED
      BY <1>0, <1>8, <3>1 DEF WriteFails, Return, Delivering, DeliveryOK
  <2>. QED
    BY <1>8, <2>1, Kept DEF WriteFails
<1>9. ASSUME NEW t \in Threads, Mark(t) PROVE DeliveryInv'
  BY <1>9, MarkKeeps
<1>10. ASSUME NEW t \in Threads, DeliverFails(t) PROVE DeliveryInv'
  <2>1. \A u \in Threads : ~Delivering(u)'
    <3>1. \A u \in Threads : u # t => ~Delivering(u)
      BY <1>10, InboxAssumption DEF DeliverFails, Delivering, DeliveryInv, RowsHeld
    <3>. QED
      BY <1>0, <1>10, <3>1 DEF DeliverFails, Return, Delivering, DeliveryOK
  <2>. QED
    BY <1>10, <2>1, Kept DEF DeliverFails
<1>11. CASE Pull
  BY <1>0, <1>11, MovedUnderLock DEF Pull, MarkConsumed, Open, goers, StoreOK
<1>12. CASE Sweep
  <2>1. /\ UNCHANGED <<n, msg, lock, pc, todo>>
        /\ \A r \in RowIds : st[r] \in {"pending", "none"} => st'[r] = st[r]
        /\ \A r \in RowIds : st'[r] = "pending" => st[r] = "pending"
    BY <1>0, <1>12 DEF Sweep, goers, StoreOK
  <2>2. \A t \in Threads : Delivering(t)' <=> Delivering(t)
    BY <2>1 DEF Delivering
  <2>3. \A t \in Threads, b \in Batch : b \in todo[t] => b.ids \subseteq RowIds
    BY DEF Batch
  <2>4. RowsHeld'
    BY <1>0, <2>1, <2>2, <2>3 DEF DeliveryInv, RowsHeld, DeliveryOK
  <2>5. BatchesSound'
    BY <2>1, <2>2 DEF DeliveryInv, BatchesSound
  <2>6. BacklogHeld'
    BY <2>1, <2>2 DEF DeliveryInv, BacklogHeld
  <2>7. RowsAccepted'
    BY <2>1 DEF DeliveryInv, RowsAccepted
  <2>. QED
    BY <2>4, <2>5, <2>6, <2>7 DEF DeliveryInv
<1>13. CASE ReadFrame
  BY <1>13, Kept DEF ReadFrame, goers, Delivering
<1>14. CASE TakePrompt
  BY <1>14, Kept DEF TakePrompt, goers, Delivering
<1>15. CASE DrainSteers
  BY <1>15, Kept DEF DrainSteers, goers, Delivering
<1>16. CASE Consume
  <2>1. CASE ack = {}
    <3>1. UNCHANGED <<store, goers, lock>>
      BY <1>0, <1>16, <2>1 DEF Consume, MarkConsumed, store, StoreOK
    <3>. QED
      BY <3>1, Kept DEF goers, Delivering
  <2>2. CASE ack # {}
    BY <1>0, <1>16, <2>2, MovedUnderLock DEF Consume, MarkConsumed, Open, goers, StoreOK
  <2>. QED
    BY <2>1, <2>2
<1>17. CASE ConsumeFails
  BY <1>17, Kept DEF ConsumeFails, goers, Delivering
<1>18. CASE EndTurn
  BY <1>18, Kept DEF EndTurn, goers, Delivering
<1>19. CASE Fatal
  BY <1>19, Kept DEF Fatal, goers, Delivering
<1>20. CASE Kill
  BY <1>20, Kept DEF Kill, goers, Delivering
<1>21. CASE Terminate
  BY <1>21, Kept DEF Terminate, goers, Delivering
<1>22. CASE Finish
  BY <1>22, Kept DEF Finish, goers, Delivering
<1>23. CASE MarkExited
  BY <1>23, Kept DEF MarkExited, goers, Delivering
<1>24. CASE ForgetFrames
  BY <1>24, Kept DEF ForgetFrames, goers, Delivering
<1>25. CASE ReleaseInbox
  BY <1>0, <1>25, MovedUnderLock DEF ReleaseInbox, ResetSent, goers, StoreOK
<1>26. CASE RemoveChild
  BY <1>26, Kept DEF RemoveChild, goers, Delivering
<1>27. CASE Resume
  BY <1>27, Kept DEF Resume, goers, Delivering
<1>28. CASE Recover
  BY <1>28, Kept DEF Recover, goers, Delivering
<1>29. CASE ResumeFails
  BY <1>29, Kept DEF ResumeFails, goers, Delivering
<1>30. CASE BuildEngine
  BY <1>0, <1>30, MovedUnderLock DEF BuildEngine, ResetSent, goers, StoreOK
<1>31. CASE Activate
  BY <1>31, Kept DEF Activate, goers, Delivering
<1>32. CASE Crash
  <2>1. \A t \in Threads : ~Delivering(t)'
    BY <1>32 DEF Crash, Delivering
  <2>2. RowsAccepted'
    BY <1>0, <1>32 DEF Crash, ResetSent, DeliveryInv, RowsAccepted, StoreOK
  <2>. QED
    BY <2>1, <2>2, NobodyDelivers
<1>33. CASE Close
  BY <1>33, Kept DEF Close, goers, Delivering
<1>34. CASE DropInbox
  BY <1>0, <1>34, MovedUnderLock DEF DropInbox, Drop, Open, goers, StoreOK
<1>35. CASE Breach
  BY <1>35, Kept DEF Breach, goers, Delivering
<1>36. CASE Raise
  BY <1>36, Kept DEF Raise, goers, Delivering
<1>37. CASE UNCHANGED vars
  BY <1>37, Kept DEF vars, goers, Delivering
<1>38. CASE EnterTurn
  BY <1>38, Kept DEF EnterTurn, goers, Delivering
<1>39. CASE EnterFails
  BY <1>39, Kept DEF EnterFails, goers, Delivering
<1>. QED
  BY <1>1, <1>2, <1>3, <1>4, <1>5, <1>6, <1>7, <1>8, <1>9, <1>10, <1>11, <1>12, <1>13, <1>14, <1>15, <1>16, <1>17, <1>18, <1>19, <1>20, <1>21, <1>22, <1>23, <1>24, <1>25, <1>26, <1>27, <1>28, <1>29, <1>30, <1>31, <1>32, <1>33, <1>34, <1>35, <1>36, <1>37,
     <1>38, <1>39 DEF Next, Steps, StoreFails, Deliver

(* A delivery alone holds the child's lock and its rows stay pending until *)
(* it marks them (queue.go, deliver): for any number of goroutines, rows   *)
(* and adverse events.                                                     *)
THEOREM DeliveryHeld == Spec => []DeliveryInv
<1>. QED
  BY TypeCorrect, InitDelivery, NextDelivery, PTL DEF Spec

(* The part of it a reader of deliver relies on.                           *)
COROLLARY RowsStayHeld == Spec => []RowsHeld
<1>1. DeliveryInv => RowsHeld
  BY DEF DeliveryInv
<1>. QED
  BY <1>1, DeliveryHeld, PTL

-----------------------------------------------------------------------------
(* The order of direct messages.                                           *)

(* Only a write makes the command channel longer.                          *)
LEMMA OnlyWriteGrows ==
  ASSUME TypeOK, Next, Len(wire') > Len(wire)
  PROVE  \E t \in Threads : Write(t)
<1>0. wire \in Seq(Entry) /\ Len(wire) \in Nat
  BY DEF TypeOK, EngineOK
<1>1. ~(wire' = wire) /\ ~(wire' = <<>>)
  BY <1>0
<1>2. ~ReadFrame
  BY <1>0 DEF ReadFrame
<1>3. ~Kill
  BY <1>0 DEF Kill
<1>4. ~Fatal /\ ~Terminate /\ ~MarkExited /\ ~Crash
  BY <1>1 DEF Fatal, Terminate, MarkExited, Crash
<1>5. \A t \in Threads : /\ \A m \in Msgs : ~Submit(t, m)
                         /\ ~Start(t) /\ ~DeliverFails(t) /\ ~Persist(t) /\ ~Read(t)
                         /\ ~Hold(t) /\ ~Prepare(t) /\ ~WriteFails(t) /\ ~Mark(t)
  BY <1>1 DEF Submit, Start, DeliverFails, Persist, Read, Hold, Prepare, WriteFails, Mark
<1>6. ~Pull /\ ~Sweep /\ ~TakePrompt /\ ~DrainSteers /\ ~Consume /\ ~ConsumeFails
     /\ ~EnterTurn /\ ~EnterFails /\ ~EndTurn
  BY <1>1 DEF Pull, Sweep, TakePrompt, DrainSteers, Consume, ConsumeFails, EnterTurn, EnterFails, EndTurn
<1>7. ~Finish /\ ~ForgetFrames /\ ~ReleaseInbox /\ ~RemoveChild /\ ~Resume /\ ~Recover
  BY <1>1 DEF Finish, ForgetFrames, ReleaseInbox, RemoveChild, Resume, Recover
<1>8. ~ResumeFails /\ ~BuildEngine /\ ~Activate /\ ~Close /\ ~DropInbox /\ ~Breach /\ ~Raise
  BY <1>1 DEF ResumeFails, BuildEngine, Activate, Close, DropInbox, Breach, Raise
<1>. QED
  BY <1>2, <1>3, <1>4, <1>5, <1>6, <1>7, <1>8, Zenon DEF Next, Steps, StoreFails, Deliver

(* What a write hands over has no earlier direct message waiting: such a   *)
(* one would be in the delivery too, and before it.                        *)
LEMMA WriteInOrder ==
  ASSUME TypeOK, DeliveryInv, NEW t \in Threads, Write(t)
  PROVE  InOrder
<1>1. PICK b \in todo[t] : pc[t] = "write" /\ First(b, todo[t]) /\ wire' = Append(wire, Encode(t, b))
  BY DEF Write
<1>2. Delivering(t) /\ b \in Batch /\ wire \in Seq(Entry)
  BY <1>1 DEF Delivering, TypeOK, DeliveryOK, EngineOK
<1>3. Encode(t, b) \in Entry
  BY <1>2 DEF TypeOK, DeliveryOK, Encode, Entry, Batch, FrameIds
<1>4. wire'[Len(wire')] = Encode(t, b)
  BY <1>1, <1>2, <1>3
<1>5. wire'[Len(wire')].ids = b.ids
  BY <1>4 DEF Encode
<1>6. ASSUME NEW r \in b.ids, msg[r].source = Direct, NEW q \in RowIds,
             q < r, msg[q].source = Direct, st[q] = "pending"
      PROVE  FALSE
  <2>1. b.source = Direct /\ b.ids = {r}
    BY <1>2, <1>6 DEF DeliveryInv, BatchesSound
  <2>2. PICK c \in todo[t] : c.source = Direct /\ q \in c.ids
    BY <1>2, <1>6, <2>1 DEF DeliveryInv, BacklogHeld
  <2>3. c # b
    BY <1>6, <2>1, <2>2, InboxAssumption DEF RowIds
  <2>4. r < q
    BY <1>1, <2>1, <2>2, <2>3 DEF First, Before
  <2>. QED
    BY <1>2, <1>6, <2>4, InboxAssumption DEF RowIds, Batch
<1>. QED
  BY <1>5, <1>6 DEF InOrder

(* Direct messages reach the child in the order they were accepted: none   *)
(* is written while an earlier one is still pending (queue.go, deliver).   *)
THEOREM DirectMessagesInOrder == Spec => DirectOrder
<1>1. TypeOK /\ DeliveryInv /\ [Next]_vars => [InOrder]_vars
  <2>. SUFFICES ASSUME TypeOK, DeliveryInv, Next PROVE InOrder
    OBVIOUS
  <2>1. CASE Len(wire') > Len(wire)
    BY <2>1, OnlyWriteGrows, WriteInOrder
  <2>2. CASE ~(Len(wire') > Len(wire))
    BY <2>2 DEF InOrder
  <2>. QED
    BY <2>1, <2>2
<1>. QED
  BY <1>1, TypeCorrect, DeliveryHeld, PTL DEF Spec, DirectOrder

(* The store answers, nobody writes to an engine that is not built, and    *)
(* nobody resumes a child before its exit is over.                         *)
Undisturbed == {"store", "early", "impatient"} \cap Adverse = {}

Ids(q)      == UNION {q[i].ids : i \in DOMAIN q}
Fids(q)     == UNION {q[i].fids : i \in DOMAIN q}
Distinct(q) == \A i, j \in DOMAIN q : i # j => q[i].ids \cap q[j].ids = {}

HeldRows == Ids(wire) \cup Ids(pending) \cup Ids(steerBuf) \cup cur
Flying   == Fids(wire) \cup Fids(pending) \cup Fids(steerBuf)

(* The turn worker has rows in its hands only while it acks and enters,    *)
(* and works only in a process that runs.                                  *)
WorkerInv ==
  /\ ~Running => eng = "idle"
  /\ eng \in {"idle", "turn"} => cur = {} /\ ack = {}
  /\ eng = "enter" => ack = {}
  /\ ~InTurn => steerBuf = <<>>

(* A process that is over, or not built, holds nothing.                    *)
QuietInv ==
  /\ phase \in {"building", "exited"} =>
       wire = <<>> /\ pending = <<>> /\ status \in {"exited", "absent"}
  /\ phase = "dead" => pending = <<>>
  /\ xpc # "none" => phase = "exited"
  /\ recovering => ~attached /\ status = "exited" /\ xpc = "none"

Marking(r) == \E t \in Threads : pc[t] = "mark" /\ \E b \in todo[t] : First(b, todo[t]) /\ r \in b.ids

(* Each row the child holds is in one place and is not up for delivery.    *)
ApartInv ==
  /\ Distinct(wire) /\ Distinct(pending) /\ Distinct(steerBuf)
  /\ Ids(wire) \cap Ids(pending) = {} /\ Ids(wire) \cap Ids(steerBuf) = {}
  /\ Ids(pending) \cap Ids(steerBuf) = {}
  /\ cur \cap (Ids(wire) \cup Ids(pending) \cup Ids(steerBuf)) = {}

TakenInv == \A r \in HeldRows : st[r] # "none" /\ (st[r] = "pending" => Marking(r))

CopyInv == WorkerInv /\ QuietInv /\ ApartInv /\ TakenInv

(* A frame id is fresh until it is written.                                *)
FrameInv ==
  \A t \in Threads :
    /\ pc[t] \in {"off", "persist", "lock", "batch", "reject"} => frame[t] = 0
    /\ pc[t] = "write" => frame[t] \notin Flying
    /\ pc[t] = "write" => \A b \in todo[t] : First(b, todo[t]) => (frame[t] # 0 <=> AwaitAck(b))

AbortInv ==
  \A i \in DOMAIN wire : wire[i].mode = "abort" => wire[i].fids = {}

Covered(r) ==
  r \in ack \/ \E f \in Flying : r \in sentFrames[f]

StrandInv ==
  /\ Kind # "fundi" => \A r \in RowIds : st[r] # "sent"
  /\ Running => \A t \in Threads : pc[t] = "write" => \A b \in todo[t] :
       First(b, todo[t]) /\ AwaitAck(b) => b.ids \subseteq sentFrames[frame[t]]
  /\ phase = "up" =>
       /\ \A r \in RowIds : st[r] = "sent" => Covered(r)
       /\ \A t \in Threads : pc[t] = "mark" => \A b \in todo[t] :
            First(b, todo[t]) /\ AwaitAck(b) => \A r \in b.ids : Covered(r)

-----------------------------------------------------------------------------
(* What the queue operations do to the rows and frames of a queue.         *)

LEMMA EmptyQueue == Ids(<<>>) = {} /\ Fids(<<>>) = {} /\ Distinct(<<>>)
  BY DEF Ids, Fids, Distinct

LEMMA AppendQueue ==
  ASSUME NEW q \in Seq(Entry), NEW e \in Entry
  PROVE  /\ Ids(Append(q, e)) = Ids(q) \cup e.ids
         /\ Fids(Append(q, e)) = Fids(q) \cup e.fids
         /\ Distinct(q) /\ e.ids \cap Ids(q) = {} => Distinct(Append(q, e))
<1>1. /\ DOMAIN Append(q, e) = 1..(Len(q) + 1) /\ DOMAIN q = 1..Len(q) /\ Len(q) \in Nat
      /\ \A i \in 1..Len(q) : Append(q, e)[i] = q[i]
      /\ Append(q, e)[Len(q) + 1] = e
  OBVIOUS
<1>2. \A i \in 1..(Len(q) + 1) : i \in 1..Len(q) \/ i = Len(q) + 1
  BY <1>1
<1>3. 1..Len(q) \subseteq 1..(Len(q) + 1) /\ Len(q) + 1 \in 1..(Len(q) + 1)
  BY <1>1
<1>. HIDE DEF Entry
<1>4. Ids(Append(q, e)) = Ids(q) \cup e.ids
  BY <1>1, <1>2, <1>3 DEF Ids
<1>5. Fids(Append(q, e)) = Fids(q) \cup e.fids
  BY <1>1, <1>2, <1>3 DEF Fids
<1>6. ASSUME Distinct(q), e.ids \cap Ids(q) = {} PROVE Distinct(Append(q, e))
  <2>1. \A i \in 1..Len(q) : q[i].ids \cap e.ids = {}
    BY <1>1, <1>6 DEF Ids
  <2>. QED
    BY <1>1, <1>2, <1>6, <2>1 DEF Distinct
<1>. QED
  BY <1>4, <1>5, <1>6

LEMMA TailQueue ==
  ASSUME NEW q \in Seq(Entry), q # <<>>
  PROVE  /\ Ids(q) = Head(q).ids \cup Ids(Tail(q))
         /\ Fids(q) = Head(q).fids \cup Fids(Tail(q))
         /\ Distinct(q) => Distinct(Tail(q)) /\ Head(q).ids \cap Ids(Tail(q)) = {}
<1>1. /\ DOMAIN Tail(q) = 1..(Len(q) - 1) /\ DOMAIN q = 1..Len(q) /\ Len(q) \in Nat \ {0}
      /\ \A i \in 1..(Len(q) - 1) : Tail(q)[i] = q[i + 1]
      /\ Head(q) = q[1]
  OBVIOUS
<1>2. \A i \in 1..(Len(q) - 1) : i + 1 \in 1..Len(q) /\ i + 1 # 1
  BY <1>1
<1>3. \A i \in 1..Len(q) : i # 1 => i - 1 \in 1..(Len(q) - 1) /\ Tail(q)[i - 1] = q[i]
  BY <1>1
<1>4. 1 \in 1..Len(q)
  BY <1>1
<1>5. Ids(q) = Head(q).ids \cup Ids(Tail(q))
  <2>1. ASSUME NEW x \in Ids(q) PROVE x \in Head(q).ids \cup Ids(Tail(q))
    <3>1. PICK i \in 1..Len(q) : x \in q[i].ids
      BY <1>1, <2>1 DEF Ids
    <3>2. CASE i = 1
      BY <1>1, <3>1, <3>2
    <3>3. CASE i # 1
      <4>1. i - 1 \in DOMAIN Tail(q) /\ x \in Tail(q)[i - 1].ids
        BY <1>1, <1>3, <3>1, <3>3
      <4>. QED
        BY <4>1 DEF Ids
    <3>. QED
      BY <3>2, <3>3
  <2>2. ASSUME NEW x \in Ids(Tail(q)) PROVE x \in Ids(q)
    <3>1. PICK i \in 1..(Len(q) - 1) : x \in Tail(q)[i].ids
      BY <1>1, <2>2 DEF Ids
    <3>2. i + 1 \in DOMAIN q /\ x \in q[i + 1].ids
      BY <1>1, <1>2, <3>1
    <3>. QED
      BY <3>2 DEF Ids
  <2>3. Head(q).ids \subseteq Ids(q)
    BY <1>1, <1>4 DEF Ids
  <2>. QED
    BY <2>1, <2>2, <2>3
<1>6. Fids(q) = Head(q).fids \cup Fids(Tail(q))
  <2>1. ASSUME NEW x \in Fids(q) PROVE x \in Head(q).fids \cup Fids(Tail(q))
    <3>1. PICK i \in 1..Len(q) : x \in q[i].fids
      BY <1>1, <2>1 DEF Fids
    <3>2. CASE i = 1
      BY <1>1, <3>1, <3>2
    <3>3. CASE i # 1
      <4>1. i - 1 \in DOMAIN Tail(q) /\ x \in Tail(q)[i - 1].fids
        BY <1>1, <1>3, <3>1, <3>3
      <4>. QED
        BY <4>1 DEF Fids
    <3>. QED
      BY <3>2, <3>3
  <2>2. ASSUME NEW x \in Fids(Tail(q)) PROVE x \in Fids(q)
    <3>1. PICK i \in 1..(Len(q) - 1) : x \in Tail(q)[i].fids
      BY <1>1, <2>2 DEF Fids
    <3>2. i + 1 \in DOMAIN q /\ x \in q[i + 1].fids
      BY <1>1, <1>2, <3>1
    <3>. QED
      BY <3>2 DEF Fids
  <2>3. Head(q).fids \subseteq Fids(q)
    BY <1>1, <1>4 DEF Fids
  <2>. QED
    BY <2>1, <2>2, <2>3
<1>7. ASSUME Distinct(q) PROVE Distinct(Tail(q)) /\ Head(q).ids \cap Ids(Tail(q)) = {}
  <2>1. \A i, j \in 1..(Len(q) - 1) : i # j => i + 1 # j + 1
    BY <1>1
  <2>2. Distinct(Tail(q))
    BY <1>1, <1>2, <1>7, <2>1 DEF Distinct
  <2>3. \A i \in 1..(Len(q) - 1) : q[1].ids \cap Tail(q)[i].ids = {}
    BY <1>1, <1>2, <1>4, <1>7 DEF Distinct
  <2>. QED
    BY <1>1, <2>2, <2>3 DEF Ids
<1>. QED
  BY <1>5, <1>6, <1>7

LEMMA CutQueue ==
  ASSUME NEW q \in Seq(Entry), NEW k \in 0..Len(q)
  PROVE  /\ Ids(SubSeq(q, 1, k)) \subseteq Ids(q)
         /\ Fids(SubSeq(q, 1, k)) \subseteq Fids(q)
         /\ Distinct(q) => Distinct(SubSeq(q, 1, k))
<1>1. /\ DOMAIN SubSeq(q, 1, k) = 1..k /\ DOMAIN q = 1..Len(q)
      /\ \A i \in 1..k : i \in 1..Len(q) /\ SubSeq(q, 1, k)[i] = q[i]
  OBVIOUS
<1>. QED
  BY <1>1 DEF Ids, Fids, Distinct

LEMMA JoinQueue ==
  ASSUME NEW q \in Seq(Entry)
  PROVE  Join(q).ids = Ids(q) /\ Join(q).fids = Fids(q) /\ Join(q).mode = "prompt"
  BY DEF Join, Ids, Fids

-----------------------------------------------------------------------------
(* The steps that touch what the child holds.                              *)

ChildStill == UNCHANGED <<wire, pending, steerBuf, eng, cur, ack, fate, ran>>

ChildStep ==
  \/ \E t \in Threads : Write(t)
  \/ ReadFrame \/ TakePrompt \/ DrainSteers \/ Consume \/ ConsumeFails
  \/ EnterTurn \/ EnterFails \/ EndTurn
  \/ Fatal \/ Kill \/ Terminate \/ MarkExited \/ BuildEngine \/ Crash \/ Pull

LEMMA ChildSteps == [Next]_vars => ChildStill \/ ChildStep
<1>. SUFFICES ASSUME [Next]_vars PROVE ChildStill \/ ChildStep
  OBVIOUS
<1>1. CASE UNCHANGED vars
  BY <1>1 DEF vars, engine, ChildStill
<1>2. ASSUME NEW t \in Threads,
             \/ \E m \in Msgs : Submit(t, m)
             \/ Start(t) \/ Persist(t) \/ Read(t) \/ Hold(t) \/ Prepare(t) \/ WriteFails(t)
             \/ Mark(t) \/ DeliverFails(t)
      PROVE  ChildStill
  BY <1>2 DEF Submit, Start, Persist, Read, Hold, Prepare, WriteFails, Mark, DeliverFails, engine, ChildStill
<1>3. CASE Sweep \/ Finish \/ ForgetFrames \/ ReleaseInbox \/ RemoveChild \/ Resume \/ Recover
  BY <1>3 DEF Sweep, Finish, ForgetFrames, ReleaseInbox, RemoveChild, Resume, Recover, engine, ChildStill
<1>4. CASE ResumeFails \/ Activate \/ Close \/ DropInbox \/ Breach \/ Raise
  BY <1>4 DEF ResumeFails, Activate, Close, DropInbox, Breach, Raise, engine, ChildStill
<1>. QED
  BY <1>1, <1>2, <1>3, <1>4, Zenon DEF ChildStep, Next, Steps, StoreFails, Deliver

(* The steps that end or begin a process.                                  *)
LifeStill == UNCHANGED <<phase, status, xpc, recovering, attached>>

LifeStep ==
  \/ Fatal \/ Kill \/ Terminate \/ Finish \/ MarkExited \/ ForgetFrames \/ ReleaseInbox \/ RemoveChild
  \/ Resume \/ Recover \/ ResumeFails \/ BuildEngine \/ Activate \/ Crash \/ Close \/ DropInbox

LEMMA LifeSteps == [Next]_vars => LifeStill \/ LifeStep
<1>. SUFFICES ASSUME [Next]_vars PROVE LifeStill \/ LifeStep
  OBVIOUS
<1>1. CASE UNCHANGED vars
  BY <1>1 DEF vars, life, LifeStill
<1>2. ASSUME NEW t \in Threads,
             \/ \E m \in Msgs : Submit(t, m)
             \/ Start(t) \/ Persist(t) \/ Read(t) \/ Hold(t) \/ Prepare(t) \/ Write(t) \/ WriteFails(t)
             \/ Mark(t) \/ DeliverFails(t)
      PROVE  LifeStill
  BY <1>2 DEF Submit, Start, Persist, Read, Hold, Prepare, Write, WriteFails, Mark, DeliverFails, life, LifeStill
<1>3. CASE Sweep \/ Pull \/ ReadFrame \/ TakePrompt \/ DrainSteers \/ Consume \/ ConsumeFails
  BY <1>3 DEF Sweep, Pull, ReadFrame, TakePrompt, DrainSteers, Consume, ConsumeFails, life, LifeStill
<1>4. CASE EnterTurn \/ EnterFails \/ EndTurn \/ Breach \/ Raise
  BY <1>4 DEF EnterTurn, EnterFails, EndTurn, Breach, Raise, life, LifeStill
<1>. QED
  BY <1>1, <1>2, <1>3, <1>4, Zenon DEF LifeStep, Next, Steps, StoreFails, Deliver

LEMMA WorkerKept ==
  ASSUME TypeOK, WorkerInv, [Next]_vars
  PROVE  WorkerInv'
<1>1. ASSUME ChildStill, Running' = Running \/ eng = "idle" PROVE WorkerInv'
  BY <1>1 DEF ChildStill, WorkerInv, InTurn
<1>2. CASE LifeStill /\ ChildStill
  BY <1>1, <1>2 DEF LifeStill, Running
<1>3. CASE LifeStill /\ ChildStep
  <2>1. Running' = Running
    BY <1>3 DEF LifeStill, Running
  <2>2. ASSUME NEW t \in Threads, Write(t) PROVE WorkerInv'
    BY <2>1, <2>2 DEF Write, engine, WorkerInv, InTurn
  <2>3. CASE ReadFrame
    BY <2>1, <2>3 DEF ReadFrame, WorkerInv, InTurn
  <2>4. CASE TakePrompt \/ DrainSteers
    BY <2>1, <2>4 DEF TakePrompt, DrainSteers, WorkerInv, InTurn
  <2>5. CASE Consume \/ ConsumeFails
    BY <2>1, <2>5 DEF Consume, ConsumeFails, WorkerInv, InTurn
  <2>6. CASE EnterTurn \/ EnterFails \/ EndTurn \/ Pull
    BY <2>1, <2>6 DEF EnterTurn, EnterFails, EndTurn, Pull, WorkerInv, InTurn
  <2>7. CASE Fatal \/ Kill \/ Terminate \/ MarkExited \/ BuildEngine \/ Crash
    BY <1>3, <2>7 DEF LifeStill, Fatal, Kill, Terminate, MarkExited, BuildEngine, Crash, WorkerInv, engine, InTurn, Running
  <2>. QED
    BY <1>3, <2>2, <2>3, <2>4, <2>5, <2>6, <2>7 DEF ChildStep
<1>4. CASE LifeStep
  <2>1. CASE Fatal \/ Kill \/ Terminate
    BY <2>1 DEF Fatal, Kill, Terminate, WorkerInv, engine, InTurn, Running
  <2>2. CASE Finish \/ MarkExited \/ BuildEngine \/ Crash
    BY <2>2 DEF Finish, MarkExited, BuildEngine, Crash, WorkerInv, engine, InTurn, Running
  <2>3. CASE ForgetFrames \/ ReleaseInbox \/ RemoveChild \/ Resume \/ Recover
    BY <2>3 DEF ForgetFrames, ReleaseInbox, RemoveChild, Resume, Recover, WorkerInv, engine, InTurn, Running
  <2>4. CASE ResumeFails \/ Activate \/ Close \/ DropInbox
    BY <2>4 DEF ResumeFails, Activate, Close, DropInbox, WorkerInv, engine, InTurn, Running
  <2>. QED
    BY <1>4, <2>1, <2>2, <2>3, <2>4 DEF LifeStep
<1>. QED
  BY <1>2, <1>3, <1>4, ChildSteps, LifeSteps

LEMMA QuietKept ==
  ASSUME Undisturbed, TypeOK, WorkerInv, QuietInv, [Next]_vars
  PROVE  QuietInv'
<1>0. "early" \notin Adverse /\ "impatient" \notin Adverse
  BY DEF Undisturbed
<1>1. ASSUME LifeStill, UNCHANGED <<wire, pending>> PROVE QuietInv'
  BY <1>1 DEF LifeStill, QuietInv
<1>2. CASE LifeStill /\ ChildStill
  BY <1>1, <1>2 DEF ChildStill
<1>3. CASE LifeStill /\ ChildStep
  <2>1. ASSUME NEW t \in Threads, Write(t) PROVE QuietInv'
    BY <1>3, <2>1 DEF Write, Writable, engine, LifeStill, QuietInv
  <2>2. CASE ReadFrame
    BY <1>3, <2>2 DEF ReadFrame, Running, LifeStill, QuietInv
  <2>3. CASE TakePrompt \/ DrainSteers
    BY <1>3, <2>3 DEF TakePrompt, DrainSteers, Running, LifeStill, QuietInv
  <2>4. CASE Consume \/ ConsumeFails \/ EnterTurn \/ EnterFails \/ EndTurn \/ Pull
    BY <1>3, <2>4 DEF Consume, ConsumeFails, EnterTurn, EnterFails, EndTurn, Pull, Running, LifeStill, QuietInv
  <2>5. CASE Fatal \/ Kill \/ Terminate \/ MarkExited \/ BuildEngine \/ Crash
    BY <1>3, <2>5 DEF LifeStill, Fatal, Kill, Terminate, MarkExited, BuildEngine, Crash, QuietInv, engine
  <2>. QED
    BY <1>3, <2>1, <2>2, <2>3, <2>4, <2>5 DEF ChildStep
<1>4. CASE LifeStep
  <2>1. CASE Fatal \/ Kill \/ Terminate
    BY <2>1 DEF Fatal, Kill, Terminate, QuietInv, engine, Running
  <2>2. CASE Finish \/ MarkExited \/ BuildEngine
    BY <2>2 DEF Finish, MarkExited, BuildEngine, QuietInv, engine
  <2>3. CASE Crash
    BY <2>3 DEF Crash, QuietInv, engine
  <2>4. CASE ForgetFrames \/ ReleaseInbox \/ RemoveChild \/ Resume \/ Recover
    BY <1>0, <2>4 DEF ForgetFrames, ReleaseInbox, RemoveChild, Resume, Recover, QuietInv, engine
  <2>5. CASE ResumeFails \/ Activate \/ Close \/ DropInbox
    BY <1>0, <2>5 DEF ResumeFails, Activate, Close, DropInbox, QuietInv, engine
  <2>. QED
    BY <1>4, <2>1, <2>2, <2>3, <2>4, <2>5 DEF LifeStep
<1>. QED
  BY <1>2, <1>3, <1>4, ChildSteps, LifeSteps

(* A delivery has one first batch.                                         *)
LEMMA OneFirst ==
  ASSUME TypeOK, DeliveryInv, NEW t \in Threads, Delivering(t),
         NEW b \in todo[t], NEW c \in todo[t], First(b, todo[t]), First(c, todo[t])
  PROVE  b = c
<1>. SUFFICES ASSUME b # c PROVE FALSE
  OBVIOUS
<1>1. b.ids \subseteq Nat /\ c.ids \subseteq Nat
  BY InboxAssumption DEF TypeOK, DeliveryOK, Batch, RowIds
<1>2. Before(b, c) /\ Before(c, b)
  BY DEF First
<1>3. PICK r \in b.ids, q \in c.ids : r < q /\ q < r
  BY <1>2 DEF Before
<1>. QED
  BY <1>1, <1>3

(* While one goroutine delivers no other is about to mark a row.           *)
LEMMA NoOtherMark ==
  ASSUME DeliveryInv, NEW t \in Threads, Delivering(t), pc[t] # "mark"
  PROVE  \A r \in RowIds : ~Marking(r)
  BY DEF DeliveryInv, RowsHeld, Marking, Delivering

LEMMA NoMark ==
  ASSUME DeliveryInv, lock = NoThread
  PROVE  \A r \in RowIds : ~Marking(r)
  BY FreeLock DEF DeliveryInv, Marking, Delivering

(* What a delivery has yet to write is not with the child.                 *)
LEMMA NotHeldYet ==
  ASSUME TypeOK, DeliveryInv, TakenInv, NEW t \in Threads, Delivering(t), pc[t] # "mark",
         NEW b \in todo[t]
  PROVE  b.ids \cap HeldRows = {}
<1>1. \A r \in b.ids : st[r] = "pending" /\ r \in RowIds
  BY DEF DeliveryInv, RowsHeld, TypeOK, DeliveryOK, Batch
<1>. QED
  BY <1>1, NoOtherMark DEF TakenInv

Writes(t, b) ==
  /\ b \in todo[t] /\ First(b, todo[t]) /\ pc[t] = "write" /\ Encode(t, b) \in Entry
  /\ wire' = Append(wire, Encode(t, b)) /\ pc' = [pc EXCEPT ![t] = "mark"]

LEMMA WriteIs ==
  ASSUME TypeOK, NEW t \in Threads, Write(t)
  PROVE  \E b \in todo[t] : Writes(t, b)
<1>1. PICK b \in todo[t] : /\ pc[t] = "write" /\ First(b, todo[t])
                           /\ wire' = Append(wire, Encode(t, b)) /\ pc' = [pc EXCEPT ![t] = "mark"]
  BY DEF Write
<1>2. Encode(t, b) \in Entry
  BY DEF TypeOK, DeliveryOK, Encode, Entry, Batch, FrameIds
<1>. QED
  BY <1>1, <1>2 DEF Writes

LEMMA ApartKept ==
  ASSUME TypeOK, DeliveryInv, WorkerInv, ApartInv, TakenInv, [Next]_vars
  PROVE  ApartInv'
<1>0. wire \in Seq(Entry) /\ pending \in Seq(Entry) /\ steerBuf \in Seq(Entry)
  BY DEF TypeOK, EngineOK
<1>1. CASE ChildStill
  BY <1>1 DEF ChildStill, ApartInv
<1>2. ASSUME NEW t \in Threads, Write(t) PROVE ApartInv'
  <2>1. PICK b \in todo[t] : Writes(t, b)
    BY <1>2, WriteIs
  <2>2. b.ids \cap HeldRows = {}
    BY <2>1, NotHeldYet DEF Writes, Delivering
  <2>3. Encode(t, b).ids = b.ids
    BY DEF Encode
  <2>4. Ids(wire') = Ids(wire) \cup b.ids /\ Distinct(wire')
    BY <1>0, <2>1, <2>2, <2>3, AppendQueue DEF Writes, ApartInv, HeldRows
  <2>5. UNCHANGED <<pending, steerBuf, cur>>
    BY <1>2 DEF Write, engine
  <2>. QED
    BY <2>2, <2>4, <2>5 DEF ApartInv, HeldRows
<1>3. CASE ReadFrame
  <2>1. /\ wire # <<>> /\ wire' = Tail(wire) /\ UNCHANGED cur
        /\ \/ UNCHANGED <<pending, steerBuf>>
           \/ steerBuf' = Append(steerBuf, Head(wire)) /\ UNCHANGED pending
           \/ pending' = Append(pending, Head(wire)) /\ UNCHANGED steerBuf
    BY <1>3 DEF ReadFrame
  <2>2. /\ Ids(wire) = Head(wire).ids \cup Ids(wire') /\ Distinct(wire')
        /\ Head(wire).ids \cap Ids(wire') = {} /\ Head(wire) \in Entry
    BY <1>0, <2>1, TailQueue, QueueType DEF ApartInv
  <2>3. ASSUME NEW q \in {pending, steerBuf}
        PROVE  /\ Ids(Append(q, Head(wire))) = Ids(q) \cup Head(wire).ids
               /\ Distinct(Append(q, Head(wire)))
    <3>1. q \in Seq(Entry) /\ Distinct(q) /\ Head(wire).ids \cap Ids(q) = {}
      BY <1>0, <2>2 DEF ApartInv
    <3>. QED
      BY <2>2, <3>1, AppendQueue
  <2>4. CASE UNCHANGED <<pending, steerBuf>>
    BY <2>1, <2>2, <2>4 DEF ApartInv
  <2>5. CASE steerBuf' = Append(steerBuf, Head(wire)) /\ UNCHANGED pending
    BY <2>1, <2>2, <2>3, <2>5 DEF ApartInv
  <2>6. CASE pending' = Append(pending, Head(wire)) /\ UNCHANGED steerBuf
    BY <2>1, <2>2, <2>3, <2>6 DEF ApartInv
  <2>. QED
    BY <2>1, <2>4, <2>5, <2>6
<1>4. CASE TakePrompt
  <2>1. /\ pending # <<>> /\ pending' = Tail(pending) /\ cur' = Head(pending).ids
        /\ UNCHANGED <<wire, steerBuf>>
    BY <1>4 DEF TakePrompt, TakeFrames
  <2>2. /\ Ids(pending) = Head(pending).ids \cup Ids(pending') /\ Distinct(pending')
        /\ Head(pending).ids \cap Ids(pending') = {}
    BY <1>0, <2>1, TailQueue DEF ApartInv
  <2>. QED
    BY <2>1, <2>2 DEF ApartInv
<1>5. CASE DrainSteers
  <2>1. steerBuf' = <<>> /\ cur' = Ids(steerBuf) /\ UNCHANGED <<wire, pending>>
    BY <1>0, <1>5, JoinQueue DEF DrainSteers, TakeFrames
  <2>. QED
    BY <2>1, EmptyQueue DEF ApartInv
<1>6. CASE Consume \/ ConsumeFails \/ BuildEngine \/ Pull
  BY <1>6 DEF Consume, ConsumeFails, BuildEngine, Pull, ApartInv
<1>7. CASE EnterTurn \/ EnterFails
  <2>1. cur' = {} /\ UNCHANGED <<wire, pending, steerBuf>>
    BY <1>7 DEF EnterTurn, EnterFails
  <2>. QED
    BY <2>1 DEF ApartInv
<1>8. CASE EndTurn
  <2>1. CASE steerBuf = <<>>
    BY <1>8, <2>1 DEF EndTurn, ApartInv
  <2>2. CASE steerBuf # <<>>
    <3>1. pending' = Append(pending, Join(steerBuf)) /\ steerBuf' = <<>> /\ UNCHANGED <<wire, cur>>
      BY <1>8, <2>2 DEF EndTurn
    <3>2. Ids(pending') = Ids(pending) \cup Ids(steerBuf) /\ Distinct(pending')
      <4>1. Join(steerBuf) \in Entry /\ Join(steerBuf).ids = Ids(steerBuf)
        BY <1>0, JoinType, JoinQueue
      <4>2. Ids(steerBuf) \cap Ids(pending) = {} /\ Distinct(pending)
        BY DEF ApartInv
      <4>. QED
        BY <1>0, <3>1, <4>1, <4>2, AppendQueue
    <3>. QED
      BY <3>1, <3>2, EmptyQueue DEF ApartInv
  <2>. QED
    BY <2>1, <2>2
<1>9. CASE Fatal \/ Crash
  <2>1. wire' = <<>> /\ pending' = <<>> /\ steerBuf' = <<>>
    BY <1>9 DEF Fatal, Crash
  <2>. QED
    BY <2>1, EmptyQueue DEF ApartInv
<1>10. CASE Kill \/ Terminate \/ MarkExited
  <2>1. UNCHANGED <<pending, steerBuf, cur>>
    BY <1>10 DEF Kill, Terminate, MarkExited, engine
  <2>2. wire' = wire \/ wire' = <<>> \/ \E k \in 0..Len(wire) : wire' = SubSeq(wire, 1, k)
    BY <1>10 DEF Kill, Terminate, MarkExited
  <2>3. Ids(wire') \subseteq Ids(wire) /\ Distinct(wire')
    <3>1. CASE wire' = wire
      BY <3>1 DEF ApartInv
    <3>2. CASE wire' = <<>>
      BY <3>2, EmptyQueue
    <3>3. ASSUME NEW k \in 0..Len(wire), wire' = SubSeq(wire, 1, k)
          PROVE  Ids(wire') \subseteq Ids(wire) /\ Distinct(wire')
      BY <1>0, <3>3, CutQueue DEF ApartInv
    <3>. QED
      BY <2>2, <3>1, <3>2, <3>3
  <2>. QED
    BY <2>1, <2>3 DEF ApartInv
<1>. QED
  BY <1>1, <1>2, <1>3, <1>4, <1>5, <1>6, <1>7, <1>8, <1>9, <1>10, ChildSteps DEF ChildStep

(* Only a write gives the child a row or a frame.                          *)
LEMMA HoldsLess ==
  ASSUME TypeOK, [Next]_vars, ~\E t \in Threads : Write(t)
  PROVE  HeldRows' \subseteq HeldRows /\ Flying' \subseteq Flying
<1>0. wire \in Seq(Entry) /\ pending \in Seq(Entry) /\ steerBuf \in Seq(Entry)
  BY DEF TypeOK, EngineOK
<1>1. CASE ChildStill
  BY <1>1 DEF ChildStill, HeldRows, Flying
<1>3. CASE ReadFrame
  <2>1. /\ wire # <<>> /\ wire' = Tail(wire) /\ UNCHANGED cur
        /\ \/ UNCHANGED <<pending, steerBuf>>
           \/ steerBuf' = Append(steerBuf, Head(wire)) /\ UNCHANGED pending
           \/ pending' = Append(pending, Head(wire)) /\ UNCHANGED steerBuf
    BY <1>3 DEF ReadFrame
  <2>2. /\ Ids(wire) = Head(wire).ids \cup Ids(wire')
        /\ Fids(wire) = Head(wire).fids \cup Fids(wire') /\ Head(wire) \in Entry
    BY <1>0, <2>1, TailQueue, QueueType
  <2>3. ASSUME NEW q \in {pending, steerBuf}
        PROVE  /\ Ids(Append(q, Head(wire))) = Ids(q) \cup Head(wire).ids
               /\ Fids(Append(q, Head(wire))) = Fids(q) \cup Head(wire).fids
    BY <1>0, <2>2, AppendQueue
  <2>4. CASE UNCHANGED <<pending, steerBuf>>
    BY <2>1, <2>2, <2>4 DEF HeldRows, Flying
  <2>5. CASE steerBuf' = Append(steerBuf, Head(wire)) /\ UNCHANGED pending
    BY <2>1, <2>2, <2>3, <2>5 DEF HeldRows, Flying
  <2>6. CASE pending' = Append(pending, Head(wire)) /\ UNCHANGED steerBuf
    BY <2>1, <2>2, <2>3, <2>6 DEF HeldRows, Flying
  <2>. QED
    BY <2>1, <2>4, <2>5, <2>6
<1>4. CASE TakePrompt
  <2>1. /\ pending # <<>> /\ pending' = Tail(pending) /\ cur' = Head(pending).ids
        /\ UNCHANGED <<wire, steerBuf>>
    BY <1>4 DEF TakePrompt, TakeFrames
  <2>2. /\ Ids(pending) = Head(pending).ids \cup Ids(pending')
        /\ Fids(pending) = Head(pending).fids \cup Fids(pending')
    BY <1>0, <2>1, TailQueue
  <2>. QED
    BY <2>1, <2>2 DEF HeldRows, Flying
<1>5. CASE DrainSteers
  <2>1. steerBuf' = <<>> /\ cur' = Ids(steerBuf) /\ UNCHANGED <<wire, pending>>
    BY <1>0, <1>5, JoinQueue DEF DrainSteers, TakeFrames
  <2>. QED
    BY <2>1, EmptyQueue DEF HeldRows, Flying
<1>6. CASE Consume \/ ConsumeFails \/ BuildEngine \/ Pull
  BY <1>6 DEF Consume, ConsumeFails, BuildEngine, Pull, HeldRows, Flying
<1>7. CASE EnterTurn \/ EnterFails
  <2>1. cur' = {} /\ UNCHANGED <<wire, pending, steerBuf>>
    BY <1>7 DEF EnterTurn, EnterFails
  <2>. QED
    BY <2>1 DEF HeldRows, Flying
<1>8. CASE EndTurn
  <2>1. CASE steerBuf = <<>>
    BY <1>8, <2>1 DEF EndTurn, HeldRows, Flying
  <2>2. CASE steerBuf # <<>>
    <3>1. pending' = Append(pending, Join(steerBuf)) /\ steerBuf' = <<>> /\ UNCHANGED <<wire, cur>>
      BY <1>8, <2>2 DEF EndTurn
    <3>2. Ids(pending') = Ids(pending) \cup Ids(steerBuf) /\ Fids(pending') = Fids(pending) \cup Fids(steerBuf)
      BY <1>0, <3>1, JoinType, JoinQueue, AppendQueue
    <3>. QED
      BY <3>1, <3>2, EmptyQueue DEF HeldRows, Flying
  <2>. QED
    BY <2>1, <2>2
<1>9. CASE Fatal \/ Crash
  <2>1. wire' = <<>> /\ pending' = <<>> /\ steerBuf' = <<>> /\ (cur' = cur \/ cur' = {})
    BY <1>9 DEF Fatal, Crash
  <2>. QED
    BY <2>1, EmptyQueue DEF HeldRows, Flying
<1>10. CASE Kill \/ Terminate \/ MarkExited
  <2>1. UNCHANGED <<pending, steerBuf, cur>>
    BY <1>10 DEF Kill, Terminate, MarkExited, engine
  <2>2. wire' = wire \/ wire' = <<>> \/ \E k \in 0..Len(wire) : wire' = SubSeq(wire, 1, k)
    BY <1>10 DEF Kill, Terminate, MarkExited
  <2>3. Ids(wire') \subseteq Ids(wire) /\ Fids(wire') \subseteq Fids(wire)
    <3>1. CASE wire' = <<>>
      BY <3>1, EmptyQueue
    <3>2. ASSUME NEW k \in 0..Len(wire), wire' = SubSeq(wire, 1, k)
          PROVE  Ids(wire') \subseteq Ids(wire) /\ Fids(wire') \subseteq Fids(wire)
      BY <1>0, <3>2, CutQueue
    <3>. QED
      BY <2>2, <3>1, <3>2
  <2>. QED
    BY <2>1, <2>3 DEF HeldRows, Flying
<1>. QED
  BY <1>1, <1>3, <1>4, <1>5, <1>6, <1>7, <1>8, <1>9, <1>10, ChildSteps DEF ChildStep

LEMMA HeldAreRows == TypeOK => HeldRows \subseteq RowIds /\ Flying \subseteq FrameIds
<1>. SUFFICES ASSUME TypeOK PROVE HeldRows \subseteq RowIds /\ Flying \subseteq FrameIds
  OBVIOUS
<1>1. ASSUME NEW q \in Seq(Entry) PROVE Ids(q) \subseteq RowIds /\ Fids(q) \subseteq FrameIds
  <2>1. \A i \in DOMAIN q : q[i] \in Entry
    BY <1>1, ElementOfSeq
  <2>. QED
    BY <2>1 DEF Ids, Fids, Entry
<1>. QED
  BY <1>1 DEF TypeOK, EngineOK, HeldRows, Flying

(* Only an exit, a build and a crash bring a row back.                     *)
Returns == ReleaseInbox \/ BuildEngine \/ Crash

LEMMA StoreSteps ==
  ASSUME TypeOK, DeliveryInv, [Next]_vars, ~Returns, NEW r \in RowIds
  PROVE  /\ st[r] # "none" => st'[r] # "none"
         /\ st'[r] = "pending" => st[r] \in {"pending", "none"}
<1>0. st \in [RowIds -> States] /\ n \in 0..MaxRows
  BY DEF TypeOK, StoreOK
<1>1. CASE UNCHANGED st
  BY <1>1
<1>2. ASSUME NEW t \in Threads, Persist(t)
      PROVE  /\ st[r] # "none" => st'[r] # "none"
             /\ st'[r] = "pending" => st[r] \in {"pending", "none"}
  <2>1. n + 1 \in RowIds /\ n + 1 > n /\ st' = [st EXCEPT ![n + 1] = "pending"]
    BY <1>0, <1>2, InboxAssumption DEF Persist, RowIds
  <2>2. st[n + 1] = "none"
    BY <2>1 DEF DeliveryInv, RowsAccepted
  <2>. QED
    BY <1>0, <2>1, <2>2
<1>3. ASSUME NEW t \in Threads, Mark(t)
      PROVE  /\ st[r] # "none" => st'[r] # "none"
             /\ st'[r] = "pending" => st[r] \in {"pending", "none"}
  <2>1. PICK b \in todo[t] : st' = IF AwaitAck(b) THEN MarkSent(b.ids) ELSE MarkConsumed(b.ids)
    BY <1>3 DEF Mark
  <2>. QED
    BY <1>0, <2>1 DEF MarkSent, MarkConsumed
<1>4. CASE Pull \/ Sweep \/ Consume \/ DropInbox
  BY <1>0, <1>4 DEF Pull, Sweep, Consume, DropInbox, MarkConsumed, Drop
<1>5. ASSUME NEW t \in Threads,
             \/ \E m \in Msgs : Submit(t, m)
             \/ Start(t) \/ Read(t) \/ Hold(t) \/ Prepare(t) \/ Write(t) \/ WriteFails(t)
             \/ DeliverFails(t)
      PROVE  UNCHANGED st
  BY <1>5 DEF Submit, Start, Read, Hold, Prepare, Write, WriteFails, DeliverFails, store
<1>6. CASE Finish \/ ForgetFrames \/ RemoveChild \/ Resume \/ Recover \/ ResumeFails \/ Activate \/ Close \/ Breach \/ Raise
  BY <1>1, <1>6 DEF Finish, ForgetFrames, RemoveChild, Resume, Recover, ResumeFails, Activate, Close, Breach, Raise, store
<1>7. CASE ReadFrame \/ TakePrompt \/ DrainSteers \/ ConsumeFails \/ EnterTurn \/ EnterFails \/ EndTurn \/ Fatal \/ Kill \/ Terminate \/ MarkExited
  BY <1>1, <1>7 DEF ReadFrame, TakePrompt, DrainSteers, ConsumeFails, EnterTurn, EnterFails, EndTurn, Fatal, Kill, Terminate, MarkExited, store
<1>8. CASE UNCHANGED vars
  BY <1>1, <1>8 DEF vars, store
<1>. QED
  BY <1>1, <1>2, <1>3, <1>4, <1>5, <1>6, <1>7, <1>8 DEF Returns, Next, Steps, StoreFails, Deliver

(* The goroutine about to mark a row marks it: nobody else holds the lock. *)
GoersStill == UNCHANGED <<lock, pc, todo, frame>>

GoersStep(t) ==
  \/ \E m \in Msgs : Submit(t, m)
  \/ Start(t) \/ Persist(t) \/ Read(t) \/ Hold(t) \/ Prepare(t) \/ Write(t) \/ WriteFails(t)
  \/ Mark(t) \/ DeliverFails(t)

LEMMA GoersSteps == [Next]_vars => GoersStill \/ Crash \/ \E t \in Threads : GoersStep(t)
<1>. SUFFICES ASSUME [Next]_vars PROVE GoersStill \/ Crash \/ \E t \in Threads : GoersStep(t)
  OBVIOUS
<1>1. CASE UNCHANGED vars
  BY <1>1 DEF vars, goers, GoersStill
<1>2. CASE Pull \/ Sweep \/ ReadFrame \/ TakePrompt \/ DrainSteers \/ Consume \/ ConsumeFails
  BY <1>2 DEF Pull, Sweep, ReadFrame, TakePrompt, DrainSteers, Consume, ConsumeFails, goers, GoersStill
<1>3. CASE EnterTurn \/ EnterFails \/ EndTurn \/ Fatal \/ Kill \/ Terminate \/ MarkExited \/ Finish
  BY <1>3 DEF EnterTurn, EnterFails, EndTurn, Fatal, Kill, Terminate, MarkExited, Finish, goers, GoersStill
<1>4. CASE ForgetFrames \/ ReleaseInbox \/ RemoveChild \/ Resume \/ Recover \/ ResumeFails \/ BuildEngine
  BY <1>4 DEF ForgetFrames, ReleaseInbox, RemoveChild, Resume, Recover, ResumeFails, BuildEngine, goers, GoersStill
<1>5. CASE Activate \/ Close \/ DropInbox \/ Breach \/ Raise
  BY <1>5 DEF Activate, Close, DropInbox, Breach, Raise, goers, GoersStill
<1>. QED
  BY <1>1, <1>2, <1>3, <1>4, <1>5, Zenon DEF GoersStep, Next, Steps, StoreFails, Deliver

LEMMA MarkingStays ==
  ASSUME TypeOK, DeliveryInv, "store" \notin Adverse, [Next]_vars, ~Crash,
         NEW u \in Threads, pc[u] = "mark"
  PROVE  (pc'[u] = "mark" /\ todo'[u] = todo[u]) \/ Mark(u)
<1>0. DeliveryOK /\ Delivering(u) /\ lock = u /\ lock # NoThread
  BY InboxAssumption DEF TypeOK, DeliveryInv, RowsHeld, Delivering
<1>1. CASE GoersStill
  BY <1>1 DEF GoersStill
<1>2. ASSUME NEW t \in Threads, GoersStep(t) PROVE (pc'[u] = "mark" /\ todo'[u] = todo[u]) \/ Mark(u)
  <2>1. CASE (\E m \in Msgs : Submit(t, m)) \/ Start(t) \/ Persist(t)
    BY <1>0, <2>1 DEF Submit, Start, Persist, DeliveryOK
  <2>2. CASE Read(t) \/ DeliverFails(t)
    BY <1>0, <2>2 DEF Read, DeliverFails, Hit
  <2>3. CASE Hold(t) \/ Prepare(t) \/ Write(t) \/ WriteFails(t) \/ Mark(t)
    <3>1. Delivering(t)
      BY <2>3 DEF Hold, Prepare, Write, WriteFails, Mark, Delivering
    <3>2. t = u
      BY <1>0, <3>1 DEF DeliveryInv, RowsHeld
    <3>. QED
      BY <2>3, <3>2 DEF Hold, Prepare, Write, WriteFails
  <2>. QED
    BY <1>2, <2>1, <2>2, <2>3 DEF GoersStep
<1>. QED
  BY <1>1, <1>2, GoersSteps

LEMMA MarkedLeaves ==
  ASSUME TypeOK, DeliveryInv, NEW t \in Threads, Mark(t)
  PROVE  \A b \in todo[t] : First(b, todo[t]) =>
           st' = IF AwaitAck(b) THEN MarkSent(b.ids) ELSE MarkConsumed(b.ids)
<1>1. PICK c \in todo[t] : /\ pc[t] = "mark" /\ First(c, todo[t])
                           /\ st' = IF AwaitAck(c) THEN MarkSent(c.ids) ELSE MarkConsumed(c.ids)
  BY DEF Mark
<1>2. Delivering(t)
  BY <1>1 DEF Delivering
<1>. QED
  BY <1>1, <1>2, OneFirst

LEMMA TakenKept ==
  ASSUME Undisturbed, TypeOK, DeliveryInv, WorkerInv, QuietInv, TakenInv, [Next]_vars
  PROVE  TakenInv'
<1>0. HeldRows \subseteq RowIds /\ "store" \notin Adverse /\ st \in [RowIds -> States]
  BY HeldAreRows DEF Undisturbed, TypeOK, StoreOK
<1>1. ASSUME NEW t \in Threads, Write(t) PROVE TakenInv'
  <2>1. PICK b \in todo[t] : Writes(t, b)
    BY <1>1, WriteIs
  <2>2. Delivering(t) /\ pc[t] # "mark" /\ UNCHANGED <<st, todo, pending, steerBuf, cur>>
    BY <1>1, <2>1 DEF Writes, Write, Delivering, store, engine
  <2>3. HeldRows' = HeldRows \cup b.ids
    <3>1. Ids(wire') = Ids(wire) \cup b.ids
      BY <2>1, AppendQueue DEF TypeOK, EngineOK, Writes, Encode
    <3>. QED
      BY <2>2, <3>1 DEF HeldRows
  <2>4. \A r \in HeldRows : st'[r] \notin {"none", "pending"}
    BY <1>0, <2>2, NoOtherMark DEF TakenInv
  <2>5. \A r \in b.ids : st'[r] = "pending" /\ Marking(r)'
    <3>1. pc'[t] = "mark" /\ todo'[t] = todo[t]
      BY <2>1, <2>2 DEF Writes, TypeOK, DeliveryOK
    <3>2. \A r \in b.ids : st[r] = "pending"
      BY <2>1, <2>2 DEF Writes, DeliveryInv, RowsHeld
    <3>3. b \in todo'[t] /\ First(b, todo[t])'
      BY <2>1, <3>1 DEF Writes, First
    <3>. QED
      BY <2>2, <3>1, <3>2, <3>3 DEF Marking
  <2>. QED
    BY <2>3, <2>4, <2>5 DEF TakenInv
<1>2. CASE Returns
  <2>1. CASE Crash
    <3>1. HeldRows' = {}
      BY <2>1, EmptyQueue DEF Crash, HeldRows
    <3>. QED
      BY <3>1 DEF TakenInv
  <2>2. CASE ReleaseInbox \/ BuildEngine
    <3>1. /\ phase \in {"exited", "building"}
          /\ UNCHANGED <<wire, pending, steerBuf, cur>>
      BY <2>2 DEF ReleaseInbox, BuildEngine, QuietInv, engine
    <3>2. HeldRows' = {}
      BY <3>1, EmptyQueue DEF HeldRows, QuietInv, WorkerInv, InTurn, Running
    <3>. QED
      BY <3>2 DEF TakenInv
  <2>. QED
    BY <1>2, <2>1, <2>2 DEF Returns
<1>3. CASE ~Returns /\ ~\E t \in Threads : Write(t)
  <2>1. HeldRows' \subseteq HeldRows
    BY <1>3, HoldsLess
  <2>2. ASSUME NEW r \in HeldRows PROVE st'[r] # "none" /\ (st'[r] = "pending" => Marking(r)')
    <3>1. r \in RowIds /\ st[r] # "none"
      BY <1>0, <2>2 DEF TakenInv
    <3>2. st'[r] # "none" /\ (st'[r] = "pending" => st[r] = "pending")
      BY <1>3, <3>1, StoreSteps
    <3>3. ASSUME st'[r] = "pending" PROVE Marking(r)'
      <4>1. PICK u \in Threads : pc[u] = "mark" /\ \E b \in todo[u] : First(b, todo[u]) /\ r \in b.ids
        BY <3>2, <3>3, <2>2 DEF TakenInv, Marking
      <4>2. PICK b \in todo[u] : First(b, todo[u]) /\ r \in b.ids
        BY <4>1
      <4>3. ~Mark(u)
        BY <1>0, <3>1, <3>3, <4>2, MarkedLeaves DEF MarkSent, MarkConsumed, Open
      <4>4. pc'[u] = "mark" /\ todo'[u] = todo[u]
        BY <1>0, <1>3, <4>1, <4>3, MarkingStays DEF Returns
      <4>5. b \in todo'[u] /\ First(b, todo[u])'
        BY <4>2, <4>4 DEF First
      <4>. QED
        BY <4>2, <4>4, <4>5 DEF Marking
    <3>. QED
      BY <3>2, <3>3
  <2>. QED
    BY <2>1, <2>2 DEF TakenInv
<1>. QED
  BY <1>1, <1>2, <1>3

LEMMA InitCopy == Undisturbed /\ Init => CopyInv
<1>. SUFFICES ASSUME Undisturbed, Init PROVE CopyInv
  OBVIOUS
<1>1. "early" \notin Adverse
  BY DEF Undisturbed
<1>2. wire = <<>> /\ pending = <<>> /\ steerBuf = <<>> /\ cur = {} /\ ack = {} /\ eng = "idle" /\ xpc = "none"
  BY DEF Init
<1>3. WorkerInv
  BY <1>2 DEF WorkerInv
<1>4. QuietInv
  BY <1>1, <1>2 DEF Init, QuietInv
<1>5. ApartInv /\ TakenInv
  BY <1>2, EmptyQueue DEF ApartInv, TakenInv, HeldRows
<1>. QED
  BY <1>3, <1>4, <1>5 DEF CopyInv

LEMMA CopyHeld == ASSUME Undisturbed PROVE Spec => []CopyInv
<1>1. TypeOK /\ DeliveryInv /\ CopyInv /\ [Next]_vars => CopyInv'
  BY WorkerKept, QuietKept, ApartKept, TakenKept DEF CopyInv
<1>2. Init => CopyInv
  BY InitCopy
<1>. QED
  BY <1>1, <1>2, TypeCorrect, DeliveryHeld, PTL DEF Spec

(* A row that is in one place is there once.                               *)
LEMMA CountCopies == TypeOK /\ ApartInv => OneCopy
<1>. SUFFICES ASSUME TypeOK, ApartInv, NEW r \in RowIds
              PROVE  Cardinality(Copies(r)) + Cardinality(cur \cap {r}) <= 1
  BY DEF OneCopy
<1>1. Queues[1] = wire /\ Queues[2] = pending /\ Queues[3] = steerBuf
  BY DEF Queues
<1>2. ASSUME NEW x \in Copies(r)
      PROVE  /\ x = <<x[1], x[2]>> /\ x[1] \in {1, 2, 3}
             /\ x[2] \in DOMAIN Queues[x[1]] /\ r \in Queues[x[1]][x[2]].ids
  BY <1>2 DEF Copies
<1>3. ASSUME NEW x \in Copies(r)
      PROVE  /\ x[1] = 1 => r \in Ids(wire)
             /\ x[1] = 2 => r \in Ids(pending)
             /\ x[1] = 3 => r \in Ids(steerBuf)
  BY <1>1, <1>2, <1>3 DEF Ids
<1>4. ASSUME NEW x \in Copies(r), NEW y \in Copies(r) PROVE x = y
  <2>1. x[1] = y[1]
    BY <1>2, <1>3, <1>4 DEF ApartInv
  <2>2. x[2] = y[2]
    BY <1>1, <1>2, <1>4, <2>1 DEF ApartInv, Distinct
  <2>. QED
    BY <1>2, <1>4, <2>1, <2>2
<1>5. Copies(r) = {} \/ \E x : Copies(r) = {x}
  BY <1>4
<1>6. r \in cur => Copies(r) = {}
  BY <1>2, <1>3 DEF ApartInv
<1>7. Cardinality(Copies(r)) \in {0, 1} /\ (Copies(r) = {} => Cardinality(Copies(r)) = 0)
  BY <1>5, FS_EmptySet, FS_Singleton
<1>8. /\ Cardinality(cur \cap {r}) \in {0, 1}
      /\ r \notin cur => Cardinality(cur \cap {r}) = 0
  <2>1. CASE r \in cur
    <3>1. cur \cap {r} = {r}
      BY <2>1
    <3>. QED
      BY <2>1, <3>1, FS_Singleton
  <2>2. CASE r \notin cur
    <3>1. cur \cap {r} = {}
      BY <2>2
    <3>. QED
      BY <3>1, FS_EmptySet
  <2>. QED
    BY <2>1, <2>2
<1>. QED
  BY <1>6, <1>7, <1>8

(* While the store answers and nobody writes to an engine that is not      *)
(* built or resumes before an exit is over, the child never holds two      *)
(* copies of a message (queue.go, deliver; inbox_wiring.go, the resets on  *)
(* exit and on resolve).                                                   *)
THEOREM OneCopyHeld == ASSUME Undisturbed PROVE Spec => []OneCopy
<1>1. TypeOK /\ CopyInv => OneCopy
  BY CountCopies DEF CopyInv
<1>. QED
  BY <1>1, TypeCorrect, CopyHeld, PTL

-----------------------------------------------------------------------------
(* Frames.                                                                 *)

LEMMA FlyingIs ==
  \A f : f \in Flying <=> \E q \in {wire, pending, steerBuf} : \E i \in DOMAIN q : f \in q[i].fids
  BY DEF Flying, Fids

(* What Prepare decides for the first batch.                               *)
Prepares(t, b) ==
  /\ b \in todo[t] /\ First(b, todo[t]) /\ pc[t] = "batch" /\ UNCHANGED todo
  /\ \/ /\ pc' = [pc EXCEPT ![t] = "reject"] \/ pc' = [pc EXCEPT ![t] = "mark"]
        /\ UNCHANGED <<frame, sentFrames>>
        /\ pc' = [pc EXCEPT ![t] = "mark"] => Retired(b)
     \/ /\ ~AwaitAck(b) /\ pc' = [pc EXCEPT ![t] = "write"] /\ UNCHANGED <<frame, sentFrames>>
     \/ \E f \in FrameIds :
          /\ AwaitAck(b) /\ f \notin Flying /\ sentFrames[f] = {}
          /\ pc' = [pc EXCEPT ![t] = "write"]
          /\ frame' = [frame EXCEPT ![t] = f]
          /\ sentFrames' = [sentFrames EXCEPT ![f] = b.ids]

LEMMA PrepareIs ==
  ASSUME TypeOK, NEW t \in Threads, Prepare(t)
  PROVE  \E b \in todo[t] : Prepares(t, b)
<1>1. PICK b \in todo[t] :
    /\ pc[t] = "batch" /\ First(b, todo[t]) /\ UNCHANGED todo
    /\ \/ /\ Retired(b)
          /\ pc' = [pc EXCEPT ![t] = "mark"]
          /\ UNCHANGED <<frame, sentFrames>>
       \/ /\ TooBig(b)
          /\ pc' = [pc EXCEPT ![t] = "reject"]
          /\ UNCHANGED <<frame, sentFrames>>
       \/ /\ ~AwaitAck(b)
          /\ pc' = [pc EXCEPT ![t] = "write"]
          /\ UNCHANGED <<frame, sentFrames>>
       \/ \E f \in FrameIds :
            /\ AwaitAck(b) /\ Fresh(f)
            /\ pc' = [pc EXCEPT ![t] = "write"]
            /\ frame' = [frame EXCEPT ![t] = f]
            /\ sentFrames' = [sentFrames EXCEPT ![f] = b.ids]
  BY Zenon DEF Prepare, RejectBatch
<1>2. \A f \in FrameIds : Fresh(f) => f \notin Flying /\ sentFrames[f] = {}
  BY FlyingIs DEF Fresh, InUse
<1>3. pc \in [Threads -> {"off", "persist", "lock", "batch", "write", "mark", "reject"}]
  BY DEF TypeOK, DeliveryOK
<1>4. ~(pc' = [pc EXCEPT ![t] = "reject"] /\ pc' = [pc EXCEPT ![t] = "mark"])
  BY <1>3
<1>. QED
  BY <1>1, <1>2, <1>4 DEF Prepares

LEMMA FrameKept ==
  ASSUME TypeOK, DeliveryInv, FrameInv, [Next]_vars
  PROVE  FrameInv'
<1>0. /\ DeliveryOK /\ Flying \subseteq FrameIds /\ 0 \notin FrameIds
      /\ pc \in [Threads -> {"off", "persist", "lock", "batch", "write", "mark", "reject"}]
      /\ frame \in [Threads -> 0..MaxFrames] /\ todo \in [Threads -> SUBSET Batch]
  BY HeldAreRows DEF TypeOK, DeliveryOK, FrameIds
<1>1. CASE GoersStill
  <2>1. Flying' \subseteq Flying
    <3>1. ASSUME NEW t \in Threads, Write(t) PROVE FALSE
      BY <1>0, <1>1, <3>1 DEF GoersStill, Write
    <3>. QED
      BY <3>1, HoldsLess
  <2>. QED
    BY <1>1, <2>1 DEF GoersStill, FrameInv, AwaitAck
<1>2. CASE Crash
  BY <1>2 DEF Crash, FrameInv
<1>3. ASSUME NEW t \in Threads, GoersStep(t), ~Write(t),
             \A u \in Threads \ {t} : /\ pc'[u] = pc[u] /\ frame'[u] = frame[u] /\ todo'[u] = todo[u]
             ,
             /\ pc'[t] \in {"off", "persist", "lock", "batch", "reject"} => frame'[t] = 0
             /\ pc'[t] = "write" => frame'[t] \notin Flying
             /\ pc'[t] = "write" => \A b \in todo'[t] : First(b, todo'[t]) => (frame'[t] # 0 <=> AwaitAck(b))
      PROVE  FrameInv'
  <2>1. Flying' \subseteq Flying
    <3>1. ASSUME NEW u \in Threads, Write(u) PROVE FALSE
      <4>1. pc[u] = "write" /\ pc'[u] = "mark"
        BY <1>0, <3>1 DEF Write
      <4>. QED
        BY <1>3, <3>1, <4>1
    <3>. QED
      BY <3>1, HoldsLess
  <2>. QED
    BY <1>3, <2>1 DEF FrameInv, AwaitAck
<1>4. ASSUME NEW t \in Threads, Return(t), GoersStep(t), ~Write(t) PROVE FrameInv'
  <2>1. /\ \A u \in Threads \ {t} : pc'[u] = pc[u] /\ frame'[u] = frame[u] /\ todo'[u] = todo[u]
        /\ pc'[t] = "off" /\ frame'[t] = 0
    BY <1>0, <1>4 DEF Return
  <2>. QED
    BY <1>3, <1>4, <2>1
<1>5. ASSUME NEW t \in Threads, (\E m \in Msgs : Submit(t, m)) \/ Start(t) \/ Persist(t) PROVE FrameInv'
  <2>1. /\ \A u \in Threads \ {t} : pc'[u] = pc[u] /\ frame'[u] = frame[u] /\ todo'[u] = todo[u]
        /\ pc'[t] \in {"off", "persist", "lock"} /\ frame'[t] = frame[t] /\ pc[t] \in {"off", "persist"}
    BY <1>0, <1>5 DEF Submit, Start, Persist
  <2>2. frame'[t] = 0 /\ ~Write(t)
    BY <2>1 DEF FrameInv, Write
  <2>. QED
    BY <1>3, <1>5, <2>1, <2>2 DEF GoersStep
<1>6. ASSUME NEW t \in Threads, Read(t) PROVE FrameInv'
  <2>1. /\ \A u \in Threads \ {t} : pc'[u] = pc[u] /\ frame'[u] = frame[u] /\ todo'[u] = todo[u]
        /\ pc'[t] \in {"off", "batch"} /\ frame'[t] = frame[t] /\ pc[t] = "lock"
    BY <1>0, <1>6 DEF Read
  <2>2. frame'[t] = 0 /\ ~Write(t)
    BY <2>1 DEF FrameInv, Write
  <2>. QED
    BY <1>3, <1>6, <2>1, <2>2 DEF GoersStep
<1>7. ASSUME NEW t \in Threads, Hold(t) \/ WriteFails(t) \/ DeliverFails(t) PROVE FrameInv'
  <2>1. Return(t)
    BY <1>7 DEF Hold, WriteFails, DeliverFails
  <2>2. ~Write(t)
    BY <1>0, <2>1 DEF Return, Write
  <2>. QED
    BY <1>4, <1>7, <2>1, <2>2 DEF GoersStep
<1>8. ASSUME NEW t \in Threads, Mark(t) PROVE FrameInv'
  <2>1. /\ \A u \in Threads \ {t} : pc'[u] = pc[u] /\ frame'[u] = frame[u] /\ todo'[u] = todo[u]
        /\ pc'[t] \in {"off", "batch"} /\ frame'[t] = 0
    BY <1>0, <1>8 DEF Mark, Return
  <2>2. ~Write(t)
    BY <1>0, <2>1 DEF Write
  <2>. QED
    BY <1>3, <1>8, <2>1, <2>2 DEF GoersStep
<1>9. ASSUME NEW t \in Threads, Prepare(t) PROVE FrameInv'
  <2>1. PICK b \in todo[t] : Prepares(t, b)
    BY <1>9, PrepareIs
  <2>2. frame[t] = 0 /\ Delivering(t) /\ ~Write(t)
    BY <2>1 DEF Prepares, FrameInv, Delivering, Write
  <2>3. /\ \A u \in Threads \ {t} : pc'[u] = pc[u] /\ frame'[u] = frame[u] /\ todo'[u] = todo[u]
        /\ todo' = todo /\ pc'[t] \in {"reject", "mark", "write"}
        /\ pc'[t] = "reject" => frame'[t] = 0
        /\ pc'[t] = "write" => frame'[t] \notin Flying /\ (frame'[t] # 0 <=> AwaitAck(b))
    BY <1>0, <2>1, <2>2 DEF Prepares
  <2>4. \A c \in todo[t] : First(c, todo[t]) => c = b
    BY <2>1, <2>2, OneFirst DEF Prepares
  <2>. QED
    BY <1>3, <1>9, <2>2, <2>3, <2>4 DEF GoersStep
<1>10. ASSUME NEW t \in Threads, Write(t) PROVE FrameInv'
  <2>1. /\ pc[t] = "write" /\ UNCHANGED <<frame, todo>>
        /\ pc'[t] = "mark" /\ \A u \in Threads \ {t} : pc'[u] = pc[u]
    BY <1>0, <1>10 DEF Write
  <2>2. \A u \in Threads \ {t} : pc[u] # "write"
    BY <2>1 DEF DeliveryInv, RowsHeld, Delivering
  <2>. QED
    BY <2>1, <2>2 DEF FrameInv
<1>. QED
  BY <1>1, <1>2, <1>5, <1>6, <1>7, <1>8, <1>9, <1>10, GoersSteps DEF GoersStep

LEMMA AbortKept ==
  ASSUME TypeOK, DeliveryInv, FrameInv, AbortInv, [Next]_vars
  PROVE  AbortInv'
<1>0. wire \in Seq(Entry)
  BY DEF TypeOK, EngineOK
<1>1. CASE wire' = wire \/ wire' = <<>>
  BY <1>1 DEF AbortInv
<1>2. CASE wire # <<>> /\ wire' = Tail(wire)
  BY <1>0, <1>2 DEF AbortInv
<1>3. ASSUME NEW k \in 0..Len(wire), wire' = SubSeq(wire, 1, k) PROVE AbortInv'
  BY <1>0, <1>3 DEF AbortInv
<1>4. ASSUME NEW t \in Threads, Write(t) PROVE AbortInv'
  <2>1. PICK b \in todo[t] : Writes(t, b)
    BY <1>4, WriteIs
  <2>2. Encode(t, b) \in Entry /\ (Encode(t, b).mode = "abort" => Encode(t, b).fids = {})
    BY <2>1 DEF Writes, Encode, FrameInv, AwaitAck
  <2>3. wire' = Append(wire, Encode(t, b))
    BY <2>1 DEF Writes
  <2>. HIDE DEF Entry
  <2>4. \A i \in DOMAIN wire' : wire'[i] = Encode(t, b) \/ (i \in DOMAIN wire /\ wire'[i] = wire[i])
    BY <1>0, <2>2, <2>3
  <2>. QED
    BY <2>2, <2>4 DEF AbortInv
<1>5. CASE ChildStill
  BY <1>1, <1>5 DEF ChildStill
<1>6. CASE ReadFrame \/ TakePrompt \/ DrainSteers \/ Consume \/ ConsumeFails \/ EnterTurn \/ EnterFails \/ EndTurn
  BY <1>1, <1>2, <1>6 DEF ReadFrame, TakePrompt, DrainSteers, Consume, ConsumeFails, EnterTurn, EnterFails, EndTurn
<1>7. CASE Fatal \/ Kill \/ Terminate \/ MarkExited \/ BuildEngine \/ Crash \/ Pull
  BY <1>1, <1>3, <1>7 DEF Fatal, Kill, Terminate, MarkExited, BuildEngine, Crash, Pull
<1>. QED
  BY <1>4, <1>5, <1>6, <1>7, ChildSteps DEF ChildStep

LEMMA InitFrames == Init => FrameInv /\ AbortInv
  BY DEF Init, FrameInv, AbortInv

LEMMA FramesHeld == Spec => [](FrameInv /\ AbortInv)
<1>1. TypeOK /\ DeliveryInv /\ FrameInv /\ AbortInv /\ [Next]_vars => FrameInv' /\ AbortInv'
  BY FrameKept, AbortKept
<1>. QED
  BY <1>1, InitFrames, TypeCorrect, DeliveryHeld, PTL DEF Spec

(* Who touches the frames, who marks a row sent, who starts a process.     *)
LEMMA FrameSteps ==
  ASSUME [Next]_vars
  PROVE  \/ UNCHANGED sentFrames
         \/ \E t \in Threads : Prepare(t) \/ WriteFails(t)
         \/ TakePrompt \/ DrainSteers \/ ForgetFrames \/ Close \/ Crash
<1>1. CASE UNCHANGED vars
  BY <1>1 DEF vars
<1>2. ASSUME NEW t \in Threads,
             \/ \E m \in Msgs : Submit(t, m)
             \/ Start(t) \/ Persist(t) \/ Read(t) \/ Hold(t) \/ Write(t) \/ Mark(t) \/ DeliverFails(t)
      PROVE  UNCHANGED sentFrames
  BY <1>2 DEF Submit, Start, Persist, Read, Hold, Write, Mark, DeliverFails
<1>3. CASE Pull \/ Sweep \/ ReadFrame \/ Consume \/ ConsumeFails \/ EnterTurn \/ EnterFails \/ EndTurn
  BY <1>3 DEF Pull, Sweep, ReadFrame, Consume, ConsumeFails, EnterTurn, EnterFails, EndTurn
<1>4. CASE Fatal \/ Kill \/ Terminate \/ MarkExited \/ Finish \/ ReleaseInbox \/ RemoveChild \/ Resume \/ Recover
  BY <1>4 DEF Fatal, Kill, Terminate, MarkExited, Finish, ReleaseInbox, RemoveChild, Resume, Recover
<1>5. CASE ResumeFails \/ BuildEngine \/ Activate \/ DropInbox \/ Breach \/ Raise
  BY <1>5 DEF ResumeFails, BuildEngine, Activate, DropInbox, Breach, Raise
<1>. QED
  BY <1>1, <1>2, <1>3, <1>4, <1>5, Zenon DEF Next, Steps, StoreFails, Deliver

LEMMA SentBy ==
  ASSUME TypeOK, [Next]_vars, NEW r \in RowIds, st'[r] = "sent", st[r] # "sent"
  PROVE  \E t \in Threads : pc[t] = "mark" /\ \E b \in todo[t] : First(b, todo[t]) /\ AwaitAck(b) /\ r \in b.ids
<1>0. st \in [RowIds -> States]
  BY DEF TypeOK, StoreOK
<1>1. ~UNCHANGED st
  OBVIOUS
<1>2. ASSUME NEW t \in Threads, Persist(t) PROVE FALSE
  BY <1>0, <1>2 DEF Persist
<1>3. ~Pull /\ ~Sweep /\ ~Consume /\ ~DropInbox
  BY <1>0 DEF Pull, Sweep, Consume, DropInbox, MarkConsumed, Drop
<1>4. ~ReleaseInbox /\ ~BuildEngine /\ ~Crash
  BY <1>0 DEF ReleaseInbox, BuildEngine, Crash, ResetSent
<1>5. ASSUME NEW t \in Threads,
             \/ \E m \in Msgs : Submit(t, m)
             \/ Start(t) \/ Read(t) \/ Hold(t) \/ Prepare(t) \/ Write(t) \/ WriteFails(t)
             \/ DeliverFails(t)
      PROVE  FALSE
  BY <1>1, <1>5 DEF Submit, Start, Read, Hold, Prepare, Write, WriteFails, DeliverFails, store
<1>6. ASSUME Finish \/ ForgetFrames \/ RemoveChild \/ Resume \/ Recover \/ ResumeFails \/ Activate \/ Close \/ Breach \/ Raise PROVE FALSE
  BY <1>1, <1>6 DEF Finish, ForgetFrames, RemoveChild, Resume, Recover, ResumeFails, Activate, Close, Breach, Raise, store
<1>7. ASSUME ReadFrame \/ TakePrompt \/ DrainSteers \/ ConsumeFails \/ EnterTurn \/ EnterFails \/ EndTurn \/ Fatal \/ Kill \/ Terminate \/ MarkExited PROVE FALSE
  BY <1>1, <1>7 DEF ReadFrame, TakePrompt, DrainSteers, ConsumeFails, EnterTurn, EnterFails, EndTurn, Fatal, Kill, Terminate, MarkExited, store
<1>8. ASSUME UNCHANGED vars PROVE FALSE
  BY <1>1, <1>8 DEF vars, store
<1>9. PICK t \in Threads : Mark(t)
  BY <1>2, <1>3, <1>4, <1>5, <1>6, <1>7, <1>8, Zenon DEF Next, Steps, StoreFails, Deliver
<1>10. PICK b \in todo[t] :
         /\ pc[t] = "mark" /\ First(b, todo[t])
         /\ st' = IF AwaitAck(b) THEN MarkSent(b.ids) ELSE MarkConsumed(b.ids)
  BY <1>9 DEF Mark
<1>11. AwaitAck(b) /\ r \in b.ids
  BY <1>0, <1>10 DEF MarkSent, MarkConsumed
<1>. QED
  BY <1>10, <1>11

LEMMA StartedBy ==
  ASSUME [Next]_vars, Running', ~BuildEngine
  PROVE  Running /\ (phase' = "up" => phase = "up")
<1>1. CASE LifeStill
  BY <1>1 DEF LifeStill, Running
<1>2. CASE LifeStep
  <2>1. CASE Fatal \/ Kill \/ Terminate \/ Finish \/ MarkExited
    BY <2>1 DEF Fatal, Kill, Terminate, Finish, MarkExited, Running
  <2>2. CASE ForgetFrames \/ ReleaseInbox \/ RemoveChild \/ Resume \/ Recover \/ ResumeFails
    BY <2>2 DEF ForgetFrames, ReleaseInbox, RemoveChild, Resume, Recover, ResumeFails, Running
  <2>3. CASE Activate \/ Crash \/ Close \/ DropInbox
    BY <2>3 DEF Activate, Crash, Close, DropInbox, Running
  <2>. QED
    BY <1>2, <2>1, <2>2, <2>3 DEF LifeStep
<1>. QED
  BY <1>1, <1>2, LifeSteps

(* Who comes to write and to mark.                                         *)
LEMMA WritesFrom ==
  ASSUME TypeOK, DeliveryInv, [Next]_vars, NEW t \in Threads, pc'[t] \in {"write", "mark"}
  PROVE  \/ pc[t] = pc'[t] /\ todo'[t] = todo[t] /\ frame'[t] = frame[t]
         \/ Prepare(t) \/ (Write(t) /\ pc'[t] = "mark")
<1>0. /\ pc \in [Threads -> {"off", "persist", "lock", "batch", "write", "mark", "reject"}]
      /\ frame \in [Threads -> 0..MaxFrames] /\ todo \in [Threads -> SUBSET Batch]
  BY DEF TypeOK, DeliveryOK
<1>1. CASE GoersStill
  BY <1>1 DEF GoersStill
<1>2. CASE Crash
  BY <1>2 DEF Crash
<1>3. ASSUME NEW u \in Threads, GoersStep(u)
      PROVE  \/ pc[t] = pc'[t] /\ todo'[t] = todo[t] /\ frame'[t] = frame[t]
             \/ Prepare(t) \/ (Write(t) /\ pc'[t] = "mark")
  <2>1. CASE (\E m \in Msgs : Submit(u, m)) \/ Start(u) \/ Persist(u) \/ Read(u)
    BY <1>0, <2>1 DEF Submit, Start, Persist, Read
  <2>2. CASE Hold(u) \/ WriteFails(u) \/ DeliverFails(u)
    BY <1>0, <2>2 DEF Hold, WriteFails, DeliverFails, Return
  <2>3. CASE Mark(u)
    BY <1>0, <2>3 DEF Mark, Return
  <2>4. CASE Write(u)
    BY <1>0, <2>4 DEF Write
  <2>5. CASE Prepare(u)
    <3>1. PICK b \in todo[u] : Prepares(u, b)
      BY <2>5, PrepareIs
    <3>. QED
      BY <1>0, <2>5, <3>1 DEF Prepares
  <2>. QED
    BY <1>3, <2>1, <2>2, <2>3, <2>4, <2>5 DEF GoersStep
<1>. QED
  BY <1>1, <1>2, <1>3, GoersSteps

(* While the child runs a frame leaves the queues only with its ack.       *)
Taking(e) ==
  /\ e.fids \subseteq Flying /\ ack' = UNION {sentFrames[f] : f \in e.fids} /\ cur' = e.ids
  /\ sentFrames' = [f \in FrameIds |-> IF f \in e.fids THEN {} ELSE sentFrames[f]]
  /\ Flying \subseteq Flying' \cup e.fids

LEMMA TakesFrames ==
  ASSUME TypeOK, TakePrompt \/ DrainSteers
  PROVE  \E e \in Entry : Taking(e)
<1>0. wire \in Seq(Entry) /\ pending \in Seq(Entry) /\ steerBuf \in Seq(Entry)
  BY DEF TypeOK, EngineOK
<1>1. CASE TakePrompt
  <2>1. pending # <<>> /\ pending' = Tail(pending) /\ TakeFrames(Head(pending)) /\ UNCHANGED <<wire, steerBuf>>
    BY <1>1 DEF TakePrompt
  <2>2. Head(pending) \in Entry /\ Fids(pending) = Head(pending).fids \cup Fids(pending')
    BY <1>0, <2>1, TailQueue, QueueType
  <2>3. Taking(Head(pending))
    BY <2>1, <2>2 DEF TakeFrames, Taking, Flying
  <2>. QED
    BY <2>2, <2>3
<1>2. CASE DrainSteers
  <2>1. steerBuf' = <<>> /\ TakeFrames(Join(steerBuf)) /\ UNCHANGED <<wire, pending>>
    BY <1>2 DEF DrainSteers
  <2>2. Join(steerBuf) \in Entry /\ Join(steerBuf).fids = Fids(steerBuf)
    BY <1>0, JoinType, JoinQueue
  <2>3. Taking(Join(steerBuf))
    BY <2>1, <2>2 DEF TakeFrames, Taking, Flying
  <2>. QED
    BY <2>2, <2>3
<1>. QED
  BY <1>1, <1>2

LEMMA FlyingStays ==
  ASSUME TypeOK, AbortInv, [Next]_vars, phase' = "up", ~TakePrompt, ~DrainSteers
  PROVE  Flying \subseteq Flying'
<1>0. wire \in Seq(Entry) /\ pending \in Seq(Entry) /\ steerBuf \in Seq(Entry)
  BY DEF TypeOK, EngineOK
<1>1. CASE UNCHANGED <<wire, pending, steerBuf>>
  BY <1>1 DEF Flying
<1>2. ASSUME NEW t \in Threads, Write(t) PROVE Flying \subseteq Flying'
  <2>1. PICK b \in todo[t] : Writes(t, b)
    BY <1>2, WriteIs
  <2>2. Fids(wire') = Fids(wire) \cup Encode(t, b).fids /\ UNCHANGED <<pending, steerBuf>>
    BY <1>0, <1>2, <2>1, AppendQueue DEF Writes, Write, engine
  <2>. QED
    BY <2>2 DEF Flying
<1>3. CASE ReadFrame
  <2>1. /\ wire # <<>> /\ wire' = Tail(wire)
        /\ \/ Head(wire).mode = "abort" /\ UNCHANGED <<pending, steerBuf>>
           \/ steerBuf' = Append(steerBuf, Head(wire)) /\ UNCHANGED pending
           \/ pending' = Append(pending, Head(wire)) /\ UNCHANGED steerBuf
    BY <1>3 DEF ReadFrame
  <2>2. Fids(wire) = Head(wire).fids \cup Fids(wire') /\ Head(wire) \in Entry
    BY <1>0, <2>1, TailQueue, QueueType
  <2>3. ASSUME NEW q \in {pending, steerBuf}
        PROVE  Fids(Append(q, Head(wire))) = Fids(q) \cup Head(wire).fids
    BY <1>0, <2>2, AppendQueue
  <2>4. CASE Head(wire).mode = "abort" /\ UNCHANGED <<pending, steerBuf>>
    <3>1. 1 \in DOMAIN wire /\ Head(wire) = wire[1]
      BY <1>0, <2>1
    <3>2. Head(wire).fids = {}
      BY <2>4, <3>1 DEF AbortInv
    <3>. QED
      BY <2>2, <2>4, <3>2 DEF Flying
  <2>5. CASE steerBuf' = Append(steerBuf, Head(wire)) /\ UNCHANGED pending
    BY <2>2, <2>3, <2>5 DEF Flying
  <2>6. CASE pending' = Append(pending, Head(wire)) /\ UNCHANGED steerBuf
    BY <2>2, <2>3, <2>6 DEF Flying
  <2>. QED
    BY <2>1, <2>4, <2>5, <2>6
<1>4. CASE EndTurn
  <2>1. CASE steerBuf = <<>>
    BY <1>4, <2>1 DEF EndTurn, Flying
  <2>2. CASE steerBuf # <<>>
    <3>1. pending' = Append(pending, Join(steerBuf)) /\ steerBuf' = <<>> /\ UNCHANGED wire
      BY <1>4, <2>2 DEF EndTurn
    <3>2. Fids(pending') = Fids(pending) \cup Fids(steerBuf)
      BY <1>0, <3>1, JoinType, JoinQueue, AppendQueue
    <3>. QED
      BY <3>1, <3>2 DEF Flying
  <2>. QED
    BY <2>1, <2>2
<1>5. CASE ChildStill \/ Consume \/ ConsumeFails \/ EnterTurn \/ EnterFails \/ BuildEngine \/ Pull
  BY <1>1, <1>5 DEF ChildStill, Consume, ConsumeFails, EnterTurn, EnterFails, BuildEngine, Pull
<1>6. ~Fatal /\ ~Kill /\ ~Terminate /\ ~MarkExited /\ ~Crash
  BY DEF Fatal, Kill, Terminate, MarkExited, Crash
<1>. QED
  BY <1>2, <1>3, <1>4, <1>5, <1>6, ChildSteps DEF ChildStep

(* A row its frame or its ack accounts for stays so until it is consumed.  *)
LEMMA CoveredKept ==
  ASSUME "store" \notin Adverse, TypeOK, DeliveryInv, WorkerInv, QuietInv, FrameInv, AbortInv,
         [Next]_vars, phase = "up", phase' = "up", NEW r \in RowIds, Covered(r)
  PROVE  Covered(r)' \/ (Consume /\ r \in ack)
<1>0. Flying \subseteq FrameIds /\ sentFrames \in [FrameIds -> SUBSET RowIds]
  BY HeldAreRows DEF TypeOK, EngineOK
<1>1. CASE r \in ack
  <2>1. CASE ChildStill
    BY <1>1, <2>1 DEF ChildStill, Covered
  <2>2. CASE TakePrompt \/ DrainSteers
    BY <1>1, <2>2 DEF TakePrompt, DrainSteers, WorkerInv
  <2>3. ~Fatal /\ ~Kill /\ ~Terminate /\ ~MarkExited /\ ~Crash /\ ~ConsumeFails
    BY DEF Fatal, Kill, Terminate, MarkExited, Crash, ConsumeFails, Hit
  <2>4. CASE (\E t \in Threads : Write(t)) \/ ReadFrame \/ EnterTurn \/ EnterFails \/ EndTurn \/ BuildEngine \/ Pull
    BY <1>1, <2>4 DEF Write, ReadFrame, EnterTurn, EnterFails, EndTurn, BuildEngine, Pull, engine, Covered
  <2>. QED
    BY <1>1, <2>1, <2>2, <2>3, <2>4, ChildSteps DEF ChildStep
<1>2. ASSUME NEW f \in Flying, r \in sentFrames[f] PROVE Covered(r)'
  <2>1. CASE TakePrompt \/ DrainSteers
    <3>1. PICK e \in Entry : Taking(e)
      BY <2>1, TakesFrames
    <3>2. CASE f \in e.fids
      BY <1>2, <3>1, <3>2 DEF Taking, Covered
    <3>3. CASE f \notin e.fids
      <4>1. f \in Flying' /\ r \in sentFrames'[f]
        BY <1>0, <1>2, <3>1, <3>3 DEF Taking
      <4>. QED
        BY <4>1 DEF Covered
    <3>. QED
      BY <3>2, <3>3
  <2>2. CASE ~TakePrompt /\ ~DrainSteers
    <3>1. f \in Flying'
      BY <1>2, <2>2, FlyingStays
    <3>2. r \in sentFrames'[f]
      <4>1. ASSUME NEW t \in Threads, Prepare(t) PROVE r \in sentFrames'[f]
        <5>1. PICK b \in todo[t] : Prepares(t, b)
          BY <4>1, PrepareIs
        <5>. QED
          BY <1>0, <1>2, <5>1 DEF Prepares
      <4>2. ASSUME NEW t \in Threads, WriteFails(t) PROVE r \in sentFrames'[f]
        <5>1. frame[t] \notin Flying
          BY <4>2 DEF WriteFails, FrameInv
        <5>. QED
          BY <1>0, <1>2, <4>2, <5>1 DEF WriteFails
      <4>3. ~ForgetFrames /\ ~Close /\ ~Crash
        BY DEF ForgetFrames, Close, Crash, QuietInv
      <4>. QED
        BY <1>2, <2>2, <4>1, <4>2, <4>3, FrameSteps
    <3>. QED
      BY <3>1, <3>2 DEF Covered
  <2>. QED
    BY <2>1, <2>2
<1>. QED
  BY <1>1, <1>2 DEF Covered

(* A frame that is recorded and not yet written names its batch's rows.    *)
Recorded ==
  Running => \A t \in Threads : pc[t] = "write" => \A b \in todo[t] :
    First(b, todo[t]) /\ AwaitAck(b) => b.ids \subseteq sentFrames[frame[t]]

LEMMA RecordedKept ==
  ASSUME TypeOK, DeliveryInv, QuietInv, FrameInv, Recorded, [Next]_vars
  PROVE  Recorded'
<1>0. /\ Flying \subseteq FrameIds /\ sentFrames \in [FrameIds -> SUBSET RowIds]
      /\ pc \in [Threads -> {"off", "persist", "lock", "batch", "write", "mark", "reject"}]
      /\ frame \in [Threads -> 0..MaxFrames]
  BY HeldAreRows DEF TypeOK, EngineOK, DeliveryOK
<1>. SUFFICES ASSUME Running', NEW t \in Threads, pc'[t] = "write", NEW b \in todo'[t],
                     First(b, todo'[t]), AwaitAck(b)
              PROVE  b.ids \subseteq sentFrames'[frame'[t]]
  BY DEF Recorded, AwaitAck, First, Before
<1>1. CASE BuildEngine
  <2>1. lock = NoThread /\ pc' = pc
    BY <1>1 DEF BuildEngine, goers
  <2>. QED
    BY <2>1, FreeLock DEF DeliveryInv, Delivering
<1>2. CASE ~BuildEngine
  <2>1. Running
    BY <1>2, StartedBy
  <2>2. CASE Prepare(t)
    <3>1. PICK c \in todo[t] : Prepares(t, c)
      BY <2>2, PrepareIs
    <3>2. b = c
      BY <3>1, OneFirst DEF Prepares, Delivering
    <3>. QED
      BY <1>0, <3>1, <3>2 DEF Prepares
  <2>3. CASE pc[t] = pc'[t] /\ todo'[t] = todo[t] /\ frame'[t] = frame[t]
    <3>1. b.ids \subseteq sentFrames[frame[t]]
      BY <2>1, <2>3 DEF Recorded
    <3>2. frame[t] \in FrameIds /\ frame[t] \notin Flying
      BY <1>0, <2>3 DEF FrameInv, FrameIds
    <3>3. ASSUME NEW u \in Threads, Prepare(u) \/ WriteFails(u) PROVE FALSE
      <4>1. Delivering(u) /\ Delivering(t)
        BY <2>3, <3>3 DEF Prepare, WriteFails, Delivering
      <4>2. u = t
        BY <4>1 DEF DeliveryInv, RowsHeld
      <4>. QED
        BY <1>0, <2>3, <3>3, <4>2 DEF Prepare, WriteFails, Return
    <3>4. CASE TakePrompt \/ DrainSteers
      <4>1. PICK e \in Entry : Taking(e)
        BY <3>4, TakesFrames
      <4>. QED
        BY <2>3, <3>1, <3>2, <4>1 DEF Taking
    <3>5. ~ForgetFrames /\ ~Close /\ ~Crash
      BY <2>1 DEF ForgetFrames, Close, Crash, QuietInv, Running
    <3>. QED
      BY <2>3, <3>1, <3>3, <3>4, <3>5, FrameSteps
  <2>. QED
    BY <1>0, <2>2, <2>3, WritesFrom DEF Write
<1>. QED
  BY <1>1, <1>2

LEMMA StrandKept ==
  ASSUME "store" \notin Adverse, TypeOK, DeliveryInv, WorkerInv, QuietInv, FrameInv, AbortInv, StrandInv,
         [Next]_vars
  PROVE  StrandInv'
<1>0. /\ st \in [RowIds -> States] /\ frame \in [Threads -> 0..MaxFrames]
      /\ pc \in [Threads -> {"off", "persist", "lock", "batch", "write", "mark", "reject"}]
      /\ wire \in Seq(Entry) /\ todo \in [Threads -> SUBSET Batch]
  BY DEF TypeOK, StoreOK, DeliveryOK, EngineOK
<1>1. ASSUME Kind # "fundi", NEW r \in RowIds, st'[r] = "sent" PROVE FALSE
  BY <1>1, SentBy DEF StrandInv, AwaitAck
<1>2. Recorded'
  BY RecordedKept DEF StrandInv, Recorded
<1>3. ASSUME phase' = "up", NEW r \in RowIds, st'[r] = "sent" PROVE Covered(r)'
  <2>1. CASE BuildEngine
    BY <1>0, <1>1, <1>3, <2>1 DEF BuildEngine, ResetSent
  <2>2. CASE ~BuildEngine
    <3>1. phase = "up"
      BY <1>3, <2>2, StartedBy DEF Running
    <3>2. Covered(r)
      <4>1. CASE st[r] = "sent"
        BY <3>1, <4>1 DEF StrandInv
      <4>2. CASE st[r] # "sent"
        BY <1>3, <3>1, <4>2, SentBy DEF StrandInv
      <4>. QED
        BY <4>1, <4>2
    <3>3. ~(Consume /\ r \in ack)
      BY <1>0, <1>3 DEF Consume, MarkConsumed, Open
    <3>. QED
      BY <1>3, <3>1, <3>2, <3>3, CoveredKept
  <2>. QED
    BY <2>1, <2>2
<1>4. ASSUME phase' = "up", NEW t \in Threads, pc'[t] = "mark", NEW b \in todo'[t],
             First(b, todo'[t]), AwaitAck(b), NEW r \in b.ids
      PROVE  Covered(r)'
  <2>1. CASE BuildEngine
    <3>1. lock = NoThread /\ pc' = pc
      BY <2>1 DEF BuildEngine, goers
    <3>. QED
      BY <1>4, <3>1, FreeLock DEF DeliveryInv, Delivering
  <2>2. CASE ~BuildEngine
    <3>0. phase = "up"
      BY <1>4, <2>2, StartedBy DEF Running
    <3>1. CASE pc[t] = pc'[t] /\ todo'[t] = todo[t]
      <4>1. Covered(r) /\ r \in RowIds
        BY <1>0, <1>4, <3>0, <3>1 DEF StrandInv, Batch
      <4>2. ~(Consume /\ r \in ack)
        <5>1. lock = t /\ t # NoThread
          BY <1>4, <3>1, InboxAssumption DEF DeliveryInv, RowsHeld, Delivering
        <5>. QED
          BY <5>1 DEF Consume
      <4>. QED
        BY <1>4, <3>0, <4>1, <4>2, CoveredKept
    <3>2. CASE Prepare(t)
      <4>1. PICK c \in todo[t] : Prepares(t, c)
        BY <3>2, PrepareIs
      <4>2. b = c
        BY <1>4, <4>1, OneFirst DEF Prepares, Delivering
      <4>3. Retired(c)
        BY <1>0, <1>4, <4>1 DEF Prepares
      <4>. QED
        BY <1>4, <4>2, <4>3 DEF Retired, AwaitAck
    <3>3. CASE Write(t)
      <4>1. PICK c \in todo[t] : Writes(t, c)
        BY <3>3, WriteIs
      <4>2. UNCHANGED <<sentFrames, todo, pending, steerBuf>>
        BY <3>3 DEF Write, engine
      <4>3. b = c
        BY <1>4, <4>1, <4>2, OneFirst DEF Writes, Delivering
      <4>4. b.ids \subseteq sentFrames[frame[t]] /\ frame[t] # 0
        BY <1>4, <3>0, <4>1, <4>3 DEF Writes, StrandInv, Running, FrameInv
      <4>5. Encode(t, b).fids = {frame[t]} /\ Encode(t, b) \in Entry /\ wire' = Append(wire, Encode(t, b))
        BY <4>1, <4>3, <4>4 DEF Encode, Writes
      <4>6. frame[t] \in Flying'
        BY <1>0, <4>5, AppendQueue DEF Flying
      <4>7. r \in sentFrames'[frame[t]]
        BY <1>4, <4>2, <4>4
      <4>. QED
        BY <4>6, <4>7 DEF Covered
    <3>. QED
      BY <1>4, <3>1, <3>2, <3>3, WritesFrom
  <2>. QED
    BY <2>1, <2>2
<1>5. Kind # "fundi" => \A r \in RowIds : st'[r] # "sent"
  BY <1>1
<1>6. phase' = "up" => \A r \in RowIds : st'[r] = "sent" => Covered(r)'
  BY <1>3
<1>7. phase' = "up" => \A t \in Threads : pc'[t] = "mark" => \A b \in todo'[t] :
        First(b, todo'[t]) /\ AwaitAck(b) => \A r \in b.ids : Covered(r)'
  BY <1>4
<1>. QED
  BY <1>2, <1>5, <1>6, <1>7 DEF StrandInv, Recorded, AwaitAck, First, Before

LEMMA InitStrand == Init => StrandInv
<1>. SUFFICES ASSUME Init PROVE StrandInv
  OBVIOUS
<1>1. /\ \A r \in RowIds : st[r] # "sent"
      /\ \A t \in Threads : pc[t] = "off"
  BY DEF Init
<1>. QED
  BY <1>1 DEF StrandInv

LEMMA StrandHeld == ASSUME Undisturbed PROVE Spec => []StrandInv
<1>1. TypeOK /\ DeliveryInv /\ CopyInv /\ FrameInv /\ AbortInv /\ StrandInv /\ [Next]_vars => StrandInv'
  BY StrandKept DEF CopyInv, Undisturbed
<1>. QED
  BY <1>1, InitStrand, TypeCorrect, DeliveryHeld, CopyHeld, FramesHeld, PTL DEF Spec

(* While the store answers and nobody writes to an engine that is not      *)
(* built or resumes before an exit is over, a running child's sent row is  *)
(* one it holds under a recorded frame, or is acking: the frame is         *)
(* recorded before the write, forgotten only with a failed write or a      *)
(* finished process, and the build returns what was sent to the last one   *)
(* (inbox_wiring.go, deliverInbox, consumeFrames and forgetFrames).        *)
THEOREM NoRowStranded == ASSUME Undisturbed PROVE Spec => []NothingStranded
<1>1. TypeOK /\ StrandInv => NothingStranded
  <2>. SUFFICES ASSUME TypeOK, StrandInv, phase = "up", NEW r \in RowIds, st[r] = "sent", r \notin ack
                PROVE  \E f \in FrameIds : /\ r \in sentFrames[f]
                                           /\ \E q \in 1..3 : \E i \in DOMAIN Queues[q] :
                                                f \in Queues[q][i].fids
    BY DEF NothingStranded
  <2>1. PICK f \in Flying : r \in sentFrames[f]
    BY DEF StrandInv, Covered
  <2>2. f \in FrameIds
    BY HeldAreRows
  <2>3. Queues[1] = wire /\ Queues[2] = pending /\ Queues[3] = steerBuf /\ 1 \in 1..3 /\ 2 \in 1..3 /\ 3 \in 1..3
    BY DEF Queues
  <2>4. \E q \in {wire, pending, steerBuf} : \E i \in DOMAIN q : f \in q[i].fids
    BY FlyingIs
  <2>. QED
    BY <2>1, <2>2, <2>3, <2>4
<1>. QED
  BY <1>1, TypeCorrect, StrandHeld, PTL

-----------------------------------------------------------------------------
(* What an ack retires, and how often a row runs.                          *)

Entries(q) == {q[i] : i \in DOMAIN q}
Waiting    == Entries(pending) \cup Entries(steerBuf)
Carried    == Entries(wire) \cup Waiting

LEMMA EntryFacts ==
  ASSUME NEW q \in Seq(Entry)
  PROVE  /\ Entries(q) \subseteq Entry
         /\ \A e \in Entries(q) : e.ids \subseteq Ids(q) /\ e.fids \subseteq Fids(q)
         /\ Ids(q) = UNION {e.ids : e \in Entries(q)}
         /\ Fids(q) = UNION {e.fids : e \in Entries(q)}
<1>1. \A i \in DOMAIN q : q[i] \in Entry
  BY ElementOfSeq
<1>. QED
  BY <1>1 DEF Entries, Ids, Fids

LEMMA AppendEntries ==
  ASSUME NEW q \in Seq(Entry), NEW e \in Entry
  PROVE  Entries(Append(q, e)) \subseteq Entries(q) \cup {e}
<1>1. \A i \in DOMAIN Append(q, e) : Append(q, e)[i] = e \/ (i \in DOMAIN q /\ Append(q, e)[i] = q[i])
  <2>. HIDE DEF Entry
  <2>. QED
    OBVIOUS
<1>. QED
  BY <1>1 DEF Entries

LEMMA TailEntries ==
  ASSUME NEW q \in Seq(Entry), q # <<>>
  PROVE  Entries(Tail(q)) \subseteq Entries(q) /\ Head(q) \in Entries(q)
<1>1. /\ \A i \in DOMAIN Tail(q) : i + 1 \in DOMAIN q /\ Tail(q)[i] = q[i + 1]
      /\ 1 \in DOMAIN q /\ Head(q) = q[1]
  <2>. HIDE DEF Entry
  <2>. QED
    OBVIOUS
<1>. QED
  BY <1>1 DEF Entries

LEMMA CutEntries ==
  ASSUME NEW q \in Seq(Entry), NEW k \in 0..Len(q)
  PROVE  Entries(SubSeq(q, 1, k)) \subseteq Entries(q)
<1>1. \A i \in DOMAIN SubSeq(q, 1, k) : i \in DOMAIN q /\ SubSeq(q, 1, k)[i] = q[i]
  <2>. HIDE DEF Entry
  <2>. QED
    OBVIOUS
<1>. QED
  BY <1>1 DEF Entries

(* An entry is one that was there, one that is written now, or the steers  *)
(* that missed their turn.                                                 *)
LEMMA EntrySteps ==
  ASSUME TypeOK, [Next]_vars
  PROVE  /\ \A e \in Carried' : \/ e \in Carried
                                \/ \E t \in Threads : Write(t) /\ \E b \in todo[t] : Writes(t, b) /\ e = Encode(t, b)
                                \/ EndTurn /\ steerBuf # <<>> /\ e = Join(steerBuf)
         /\ \A e \in Waiting' : \/ e \in Waiting
                                \/ e \in Carried /\ e.mode # "abort"
                                \/ EndTurn /\ steerBuf # <<>> /\ e = Join(steerBuf)
<1>0. wire \in Seq(Entry) /\ pending \in Seq(Entry) /\ steerBuf \in Seq(Entry)
  BY DEF TypeOK, EngineOK
<1>a. Entries(<<>>) = {}
  BY DEF Entries
<1>1. ASSUME Entries(wire') \subseteq Entries(wire), Waiting' \subseteq Waiting
      PROVE  Carried' \subseteq Carried /\ Waiting' \subseteq Waiting
  BY <1>1 DEF Carried
<1>2. CASE ChildStill \/ Consume \/ ConsumeFails \/ BuildEngine \/ Pull \/ EnterTurn \/ EnterFails
  <2>1. UNCHANGED <<wire, pending, steerBuf>>
    BY <1>2 DEF ChildStill, Consume, ConsumeFails, BuildEngine, Pull, EnterTurn, EnterFails
  <2>. QED
    BY <1>1, <2>1 DEF Waiting
<1>3. ASSUME NEW t \in Threads, Write(t)
      PROVE  /\ Waiting' = Waiting
             /\ \E b \in todo[t] : Writes(t, b) /\ Carried' \subseteq Carried \cup {Encode(t, b)}
  <2>1. PICK b \in todo[t] : Writes(t, b)
    BY <1>3, WriteIs
  <2>2. UNCHANGED <<pending, steerBuf>>
    BY <1>3 DEF Write, engine
  <2>3. Entries(wire') \subseteq Entries(wire) \cup {Encode(t, b)}
    BY <1>0, <2>1, AppendEntries DEF Writes
  <2>4. Waiting' = Waiting
    BY <2>2 DEF Waiting
  <2>. QED
    BY <2>1, <2>3, <2>4 DEF Carried
<1>4. CASE ReadFrame
  <2>1. /\ wire # <<>> /\ wire' = Tail(wire)
        /\ \/ UNCHANGED <<pending, steerBuf>>
           \/ steerBuf' = Append(steerBuf, Head(wire)) /\ UNCHANGED pending /\ Head(wire).mode # "abort"
           \/ pending' = Append(pending, Head(wire)) /\ UNCHANGED steerBuf /\ Head(wire).mode # "abort"
    BY <1>4 DEF ReadFrame
  <2>2. Entries(wire') \subseteq Entries(wire) /\ Head(wire) \in Entries(wire) /\ Head(wire) \in Entry
    BY <1>0, <2>1, TailEntries, QueueType
  <2>3. \A q \in {pending, steerBuf} : Entries(Append(q, Head(wire))) \subseteq Entries(q) \cup {Head(wire)}
    BY <1>0, <2>2, AppendEntries
  <2>4. Waiting' \subseteq Waiting \cup {Head(wire)} /\ (Head(wire).mode = "abort" => Waiting' = Waiting)
    BY <2>1, <2>3 DEF Waiting
  <2>. QED
    BY <2>2, <2>4 DEF Carried
<1>5. CASE TakePrompt
  <2>1. pending # <<>> /\ pending' = Tail(pending) /\ UNCHANGED <<wire, steerBuf>>
    BY <1>5 DEF TakePrompt
  <2>. QED
    BY <1>0, <1>1, <2>1, TailEntries DEF Waiting
<1>6. CASE DrainSteers
  <2>1. steerBuf' = <<>> /\ UNCHANGED <<wire, pending>>
    BY <1>6 DEF DrainSteers
  <2>. QED
    BY <1>1, <1>a, <2>1 DEF Waiting
<1>7. CASE EndTurn
  <2>1. CASE steerBuf = <<>>
    BY <1>1, <1>7, <2>1 DEF EndTurn, Waiting
  <2>2. CASE steerBuf # <<>>
    <3>1. pending' = Append(pending, Join(steerBuf)) /\ steerBuf' = <<>> /\ UNCHANGED wire
      BY <1>7, <2>2 DEF EndTurn
    <3>2. Waiting' \subseteq Waiting \cup {Join(steerBuf)}
      BY <1>0, <1>a, <3>1, JoinType, AppendEntries DEF Waiting
    <3>. QED
      BY <1>7, <2>2, <3>1, <3>2 DEF Carried
  <2>. QED
    BY <2>1, <2>2
<1>8. CASE Fatal \/ Crash
  <2>1. wire' = <<>> /\ pending' = <<>> /\ steerBuf' = <<>>
    BY <1>8 DEF Fatal, Crash
  <2>. QED
    BY <1>a, <2>1 DEF Waiting, Carried
<1>9. CASE Kill \/ Terminate \/ MarkExited
  <2>1. UNCHANGED <<pending, steerBuf>>
    BY <1>9 DEF Kill, Terminate, MarkExited, engine
  <2>2. wire' = wire \/ wire' = <<>> \/ \E k \in 0..Len(wire) : wire' = SubSeq(wire, 1, k)
    BY <1>9 DEF Kill, Terminate, MarkExited
  <2>3. Entries(wire') \subseteq Entries(wire)
    BY <1>0, <1>a, <2>2, CutEntries
  <2>. QED
    BY <1>1, <2>1, <2>3 DEF Waiting
<1>. QED
  BY <1>2, <1>3, <1>4, <1>5, <1>6, <1>7, <1>8, <1>9, ChildSteps DEF ChildStep

(* The worker takes one waiting entry, or all the steers at once.          *)
LEMMA TakesEntry ==
  ASSUME TypeOK, TakePrompt \/ DrainSteers
  PROVE  \E S \in SUBSET Waiting :
           /\ S # {} /\ cur' = UNION {e.ids : e \in S}
           /\ ack' = UNION {sentFrames[f] : f \in UNION {e.fids : e \in S}}
           /\ sentFrames' = [f \in FrameIds |-> IF f \in UNION {e.fids : e \in S} THEN {} ELSE sentFrames[f]]
<1>0. wire \in Seq(Entry) /\ pending \in Seq(Entry) /\ steerBuf \in Seq(Entry)
  BY DEF TypeOK, EngineOK
<1>1. CASE TakePrompt
  <2>1. pending # <<>> /\ TakeFrames(Head(pending))
    BY <1>1 DEF TakePrompt
  <2>2. {Head(pending)} \in SUBSET Waiting
    BY <1>0, <2>1, TailEntries DEF Waiting
  <2>3. /\ UNION {e.ids : e \in {Head(pending)}} = Head(pending).ids
        /\ UNION {e.fids : e \in {Head(pending)}} = Head(pending).fids
    OBVIOUS
  <2>. QED
    BY <2>1, <2>2, <2>3 DEF TakeFrames
<1>2. CASE DrainSteers
  <2>1. steerBuf # <<>> /\ TakeFrames(Join(steerBuf))
    BY <1>2 DEF DrainSteers
  <2>2. Entries(steerBuf) \in SUBSET Waiting /\ Entries(steerBuf) # {}
    BY <1>0, <2>1, TailEntries DEF Waiting
  <2>3. /\ UNION {e.ids : e \in Entries(steerBuf)} = Join(steerBuf).ids
        /\ UNION {e.fids : e \in Entries(steerBuf)} = Join(steerBuf).fids
    BY <1>0, JoinQueue, EntryFacts
  <2>. QED
    BY <2>1, <2>2, <2>3 DEF TakeFrames
<1>. QED
  BY <1>1, <1>2

(* The rows behind a frame are rows of the entry or the batch it names, so *)
(* what the worker acks is what it took.                                   *)
BehindInv ==
  /\ ack \subseteq cur
  /\ \A e \in Carried : \A f \in e.fids : sentFrames[f] \subseteq e.ids
  /\ \A t \in Threads : pc[t] = "write" /\ frame[t] # 0 => \A b \in todo[t] :
       First(b, todo[t]) => sentFrames[frame[t]] \subseteq b.ids

(* A frame's rows change only when a delivery records it.                  *)
LEMMA RowsOfFrame ==
  ASSUME TypeOK, [Next]_vars, NEW f \in FrameIds
  PROVE  \/ sentFrames'[f] \subseteq sentFrames[f]
         \/ /\ f \notin Flying
            /\ \E t \in Threads : Prepare(t) /\ \E b \in todo[t] : Prepares(t, b) /\ frame'[t] = f /\ sentFrames'[f] = b.ids
<1>0. sentFrames \in [FrameIds -> SUBSET RowIds] /\ frame \in [Threads -> 0..MaxFrames]
  BY DEF TypeOK, EngineOK, DeliveryOK
<1>1. ASSUME NEW t \in Threads, Prepare(t)
      PROVE  \/ sentFrames'[f] \subseteq sentFrames[f]
             \/ f \notin Flying /\ \E b \in todo[t] : Prepares(t, b) /\ frame'[t] = f /\ sentFrames'[f] = b.ids
  <2>1. PICK b \in todo[t] : Prepares(t, b)
    BY <1>1, PrepareIs
  <2>2. CASE UNCHANGED sentFrames
    BY <2>2
  <2>3. ASSUME NEW g \in FrameIds, g \notin Flying, frame' = [frame EXCEPT ![t] = g],
               sentFrames' = [sentFrames EXCEPT ![g] = b.ids]
        PROVE  sentFrames'[f] \subseteq sentFrames[f] \/ (f \notin Flying /\ frame'[t] = f /\ sentFrames'[f] = b.ids)
    BY <1>0, <2>3
  <2>. QED
    BY <2>1, <2>2, <2>3 DEF Prepares
<1>2. ASSUME NEW t \in Threads, WriteFails(t) PROVE sentFrames'[f] \subseteq sentFrames[f]
  BY <1>0, <1>2 DEF WriteFails
<1>3. CASE TakePrompt \/ DrainSteers \/ ForgetFrames \/ Close \/ Crash
  BY <1>0, <1>3 DEF TakePrompt, DrainSteers, TakeFrames, ForgetFrames, Close, Crash
<1>. QED
  BY <1>1, <1>2, <1>3, FrameSteps

LEMMA CarriedFrames == TypeOK => \A e \in Carried : e \in Entry /\ e.fids \subseteq Flying /\ e.ids \subseteq HeldRows /\ Flying \subseteq FrameIds
  BY EntryFacts, HeldAreRows DEF TypeOK, EngineOK, Carried, Waiting, Flying, HeldRows

LEMMA BehindKept ==
  ASSUME TypeOK, DeliveryInv, WorkerInv, FrameInv, BehindInv, [Next]_vars
  PROVE  BehindInv'
<1>0. /\ sentFrames \in [FrameIds -> SUBSET RowIds] /\ frame \in [Threads -> 0..MaxFrames]
      /\ pc \in [Threads -> {"off", "persist", "lock", "batch", "write", "mark", "reject"}]
      /\ steerBuf \in Seq(Entry) /\ 0 \notin FrameIds
  BY DEF TypeOK, EngineOK, DeliveryOK, FrameIds
<1>1. (ack \subseteq cur)'
  <2>1. CASE ChildStill
    BY <2>1 DEF ChildStill, BehindInv
  <2>2. CASE TakePrompt \/ DrainSteers
    <3>1. PICK S \in SUBSET Waiting :
            /\ cur' = UNION {e.ids : e \in S}
            /\ ack' = UNION {sentFrames[f] : f \in UNION {e.fids : e \in S}}
      BY <2>2, TakesEntry
    <3>. QED
      BY <3>1 DEF BehindInv, Carried
  <2>3. CASE Consume \/ ConsumeFails \/ Crash
    BY <2>3 DEF Consume, ConsumeFails, Crash
  <2>4. CASE EnterTurn \/ EnterFails
    BY <2>4 DEF EnterTurn, EnterFails, WorkerInv
  <2>5. CASE (\E t \in Threads : Write(t)) \/ ReadFrame \/ EndTurn \/ Fatal \/ Kill \/ Terminate \/ MarkExited \/ BuildEngine \/ Pull
    BY <2>5 DEF Write, ReadFrame, EndTurn, Fatal, Kill, Terminate, MarkExited, BuildEngine, Pull, engine, BehindInv
  <2>. QED
    BY <2>1, <2>2, <2>3, <2>4, <2>5, ChildSteps DEF ChildStep
<1>2. ASSUME NEW e \in Carried', NEW f \in e.fids PROVE sentFrames'[f] \subseteq e.ids
  <2>1. CASE e \in Carried
    <3>1. f \in Flying /\ f \in FrameIds /\ sentFrames[f] \subseteq e.ids
      BY <1>2, <2>1, CarriedFrames DEF BehindInv
    <3>. QED
      BY <3>1, RowsOfFrame
  <2>2. ASSUME NEW t \in Threads, Write(t), NEW b \in todo[t], Writes(t, b), e = Encode(t, b)
        PROVE  sentFrames'[f] \subseteq e.ids
    <3>1. frame[t] # 0 /\ f = frame[t] /\ e.ids = b.ids
      BY <1>2, <2>2 DEF Encode
    <3>2. UNCHANGED sentFrames
      BY <2>2 DEF Write
    <3>. QED
      BY <2>2, <3>1, <3>2 DEF Writes, BehindInv
  <2>3. ASSUME EndTurn, steerBuf # <<>>, e = Join(steerBuf) PROVE sentFrames'[f] \subseteq e.ids
    <3>1. UNCHANGED sentFrames
      BY <2>3 DEF EndTurn
    <3>2. e.ids = UNION {d.ids : d \in Entries(steerBuf)} /\ e.fids = UNION {d.fids : d \in Entries(steerBuf)}
      BY <1>0, <2>3, JoinQueue, EntryFacts
    <3>3. PICK d \in Entries(steerBuf) : f \in d.fids
      BY <1>2, <3>2
    <3>. QED
      BY <3>1, <3>2, <3>3 DEF BehindInv, Carried, Waiting
  <2>. QED
    BY <2>1, <2>2, <2>3, EntrySteps
<1>3. ASSUME NEW t \in Threads, pc'[t] = "write", frame'[t] # 0, NEW b \in todo'[t], First(b, todo'[t])
      PROVE  sentFrames'[frame'[t]] \subseteq b.ids
  <2>1. CASE Prepare(t)
    <3>1. PICK c \in todo[t] : Prepares(t, c)
      BY <2>1, PrepareIs
    <3>2. b = c /\ frame[t] = 0
      BY <1>3, <3>1, OneFirst DEF Prepares, Delivering, FrameInv
    <3>. QED
      BY <1>0, <1>3, <3>1, <3>2 DEF Prepares
  <2>2. CASE pc[t] = pc'[t] /\ todo'[t] = todo[t] /\ frame'[t] = frame[t]
    <3>1. sentFrames[frame[t]] \subseteq b.ids /\ frame[t] \in FrameIds
      BY <1>0, <1>3, <2>2 DEF BehindInv, FrameIds
    <3>2. ASSUME NEW u \in Threads, Prepare(u) PROVE FALSE
      <4>1. Delivering(u) /\ Delivering(t) /\ pc[u] = "batch"
        BY <1>3, <2>2, <3>2 DEF Prepare, Delivering
      <4>. QED
        BY <1>3, <2>2, <4>1 DEF DeliveryInv, RowsHeld
    <3>. QED
      BY <2>2, <3>1, <3>2, RowsOfFrame
  <2>. QED
    BY <1>0, <1>3, <2>1, <2>2, WritesFrom DEF Write
<1>. QED
  BY <1>1, <1>2, <1>3 DEF BehindInv, First, Before

LEMMA InitBehind == Init => BehindInv
<1>. SUFFICES ASSUME Init PROVE BehindInv
  OBVIOUS
<1>1. ack = {} /\ wire = <<>> /\ pending = <<>> /\ steerBuf = <<>> /\ \A t \in Threads : pc[t] = "off"
  BY DEF Init
<1>. QED
  BY <1>1 DEF BehindInv, Carried, Waiting, Entries

LEMMA BehindHeld == Spec => []BehindInv
<1>0. Init => WorkerInv
  BY DEF Init, WorkerInv
<1>1. TypeOK /\ WorkerInv /\ [Next]_vars => WorkerInv'
  BY WorkerKept
<1>2. TypeOK /\ DeliveryInv /\ WorkerInv /\ FrameInv /\ BehindInv /\ [Next]_vars => BehindInv'
  BY BehindKept
<1>. QED
  BY <1>0, <1>1, <1>2, InitBehind, TypeCorrect, DeliveryHeld, FramesHeld, PTL DEF Spec

-----------------------------------------------------------------------------
(* A batch that is an abort is an abort row.                               *)
AbortRows ==
  \A t \in Threads : Delivering(t) => \A b \in todo[t] :
    b.mode = "abort" => \A r \in b.ids : msg[r].mode = "abort"

LEMMA DeliversFrom ==
  ASSUME TypeOK, [Next]_vars, NEW t \in Threads, Delivering(t)'
  PROVE  \/ Delivering(t) /\ todo'[t] \subseteq todo[t]
         \/ Read(t) /\ todo'[t] = Coalesce(Chosen(t), call[t].steer)
<1>0. /\ todo \in [Threads -> SUBSET Batch]
      /\ pc \in [Threads -> {"off", "persist", "lock", "batch", "write", "mark", "reject"}]
  BY DEF TypeOK, DeliveryOK
<1>1. CASE GoersStill
  BY <1>1 DEF GoersStill, Delivering
<1>2. CASE Crash
  BY <1>2 DEF Crash, Delivering
<1>3. ASSUME NEW u \in Threads, GoersStep(u)
      PROVE  \/ Delivering(t) /\ todo'[t] \subseteq todo[t]
             \/ Read(t) /\ todo'[t] = Coalesce(Chosen(t), call[t].steer)
  <2>1. CASE (\E m \in Msgs : Submit(u, m)) \/ Start(u) \/ Persist(u)
    BY <1>0, <2>1 DEF Submit, Start, Persist, Delivering
  <2>2. CASE Write(u) \/ Prepare(u)
    <3>1. Delivering(u) /\ UNCHANGED todo /\ \A v \in Threads \ {u} : pc'[v] = pc[v]
      BY <1>0, <2>2 DEF Write, Prepare, RejectBatch, Delivering
    <3>. QED
      BY <3>1 DEF Delivering
  <2>3. CASE Hold(u) \/ WriteFails(u) \/ DeliverFails(u)
    BY <1>0, <2>3 DEF Hold, WriteFails, DeliverFails, Return, Delivering
  <2>4. CASE Mark(u)
    BY <1>0, <2>4 DEF Mark, Return, Delivering
  <2>5. CASE Read(u)
    <3>1. CASE Chosen(u) = {}
      BY <1>0, <2>5, <3>1 DEF Read, Delivering
    <3>2. CASE Chosen(u) # {}
      <4>1. /\ todo' = [todo EXCEPT ![u] = Coalesce(Chosen(u), call[u].steer)]
            /\ pc' = [pc EXCEPT ![u] = "batch"]
        BY <2>5, <3>2 DEF Read
      <4>. QED
        BY <1>0, <2>5, <4>1 DEF Delivering
    <3>. QED
      BY <3>1, <3>2
  <2>. QED
    BY <1>3, <2>1, <2>2, <2>3, <2>4, <2>5 DEF GoersStep
<1>. QED
  BY <1>1, <1>2, <1>3, GoersSteps

(* Only Persist writes a row's content.                                    *)
LEMMA OnlyPersist == [Next]_vars => UNCHANGED <<n, msg>> \/ \E t \in Threads : Persist(t)
<1>. SUFFICES ASSUME [Next]_vars, ~UNCHANGED <<n, msg>> PROVE \E t \in Threads : Persist(t)
  OBVIOUS
<1>1. ASSUME NEW t \in Threads,
             \/ \E m \in Msgs : Submit(t, m)
             \/ Start(t) \/ Read(t) \/ Hold(t) \/ Prepare(t) \/ Write(t) \/ WriteFails(t)
             \/ Mark(t) \/ DeliverFails(t)
      PROVE  FALSE
  BY <1>1 DEF Submit, Start, Read, Hold, Prepare, Write, WriteFails, Mark, DeliverFails, store
<1>2. ASSUME Pull \/ Sweep \/ ReadFrame \/ TakePrompt \/ DrainSteers \/ Consume \/ ConsumeFails PROVE FALSE
  BY <1>2 DEF Pull, Sweep, ReadFrame, TakePrompt, DrainSteers, Consume, ConsumeFails, store
<1>3. ASSUME EnterTurn \/ EnterFails \/ EndTurn \/ Fatal \/ Kill \/ Terminate \/ MarkExited \/ Finish PROVE FALSE
  BY <1>3 DEF EnterTurn, EnterFails, EndTurn, Fatal, Kill, Terminate, MarkExited, Finish, store
<1>4. ASSUME ForgetFrames \/ ReleaseInbox \/ RemoveChild \/ Resume \/ Recover \/ ResumeFails \/ BuildEngine PROVE FALSE
  BY <1>4 DEF ForgetFrames, ReleaseInbox, RemoveChild, Resume, Recover, ResumeFails, BuildEngine, store
<1>5. ASSUME Activate \/ Crash \/ Close \/ DropInbox \/ Breach \/ Raise PROVE FALSE
  BY <1>5 DEF Activate, Crash, Close, DropInbox, Breach, Raise, store
<1>6. ASSUME UNCHANGED vars PROVE FALSE
  BY <1>6 DEF vars, store
<1>. QED
  BY <1>1, <1>2, <1>3, <1>4, <1>5, <1>6, Zenon DEF Next, Steps, StoreFails, Deliver

LEMMA MsgStays ==
  ASSUME TypeOK, [Next]_vars, NEW r \in RowIds, r <= n
  PROVE  msg'[r] = msg[r]
<1>0. msg \in [RowIds -> Shapes] /\ n \in Nat /\ RowIds \subseteq Nat
  BY InboxAssumption DEF TypeOK, StoreOK, RowIds
<1>1. ASSUME NEW t \in Threads, Persist(t) PROVE msg'[r] = msg[r]
  BY <1>0, <1>1 DEF Persist
<1>. QED
  BY <1>1, OnlyPersist

LEMMA AbortRowsKept ==
  ASSUME TypeOK, DeliveryInv, AbortRows, [Next]_vars
  PROVE  AbortRows'
<1>1. ASSUME NEW t \in Threads, Delivering(t)', NEW b \in todo'[t], b.mode = "abort", NEW r \in b.ids
      PROVE  msg'[r].mode = "abort"
  <2>1. CASE Delivering(t) /\ todo'[t] \subseteq todo[t]
    <3>1. r \in RowIds /\ r <= n /\ msg[r].mode = "abort"
      BY <1>1, <2>1 DEF AbortRows, DeliveryInv, BatchesSound, TypeOK, DeliveryOK, Batch
    <3>. QED
      BY <3>1, MsgStays
  <2>2. CASE Read(t) /\ todo'[t] = Coalesce(Chosen(t), call[t].steer)
    <3>1. UNCHANGED msg
      BY <2>2 DEF Read, store
    <3>2. msg[r].mode = "abort"
      BY <1>1, <2>2 DEF Coalesce, DirectBatch, GroupBatch
    <3>. QED
      BY <3>1, <3>2
  <2>. QED
    BY <1>1, <2>1, <2>2, DeliversFrom
<1>. QED
  BY <1>1 DEF AbortRows, Delivering

LEMMA ConsumedBy ==
  ASSUME TypeOK, [Next]_vars, NEW r \in RowIds, st'[r] = "consumed", st[r] # "consumed"
  PROVE  \/ \E t \in Threads : pc[t] = "mark" /\ \E b \in todo[t] : First(b, todo[t]) /\ ~AwaitAck(b) /\ r \in b.ids
         \/ Consume /\ r \in ack
         \/ Pull
<1>0. st \in [RowIds -> States]
  BY DEF TypeOK, StoreOK
<1>1. ~UNCHANGED st
  OBVIOUS
<1>2. ASSUME NEW t \in Threads, Persist(t) PROVE FALSE
  BY <1>0, <1>2 DEF Persist
<1>3. ~Sweep /\ ~DropInbox
  BY <1>0 DEF Sweep, DropInbox, Drop
<1>4. ~ReleaseInbox /\ ~BuildEngine /\ ~Crash
  BY <1>0 DEF ReleaseInbox, BuildEngine, Crash, ResetSent
<1>5. ASSUME NEW t \in Threads,
             \/ \E m \in Msgs : Submit(t, m)
             \/ Start(t) \/ Read(t) \/ Hold(t) \/ Prepare(t) \/ Write(t) \/ WriteFails(t)
             \/ DeliverFails(t)
      PROVE  FALSE
  BY <1>1, <1>5 DEF Submit, Start, Read, Hold, Prepare, Write, WriteFails, DeliverFails, store
<1>6. ASSUME Finish \/ ForgetFrames \/ RemoveChild \/ Resume \/ Recover \/ ResumeFails \/ Activate \/ Close \/ Breach \/ Raise PROVE FALSE
  BY <1>1, <1>6 DEF Finish, ForgetFrames, RemoveChild, Resume, Recover, ResumeFails, Activate, Close, Breach, Raise, store
<1>7. ASSUME ReadFrame \/ TakePrompt \/ DrainSteers \/ ConsumeFails \/ EnterTurn \/ EnterFails \/ EndTurn \/ Fatal \/ Kill \/ Terminate \/ MarkExited PROVE FALSE
  BY <1>1, <1>7 DEF ReadFrame, TakePrompt, DrainSteers, ConsumeFails, EnterTurn, EnterFails, EndTurn, Fatal, Kill, Terminate, MarkExited, store
<1>8. ASSUME UNCHANGED vars PROVE FALSE
  BY <1>1, <1>8 DEF vars, store
<1>9. (\E t \in Threads : Mark(t)) \/ Consume \/ Pull
  BY <1>2, <1>3, <1>4, <1>5, <1>6, <1>7, <1>8, Zenon DEF Next, Steps, StoreFails, Deliver
<1>10. ASSUME NEW t \in Threads, Mark(t)
       PROVE  pc[t] = "mark" /\ \E b \in todo[t] : First(b, todo[t]) /\ ~AwaitAck(b) /\ r \in b.ids
  <2>1. PICK b \in todo[t] :
         /\ pc[t] = "mark" /\ First(b, todo[t])
         /\ st' = IF AwaitAck(b) THEN MarkSent(b.ids) ELSE MarkConsumed(b.ids)
    BY <1>10 DEF Mark
  <2>2. ~AwaitAck(b) /\ r \in b.ids
    BY <1>0, <2>1 DEF MarkSent, MarkConsumed
  <2>. QED
    BY <2>1, <2>2
<1>11. Consume => r \in ack
  BY <1>0 DEF Consume, MarkConsumed
<1>. QED
  BY <1>9, <1>10, <1>11

LEMMA RanGrows ==
  ASSUME TypeOK, [Next]_vars, NEW r \in RowIds
  PROVE  /\ ran'[r] >= ran[r] /\ ran'[r] <= ran[r] + 1
         /\ ran'[r] # ran[r] => \/ EnterTurn /\ r \in cur
                                \/ Pull /\ st[r] = "pending"
<1>0. ran \in [RowIds -> Nat]
  BY DEF TypeOK, EngineOK
<1>1. CASE UNCHANGED ran
  BY <1>0, <1>1
<1>2. CASE EnterTurn
  <2>1. ran' = ran \/ (ran'[r] = IF r \in cur THEN ran[r] + 1 ELSE ran[r])
    BY <1>2 DEF EnterTurn
  <2>. QED
    BY <1>0, <1>2, <2>1
<1>3. CASE Pull
  <2>1. ran'[r] = IF st[r] = "pending" THEN ran[r] + 1 ELSE ran[r]
    BY <1>3 DEF Pull, PendingRows
  <2>. QED
    BY <1>0, <1>3, <2>1
<1>4. CASE ChildStill
  BY <1>1, <1>4 DEF ChildStill
<1>5. CASE (\E t \in Threads : Write(t)) \/ ReadFrame \/ TakePrompt \/ DrainSteers \/ Consume \/ ConsumeFails \/ EnterFails \/ EndTurn
  BY <1>1, <1>5 DEF Write, ReadFrame, TakePrompt, DrainSteers, Consume, ConsumeFails, EnterFails, EndTurn, engine
<1>6. CASE Fatal \/ Kill \/ Terminate \/ MarkExited \/ BuildEngine \/ Crash
  BY <1>1, <1>6 DEF Fatal, Kill, Terminate, MarkExited, BuildEngine, Crash, engine
<1>. QED
  BY <1>2, <1>3, <1>4, <1>5, <1>6, ChildSteps DEF ChildStep

LEMMA AckedKept ==
  ASSUME Kind = "fundi", TypeOK, DeliveryInv, WorkerInv, BehindInv, AbortRows, AckedMeansRan, [Next]_vars
  PROVE  AckedMeansRan'
<1>0. /\ ran \in [RowIds -> Nat] /\ st \in [RowIds -> States] /\ n \in Nat /\ RowIds \subseteq Nat
  BY InboxAssumption DEF TypeOK, EngineOK, StoreOK, RowIds
<1>a. \A r \in RowIds : ran'[r] = 0 \/ ran'[r] > 0
  <2>1. TypeOK'
    BY NextType
  <2>2. ran' \in [RowIds -> Nat]
    BY <2>1 DEF TypeOK, EngineOK
  <2>. QED
    BY <2>2
<1>. SUFFICES ASSUME NEW r \in RowIds, st'[r] = "consumed", msg'[r].mode # "abort", ran'[r] = 0
              PROVE  r \in cur' \cup lost'
  <2>. HIDE DEF RowIds
  <2>. QED
    BY <1>a, Zenon DEF AckedMeansRan
<1>1. ran[r] = 0 /\ ran'[r] = ran[r]
  BY <1>0, RanGrows
<1>2. r \in cur \cup lost
  <2>1. CASE st[r] = "consumed"
    <3>1. r <= n
      BY <1>0, <2>1 DEF DeliveryInv, RowsAccepted
    <3>2. msg[r].mode # "abort"
      BY <3>1, MsgStays
    <3>. QED
      BY <1>0, <1>1, <2>1, <3>2 DEF AckedMeansRan
  <2>2. ASSUME st[r] # "consumed", NEW t \in Threads, pc[t] = "mark",
               NEW b \in todo[t], First(b, todo[t]), ~AwaitAck(b), r \in b.ids
        PROVE  FALSE
    <3>1. Delivering(t) /\ b.mode = "abort"
      BY <2>2 DEF Delivering, AwaitAck
    <3>2. msg[r].mode = "abort" /\ r <= n
      BY <2>2, <3>1 DEF AbortRows, DeliveryInv, BatchesSound
    <3>. QED
      BY <3>2, MsgStays
  <2>3. CASE Consume /\ r \in ack
    BY <2>3 DEF BehindInv
  <2>4. ~Pull
    BY DEF Pull
  <2>. QED
    BY <2>1, <2>2, <2>3, <2>4, ConsumedBy
<1>3. lost \subseteq lost'
  BY FateSteps DEF fate, ReadFrame, EnterTurn, EnterFails, EndTurn, Fatal, Crash, CutDown
<1>4. CASE ChildStill \/ TakePrompt \/ DrainSteers
  BY <1>2, <1>3, <1>4 DEF ChildStill, TakePrompt, DrainSteers, WorkerInv
<1>5. ASSUME CutDown, st[r] = st'[r] \/ st[r] = "consumed" PROVE r \in lost'
  BY <1>2, <1>3, <1>5 DEF CutDown, Open
<1>6. CASE EnterFails \/ Fatal
  BY <1>5, <1>6 DEF EnterFails, Fatal, store
<1>7. CASE Crash
  <2>1. st[r] = "consumed"
    BY <1>0, <1>7 DEF Crash, ResetSent
  <2>. QED
    BY <1>5, <1>7, <2>1 DEF Crash
<1>8. CASE EnterTurn
  <2>1. CASE CutDown
    BY <1>5, <1>8, <2>1 DEF EnterTurn, store
  <2>2. CASE ran' = [q \in RowIds |-> IF q \in cur THEN ran[q] + 1 ELSE ran[q]]
    <3>1. r \notin cur
      BY <1>0, <1>1, <2>2
    <3>. QED
      BY <1>2, <1>3, <3>1
  <2>. QED
    BY <1>8, <2>1, <2>2 DEF EnterTurn
<1>9. CASE (\E t \in Threads : Write(t)) \/ ReadFrame \/ Consume \/ ConsumeFails \/ EndTurn \/ Kill \/ Terminate \/ MarkExited \/ BuildEngine \/ Pull
  <2>1. cur' = cur
    BY <1>9 DEF Write, ReadFrame, Consume, ConsumeFails, EndTurn, Kill, Terminate, MarkExited, BuildEngine, Pull, engine
  <2>. QED
    BY <1>2, <1>3, <2>1
<1>. QED
  BY <1>4, <1>6, <1>7, <1>8, <1>9, ChildSteps DEF ChildStep

(* No ack of a fundi child retires a row its engine has not run, does not  *)
(* hold, and did not hold when the turn that row was for was cut down: by  *)
(* an abort, the shutdown, a failed append, a panic or the daemon's death. *)
(* Whatever else fails, whoever writes early or resumes too soon, a row    *)
(* that waits stays unacked (engine.go, the turn worker's ack point;       *)
(* inbox_wiring.go, consumeFrames).                                        *)
THEOREM AcksAreTrue == ASSUME Kind = "fundi" PROVE Spec => []AckedMeansRan
<1>1. Init => WorkerInv /\ AbortRows /\ AckedMeansRan
  <2>. SUFFICES ASSUME Init PROVE WorkerInv /\ AbortRows /\ AckedMeansRan
    OBVIOUS
  <2>1. WorkerInv
    BY DEF Init, WorkerInv
  <2>2. AbortRows
    BY DEF Init, AbortRows, Delivering
  <2>3. \A r \in RowIds : st[r] # "consumed"
    BY DEF Init
  <2>. QED
    BY <2>1, <2>2, <2>3 DEF AckedMeansRan
<1>2. TypeOK /\ WorkerInv /\ [Next]_vars => WorkerInv'
  BY WorkerKept
<1>3. TypeOK /\ DeliveryInv /\ AbortRows /\ [Next]_vars => AbortRows'
  BY AbortRowsKept
<1>4. TypeOK /\ DeliveryInv /\ WorkerInv /\ BehindInv /\ AbortRows /\ AckedMeansRan /\ [Next]_vars => AckedMeansRan'
  BY AckedKept
<1>. QED
  BY <1>1, <1>2, <1>3, <1>4, TypeCorrect, DeliveryHeld, BehindHeld, PTL DEF Spec

-----------------------------------------------------------------------------
(* No message enters two turns.                                            *)

(* A row that is over stays over, and an accepted one stays accepted.      *)
LEMMA ClosedStays ==
  ASSUME TypeOK, DeliveryInv, [Next]_vars, NEW r \in RowIds, st[r] # "none"
  PROVE  st'[r] # "none" /\ (st'[r] \in Open => st[r] \in Open)
<1>0. st \in [RowIds -> States]
  BY DEF TypeOK, StoreOK
<1>1. CASE Returns
  BY <1>0, <1>1 DEF Returns, ReleaseInbox, BuildEngine, Crash, ResetSent, Open
<1>2. CASE ~Returns
  <2>1. st'[r] # "none" /\ (st'[r] = "pending" => st[r] = "pending")
    BY <1>2, StoreSteps
  <2>2. ASSUME st'[r] = "sent", st[r] # "sent" PROVE st[r] = "pending"
    <3>1. PICK t \in Threads : pc[t] = "mark" /\ \E b \in todo[t] : r \in b.ids
      BY <2>2, SentBy
    <3>. QED
      BY <3>1 DEF DeliveryInv, RowsHeld, Delivering
  <2>. QED
    BY <2>1, <2>2 DEF Open
<1>. QED
  BY <1>1, <1>2

(* Nothing is ever written to a script child.                              *)
ScriptInv == Kind = "script" => HeldRows = {} /\ \A t \in Threads : pc[t] \notin {"write", "mark"}

LEMMA ScriptKept ==
  ASSUME TypeOK, DeliveryInv, ScriptInv, [Next]_vars
  PROVE  ScriptInv'
<1>. SUFFICES ASSUME Kind = "script"
              PROVE  HeldRows' = {} /\ \A t \in Threads : pc'[t] \notin {"write", "mark"}
  BY DEF ScriptInv
<1>1. ASSUME NEW t \in Threads, Write(t) PROVE FALSE
  BY <1>1 DEF Write, ScriptInv
<1>2. HeldRows' = {}
  BY <1>1, HoldsLess DEF ScriptInv
<1>3. ASSUME NEW t \in Threads, pc'[t] \in {"write", "mark"} PROVE FALSE
  <2>1. ~Prepare(t)
    BY DEF Prepare, Deferred
  <2>. QED
    BY <1>1, <1>3, <2>1, WritesFrom DEF ScriptInv
<1>. QED
  BY <1>2, <1>3

(* Every row of an entry of a running fundi child is behind one of its     *)
(* frames, so the worker acks all it takes before the text enters a turn.  *)
NoAborts == \A e \in Waiting : e.mode # "abort"

FullInv ==
  Kind = "fundi" /\ Running =>
    /\ \A e \in Carried : e.mode # "abort" => e.ids \subseteq UNION {sentFrames[f] : f \in e.fids}
    /\ eng \in {"ack", "steerack"} => cur \subseteq ack
    /\ eng = "enter" => \A r \in cur : st[r] \notin Open

LEMMA NoAbortsKept ==
  ASSUME TypeOK, NoAborts, [Next]_vars
  PROVE  NoAborts'
<1>1. ASSUME NEW e \in Waiting' PROVE e.mode # "abort"
  <2>1. steerBuf \in Seq(Entry)
    BY DEF TypeOK, EngineOK
  <2>2. Join(steerBuf).mode = "prompt"
    BY <2>1, JoinQueue
  <2>. QED
    BY <1>1, <2>2, EntrySteps DEF NoAborts
<1>. QED
  BY <1>1 DEF NoAborts

LEMMA FullEntries ==
  ASSUME TypeOK, DeliveryInv, CopyInv, ApartInv', FrameInv, BehindInv, StrandInv, NoAborts, FullInv,
         Kind = "fundi", [Next]_vars, Running', NEW e \in Carried', e.mode # "abort", NEW r \in e.ids
  PROVE  \E f \in e.fids : r \in sentFrames'[f]
<1>0. /\ wire \in Seq(Entry) /\ pending \in Seq(Entry) /\ steerBuf \in Seq(Entry)
      /\ sentFrames \in [FrameIds -> SUBSET RowIds]
  BY DEF TypeOK, EngineOK
<1>1. ~BuildEngine
  <2>1. ASSUME BuildEngine PROVE FALSE
    <3>1. wire' = <<>> /\ pending' = <<>> /\ steerBuf' = <<>>
      BY <2>1 DEF BuildEngine, CopyInv, WorkerInv, QuietInv, Running, InTurn
    <3>. QED
      BY <3>1 DEF Carried, Waiting, Entries
  <2>. QED
    BY <2>1
<1>2. Running
  BY <1>1, StartedBy
<1>3. CASE e \in Carried
  <2>1. PICK f \in e.fids : r \in sentFrames[f]
    BY <1>2, <1>3 DEF FullInv
  <2>2. f \in Flying /\ f \in FrameIds
    BY <1>3, CarriedFrames
  <2>3. CASE TakePrompt \/ DrainSteers
    <3>1. PICK S \in SUBSET Waiting :
            /\ cur' = UNION {d.ids : d \in S}
            /\ sentFrames' = [g \in FrameIds |-> IF g \in UNION {d.fids : d \in S} THEN {} ELSE sentFrames[g]]
      BY <2>3, TakesEntry
    <3>2. ASSUME NEW d \in S, f \in d.fids PROVE FALSE
      <4>1. r \in d.ids
        BY <2>1, <3>2 DEF BehindInv, Carried
      <4>2. r \in cur'
        BY <3>1, <3>2, <4>1
      <4>3. TypeOK'
        BY NextType
      <4>4. wire' \in Seq(Entry) /\ pending' \in Seq(Entry) /\ steerBuf' \in Seq(Entry)
        BY <4>3 DEF TypeOK, EngineOK
      <4>5. r \in Ids(wire') \cup Ids(pending') \cup Ids(steerBuf')
        BY <4>4, EntryFacts DEF Carried, Waiting
      <4>. QED
        BY <4>2, <4>5 DEF ApartInv
    <3>. QED
      BY <2>1, <2>2, <3>1, <3>2
  <2>4. ASSUME NEW t \in Threads, Prepare(t) PROVE r \in sentFrames'[f]
    <3>1. PICK b \in todo[t] : Prepares(t, b)
      BY <2>4, PrepareIs
    <3>. QED
      BY <1>0, <2>1, <2>2, <3>1 DEF Prepares
  <2>5. ASSUME NEW t \in Threads, WriteFails(t) PROVE r \in sentFrames'[f]
    <3>1. frame[t] \notin Flying
      BY <2>5 DEF WriteFails, FrameInv
    <3>. QED
      BY <1>0, <2>1, <2>2, <2>5, <3>1 DEF WriteFails
  <2>6. ~ForgetFrames /\ ~Close /\ ~Crash
    BY <1>2 DEF ForgetFrames, Close, Crash, CopyInv, QuietInv, Running
  <2>. QED
    BY <2>1, <2>3, <2>4, <2>5, <2>6, FrameSteps
<1>4. ASSUME NEW t \in Threads, Write(t), NEW b \in todo[t], Writes(t, b), e = Encode(t, b)
      PROVE  \E f \in e.fids : r \in sentFrames'[f]
  <2>1. e.mode = b.mode /\ e.ids = b.ids /\ AwaitAck(b)
    BY <1>4 DEF Encode, AwaitAck
  <2>2. frame[t] # 0 /\ b.ids \subseteq sentFrames[frame[t]]
    BY <1>2, <1>4, <2>1 DEF Writes, FrameInv, StrandInv
  <2>3. e.fids = {frame[t]} /\ UNCHANGED sentFrames
    BY <1>4, <2>2 DEF Encode, Write
  <2>. QED
    BY <2>1, <2>2, <2>3
<1>5. ASSUME EndTurn, e = Join(steerBuf) PROVE \E f \in e.fids : r \in sentFrames'[f]
  <2>1. UNCHANGED sentFrames
    BY <1>5 DEF EndTurn
  <2>2. e.ids = UNION {d.ids : d \in Entries(steerBuf)} /\ e.fids = UNION {d.fids : d \in Entries(steerBuf)}
    BY <1>0, <1>5, JoinQueue, EntryFacts
  <2>3. PICK d \in Entries(steerBuf) : r \in d.ids
    BY <2>2
  <2>4. PICK f \in d.fids : r \in sentFrames[f]
    BY <1>2, <2>3 DEF FullInv, NoAborts, Carried, Waiting
  <2>. QED
    BY <2>1, <2>2, <2>3, <2>4
<1>. QED
  BY <1>3, <1>4, <1>5, EntrySteps

LEMMA FullKept ==
  ASSUME "store" \notin Adverse, TypeOK, DeliveryInv, CopyInv, ApartInv', FrameInv, BehindInv, StrandInv,
         NoAborts, FullInv, [Next]_vars
  PROVE  FullInv'
<1>. SUFFICES ASSUME Kind = "fundi", Running' PROVE FullInv'
  BY DEF FullInv
<1>0. st \in [RowIds -> States] /\ cur \subseteq RowIds
  BY DEF TypeOK, StoreOK, EngineOK
<1>1. ASSUME NEW e \in Carried', e.mode # "abort" PROVE e.ids \subseteq UNION {sentFrames'[f] : f \in e.fids}
  BY <1>1, FullEntries
<1>2. ASSUME ~BuildEngine PROVE Running
  BY <1>2, StartedBy
<1>3. ASSUME eng' \in {"ack", "steerack"} PROVE cur' \subseteq ack'
  <2>0. ~BuildEngine
    BY <1>3 DEF BuildEngine
  <2>1. CASE TakePrompt \/ DrainSteers
    <3>1. PICK S \in SUBSET Waiting :
            /\ cur' = UNION {e.ids : e \in S}
            /\ ack' = UNION {sentFrames[f] : f \in UNION {e.fids : e \in S}}
      BY <2>1, TakesEntry
    <3>2. ASSUME NEW e \in S PROVE e.ids \subseteq UNION {sentFrames[f] : f \in e.fids}
      BY <1>2, <2>0, <3>2 DEF FullInv, NoAborts, Carried
    <3>3. ASSUME NEW r \in cur' PROVE r \in ack'
      <4>1. PICK e \in S : r \in e.ids
        BY <3>1, <3>3
      <4>2. PICK f \in e.fids : r \in sentFrames[f]
        BY <3>2, <4>1
      <4>. QED
        BY <3>1, <4>1, <4>2
    <3>. QED
      BY <3>3
  <2>2. CASE UNCHANGED <<eng, cur, ack>>
    BY <1>2, <1>3, <2>0, <2>2 DEF FullInv
  <2>3. CASE ChildStill \/ (\E t \in Threads : Write(t)) \/ ReadFrame \/ Kill \/ Terminate \/ MarkExited \/ Pull
    BY <2>2, <2>3 DEF ChildStill, Write, ReadFrame, Kill, Terminate, MarkExited, Pull, engine
  <2>4. ~Consume /\ ~ConsumeFails /\ ~EnterTurn /\ ~EnterFails /\ ~EndTurn /\ ~Fatal /\ ~Crash
    BY <1>3 DEF Consume, ConsumeFails, EnterTurn, EnterFails, EndTurn, Fatal, Crash
  <2>. QED
    BY <2>0, <2>1, <2>3, <2>4, ChildSteps DEF ChildStep
<1>4. ASSUME eng' = "enter", NEW r \in cur' PROVE st'[r] \notin Open
  <2>0. ~BuildEngine
    BY <1>4 DEF BuildEngine
  <2>1. CASE Consume
    <3>1. r \in ack /\ r \in RowIds
      BY <1>0, <1>2, <1>4, <2>0, <2>1 DEF Consume, FullInv
    <3>. QED
      BY <1>0, <2>1, <3>1 DEF Consume, MarkConsumed, Open
  <2>2. CASE UNCHANGED <<eng, cur>>
    <3>1. r \in RowIds /\ st[r] \notin Open
      BY <1>0, <1>2, <1>4, <2>0, <2>2 DEF FullInv
    <3>2. st[r] # "none"
      BY <1>4, <2>2 DEF CopyInv, TakenInv, HeldRows
    <3>. QED
      BY <3>1, <3>2, ClosedStays
  <2>3. CASE ChildStill \/ (\E t \in Threads : Write(t)) \/ ReadFrame \/ Kill \/ Terminate \/ MarkExited \/ Pull
    BY <2>2, <2>3 DEF ChildStill, Write, ReadFrame, Kill, Terminate, MarkExited, Pull, engine
  <2>4. /\ ~TakePrompt /\ ~DrainSteers /\ ~EnterTurn /\ ~EnterFails /\ ~EndTurn /\ ~Fatal /\ ~Crash
        /\ ~ConsumeFails
    BY <1>4 DEF TakePrompt, DrainSteers, ConsumeFails, EnterTurn, EnterFails, EndTurn, Fatal, Crash, Hit
  <2>. QED
    BY <2>0, <2>1, <2>3, <2>4, ChildSteps DEF ChildStep
<1>. QED
  BY <1>1, <1>3, <1>4 DEF FullInv

(* A row that ran is nowhere in the child and not up for delivery, but for *)
(* a claude row whose delivery has yet to mark it.                         *)
OnceInv ==
  \A r \in RowIds :
    /\ ran[r] <= 1
    /\ ran[r] > 0 => r \notin HeldRows /\ st[r] # "none"
    /\ ran[r] > 0 /\ st[r] \in Open => Kind = "claude" /\ Marking(r)

LEMMA OnceKept ==
  ASSUME "store" \notin Adverse, Kind = "claude" => "crash" \notin Adverse,
         TypeOK, DeliveryInv, CopyInv, StrandInv, ScriptInv, ScriptInv', FullInv, OnceInv, [Next]_vars
  PROVE  OnceInv'
<1>0. /\ ran \in [RowIds -> Nat] /\ st \in [RowIds -> States] /\ Kind \in {"fundi", "claude", "script"}
      /\ wire \in Seq(Entry) /\ HeldRows \subseteq RowIds
  BY InboxAssumption, HeldAreRows DEF TypeOK, EngineOK, StoreOK
<1>1. ASSUME NEW r \in RowIds, EnterTurn, r \in cur
      PROVE  /\ ran'[r] <= 1 /\ r \notin HeldRows' /\ st'[r] # "none"
             /\ st'[r] \in Open => Kind = "claude" /\ Marking(r)'
  <2>1. r \in HeldRows
    BY <1>1 DEF HeldRows
  <2>2. ran[r] = 0 /\ st[r] # "none" /\ (st[r] = "pending" => Marking(r))
    BY <1>0, <2>1 DEF OnceInv, CopyInv, TakenInv
  <2>3. ran'[r] <= 1
    BY <1>0, <2>2, RanGrows
  <2>4. /\ cur' = {} /\ UNCHANGED <<wire, pending, steerBuf, st, pc, todo>> /\ Running /\ eng = "enter"
    BY <1>1 DEF EnterTurn, goers, store
  <2>5. r \notin HeldRows'
    BY <1>1, <2>4 DEF HeldRows, CopyInv, ApartInv
  <2>6. ASSUME st'[r] \in Open PROVE Kind = "claude" /\ Marking(r)'
    <3>1. Kind # "fundi"
      BY <1>1, <2>4, <2>6 DEF FullInv
    <3>2. Kind # "script"
      BY <2>1 DEF ScriptInv
    <3>3. st[r] = "pending"
      BY <2>4, <2>6, <3>1 DEF StrandInv, Open
    <3>4. Marking(r)'
      BY <2>2, <2>4, <3>3 DEF Marking, First, Before
    <3>. QED
      BY <1>0, <3>1, <3>2, <3>4
  <2>. QED
    BY <2>2, <2>3, <2>4, <2>5, <2>6
<1>2. ASSUME NEW r \in RowIds, Pull, st[r] = "pending"
      PROVE  ran'[r] <= 1 /\ r \notin HeldRows' /\ st'[r] = "consumed"
  <2>1. Kind = "script" /\ st' = MarkConsumed(PendingRows)
    BY <1>2 DEF Pull
  <2>2. ran[r] = 0
    BY <1>0, <1>2, <2>1 DEF OnceInv, Open
  <2>3. ran'[r] <= 1
    BY <1>0, <2>2, RanGrows
  <2>4. st'[r] = "consumed"
    BY <1>2, <2>1 DEF MarkConsumed, PendingRows, Open
  <2>. QED
    BY <2>1, <2>3, <2>4 DEF ScriptInv
<1>3. ASSUME NEW r \in RowIds, ran'[r] = ran[r], ran[r] > 0
      PROVE  /\ r \notin HeldRows' /\ st'[r] # "none"
             /\ st'[r] \in Open => Kind = "claude" /\ Marking(r)'
  <2>1. r \notin HeldRows /\ st[r] # "none" /\ (st[r] \in Open => Kind = "claude" /\ Marking(r))
    BY <1>3 DEF OnceInv
  <2>2. r \notin HeldRows'
    <3>1. ASSUME NEW t \in Threads, Write(t) PROVE r \notin HeldRows'
      <4>1. PICK b \in todo[t] : Writes(t, b)
        BY <3>1, WriteIs
      <4>2. Delivering(t) /\ pc[t] # "mark" /\ UNCHANGED <<pending, steerBuf, cur>>
        BY <3>1, <4>1 DEF Writes, Write, Delivering, engine
      <4>3. Ids(wire') = Ids(wire) \cup b.ids
        BY <1>0, <4>1, AppendQueue DEF Writes, Encode
      <4>4. r \notin b.ids
        BY <2>1, <4>1, <4>2, NoOtherMark DEF DeliveryInv, RowsHeld, Open
      <4>. QED
        BY <2>1, <4>2, <4>3, <4>4 DEF HeldRows
    <3>. QED
      BY <2>1, <3>1, HoldsLess
  <2>3. st'[r] # "none" /\ (st'[r] \in Open => st[r] \in Open)
    BY <2>1, ClosedStays
  <2>4. ASSUME st'[r] \in Open PROVE Kind = "claude" /\ Marking(r)'
    <3>1. Kind = "claude" /\ Marking(r)
      BY <2>1, <2>3, <2>4
    <3>2. ~Crash
      BY <3>1 DEF Crash, Hit
    <3>3. PICK u \in Threads : pc[u] = "mark" /\ \E b \in todo[u] : First(b, todo[u]) /\ r \in b.ids
      BY <3>1 DEF Marking
    <3>4. PICK b \in todo[u] : First(b, todo[u]) /\ r \in b.ids
      BY <3>3
    <3>5. ~Mark(u)
      BY <1>0, <2>4, <3>1, <3>4, MarkedLeaves DEF MarkConsumed, Open, AwaitAck
    <3>6. pc'[u] = "mark" /\ todo'[u] = todo[u]
      BY <3>2, <3>3, <3>5, MarkingStays
    <3>7. b \in todo'[u] /\ First(b, todo[u])'
      BY <3>4, <3>6 DEF First
    <3>. QED
      BY <3>1, <3>4, <3>6, <3>7 DEF Marking
  <2>. QED
    BY <2>2, <2>3, <2>4
<1>4. ASSUME NEW r \in RowIds
      PROVE  /\ ran'[r] <= 1
             /\ ran'[r] > 0 => r \notin HeldRows' /\ st'[r] # "none"
             /\ ran'[r] > 0 /\ st'[r] \in Open => Kind = "claude" /\ Marking(r)'
  <2>1. CASE ran'[r] = ran[r]
    <3>1. ran[r] <= 1
      BY DEF OnceInv
    <3>. QED
      BY <1>3, <2>1, <3>1
  <2>2. CASE EnterTurn /\ r \in cur
    BY <1>1, <2>2
  <2>3. CASE Pull /\ st[r] = "pending"
    BY <1>2, <2>3 DEF Open
  <2>. QED
    BY <2>1, <2>2, <2>3, RanGrows
<1>. QED
  BY <1>4 DEF OnceInv

LEMMA InitOnce == Init => ScriptInv /\ NoAborts /\ FullInv /\ OnceInv
<1>. SUFFICES ASSUME Init PROVE ScriptInv /\ NoAborts /\ FullInv /\ OnceInv
  OBVIOUS
<1>1. /\ wire = <<>> /\ pending = <<>> /\ steerBuf = <<>> /\ cur = {} /\ eng = "idle"
      /\ \A t \in Threads : pc[t] = "off"
      /\ \A r \in RowIds : ran[r] = 0
  BY DEF Init
<1>. QED
  BY <1>1, EmptyQueue DEF ScriptInv, HeldRows, NoAborts, FullInv, Carried, Waiting, Entries, OnceInv

(* While the store answers and nobody writes to an engine that is not      *)
(* built or resumes before an exit is over, no message enters two turns,   *)
(* over every kill, death, resume, budget hold and crash; a claude row     *)
(* excepts the daemon crash between its write and its mark (queue.go,      *)
(* deliver; engine.go, the turn worker; inbox_wiring.go, the resets).      *)
THEOREM MessagesRunOnce ==
  ASSUME Undisturbed, Kind = "claude" => "crash" \notin Adverse PROVE Spec => []RunOnce
<1>1. TypeOK /\ DeliveryInv /\ CopyInv /\ [Next]_vars => CopyInv'
  BY WorkerKept, QuietKept, ApartKept, TakenKept DEF CopyInv
<1>2. /\ TypeOK /\ DeliveryInv /\ CopyInv /\ FrameInv /\ BehindInv /\ StrandInv
      /\ ScriptInv /\ NoAborts /\ FullInv /\ OnceInv /\ [Next]_vars
      => (ScriptInv /\ NoAborts /\ FullInv /\ OnceInv)'
  <2>1. "store" \notin Adverse
    BY DEF Undisturbed
  <2>2. TypeOK /\ DeliveryInv /\ ScriptInv /\ [Next]_vars => ScriptInv'
    BY ScriptKept
  <2>3. CopyInv' => ApartInv'
    BY DEF CopyInv
  <2>. QED
    BY <1>1, <2>1, <2>2, <2>3, NoAbortsKept, FullKept, OnceKept
<1>3. OnceInv => RunOnce
  BY DEF OnceInv, RunOnce
<1>. QED
  BY <1>2, <1>3, InitOnce, TypeCorrect, DeliveryHeld, CopyHeld, FramesHeld, BehindHeld, StrandHeld, PTL DEF Spec

-----------------------------------------------------------------------------
(* The mailbox.                                                            *)

(* A fundi child that begins with an empty queue and is sent no abort (an  *)
(* abort is retired with its write: no turn takes it).                     *)
Queueing ==
  /\ Kind = "fundi" /\ Undisturbed /\ Legacy = {}
  /\ \A m \in Msgs : m.mode # "abort"

KnownInv == \A r \in RowIds : r <= n => st[r] # "none"

(* A child is forgotten only when its process is over, and one that is     *)
(* being stopped is no longer written to.                                  *)
EndInv ==
  /\ status = "absent" => phase = "exited"
  /\ xpc = "drop" => status = "absent"
  /\ phase \in {"stopping", "cancelled"} => status = "shutting_down"

PlainInv == \A e \in Carried : e.mode # "abort"

(* What a running child holds and has not acked is still open.             *)
OpenInv ==
  Running => \A r \in HeldRows : (eng = "enter" => r \notin cur) => st[r] \in Open

(* Direct prompts stand in the child in the order of acceptance, before    *)
(* every open one the child does not hold: O the direct prompts, S the     *)
(* open rows, w, p, b and c what the wire, the turn queue, the steers and  *)
(* the worker hold.                                                        *)
Sorted(q, O) ==
  \A i, j \in DOMAIN q : i < j => \A r \in q[i].ids \cap O, s \in q[j].ids \cap O : r < s

Holds(w, p, b, c) == Ids(w) \cup Ids(p) \cup Ids(b) \cup c

Orderly(O, w, p, b, c, S) ==
  /\ \A e \in Entries(w) : e.ids \cap O # {} => e.mode = "prompt"
  /\ Ids(b) \cap O = {}
  /\ Sorted(w, O) /\ Sorted(p, O)
  /\ \A r \in Ids(p) \cap O, s \in Ids(w) \cap O : r < s
  /\ \A r \in c \cap O, s \in (Ids(p) \cup Ids(w)) \cap O : r < s
  /\ \A r \in Holds(w, p, b, c) \cap O, s \in (S \cap O) \ Holds(w, p, b, c) : r < s

Ord      == {r \in RowIds : msg[r].source = Direct /\ msg[r].mode = "prompt"}
OpenRows == {r \in RowIds : st[r] \in Open}
OrderInv == Running => Orderly(Ord, wire, pending, steerBuf, cur, OpenRows)

LEMMA NoAbortMsgs ==
  ASSUME Queueing, TypeOK
  PROVE  \A r \in RowIds : msg[r].mode # "abort"
  BY DEF Queueing, TypeOK, StoreOK, Shapes, NoMsg

LEMMA AlwaysAcked ==
  ASSUME Queueing, TypeOK, DeliveryInv, AbortRows, NEW t \in Threads, Delivering(t), NEW b \in todo[t]
  PROVE  AwaitAck(b) /\ b.mode # "abort"
<1>1. PICK r \in b.ids : r \in RowIds
  BY DEF DeliveryInv, BatchesSound, TypeOK, DeliveryOK, Batch
<1>. QED
  BY <1>1, NoAbortMsgs DEF AbortRows, AwaitAck, Queueing

LEMMA KnownKept ==
  ASSUME TypeOK, DeliveryInv, KnownInv, [Next]_vars
  PROVE  KnownInv'
<1>0. n \in Nat /\ st \in [RowIds -> States] /\ RowIds \subseteq Nat
  BY InboxAssumption DEF TypeOK, StoreOK, RowIds
<1>1. ASSUME NEW t \in Threads, Persist(t) PROVE KnownInv'
  <2>1. n' = n + 1 /\ st' = [st EXCEPT ![n + 1] = "pending"]
    BY <1>1 DEF Persist
  <2>2. \A r \in RowIds : r <= n' => r <= n \/ r = n + 1
    BY <1>0, <2>1
  <2>. QED
    BY <1>0, <2>1, <2>2 DEF KnownInv
<1>2. CASE UNCHANGED n
  BY <1>2, ClosedStays DEF KnownInv
<1>. QED
  BY <1>1, <1>2, OnlyPersist

LEMMA EndKept ==
  ASSUME TypeOK, QuietInv, EndInv, [Next]_vars
  PROVE  EndInv'
<1>1. CASE LifeStill
  BY <1>1 DEF LifeStill, EndInv
<1>2. CASE LifeStep
  <2>1. CASE Fatal \/ Kill \/ Terminate \/ Finish \/ MarkExited
    BY <2>1 DEF Fatal, Kill, Terminate, Finish, MarkExited, EndInv, Running
  <2>2. CASE ForgetFrames \/ ReleaseInbox \/ RemoveChild \/ Resume \/ Recover \/ ResumeFails
    BY <2>2 DEF ForgetFrames, ReleaseInbox, RemoveChild, Resume, Recover, ResumeFails, QuietInv, EndInv
  <2>3. CASE BuildEngine \/ Activate \/ Crash
    BY <2>3 DEF BuildEngine, Activate, Crash, EndInv
  <2>4. CASE Close \/ DropInbox
    BY <2>4 DEF Close, DropInbox, EndInv
  <2>. QED
    BY <1>2, <2>1, <2>2, <2>3, <2>4 DEF LifeStep
<1>. QED
  BY <1>1, <1>2, LifeSteps

LEMMA PlainKept ==
  ASSUME Queueing, TypeOK, DeliveryInv, AbortRows, PlainInv, [Next]_vars
  PROVE  PlainInv'
<1>0. steerBuf \in Seq(Entry)
  BY DEF TypeOK, EngineOK
<1>1. ASSUME NEW e \in Carried' PROVE e.mode # "abort"
  <2>1. ASSUME NEW t \in Threads, NEW b \in todo[t], Writes(t, b), e = Encode(t, b) PROVE e.mode # "abort"
    <3>1. Delivering(t) /\ e.mode = b.mode
      BY <2>1 DEF Writes, Delivering, Encode
    <3>. QED
      BY <3>1, AlwaysAcked
  <2>2. Join(steerBuf).mode = "prompt"
    BY <1>0, JoinQueue
  <2>. QED
    BY <1>1, <2>1, <2>2, EntrySteps DEF PlainInv
<1>. QED
  BY <1>1 DEF PlainInv

(* A row leaves the open states by being consumed or dropped.              *)
LEMMA OpenLeaves ==
  ASSUME TypeOK, [Next]_vars, NEW r \in RowIds, st[r] \in Open, st'[r] \notin Open
  PROVE  st'[r] = "consumed" \/ DropInbox
<1>0. st \in [RowIds -> States]
  BY DEF TypeOK, StoreOK
<1>1. ~UNCHANGED st
  OBVIOUS
<1>2. ASSUME NEW t \in Threads, Persist(t) PROVE FALSE
  BY <1>0, <1>2 DEF Persist, Open
<1>3. ~Sweep
  BY <1>0 DEF Sweep, Open
<1>4. ~ReleaseInbox /\ ~BuildEngine /\ ~Crash
  BY <1>0 DEF ReleaseInbox, BuildEngine, Crash, ResetSent, Open
<1>5. ASSUME NEW t \in Threads,
             \/ \E m \in Msgs : Submit(t, m)
             \/ Start(t) \/ Read(t) \/ Hold(t) \/ Prepare(t) \/ Write(t) \/ WriteFails(t)
             \/ DeliverFails(t)
      PROVE  FALSE
  BY <1>1, <1>5 DEF Submit, Start, Read, Hold, Prepare, Write, WriteFails, DeliverFails, store
<1>6. ASSUME Finish \/ ForgetFrames \/ RemoveChild \/ Resume \/ Recover \/ ResumeFails \/ Activate \/ Close \/ Breach \/ Raise PROVE FALSE
  BY <1>1, <1>6 DEF Finish, ForgetFrames, RemoveChild, Resume, Recover, ResumeFails, Activate, Close, Breach, Raise, store
<1>7. ASSUME ReadFrame \/ TakePrompt \/ DrainSteers \/ ConsumeFails \/ EnterTurn \/ EnterFails \/ EndTurn \/ Fatal \/ Kill \/ Terminate \/ MarkExited PROVE FALSE
  BY <1>1, <1>7 DEF ReadFrame, TakePrompt, DrainSteers, ConsumeFails, EnterTurn, EnterFails, EndTurn, Fatal, Kill, Terminate, MarkExited, store
<1>8. ASSUME UNCHANGED vars PROVE FALSE
  BY <1>1, <1>8 DEF vars, store
<1>9. (\E t \in Threads : Mark(t)) \/ Consume \/ Pull \/ DropInbox
  BY <1>2, <1>3, <1>4, <1>5, <1>6, <1>7, <1>8, Zenon DEF Next, Steps, StoreFails, Deliver
<1>10. ASSUME NEW t \in Threads, Mark(t) PROVE st'[r] = "consumed"
  <2>1. PICK b \in todo[t] : st' = IF AwaitAck(b) THEN MarkSent(b.ids) ELSE MarkConsumed(b.ids)
    BY <1>10 DEF Mark
  <2>. QED
    BY <1>0, <2>1 DEF MarkSent, MarkConsumed, Open
<1>11. CASE Consume \/ Pull
  BY <1>0, <1>11 DEF Consume, Pull, MarkConsumed, Open
<1>. QED
  BY <1>9, <1>10, <1>11

LEMMA OpenKept ==
  ASSUME Queueing, TypeOK, DeliveryInv, CopyInv, ApartInv', BehindInv, AbortRows, OpenInv, [Next]_vars
  PROVE  OpenInv'
<1>0. HeldRows \subseteq RowIds /\ wire \in Seq(Entry)
  BY HeldAreRows DEF TypeOK, EngineOK
<1>. SUFFICES ASSUME Running', NEW r \in HeldRows', eng' = "enter" => r \notin cur'
              PROVE  st'[r] \in Open
  BY DEF OpenInv
<1>1. ~BuildEngine
  <2>1. ASSUME BuildEngine PROVE FALSE
    <3>1. UNCHANGED <<wire, pending, steerBuf, cur>> /\ phase = "building"
      BY <2>1 DEF BuildEngine
    <3>2. HeldRows' = {}
      BY <3>1, EmptyQueue DEF HeldRows, CopyInv, WorkerInv, QuietInv, Running, InTurn
    <3>. QED
      BY <3>2
  <2>. QED
    BY <2>1
<1>2. Running
  BY <1>1, StartedBy
<1>5. ~Fatal
  BY DEF Fatal, Running
<1>3. ASSUME NEW t \in Threads, Write(t), r \notin HeldRows PROVE st'[r] \in Open
  <2>1. PICK b \in todo[t] : Writes(t, b)
    BY <1>3, WriteIs
  <2>2. UNCHANGED <<st, pending, steerBuf, cur>>
    BY <1>3 DEF Write, engine, store
  <2>3. Ids(wire') = Ids(wire) \cup b.ids
    BY <1>0, <2>1, AppendQueue DEF Writes, Encode
  <2>4. r \in b.ids
    BY <1>3, <2>2, <2>3 DEF HeldRows
  <2>. QED
    BY <2>1, <2>2, <2>4 DEF Writes, DeliveryInv, RowsHeld, Delivering, Open
<1>4. CASE r \in HeldRows
  <2>1. ASSUME eng = "enter", r \in cur PROVE FALSE
    <3>1. CASE EnterTurn \/ EnterFails
      <4>1. cur' = {} /\ UNCHANGED <<wire, pending, steerBuf>>
        BY <3>1 DEF EnterTurn, EnterFails
      <4>. QED
        BY <2>1, <4>1 DEF HeldRows, CopyInv, ApartInv
    <3>2. CASE UNCHANGED <<eng, cur>>
      BY <2>1, <3>2
    <3>3. CASE ChildStill \/ (\E t \in Threads : Write(t)) \/ ReadFrame \/ Kill \/ Terminate \/ MarkExited \/ Pull
      BY <3>2, <3>3 DEF ChildStill, Write, ReadFrame, Kill, Terminate, MarkExited, Pull, engine
    <3>4. ~TakePrompt /\ ~DrainSteers /\ ~Consume /\ ~ConsumeFails /\ ~EndTurn
      BY <2>1 DEF TakePrompt, DrainSteers, Consume, ConsumeFails, EndTurn
    <3>5. ~Crash
      BY DEF Crash, Running
    <3>. QED
      BY <1>1, <1>5, <3>1, <3>3, <3>4, <3>5, ChildSteps DEF ChildStep
  <2>2. st[r] \in Open /\ r \in RowIds
    BY <1>0, <1>2, <1>4, <2>1 DEF OpenInv
  <2>3. ~DropInbox
    BY <1>2 DEF DropInbox, CopyInv, QuietInv, Running
  <2>4. ASSUME st'[r] = "consumed" PROVE FALSE
    <3>1. ASSUME NEW t \in Threads, pc[t] = "mark", NEW b \in todo[t], ~AwaitAck(b) PROVE FALSE
      BY <3>1, AlwaysAcked DEF Delivering
    <3>2. ~(Consume /\ r \in ack)
      <4>1. ASSUME Consume, r \in ack PROVE FALSE
        BY <4>1 DEF Consume, BehindInv
      <4>. QED
        BY <4>1
    <3>3. ~Pull
      BY DEF Pull, Queueing
    <3>4. st[r] # "consumed"
      BY <2>2 DEF Open
    <3>. QED
      BY <2>2, <2>4, <3>1, <3>2, <3>3, <3>4, ConsumedBy
  <2>. QED
    BY <2>2, <2>3, <2>4, OpenLeaves
<1>. QED
  BY <1>3, <1>4, HoldsLess

LEMMA SortedQueue ==
  ASSUME NEW O, NEW q \in Seq(Entry), Sorted(q, O)
  PROVE  /\ \A e \in Entry : (\A r \in Ids(q) \cap O, s \in e.ids \cap O : r < s) => Sorted(Append(q, e), O)
         /\ q # <<>> => /\ Sorted(Tail(q), O)
                        /\ \A r \in Head(q).ids \cap O, s \in Ids(Tail(q)) \cap O : r < s
         /\ \A k \in 0..Len(q) :
              /\ Sorted(SubSeq(q, 1, k), O)
              /\ \A r \in Ids(SubSeq(q, 1, k)) \cap O, s \in (Ids(q) \ Ids(SubSeq(q, 1, k))) \cap O : r < s
<1>0. DOMAIN q = 1..Len(q) /\ Len(q) \in Nat
  OBVIOUS
<1>1. ASSUME NEW e \in Entry, \A r \in Ids(q) \cap O, s \in e.ids \cap O : r < s
      PROVE  Sorted(Append(q, e), O)
  <2>. HIDE DEF Entry
  <2>1. /\ DOMAIN Append(q, e) = 1..(Len(q) + 1)
        /\ \A i \in 1..Len(q) : Append(q, e)[i] = q[i]
        /\ Append(q, e)[Len(q) + 1] = e
    BY <1>1
  <2>2. \A i, j \in 1..(Len(q) + 1) : i < j => i \in 1..Len(q) /\ (j \in 1..Len(q) \/ j = Len(q) + 1)
    BY <1>0
  <2>3. \A i \in 1..Len(q) : q[i].ids \subseteq Ids(q)
    BY <1>0 DEF Ids
  <2>. QED
    BY <1>0, <1>1, <2>1, <2>2, <2>3 DEF Sorted
<1>2. ASSUME q # <<>>
      PROVE  Sorted(Tail(q), O) /\ \A r \in Head(q).ids \cap O, s \in Ids(Tail(q)) \cap O : r < s
  <2>. HIDE DEF Entry
  <2>1. /\ DOMAIN Tail(q) = 1..(Len(q) - 1) /\ Head(q) = q[1]
        /\ \A i \in 1..(Len(q) - 1) : Tail(q)[i] = q[i + 1]
    BY <1>2
  <2>2. /\ \A i \in 1..(Len(q) - 1) : i + 1 \in 1..Len(q) /\ 1 < i + 1 /\ 1 \in 1..Len(q)
        /\ \A i, j \in 1..(Len(q) - 1) : i < j => i + 1 < j + 1
    BY <1>0
  <2>3. Sorted(Tail(q), O)
    BY <1>0, <2>1, <2>2 DEF Sorted
  <2>4. ASSUME NEW r \in Head(q).ids \cap O, NEW s \in Ids(Tail(q)) \cap O PROVE r < s
    <3>1. PICK i \in 1..(Len(q) - 1) : s \in q[i + 1].ids
      BY <2>1, <2>4 DEF Ids
    <3>. QED
      BY <1>0, <2>1, <2>2, <2>4, <3>1 DEF Sorted
  <2>. QED
    BY <2>3, <2>4
<1>3. ASSUME NEW k \in 0..Len(q)
      PROVE  /\ Sorted(SubSeq(q, 1, k), O)
             /\ \A r \in Ids(SubSeq(q, 1, k)) \cap O, s \in (Ids(q) \ Ids(SubSeq(q, 1, k))) \cap O : r < s
  <2>. HIDE DEF Entry
  <2>1. /\ DOMAIN SubSeq(q, 1, k) = 1..k
        /\ \A i \in 1..k : i \in 1..Len(q) /\ SubSeq(q, 1, k)[i] = q[i]
    BY <1>3
  <2>2. Sorted(SubSeq(q, 1, k), O)
    BY <1>0, <2>1 DEF Sorted
  <2>3. ASSUME NEW r \in Ids(SubSeq(q, 1, k)) \cap O, NEW s \in (Ids(q) \ Ids(SubSeq(q, 1, k))) \cap O PROVE r < s
    <3>1. PICK i \in 1..k : r \in q[i].ids
      BY <2>1, <2>3 DEF Ids
    <3>2. PICK j \in 1..Len(q) : s \in q[j].ids
      BY <1>0, <2>3 DEF Ids
    <3>3. j \notin 1..k
      BY <2>1, <2>3, <3>2 DEF Ids
    <3>4. i \in 1..Len(q) /\ i < j
      BY <1>0, <3>1, <3>2, <3>3
    <3>. QED
      BY <1>0, <2>3, <3>1, <3>2, <3>4 DEF Sorted
  <2>. QED
    BY <2>2, <2>3
<1>. QED
  BY <1>1, <1>2, <1>3

LEMMA SortedEmpty == \A O : Sorted(<<>>, O)
  BY DEF Sorted

(* A batch with a direct prompt is that prompt alone.                      *)
OrdBatches ==
  \A t \in Threads : Delivering(t) => \A b \in todo[t] : b.ids \cap Ord # {} => b.mode = "prompt"

LEMMA OrdBatchesKept ==
  ASSUME TypeOK, DeliveryInv, OrdBatches, [Next]_vars
  PROVE  OrdBatches'
<1>1. ASSUME NEW t \in Threads, Delivering(t)', NEW b \in todo'[t], NEW r \in b.ids, r \in Ord'
      PROVE  b.mode = "prompt"
  <2>1. CASE Delivering(t) /\ todo'[t] \subseteq todo[t]
    <3>1. r \in RowIds /\ r <= n
      BY <1>1, <2>1 DEF DeliveryInv, BatchesSound, TypeOK, DeliveryOK, Batch
    <3>2. r \in Ord
      BY <1>1, <3>1, MsgStays DEF Ord
    <3>. QED
      BY <1>1, <2>1, <3>2 DEF OrdBatches
  <2>2. CASE Read(t) /\ todo'[t] = Coalesce(Chosen(t), call[t].steer)
    <3>1. UNCHANGED msg
      BY <2>2 DEF Read, store
    <3>2. msg[r].source = Direct /\ msg[r].mode = "prompt"
      BY <1>1, <3>1 DEF Ord
    <3>3. ASSUME NEW s \in {msg[x].source : x \in Chosen(t)} \ {Direct}, b = GroupBatch(Chosen(t), s, call[t].steer)
          PROVE  FALSE
      BY <1>1, <3>2, <3>3 DEF GroupBatch
    <3>4. PICK x \in Chosen(t) : b = DirectBatch(x)
      BY <1>1, <2>2, <3>3 DEF Coalesce
    <3>. QED
      BY <1>1, <3>2, <3>4 DEF DirectBatch
  <2>. QED
    BY <1>1, <2>1, <2>2, DeliversFrom
<1>. QED
  BY <1>1 DEF OrdBatches, Delivering

(* What the child's steps do to the order.                                 *)
LEMMA OrderlyLess ==
  ASSUME NEW O, NEW w, NEW p, NEW b, NEW c, NEW S, NEW T \in SUBSET S, Orderly(O, w, p, b, c, S)
  PROVE  Orderly(O, w, p, b, c, T)
  BY DEF Orderly

LEMMA OrderlyEmpty == \A O, S : Orderly(O, <<>>, <<>>, <<>>, {}, S)
  BY SortedEmpty, EmptyQueue DEF Orderly, Holds, Entries

LEMMA OrderlyRead ==
  ASSUME NEW O, NEW w \in Seq(Entry), NEW p \in Seq(Entry), NEW b \in Seq(Entry), NEW c, NEW S,
         Orderly(O, w, p, b, c, S), w # <<>>
  PROVE  /\ Orderly(O, Tail(w), Append(p, Head(w)), b, c, S)
         /\ Head(w).mode = "steer" => Orderly(O, Tail(w), p, Append(b, Head(w)), c, S)
<1>1. /\ Ids(w) = Head(w).ids \cup Ids(Tail(w)) /\ Head(w) \in Entry
      /\ Entries(Tail(w)) \subseteq Entries(w) /\ Head(w) \in Entries(w)
  BY TailQueue, TailEntries, QueueType
<1>2. Ids(Append(p, Head(w))) = Ids(p) \cup Head(w).ids /\ Ids(Append(b, Head(w))) = Ids(b) \cup Head(w).ids
  BY <1>1, AppendQueue
<1>3. /\ Sorted(Tail(w), O)
      /\ \A r \in Head(w).ids \cap O, s \in Ids(Tail(w)) \cap O : r < s
  BY SortedQueue DEF Orderly
<1>4. Sorted(Append(p, Head(w)), O)
  <2>1. \A r \in Ids(p) \cap O, s \in Head(w).ids \cap O : r < s
    BY <1>1 DEF Orderly
  <2>2. Sorted(p, O)
    BY DEF Orderly
  <2>. QED
    BY <1>1, <2>1, <2>2, SortedQueue
<1>5. Holds(Tail(w), Append(p, Head(w)), b, c) = Holds(w, p, b, c)
  BY <1>1, <1>2 DEF Holds
<1>6. Holds(Tail(w), p, Append(b, Head(w)), c) = Holds(w, p, b, c)
  BY <1>1, <1>2 DEF Holds
<1>7. Orderly(O, Tail(w), Append(p, Head(w)), b, c, S)
  BY <1>1, <1>2, <1>3, <1>4, <1>5 DEF Orderly
<1>8. ASSUME Head(w).mode = "steer" PROVE Orderly(O, Tail(w), p, Append(b, Head(w)), c, S)
  <2>1. Head(w).ids \cap O = {}
    BY <1>1, <1>8 DEF Orderly
  <2>. QED
    BY <1>1, <1>2, <1>3, <1>6, <2>1 DEF Orderly
<1>. QED
  BY <1>7, <1>8

LEMMA OrderlyTake ==
  ASSUME NEW O, NEW w \in Seq(Entry), NEW p \in Seq(Entry), NEW b \in Seq(Entry), NEW S,
         Orderly(O, w, p, b, {}, S)
  PROVE  /\ p # <<>> => Orderly(O, w, Tail(p), b, Head(p).ids, S)
         /\ Orderly(O, w, p, <<>>, Ids(b), S)
<1>1. ASSUME p # <<>> PROVE Orderly(O, w, Tail(p), b, Head(p).ids, S)
  <2>1. Ids(p) = Head(p).ids \cup Ids(Tail(p))
    BY <1>1, TailQueue
  <2>2. /\ Sorted(Tail(p), O)
        /\ \A r \in Head(p).ids \cap O, s \in Ids(Tail(p)) \cap O : r < s
    BY <1>1, SortedQueue DEF Orderly
  <2>3. Holds(w, Tail(p), b, Head(p).ids) = Holds(w, p, b, {})
    BY <2>1 DEF Holds
  <2>. QED
    BY <2>1, <2>2, <2>3 DEF Orderly
<1>2. Orderly(O, w, p, <<>>, Ids(b), S)
  <2>1. Holds(w, p, <<>>, Ids(b)) = Holds(w, p, b, {})
    BY EmptyQueue DEF Holds
  <2>. QED
    BY <2>1, EmptyQueue DEF Orderly
<1>. QED
  BY <1>1, <1>2

LEMMA OrderlyEnd ==
  ASSUME NEW O, NEW w \in Seq(Entry), NEW p \in Seq(Entry), NEW b \in Seq(Entry), NEW c, NEW S,
         Orderly(O, w, p, b, c, S)
  PROVE  Orderly(O, w, Append(p, Join(b)), <<>>, c, S)
<1>1. Join(b) \in Entry /\ Join(b).ids = Ids(b)
  BY JoinType, JoinQueue
<1>2. Ids(Append(p, Join(b))) = Ids(p) \cup Ids(b)
  BY <1>1, AppendQueue
<1>3. Sorted(Append(p, Join(b)), O)
  <2>1. \A r \in Ids(p) \cap O, s \in Join(b).ids \cap O : r < s
    BY <1>1 DEF Orderly
  <2>2. Sorted(p, O)
    BY DEF Orderly
  <2>. QED
    BY <1>1, <2>1, <2>2, SortedQueue
<1>4. Holds(w, Append(p, Join(b)), <<>>, c) = Holds(w, p, b, c)
  BY <1>2, EmptyQueue DEF Holds
<1>. QED
  BY <1>2, <1>3, <1>4, EmptyQueue DEF Orderly

LEMMA OrderlyCut ==
  ASSUME NEW O, NEW w \in Seq(Entry), NEW p, NEW b, NEW c, NEW S, NEW k \in 0..Len(w),
         Orderly(O, w, p, b, c, S)
  PROVE  Orderly(O, SubSeq(w, 1, k), p, b, c, S)
<1>1. /\ Ids(SubSeq(w, 1, k)) \subseteq Ids(w) /\ Entries(SubSeq(w, 1, k)) \subseteq Entries(w)
  BY CutQueue, CutEntries
<1>2. /\ Sorted(SubSeq(w, 1, k), O)
      /\ \A r \in Ids(SubSeq(w, 1, k)) \cap O, s \in (Ids(w) \ Ids(SubSeq(w, 1, k))) \cap O : r < s
  BY SortedQueue DEF Orderly
<1>3. ASSUME NEW r \in Holds(SubSeq(w, 1, k), p, b, c) \cap O,
             NEW s \in (S \cap O) \ Holds(SubSeq(w, 1, k), p, b, c)
      PROVE  r < s
  <2>1. CASE s \in Ids(w)
    <3>1. r \in Ids(SubSeq(w, 1, k)) \/ r \in Ids(p) \/ r \in c
      BY <1>3 DEF Holds, Orderly
    <3>. QED
      BY <1>2, <1>3, <2>1, <3>1 DEF Holds, Orderly
  <2>2. CASE s \notin Ids(w)
    <3>1. s \notin Holds(w, p, b, c) /\ r \in Holds(w, p, b, c)
      BY <1>1, <1>3, <2>2 DEF Holds
    <3>. QED
      BY <1>3, <3>1 DEF Orderly
  <2>. QED
    BY <2>1, <2>2
<1>. QED
  BY <1>1, <1>2, <1>3 DEF Orderly

LEMMA OrderlyEnter ==
  ASSUME NEW O, NEW w, NEW p, NEW b, NEW c, NEW S, Orderly(O, w, p, b, c, S), c \cap S = {}
  PROVE  Orderly(O, w, p, b, {}, S)
  BY DEF Orderly, Holds

LEMMA OrderlyWrite ==
  ASSUME NEW O, NEW w \in Seq(Entry), NEW p, NEW b, NEW c, NEW S, NEW e \in Entry,
         Orderly(O, w, p, b, c, S),
         e.ids \cap O # {} => e.mode = "prompt",
         e.ids \cap O \subseteq S \ Holds(w, p, b, c),
         \A r \in e.ids \cap O, s \in (S \cap O) \ (Holds(w, p, b, c) \cup e.ids) : r < s
  PROVE  Orderly(O, Append(w, e), p, b, c, S)
<1>1. /\ Ids(Append(w, e)) = Ids(w) \cup e.ids /\ Entries(Append(w, e)) \subseteq Entries(w) \cup {e}
  BY AppendQueue, AppendEntries
<1>2. \A r \in Holds(w, p, b, c) \cap O, s \in e.ids \cap O : r < s
  BY DEF Orderly
<1>3. Sorted(Append(w, e), O)
  <2>1. Sorted(w, O)
    BY DEF Orderly
  <2>. QED
    BY <1>2, <2>1, SortedQueue DEF Holds
<1>4. Holds(Append(w, e), p, b, c) = Holds(w, p, b, c) \cup e.ids
  BY <1>1 DEF Holds
<1>5. \A r \in (Holds(w, p, b, c) \cup e.ids) \cap O, s \in (S \cap O) \ (Holds(w, p, b, c) \cup e.ids) : r < s
  BY DEF Orderly
<1>6. /\ \A r \in Ids(p) \cap O, s \in (Ids(w) \cup e.ids) \cap O : r < s
      /\ \A r \in c \cap O, s \in (Ids(p) \cup (Ids(w) \cup e.ids)) \cap O : r < s
  BY <1>2 DEF Orderly, Holds
<1>. QED
  BY <1>1, <1>3, <1>4, <1>5, <1>6 DEF Orderly

LEMMA OrderlyAccept ==
  ASSUME NEW O, NEW w \in Seq(Entry), NEW p \in Seq(Entry), NEW b, NEW c, NEW S, NEW m,
         NEW P, NEW T, P \ {m} = O \ {m}, T \subseteq S \cup {m},
         Orderly(O, w, p, b, c, S), m \notin Holds(w, p, b, c),
         \A r \in Holds(w, p, b, c) \cap O : r < m
  PROVE  Orderly(P, w, p, b, c, T)
<1>1. /\ Ids(w) \cap P = Ids(w) \cap O /\ Ids(p) \cap P = Ids(p) \cap O /\ Ids(b) \cap P = Ids(b) \cap O
      /\ c \cap P = c \cap O /\ Holds(w, p, b, c) \cap P = Holds(w, p, b, c) \cap O
  BY DEF Holds
<1>2. ASSUME NEW q \in {w, p}
      PROVE  /\ \A i \in DOMAIN q : q[i].ids \cap P = q[i].ids \cap O
             /\ \A e \in Entries(q) : e.ids \cap P = e.ids \cap O
  BY <1>2 DEF Holds, Ids, Entries
<1>3. Sorted(w, P) /\ Sorted(p, P)
  BY <1>2 DEF Orderly, Sorted
<1>4. (T \cap P) \ Holds(w, p, b, c) \subseteq ((S \cap O) \ Holds(w, p, b, c)) \cup {m}
  OBVIOUS
<1>5. \A r \in Holds(w, p, b, c) \cap P, s \in (T \cap P) \ Holds(w, p, b, c) : r < s
  BY <1>1, <1>4 DEF Orderly
<1>6. \A e \in Entries(w) : e.ids \cap P # {} => e.mode = "prompt"
  BY <1>2 DEF Orderly
<1>7. \A r \in c \cap P, s \in (Ids(p) \cup Ids(w)) \cap P : r < s
  BY <1>1 DEF Orderly
<1>. QED
  BY <1>1, <1>3, <1>5, <1>6, <1>7 DEF Orderly

(* A direct prompt is written after every earlier open one.                *)
LEMMA OrderWrite ==
  ASSUME Queueing, TypeOK, DeliveryInv, CopyInv, BehindInv, StrandInv, EndInv, OrdBatches, OrderInv,
         Running, NEW t \in Threads, Write(t)
  PROVE  Orderly(Ord, wire', pending, steerBuf, cur, OpenRows)
<1>0. wire \in Seq(Entry) /\ pending \in Seq(Entry) /\ steerBuf \in Seq(Entry)
  BY DEF TypeOK, EngineOK
<1>1. PICK b \in todo[t] : Writes(t, b)
  BY WriteIs
<1>2. PICK e \in Entry : e = Encode(t, b)
  BY <1>1 DEF Writes
<1>3. e.ids = b.ids /\ e.mode = b.mode /\ wire' = Append(wire, e) /\ Delivering(t) /\ pc[t] # "mark"
  BY <1>1, <1>2 DEF Encode, Writes, Delivering
<1>4. Holds(wire, pending, steerBuf, cur) = HeldRows
  BY DEF Holds, HeldRows
<1>5. e.ids \cap Ord \subseteq OpenRows \ HeldRows
  <2>1. b.ids \cap HeldRows = {}
    BY <1>1, <1>3, NotHeldYet DEF CopyInv, Writes
  <2>2. \A r \in b.ids : st[r] = "pending"
    BY <1>1, <1>3 DEF DeliveryInv, RowsHeld, Writes
  <2>. QED
    BY <1>3, <2>1, <2>2 DEF OpenRows, Ord, Open
<1>6. e.ids \cap Ord # {} => e.mode = "prompt"
  BY <1>1, <1>3 DEF OrdBatches, Writes
<1>7. phase = "up"
  BY DEF Write, Writable, EndInv, Running
<1>8. ASSUME NEW r \in e.ids \cap Ord, NEW s \in (OpenRows \cap Ord) \ (HeldRows \cup e.ids) PROVE r < s
  <2>1. st[s] = "pending"
    <3>1. ASSUME st[s] = "sent" PROVE FALSE
      <4>1. Covered(s)
        BY <1>7, <1>8, <3>1 DEF StrandInv, OpenRows
      <4>2. s \notin ack
        BY <1>8 DEF BehindInv, HeldRows
      <4>3. PICK f \in Flying : s \in sentFrames[f]
        BY <4>1, <4>2 DEF Covered
      <4>4. PICK q \in {wire, pending, steerBuf} : \E i \in DOMAIN q : f \in q[i].fids
        BY FlyingIs
      <4>5. PICK i \in DOMAIN q : f \in q[i].fids
        BY <4>4
      <4>6. q[i] \in Carried
        BY <4>4, <4>5 DEF Carried, Waiting, Entries
      <4>7. s \in q[i].ids /\ q[i].ids \subseteq HeldRows
        BY <4>3, <4>5, <4>6, CarriedFrames DEF BehindInv
      <4>. QED
        BY <1>8, <4>7
    <3>. QED
      BY <1>8, <3>1 DEF OpenRows, Open
  <2>2. wire'[Len(wire')] = e /\ Len(wire') > Len(wire)
    <3>. HIDE DEF Entry
    <3>. QED
      BY <1>0, <1>3
  <2>3. ~(s < r)
    BY <1>8, <2>1, <2>2, WriteInOrder DEF InOrder, Ord
  <2>4. r # s /\ r \in Int /\ s \in Int
    BY <1>8, InboxAssumption DEF Ord, RowIds
  <2>. QED
    BY <2>3, <2>4
<1>9. Orderly(Ord, wire, pending, steerBuf, cur, OpenRows)
  BY DEF OrderInv
<1>. HIDE DEF Entry
<1>. QED
  BY <1>0, <1>3, <1>4, <1>5, <1>6, <1>8, <1>9, OrderlyWrite

(* A new row comes after every row the child holds.                        *)
LEMMA OrderAccept ==
  ASSUME TypeOK, DeliveryInv, CopyInv, OrderInv, Running, NEW t \in Threads, Persist(t)
  PROVE  Orderly(Ord', wire, pending, steerBuf, cur, OpenRows')
<1>0. /\ wire \in Seq(Entry) /\ pending \in Seq(Entry) /\ n \in Nat /\ RowIds \subseteq Nat
      /\ st \in [RowIds -> States] /\ msg \in [RowIds -> Shapes]
  BY InboxAssumption DEF TypeOK, EngineOK, StoreOK, RowIds
<1>1. st' = [st EXCEPT ![n + 1] = "pending"] /\ msg' = [msg EXCEPT ![n + 1] = inbound[t]]
  BY DEF Persist
<1>2. Ord' \ {n + 1} = Ord \ {n + 1}
  BY <1>0, <1>1 DEF Ord
<1>3. OpenRows' \subseteq OpenRows \cup {n + 1}
  BY <1>0, <1>1 DEF OpenRows
<1>4. \A r \in HeldRows : r <= n /\ r \in Nat
  <2>1. \A r \in HeldRows : r \in RowIds /\ st[r] # "none"
    BY HeldAreRows DEF CopyInv, TakenInv
  <2>2. \A r \in RowIds : st[r] # "none" => ~(r > n) /\ r \in Nat
    BY <1>0 DEF DeliveryInv, RowsAccepted
  <2>3. \A r \in Nat : ~(r > n) => r <= n
    BY <1>0
  <2>. QED
    BY <2>1, <2>2, <2>3
<1>5. n + 1 \notin HeldRows /\ \A r \in HeldRows \cap Ord : r < n + 1
  BY <1>0, <1>4
<1>6. Holds(wire, pending, steerBuf, cur) = HeldRows
  BY DEF Holds, HeldRows
<1>7. Orderly(Ord, wire, pending, steerBuf, cur, OpenRows)
  BY DEF OrderInv
<1>. HIDE DEF Entry
<1>. QED
  BY <1>0, <1>2, <1>3, <1>5, <1>6, <1>7, OrderlyAccept

LEMMA OrderKept ==
  ASSUME Queueing, TypeOK, DeliveryInv, DeliveryInv', CopyInv, BehindInv, StrandInv, FullInv, KnownInv,
         EndInv, PlainInv, OrdBatches, OrderInv, [Next]_vars
  PROVE  OrderInv'
<1>0. wire \in Seq(Entry) /\ pending \in Seq(Entry) /\ steerBuf \in Seq(Entry)
  BY DEF TypeOK, EngineOK
<1>. SUFFICES ASSUME Running' PROVE Orderly(Ord', wire', pending', steerBuf', cur', OpenRows')
  BY DEF OrderInv
<1>1. CASE BuildEngine
  <2>1. wire' = <<>> /\ pending' = <<>> /\ steerBuf' = <<>> /\ cur' = {}
    BY <1>1 DEF BuildEngine, CopyInv, WorkerInv, QuietInv, Running, InTurn
  <2>. QED
    BY <2>1, OrderlyEmpty
<1>2. CASE ~BuildEngine
  <2>0. Running /\ Orderly(Ord, wire, pending, steerBuf, cur, OpenRows)
    BY <1>2, StartedBy DEF OrderInv
  <2>1. ASSUME NEW t \in Threads, Persist(t) PROVE Orderly(Ord', wire', pending', steerBuf', cur', OpenRows')
    <3>1. UNCHANGED <<wire, pending, steerBuf, cur>>
      BY <2>1 DEF Persist, engine
    <3>. QED
      BY <2>0, <2>1, <3>1, OrderAccept
  <2>2. CASE UNCHANGED <<n, msg>>
    <3>1. Ord' = Ord
      BY <2>2 DEF Ord
    <3>2. OpenRows' \in SUBSET OpenRows
      <4>1. ASSUME NEW r \in RowIds, st'[r] \in Open PROVE st[r] \in Open
        <5>1. ASSUME st[r] = "none" PROVE FALSE
          <6>1. r > n
            BY <5>1, InboxAssumption DEF KnownInv, TypeOK, StoreOK, RowIds
          <6>2. st'[r] = "none"
            BY <2>2, <6>1 DEF DeliveryInv, RowsAccepted
          <6>. QED
            BY <4>1, <6>2 DEF Open
        <5>. QED
          BY <4>1, <5>1, ClosedStays
      <4>. QED
        BY <4>1 DEF OpenRows
    <3>3. Orderly(Ord, wire', pending', steerBuf', cur', OpenRows)
      <4>1. CASE UNCHANGED <<wire, pending, steerBuf, cur>>
        BY <2>0, <4>1
      <4>2. CASE ChildStill \/ Consume \/ ConsumeFails \/ Pull
        BY <4>1, <4>2 DEF ChildStill, Consume, ConsumeFails, Pull
      <4>3. ASSUME NEW t \in Threads, Write(t) PROVE Orderly(Ord, wire', pending', steerBuf', cur', OpenRows)
        <5>1. UNCHANGED <<pending, steerBuf, cur>>
          BY <4>3 DEF Write, engine
        <5>. QED
          BY <2>0, <4>3, <5>1, OrderWrite
      <4>4. CASE ReadFrame
        <5>1. /\ wire # <<>> /\ wire' = Tail(wire) /\ UNCHANGED cur
              /\ \/ Head(wire).mode = "abort" /\ UNCHANGED <<pending, steerBuf>>
                 \/ steerBuf' = Append(steerBuf, Head(wire)) /\ UNCHANGED pending /\ Head(wire).mode = "steer"
                 \/ pending' = Append(pending, Head(wire)) /\ UNCHANGED steerBuf
          BY <4>4 DEF ReadFrame
        <5>2. CASE Head(wire).mode = "abort" /\ UNCHANGED <<pending, steerBuf>>
          BY <1>0, <5>1, <5>2, TailEntries DEF PlainInv, Carried
        <5>3. CASE steerBuf' = Append(steerBuf, Head(wire)) /\ UNCHANGED pending /\ Head(wire).mode = "steer"
          BY <1>0, <2>0, <5>1, <5>3, OrderlyRead
        <5>4. CASE pending' = Append(pending, Head(wire)) /\ UNCHANGED steerBuf
          BY <1>0, <2>0, <5>1, <5>4, OrderlyRead
        <5>. QED
          BY <5>1, <5>2, <5>3, <5>4
      <4>5. CASE TakePrompt
        <5>1. cur = {} /\ pending # <<>> /\ pending' = Tail(pending) /\ cur' = Head(pending).ids /\ UNCHANGED <<wire, steerBuf>>
          BY <4>5 DEF TakePrompt, TakeFrames, CopyInv, WorkerInv
        <5>. QED
          BY <1>0, <2>0, <5>1, OrderlyTake
      <4>6. CASE DrainSteers
        <5>1. cur = {} /\ steerBuf' = <<>> /\ cur' = Ids(steerBuf) /\ UNCHANGED <<wire, pending>>
          BY <1>0, <4>6, JoinQueue DEF DrainSteers, TakeFrames, CopyInv, WorkerInv
        <5>. QED
          BY <1>0, <2>0, <5>1, OrderlyTake
      <4>7. CASE EnterTurn \/ EnterFails
        <5>1. cur' = {} /\ UNCHANGED <<wire, pending, steerBuf>> /\ eng = "enter"
          BY <4>7 DEF EnterTurn, EnterFails
        <5>2. cur \cap OpenRows = {}
          BY <2>0, <5>1 DEF FullInv, OpenRows, Queueing
        <5>. QED
          BY <2>0, <5>1, <5>2, OrderlyEnter
      <4>8. CASE EndTurn
        <5>1. CASE steerBuf = <<>>
          BY <4>1, <4>8, <5>1 DEF EndTurn
        <5>2. CASE steerBuf # <<>>
          <6>1. pending' = Append(pending, Join(steerBuf)) /\ steerBuf' = <<>> /\ UNCHANGED <<wire, cur>>
            BY <4>8, <5>2 DEF EndTurn
          <6>. QED
            BY <1>0, <2>0, <6>1, OrderlyEnd
        <5>. QED
          BY <5>1, <5>2
      <4>9. CASE Kill \/ Terminate
        <5>1. UNCHANGED <<pending, steerBuf, cur>>
          BY <4>9 DEF Kill, Terminate, engine
        <5>2. wire' = wire \/ wire' = <<>> \/ \E k \in 0..Len(wire) : wire' = SubSeq(wire, 1, k)
          BY <4>9 DEF Kill, Terminate
        <5>3. <<>> = SubSeq(wire, 1, 0) /\ 0 \in 0..Len(wire)
          <6>. HIDE DEF Entry
          <6>. QED
            BY <1>0
        <5>4. wire' = wire \/ \E k \in 0..Len(wire) : wire' = SubSeq(wire, 1, k)
          BY <5>2, <5>3
        <5>. QED
          BY <1>0, <2>0, <5>1, <5>4, OrderlyCut
      <4>10. ~Fatal /\ ~MarkExited /\ ~Crash
        BY DEF Fatal, MarkExited, Crash, Running
      <4>. QED
        BY <1>2, <4>2, <4>3, <4>4, <4>5, <4>6, <4>7, <4>8, <4>9, <4>10, ChildSteps DEF ChildStep
    <3>. QED
      BY <3>1, <3>2, <3>3, OrderlyLess
  <2>. QED
    BY <2>1, <2>2, OnlyPersist
<1>. QED
  BY <1>1, <1>2

-----------------------------------------------------------------------------
(* The refinement.                                                         *)

MailInv ==
  /\ TypeOK /\ DeliveryInv /\ CopyInv /\ FrameInv /\ BehindInv /\ StrandInv
  /\ NoAborts /\ FullInv /\ OnceInv
  /\ AbortRows /\ KnownInv /\ EndInv /\ PlainInv /\ OpenInv /\ OrdBatches /\ OrderInv

(* What the mailbox shows of a row.                                        *)
LEMMA BoxIs ==
  ASSUME TypeOK, NEW r \in RowIds
  PROVE  /\ ran[r] \in Nat /\ st[r] \in States
         /\ Box(r) = IF ran[r] > 0 THEN "ran"
                     ELSE IF st[r] = "none" THEN "none"
                     ELSE IF st[r] \in Open THEN "queued"
                     ELSE IF r \in cur THEN "taken" ELSE "gone"
  BY DEF Box, TypeOK, EngineOK, StoreOK

(* A row keeps its box while it keeps its runs, stays open or closed, and  *)
(* leaves or joins the worker's hands only while it is open.               *)
LEMMA BoxStays ==
  ASSUME TypeOK, TypeOK', NEW r \in RowIds, ran'[r] = ran[r],
         st'[r] = "none" <=> st[r] = "none", st'[r] \in Open <=> st[r] \in Open,
         st[r] \in Open \/ (r \in cur' <=> r \in cur)
  PROVE  Box(r)' = Box(r)
  BY BoxIs DEF Box

LEMMA NoneIsLater ==
  ASSUME TypeOK, DeliveryInv, KnownInv, NEW r \in RowIds
  PROVE  st[r] = "none" <=> r > n
  BY InboxAssumption DEF TypeOK, StoreOK, RowIds, DeliveryInv, RowsAccepted, KnownInv

(* What of a row an ordinary step leaves alone.                            *)
LEMMA RowStays ==
  ASSUME Queueing, MailInv, MailInv', [Next]_vars, ~\E t \in Threads : Persist(t),
         ~Consume, ~DropInbox, NEW r \in RowIds
  PROVE  /\ st'[r] = "none" <=> st[r] = "none"
         /\ st'[r] \in Open <=> st[r] \in Open
<1>1. n' = n
  BY OnlyPersist
<1>2. st'[r] = "none" <=> st[r] = "none"
  <2>1. st[r] = "none" <=> r > n
    BY NoneIsLater DEF MailInv
  <2>2. n' \in Nat /\ RowIds \subseteq Nat
    BY InboxAssumption DEF MailInv, TypeOK, StoreOK, RowIds
  <2>3. st'[r] = "none" <=> r > n'
    BY <2>2 DEF MailInv, DeliveryInv, RowsAccepted, KnownInv
  <2>. QED
    BY <1>1, <2>1, <2>3
<1>3. ASSUME st[r] \in Open, st'[r] \notin Open PROVE FALSE
  <2>1. st'[r] = "consumed" /\ st[r] # "consumed"
    BY <1>3, OpenLeaves DEF MailInv, Open
  <2>2. ASSUME NEW t \in Threads, pc[t] = "mark", NEW b \in todo[t], ~AwaitAck(b) PROVE FALSE
    BY <2>2, AlwaysAcked DEF Delivering, MailInv
  <2>3. ~Pull
    BY DEF Pull, Queueing
  <2>. QED
    BY <2>1, <2>2, <2>3, ConsumedBy DEF MailInv
<1>4. st'[r] \in Open => st[r] \in Open
  BY <1>2, ClosedStays DEF MailInv, Open
<1>. QED
  BY <1>2, <1>3, <1>4

(* What a step of the worker, and only that, does to a running row.        *)
LEMMA MailStays ==
  ASSUME Queueing, MailInv, MailInv', [Next]_vars, ~\E t \in Threads : Persist(t),
         ~Consume, ~DropInbox, ~EnterTurn, ~EnterFails, ~Fatal, ~Crash, NEW r \in RowIds
  PROVE  Box(r)' = Box(r)
<1>1. TypeOK /\ TypeOK'
  BY DEF MailInv
<1>2. ran'[r] = ran[r]
  BY RanGrows DEF Pull, Queueing, MailInv
<1>3. st[r] \in Open \/ (r \in cur' <=> r \in cur)
  <2>1. CASE TakePrompt \/ DrainSteers
    <3>1. cur = {} /\ Running' /\ eng' # "enter"
      BY <2>1 DEF TakePrompt, DrainSteers, MailInv, CopyInv, WorkerInv, Running, life
    <3>2. cur' \subseteq HeldRows'
      BY DEF HeldRows
    <3>3. \A q \in cur' : st'[q] \in Open
      BY <3>1, <3>2 DEF MailInv, OpenInv
    <3>4. UNCHANGED st
      BY <2>1 DEF TakePrompt, DrainSteers, store
    <3>. QED
      BY <3>1, <3>3, <3>4
  <2>2. ASSUME NEW t \in Threads, Write(t) PROVE cur' = cur
    BY <2>2 DEF Write, engine
  <2>3. CASE ReadFrame \/ ConsumeFails \/ EndTurn \/ Kill \/ Terminate \/ MarkExited \/ BuildEngine \/ Pull
    BY <2>3 DEF ReadFrame, ConsumeFails, EndTurn, Kill, Terminate, MarkExited, BuildEngine, Pull, engine
  <2>. QED
    BY <2>1, <2>2, <2>3, ChildSteps DEF ChildStep, ChildStill
<1>4. /\ st'[r] = "none" <=> st[r] = "none"
      /\ st'[r] \in Open <=> st[r] \in Open
  BY RowStays
<1>. QED
  BY <1>1, <1>2, <1>3, <1>4, BoxStays

LEMMA AbsentStays ==
  ASSUME EndInv, QuietInv, [Next]_vars, ~Close
  PROVE  status' = "absent" <=> status = "absent"
<1>1. CASE LifeStill
  BY <1>1 DEF LifeStill
<1>2. CASE Fatal \/ Kill \/ Terminate \/ Finish \/ MarkExited
  BY <1>2 DEF Fatal, Kill, Terminate, Finish, MarkExited, EndInv
<1>3. CASE ForgetFrames \/ ReleaseInbox \/ RemoveChild \/ Resume \/ Recover \/ ResumeFails
  BY <1>3 DEF ForgetFrames, ReleaseInbox, RemoveChild, Resume, Recover, ResumeFails
<1>4. CASE BuildEngine \/ Activate \/ Crash \/ DropInbox
  BY <1>4 DEF BuildEngine, Activate, Crash, DropInbox
<1>. QED
  BY <1>1, <1>2, <1>3, <1>4, LifeSteps DEF LifeStep

LEMMA MsgsStay == [Next]_vars /\ ~(\E t \in Threads : Persist(t)) => UNCHANGED msg
  BY OnlyPersist

LEMMA MailAccept ==
  ASSUME MailInv, MailInv', NEW t \in Threads, Persist(t)
  PROVE  \E r \in RowIds : Mail!Accept(r)
<1>0. /\ n \in Nat /\ n' \in 0..MaxRows /\ RowIds \subseteq Nat /\ MaxRows \in Nat /\ TypeOK /\ TypeOK'
      /\ st \in [RowIds -> States] /\ msg \in [RowIds -> Shapes] /\ inbound \in [Threads -> Shapes]
  BY InboxAssumption DEF MailInv, TypeOK, StoreOK, DeliveryOK, RowIds
<1>1. /\ n' = n + 1 /\ st' = [st EXCEPT ![n + 1] = "pending"] /\ msg' = [msg EXCEPT ![n + 1] = inbound[t]]
      /\ cur' = cur /\ ran' = ran /\ status' = status
  BY DEF Persist, engine, life
<1>2. PICK k \in RowIds : k = n + 1
  BY <1>0, <1>1 DEF RowIds
<1>3. \A r \in RowIds : st[r] = "none" <=> r > n
  BY NoneIsLater DEF MailInv
<1>4. st[k] = "none" /\ st'[k] = "pending" /\ k > n
  BY <1>0, <1>1, <1>2, <1>3
<1>5. ran[k] = 0 /\ ran'[k] = 0
  BY <1>0, <1>1, <1>4, BoxIs DEF MailInv, OnceInv
<1>6. Box(k) = "none" /\ Box(k)' = "queued"
  BY <1>4, <1>5 DEF Box, Open
<1>7. \A r \in RowIds \ {k} : Box(r)' = Box(r)
  BY <1>0, <1>1, <1>2 DEF Box
<1>8. \A q \in RowIds : q < k => Box(q) # "none"
  BY <1>0, <1>2, <1>3, BoxIs
<1>9. msg' = [msg EXCEPT ![k] = inbound[t]] /\ inbound[t] \in Shapes
  BY <1>0, <1>1, <1>2
<1>10. [r \in RowIds |-> Box(r)]' = [[r \in RowIds |-> Box(r)] EXCEPT ![k] = "queued"]
  BY <1>6, <1>7
<1>11. Mail!Accept(k)
  BY <1>1, <1>6, <1>8, <1>9, <1>10 DEF Mail!Accept
<1>. QED
  BY <1>11

(* What the boxes of the rows say of the worker.                           *)
LEMMA TakenBoxes ==
  ASSUME MailInv, NEW r \in RowIds
  PROVE  Box(r) = "taken" <=> ran[r] = 0 /\ st[r] \notin Open /\ r \in cur
<1>1. TypeOK
  BY DEF MailInv
<1>2. r \in cur => st[r] # "none"
  BY DEF MailInv, CopyInv, TakenInv, HeldRows
<1>. QED
  BY <1>1, <1>2, BoxIs

LEMMA MailTake ==
  ASSUME Queueing, MailInv, MailInv', Consume
  PROVE  (\E S \in SUBSET RowIds : Mail!Take(S)) \/ \A r \in RowIds : Box(r)' = Box(r)
<1>0. /\ TypeOK /\ TypeOK'
      /\ st \in [RowIds -> States] /\ ran \in [RowIds -> Nat] /\ cur \subseteq RowIds
  <2>1. TypeOK /\ TypeOK'
    BY DEF MailInv
  <2>. QED
    BY <2>1 DEF TypeOK, StoreOK, EngineOK
<1>1. /\ Running /\ eng \in {"ack", "steerack"} /\ st' = MarkConsumed(ack)
      /\ UNCHANGED <<msg, cur, ran, status, wire, pending, steerBuf>>
  BY DEF Consume, life
<1>2. ack = cur
  BY <1>1 DEF MailInv, FullInv, BehindInv, Queueing
<1>3. \A r \in cur : st[r] \in Open /\ ran[r] = 0
  BY <1>0, <1>1 DEF MailInv, OpenInv, OnceInv, HeldRows
<1>4. \A r \in RowIds \ cur : Box(r)' = Box(r)
  BY <1>0, <1>1, <1>2 DEF Box, MarkConsumed
<1>5. \A r \in cur : Box(r) = "queued" /\ Box(r)' = "taken"
  BY <1>0, <1>1, <1>2, <1>3 DEF Box, MarkConsumed, Open
<1>6. status # "absent"
  BY <1>1 DEF MailInv, EndInv, Running
<1>7. \A r \in RowIds : Box(r) # "taken"
  BY <1>0, <1>3, TakenBoxes
<1>8. ASSUME NEW r \in cur, NEW q \in RowIds \ cur, r \in Ord, q \in Ord, Box(q) = "queued"
      PROVE  r < q
  <2>1. q \in OpenRows
    BY <1>0, <1>8, BoxIs DEF OpenRows
  <2>2. Orderly(Ord, wire, pending, steerBuf, cur, OpenRows)
    BY <1>1 DEF MailInv, OrderInv
  <2>. QED
    BY <1>8, <2>1, <2>2 DEF Orderly, Holds
<1>9. ASSUME cur # {} PROVE Mail!Take(cur)
  <2>1. Mail!Taken = {}
    BY <1>7 DEF Mail!Taken
  <2>2. cur \subseteq Mail!Queued
    BY <1>0, <1>5 DEF Mail!Queued
  <2>3. Mail!Ordered = Ord
    BY DEF Mail!Ordered, Ord, Direct
  <2>4. \A r \in cur \cap Mail!Ordered : \A q \in (Mail!Queued \cap Mail!Ordered) \ cur : r < q
    BY <1>8, <2>3 DEF Mail!Queued
  <2>5. [r \in RowIds |-> Box(r)]' = [r \in RowIds |-> IF r \in cur THEN "taken" ELSE [q \in RowIds |-> Box(q)][r]]
    BY <1>4, <1>5
  <2>6. ~(status = "absent") /\ (status = "absent")' = (status = "absent") /\ msg' = msg
    BY <1>1, <1>6
  <2>. QED
    BY <1>9, <2>1, <2>2, <2>4, <2>5, <2>6 DEF Mail!Take
<1>. QED
  BY <1>0, <1>4, <1>9

(* A turn that is entered takes what it acked; one that is not loses it.   *)
LEMMA MailEnter ==
  ASSUME Queueing, MailInv, MailInv', EnterTurn \/ EnterFails
  PROVE  Mail!Run \/ Mail!Lose
<1>0. TypeOK /\ TypeOK'
  BY DEF MailInv
<1>1. /\ cur' = {} /\ UNCHANGED <<st, msg, status>> /\ Running /\ eng = "enter"
  BY DEF EnterTurn, EnterFails, store, life
<1>2. \A r \in RowIds : Box(r) = "taken" <=> r \in cur
  <2>1. \A r \in RowIds : r \in cur => ran[r] = 0 /\ st[r] \notin Open
    BY <1>0, <1>1, BoxIs DEF MailInv, OnceInv, HeldRows, FullInv, Queueing
  <2>. QED
    BY <2>1, TakenBoxes
<1>3. Mail!Taken = {r \in RowIds : r \in cur}
  BY <1>2 DEF Mail!Taken
<1>4. \A r \in RowIds : r \in cur => st[r] # "none" /\ st[r] \notin Open /\ ran[r] = 0
  BY <1>2, TakenBoxes DEF MailInv, CopyInv, TakenInv, HeldRows
<1>5. ASSUME ran' = [r \in RowIds |-> IF r \in cur THEN ran[r] + 1 ELSE ran[r]] PROVE Mail!Run
  <2>1. \A r \in RowIds : r \in cur => Box(r)' = "ran"
    BY <1>0, <1>4, <1>5 DEF Box
  <2>2. \A r \in RowIds : r \notin cur => Box(r)' = Box(r)
    BY <1>0, <1>1, <1>5 DEF Box
  <2>3. [r \in RowIds |-> Box(r)]' = [r \in RowIds |-> IF r \in Mail!Taken THEN "ran" ELSE [q \in RowIds |-> Box(q)][r]]
    BY <1>3, <2>1, <2>2
  <2>. QED
    BY <1>1, <2>3 DEF Mail!Run
<1>6. ASSUME ran' = ran PROVE Mail!Lose
  <2>1. \A r \in RowIds : r \in cur => Box(r)' = "gone"
    BY <1>0, <1>1, <1>4, <1>6 DEF Box
  <2>2. \A r \in RowIds : r \notin cur => Box(r)' = Box(r)
    BY <1>0, <1>1, <1>6 DEF Box
  <2>3. [r \in RowIds |-> Box(r)]' = [r \in RowIds |-> IF r \in Mail!Taken THEN "gone" ELSE [q \in RowIds |-> Box(q)][r]]
    BY <1>3, <2>1, <2>2
  <2>. QED
    BY <1>1, <2>3 DEF Mail!Lose
<1>7. ran' = ran \/ ran' = [r \in RowIds |-> IF r \in cur THEN ran[r] + 1 ELSE ran[r]]
  BY DEF EnterTurn, EnterFails
<1>. QED
  BY <1>5, <1>6, <1>7

(* A turn that panics loses what it acked and had not written.             *)
LEMMA MailFatal ==
  ASSUME Queueing, MailInv, MailInv', Fatal
  PROVE  Mail!Lose
<1>0. TypeOK /\ TypeOK'
  BY DEF MailInv
<1>1. cur' = {} /\ UNCHANGED <<ran, msg, st, status>>
  BY DEF Fatal, store
<1>2. ASSUME NEW r \in RowIds PROVE Box(r)' = IF Box(r) = "taken" THEN "gone" ELSE Box(r)
  BY <1>0, <1>1, BoxIs DEF Box
<1>3. [r \in RowIds |-> Box(r)]' = [r \in RowIds |-> IF r \in Mail!Taken THEN "gone" ELSE [q \in RowIds |-> Box(q)][r]]
  BY <1>2 DEF Mail!Taken
<1>. QED
  BY <1>1, <1>3 DEF Mail!Lose

LEMMA MailCrash ==
  ASSUME Queueing, MailInv, MailInv', [Next]_vars, Crash
  PROVE  Mail!Lose
<1>0. TypeOK /\ TypeOK'
  BY DEF MailInv
<1>1. cur' = {} /\ UNCHANGED <<ran, msg>> /\ status # "absent" /\ status' # "absent"
  BY DEF Crash
<1>3. ASSUME NEW r \in RowIds
      PROVE  /\ st'[r] = "none" <=> st[r] = "none"
             /\ st'[r] \in Open <=> st[r] \in Open
  BY <1>0, <1>3 DEF Crash, ResetSent, Open, TypeOK, StoreOK
<1>4. ASSUME NEW r \in RowIds PROVE Box(r)' = IF Box(r) = "taken" THEN "gone" ELSE Box(r)
  BY <1>0, <1>1, <1>3, BoxIs DEF Box
<1>5. [r \in RowIds |-> Box(r)]' = [r \in RowIds |-> IF r \in Mail!Taken THEN "gone" ELSE [q \in RowIds |-> Box(q)][r]]
  BY <1>4 DEF Mail!Taken
<1>. QED
  BY <1>1, <1>5 DEF Mail!Lose

LEMMA MailDiscard ==
  ASSUME MailInv, MailInv', DropInbox
  PROVE  Mail!Discard
<1>0. TypeOK /\ TypeOK'
  BY DEF MailInv
<1>1. /\ UNCHANGED <<ran, msg, status, cur>> /\ st' = Drop
  BY DEF DropInbox, engine
<1>2. status = "absent" /\ cur = {}
  BY DEF MailInv, EndInv, DropInbox, CopyInv, WorkerInv, QuietInv, Running
<1>3. ASSUME NEW r \in RowIds PROVE Box(r)' = IF Box(r) = "queued" THEN "gone" ELSE Box(r)
  BY <1>0, <1>1, <1>2, BoxIs DEF Box, Drop, Open
<1>4. [r \in RowIds |-> Box(r)]' = [r \in RowIds |-> IF r \in Mail!Queued THEN "gone" ELSE [q \in RowIds |-> Box(q)][r]]
  BY <1>3 DEF Mail!Queued
<1>. QED
  BY <1>1, <1>2, <1>4 DEF Mail!Discard

LEMMA MailStep ==
  ASSUME Queueing, MailInv, MailInv', [Next]_vars
  PROVE  [Mail!Next]_<<msg, [r \in RowIds |-> Box(r)], status = "absent">>
<1>1. ASSUME NEW t \in Threads, Persist(t) PROVE Mail!Next
  BY <1>1, MailAccept DEF Mail!Next
<1>2. CASE EnterTurn \/ EnterFails
  BY <1>2, MailEnter DEF Mail!Next
<1>3. CASE Crash \/ Fatal
  BY <1>3, MailCrash, MailFatal DEF Mail!Next
<1>4. CASE DropInbox
  BY <1>4, MailDiscard DEF Mail!Next
<1>5. CASE Consume
  <2>1. UNCHANGED <<msg, status>>
    BY <1>5 DEF Consume, life
  <2>2. CASE \E S \in SUBSET RowIds : Mail!Take(S)
    BY <2>2 DEF Mail!Next
  <2>3. CASE \A r \in RowIds : Box(r)' = Box(r)
    BY <2>1, <2>3
  <2>. QED
    BY <1>5, <2>2, <2>3, MailTake
<1>6. ASSUME ~\E t \in Threads : Persist(t), ~EnterTurn, ~EnterFails, ~Crash, ~Fatal, ~DropInbox, ~Consume
      PROVE  Mail!Next \/ UNCHANGED <<msg, [r \in RowIds |-> Box(r)], status = "absent">>
  <2>1. \A r \in RowIds : Box(r)' = Box(r)
    BY <1>6, MailStays
  <2>2. [r \in RowIds |-> Box(r)]' = [r \in RowIds |-> Box(r)]
    BY <2>1
  <2>3. msg' = msg
    BY <1>6, MsgsStay
  <2>4. CASE Close
    <3>1. status # "absent" /\ status' = "absent"
      BY <2>4 DEF Close
    <3>2. Mail!Forget
      BY <2>2, <2>3, <3>1 DEF Mail!Forget
    <3>. QED
      BY <3>2 DEF Mail!Next
  <2>5. CASE ~Close
    <3>1. status' = "absent" <=> status = "absent"
      BY <2>5, AbsentStays DEF MailInv, CopyInv
    <3>2. (status = "absent")' = (status = "absent")
      BY <3>1
    <3>. QED
      BY <2>2, <2>3, <3>2
  <2>. QED
    BY <2>4, <2>5
<1>. QED
  BY <1>1, <1>2, <1>3, <1>4, <1>5, <1>6

LEMMA MailInit == Queueing /\ Init => Mail!Init
<1>. SUFFICES ASSUME Queueing, Init PROVE Mail!Init
  OBVIOUS
<1>1. /\ msg = [r \in RowIds |-> NoMsg] /\ status = "live"
      /\ st = [r \in RowIds |-> "none"] /\ ran = [r \in RowIds |-> 0]
  BY DEF Init, Queueing
<1>2. msg \in [RowIds -> Shapes]
  BY <1>1 DEF Shapes
<1>3. \A r \in RowIds : Box(r) = "none"
  BY <1>1 DEF Box
<1>. QED
  BY <1>1, <1>2, <1>3 DEF Mail!Init

LEMMA InitMailInv ==
  ASSUME Queueing, Init
  PROVE  AbortRows /\ KnownInv /\ EndInv /\ PlainInv /\ OpenInv /\ OrdBatches /\ OrderInv
<1>1. /\ n = 0 /\ wire = <<>> /\ pending = <<>> /\ steerBuf = <<>> /\ cur = {} /\ eng = "idle"
      /\ phase \in {"up", "building"} /\ status = "live" /\ xpc = "none" /\ \A t \in Threads : pc[t] = "off"
  BY DEF Init, Queueing
<1>2. phase = "up"
  BY DEF Init, Queueing, Undisturbed
<1>3. KnownInv
  BY <1>1 DEF KnownInv, RowIds
<1>4. HeldRows = {} /\ Carried = {}
  BY <1>1, EmptyQueue DEF HeldRows, Carried, Waiting, Entries
<1>5. OrderInv
  BY <1>1, OrderlyEmpty DEF OrderInv
<1>6. AbortRows /\ OrdBatches
  BY <1>1 DEF AbortRows, OrdBatches, Delivering
<1>. QED
  BY <1>1, <1>2, <1>3, <1>4, <1>5, <1>6 DEF EndInv, PlainInv, OpenInv

(* The inductive invariant of the refinement: one copy of each row and     *)
(* where it is, the frames that name it (inbox_wiring.go, sentFrames), what *)
(* the worker's ack leaves open, and the order of direct prompts along the *)
(* channel, the turn queue and the worker (engine.go).                     *)
THEOREM MailInvHeld == ASSUME Queueing PROVE Spec => []MailInv
<1>1. Undisturbed /\ "store" \notin Adverse /\ (Kind = "claude" => "crash" \notin Adverse)
  BY DEF Queueing, Undisturbed
<1>2. Init => AbortRows /\ KnownInv /\ EndInv /\ PlainInv /\ OpenInv /\ OrdBatches /\ OrderInv
  BY InitMailInv
<1>3. CopyInv' => ApartInv'
  BY DEF CopyInv
<1>4. /\ TypeOK /\ DeliveryInv /\ CopyInv /\ CopyInv' /\ FrameInv /\ BehindInv /\ StrandInv
      /\ ScriptInv /\ ScriptInv' /\ NoAborts /\ FullInv /\ OnceInv /\ [Next]_vars
      => (NoAborts /\ FullInv /\ OnceInv)'
  BY <1>1, <1>3, NoAbortsKept, FullKept, OnceKept
<1>5. TypeOK /\ DeliveryInv /\ ScriptInv /\ [Next]_vars => ScriptInv'
  BY ScriptKept
<1>6. /\ TypeOK /\ DeliveryInv /\ DeliveryInv' /\ CopyInv /\ CopyInv' /\ BehindInv /\ StrandInv /\ FullInv
      /\ AbortRows /\ KnownInv /\ EndInv /\ PlainInv /\ OpenInv /\ OrdBatches /\ OrderInv /\ [Next]_vars
      => (AbortRows /\ KnownInv /\ EndInv /\ PlainInv /\ OpenInv /\ OrdBatches /\ OrderInv)'
  <2>. SUFFICES ASSUME TypeOK, DeliveryInv, DeliveryInv', CopyInv, CopyInv', BehindInv, StrandInv, FullInv,
                       AbortRows, KnownInv, EndInv, PlainInv, OpenInv, OrdBatches, OrderInv, [Next]_vars
                PROVE  (AbortRows /\ KnownInv /\ EndInv /\ PlainInv /\ OpenInv /\ OrdBatches /\ OrderInv)'
    OBVIOUS
  <2>1. QuietInv /\ ApartInv'
    BY <1>3 DEF CopyInv
  <2>2. AbortRows' /\ KnownInv' /\ EndInv' /\ PlainInv'
    BY <2>1, AbortRowsKept, KnownKept, EndKept, PlainKept
  <2>3. OpenInv' /\ OrdBatches'
    BY <2>1, OpenKept, OrdBatchesKept
  <2>4. OrderInv'
    BY OrderKept
  <2>. QED
    BY <2>2, <2>3, <2>4
<1>. QED
  BY <1>1, <1>2, <1>4, <1>5, <1>6, InitOnce, TypeCorrect, DeliveryHeld, CopyHeld, FramesHeld, BehindHeld,
     StrandHeld, PTL DEF Spec, MailInv

(* The durable inbox of a fundi child keeps the promise of Mailbox:        *)
(* whatever exits, is resumed, crashes or is closed (pkg/inbox/queue.go,   *)
(* cmd/rafikid/inbox_wiring.go, pkg/fundi/engine.go), every accepted       *)
(* message is taken by one turn, once, direct prompts in the order they    *)
(* were accepted, and is lost only by a close or when its turn is cut down *)
(* between its ack and its first write.                                    *)
THEOREM InboxIsMailbox == ASSUME Queueing PROVE Spec => ImplementsMailbox
<1>1. Init => Mail!Init
  BY MailInit
<1>2. MailInv /\ MailInv' /\ [Next]_vars => [Mail!Next]_<<msg, [r \in RowIds |-> Box(r)], status = "absent">>
  BY MailStep
<1>. QED
  BY <1>1, <1>2, MailInvHeld, PTL DEF Spec, ImplementsMailbox, Mail!MailboxSpec

=============================================================================

---------------------------- MODULE NdtRingProofs ----------------------------
(***************************************************************************)
(* Proofs about NdtRing, for every queue depth and every set of events:    *)
(* the ring's statics keep their types, the two sides never touch the same *)
(* slot, and the ring implements the bounded FIFO of NdtQueue.             *)
(***************************************************************************)
EXTENDS NdtRing, TLAPS, SequenceTheorems

-----------------------------------------------------------------------------
(* Arithmetic of the ring.                                                 *)

\* The masked increment steps through the slots and wraps at the end.
LEMMA WrapValue ==
  ASSUME NEW i \in Slots
  PROVE  /\ Wrap(i) \in Slots
         /\ Wrap(i) = IF i = QDepth - 1 THEN 0 ELSE i + 1
<1>1. CASE i = QDepth - 1
  BY <1>1, QDepthAssumption DEF Wrap, Slots
<1>2. CASE i # QDepth - 1
  BY <1>2, QDepthAssumption DEF Wrap, Slots
<1>3. QED
  BY <1>1, <1>2

\* Distinct slots have distinct successors.
LEMMA WrapInjective ==
  ASSUME NEW i \in Slots, NEW j \in Slots, i # j
  PROVE  Wrap(i) # Wrap(j)
BY WrapValue, QDepthAssumption DEF Slots

\* The counter of drops stays within its width.
LEMMA DropValue ==
  ASSUME NEW n \in 0 .. DropMod - 1
  PROVE  (n + 1) % DropMod \in 0 .. DropMod - 1
BY DropModAssumption

-----------------------------------------------------------------------------
(* Type correctness.                                                       *)

\* The statics of ndt_sm.c and the locals of ndt_sm_post() and q_pop() keep
\* their types; in particular both indices stay inside s_queue.
THEOREM TypeCorrect == Spec => []TypeOK
<1>1. Init => TypeOK
  BY QDepthAssumption, DropModAssumption DEF Init, TypeOK, Slots
<1>2. TypeOK /\ [Next]_vars => TypeOK'
  <2> SUFFICES ASSUME TypeOK, [Next]_vars PROVE TypeOK'
    OBVIOUS
  <2> USE DEF TypeOK, shared, producer, consumer
  <2>1. CASE PostEnter
    BY <2>1, WrapValue DEF PostEnter
  <2>2. CASE PostFull
    BY <2>2, DropValue DEF PostFull
  <2>3. CASE PostRoom
    BY <2>3 DEF PostRoom
  <2>4. CASE PostId
    BY <2>4 DEF PostId, Event
  <2>5. CASE PostArg
    BY <2>5 DEF PostArg, Event
  <2>6. CASE PostPublish
    BY <2>6 DEF PostPublish
  <2>7. CASE PopEnter
    BY <2>7 DEF PopEnter
  <2>8. CASE PopEmpty
    BY <2>8 DEF PopEmpty
  <2>9. CASE PopSome
    BY <2>9 DEF PopSome
  <2>10. CASE PopId
    BY <2>10 DEF PopId, Event
  <2>11. CASE PopArg
    BY <2>11 DEF PopArg, Event
  <2>12. CASE PopAdvance
    BY <2>12, WrapValue DEF PopAdvance
  <2>13. CASE UNCHANGED vars
    BY <2>13 DEF vars
  <2>14. QED
    BY <2>1, <2>2, <2>3, <2>4, <2>5, <2>6, <2>7, <2>8, <2>9, <2>10, <2>11,
       <2>12, <2>13 DEF Next, ndt_sm_post, q_pop
<1>3. QED
  BY <1>1, <1>2, PTL DEF Spec

-----------------------------------------------------------------------------
(* The inductive invariant and what it excludes.                           *)

\* Init establishes RingInv and every step preserves it.
THEOREM RingInvariant == Spec => []RingInv
<1>1. Init => RingInv
  BY DEF Init, RingInv
<1>2. TypeOK /\ RingInv /\ [Next]_vars => RingInv'
  <2> SUFFICES ASSUME TypeOK, RingInv, [Next]_vars PROVE RingInv'
    OBVIOUS
  <2> USE DEF RingInv, shared, producer, consumer
  <2>1. CASE PostEnter
    BY <2>1 DEF PostEnter
  <2>2. CASE PostFull
    BY <2>2 DEF PostFull
  <2>3. CASE PostRoom
    BY <2>3 DEF PostRoom
  <2>4. CASE PostId
    BY <2>4 DEF PostId, TypeOK, Event
  <2>5. CASE PostArg
    BY <2>5 DEF PostArg, TypeOK, Event
  <2>6. CASE PostPublish
    BY <2>6 DEF PostPublish
  <2>7. CASE PopEnter
    BY <2>7 DEF PopEnter
  <2>8. CASE PopEmpty
    BY <2>8 DEF PopEmpty
  <2>9. CASE PopSome
    BY <2>9 DEF PopSome
  <2>10. CASE PopId
    BY <2>10 DEF PopId, TypeOK, Event
  <2>11. CASE PopArg
    BY <2>11 DEF PopArg, TypeOK, Event
  <2>12. CASE PopAdvance
    <3>1. p_pc \in {"id", "arg", "publish"} => p_next # s_tail'
      BY <2>12, WrapInjective DEF PopAdvance, TypeOK
    <3>2. QED
      BY <2>12, <3>1 DEF PopAdvance
  <2>13. CASE UNCHANGED vars
    BY <2>13 DEF vars
  <2>14. QED
    BY <2>1, <2>2, <2>3, <2>4, <2>5, <2>6, <2>7, <2>8, <2>9, <2>10, <2>11,
       <2>12, <2>13 DEF Next, ndt_sm_post, q_pop
<1>3. QED
  BY <1>1, <1>2, TypeCorrect, PTL DEF Spec

\* ndt_sm_post() never fills the slot q_pop() is copying out.
THEOREM NoRace == Spec => []NoSlotRace
<1>1. RingInv => NoSlotRace
  BY DEF RingInv, NoSlotRace
<1>2. QED
  BY <1>1, RingInvariant, PTL

-----------------------------------------------------------------------------
(* The ring implements the bounded FIFO.                                   *)

\* The number of pending slots between a tail and a head.
Distance(t, h) == IF t <= h THEN h - t ELSE h + QDepth - t

\* How the distance follows the indices: it grows by one with the head, shrinks
\* by one with the tail, and is QDEPTH - 1 when the head is just behind the
\* tail.
LEMMA IndexStep ==
  ASSUME NEW t \in Slots, NEW h \in Slots
  PROVE  /\ Wrap(h) # t => /\ Distance(t, h) < QDepth - 1
                           /\ Distance(t, Wrap(h)) = Distance(t, h) + 1
         /\ Wrap(h) = t => Distance(t, h) = QDepth - 1
         /\ t # h => /\ Distance(t, h) > 0
                    /\ Distance(Wrap(t), h) = Distance(t, h) - 1
<1>1. t \in 0 .. QDepth - 1 /\ h \in 0 .. QDepth - 1 /\ QDepth \in Nat \ {0}
  BY QDepthAssumption DEF Slots
<1>2. /\ Wrap(h) = IF h = QDepth - 1 THEN 0 ELSE h + 1
      /\ Wrap(t) = IF t = QDepth - 1 THEN 0 ELSE t + 1
  BY WrapValue
<1>3. QED
  BY <1>1, <1>2 DEF Distance

\* The abstract queue is a sequence of at most QDEPTH - 1 events, and the slot
\* at s_head, the one ndt_sm_post() fills, is not part of it.
LEMMA ContentsType ==
  ASSUME TypeOK
  PROVE  /\ Pending \in 0 .. QDepth - 1
         /\ \A i \in 1 .. Pending : SlotAt(i) \in Slots /\ SlotAt(i) # s_head
         /\ Contents \in Seq(Event)
         /\ Len(Contents) = Pending
<1>1. Pending \in 0 .. QDepth - 1
  BY QDepthAssumption DEF TypeOK, Pending, Slots
<1>2. \A i \in 1 .. Pending : SlotAt(i) \in Slots /\ SlotAt(i) # s_head
  BY QDepthAssumption DEF TypeOK, Pending, SlotAt, Slots
<1>3. Contents \in [1 .. Pending -> Event]
  BY <1>2 DEF Contents, TypeOK
<1>4. Contents \in Seq(Event)
  BY <1>1, <1>3 DEF Seq
<1>5. Len(Contents) = Pending
  BY <1>1, <1>3, <1>4, LenProperties
<1>6. QED
  BY <1>1, <1>2, <1>4, <1>5

\* A step that moves neither index and writes no pending slot leaves the
\* abstract queue alone.
LEMMA ContentsUnchanged ==
  ASSUME TypeOK, s_head' = s_head, s_tail' = s_tail,
         \A j \in Slots : j # s_head => s_queue'[j] = s_queue[j]
  PROVE  Contents' = Contents
<1>1. Pending' = Pending /\ \A i \in 1 .. Pending : SlotAt(i)' = SlotAt(i)
  BY DEF Pending, SlotAt
<1>2. \A i \in 1 .. Pending : s_queue'[SlotAt(i)] = s_queue[SlotAt(i)]
  BY ContentsType
<1>3. QED
  BY <1>1, <1>2 DEF Contents

\* Publishing s_head appends the event being posted.
LEMMA PublishAccepts ==
  ASSUME TypeOK, RingInv, PostPublish
  PROVE  Queue!Accept(p_ev)
<1> USE QDepthAssumption DEF PostPublish, consumer
<1>1. s_head' = Wrap(s_head) /\ Wrap(s_head) # s_tail /\ p_head = s_head
  BY DEF RingInv
<1>2. Pending < QDepth - 1 /\ Pending' = Pending + 1
  BY <1>1, IndexStep DEF TypeOK, Pending, Distance
<1>3. SlotAt(Pending + 1) = s_head
  BY DEF TypeOK, SlotAt, Pending, Slots
<1>4. s_queue[s_head] = p_ev
  BY <1>1 DEF RingInv, TypeOK, Event
<1>5. \A i \in 1 .. Pending' : SlotAt(i)' = SlotAt(i)
  BY DEF SlotAt
<1>6. Contents' = [i \in 1 .. Pending + 1 |-> s_queue[SlotAt(i)]]
  BY <1>2, <1>5 DEF Contents
<1>7. Append(Contents, p_ev) = [i \in 1 .. Pending + 1 |-> s_queue[SlotAt(i)]]
  <2>1. Append(Contents, p_ev) \in [1 .. Pending + 1 -> Event]
    BY ContentsType, AppendProperties, LenProperties DEF TypeOK
  <2>2. \A i \in 1 .. Pending : Append(Contents, p_ev)[i] = s_queue[SlotAt(i)]
    BY ContentsType, AppendProperties DEF TypeOK, Contents
  <2>3. Append(Contents, p_ev)[Pending + 1] = s_queue[SlotAt(Pending + 1)]
    BY <1>3, <1>4, ContentsType, AppendProperties DEF TypeOK
  <2>4. \A i \in 1 .. Pending + 1 : i \in 1 .. Pending \/ i = Pending + 1
    BY ContentsType
  <2>5. QED
    BY <2>1, <2>2, <2>3, <2>4
<1>8. Len(Contents) < QDepth - 1
  BY <1>2, ContentsType
<1>9. QED
  BY <1>6, <1>7, <1>8 DEF Queue!Accept

\* Advancing s_tail takes the oldest event, the one q_pop() has copied.
LEMMA AdvancePops ==
  ASSUME TypeOK, RingInv, PopAdvance
  PROVE  Queue!Pop
<1> USE QDepthAssumption DEF PopAdvance, producer
<1>1. s_tail' = Wrap(s_tail) /\ s_tail # s_head /\ c_tail = s_tail
  BY DEF RingInv
<1>2. Pending > 0 /\ Pending' = Pending - 1
  BY <1>1, IndexStep DEF TypeOK, Pending, Distance
<1>3. SlotAt(1) = s_tail
  BY DEF TypeOK, SlotAt, Slots
<1>4. s_queue[s_tail] = c_out
  BY <1>1 DEF RingInv, TypeOK, Event
<1>5. Contents # << >> /\ Head(Contents) = c_out
  <2>1. Contents # << >>
    BY <1>2, ContentsType
  <2>2. Contents[1] = c_out
    BY <1>2, <1>3, <1>4, ContentsType DEF Contents
  <2>3. QED
    BY <2>1, <2>2, ContentsType
<1>6. \A i \in 1 .. Pending - 1 : SlotAt(i)' = SlotAt(i + 1)
  <2>1. s_tail \in 0 .. QDepth - 1 /\ Pending \in 0 .. QDepth - 1
    BY ContentsType DEF TypeOK, Slots
  <2>2. s_tail' = IF s_tail = QDepth - 1 THEN 0 ELSE s_tail + 1
    BY <1>1, <2>1, WrapValue DEF Slots
  <2>3. QED
    BY <2>1, <2>2 DEF SlotAt
<1>7. Contents' = [i \in 1 .. Pending - 1 |-> s_queue[SlotAt(i + 1)]]
  BY <1>2, <1>6 DEF Contents
<1>8. Tail(Contents) = [i \in 1 .. Pending - 1 |-> s_queue[SlotAt(i + 1)]]
  <2>1. Tail(Contents) \in [1 .. Pending - 1 -> Event]
    BY <1>5, ContentsType, HeadTailProperties, LenProperties
  <2>2. \A i \in 1 .. Pending - 1 : Tail(Contents)[i] = Contents[i + 1]
    BY <1>5, ContentsType, HeadTailProperties
  <2>3. \A i \in 1 .. Pending - 1 : Contents[i + 1] = s_queue[SlotAt(i + 1)]
    BY ContentsType DEF Contents
  <2>4. QED
    BY <2>1, <2>2, <2>3
<1>9. QED
  BY <1>5, <1>7, <1>8 DEF Queue!Pop

\* A post that finds no room is a drop of the abstract queue: the ring is full
\* exactly when QDEPTH - 1 events are pending.
LEMMA FullDrops ==
  ASSUME TypeOK, RingInv, PostFull
  PROVE  Queue!Drop
<1> USE QDepthAssumption DEF PostFull, consumer
<1>1. Wrap(s_head) = s_tail
  BY DEF RingInv
<1>2. Pending = QDepth - 1
  BY <1>1, IndexStep DEF TypeOK, Pending, Distance
<1>3. Contents' = Contents
  BY ContentsUnchanged
<1>4. QED
  BY <1>2, <1>3, ContentsType DEF Queue!Drop

\* Every run of the ring is a run of the bounded FIFO: events come out whole,
\* in the order they were posted, and only a full queue drops one.
THEOREM RingImplementsQueue == Spec => ImplementsQueue
<1>1. Init => Queue!Init
  BY QDepthAssumption DEF Init, Queue!Init, Queue!Event, Event, Contents, Pending
<1>2. TypeOK /\ RingInv /\ [Next]_vars => [Queue!Next]_Queue!vars
  <2> SUFFICES ASSUME TypeOK, RingInv, [Next]_vars
               PROVE  Queue!Next \/ UNCHANGED Queue!vars
    OBVIOUS
  <2> USE DEF shared, producer, consumer
  <2>1. CASE PostPublish
    BY <2>1, PublishAccepts DEF Queue!Next, Queue!Event, Event, TypeOK
  <2>2. CASE PopAdvance
    BY <2>2, AdvancePops DEF Queue!Next
  <2>3. CASE PostFull
    BY <2>3, FullDrops DEF Queue!Next
  <2>4. CASE PostId \/ PostArg
    <3>1. \A j \in Slots : j # s_head => s_queue'[j] = s_queue[j]
      BY <2>4 DEF PostId, PostArg, RingInv, TypeOK
    <3>2. Contents' = Contents
      BY <2>4, <3>1, ContentsUnchanged DEF PostId, PostArg
    <3>3. QED
      BY <2>4, <3>2 DEF PostId, PostArg, Queue!vars
  <2>5. CASE \/ PostEnter \/ PostRoom \/ PopEnter \/ PopEmpty \/ PopSome
             \/ PopId \/ PopArg \/ UNCHANGED vars
    <3>1. UNCHANGED <<s_queue, s_head, s_tail, s_dropped, taken>>
      BY <2>5 DEF PostEnter, PostRoom, PopEnter, PopEmpty, PopSome, PopId,
                  PopArg, vars
    <3>2. Contents' = Contents
      BY <3>1, ContentsUnchanged
    <3>3. QED
      BY <3>1, <3>2 DEF Queue!vars
  <2>6. QED
    BY <2>1, <2>2, <2>3, <2>4, <2>5 DEF Next, ndt_sm_post, q_pop
<1>3. QED
  BY <1>1, <1>2, TypeCorrect, RingInvariant, PTL
     DEF Spec, ImplementsQueue, Queue!Spec

=============================================================================

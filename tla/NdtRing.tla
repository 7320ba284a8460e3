------------------------------- MODULE NdtRing -------------------------------
(***************************************************************************)
(* The event ring of ndt_sm.c: s_queue, s_head, s_tail, s_dropped, with    *)
(* ndt_sm_post() on the producer (interrupt) side and q_pop() on the       *)
(* consumer (main loop) side.                                              *)
(*                                                                         *)
(* Every access to shared memory is a step of its own and the two sides    *)
(* interleave freely, in program order (the project is built with -Ooff).  *)
(* On the board the producer is an interrupt handler, which runs to its    *)
(* end once started; the free interleaving is the stronger statement that  *)
(* the file comment makes ("no critical section is needed on either        *)
(* side"), and it contains the behaviours of the board.                    *)
(***************************************************************************)
EXTENDS Naturals, Sequences

CONSTANTS
  Ids,       \* event ids
  Args,      \* event arguments
  QDepth,    \* NDT_EVENT_QUEUE_DEPTH
  DropMod    \* the modulus of s_dropped (2^16 in the code)

\* The code also insists on a power of two, which makes "& QMASK" the
\* remainder by QDEPTH; nothing below needs more than a positive depth.
ASSUME QDepthAssumption == QDepth \in Nat \ {0}
ASSUME DropModAssumption == DropMod \in Nat \ {0}

VARIABLES
  s_queue, s_head, s_tail, s_dropped,  \* the statics of ndt_sm.c
  p_pc, p_head, p_next, p_ev,          \* ndt_sm_post(): control and locals
  c_pc, c_tail, c_out,                 \* q_pop(): control and locals
  taken                                \* what q_pop() last gave its caller

shared   == <<s_queue, s_head, s_tail, s_dropped>>
producer == <<p_pc, p_head, p_next, p_ev>>
consumer == <<c_pc, c_tail, c_out, taken>>
vars     == <<shared, producer, consumer>>

Slots == 0 .. QDepth - 1
Event == [id : Ids, arg : Args]

\* A fault for the runs to find: the index is advanced without the mask.
WrapUnmasked(i) == i + 1

\* (i + 1u) & QMASK
Wrap(i) == (i + 1) % QDepth

\* ndt_sm_init() empties the ring; the slots hold whatever they held.
Init ==
  /\ s_queue \in [Slots -> Event]
  /\ s_head = 0 /\ s_tail = 0 /\ s_dropped = 0
  /\ p_pc = "idle" /\ p_head = 0 /\ p_next = 0 /\ p_ev \in Event
  /\ c_pc = "idle" /\ c_tail = 0 /\ c_out \in Event
  /\ taken \in Event

-----------------------------------------------------------------------------
(* ndt_sm_post(id, arg)                                                    *)

PostEnter ==
  /\ p_pc = "idle"
  /\ \E e \in Event : p_ev' = e
  /\ p_head' = s_head
  /\ p_next' = Wrap(s_head)
  /\ p_pc' = "check"
  /\ UNCHANGED <<shared, consumer>>

PostFull ==
  /\ p_pc = "check"
  /\ p_next = s_tail
  /\ s_dropped' = (s_dropped + 1) % DropMod
  /\ p_pc' = "idle"
  /\ UNCHANGED <<s_queue, s_head, s_tail, p_head, p_next, p_ev, consumer>>

\* Faults: the test for a full ring is missing, or s_head is published before
\* the slot is written.
PostRoomUnchecked ==
  /\ p_pc = "check"
  /\ p_pc' = "id"
  /\ UNCHANGED <<shared, p_head, p_next, p_ev, consumer>>

PostRoomPublishFirst ==
  /\ p_pc = "check"
  /\ p_next # s_tail
  /\ s_head' = p_next
  /\ p_pc' = "id"
  /\ UNCHANGED <<s_queue, s_tail, s_dropped, p_head, p_next, p_ev, consumer>>

PostRoom ==
  /\ p_pc = "check"
  /\ p_next # s_tail
  /\ p_pc' = "id"
  /\ UNCHANGED <<shared, p_head, p_next, p_ev, consumer>>

PostId ==
  /\ p_pc = "id"
  /\ s_queue' = [s_queue EXCEPT ![p_head].id = p_ev.id]
  /\ p_pc' = "arg"
  /\ UNCHANGED <<s_head, s_tail, s_dropped, p_head, p_next, p_ev, consumer>>

PostArg ==
  /\ p_pc = "arg"
  /\ s_queue' = [s_queue EXCEPT ![p_head].arg = p_ev.arg]
  /\ p_pc' = "publish"
  /\ UNCHANGED <<s_head, s_tail, s_dropped, p_head, p_next, p_ev, consumer>>

PostPublish ==
  /\ p_pc = "publish"
  /\ s_head' = p_next
  /\ p_pc' = "idle"
  /\ UNCHANGED <<s_queue, s_tail, s_dropped, p_head, p_next, p_ev, consumer>>

-----------------------------------------------------------------------------
(* q_pop(&ev)                                                              *)

PopEnter ==
  /\ c_pc = "idle"
  /\ c_tail' = s_tail
  /\ c_pc' = "check"
  /\ UNCHANGED <<shared, producer, c_out, taken>>

PopEmpty ==
  /\ c_pc = "check"
  /\ c_tail = s_head
  /\ c_pc' = "idle"
  /\ UNCHANGED <<shared, producer, c_tail, c_out, taken>>

PopSome ==
  /\ c_pc = "check"
  /\ c_tail # s_head
  /\ c_pc' = "id"
  /\ UNCHANGED <<shared, producer, c_tail, c_out, taken>>

PopId ==
  /\ c_pc = "id"
  /\ c_out' = [c_out EXCEPT !.id = s_queue[c_tail].id]
  /\ c_pc' = "arg"
  /\ UNCHANGED <<shared, producer, c_tail, taken>>

PopArg ==
  /\ c_pc = "arg"
  /\ c_out' = [c_out EXCEPT !.arg = s_queue[c_tail].arg]
  /\ c_pc' = "advance"
  /\ UNCHANGED <<shared, producer, c_tail, taken>>

PopAdvance ==
  /\ c_pc = "advance"
  /\ s_tail' = Wrap(c_tail)
  /\ taken' = c_out
  /\ c_pc' = "idle"
  /\ UNCHANGED <<s_queue, s_head, s_dropped, producer, c_tail, c_out>>

-----------------------------------------------------------------------------

ndt_sm_post ==
  PostEnter \/ PostFull \/ PostRoom \/ PostId \/ PostArg \/ PostPublish

q_pop == PopEnter \/ PopEmpty \/ PopSome \/ PopId \/ PopArg \/ PopAdvance

Next == ndt_sm_post \/ q_pop

Spec == Init /\ [][Next]_vars

-----------------------------------------------------------------------------
(* The abstract queue the ring stands for: the slots from s_tail up to, and *)
(* not including, s_head.                                                   *)

Pending ==
  IF s_tail <= s_head THEN s_head - s_tail ELSE s_head + QDepth - s_tail

SlotAt(i) ==
  IF s_tail + i - 1 < QDepth THEN s_tail + i - 1 ELSE s_tail + i - 1 - QDepth

Contents == [i \in 1 .. Pending |-> s_queue[SlotAt(i)]]

Queue == INSTANCE NdtQueue
  WITH queue <- Contents, dropped <- s_dropped, Capacity <- QDepth - 1

-----------------------------------------------------------------------------

\* Types of the ring's statics and of the locals of its two functions.
TypeOK ==
  /\ s_queue \in [Slots -> Event]
  /\ s_head \in Slots /\ s_tail \in Slots
  /\ s_dropped \in 0 .. DropMod - 1
  /\ p_pc \in {"idle", "check", "id", "arg", "publish"}
  /\ p_head \in Slots /\ p_next \in Slots /\ p_ev \in Event
  /\ c_pc \in {"idle", "check", "id", "arg", "advance"}
  /\ c_tail \in Slots /\ c_out \in Event
  /\ taken \in Event

\* The slot ndt_sm_post() is filling is never the slot q_pop() is copying out:
\* the reason ndt_sm.c gives for having no critical section.
NoSlotRace ==
  p_pc \in {"id", "arg", "publish"} /\ c_pc \in {"id", "arg", "advance"}
    => p_head # c_tail

\* What each side's locals say about the statics between two steps: the slot
\* ndt_sm_post() reserved is still the free one in front of s_head, the slot
\* q_pop() reads is still the oldest pending one and nobody overwrites it, and
\* what has been copied so far is what was meant to be copied.  NoSlotRace and
\* ImplementsQueue rest on it.
RingInv ==
  /\ p_pc # "idle" => p_head = s_head /\ p_next = Wrap(s_head)
  /\ p_pc \in {"id", "arg", "publish"} => p_next # s_tail
  /\ p_pc \in {"arg", "publish"} => s_queue[p_head].id = p_ev.id
  /\ p_pc = "publish" => s_queue[p_head].arg = p_ev.arg
  /\ c_pc # "idle" => c_tail = s_tail
  /\ c_pc \in {"id", "arg", "advance"} => c_tail # s_head
  /\ c_pc \in {"arg", "advance"} => c_out.id = s_queue[c_tail].id
  /\ c_pc = "advance" => c_out.arg = s_queue[c_tail].arg

\* The ring is a bounded FIFO: what q_pop() returns is the oldest event posted
\* and not dropped, with its own argument, and an event is dropped only when
\* QDEPTH - 1 are pending, at every interleaving of the two sides.
ImplementsQueue == Queue!Spec
=============================================================================

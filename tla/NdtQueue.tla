------------------------------ MODULE NdtQueue ------------------------------
(***************************************************************************)
(* What ndt_sm.h promises of the event queue between the interrupt side    *)
(* and the main loop: a bounded first-in first-out queue.  Posting never   *)
(* blocks: an event that finds the queue full is dropped and counted.      *)
(* NdtRing is the lock-free ring that implements it.                       *)
(***************************************************************************)
EXTENDS Naturals, Sequences

CONSTANTS
  Ids,       \* event ids (ndt_event_id_t)
  Args,      \* event arguments (uint16_t)
  Capacity,  \* most events pending at once
  DropMod    \* s_dropped is a uint16_t: it counts modulo DropMod

VARIABLES
  queue,     \* the pending events, oldest first
  taken,     \* the event the last successful pop returned
  dropped    \* events dropped because the queue was full

vars == <<queue, taken, dropped>>

Event == [id : Ids, arg : Args]

Init ==
  /\ queue = << >>
  /\ taken \in Event
  /\ dropped = 0

\* ndt_sm_post() with room: the event goes to the end of the queue.
Accept(e) ==
  /\ Len(queue) < Capacity
  /\ queue' = Append(queue, e)
  /\ UNCHANGED <<taken, dropped>>

\* ndt_sm_post() on a full queue: only the counter of drops moves.
Drop ==
  /\ Len(queue) = Capacity
  /\ dropped' = (dropped + 1) % DropMod
  /\ UNCHANGED <<queue, taken>>

\* q_pop() on a non-empty queue: the oldest event is handed over, whole.
Pop ==
  /\ queue # << >>
  /\ taken' = Head(queue)
  /\ queue' = Tail(queue)
  /\ UNCHANGED dropped

Next == (\E e \in Event : Accept(e)) \/ Drop \/ Pop

Spec == Init /\ [][Next]_vars
=============================================================================

------------------------------ MODULE NdtMillis ------------------------------
(***************************************************************************)
(* ndt_millis() of main.c: the 32-bit g_msTicks read on a 16-bit machine   *)
(* while ndt_timer1ISR() may increment it between the two halves.  The     *)
(* function reads the counter twice and again until both reads agree.      *)
(* Which half the compiler reads first is left open.                       *)
(***************************************************************************)
EXTENDS Naturals

CONSTANTS
  HalfMod,   \* the modulus of a half (2^16)
  MaxTicks   \* bound: ticks of the timer during one turn of the loop

\* A turn of the loop takes a fraction of a microsecond, a tick a millisecond:
\* what the theorems of NdtMillisProofs assume.
HalfAssumption ==
  /\ HalfMod \in Nat /\ MaxTicks \in Nat
  /\ HalfMod > 1 /\ MaxTicks < HalfMod

VARIABLES
  lowFirst,      \* the low half is read before the high half
  lo, hi,        \* the halves of g_msTicks
  pc,            \* the half that is read next, "compare" or "idle"
  a_lo, a_hi,    \* the locals a and b
  b_lo, b_hi,
  ret,           \* what the last call returned
  ticks,         \* history: ticks in this turn
  held           \* history: the values g_msTicks has had in this turn

counter == <<lo, hi>>
a       == <<a_lo, a_hi>>
b       == <<b_lo, b_hi>>
vars    == <<lowFirst, counter, pc, a, b, ret, ticks, held>>

Half == 0 .. HalfMod - 1

Init ==
  /\ lowFirst \in BOOLEAN
  /\ lo = 0 /\ hi = 0
  /\ pc = "idle"
  /\ a_lo = 0 /\ a_hi = 0 /\ b_lo = 0 /\ b_hi = 0
  /\ ret = <<0, 0>>
  /\ ticks = 0 /\ held = {counter}

\* ndt_timer1ISR()
Tick ==
  /\ ticks < MaxTicks
  /\ ticks' = ticks + 1
  /\ lo' = IF lo + 1 = HalfMod THEN 0 ELSE lo + 1
  /\ hi' = IF lo + 1 < HalfMod THEN hi ELSE IF hi + 1 = HalfMod THEN 0 ELSE hi + 1
  /\ held' = held \cup {counter'}
  /\ UNCHANGED <<lowFirst, pc, a, b, ret>>

\* A turn of the loop begins.
Turn == ticks' = 0 /\ held' = {counter} /\ pc' = "a1"

Call ==
  /\ pc = "idle"
  /\ Turn
  /\ UNCHANGED <<lowFirst, counter, a, b, ret>>

ReadA(p, low, q) ==
  /\ pc = p /\ pc' = q
  /\ IF low THEN a_lo' = lo /\ UNCHANGED a_hi ELSE a_hi' = hi /\ UNCHANGED a_lo
  /\ UNCHANGED <<lowFirst, counter, b, ret, ticks, held>>

ReadB(p, low, q) ==
  /\ pc = p /\ pc' = q
  /\ IF low THEN b_lo' = lo /\ UNCHANGED b_hi ELSE b_hi' = hi /\ UNCHANGED b_lo
  /\ UNCHANGED <<lowFirst, counter, a, ret, ticks, held>>

\* A fault: only the high halves are compared.
CompareHigh ==
  /\ pc = "compare"
  /\ IF a_hi = b_hi THEN pc' = "idle" /\ ret' = a /\ UNCHANGED <<ticks, held>>
                    ELSE Turn /\ UNCHANGED ret
  /\ UNCHANGED <<lowFirst, counter, a, b>>

Compare ==
  /\ pc = "compare"
  /\ IF a = b THEN pc' = "idle" /\ ret' = a /\ UNCHANGED <<ticks, held>>
              ELSE Turn /\ UNCHANGED ret
  /\ UNCHANGED <<lowFirst, counter, a, b>>

ndt_millis ==
  \/ Call
  \/ ReadA("a1", lowFirst, "a2") \/ ReadA("a2", ~lowFirst, "b1")
  \/ ReadB("b1", lowFirst, "b2") \/ ReadB("b2", ~lowFirst, "compare")
  \/ Compare

Next == Tick \/ ndt_millis

Spec == Init /\ [][Next]_vars

-----------------------------------------------------------------------------

\* ndt_millis() never returns a torn value: what it returns is a value that
\* g_msTicks had during the last turn of the loop.
NeverTorn == [][pc = "compare" /\ pc' = "idle" => ret' \in held]_vars
=============================================================================

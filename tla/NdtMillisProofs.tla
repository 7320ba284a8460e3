--------------------------- MODULE NdtMillisProofs ---------------------------
(***************************************************************************)
(* Proof that ndt_millis() never returns a torn value, for every width of  *)
(* the halves, whichever half the compiler reads first and wherever the    *)
(* ticks fall.                                                             *)
(*                                                                         *)
(* The argument: fewer ticks than HalfMod fit into a turn, so the low half *)
(* cannot come back to a value it has left.  Two equal reads of the low    *)
(* half mean that no tick fell between them; the high half that was read   *)
(* in between therefore belongs to the same value of the counter.          *)
(***************************************************************************)
EXTENDS NdtMillis, TLAPS

\* The ticks since the low half was a_lo.
Since == IF lo >= a_lo THEN lo - a_lo ELSE lo + HalfMod - a_lo

Pcs == {"idle", "a1", "a2", "b1", "b2", "compare"}

TypeOK ==
  /\ lowFirst \in BOOLEAN
  /\ lo \in Half /\ hi \in Half
  /\ a_lo \in Half /\ a_hi \in Half /\ b_lo \in Half /\ b_hi \in Half
  /\ pc \in Pcs
  /\ ticks \in 0 .. MaxTicks

\* a_lo was read in this turn.
LowRead == pc \in {"b1", "b2", "compare"} \/ (lowFirst /\ pc = "a2")

\* What the halves read so far say about the values the counter has had.
MillisInv ==
  /\ counter \in held
  /\ LowRead => Since <= ticks
  /\ lowFirst /\ pc = "b1" => (lo = a_lo => a = counter)
  /\ lowFirst /\ pc \in {"b2", "compare"} => (b_lo = a_lo => a \in held)
  /\ ~lowFirst /\ pc = "b2" => (lo = a_lo => b_hi = hi)
  /\ ~lowFirst /\ pc = "compare" => (b_lo = a_lo => <<a_lo, b_hi>> \in held)

-----------------------------------------------------------------------------

\* A tick moves the low half to another value, and one further from a_lo.
LEMMA TickMoves ==
  ASSUME HalfAssumption, TypeOK, Tick
  PROVE  /\ TypeOK'
         /\ counter' \in held' /\ held \subseteq held'
         /\ Since <= ticks => Since' <= ticks' /\ lo' # a_lo'
<1> USE DEF HalfAssumption, TypeOK, Tick, Half
<1>1. TypeOK'
  BY DEF a, b
<1>2. counter' \in held' /\ held \subseteq held'
  OBVIOUS
<1>3. ASSUME Since <= ticks PROVE Since' <= ticks' /\ lo' # a_lo'
  <2>1. a_lo' = a_lo /\ ticks' = ticks + 1
    BY DEF a
  <2>2. CASE lo + 1 = HalfMod
    BY <1>3, <2>1, <2>2 DEF Since
  <2>3. CASE lo + 1 # HalfMod
    BY <1>3, <2>1, <2>3 DEF Since
  <2>4. QED
    BY <2>2, <2>3
<1>4. QED
  BY <1>1, <1>2, <1>3

-----------------------------------------------------------------------------

\* Types of the counter's halves, the locals and the tick count.
THEOREM MillisTypes == ASSUME HalfAssumption PROVE Spec => []TypeOK
<1>1. Init => TypeOK
  BY HalfAssumption DEF HalfAssumption, Init, TypeOK, Half, Pcs
<1>2. TypeOK /\ [Next]_vars => TypeOK'
  <2> SUFFICES ASSUME TypeOK, [Next]_vars PROVE TypeOK'
    OBVIOUS
  <2>1. CASE Tick
    BY <2>1, HalfAssumption, TickMoves
  <2>2. CASE Call
    BY <2>2, HalfAssumption
       DEF Call, Turn, TypeOK, HalfAssumption, Pcs, counter, a, b
  <2>3. CASE Compare
    BY <2>3, HalfAssumption
       DEF Compare, Turn, TypeOK, HalfAssumption, Pcs, counter, a, b
  <2>4. ASSUME NEW p, NEW low, NEW q \in Pcs, ReadA(p, low, q) PROVE TypeOK'
    BY <2>4 DEF ReadA, TypeOK, counter, b
  <2>5. ASSUME NEW p, NEW low, NEW q \in Pcs, ReadB(p, low, q) PROVE TypeOK'
    BY <2>5 DEF ReadB, TypeOK, counter, a
  <2>6. CASE UNCHANGED vars
    BY <2>6 DEF vars, TypeOK, counter, a, b
  <2>7. QED
    BY <2>1, <2>2, <2>3, <2>4, <2>5, <2>6 DEF Next, ndt_millis, Pcs
<1>3. QED
  BY <1>1, <1>2, PTL DEF Spec

\* The inductive invariant of the two-read loop.
THEOREM MillisInvariant == ASSUME HalfAssumption PROVE Spec => []MillisInv
<1>1. Init => MillisInv
  BY DEF Init, MillisInv, LowRead
<1>2. TypeOK /\ MillisInv /\ [Next]_vars => MillisInv'
  <2> SUFFICES ASSUME TypeOK, MillisInv, [Next]_vars PROVE MillisInv'
    OBVIOUS
  <2> USE DEF MillisInv, LowRead
  <2>1. CASE Tick
    <3>1. UNCHANGED <<lowFirst, pc, a_lo, a_hi, b_lo, b_hi>>
      BY <2>1 DEF Tick, a, b
    <3>2. QED
      BY <2>1, <3>1, HalfAssumption, TickMoves DEF a
  <2>2. CASE Call
    BY <2>2 DEF Call, Turn, counter
  <2>3. CASE Compare
    BY <2>3 DEF Compare, Turn, counter
  <2>4. CASE ReadA("a1", lowFirst, "a2")
    <3>1. lowFirst => Since' = 0
      BY <2>4, HalfAssumption
         DEF ReadA, TypeOK, HalfAssumption, Half, Since, counter
    <3>2. QED
      BY <2>4, <3>1 DEF ReadA, TypeOK, counter
  <2>5. CASE ReadA("a2", ~lowFirst, "b1")
    <3>1. CASE lowFirst
      BY <2>5, <3>1 DEF ReadA, counter, a, Since
    <3>2. CASE ~lowFirst
      <4>1. Since' = 0
        BY <2>5, <3>2, HalfAssumption
           DEF ReadA, TypeOK, HalfAssumption, Half, Since, counter
      <4>2. QED
        BY <2>5, <3>2, <4>1 DEF ReadA, TypeOK, counter
    <3>3. QED
      BY <3>1, <3>2
  <2>6. CASE ReadB("b1", lowFirst, "b2")
    <3>1. UNCHANGED <<lowFirst, lo, hi, a_lo, a_hi, ticks, held>> /\ pc = "b1" /\ pc' = "b2"
      BY <2>6 DEF ReadB, counter, a
    <3>2. CASE lowFirst
      BY <2>6, <3>1, <3>2 DEF ReadB, counter, a, Since
    <3>3. CASE ~lowFirst
      BY <2>6, <3>1, <3>3 DEF ReadB, counter, a, Since
    <3>4. QED
      BY <3>2, <3>3
  <2>7. CASE ReadB("b2", ~lowFirst, "compare")
    <3>1. UNCHANGED <<lowFirst, lo, hi, a_lo, a_hi, ticks, held>> /\ pc = "b2" /\ pc' = "compare"
      BY <2>7 DEF ReadB, counter, a
    <3>2. CASE lowFirst
      BY <2>7, <3>1, <3>2 DEF ReadB, counter, a, Since
    <3>3. CASE ~lowFirst
      BY <2>7, <3>1, <3>3 DEF ReadB, counter, a, Since
    <3>4. QED
      BY <3>2, <3>3
  <2>8. CASE UNCHANGED vars
    BY <2>8 DEF vars, counter, a, b, Since
  <2>9. QED
    BY <2>1, <2>2, <2>3, <2>4, <2>5, <2>6, <2>7, <2>8 DEF Next, ndt_millis
<1>3. QED
  BY <1>1, <1>2, MillisTypes, HalfAssumption, PTL DEF Spec

\* What ndt_millis() returns is a value g_msTicks had during the last turn of
\* its loop, for every width of the halves and both orders of reading them.
THEOREM MillisNeverTorn == ASSUME HalfAssumption PROVE Spec => NeverTorn
<1>1. MillisInv /\ TypeOK /\ [Next]_vars
        => [pc = "compare" /\ pc' = "idle" => ret' \in held]_vars
  <2> SUFFICES ASSUME MillisInv, TypeOK, [Next]_vars,
                      pc = "compare", pc' = "idle"
               PROVE  ret' \in held \/ UNCHANGED vars
    OBVIOUS
  <2>1. CASE Compare
    <3>1. a = b /\ ret' = a
      BY <2>1 DEF Compare, Turn
    <3>2. a_lo = b_lo /\ a_hi = b_hi
      BY <3>1 DEF a, b
    <3>3. a \in held
      BY <3>2 DEF MillisInv, TypeOK, a
    <3>4. QED
      BY <3>1, <3>3
  <2>2. CASE ~Compare
    BY <2>2 DEF Next, Tick, ndt_millis, Call, ReadA, ReadB, vars
  <2>3. QED
    BY <2>1, <2>2
<1>2. QED
  BY <1>1, MillisInvariant, MillisTypes, HalfAssumption, PTL DEF Spec, NeverTorn
=============================================================================

------------------------------ MODULE NdtBurst ------------------------------
(***************************************************************************)
(* NDT_burst() of main.c: the tone burst on the DINP and DINN pins of all  *)
(* eight channels, one register write per step, paced by burst_wait() on   *)
(* CPU Timer 0.  A write changes all the pins of its mask at once; the     *)
(* pins of a side are spread over two GPIO ports.  NdtScan goes on from    *)
(* where the burst returns.                                                *)
(*                                                                         *)
(* Time runs on between any two steps.  The code between two waits, and    *)
(* the interrupts that stretch it or a wait, cost at most MaxJitter ticks  *)
(* per half-cycle.                                                         *)
(***************************************************************************)
EXTENDS Integers, Sequences

CONSTANTS
  Cycles,      \* the burst length: g_burstCycles
  HalfTicksA,  \* BURST_HALF_TICKS_A
  HalfTicksB,  \* BURST_HALF_TICKS_B
  TimerMod,    \* the modulus of the down-counter (2^32)
  MaxJitter,   \* bound: ticks lost per half-cycle
  StartTimers, \* bound: CPU Timer 0 when the burst starts
  StartLevels  \* the level the drive pins may have when the burst starts

ASSUME BurstAssumption ==
  /\ Cycles \in Nat \ {0} /\ TimerMod \in Nat
  /\ HalfTicksA \in Nat /\ HalfTicksB \in Nat /\ MaxJitter \in Nat
  /\ MaxJitter <= HalfTicksA /\ MaxJitter <= HalfTicksB
  /\ HalfTicksA + MaxJitter < TimerMod /\ HalfTicksB + MaxJitter < TimerMod
ASSUME StartAssumption ==
  StartTimers \subseteq 0 .. TimerMod - 1 /\ StartLevels \subseteq {"low", "high"}

\* The drive pins of channels 1 to 8, by GPIO number.
DinP == <<6, 15, 10, 5, 1, 40, 41, 7>>
DinN == <<14, 34, 9, 45, 0, 23, 22, 44>>

\* The masks of main.c as sets of GPIO numbers; port B starts at GPIO32.
GPIOA_A_MASK == {1, 5, 6, 7, 10, 15}
GPIOA_B_MASK == {0, 9, 14, 22, 23}
GPIOB_A_MASK == {40, 41}

\* A fault: a pin is missing from a mask.
GPIOB_B_MASK_Short == {34, 44}

GPIOB_B_MASK == {34, 44, 45}

AllPins == {DinP[ch] : ch \in 1 .. 8} \cup {DinN[ch] : ch \in 1 .. 8}

PIN_MODE0 == 39
PIN_MODE1 == 42

VARIABLES
  high,    \* the pins of the pulser that are 1
  i,       \* the loop counter
  todo,    \* the register writes of this half-cycle still to be made
  half,    \* "pos", "neg", "end" or "done": what they belong to
  t_ref,   \* burst_wait()'s reference
  timer,   \* CPU Timer 0
  clock,   \* history: ticks since the burst began
  nominal, \* history: the tick at which this half-cycle should end
  lost     \* history: ticks lost in this half-cycle

history == <<clock, nominal, lost>>
vars    == <<high, i, todo, half, t_ref, timer, history>>

Clear(pins) == [pins |-> pins, to |-> FALSE]
Set(pins)   == [pins |-> pins, to |-> TRUE]

\* A fault: set, then clear.
SwapSetFirst(h) ==
  CASE h = "pos" -> <<Set(GPIOA_A_MASK), Set(GPIOB_A_MASK),
                      Clear(GPIOA_B_MASK), Clear(GPIOB_B_MASK)>>
    [] h = "neg" -> <<Set(GPIOA_B_MASK), Set(GPIOB_B_MASK),
                      Clear(GPIOA_A_MASK), Clear(GPIOB_A_MASK)>>

\* The four writes at the beginning of a half-cycle: clear, then set.
Swap(h) ==
  CASE h = "pos" -> <<Clear(GPIOA_B_MASK), Clear(GPIOB_B_MASK),
                      Set(GPIOA_A_MASK), Set(GPIOB_A_MASK)>>
    [] h = "neg" -> <<Clear(GPIOA_A_MASK), Clear(GPIOB_A_MASK),
                      Set(GPIOA_B_MASK), Set(GPIOB_B_MASK)>>

\* A fault: port B is forgotten at the end.
FinalClearA == <<Clear(GPIOA_A_MASK \cup GPIOA_B_MASK)>>

\* GPIOA_ALL_MASK, GPIOB_ALL_MASK
FinalClear == <<Clear(GPIOA_A_MASK \cup GPIOA_B_MASK),
                Clear(GPIOB_A_MASK \cup GPIOB_B_MASK)>>

Ticks(h) == IF h = "pos" THEN HalfTicksA ELSE HalfTicksB

Init ==
  /\ \E level \in StartLevels :
       high = {PIN_MODE0} \cup (IF level = "high" THEN AllPins ELSE {})
  /\ i = 0 /\ half = "pos" /\ todo = Swap("pos")
  /\ timer \in StartTimers
  /\ t_ref = timer
  /\ clock = 0 /\ nominal = HalfTicksA /\ lost = 0

-----------------------------------------------------------------------------

\* A register write.
Write ==
  /\ todo # << >>
  /\ high' = IF Head(todo).to THEN high \cup Head(todo).pins
                              ELSE high \ Head(todo).pins
  /\ todo' = Tail(todo)
  /\ UNCHANGED <<i, half, t_ref, timer, history>>

\* The condition on which burst_wait() returns.
WaitOver == (t_ref - timer) % TimerMod >= Ticks(half)

\* A fault: the reference is taken anew from the timer.
NextRefNow == timer

NextRef == (t_ref - Ticks(half)) % TimerMod

\* burst_wait() returns and the next half-cycle begins, or the end.
burst_wait ==
  /\ half \in {"pos", "neg"} /\ todo = << >> /\ WaitOver
  /\ t_ref' = NextRef
  /\ half' = IF half = "pos" THEN "neg" ELSE IF i + 1 < Cycles THEN "pos" ELSE "end"
  /\ i' = IF half = "neg" THEN i + 1 ELSE i
  /\ todo' = IF half' = "end" THEN FinalClear ELSE Swap(half')
  /\ nominal' = IF half' = "end" THEN nominal ELSE nominal + Ticks(half')
  /\ lost' = 0
  /\ UNCHANGED <<high, timer, clock>>

Return ==
  /\ half = "end" /\ todo = << >>
  /\ half' = "done"
  /\ UNCHANGED <<high, i, todo, t_ref, timer, history>>

\* A tick of CPU Timer 0.  It is lost unless burst_wait() is waiting for it.
Tick ==
  /\ half \in {"pos", "neg"}
  /\ lost' = IF todo = << >> /\ ~WaitOver THEN lost ELSE lost + 1
  /\ lost' <= MaxJitter
  /\ timer' = (timer - 1) % TimerMod
  /\ clock' = clock + 1
  /\ UNCHANGED <<high, i, todo, half, t_ref, nominal>>

Burst == Write \/ burst_wait \/ Return

-----------------------------------------------------------------------------

\* What the MAX14808 drives on a channel in octal three-level mode; with equal
\* MODE pins its outputs are off.
Output(ch) ==
  CASE (PIN_MODE0 \in high) = (PIN_MODE1 \in high) -> "off"
    [] OTHER ->
       CASE DinP[ch] \notin high /\ DinN[ch] \notin high -> "zero"
         [] DinP[ch] \in high    /\ DinN[ch] \notin high -> "pos"
         [] DinP[ch] \notin high /\ DinN[ch] \in high    -> "neg"
         [] DinP[ch] \in high    /\ DinN[ch] \in high    -> "damp"

\* While a half-cycle lasts all eight channels drive its polarity, and after the
\* burst no output drives the transducer: the masks and the pin table of main.c
\* agree, and the way into the receive mode and out of it adds no pulse.
InPhase ==
  /\ half \in {"pos", "neg"} /\ todo = << >> =>
       \A ch \in 1 .. 8 : Output(ch) = half
  /\ half = "done" => \A ch \in 1 .. 8 : Output(ch) \notin {"pos", "neg"}

\* No channel ever goes from one polarity to the other in one write, or through
\* both pins high: there is no P/N shoot-through at any of the writes.
NoShootThrough ==
  [][\A ch \in 1 .. 8 :
       Output(ch) \in {"pos", "neg"} => Output(ch)' \in {Output(ch), "zero"}]_vars

\* "loop-overhead jitter never accumulates across the burst": each half-cycle
\* ends at its nominal tick, or later by what that half-cycle itself lost.
DriftFree ==
  [][half' # half /\ half \in {"pos", "neg"} =>
         nominal <= clock /\ clock <= nominal + MaxJitter]_vars
=============================================================================

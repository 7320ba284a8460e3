---------------------------- MODULE NdtScanProofs ----------------------------
(***************************************************************************)
(* Proofs about a scan, from the burst to the return to octal mode, for    *)
(* any burst length, half-cycles, record length, pacer period and sweep,   *)
(* and for any delays of the code within the bounds.                       *)
(***************************************************************************)
EXTENDS NdtScan, SequenceTheorems, TLAPS

\* Part of a sequence of register writes is left to be made.
Suffix(left, all) ==
  /\ left \in Seq([pins : SUBSET Nat, to : BOOLEAN]) /\ Len(left) <= Len(all)
  /\ \A j \in 1 .. Len(left) : left[j] = all[Len(all) - Len(left) + j]

Halves == {"pos", "neg"}

Other(h) == IF h = "pos" THEN "neg" ELSE "pos"

\* The pins of one polarity on each port, and on both.
PortA(h) == IF h = "pos" THEN GPIOA_A_MASK ELSE GPIOA_B_MASK
PortB(h) == IF h = "pos" THEN GPIOB_A_MASK ELSE GPIOB_B_MASK
Pins(h)  == PortA(h) \cup PortB(h)

\* The pins that write j of SwitchesOn sets.
Switched(j) == IF j % 2 = 1 THEN DinP[(j + 1) \div 2] ELSE DinN[j \div 2]

High(pins) == pins \subseteq high
Low(pins)  == pins \cap high = {}

\* In a half-cycle: the other polarity goes low port by port, then its own high.
HalfCycleInv ==
  half \in Halves =>
    /\ Suffix(todo, Swap(half))
    /\ Len(todo) <= 3 => Low(PortA(Other(half)))
    /\ Len(todo) <= 2 => Low(PortB(Other(half)))
    /\ Len(todo) <= 1 => High(PortA(half))
    /\ Len(todo) = 0  => High(PortB(half))

\* At the end of the burst.
EndInv ==
  half = "end" =>
    /\ Suffix(todo, FinalClear)
    /\ Low(Pins("pos"))
    /\ Len(todo) <= 1 => Low(PortA("neg"))
    /\ Len(todo) = 0  => Low(PortB("neg"))

\* From the burst to the closed receive switches.
ReceiveInv ==
  /\ half = "done" /\ at = "burst" => todo = << >> /\ Low(AllPins)
  /\ at = "receive" =>
       /\ Suffix(todo, ReceiveMode)
       /\ Len(todo) >= 17 => Low(AllPins) /\ PIN_MODE1 \notin high
       /\ Len(todo) <= 16 =>
            /\ PIN_MODE1 \in high
            /\ \A j \in 1 .. 16 - Len(todo) : Switched(j) \in high

\* The way back to octal mode.
RestoreMode == SetMode(TRUE, FALSE)

Captures == {"clear_A", "clear_C", "arm", "poll_A", "poll_C", "ack_A", "ack_C",
             "read", "freeze"}

\* While the record is captured, and back to octal mode.
RestoreInv ==
  /\ at \in Captures \cup {"restore", "done"} => High(AllPins)
  /\ at \in Captures => todo = << >> /\ PIN_MODE1 \in high
  /\ at = "restore" =>
       /\ Suffix(todo, RestoreMode)
       /\ Len(todo) >= 1 => PIN_MODE1 \in high
  /\ at = "done" => todo = << >>

PinsInv ==
  /\ half \in Halves \cup {"end", "done"}
  /\ at \in {"burst", "receive", "restore", "done"} \cup Captures
  /\ at # "burst" => half = "done"
  /\ PIN_MODE0 \in high
  /\ at = "burst" => PIN_MODE1 \notin high
  /\ HalfCycleInv /\ EndInv /\ ReceiveInv /\ RestoreInv

\* The ticks since burst_wait() last returned.
Elapsed == clock - (nominal - Ticks(half))

\* The timer and the nominal ends of the half-cycles.
TimesInv ==
  /\ {timer, t_ref, t_fire} \subseteq 0 .. TimerMod - 1
  /\ i \in Nat /\ clock \in Nat /\ nominal \in Nat
  /\ lost \in 0 .. MaxJitter
  /\ at = "burst" /\ half \in Halves =>
       /\ i < Cycles
       /\ nominal = i * (HalfTicksA + HalfTicksB) + HalfTicksA
                    + (IF half = "neg" THEN HalfTicksB ELSE 0)
       /\ (t_ref - timer) % TimerMod = Elapsed
       /\ 0 <= Elapsed /\ Elapsed <= Ticks(half) + lost
  /\ at \in {"burst", "receive"} =>
       /\ (t_fire - timer) % TimerMod = clock
       /\ half \notin Halves =>
            clock <= Cycles * (HalfTicksA + HalfTicksB) + MaxJitter + lost
  /\ at = "burst" /\ half \notin Halves => lost = 0

\* The sweeps whose results are all there.
Swept == IF conv = Sweep THEN sweep ELSE sweep - 1

\* The SOC of result j of a row.
SocOf(j) == ((j - 1) % Socs) + 1

InRow == \/ at \in {"poll_C", "ack_A", "ack_C", "read"}
         \/ at = "poll_A" /\ flagA

\* Before the capture nothing moves; then the counter times the sweep.
PacerInv ==
  /\ sweep \in Nat /\ armed \in Nat /\ body \in Nat
  /\ conv \in 0 .. Sweep /\ ctr \in 0 .. Period - 1
  /\ at \in {"burst", "receive", "clear_A", "clear_C", "arm"} =>
       conv = Sweep /\ body = 0 /\ wave = << >>
  /\ running = TRUE /\ conv < Sweep => ctr = conv

FlagsInv ==
  /\ flagA \in BOOLEAN /\ flagC \in BOOLEAN /\ running \in BOOLEAN /\ tight \in BOOLEAN
  /\ at \in {"burst", "receive", "clear_A", "clear_C", "arm"} =>
       running = FALSE /\ tight = TRUE
  /\ at \in {"clear_C", "arm"} => flagA = FALSE
  /\ at = "arm" => flagC = FALSE

\* The row under way and the rows stored.
RowsInv ==
  /\ row \in Seq(Int) /\ Len(row) < 2 * Socs
  /\ at # "read" => row = << >>
  /\ wave \in Seq(Seq(Int))
  /\ \A n \in 1 .. Len(wave) : Len(wave[n]) = 2 * Socs

\* What has been swept when a row begins, and when it is read.
FreshInv ==
  /\ at = "poll_A" => Swept >= armed + Len(wave)
  /\ InRow => Swept >= armed + Len(wave) + 1
  /\ at \in {"ack_C", "read"} /\ flagA => Swept >= armed + Len(wave) + 2
  /\ \A j \in 1 .. Len(row) : row[j] >= armed + Len(wave) + 1
  /\ \A n \in 1 .. Len(wave), j \in 1 .. 2 * Socs : wave[n][j] >= armed + n

\* No result runs back.
OrderInv ==
  /\ \A j \in 1 .. Len(row) : row[j] <= Result(SocOf(j))
  /\ wave # << >> =>
       /\ \A j \in 1 .. 2 * Socs : wave[Len(wave)][j] <= Result(SocOf(j))
       /\ \A j \in 1 .. Len(row) : wave[Len(wave)][j] <= row[j]
  /\ \A n \in 1 .. Len(wave) - 1, j \in 1 .. 2 * Socs : wave[n][j] <= wave[n + 1][j]

\* As long as every row was stored in time.
TightInv ==
  tight =>
    /\ RowsAreSweeps
    /\ at = "poll_A" /\ ~flagA =>
         /\ ~flagC
         /\ sweep = armed + Len(wave) + (IF conv < Sweep THEN 1 ELSE 0)
    /\ InRow /\ at \in {"poll_A", "poll_C"} => flagC
    /\ InRow /\ body <= Slack =>
         /\ IF Sweep + body < Period
              THEN sweep = armed + Len(wave) + 1 /\ conv = Sweep /\ ctr = Sweep + body
              ELSE sweep = armed + Len(wave) + 2 /\ conv = Sweep + body - Period
         /\ at \in {"ack_C", "read"} => ~flagA
         /\ at = "read" => ~flagC
         /\ \A j \in 1 .. Len(row) : row[j] = armed + Len(wave) + 1

CaptureInv == PacerInv /\ FlagsInv /\ RowsInv /\ FreshInv /\ OrderInv /\ TightInv

-----------------------------------------------------------------------------
(* The pins.                                                               *)

Writes == Seq([pins : SUBSET Nat, to : BOOLEAN])

\* The next write of a sequence, and what is left after it.
LEMMA NextWrite ==
  ASSUME NEW left, NEW all, Suffix(left, all), left # << >>
  PROVE  /\ Len(left) \in 1 .. Len(all)
         /\ Head(left) = all[Len(all) + 1 - Len(left)]
         /\ Suffix(Tail(left), all)
         /\ Len(Tail(left)) = Len(left) - 1
<1>1. Len(left) \in Nat \ {0} /\ Len(Tail(left)) = Len(left) - 1
  BY DEF Suffix
<1>2. \A j \in 1 .. Len(Tail(left)) : Tail(left)[j] = left[j + 1]
  BY DEF Suffix
<1>3. Len(all) \in Int
  OBVIOUS
<1>4. QED
  BY <1>1, <1>2, <1>3 DEF Suffix

\* The writes of a half-cycle.
LEMMA SwapWrites ==
  ASSUME NEW h \in Halves
  PROVE  /\ Swap(h) = <<Clear(PortA(Other(h))), Clear(PortB(Other(h))),
                        Set(PortA(h)), Set(PortB(h))>>
         /\ Suffix(Swap(h), Swap(h)) /\ Len(Swap(h)) = 4
<1>1. Swap(h) = <<Clear(PortA(Other(h))), Clear(PortB(Other(h))),
                  Set(PortA(h)), Set(PortB(h))>>
  BY DEF Halves, Swap, Other, PortA, PortB
<1>2. PortA(h) \in SUBSET Nat /\ PortB(h) \in SUBSET Nat
      /\ PortA(Other(h)) \in SUBSET Nat /\ PortB(Other(h)) \in SUBSET Nat
  BY DEF PortA, PortB, GPIOA_A_MASK, GPIOB_A_MASK, GPIOA_B_MASK, GPIOB_B_MASK
<1>3. Swap(h) \in Writes /\ Len(Swap(h)) = 4
  BY <1>1, <1>2 DEF Clear, Set, Writes
<1>4. QED
  BY <1>1, <1>3 DEF Suffix, Writes

\* The pins of the table are those of the masks, and no other.
LEMMA PinTable ==
  ASSUME NEW ch \in 1 .. 8
  PROVE  /\ DinP[ch] \in Pins("pos") /\ DinN[ch] \in Pins("neg")
         /\ DinP[ch] \in AllPins /\ DinN[ch] \in AllPins
<1>1. ch = 1 \/ ch = 2 \/ ch = 3 \/ ch = 4 \/ ch = 5 \/ ch = 6 \/ ch = 7 \/ ch = 8
  OBVIOUS
<1>2. DinP[ch] \in Pins("pos")
  BY <1>1 DEF DinP, Pins, PortA, PortB, GPIOA_A_MASK, GPIOB_A_MASK
<1>3. DinN[ch] \in Pins("neg")
  BY <1>1 DEF DinN, Pins, PortA, PortB, GPIOA_B_MASK, GPIOB_B_MASK
<1>4. QED
  BY <1>2, <1>3 DEF AllPins

LEMMA MasksDisjoint ==
  /\ Pins("pos") \cap Pins("neg") = {}
  /\ PIN_MODE0 \notin Pins("pos") \cup Pins("neg")
  /\ PIN_MODE1 \notin Pins("pos") \cup Pins("neg")
  /\ PIN_MODE0 # PIN_MODE1
BY DEF Pins, PortA, PortB, GPIOA_A_MASK, GPIOB_A_MASK, GPIOA_B_MASK,
       GPIOB_B_MASK, PIN_MODE0, PIN_MODE1

LEMMA AllPinsAre == AllPins = Pins("pos") \cup Pins("neg")
<1>1. AllPins \subseteq Pins("pos") \cup Pins("neg")
  BY PinTable DEF AllPins
<1>2. Pins("pos") \subseteq AllPins
  <2>1. Pins("pos") = {DinP[1], DinP[2], DinP[3], DinP[4], DinP[5], DinP[6],
                       DinP[7], DinP[8]}
    BY DEF DinP, Pins, PortA, PortB, GPIOA_A_MASK, GPIOB_A_MASK
  <2>2. QED
    BY <2>1 DEF AllPins
<1>3. Pins("neg") \subseteq AllPins
  <2>1. Pins("neg") = {DinN[1], DinN[2], DinN[3], DinN[4], DinN[5], DinN[6],
                       DinN[7], DinN[8]}
    BY DEF DinN, Pins, PortA, PortB, GPIOA_B_MASK, GPIOB_B_MASK
  <2>2. QED
    BY <2>1 DEF AllPins
<1>4. QED
  BY <1>1, <1>2, <1>3

\* The two polarities of a half-cycle, and the MODE pins beside them.
LEMMA OtherPolarity ==
  ASSUME NEW h \in Halves
  PROVE  /\ Other(h) \in Halves /\ Other(Other(h)) = h
         /\ Pins(h) \cap Pins(Other(h)) = {}
         /\ PIN_MODE0 \notin Pins(h) \cup Pins(Other(h))
         /\ PIN_MODE1 \notin Pins(h) \cup Pins(Other(h))
BY MasksDisjoint DEF Halves, Other

\* A write while the burst lasts.
LEMMA BurstWriteKeeps ==
  ASSUME PinsInv, at = "burst", Write, at' = at
  PROVE  PinsInv'
<1> DEFINE n == Len(todo)
<1>0. todo # << >> /\ todo' = Tail(todo) /\ half' = half
  BY DEF Write
<1>1. CASE half \in Halves
  <2>1. /\ Swap(half) = <<Clear(PortA(Other(half))), Clear(PortB(Other(half))),
                          Set(PortA(half)), Set(PortB(half))>>
        /\ Len(Swap(half)) = 4
    BY <1>1, SwapWrites
  <2>2. Suffix(todo, Swap(half))
    BY <1>1 DEF PinsInv, HalfCycleInv
  <2>3. /\ Head(todo) = Swap(half)[4 + 1 - n]
        /\ Suffix(todo', Swap(half))
        /\ Len(todo') = n - 1 /\ n \in 1 .. 4
    BY <1>0, <2>1, <2>2, NextWrite
  <2>4. /\ Low(PortA(Other(half))) \/ n = 4
        /\ Low(PortB(Other(half))) \/ n \in {3, 4}
        /\ High(PortA(half)) \/ n \in {2, 3, 4}
    BY <1>1, <2>3 DEF PinsInv, HalfCycleInv
  <2>5. /\ Low(PortA(Other(half)))'
        /\ n <= 3 => Low(PortB(Other(half)))'
        /\ n <= 2 => High(PortA(half))'
        /\ n = 1 => High(PortB(half))'
        /\ PIN_MODE0 \in high' /\ PIN_MODE1 \notin high'
    <3> DEFINE a == PortA(half)  b == PortB(half)
               c == PortA(Other(half))  d == PortB(Other(half))
    <3>1. /\ a \cap c = {} /\ a \cap d = {} /\ b \cap c = {} /\ b \cap d = {}
          /\ PIN_MODE0 \notin a \cup b \cup c \cup d
          /\ PIN_MODE1 \notin a \cup b \cup c \cup d
      BY <1>1, OtherPolarity DEF Pins
    <3>2. a' = a /\ b' = b /\ c' = c /\ d' = d
      BY <1>0
    <3>3. PIN_MODE0 \in high /\ PIN_MODE1 \notin high
      BY DEF PinsInv
    <3>4. CASE n = 4
      <4>1. high' = high \ c
        BY <1>0, <2>1, <2>3, <3>4 DEF Write, Clear
      <4>2. QED
        BY <3>1, <3>2, <3>3, <3>4, <4>1 DEF Low
    <3>5. CASE n = 3
      <4>1. high' = high \ d
        BY <1>0, <2>1, <2>3, <3>5 DEF Write, Clear
      <4>2. QED
        BY <2>4, <3>1, <3>2, <3>3, <3>5, <4>1 DEF Low
    <3>6. CASE n = 2
      <4>1. high' = high \cup a
        BY <1>0, <2>1, <2>3, <3>6 DEF Write, Set
      <4>2. QED
        BY <2>4, <3>1, <3>2, <3>3, <3>6, <4>1 DEF Low, High
    <3>7. CASE n = 1
      <4>1. high' = high \cup b
        BY <1>0, <2>1, <2>3, <3>7 DEF Write, Set
      <4>2. QED
        BY <2>4, <3>1, <3>2, <3>3, <3>7, <4>1 DEF Low, High
    <3>8. QED
      BY <2>3, <3>4, <3>5, <3>6, <3>7
  <2>6. HalfCycleInv'
    BY <1>0, <2>3, <2>5 DEF HalfCycleInv
  <2>7. half # "end" /\ half # "done"
    BY <1>1 DEF Halves
  <2>8. QED
    BY <1>0, <1>1, <2>5, <2>6, <2>7
       DEF PinsInv, EndInv, ReceiveInv, RestoreInv, Captures
<1>2. CASE half = "end"
  <2>1. FinalClear = <<Clear(PortA("pos") \cup PortA("neg")),
                       Clear(PortB("pos") \cup PortB("neg"))>>
        /\ Len(FinalClear) = 2
    BY DEF FinalClear, PortA, PortB
  <2>2. Suffix(todo, FinalClear) /\ Low(Pins("pos")) /\ (n <= 1 => Low(PortA("neg")))
    BY <1>2 DEF PinsInv, EndInv
  <2>3. /\ Head(todo) = FinalClear[2 + 1 - n]
        /\ Suffix(todo', FinalClear)
        /\ Len(todo') = n - 1 /\ n \in 1 .. 2
    BY <1>0, <2>1, <2>2, NextWrite
  <2>4. high' = high \ (IF n = 2 THEN PortA("pos") \cup PortA("neg")
                                 ELSE PortB("pos") \cup PortB("neg"))
    BY <1>0, <2>1, <2>3 DEF Write, Clear
  <2>5. /\ Low(Pins("pos"))' /\ Low(PortA("neg"))' /\ (n = 1 => Low(PortB("neg"))')
        /\ PIN_MODE0 \in high' /\ PIN_MODE1 \notin high'
    <3>1. PIN_MODE0 \in high /\ PIN_MODE1 \notin high
      BY DEF PinsInv
    <3>2. QED
      BY <2>2, <2>3, <2>4, <3>1, MasksDisjoint DEF Low, Pins
  <2>6. EndInv'
    BY <1>0, <2>3, <2>5 DEF EndInv
  <2>7. QED
    BY <1>0, <1>2, <2>5, <2>6
       DEF PinsInv, HalfCycleInv, ReceiveInv, RestoreInv, Captures, Halves
<1>3. CASE half = "done"
  BY <1>0, <1>3 DEF PinsInv, ReceiveInv
<1>4. QED
  BY <1>1, <1>2, <1>3 DEF PinsInv

\* burst_wait() returns, and the writes of the next half-cycle wait to be made.
LEMMA WaitKeepsPins ==
  ASSUME PinsInv, at = "burst", at' = at, burst_wait
  PROVE  PinsInv'
<1>1. /\ half \in Halves /\ todo = << >> /\ high' = high
      /\ half' \in Halves \cup {"end"}
      /\ half' \in Halves => half' = Other(half) /\ todo' = Swap(half')
      /\ half' = "end" => half = "neg" /\ todo' = FinalClear
  BY DEF burst_wait, Halves, Other
<1>2. Low(Pins(Other(half))) /\ High(Pins(half))
  BY <1>1 DEF PinsInv, HalfCycleInv, Low, High, Pins
<1>3. CASE half' \in Halves
  <2>1. Suffix(todo', Swap(half')) /\ Len(todo') = 4
    BY <1>1, <1>3, SwapWrites
  <2>2. QED
    BY <1>1, <1>3, <2>1
       DEF PinsInv, HalfCycleInv, EndInv, ReceiveInv, RestoreInv, Captures, Halves
<1>4. CASE half' = "end"
  <2>1. Suffix(FinalClear, FinalClear) /\ Len(FinalClear) = 2
    <3>1. GPIOA_A_MASK \cup GPIOA_B_MASK \in SUBSET Nat
          /\ GPIOB_A_MASK \cup GPIOB_B_MASK \in SUBSET Nat
      BY DEF GPIOA_A_MASK, GPIOB_A_MASK, GPIOA_B_MASK, GPIOB_B_MASK
    <3>2. FinalClear \in Writes /\ Len(FinalClear) = 2
      BY <3>1 DEF FinalClear, Clear, Writes
    <3>3. QED
      BY <3>2 DEF Suffix, Writes
  <2>2. Low(Pins("pos"))'
    BY <1>1, <1>2, <1>4 DEF Other, Low
  <2>3. QED
    BY <1>1, <1>4, <2>1, <2>2
       DEF PinsInv, HalfCycleInv, EndInv, ReceiveInv, RestoreInv, Captures, Halves
<1>5. QED
  BY <1>1, <1>3, <1>4

\* The writes of the receive mode.
LEMMA ReceiveWrites ==
  /\ Suffix(ReceiveMode, ReceiveMode) /\ Len(ReceiveMode) = 18
  /\ ReceiveMode[1] = Set({PIN_MODE0}) /\ ReceiveMode[2] = Set({PIN_MODE1})
  /\ \A j \in 1 .. 16 : ReceiveMode[j + 2] = Set({Switched(j)})
<1>1. \A j \in 1 .. 16 : Switched(j) \in Nat
  <2> SUFFICES ASSUME NEW j \in 1 .. 16 PROVE Switched(j) \in Nat
    OBVIOUS
  <2>1. (j % 2 = 1 => (j + 1) \div 2 \in 1 .. 8) /\ (j % 2 # 1 => j \div 2 \in 1 .. 8)
    OBVIOUS
  <2>2. \A ch \in 1 .. 8 : DinP[ch] \in Nat /\ DinN[ch] \in Nat
    BY DEF DinP, DinN
  <2>3. QED
    BY <2>1, <2>2 DEF Switched
<1>2. SwitchesOn = [j \in 1 .. 16 |-> Set({Switched(j)})]
  BY DEF SwitchesOn, Switched
<1>3. SwitchesOn \in Writes /\ Len(SwitchesOn) = 16
  BY <1>1, <1>2 DEF Set, Writes
<1> DEFINE off == SetMode(TRUE, TRUE)
<1>4. off = <<Set({PIN_MODE0}), Set({PIN_MODE1})>> /\ off \in Writes /\ Len(off) = 2
  BY DEF SetMode, Set, Writes, PIN_MODE0, PIN_MODE1
<1>5. ReceiveMode = off \o SwitchesOn
  BY DEF ReceiveMode
<1> HIDE DEF off
<1>6. /\ ReceiveMode \in Writes /\ Len(ReceiveMode) = 18
      /\ \A j \in 1 .. 18 : ReceiveMode[j] = IF j <= 2 THEN off[j]
                                             ELSE SwitchesOn[j - 2]
  <2> DEFINE W == [pins : SUBSET Nat, to : BOOLEAN]
  <2>1. off \in Seq(W) /\ SwitchesOn \in Seq(W) /\ Writes = Seq(W)
    BY <1>3, <1>4 DEF Writes
  <2> HIDE DEF W
  <2>2. /\ off \o SwitchesOn \in Seq(W)
        /\ Len(off \o SwitchesOn) = Len(off) + Len(SwitchesOn)
        /\ \A j \in 1 .. Len(off) + Len(SwitchesOn) :
             (off \o SwitchesOn)[j] = IF j <= Len(off) THEN off[j]
                                      ELSE SwitchesOn[j - Len(off)]
    BY <2>1, ConcatProperties
  <2>3. QED
    BY <1>3, <1>4, <1>5, <2>1, <2>2
<1>7. \A j \in 1 .. 16 : ReceiveMode[j + 2] = SwitchesOn[j]
  BY <1>6
<1>8. ReceiveMode[1] = Set({PIN_MODE0}) /\ ReceiveMode[2] = Set({PIN_MODE1})
  BY <1>4, <1>6
<1>9. QED
  BY <1>2, <1>6, <1>7, <1>8 DEF Suffix, Writes

\* The sixteen writes close the switches of all channels.
LEMMA AllSwitched ==
  ASSUME \A j \in 1 .. 16 : Switched(j) \in high
  PROVE  High(AllPins)
<1>1. ASSUME NEW ch \in 1 .. 8 PROVE DinP[ch] \in high /\ DinN[ch] \in high
  <2>1. Switched(2 * ch - 1) = DinP[ch] /\ Switched(2 * ch) = DinN[ch]
    BY DEF Switched
  <2>2. 2 * ch - 1 \in 1 .. 16 /\ 2 * ch \in 1 .. 16
    OBVIOUS
  <2>3. QED
    BY <2>1, <2>2
<1>2. QED
  BY <1>1 DEF High, AllPins

\* A write of the receive mode, or of the way back.
LEMMA WritePinKeeps ==
  ASSUME PinsInv, WritePin
  PROVE  PinsInv'
<1> DEFINE n == Len(todo)
<1>0. todo # << >> /\ todo' = Tail(todo) /\ half' = half /\ at' = at /\ half = "done"
      /\ at \in {"receive", "restore"}
  BY DEF WritePin, Write, PinsInv
<1>1. CASE at = "receive"
  <2>1. /\ Suffix(todo, ReceiveMode)
        /\ n >= 17 => Low(AllPins) /\ PIN_MODE1 \notin high
        /\ n <= 16 => /\ PIN_MODE1 \in high
                      /\ \A j \in 1 .. 16 - n : Switched(j) \in high
        /\ PIN_MODE0 \in high
    BY <1>1 DEF PinsInv, ReceiveInv
  <2>2. /\ Head(todo) = ReceiveMode[18 + 1 - n]
        /\ Suffix(todo', ReceiveMode)
        /\ Len(todo') = n - 1 /\ n \in 1 .. 18
    BY <1>0, <2>1, ReceiveWrites, NextWrite
  <2>3. /\ PIN_MODE0 \in high'
        /\ n - 1 >= 17 => Low(AllPins)' /\ PIN_MODE1 \notin high'
        /\ n - 1 <= 16 => /\ PIN_MODE1 \in high'
                          /\ \A j \in 1 .. 16 - (n - 1) : Switched(j) \in high'
    <3> HIDE DEF n
    <3>1. CASE n = 18
      <4>1. Head(todo) = Set({PIN_MODE0})
        BY <2>2, <3>1, ReceiveWrites
      <4>2. high' = high
        BY <2>1, <4>1 DEF WritePin, Write, Set
      <4>3. QED
        BY <2>1, <3>1, <4>2 DEF Low
    <3>2. CASE n = 17
      <4>1. Head(todo) = Set({PIN_MODE1})
        BY <2>2, <3>2, ReceiveWrites
      <4>2. high' = high \cup {PIN_MODE1}
        BY <4>1 DEF WritePin, Write, Set
      <4>3. QED
        BY <2>1, <3>2, <4>2
    <3>3. CASE n \in 1 .. 16
      <4>1. Head(todo) = Set({Switched(17 - n)})
        <5>1. 17 - n \in 1 .. 16 /\ 18 + 1 - n = (17 - n) + 2
          BY <3>3
        <5>2. QED
          BY <2>2, <5>1, ReceiveWrites
      <4>2. high' = high \cup {Switched(17 - n)}
        BY <4>1 DEF WritePin, Write, Set
      <4>3. ASSUME NEW j \in 1 .. 16 - (n - 1) PROVE Switched(j) \in high'
        <5>1. j \in 1 .. 16 - n \/ j = 17 - n
          BY <3>3
        <5>2. QED
          BY <2>1, <3>3, <4>2, <5>1
      <4>4. PIN_MODE0 \in high' /\ PIN_MODE1 \in high'
        BY <2>1, <3>3, <4>2
      <4>5. QED
        BY <3>3, <4>3, <4>4
    <3>4. QED
      BY <2>2, <3>1, <3>2, <3>3
  <2>4. ReceiveInv'
    BY <1>0, <1>1, <2>2, <2>3 DEF ReceiveInv
  <2>5. QED
    BY <1>0, <1>1, <2>3, <2>4
       DEF PinsInv, HalfCycleInv, EndInv, RestoreInv, Captures, Halves
<1>2. CASE at = "restore"
  <2>1. /\ Suffix(todo, RestoreMode) /\ High(AllPins)
        /\ n >= 1 => PIN_MODE1 \in high
        /\ PIN_MODE0 \in high
    BY <1>2 DEF PinsInv, RestoreInv
  <2>2. /\ RestoreMode = <<Set({PIN_MODE0}), Clear({PIN_MODE1})>>
        /\ Len(RestoreMode) = 2
    BY DEF RestoreMode, SetMode, Set, Clear
  <2>3. /\ Head(todo) = RestoreMode[2 + 1 - n]
        /\ Suffix(todo', RestoreMode)
        /\ Len(todo') = n - 1 /\ n \in 1 .. 2
    BY <1>0, <2>1, <2>2, NextWrite
  <2>4. PIN_MODE0 \in high' /\ High(AllPins)' /\ (n = 2 => PIN_MODE1 \in high')
    <3> HIDE DEF n
    <3>1. PIN_MODE1 \notin AllPins /\ PIN_MODE0 # PIN_MODE1
      BY AllPinsAre, MasksDisjoint
    <3>2. CASE n = 2
      <4>0. Head(todo) = Set({PIN_MODE0})
        BY <2>2, <2>3, <3>2
      <4>1. high' = high \cup {PIN_MODE0}
        BY <4>0 DEF WritePin, Write, Set
      <4>2. QED
        BY <2>1, <3>2, <4>1 DEF High
    <3>3. CASE n = 1
      <4>0. Head(todo) = Clear({PIN_MODE1})
        BY <2>2, <2>3, <3>3
      <4>1. high' = high \ {PIN_MODE1}
        BY <4>0 DEF WritePin, Write, Clear
      <4>2. QED
        BY <2>1, <3>1, <3>3, <4>1 DEF High
    <3>4. QED
      BY <2>3, <3>2, <3>3
  <2>5. RestoreInv'
    <3>1. Len(todo') >= 1 => PIN_MODE1 \in high'
      <4> HIDE DEF n
      <4>1. QED
        BY <2>3, <2>4
    <3>2. QED
      BY <1>0, <1>2, <2>3, <2>4, <3>1 DEF RestoreInv, Captures
  <2>6. QED
    BY <1>0, <1>2, <2>4, <2>5
       DEF PinsInv, HalfCycleInv, EndInv, ReceiveInv, Captures, Halves
<1>3. QED
  BY <1>0, <1>1, <1>2

\* A move inside the capture writes no pin.
LEMMA CaptureKeepsPins ==
  ASSUME PinsInv, UNCHANGED vars, at \in Captures \ {"freeze"}, at' \in Captures
  PROVE  PinsInv'
BY DEF PinsInv, HalfCycleInv, EndInv, ReceiveInv, RestoreInv, Captures, Halves, vars,
       Low, High, Suffix

LEMMA PinsStep == PinsInv /\ [ScanNext]_scanVars => PinsInv'
<1> SUFFICES ASSUME PinsInv, [ScanNext]_scanVars PROVE PinsInv'
  OBVIOUS
<1>1. ASSUME UNCHANGED <<high, todo, half, at>> PROVE PinsInv'
  BY <1>1 DEF PinsInv, HalfCycleInv, EndInv, ReceiveInv, RestoreInv, Low, High
<1>2. CASE InBurst
  <2>1. at = "burst" /\ at' = at
    BY <1>2 DEF InBurst
  <2>2. CASE Write
    BY <2>1, <2>2, BurstWriteKeeps
  <2>3. CASE burst_wait
    BY <2>1, <2>3, WaitKeepsPins
  <2>4. CASE Return
    <3>1. half = "end" /\ todo = << >> /\ half' = "done" /\ UNCHANGED <<high, todo>>
      BY <2>4 DEF Return
    <3>2. Low(AllPins)
      BY <3>1, AllPinsAre DEF PinsInv, EndInv, Low, Pins
    <3>3. QED
      BY <2>1, <3>1, <3>2
         DEF PinsInv, HalfCycleInv, EndInv, ReceiveInv, RestoreInv, Captures, Halves, Low
  <2>5. CASE Tick
    BY <1>1, <2>1, <2>5 DEF Tick
  <2>6. QED
    BY <1>2, <2>2, <2>3, <2>4, <2>5 DEF InBurst, Burst
<1>3. CASE EnterReceiveMode
  <2>1. /\ half = "done" /\ at = "burst" /\ at' = "receive"
        /\ todo' = ReceiveMode /\ UNCHANGED <<high, half>>
    BY <1>3 DEF EnterReceiveMode, Goto
  <2>2. Low(AllPins) /\ PIN_MODE1 \notin high
    BY <2>1 DEF PinsInv, ReceiveInv
  <2>3. QED
    BY <2>1, <2>2, ReceiveWrites
       DEF PinsInv, HalfCycleInv, EndInv, ReceiveInv, RestoreInv, Captures, Halves, Low
<1>4. CASE WritePin
  BY <1>4, WritePinKeeps
<1>5. CASE Measure
  <2>1. /\ at = "receive" /\ at' = "clear_A" /\ todo = << >>
        /\ UNCHANGED <<high, todo, half>>
    BY <1>5 DEF Measure, Goto, Forget
  <2>2. High(AllPins) /\ PIN_MODE1 \in high
    BY <2>1, AllSwitched DEF PinsInv, ReceiveInv
  <2>3. QED
    BY <2>1, <2>2
       DEF PinsInv, HalfCycleInv, EndInv, ReceiveInv, RestoreInv, Captures, Halves, High
<1>6. CASE NDT_captureRecord
  <2>1. CASE Freeze
    <3>1. /\ at = "freeze" /\ at' = "restore" /\ todo' = RestoreMode
          /\ UNCHANGED <<high, half>>
      BY <2>1 DEF Freeze, Goto, RestoreMode
    <3>2. Suffix(RestoreMode, RestoreMode)
      BY DEF RestoreMode, SetMode, Suffix, PIN_MODE0, PIN_MODE1
    <3>3. QED
      BY <3>1, <3>2
         DEF PinsInv, HalfCycleInv, EndInv, ReceiveInv, RestoreInv, Captures, Halves, High
  <2>2. CASE Spin
    BY <1>1, <2>2 DEF Spin, scanVars, vars
  <2>3. CASE ~Freeze /\ ~Spin
    <3>1. UNCHANGED vars /\ at \in Captures \ {"freeze"} /\ at' \in Captures
      BY <1>6, <2>3
         DEF NDT_captureRecord, Row, Clear_A, Clear_C, Arm, Poll_A, Poll_C, ReadResult,
             Goto, Captures
    <3>2. QED
      BY <3>1, CaptureKeepsPins
  <2>4. QED
    BY <2>1, <2>2, <2>3
<1>7. CASE Restored
  <2>1. at = "restore" /\ at' = "done" /\ todo = << >> /\ UNCHANGED <<high, todo, half>>
    BY <1>7 DEF Restored, Goto, vars
  <2>2. QED
    BY <2>1
       DEF PinsInv, HalfCycleInv, EndInv, ReceiveInv, RestoreInv, Captures, Halves, High
<1>8. CASE ReceiveTick \/ PacerTick \/ Over \/ UNCHANGED scanVars
  BY <1>1, <1>8 DEF ReceiveTick, PacerTick, Over, vars, scanVars
<1>9. QED
  BY <1>2, <1>3, <1>4, <1>5, <1>6, <1>7, <1>8 DEF ScanNext, Scan

LEMMA PinsInit == ScanInit => PinsInv
<1> SUFFICES ASSUME ScanInit PROVE PinsInv
  OBVIOUS
<1>1. at = "burst" /\ half = "pos" /\ todo = Swap("pos")
  BY DEF ScanInit, Init
<1>2. Suffix(Swap("pos"), Swap("pos")) /\ Len(Swap("pos")) = 4
  BY SwapWrites DEF Halves
<1>3. PIN_MODE0 \in high /\ PIN_MODE1 \notin high
  BY AllPinsAre, MasksDisjoint DEF ScanInit, Init
<1>4. QED
  BY <1>1, <1>2, <1>3
     DEF PinsInv, HalfCycleInv, EndInv, ReceiveInv, RestoreInv, Captures, Halves

\* The outputs in octal three-level mode, before and after a step, and with
\* equal MODE pins.
LEMMA OctalOutput ==
  ASSUME NEW ch \in 1 .. 8, PIN_MODE0 \in high, PIN_MODE1 \notin high
  PROVE  Output(ch) = IF DinP[ch] \in high
                      THEN IF DinN[ch] \in high THEN "damp" ELSE "pos"
                      ELSE IF DinN[ch] \in high THEN "neg" ELSE "zero"
BY DEF Output

LEMMA OctalOutputNext ==
  ASSUME NEW ch \in 1 .. 8, PIN_MODE0 \in high', PIN_MODE1 \notin high'
  PROVE  Output(ch)' = IF DinP[ch] \in high'
                       THEN IF DinN[ch] \in high' THEN "damp" ELSE "pos"
                       ELSE IF DinN[ch] \in high' THEN "neg" ELSE "zero"
BY DEF Output

LEMMA OffOutput ==
  ASSUME NEW ch \in 1 .. 8, PIN_MODE0 \in high, PIN_MODE1 \in high
  PROVE  Output(ch) = "off"
BY DEF Output

\* Every output agrees with the half-cycle, and none drives once the burst is
\* done.
LEMMA PinsInPhase == PinsInv => InPhase
<1> SUFFICES ASSUME PinsInv PROVE InPhase
  OBVIOUS
<1>1. ASSUME half \in Halves, todo = << >>, NEW ch \in 1 .. 8
      PROVE  Output(ch) = half
  <2>1. Low(Pins(Other(half))) /\ High(Pins(half))
    BY <1>1 DEF PinsInv, HalfCycleInv, Low, High, Pins
  <2>2. PIN_MODE0 \in high /\ PIN_MODE1 \notin high
    BY <1>1 DEF PinsInv, Halves
  <2>3. half = "pos" => DinP[ch] \in high /\ DinN[ch] \notin high
    BY <2>1, PinTable DEF Low, High, Other
  <2>4. half = "neg" => DinP[ch] \notin high /\ DinN[ch] \in high
    BY <2>1, PinTable DEF Low, High, Other
  <2>5. QED
    BY <1>1, <2>2, <2>3, <2>4, OctalOutput DEF Halves
<1>2. ASSUME half = "done", NEW ch \in 1 .. 8
      PROVE  Output(ch) \notin {"pos", "neg"}
  <2>1. PIN_MODE0 \in high
    BY DEF PinsInv
  <2>2. CASE PIN_MODE1 \in high
    BY <2>1, <2>2, OffOutput
  <2>3. CASE PIN_MODE1 \notin high
    <3>1. DinP[ch] \in high <=> DinN[ch] \in high
      <4>1. CASE Low(AllPins)
        BY <4>1, PinTable DEF Low
      <4>2. CASE High(AllPins)
        BY <4>2, PinTable DEF High
      <4>3. Low(AllPins) \/ High(AllPins)
        <5>1. CASE at = "burst"
          BY <1>2, <5>1 DEF PinsInv, ReceiveInv
        <5>2. CASE at = "receive"
          <6>1. Len(todo) >= 17 \/ Len(todo) <= 16
            <7>1. Suffix(todo, ReceiveMode)
              BY <5>2 DEF PinsInv, ReceiveInv
            <7>2. Len(todo) \in Nat
              BY <7>1 DEF Suffix
            <7>3. QED
              BY <7>2
          <6>2. QED
            BY <2>3, <5>2, <6>1 DEF PinsInv, ReceiveInv
        <5>3. CASE at \notin {"burst", "receive"}
          BY <5>3 DEF PinsInv, RestoreInv
        <5>4. QED
          BY <5>1, <5>2, <5>3
      <4>4. QED
        BY <4>1, <4>2, <4>3
    <3>2. QED
      BY <2>1, <2>3, <3>1, OctalOutput
  <2>4. QED
    BY <2>2, <2>3
<1>3. QED
  BY <1>1, <1>2 DEF InPhase, Halves

\* The channels whose outputs one step may not swap.
SafeSwitch ==
  \A ch \in 1 .. 8 :
    Output(ch) \in {"pos", "neg"} => Output(ch)' \in {Output(ch), "zero"}

\* A write that lowers pins of one polarity while the other is to come, or
\* raises pins of one while those of the other are low.
LEMMA SafeWrite ==
  ASSUME NEW h \in Halves, PIN_MODE0 \in high, PIN_MODE1 \notin high,
         \/ \E low \in SUBSET Pins(Other(h)) : high' = high \ low
         \/ Low(Pins(Other(h))) /\ \E up \in SUBSET Pins(h) : high' = high \cup up
  PROVE  SafeSwitch
<1> SUFFICES ASSUME NEW ch \in 1 .. 8, Output(ch) \in {"pos", "neg"}
             PROVE  Output(ch)' \in {Output(ch), "zero"}
  BY DEF SafeSwitch
<1>1. PIN_MODE0 \in high' /\ PIN_MODE1 \notin high'
  BY OtherPolarity
<1>2. DinP[ch] \in Pins("pos") /\ DinN[ch] \in Pins("neg")
      /\ DinP[ch] \notin Pins("neg") /\ DinN[ch] \notin Pins("pos")
  BY PinTable, MasksDisjoint
<1>3. CASE h = "pos"
  BY <1>1, <1>2, <1>3, OctalOutput, OctalOutputNext DEF Other, Low
<1>4. CASE h = "neg"
  BY <1>1, <1>2, <1>4, OctalOutput, OctalOutputNext DEF Other, Low
<1>5. QED
  BY <1>3, <1>4 DEF Halves

LEMMA StepSwitchesSafely == PinsInv /\ [ScanNext]_scanVars => SafeSwitch \/ UNCHANGED high
<1> SUFFICES ASSUME PinsInv, [ScanNext]_scanVars, high' # high PROVE SafeSwitch
  OBVIOUS
<1>1. (at = "burst" /\ Write) \/ WritePin
  BY DEF ScanNext, scanVars, vars, InBurst, Burst, burst_wait, Return, Tick, Scan,
         EnterReceiveMode, Measure, Forget, NDT_captureRecord, Row, Clear_A, Clear_C, Arm,
         Poll_A, Poll_C, Spin, ReadResult, Freeze, Restored, ReceiveTick, PacerTick, Over
<1> DEFINE n == Len(todo)
<1>2. CASE at = "burst" /\ Write
  <2>1. PIN_MODE0 \in high /\ PIN_MODE1 \notin high /\ todo # << >>
    BY <1>2 DEF PinsInv, Write
  <2>2. CASE half \in Halves
    <3>1. /\ Swap(half) = <<Clear(PortA(Other(half))), Clear(PortB(Other(half))),
                            Set(PortA(half)), Set(PortB(half))>>
          /\ Len(Swap(half)) = 4
      BY <2>2, SwapWrites
    <3>2. Suffix(todo, Swap(half)) /\ (n <= 2 => Low(Pins(Other(half))))
      BY <2>2 DEF PinsInv, HalfCycleInv, Low, Pins
    <3>3. Head(todo) = Swap(half)[4 + 1 - n] /\ n \in 1 .. 4
      BY <2>1, <3>1, <3>2, NextWrite
    <3> HIDE DEF n
    <3>4. CASE n = 4 \/ n = 3
      <4>1. \/ Head(todo) = Clear(PortA(Other(half)))
            \/ Head(todo) = Clear(PortB(Other(half)))
        BY <3>1, <3>3, <3>4
      <4>2. \/ high' = high \ PortA(Other(half))
            \/ high' = high \ PortB(Other(half))
        BY <1>2, <4>1 DEF Write, Clear
      <4>3. \E low \in SUBSET Pins(Other(half)) : high' = high \ low
        BY <4>2 DEF Pins
      <4>4. QED
        BY <2>1, <2>2, <4>3, SafeWrite
    <3>5. CASE n = 2 \/ n = 1
      <4>1. Head(todo) = Set(PortA(half)) \/ Head(todo) = Set(PortB(half))
        BY <3>1, <3>3, <3>5
      <4>2. high' = high \cup PortA(half) \/ high' = high \cup PortB(half)
        BY <1>2, <4>1 DEF Write, Set
      <4>3. \E up \in SUBSET Pins(half) : high' = high \cup up
        BY <4>2 DEF Pins
      <4>4. QED
        BY <2>1, <2>2, <3>2, <3>5, <4>3, SafeWrite
    <3>6. QED
      BY <3>3, <3>4, <3>5
  <2>3. CASE half = "end"
    <3>1. Suffix(todo, FinalClear) /\ Low(Pins("pos"))
      BY <2>3 DEF PinsInv, EndInv
    <3>2. FinalClear = <<Clear(PortA("pos") \cup PortA("neg")),
                         Clear(PortB("pos") \cup PortB("neg"))>>
          /\ Len(FinalClear) = 2
      BY DEF FinalClear, PortA, PortB
    <3>3. Head(todo) = FinalClear[2 + 1 - n] /\ n \in 1 .. 2
      BY <2>1, <3>1, <3>2, NextWrite
    <3> HIDE DEF n
    <3>4. \/ high' = high \ (PortA("pos") \cup PortA("neg"))
          \/ high' = high \ (PortB("pos") \cup PortB("neg"))
      <4>1. CASE n = 1
        <5>1. Head(todo) = Clear(PortB("pos") \cup PortB("neg"))
          BY <3>2, <3>3, <4>1
        <5>2. QED
          BY <1>2, <5>1 DEF Write, Clear
      <4>2. CASE n = 2
        <5>1. Head(todo) = Clear(PortA("pos") \cup PortA("neg"))
          BY <3>2, <3>3, <4>2
        <5>2. QED
          BY <1>2, <5>1 DEF Write, Clear
      <4>3. QED
        BY <3>3, <4>1, <4>2
    <3>5. \E low \in SUBSET Pins("neg") : high' = high \ low
      <4>1. high' = high \ PortA("neg") \/ high' = high \ PortB("neg")
        BY <3>1, <3>4 DEF Low, Pins
      <4>2. QED
        BY <4>1 DEF Pins
    <3>6. QED
      BY <2>1, <3>5, SafeWrite DEF Other, Halves
  <2>4. CASE half = "done"
    BY <1>2, <2>1, <2>4 DEF PinsInv, ReceiveInv
  <2>5. QED
    BY <2>2, <2>3, <2>4 DEF PinsInv
<1>3. CASE WritePin
  <2>1. ASSUME NEW ch \in 1 .. 8 PROVE Output(ch) \notin {"pos", "neg"}
    <3>1. at \in {"receive", "restore"}
      BY <1>3 DEF WritePin
    <3>2. half = "done"
      BY <3>1 DEF PinsInv
    <3>3. QED
      BY <3>2, PinsInPhase DEF InPhase
  <2>2. QED
    BY <2>1 DEF SafeSwitch
<1>4. QED
  BY <1>1, <1>2, <1>3

\* The outputs agree with the half-cycle on all channels at once, whatever the
\* burst length and its jitter, and no transducer is driven after the burst.
THEOREM BurstInPhase == ScanSpec => []InPhase
<1>1. PinsInv /\ [ScanNext]_scanVars => PinsInv'
  BY PinsStep
<1>2. QED
  BY PinsInit, <1>1, PinsInPhase, PTL DEF ScanSpec

\* No write takes a channel from one polarity to the other, or through both pins
\* high, in the burst, in the receive mode and on the way back.
THEOREM BurstShootsNotThrough == ScanSpec => NoShootThrough
<1>1. PinsInv /\ [ScanNext]_scanVars
        => [\A ch \in 1 .. 8 :
              Output(ch) \in {"pos", "neg"} => Output(ch)' \in {Output(ch), "zero"}]_vars
  <2> SUFFICES ASSUME PinsInv, [ScanNext]_scanVars,
                      NEW ch \in 1 .. 8, Output(ch) \in {"pos", "neg"}
               PROVE  Output(ch)' \in {Output(ch), "zero"}
    OBVIOUS
  <2>1. CASE SafeSwitch
    BY <2>1 DEF SafeSwitch
  <2>2. CASE UNCHANGED high
    BY <2>2 DEF Output
  <2>3. QED
    BY <2>1, <2>2, StepSwitchesSafely
<1>2. PinsInv /\ [ScanNext]_scanVars => PinsInv'
  BY PinsStep
<1>3. QED
  BY PinsInit, <1>1, <1>2, PTL DEF ScanSpec, NoShootThrough

-----------------------------------------------------------------------------
(* The times.                                                              *)

\* Ticks between two values of the down-counter.
LEMMA ModDiff ==
  ASSUME NEW m \in Nat, NEW a \in 0 .. m - 1, NEW b \in 0 .. m - 1
  PROVE  (a - b) % m = IF a >= b THEN a - b ELSE a - b + m
<1>1. CASE a >= b
  BY <1>1
<1>2. CASE a < b
  <2>1. a - b + m \in 0 .. m - 1 /\ a - b = (-1) * m + (a - b + m)
    BY <1>2
  <2>2. QED
    BY <1>2, <2>1
<1>3. QED
  BY <1>1, <1>2

\* The nominal length of a period of the burst, and what is left of the burst.
LEMMA PeriodsFit ==
  ASSUME NEW n \in Nat, n < Cycles, NEW p \in Nat
  PROVE  /\ n * p \in Nat /\ (n + 1) * p = n * p + p
         /\ n * p + p <= Cycles * p /\ Cycles * p \in Nat
<1>1. Cycles \in Nat
  BY BurstAssumption
<1>2. (n + 1) * p = n * p + p /\ n * p \in Nat /\ Cycles * p \in Nat
  BY <1>1
<1>3. PICK k \in Nat : Cycles = (n + 1) + k
  <2>1. Cycles - (n + 1) \in Nat /\ Cycles = (n + 1) + (Cycles - (n + 1))
    BY <1>1
  <2>2. QED
    BY <2>1
<1>4. Cycles * p = (n + 1) * p + k * p /\ k * p \in Nat
  BY <1>3
<1>5. QED
  BY <1>2, <1>4

\* The times with the remainders written out.
Behind(a) == IF a >= timer THEN a - timer ELSE a - timer + TimerMod

LEMMA BehindIs ==
  ASSUME TimesInv
  PROVE  /\ (t_ref - timer) % TimerMod = Behind(t_ref)
         /\ (t_fire - timer) % TimerMod = Behind(t_fire)
<1>1. timer \in 0 .. TimerMod - 1 /\ t_ref \in 0 .. TimerMod - 1
      /\ t_fire \in 0 .. TimerMod - 1 /\ TimerMod \in Nat
  BY BurstAssumption DEF TimesInv
<1>2. QED
  BY <1>1, ModDiff DEF Behind

LEMMA BehindIsNext ==
  ASSUME {timer, t_ref, t_fire}' \subseteq 0 .. TimerMod - 1
  PROVE  /\ ((t_ref - timer) % TimerMod)' = Behind(t_ref)'
         /\ ((t_fire - timer) % TimerMod)' = Behind(t_fire)'
<1>1. timer' \in 0 .. TimerMod - 1 /\ t_ref' \in 0 .. TimerMod - 1
      /\ t_fire' \in 0 .. TimerMod - 1 /\ TimerMod \in Nat
  BY BurstAssumption
<1>2. QED
  BY <1>1, ModDiff DEF Behind

\* A tick of the timer.
LEMMA TimerTick ==
  ASSUME timer \in 0 .. TimerMod - 1, timer' = (timer - 1) % TimerMod,
         NEW a \in 0 .. TimerMod - 1, Behind(a) + 1 < TimerMod
  PROVE  /\ timer' \in 0 .. TimerMod - 1
         /\ (IF a >= timer' THEN a - timer' ELSE a - timer' + TimerMod) = Behind(a) + 1
<1>1. TimerMod \in Nat
  BY BurstAssumption
<1>2. timer' = IF timer >= 1 THEN timer - 1 ELSE TimerMod - 1
  <2>1. CASE TimerMod = 1
    BY <2>1 DEF Behind
  <2>2. CASE TimerMod > 1
    <3>1. 1 \in 0 .. TimerMod - 1
      BY <1>1, <2>2
    <3>2. QED
      BY <1>1, <3>1, ModDiff
  <2>3. QED
    BY <1>1, <2>1, <2>2
<1>3. QED
  BY <1>1, <1>2 DEF Behind

\* What is known of a half-cycle.
LEMMA HalfCycleTimes ==
  ASSUME TimesInv, at = "burst", half \in Halves
  PROVE  /\ Ticks(half) \in Nat /\ Ticks(half) + MaxJitter < TimerMod
         /\ MaxJitter <= Ticks(half)
         /\ Elapsed = Behind(t_ref) /\ 0 <= Elapsed /\ Elapsed <= Ticks(half) + lost
         /\ clock = Behind(t_fire)
         /\ nominal <= Cycles * (HalfTicksA + HalfTicksB)
         /\ Cycles * (HalfTicksA + HalfTicksB) \in Nat
         /\ timer \in 0 .. TimerMod - 1 /\ t_ref \in 0 .. TimerMod - 1
         /\ t_fire \in 0 .. TimerMod - 1
         /\ i \in Nat /\ i < Cycles /\ clock \in Nat /\ nominal \in Nat
         /\ lost \in 0 .. MaxJitter
<1> DEFINE P == HalfTicksA + HalfTicksB
<1>1. Ticks(half) \in Nat /\ Ticks(half) + MaxJitter < TimerMod
      /\ MaxJitter <= Ticks(half)
  BY BurstAssumption DEF Ticks
<1>2. i \in Nat /\ i < Cycles /\ P \in Nat
  BY BurstAssumption DEF TimesInv
<1>3. i * P \in Nat /\ i * P + P <= Cycles * P /\ Cycles * P \in Nat
  <2> HIDE DEF P
  <2>1. QED
    BY <1>2, PeriodsFit
<1>4. nominal = i * P + HalfTicksA + (IF half = "neg" THEN HalfTicksB ELSE 0)
  BY DEF TimesInv
<1>5. nominal <= i * P + P
  <2>1. CASE half = "neg"
    <3> DEFINE iP == i * P
    <3>1. nominal = iP + HalfTicksA + HalfTicksB /\ iP \in Nat
      BY <1>3, <1>4, <2>1
    <3> HIDE DEF iP
    <3>2. nominal <= iP + P
      BY <3>1, BurstAssumption
    <3>3. QED
      BY <3>2 DEF iP
  <2>2. CASE half # "neg"
    <3> DEFINE iP == i * P
    <3>1. nominal = iP + HalfTicksA + 0 /\ iP \in Nat
      BY <1>3, <1>4, <2>2
    <3> HIDE DEF iP
    <3>2. nominal <= iP + P
      BY <3>1, BurstAssumption
    <3>3. QED
      BY <3>2 DEF iP
  <2>3. QED
    BY <2>1, <2>2
<1>6. nominal \in Nat /\ nominal <= Cycles * P
  <2>1. nominal \in Nat
    BY DEF TimesInv
  <2> HIDE DEF P
  <2>2. QED
    BY <1>2, <1>3, <1>5, <2>1
<1>7. QED
  BY <1>1, <1>2, <1>3, <1>6, BehindIs DEF TimesInv

\* A tick of the burst.
LEMMA BurstTickTimes ==
  ASSUME TimesInv, PinsInv, at = "burst", at' = at, t_fire' = t_fire, Tick
  PROVE  TimesInv'
<1> DEFINE CP == Cycles * (HalfTicksA + HalfTicksB)
<1>1. half \in Halves /\ half' = half
  BY DEF Tick, Halves
<1>2. /\ Ticks(half) \in Nat /\ Ticks(half) + MaxJitter < TimerMod
      /\ Elapsed = Behind(t_ref) /\ 0 <= Elapsed /\ Elapsed <= Ticks(half) + lost
      /\ clock = Behind(t_fire) /\ nominal <= CP /\ CP \in Nat
      /\ timer \in 0 .. TimerMod - 1 /\ t_ref \in 0 .. TimerMod - 1
      /\ t_fire \in 0 .. TimerMod - 1 /\ clock \in Nat /\ nominal \in Nat
      /\ lost \in 0 .. MaxJitter
  BY <1>1, HalfCycleTimes
<1>3. /\ timer' = (timer - 1) % TimerMod /\ clock' = clock + 1
      /\ UNCHANGED <<i, t_ref, nominal>>
      /\ lost' = (IF todo = << >> /\ ~WaitOver THEN lost ELSE lost + 1)
      /\ lost' <= MaxJitter
  BY DEF Tick
<1>4. WaitOver <=> Elapsed >= Ticks(half)
  BY <1>1 DEF WaitOver, TimesInv
<1>5. /\ Elapsed' = Elapsed + 1 /\ Ticks(half)' = Ticks(half)
      /\ lost' \in 0 .. MaxJitter /\ Elapsed' <= Ticks(half) + lost'
  <2>1. Elapsed \in Int /\ MaxJitter \in Nat
    BY <1>2, BurstAssumption DEF Elapsed
  <2>2. Ticks(half)' = Ticks(half)
    BY <1>1 DEF Ticks
  <2>3. Elapsed' = Elapsed + 1
    <3>1. Elapsed' = clock' - (nominal' - Ticks(half)')
      BY DEF Elapsed
    <3>2. Elapsed = clock - (nominal - Ticks(half))
      BY DEF Elapsed
    <3>3. clock' = clock + 1 /\ nominal' = nominal
      BY <1>3
    <3>4. clock \in Nat /\ nominal \in Nat /\ Ticks(half) \in Nat
      BY <1>2
    <3> HIDE DEF CP
    <3>5. QED
      BY <2>2, <3>1, <3>2, <3>3, <3>4
  <2>4. lost' \in 0 .. MaxJitter
    BY <1>2, <1>3, <2>1
  <2>5. Elapsed' <= Ticks(half) + lost'
    <3>1. CASE todo = << >> /\ ~WaitOver
      <4>1. lost' = lost /\ ~(Elapsed >= Ticks(half))
        BY <1>3, <1>4, <3>1
      <4>2. QED
        BY <1>2, <2>1, <2>3, <4>1
    <3>2. CASE ~(todo = << >> /\ ~WaitOver)
      <4>1. lost' = lost + 1
        BY <1>3, <3>2
      <4>2. QED
        BY <1>2, <2>1, <2>3, <4>1
    <3>3. QED
      BY <3>1, <3>2
  <2>6. QED
    BY <2>2, <2>3, <2>4, <2>5
<1>6. Elapsed + 1 < TimerMod /\ clock + 1 < TimerMod
  <2>1. Elapsed + 1 <= Ticks(half) + MaxJitter
    BY <1>2, <1>5, BurstAssumption
  <2>2. clock + 1 <= CP + MaxJitter
    <3>1. clock + 1 = Elapsed + 1 + nominal - Ticks(half)
      BY <1>2 DEF Elapsed
    <3> HIDE DEF CP
    <3>2. Elapsed \in Int
      BY <1>2 DEF Elapsed
    <3>3. QED
      BY <1>2, <2>1, <3>1, <3>2, BurstAssumption
  <2>3. CP + 2 * MaxJitter < TimerMod
    BY DelayAssumption
  <2> HIDE DEF CP
  <2>4. Elapsed \in Int
    BY <1>2 DEF Elapsed
  <2>5. QED
    BY <1>2, <2>1, <2>2, <2>3, <2>4, BurstAssumption
<1>7. /\ timer' \in 0 .. TimerMod - 1
      /\ Behind(t_ref)' = Elapsed + 1 /\ Behind(t_fire)' = clock + 1
  BY <1>2, <1>3, <1>6, TimerTick DEF Behind
<1>8. {timer, t_ref, t_fire}' \subseteq 0 .. TimerMod - 1
  BY <1>2, <1>3, <1>7
<1>9. ((t_ref - timer) % TimerMod)' = Elapsed' /\ ((t_fire - timer) % TimerMod)' = clock'
  BY <1>3, <1>5, <1>7, <1>8, BehindIsNext
<1>10. 0 <= Elapsed'
  BY <1>2, <1>5 DEF Elapsed
<1>11. QED
  BY <1>1, <1>3, <1>5, <1>8, <1>9, <1>10 DEF TimesInv, Halves

\* burst_wait() returns: the reference moves on by what was waited for.
LEMMA WaitTimes ==
  ASSUME TimesInv, PinsInv, at = "burst", at' = at, t_fire' = t_fire, burst_wait
  PROVE  TimesInv'
<1> DEFINE P == HalfTicksA + HalfTicksB  iP == i * P  CP == Cycles * P
<1>1. half \in Halves /\ half' \in Halves \cup {"end"}
  BY DEF burst_wait, Halves
<1>2. /\ Ticks(half) \in Nat /\ Ticks(half) + MaxJitter < TimerMod
      /\ MaxJitter <= Ticks(half)
      /\ Elapsed = Behind(t_ref) /\ 0 <= Elapsed /\ Elapsed <= Ticks(half) + lost
      /\ clock = Behind(t_fire) /\ nominal <= CP /\ CP \in Nat
      /\ timer \in 0 .. TimerMod - 1 /\ t_ref \in 0 .. TimerMod - 1
      /\ t_fire \in 0 .. TimerMod - 1 /\ clock \in Nat /\ nominal \in Nat
      /\ i \in Nat /\ i < Cycles /\ lost \in 0 .. MaxJitter
  BY <1>1, HalfCycleTimes
<1>3. /\ t_ref' = (t_ref - Ticks(half)) % TimerMod /\ lost' = 0
      /\ half' = (IF half = "pos" THEN "neg" ELSE IF i + 1 < Cycles THEN "pos" ELSE "end")
      /\ i' = (IF half = "neg" THEN i + 1 ELSE i)
      /\ nominal' = (IF half' = "end" THEN nominal ELSE nominal + Ticks(half)')
      /\ UNCHANGED <<timer, clock>>
  BY DEF burst_wait, NextRef, Ticks
<1>4. Elapsed \in Int /\ Elapsed >= Ticks(half)
  <2>1. WaitOver
    BY DEF burst_wait
  <2>2. Elapsed \in Int
    BY <1>2 DEF Elapsed
  <2>3. QED
    BY <1>1, <2>1, <2>2 DEF WaitOver, TimesInv
<1>5. t_ref' \in 0 .. TimerMod - 1 /\ Behind(t_ref)' = Elapsed - Ticks(half)
  <2>1. TimerMod \in Nat /\ Ticks(half) \in 0 .. TimerMod - 1
    BY <1>2, BurstAssumption
  <2>2. t_ref' = IF t_ref >= Ticks(half) THEN t_ref - Ticks(half)
                 ELSE t_ref - Ticks(half) + TimerMod
    BY <1>2, <1>3, <2>1, ModDiff
  <2>3. Behind(t_ref)' = IF t_ref' >= timer THEN t_ref' - timer
                         ELSE t_ref' - timer + TimerMod
    BY <1>3 DEF Behind
  <2>4. Elapsed = IF t_ref >= timer THEN t_ref - timer ELSE t_ref - timer + TimerMod
    BY <1>2 DEF Behind
  <2>5. QED
    BY <1>2, <1>4, <2>1, <2>2, <2>3, <2>4
<1>6. {timer, t_ref, t_fire}' \subseteq 0 .. TimerMod - 1
  BY <1>2, <1>3, <1>5
<1>7. /\ ((t_ref - timer) % TimerMod)' = Elapsed - Ticks(half)
      /\ ((t_fire - timer) % TimerMod)' = clock'
  <2>1. Behind(t_fire)' = Behind(t_fire)
    BY <1>3 DEF Behind
  <2>2. QED
    BY <1>2, <1>3, <1>5, <1>6, <2>1, BehindIsNext
<1>8. /\ iP \in Nat /\ (i + 1) * P = iP + P /\ P \in Nat
      /\ nominal = iP + HalfTicksA + (IF half = "neg" THEN HalfTicksB ELSE 0)
      /\ i + 1 \in Nat
  <2>1. P \in Nat
    BY BurstAssumption
  <2>2. iP \in Nat /\ (i + 1) * P = iP + P
    <3> HIDE DEF P
    <3>1. QED
      BY <1>2, <2>1, PeriodsFit
  <2>3. QED
    BY <1>1, <1>2, <2>1, <2>2 DEF TimesInv
<1>9. CASE half' \in Halves
  <2>1. nominal' = nominal + Ticks(half)' /\ Ticks(half)' \in Nat
        /\ MaxJitter <= Ticks(half)'
    BY <1>3, <1>9, BurstAssumption DEF Halves, Ticks
  <2>2. Elapsed' = Elapsed - Ticks(half)
    <3>1. Elapsed' = clock' - (nominal' - Ticks(half)')
      BY DEF Elapsed
    <3>2. Elapsed = clock - (nominal - Ticks(half))
      BY DEF Elapsed
    <3>3. QED
      BY <1>2, <1>3, <2>1, <3>1, <3>2
  <2>3. 0 <= Elapsed' /\ Elapsed' <= Ticks(half)' + lost'
    BY <1>2, <1>3, <1>4, <2>1, <2>2, BurstAssumption
  <2>4. i' < Cycles /\ i' \in Nat
    BY <1>1, <1>2, <1>3, <1>9 DEF Halves
  <2>5. nominal' = i' * P + HalfTicksA + (IF half' = "neg" THEN HalfTicksB ELSE 0)
    <3>1. CASE half = "pos"
      <4>1. half' = "neg" /\ i' * P = iP /\ Ticks(half)' = HalfTicksB
        BY <1>3, <3>1 DEF Ticks
      <4> HIDE DEF iP, P
      <4>2. QED
        BY <1>8, <2>1, <3>1, <4>1, BurstAssumption
    <3>2. CASE half = "neg"
      <4>1. half' = "pos" /\ Ticks(half)' = HalfTicksA
        BY <1>3, <1>9, <3>2 DEF Ticks, Halves
      <4>2. i' * P = iP + P
        BY <1>3, <1>8, <3>2
      <4>3. P = HalfTicksA + HalfTicksB
        OBVIOUS
      <4> HIDE DEF iP, P
      <4>4. QED
        BY <1>8, <2>1, <3>2, <4>1, <4>2, <4>3, BurstAssumption
    <3>3. QED
      BY <1>1, <3>1, <3>2 DEF Halves
  <2>6. clock' \in Nat /\ nominal' \in Nat /\ lost' \in 0 .. MaxJitter
    BY <1>2, <1>3, <2>1, BurstAssumption
  <2>7. ((t_ref - timer) % TimerMod)' = Elapsed'
    BY <1>7, <2>2
  <2>8. at' = "burst" /\ half' \in Halves
    BY <1>9
  <2>9. QED
    BY <1>6, <1>7, <2>3, <2>4, <2>5, <2>6, <2>7, <2>8 DEF TimesInv
<1>10. CASE half' = "end"
  <2>1. half = "neg" /\ nominal' = nominal
    <3>1. /\ half' = (IF half = "pos" THEN "neg" ELSE IF i + 1 < Cycles THEN "pos" ELSE "end")
          /\ nominal' = (IF half' = "end" THEN nominal ELSE nominal + Ticks(half)')
      BY <1>3
    <3>2. half # "pos"
      BY <1>10, <3>1
    <3>3. QED
      BY <1>1, <1>10, <3>1, <3>2 DEF Halves
  <2>2. clock <= CP + MaxJitter
    <3>1. Elapsed = clock - (nominal - Ticks(half))
      BY DEF Elapsed
    <3> HIDE DEF CP
    <3>2. QED
      BY <1>2, <1>4, <3>1, BurstAssumption
  <2>3. /\ clock' \in Nat /\ nominal' \in Nat /\ i' \in Nat /\ lost' = 0
        /\ 0 \in 0 .. MaxJitter
    BY <1>2, <1>3, <2>1, BurstAssumption
  <2>4. clock' <= CP + MaxJitter + lost'
    <3> HIDE DEF CP
    <3>1. QED
      BY <1>2, <1>3, <2>2, <2>3, BurstAssumption
  <2>5. half' \notin Halves
    BY <1>10 DEF Halves
  <2>6. QED
    BY <1>6, <1>7, <2>3, <2>4, <2>5 DEF TimesInv
<1>11. QED
  BY <1>1, <1>9, <1>10

\* A tick in the receive mode.
LEMMA ReceiveTickTimes ==
  ASSUME TimesInv, PinsInv, ReceiveTick
  PROVE  TimesInv'
<1> DEFINE CP == Cycles * (HalfTicksA + HalfTicksB)
<1>1. /\ at = "receive" /\ at' = at /\ half = "done" /\ lost < MaxJitter
      /\ lost' = lost + 1 /\ timer' = (timer - 1) % TimerMod /\ clock' = clock + 1
      /\ UNCHANGED <<i, half, t_ref, t_fire, nominal>>
  BY DEF ReceiveTick, PinsInv, delay
<1>2. /\ timer \in 0 .. TimerMod - 1 /\ t_ref \in 0 .. TimerMod - 1
      /\ t_fire \in 0 .. TimerMod - 1 /\ clock \in Nat /\ nominal \in Nat /\ i \in Nat
      /\ lost \in 0 .. MaxJitter /\ clock <= CP + MaxJitter + lost
      /\ clock = (t_fire - timer) % TimerMod
  BY <1>1 DEF TimesInv, Halves
<1>3. clock = Behind(t_fire)
  BY <1>2, BehindIs
<1>4. clock + 1 < TimerMod /\ clock + 1 <= CP + MaxJitter + (lost + 1)
      /\ lost + 1 \in 0 .. MaxJitter
  <2>1. CP + 2 * MaxJitter < TimerMod /\ CP \in Nat
    <3>1. HalfTicksA + HalfTicksB \in Nat /\ Cycles \in Nat
      BY BurstAssumption
    <3>2. QED
      BY <3>1, DelayAssumption
  <2> HIDE DEF CP
  <2>2. QED
    BY <1>1, <1>2, <2>1, BurstAssumption
<1>5. timer' \in 0 .. TimerMod - 1 /\ Behind(t_fire)' = clock + 1
  BY <1>1, <1>2, <1>3, <1>4, TimerTick DEF Behind
<1>6. {timer, t_ref, t_fire}' \subseteq 0 .. TimerMod - 1
  BY <1>1, <1>2, <1>5
<1>7. ((t_fire - timer) % TimerMod)' = clock'
  BY <1>1, <1>5, <1>6, BehindIsNext
<1>8. QED
  BY <1>1, <1>2, <1>4, <1>6, <1>7 DEF TimesInv, Halves

LEMMA TimesStep == TimesInv /\ PinsInv /\ [ScanNext]_scanVars => TimesInv'
<1> SUFFICES ASSUME TimesInv, PinsInv, [ScanNext]_scanVars PROVE TimesInv'
  OBVIOUS
<1>1. ASSUME UNCHANGED <<i, half, t_ref, timer, history, t_fire>>,
             at' = at \/ at \in Captures \/ at' \in Captures \/ at' = "done"
                \/ (at = "burst" /\ at' = "receive" /\ half = "done"),
             at' \in {"burst", "receive"} => at' = at \/ at = "burst" 
      PROVE  TimesInv'
  BY <1>1 DEF TimesInv, Captures, Elapsed, Ticks, history, Halves
<1>2. CASE InBurst
  <2>1. at = "burst" /\ at' = at /\ t_fire' = t_fire
    BY <1>2 DEF InBurst, delay
  <2>2. CASE Write
    BY <1>1, <2>1, <2>2 DEF Write
  <2>3. CASE burst_wait
    BY <2>1, <2>3, WaitTimes
  <2>4. CASE Return
    BY <2>1, <2>4 DEF Return, history, TimesInv, Halves, Elapsed, Ticks
  <2>5. CASE Tick
    BY <2>1, <2>5, BurstTickTimes
  <2>6. QED
    BY <1>2, <2>2, <2>3, <2>4, <2>5 DEF InBurst, Burst
<1>3. CASE EnterReceiveMode
  BY <1>1, <1>3 DEF EnterReceiveMode, Goto, delay
<1>4. CASE WritePin
  BY <1>1, <1>4 DEF WritePin, Write, delay
<1>5. CASE Measure
  <2>1. /\ at' = "clear_A" /\ t_fire' = 0 /\ timer' = 0 /\ t_ref' = 0
        /\ clock' = 0 /\ nominal' = 0 /\ lost' = 0 /\ i' = i /\ half' = half
    BY <1>5 DEF Measure, Goto, Forget
  <2>2. 0 \in 0 .. TimerMod - 1 /\ 0 \in 0 .. MaxJitter /\ i \in Nat
    BY BurstAssumption DEF TimesInv
  <2>3. QED
    BY <2>1, <2>2 DEF TimesInv
<1>6. CASE NDT_captureRecord
  <2>1. UNCHANGED <<i, half, t_ref, timer, history, t_fire>>
    BY <1>6 DEF NDT_captureRecord, Row, Clear_A, Clear_C, Arm, Poll_A, Poll_C, Spin,
                ReadResult, Freeze, delay, vars, scanVars
  <2>2. at \in Captures /\ at' \notin {"burst", "receive"}
    BY <1>6 DEF NDT_captureRecord, Row, Clear_A, Clear_C, Arm, Poll_A, Poll_C, Spin,
                ReadResult, Freeze, Goto, Captures, Waiting, scanVars
  <2>3. QED
    BY <1>1, <2>1, <2>2
<1>7. CASE Restored
  BY <1>1, <1>7 DEF Restored, Goto, delay, vars
<1>8. CASE ReceiveTick
  BY <1>8, ReceiveTickTimes
<1>9. CASE PacerTick \/ Over \/ UNCHANGED scanVars
  BY <1>1, <1>9 DEF PacerTick, Over, delay, vars, scanVars
<1>10. QED
  BY <1>2, <1>3, <1>4, <1>5, <1>6, <1>7, <1>8, <1>9 DEF ScanNext, Scan

LEMMA TimesInit == ScanInit => TimesInv
<1> SUFFICES ASSUME ScanInit PROVE TimesInv
  OBVIOUS
<1>1. /\ at = "burst" /\ half = "pos" /\ i = 0 /\ t_ref = timer /\ t_fire = timer
      /\ clock = 0 /\ nominal = HalfTicksA /\ lost = 0
      /\ timer \in 0 .. TimerMod - 1
  BY StartAssumption DEF ScanInit, Init
<1>2. (timer - timer) % TimerMod = 0
  BY <1>1, ModDiff, BurstAssumption
<1>3. Elapsed = 0 /\ Ticks(half) = HalfTicksA
  BY <1>1, BurstAssumption DEF Elapsed, Ticks
<1>4. 0 * (HalfTicksA + HalfTicksB) = 0
  BY BurstAssumption
<1>5. nominal = i * (HalfTicksA + HalfTicksB) + HalfTicksA
                + (IF half = "neg" THEN HalfTicksB ELSE 0)
  BY <1>1, <1>4, BurstAssumption
<1>6. QED
  BY <1>1, <1>2, <1>3, <1>5, BurstAssumption DEF TimesInv, Halves

LEMMA BurstInvariant == ScanSpec => [](PinsInv /\ TimesInv)
<1>1. ScanInit => PinsInv /\ TimesInv
  BY PinsInit, TimesInit
<1>2. PinsInv /\ TimesInv /\ [ScanNext]_scanVars => (PinsInv /\ TimesInv)'
  BY PinsStep, TimesStep
<1>3. QED
  BY <1>1, <1>2, PTL DEF ScanSpec

\* Each half-cycle ends at its nominal tick or later by what that half-cycle
\* lost: burst_wait() never lets a delay add up, whatever the timer started at.
THEOREM BurstNeverDrifts == ScanSpec => DriftFree
<1>1. PinsInv /\ TimesInv /\ [ScanNext]_scanVars
        => [half' # half /\ half \in {"pos", "neg"} =>
              nominal <= clock /\ clock <= nominal + MaxJitter]_vars
  <2> SUFFICES ASSUME PinsInv, TimesInv, [ScanNext]_scanVars,
                      half' # half, half \in {"pos", "neg"}
               PROVE  nominal <= clock /\ clock <= nominal + MaxJitter
    OBVIOUS
  <2>1. burst_wait /\ at = "burst"
    BY DEF ScanNext, scanVars, vars, InBurst, Burst, Write, Return, Tick, Scan,
           EnterReceiveMode, WritePin, Measure, Forget, NDT_captureRecord, Row, Clear_A,
           Clear_C, Arm, Poll_A, Poll_C, Spin, ReadResult, Freeze, Restored,
           ReceiveTick, PacerTick, Over
  <2>2. /\ Ticks(half) \in Nat /\ Elapsed <= Ticks(half) + lost
        /\ clock \in Nat /\ nominal \in Nat /\ lost \in 0 .. MaxJitter
    BY <2>1, HalfCycleTimes DEF Halves
  <2>3. Elapsed >= Ticks(half)
    BY <2>1 DEF burst_wait, WaitOver, TimesInv, Halves
  <2>4. Elapsed = clock - (nominal - Ticks(half))
    BY DEF Elapsed
  <2>5. QED
    BY <2>2, <2>3, <2>4, BurstAssumption
<1>2. QED
  BY <1>1, BurstInvariant, PTL DEF ScanSpec, DriftFree

\* The start delay of the header is the time from the first edge to the capture,
\* wherever the timer stood when the burst began.
THEOREM StartDelayIsExact == ScanSpec => StartDelayExact
<1>1. PinsInv /\ TimesInv /\ [ScanNext]_scanVars
        => [at' = "clear_A" /\ at # at' => startDelay' = clock]_scanVars
  <2> SUFFICES ASSUME PinsInv, TimesInv, [ScanNext]_scanVars,
                      at' = "clear_A", at # at'
               PROVE  startDelay' = clock
    OBVIOUS
  <2>1. Measure
    BY DEF ScanNext, scanVars, InBurst, Scan, EnterReceiveMode, WritePin,
           NDT_captureRecord, Row, Clear_A, Clear_C, Arm, Poll_A, Poll_C, Spin,
           ReadResult, Freeze, Restored, ReceiveTick, PacerTick, Over, Goto
  <2>2. QED
    BY <2>1 DEF Measure, Goto, TimesInv
<1>2. QED
  BY <1>1, BurstInvariant, PTL DEF ScanSpec, StartDelayExact

-----------------------------------------------------------------------------
(* The capture.                                                            *)

\* Every conversion of a sweep ends within it, and a sweep within a period.
LEMMA SweepTimes ==
  /\ Conv \in Nat \ {0} /\ Period \in Nat /\ Sweep \in Nat
  /\ Eoc(1) = Conv /\ Conv <= Sweep /\ Sweep < Period
  /\ \A j \in 1 .. Socs : Eoc(j) \in Nat /\ Conv <= Eoc(j) /\ Eoc(j) <= Sweep
<1>1. Conv \in Nat \ {0} /\ Period \in Nat /\ Socs \in Nat \ {0} /\ Sweep = Socs * Conv
      /\ Sweep < Period
  BY PacerAssumption DEF Sweep, Eoc
<1>2. ASSUME NEW j \in 1 .. Socs
      PROVE  Eoc(j) \in Nat /\ Conv <= Eoc(j) /\ Eoc(j) <= Sweep
  <2>1. j \in Nat /\ j - 1 \in Nat /\ Socs - j \in Nat
    BY <1>1
  <2>2. (j - 1) * Conv \in Nat /\ (Socs - j) * Conv \in Nat /\ j * Conv \in Nat
        /\ Socs * Conv \in Nat
    BY <1>1, <2>1
  <2>3. j * Conv = (j - 1) * Conv + Conv /\ Socs * Conv = j * Conv + (Socs - j) * Conv
    BY <1>1, <2>1
  <2>4. QED
    BY <1>1, <2>2, <2>3 DEF Eoc
<1>3. Eoc(1) = Conv /\ 1 \in 1 .. Socs
  BY <1>1 DEF Eoc
<1>4. Sweep \in Nat /\ Conv <= Sweep
  BY <1>1, <1>2, <1>3
<1>5. QED
  BY <1>1, <1>2, <1>3, <1>4

LEMMA SocRange ==
  ASSUME NEW j \in Nat \ {0}
  PROVE  SocOf(j) \in 1 .. Socs
BY PacerAssumption DEF SocOf

\* A result is of the sweep under way or of the one before, and of the former
\* once that sweep is over.
LEMMA ResultBounds ==
  ASSUME PacerInv, NEW j \in 1 .. Socs
  PROVE  /\ Result(j) \in Int /\ Swept \in Int
         /\ Swept <= Result(j) /\ Result(j) <= sweep
         /\ conv = Sweep => Result(j) = sweep
         /\ conv < Conv => Result(j) = sweep - 1
<1>1. sweep \in Nat /\ conv \in 0 .. Sweep
  BY DEF PacerInv
<1>2. Eoc(j) \in Nat /\ Conv <= Eoc(j) /\ Eoc(j) <= Sweep /\ Sweep \in Nat /\ Conv \in Nat
  BY SweepTimes
<1>3. QED
  BY <1>1, <1>2 DEF Result, Swept

\* One tick of the pacer.
LEMMA PacerCounts ==
  ASSUME PacerInv, FlagsInv, PacerTick
  PROVE  /\ running = TRUE /\ running' = running
         /\ {ctr, conv, sweep, body, armed} \subseteq Nat
         /\ conv <= Sweep /\ ctr < Period /\ (conv < Sweep => ctr = conv)
         /\ Period \in Nat /\ Sweep \in Nat \ {0} /\ Sweep < Period
         /\ ctr + 1 < Period =>
              /\ ctr' = ctr + 1 /\ sweep' = sweep
              /\ conv' = (IF conv < Sweep THEN conv + 1 ELSE conv)
         /\ ctr + 1 = Period =>
              /\ ctr' = 0 /\ conv' = 0 /\ sweep' = sweep + 1
              /\ conv = Sweep
         /\ conv + 1 = Sweep => flagA' = TRUE /\ flagC' = TRUE
         /\ conv + 1 # Sweep => flagA' = flagA /\ flagC' = flagC
<1>0. running = TRUE
  BY DEF FlagsInv, PacerTick
<1>1. /\ {ctr, conv, sweep, body, armed} \subseteq Nat
      /\ conv <= Sweep /\ ctr < Period /\ (conv < Sweep => ctr = conv)
      /\ Period \in Nat /\ Sweep \in Nat \ {0} /\ Sweep < Period
  BY <1>0, SweepTimes DEF PacerInv
<1>2. /\ ctr' = (ctr + 1) % Period /\ running' = running
      /\ IF ctr' = 0 THEN sweep' = sweep + 1 /\ conv' = 0
         ELSE conv' = (IF conv < Sweep THEN conv + 1 ELSE conv) /\ sweep' = sweep
  BY DEF PacerTick
<1>3. conv + 1 = Sweep => flagA' = TRUE /\ flagC' = TRUE
  BY DEF PacerTick
<1>4. conv + 1 # Sweep => flagA' = flagA /\ flagC' = flagC
  BY DEF PacerTick
<1>5. ASSUME ctr + 1 < Period
      PROVE  /\ ctr' = ctr + 1 /\ sweep' = sweep
             /\ conv' = (IF conv < Sweep THEN conv + 1 ELSE conv)
  <2>1. ctr' = ctr + 1
    BY <1>1, <1>2, <1>5
  <2>2. ctr' # 0
    BY <1>1, <2>1
  <2>3. QED
    BY <1>2, <2>1, <2>2
<1>6. ASSUME ctr + 1 = Period
      PROVE  ctr' = 0 /\ conv' = 0 /\ sweep' = sweep + 1 /\ conv = Sweep
  <2>1. ctr' = 0
    BY <1>1, <1>2, <1>6
  <2>2. conv = Sweep
    BY <1>1, <1>6
  <2>3. QED
    BY <1>2, <2>1, <2>2
<1>7. QED
  BY <1>0, <1>1, <1>2, <1>3, <1>4, <1>5, <1>6

\* Time never takes a result back.
LEMMA ResultsGrow ==
  ASSUME PacerInv, FlagsInv, PacerTick
  PROVE  /\ \A j \in 1 .. Socs : Result(j) <= Result(j)'
         /\ Swept <= Swept'
<1>1. Sweep \in Nat \ {0} /\ \A j \in 1 .. Socs : Eoc(j) \in Nat \ {0}
  BY SweepTimes
<1>2. sweep \in Nat /\ conv \in Nat /\ conv <= Sweep /\ ctr \in Nat /\ ctr < Period
      /\ Period \in Nat
  BY PacerCounts, SweepTimes
<1>3. CASE ctr + 1 < Period
  BY <1>1, <1>2, <1>3, PacerCounts DEF Result, Swept
<1>4. CASE ctr + 1 = Period
  BY <1>1, <1>2, <1>4, PacerCounts DEF Result, Swept
<1>5. QED
  BY <1>2, <1>3, <1>4

\* Where the hooks are before the capture and after it.
Early == {"burst", "receive", "clear_A"}
Late == {"freeze", "restore", "done"}

LEMMA Elsewhere ==
  ASSUME CaptureInv, UNCHANGED <<adc, capture>>,
         \/ at \in Early /\ at' \in Early /\ running' = running
         \/ at \in Late /\ at' \in Late /\ running' \in {FALSE, running}
  PROVE  CaptureInv'
<1>1. UNCHANGED <<flagA, flagC, ctr, sweep, conv, wave, row, armed, body, tight>>
  BY DEF adc, capture
<1>2. PacerInv'
  BY <1>1 DEF CaptureInv, PacerInv, FlagsInv, Early, Late
<1>8. FlagsInv'
  BY <1>1 DEF CaptureInv, FlagsInv, Early, Late
<1>3. RowsInv'
  BY <1>1 DEF CaptureInv, RowsInv, Early, Late
<1>4. FreshInv'
  BY <1>1 DEF CaptureInv, FreshInv, InRow, Swept, Early, Late
<1>5. OrderInv'
  BY <1>1 DEF CaptureInv, OrderInv, Result
<1>6. TightInv'
  BY <1>1 DEF CaptureInv, TightInv, InRow, RowsAreSweeps, Early, Late
<1>7. QED
  BY <1>2, <1>3, <1>4, <1>5, <1>6, <1>8 DEF CaptureInv

\* The flags are cleared, and seen.
LEMMA FlagSteps ==
  ASSUME CaptureInv,
         \/ Clear_A("clear_A", "clear_C") \/ Clear_C("clear_C", "arm")
         \/ Poll_A \/ Poll_C
         \/ Clear_A("ack_A", "ack_C") \/ Clear_C("ack_C", "read")
  PROVE  CaptureInv'
<1>1. UNCHANGED <<ctr, sweep, conv, wave, row, armed, body, tight, running>>
  BY DEF Clear_A, Clear_C, Poll_A, Poll_C, adc, capture
<1>2. \/ at = "clear_A" /\ at' = "clear_C" /\ flagA' = FALSE /\ flagC' = flagC
      \/ at = "clear_C" /\ at' = "arm" /\ flagA' = flagA /\ flagC' = FALSE
      \/ at = "poll_A" /\ at' = "poll_C" /\ flagA' = flagA /\ flagC' = flagC /\ flagA
      \/ at = "poll_C" /\ at' = "ack_A" /\ flagA' = flagA /\ flagC' = flagC
      \/ at = "ack_A" /\ at' = "ack_C" /\ flagA' = FALSE /\ flagC' = flagC
      \/ at = "ack_C" /\ at' = "read" /\ flagA' = flagA /\ flagC' = FALSE
  BY DEF Clear_A, Clear_C, Poll_A, Poll_C, Goto, adc
<1>3. PacerInv'
  BY <1>1, <1>2 DEF CaptureInv, PacerInv
<1>11. FlagsInv'
  BY <1>1, <1>2 DEF CaptureInv, FlagsInv
<1>4. RowsInv'
  BY <1>1, <1>2 DEF CaptureInv, RowsInv
<1>5. InRow' => InRow
  BY <1>2 DEF InRow
<1>6. Swept' = Swept
  BY <1>1 DEF Swept
<1>7. FreshInv'
  BY <1>1, <1>2, <1>5, <1>6 DEF CaptureInv, FreshInv
<1>8. OrderInv'
  BY <1>1 DEF CaptureInv, OrderInv, Result
<1>9. TightInv'
  BY <1>1, <1>2, <1>5 DEF CaptureInv, TightInv, RowsAreSweeps
<1>10. QED
  BY <1>3, <1>4, <1>7, <1>8, <1>9, <1>11 DEF CaptureInv

\* The pacer is started.
LEMMA ArmStep ==
  ASSUME CaptureInv, Arm
  PROVE  CaptureInv'
<1>1. /\ at = "arm" /\ at' = "poll_A" /\ running' = TRUE /\ ctr' = 0
      /\ \/ sweep' = sweep + 1 /\ conv' = 0
         \/ sweep' = sweep /\ conv' = conv
      /\ armed' = sweep
      /\ UNCHANGED <<flagA, flagC, wave, row, body, tight>>
  BY DEF Arm, Goto
<1>2. /\ sweep \in Nat /\ body \in Nat /\ conv = Sweep /\ wave = << >> /\ row = << >>
      /\ flagA = FALSE /\ flagC = FALSE /\ tight \in BOOLEAN
  BY <1>1 DEF CaptureInv, PacerInv, FlagsInv, RowsInv
<1>3. Sweep \in Nat \ {0} /\ 0 \in 0 .. Sweep /\ Sweep \in 0 .. Sweep /\ 0 \in 0 .. Period - 1
  BY SweepTimes
<1>4. PacerInv'
  BY <1>1, <1>2, <1>3 DEF CaptureInv, PacerInv
<1>12. FlagsInv'
  BY <1>1, <1>2 DEF CaptureInv, FlagsInv
<1>5. RowsInv'
  BY <1>1 DEF CaptureInv, RowsInv
<1>6. Swept' = sweep /\ ~InRow'
  BY <1>1, <1>2, <1>3 DEF Swept, InRow
<1>7. wave' = << >> /\ row' = << >> /\ Len(wave') = 0 /\ Len(row') = 0
  BY <1>1, <1>2
<1>8. FreshInv'
  BY <1>1, <1>2, <1>6, <1>7 DEF FreshInv
<1>9. OrderInv'
  BY <1>7 DEF OrderInv
<1>10. TightInv'
  BY <1>1, <1>2, <1>3, <1>6, <1>7 DEF TightInv, RowsAreSweeps
<1>11. QED
  BY <1>4, <1>5, <1>8, <1>9, <1>10, <1>12 DEF CaptureInv

\* What a result added to the row under way is.
LEMMA NextResult ==
  ASSUME CaptureInv, at = "read"
  PROVE  LET j == Len(row) + 1
             r == Result(SocOf(j)) IN
         /\ j \in 1 .. 2 * Socs /\ SocOf(j) \in 1 .. Socs /\ r \in Int
         /\ r >= armed + Len(wave) + 1
         /\ wave # << >> => wave[Len(wave)][j] <= r
         /\ tight = TRUE /\ body <= Slack => r = armed + Len(wave) + 1
<1> DEFINE j == Len(row) + 1  r == Result(SocOf(j))  w == Len(wave)
<1>1. /\ Len(row) \in Nat /\ w \in Nat /\ j \in 1 .. 2 * Socs /\ j \in Nat \ {0}
      /\ armed \in Nat /\ sweep \in Nat /\ body \in Nat /\ conv \in 0 .. Sweep
  BY PacerAssumption DEF CaptureInv, RowsInv, PacerInv
<1>2. SocOf(j) \in 1 .. Socs
  BY <1>1, SocRange
<1>3. /\ r \in Int /\ Swept \in Int /\ Swept <= r /\ r <= sweep
      /\ conv = Sweep => r = sweep
      /\ conv < Conv => r = sweep - 1
  BY <1>2, ResultBounds DEF CaptureInv
<1>4. Swept >= armed + w + 1
  BY DEF CaptureInv, FreshInv, InRow
<1>5. wave # << >> => wave[Len(wave)][j] <= r
  BY <1>1 DEF CaptureInv, OrderInv
<1> HIDE DEF r, j, w
<1>6. r >= armed + w + 1
  BY <1>1, <1>3, <1>4
<1>7. ASSUME tight = TRUE, body <= Slack
      PROVE  r = armed + w + 1
  <2>1. IF Sweep + body < Period
          THEN sweep = armed + w + 1 /\ conv = Sweep
          ELSE sweep = armed + w + 2 /\ conv = Sweep + body - Period
    BY <1>7 DEF CaptureInv, TightInv, InRow, w
  <2>2. CASE Sweep + body < Period
    BY <1>3, <2>1, <2>2
  <2>3. CASE ~(Sweep + body < Period)
    <3>1. sweep = armed + w + 2 /\ conv = Sweep + body - Period
      BY <2>1, <2>3
    <3>2. conv < Conv
      BY <1>1, <1>7, <3>1, SweepTimes DEF Slack
    <3>3. QED
      BY <1>1, <1>3, <3>1, <3>2
  <2>4. QED
    BY <2>2, <2>3
<1>8. QED
  BY <1>1, <1>2, <1>3, <1>5, <1>6, <1>7 DEF r, j, w

\* A result is read, and the row goes on.
LEMMA ReadStep ==
  ASSUME CaptureInv, at = "read", at' = at, UNCHANGED <<adc, running, armed>>,
         UNCHANGED <<wave, body, tight>>,
         row' = Append(row, Result(SocOf(Len(row) + 1))), Len(row') < 2 * Socs
  PROVE  CaptureInv'
<1> DEFINE r == Result(SocOf(Len(row) + 1))
<1>1. UNCHANGED <<flagA, flagC, ctr, sweep, conv>>
  BY DEF adc
<1>2. /\ row \in Seq(Int) /\ r \in Int /\ Len(row) \in Nat
      /\ r >= armed + Len(wave) + 1
      /\ wave # << >> => wave[Len(wave)][Len(row) + 1] <= r
      /\ tight = TRUE /\ body <= Slack => r = armed + Len(wave) + 1
  <2>1. row \in Seq(Int) /\ Len(row) \in Nat
    BY DEF CaptureInv, RowsInv
  <2>2. QED
    BY <2>1, NextResult
<1>3. /\ row' \in Seq(Int) /\ Len(row') = Len(row) + 1
      /\ \A j \in 1 .. Len(row') : \/ j \in 1 .. Len(row) /\ row'[j] = row[j]
                                   \/ j = Len(row) + 1 /\ row'[j] = r
  BY <1>2
<1> HIDE DEF r
<1>4. PacerInv' /\ FlagsInv'
  <2>1. PacerInv'
    BY <1>1 DEF CaptureInv, PacerInv
  <2>2. FlagsInv'
    BY <1>1 DEF CaptureInv, FlagsInv
  <2>3. QED
    BY <2>1, <2>2
<1>5. RowsInv'
  BY <1>3 DEF CaptureInv, RowsInv
<1>6. /\ Swept' = Swept /\ (InRow' <=> InRow)
      /\ \A j \in 1 .. Socs : Result(j)' = Result(j)
  BY <1>1 DEF Swept, InRow, Result
<1>7. FreshInv'
  BY <1>1, <1>2, <1>3, <1>6 DEF CaptureInv, FreshInv
<1>8. \A j \in 1 .. Len(row') : SocOf(j) \in 1 .. Socs
  BY <1>2, <1>3, SocRange
<1>9. \A j \in 1 .. Len(row') : row'[j] <= Result(SocOf(j))
  BY <1>2, <1>3, <1>8, NextResult, ResultBounds DEF CaptureInv, OrderInv, r
<1>10. OrderInv'
  <2>1. \A j \in 1 .. 2 * Socs : SocOf(j) \in 1 .. Socs
    BY SocRange
  <2>2. QED
    BY <1>2, <1>3, <1>6, <1>8, <1>9, <2>1 DEF CaptureInv, OrderInv
<1>11. TightInv'
  <2>1. RowsAreSweeps' <=> RowsAreSweeps
    BY DEF RowsAreSweeps
  <2>2. QED
    BY <1>1, <1>2, <1>3, <1>6, <2>1 DEF CaptureInv, TightInv, FlagsInv
<1>12. QED
  BY <1>4, <1>5, <1>7, <1>10, <1>11 DEF CaptureInv

\* The last result of a row is read, and the row is stored.
LEMMA StoreStep ==
  ASSUME CaptureInv, at = "read", UNCHANGED <<adc, running, armed>>,
         NEW full, full = Append(row, Result(SocOf(Len(row) + 1))),
         Len(full) = 2 * Socs,
         wave' = Append(wave, full), row' = << >>, body' = 0,
         tight' = (tight /\ body <= Slack),
         at' = "poll_A" \/ at' = "freeze"
  PROVE  CaptureInv'
<1> DEFINE r == Result(SocOf(Len(row) + 1))  w == Len(wave)
<1>1. UNCHANGED <<flagA, flagC, ctr, sweep, conv>> /\ armed' = armed
  BY DEF adc
<1>2. /\ row \in Seq(Int) /\ Len(row) \in Nat /\ w \in Nat /\ wave \in Seq(Seq(Int))
      /\ armed \in Nat /\ sweep \in Nat /\ conv \in 0 .. Sweep /\ body \in Nat
  BY DEF CaptureInv, RowsInv, PacerInv
<1>3. /\ r \in Int /\ r >= armed + w + 1
      /\ w # 0 => wave[w][Len(row) + 1] <= r
      /\ tight = TRUE /\ body <= Slack => r = armed + w + 1
  BY <1>2, NextResult
<1>4. /\ full \in Seq(Int) /\ 2 * Socs = Len(row) + 1
      /\ \A j \in 1 .. 2 * Socs : \/ j \in 1 .. Len(row) /\ full[j] = row[j]
                                  \/ j = Len(row) + 1 /\ full[j] = r
  BY <1>2, <1>3
<1>5. /\ wave' \in Seq(Seq(Int)) /\ Len(wave') = w + 1 /\ wave'[w + 1] = full
      /\ \A n \in 1 .. w : wave'[n] = wave[n]
  BY <1>2, <1>4
<1> HIDE DEF r
<1>6. PacerInv'
  BY <1>1, <1>2 DEF CaptureInv, PacerInv
<1>7. FlagsInv'
  BY <1>1 DEF CaptureInv, FlagsInv
<1>8. RowsInv'
  <2>1. 2 * Socs \in Nat \ {0}
    BY PacerAssumption
  <2>2. row' \in Seq(Int) /\ Len(row') = 0
    OBVIOUS
  <2>3. \A n \in 1 .. Len(wave') : Len(wave'[n]) = 2 * Socs
    BY <1>2, <1>5 DEF CaptureInv, RowsInv
  <2>4. QED
    BY <1>5, <2>1, <2>2, <2>3 DEF RowsInv
<1>9. \A j \in 1 .. 2 * Socs : full[j] \in Int /\ full[j] >= armed + w + 1
  BY <1>3, <1>4 DEF CaptureInv, FreshInv
<1>10. Swept' = Swept /\ Swept \in Int /\ Swept >= armed + w + 1
       /\ (flagA => Swept >= armed + w + 2)
  BY <1>1, <1>2, SweepTimes DEF Swept, CaptureInv, FreshInv, InRow
<1>11. FreshInv'
  <2>1. InRow' <=> at' = "poll_A" /\ flagA
    BY <1>1 DEF InRow
  <2>2. \A n \in 1 .. Len(wave'), j \in 1 .. 2 * Socs : wave'[n][j] >= armed + n
    <3> SUFFICES ASSUME NEW n \in 1 .. Len(wave'), NEW j \in 1 .. 2 * Socs
                 PROVE  wave'[n][j] >= armed + n
      OBVIOUS
    <3>1. CASE n = w + 1
      BY <1>2, <1>5, <1>9, <3>1
    <3>2. CASE n # w + 1
      <4>1. n \in 1 .. w
        BY <1>2, <1>5, <3>2
      <4>2. QED
        BY <1>5, <4>1 DEF CaptureInv, FreshInv
    <3>3. QED
      BY <3>1, <3>2
  <2>3. Len(row') = 0
    OBVIOUS
  <2>4. QED
    <3>1. at' = "poll_A" => Swept' >= armed' + Len(wave')
      BY <1>1, <1>2, <1>5, <1>10
    <3>2. InRow' => Swept' >= armed' + Len(wave') + 1
      BY <1>1, <1>2, <1>5, <1>10, <2>1
    <3>3. at' \in {"ack_C", "read"} /\ flagA' => Swept' >= armed' + Len(wave') + 2
      OBVIOUS
    <3>4. \A j \in 1 .. Len(row') : row'[j] >= armed' + Len(wave') + 1
      BY <2>3
    <3>5. \A n \in 1 .. Len(wave'), j \in 1 .. 2 * Socs : wave'[n][j] >= armed' + n
      BY <1>1, <2>2
    <3>6. QED
      BY <3>1, <3>2, <3>3, <3>4, <3>5 DEF FreshInv
<1>12. \A j \in 1 .. 2 * Socs : SocOf(j) \in 1 .. Socs
  <2>1. \A j \in 1 .. 2 * Socs : j \in Nat \ {0}
    BY PacerAssumption
  <2>2. QED
    BY <2>1, SocRange
<1>13. \A j \in 1 .. 2 * Socs : full[j] <= Result(SocOf(j))
  <2>1. r <= Result(SocOf(Len(row) + 1))
    BY <1>3 DEF r
  <2>2. QED
    BY <1>4, <2>1 DEF CaptureInv, OrderInv
<1>14. OrderInv'
  <2>1. \A j \in 1 .. Socs : Result(j)' = Result(j)
    BY <1>1 DEF Result
  <2>2. w # 0 => \A j \in 1 .. 2 * Socs : wave[w][j] <= full[j]
    BY <1>2, <1>3, <1>4 DEF CaptureInv, OrderInv
  <2>3. \A n \in 1 .. Len(wave') - 1, j \in 1 .. 2 * Socs : wave'[n][j] <= wave'[n + 1][j]
    <3> SUFFICES ASSUME NEW n \in 1 .. Len(wave') - 1, NEW j \in 1 .. 2 * Socs
                 PROVE  wave'[n][j] <= wave'[n + 1][j]
      OBVIOUS
    <3>1. CASE n = w
      BY <1>2, <1>5, <2>2, <3>1
    <3>2. CASE n # w
      <4>1. n \in 1 .. w - 1 /\ n + 1 \in 1 .. w /\ n \in 1 .. w
        BY <1>2, <1>5, <3>2
      <4>2. QED
        BY <1>5, <4>1 DEF CaptureInv, OrderInv
    <3>3. QED
      BY <3>1, <3>2
  <2>4. Len(row') = 0
    OBVIOUS
  <2>5. \A j \in 1 .. 2 * Socs : wave'[Len(wave')][j] <= Result(SocOf(j))'
    BY <1>5, <1>12, <1>13, <2>1
  <2>6. QED
    BY <2>3, <2>4, <2>5 DEF OrderInv
<1>15. TightInv'
  <2> SUFFICES ASSUME tight' PROVE TightInv'
    BY DEF TightInv
  <2>1. tight = TRUE /\ body <= Slack
    BY DEF CaptureInv, FlagsInv
  <2>2. \A j \in 1 .. 2 * Socs : full[j] = armed + w + 1
    BY <1>3, <1>4, <2>1 DEF CaptureInv, TightInv, InRow
  <2>3. RowsAreSweeps'
    <3> SUFFICES ASSUME NEW n \in 1 .. Len(wave'), NEW j \in 1 .. 2 * Socs
                 PROVE  wave'[n][j] = armed' + n
      BY DEF RowsAreSweeps
    <3>1. CASE n = w + 1
      BY <1>1, <1>2, <1>5, <2>2, <3>1
    <3>2. CASE n # w + 1
      <4>1. n \in 1 .. w
        BY <1>2, <1>5, <3>2
      <4>2. QED
        BY <1>1, <1>5, <2>1, <4>1 DEF CaptureInv, TightInv, RowsAreSweeps
    <3>3. QED
      BY <3>1, <3>2
  <2>4. flagA = FALSE /\ flagC = FALSE
    BY <2>1 DEF CaptureInv, FlagsInv, TightInv, InRow
  <2>5. IF Sweep + body < Period
          THEN sweep = armed + w + 1 /\ conv = Sweep
          ELSE sweep = armed + w + 2 /\ conv = Sweep + body - Period
    BY <2>1 DEF CaptureInv, TightInv, InRow
  <2>6. sweep = armed + w + 1 + (IF conv < Sweep THEN 1 ELSE 0)
    <3>1. CASE Sweep + body < Period
      BY <1>2, <2>5, <3>1, SweepTimes
    <3>2. CASE ~(Sweep + body < Period)
      <4>1. sweep = armed + w + 2 /\ conv = Sweep + body - Period
        BY <2>5, <3>2
      <4>2. conv < Sweep
        BY <1>2, <2>1, <4>1, SweepTimes DEF Slack
      <4>3. QED
        BY <1>2, <4>1, <4>2
    <3>3. QED
      BY <3>1, <3>2
  <2>7. ~InRow' /\ flagC' = FALSE
    BY <1>1, <2>4 DEF InRow
  <2>8. sweep' = armed' + Len(wave') + (IF conv' < Sweep THEN 1 ELSE 0)
    BY <1>1, <1>2, <1>5, <2>6
  <2>9. QED
    BY <2>3, <2>7, <2>8 DEF TightInv
<1>16. QED
  BY <1>6, <1>7, <1>8, <1>11, <1>14, <1>15 DEF CaptureInv

\* ReadResult as one of these two.
LEMMA StoredRow ==
  ASSUME CaptureInv, ReadResult
  PROVE  CaptureInv'
<1> DEFINE r == Result(SocOf(Len(row) + 1))
<1>1. /\ at = "read" /\ row \in Seq(Int) /\ Len(row) \in Nat /\ Len(row) < 2 * Socs
      /\ 2 * Socs \in Nat
  BY PacerAssumption DEF ReadResult, CaptureInv, RowsInv
<1>2. r \in Int
  BY <1>1, NextResult
<1>3. Result((Len(row) % Socs) + 1) = r
  <2>1. Len(row) + 1 - 1 = Len(row)
    BY <1>1
  <2>2. QED
    BY <2>1 DEF SocOf
<1> HIDE DEF r
<1>4. row \o <<r>> = Append(row, r) /\ Len(Append(row, r)) = Len(row) + 1
  BY <1>1, <1>2, AppendIsConcat
<1>5. UNCHANGED <<adc, running, armed>>
  BY DEF ReadResult
<1>6. CASE Len(row) + 1 < 2 * Socs
  <2>1. row' = Append(row, r) /\ UNCHANGED <<at, wave, body, tight>>
    BY <1>3, <1>4, <1>6 DEF ReadResult
  <2>2. QED
    BY <1>1, <1>4, <1>5, <1>6, <2>1, ReadStep DEF r
<1>7. CASE ~(Len(row) + 1 < 2 * Socs)
  <2>1. /\ wave' = wave \o <<Append(row, r)>> /\ row' = << >>
        /\ tight' = (tight /\ body <= Slack) /\ body' = 0
        /\ at' = "poll_A" \/ at' = "freeze"
    BY <1>3, <1>4, <1>7 DEF ReadResult
  <2>2. Len(Append(row, r)) = 2 * Socs
    BY <1>1, <1>4, <1>7
  <2>3. wave' = Append(wave, Append(row, r))
    <3>1. wave \in Seq(Seq(Int)) /\ Append(row, r) \in Seq(Int)
      BY <1>1, <1>2 DEF CaptureInv, RowsInv
    <3>2. QED
      BY <2>1, <3>1, AppendIsConcat
  <2>4. QED
    BY <1>1, <1>5, <2>1, <2>2, <2>3, StoreStep DEF r
<1>8. QED
  BY <1>6, <1>7

\* The pacer ticks.
LEMMA TickStep ==
  ASSUME CaptureInv, PacerTick, at \in Captures \cup {"burst", "receive", "restore", "done"}
  PROVE  CaptureInv'
<1> DEFINE w == Len(wave)
<1>1. PacerInv /\ FlagsInv /\ RowsInv /\ FreshInv /\ OrderInv /\ TightInv
  BY DEF CaptureInv
<1>2. /\ {ctr, conv, sweep, body, armed} \subseteq Nat
      /\ conv <= Sweep /\ ctr < Period /\ (conv < Sweep => ctr = conv)
      /\ Period \in Nat /\ Sweep \in Nat \ {0} /\ Sweep < Period
  BY <1>1, PacerCounts
<1>3. /\ running = TRUE /\ running' = TRUE
      /\ conv + 1 = Sweep => flagA' = TRUE /\ flagC' = TRUE
      /\ conv + 1 # Sweep => flagA' = flagA /\ flagC' = flagC
  BY <1>1, PacerCounts
<1>4. \/ /\ ctr + 1 < Period /\ ctr' = ctr + 1 /\ sweep' = sweep
         /\ conv' = (IF conv < Sweep THEN conv + 1 ELSE conv)
      \/ /\ ctr + 1 = Period /\ ctr' = 0 /\ conv' = 0 /\ sweep' = sweep + 1
         /\ conv = Sweep
  BY <1>1, <1>2, PacerCounts
<1>5. UNCHANGED <<at, wave, row, armed, tight>>
  BY DEF PacerTick
<1>6. body' = IF Waiting THEN 0 ELSE body + 1
  BY DEF PacerTick
<1>7. /\ \A j \in 1 .. Socs : Result(j) <= Result(j)'
      /\ Swept <= Swept' /\ Swept \in Int /\ Swept' \in Int
  BY <1>1, <1>2, <1>4, ResultsGrow DEF Swept
<1>8. \A j \in 1 .. Socs : Result(j) \in Int /\ Result(j)' \in Int
  BY <1>2, <1>4 DEF Result
<1>9. at \notin {"burst", "receive", "clear_A", "clear_C", "arm"}
  BY <1>1, <1>3 DEF FlagsInv
<1>10. PacerInv'
  <2>1. /\ sweep' \in Nat /\ armed' \in Nat /\ body' \in Nat
        /\ conv' \in 0 .. Sweep /\ ctr' \in 0 .. Period - 1
        /\ conv' < Sweep => ctr' = conv'
    BY <1>2, <1>4, <1>5, <1>6
  <2>2. QED
    BY <1>5, <1>9, <2>1 DEF PacerInv
<1>11. FlagsInv'
  BY <1>1, <1>3, <1>5, <1>9 DEF FlagsInv
<1>12. RowsInv'
  BY <1>1, <1>5 DEF RowsInv
<1>13. w \in Nat /\ Len(row) \in Nat /\ Len(row) < 2 * Socs /\ row \in Seq(Int)
       /\ wave \in Seq(Seq(Int)) /\ 2 * Socs \in Nat
       /\ \A n \in 1 .. w : Len(wave[n]) = 2 * Socs
  BY <1>1, PacerAssumption DEF RowsInv
\* A flag newly set is that of a sweep that ends with this tick.
<1>14. flagA' # flagA => Swept' = sweep /\ Swept = sweep - 1
  BY <1>2, <1>3, <1>4 DEF Swept
<1>15. FreshInv'
  <2>1. at = "poll_A" => Swept' >= armed + w
    BY <1>1, <1>2, <1>7, <1>13 DEF FreshInv
  <2>2. InRow' => Swept' >= armed + w + 1
    <3>1. CASE InRow
      BY <1>1, <1>2, <1>7, <1>13, <3>1 DEF FreshInv
    <3>2. CASE InRow' /\ ~InRow
      <4>1. at = "poll_A" /\ flagA' # flagA
        BY <1>5, <3>2 DEF InRow
      <4>2. Swept >= armed + w
        BY <1>1, <4>1 DEF FreshInv
      <4>3. QED
        BY <1>2, <1>13, <1>14, <4>1, <4>2
    <3>3. QED
      BY <3>1, <3>2
  <2>3. at \in {"ack_C", "read"} /\ flagA' => Swept' >= armed + w + 2
    <3>1. CASE at \in {"ack_C", "read"} /\ flagA
      BY <1>1, <1>2, <1>7, <1>13, <3>1 DEF FreshInv
    <3>2. CASE at \in {"ack_C", "read"} /\ flagA' # flagA
      <4>1. Swept >= armed + w + 1
        BY <1>1, <3>2 DEF FreshInv, InRow
      <4>2. QED
        BY <1>2, <1>13, <1>14, <3>2, <4>1
    <3>3. QED
      BY <3>1, <3>2
  <2>4. QED
    BY <1>1, <1>5, <2>1, <2>2, <2>3 DEF FreshInv
<1>16. OrderInv'
  <2>1. \A j \in 1 .. 2 * Socs : SocOf(j) \in 1 .. Socs
    BY SocRange
  <2>2. \A j \in 1 .. Len(row) : row[j] \in Int /\ row[j] <= Result(SocOf(j))'
    <3> SUFFICES ASSUME NEW j \in 1 .. Len(row)
                 PROVE  row[j] \in Int /\ row[j] <= Result(SocOf(j))'
      OBVIOUS
    <3>1. j \in 1 .. 2 * Socs /\ row[j] \in Int /\ SocOf(j) \in 1 .. Socs
      BY <1>13, <2>1
    <3>2. row[j] <= Result(SocOf(j))
      BY <1>1 DEF OrderInv
    <3>3. QED
      BY <1>7, <1>8, <3>1, <3>2
  <2>3. wave # << >> => \A j \in 1 .. 2 * Socs : wave[w][j] <= Result(SocOf(j))'
    <3> SUFFICES ASSUME wave # << >>, NEW j \in 1 .. 2 * Socs
                 PROVE  wave[w][j] <= Result(SocOf(j))'
      OBVIOUS
    <3>1. w \in 1 .. w /\ wave[w] \in Seq(Int) /\ Len(wave[w]) = 2 * Socs
      BY <1>13
    <3>2. wave[w][j] \in Int
      BY <3>1
    <3>3. wave[w][j] <= Result(SocOf(j))
      BY <1>1 DEF OrderInv
    <3>4. QED
      BY <1>7, <1>8, <2>1, <3>2, <3>3
  <2>4. QED
    BY <1>1, <1>5, <2>2, <2>3 DEF OrderInv
<1>17. TightInv'
  <2> SUFFICES ASSUME tight = TRUE PROVE TightInv'
    BY <1>1, <1>5 DEF TightInv, FlagsInv
  <2>1. RowsAreSweeps'
    BY <1>1, <1>5 DEF TightInv, RowsAreSweeps
  <2>2. ASSUME at = "poll_A", ~flagA'
        PROVE  ~flagC' /\ sweep' = armed + w + (IF conv' < Sweep THEN 1 ELSE 0)
    <3>1. conv + 1 # Sweep /\ flagA' = flagA /\ flagC' = flagC
      BY <1>3, <2>2
    <3>2. ~flagC' /\ sweep = armed + w + (IF conv < Sweep THEN 1 ELSE 0)
      BY <1>1, <2>2, <3>1 DEF TightInv
    <3>3. QED
      BY <1>2, <1>4, <1>13, <3>1, <3>2
  <2>3. ASSUME InRow', at \in {"poll_A", "poll_C"}
        PROVE  flagC'
    <3>1. CASE InRow
      BY <1>1, <1>3, <2>3, <3>1 DEF TightInv
    <3>2. CASE ~InRow
      BY <1>3, <1>5, <2>3, <3>2 DEF InRow
    <3>3. QED
      BY <3>1, <3>2
  <2>4. ASSUME InRow', body' <= Slack
        PROVE  /\ IF Sweep + body' < Period
                    THEN sweep' = armed + w + 1 /\ conv' = Sweep /\ ctr' = Sweep + body'
                    ELSE sweep' = armed + w + 2 /\ conv' = Sweep + body' - Period
               /\ at \in {"ack_C", "read"} => ~flagA'
               /\ at = "read" => ~flagC'
               /\ \A j \in 1 .. Len(row) : row[j] = armed + w + 1
    <3>1. CASE ~InRow
      <4>1. at = "poll_A" /\ ~flagA /\ conv + 1 = Sweep
        BY <1>3, <1>5, <2>4, <3>1 DEF InRow
      <4>2. body' = 0 /\ row = << >>
        BY <1>1, <1>6, <4>1 DEF Waiting, RowsInv
      <4>3. sweep = armed + w + 1
        BY <1>1, <1>2, <1>13, <4>1 DEF TightInv
      <4>4. sweep' = sweep /\ conv' = Sweep /\ ctr' = Sweep
        BY <1>2, <1>4, <4>1
      <4>5. Len(row) = 0
        BY <4>2
      <4>6. QED
        BY <1>2, <4>1, <4>2, <4>3, <4>4, <4>5
    <3>2. CASE InRow
      <4>1. ~Waiting
        BY <1>1, <3>2 DEF InRow, Waiting, TightInv
      <4>2. body' = body + 1 /\ body <= Slack /\ Slack \in Int
            /\ Slack < Period - Sweep + Conv /\ Conv <= Sweep /\ Conv \in Nat
        BY <1>2, <1>6, <2>4, <4>1, SweepTimes DEF Slack
      <4>3. /\ IF Sweep + body < Period
                 THEN sweep = armed + w + 1 /\ conv = Sweep /\ ctr = Sweep + body
                 ELSE sweep = armed + w + 2 /\ conv = Sweep + body - Period
            /\ at \in {"ack_C", "read"} => ~flagA
            /\ at = "read" => ~flagC
            /\ \A j \in 1 .. Len(row) : row[j] = armed + w + 1
        BY <1>1, <3>2, <4>2 DEF TightInv
      <4>4. /\ conv + 1 # Sweep
            /\ IF Sweep + body' < Period
                 THEN sweep' = armed + w + 1 /\ conv' = Sweep /\ ctr' = Sweep + body'
                 ELSE sweep' = armed + w + 2 /\ conv' = Sweep + body' - Period
        <5> HIDE DEF w
        <5>1. CASE Sweep + body < Period
          <6>1. sweep = armed + w + 1 /\ conv = Sweep /\ ctr = Sweep + body
            BY <4>3, <5>1
          <6>2. CASE Sweep + body' < Period
            <7>1. ctr + 1 < Period
              BY <4>2, <6>1, <6>2, <1>2
            <7>2. ctr' = ctr + 1 /\ sweep' = sweep /\ conv' = conv
              BY <1>2, <1>4, <6>1, <7>1
            <7>3. QED
              BY <1>2, <4>2, <6>1, <6>2, <7>2
          <6>3. CASE ~(Sweep + body' < Period)
            <7>1. ctr + 1 = Period
              BY <1>2, <4>2, <6>1, <6>3
            <7>2. ctr' = 0 /\ sweep' = sweep + 1 /\ conv' = 0
              BY <1>2, <1>4, <7>1
            <7>3. conv + 1 # Sweep /\ Sweep + body' - Period = 0
              BY <1>2, <4>2, <6>1, <7>1
            <7>4. sweep' = armed + w + 2
              BY <1>2, <1>13, <6>1, <7>2
            <7>5. QED
              BY <6>3, <7>2, <7>3, <7>4
          <6>4. QED
            BY <6>2, <6>3
        <5>2. CASE ~(Sweep + body < Period)
          <6>1. sweep = armed + w + 2 /\ conv = Sweep + body - Period
            BY <4>3, <5>2
          <6>2. conv + 1 < Sweep
            BY <1>2, <2>4, <4>2, <6>1
          <6>3. conv' = conv + 1 /\ sweep' = sweep
            BY <1>2, <1>4, <6>2
          <6>4. QED
            BY <1>2, <4>2, <5>2, <6>1, <6>2, <6>3
        <5>3. QED
          BY <5>1, <5>2
      <4>5. flagA' = flagA /\ flagC' = flagC
        BY <1>3, <4>4
      <4>6. QED
        BY <4>3, <4>4, <4>5
    <3>3. QED
      BY <3>1, <3>2
  <2>5. QED
    BY <1>5, <2>1, <2>2, <2>3, <2>4 DEF TightInv
<1>18. QED
  BY <1>10, <1>11, <1>12, <1>15, <1>16, <1>17 DEF CaptureInv

LEMMA CaptureInit == ScanInit => CaptureInv
<1> SUFFICES ASSUME ScanInit PROVE CaptureInv
  OBVIOUS
<1>1. /\ at = "burst" /\ running = FALSE /\ tight = TRUE /\ body = 0 /\ armed = 0
      /\ sweep = 0 /\ conv = Sweep /\ ctr = 0 /\ wave = << >> /\ row = << >>
      /\ flagA \in BOOLEAN /\ flagC \in BOOLEAN
  BY DEF ScanInit
<1>2. Sweep \in Nat \ {0} /\ Period \in Nat \ {0} /\ 0 \in 0 .. Period - 1
      /\ Sweep \in 0 .. Sweep /\ 0 < 2 * Socs
  BY SweepTimes, PacerAssumption
<1>3. /\ wave \in Seq(Seq(Int)) /\ row \in Seq(Int) /\ Len(wave) = 0 /\ Len(row) = 0
  BY <1>1
<1>4. ~InRow
  BY <1>1 DEF InRow
<1>5. PacerInv /\ FlagsInv
  BY <1>1, <1>2 DEF PacerInv, FlagsInv
<1>6. RowsInv
  BY <1>1, <1>2, <1>3 DEF RowsInv
<1>7. FreshInv
  BY <1>1, <1>3, <1>4 DEF FreshInv
<1>8. OrderInv
  BY <1>1, <1>3 DEF OrderInv
<1>9. TightInv
  BY <1>1, <1>3, <1>4 DEF TightInv, RowsAreSweeps
<1>10. QED
  BY <1>5, <1>6, <1>7, <1>8, <1>9 DEF CaptureInv

LEMMA CaptureStep == CaptureInv /\ PinsInv /\ [ScanNext]_scanVars => CaptureInv'
<1> SUFFICES ASSUME CaptureInv, PinsInv, [ScanNext]_scanVars PROVE CaptureInv'
  OBVIOUS
<1>1. ASSUME UNCHANGED <<adc, capture, running>>, at' = at
      PROVE  CaptureInv'
  <2>1. UNCHANGED <<flagA, flagC, ctr, sweep, conv, wave, row, armed, body, tight>>
    BY <1>1 DEF adc, capture
  <2>2. PacerInv' /\ RowsInv'
    BY <1>1, <2>1 DEF CaptureInv, PacerInv, RowsInv
  <2>3. FlagsInv'
    BY <1>1, <2>1 DEF CaptureInv, FlagsInv
  <2>4. FreshInv' /\ OrderInv'
    BY <1>1, <2>1 DEF CaptureInv, FreshInv, OrderInv, InRow, Swept, Result
  <2>5. TightInv'
    BY <1>1, <2>1 DEF CaptureInv, TightInv, InRow, RowsAreSweeps
  <2>6. QED
    BY <2>2, <2>3, <2>4, <2>5 DEF CaptureInv
<1>2. CASE InBurst \/ WritePin \/ ReceiveTick
  BY <1>1, <1>2 DEF InBurst, WritePin, ReceiveTick
<1>3. CASE EnterReceiveMode \/ Measure \/ Restored
  <2>1. UNCHANGED <<adc, capture, running>>
    BY <1>3 DEF EnterReceiveMode, Measure, Restored
  <2>2. \/ at = "burst" /\ at' = "receive"
        \/ at = "receive" /\ at' = "clear_A"
        \/ at = "restore" /\ at' = "done"
    BY <1>3 DEF EnterReceiveMode, Measure, Restored, Goto
  <2>3. \/ at \in Early /\ at' \in Early
        \/ at \in Late /\ at' \in Late
    BY <2>2 DEF Early, Late
  <2>4. QED
    BY <2>1, <2>3, Elsewhere
<1>4. CASE NDT_captureRecord
  <2>1. CASE Arm
    BY <2>1, ArmStep
  <2>2. CASE Spin
    BY <1>1, <2>2 DEF Spin, scanVars
  <2>3. CASE Freeze
    <3>1. /\ UNCHANGED <<adc, capture>> /\ running' = FALSE
          /\ at \in Late /\ at' \in Late
      BY <2>3 DEF Freeze, Goto, Late
    <3>2. QED
      BY <3>1, Elsewhere
  <2>4. CASE ReadResult
    BY <2>4, StoredRow
  <2>5. QED
    BY <1>4, <2>1, <2>2, <2>3, <2>4, FlagSteps DEF NDT_captureRecord, Row
<1>5. CASE PacerTick
  BY <1>5, TickStep DEF PinsInv
<1>6. CASE Over \/ UNCHANGED scanVars
  BY <1>1, <1>6 DEF Over, scanVars
<1>7. QED
  BY <1>2, <1>3, <1>4, <1>5, <1>6 DEF ScanNext, Scan

\* What is in the results, the row and the stored rows at any time.
THEOREM CaptureInvariant == ScanSpec => []CaptureInv
<1>1. PinsInv /\ CaptureInv /\ [ScanNext]_scanVars => PinsInv' /\ CaptureInv'
  BY PinsStep, CaptureStep
<1>2. ScanInit => PinsInv /\ CaptureInv
  BY PinsInit, CaptureInit
<1>3. QED
  BY <1>1, <1>2, PTL DEF ScanSpec

\* If each row is stored before SOC0 of the next sweep ends, row n holds sweep n
\* of this capture on all channels, for any record length and pacer period.
THEOREM RowsAreSweepsAlways == ScanSpec => []RowsAreSweeps
<1>1. CaptureInv => RowsAreSweeps
  BY DEF CaptureInv, TightInv, RowsAreSweeps
<1>2. QED
  BY <1>1, CaptureInvariant, PTL

\* However long interrupts stretch the rows, no sample is older than its row and
\* no channel runs back.
THEOREM SamplesNeverOlder == ScanSpec => []NeverOlder
<1>1. CaptureInv => NeverOlder
  <2> SUFFICES ASSUME CaptureInv, NEW n \in 1 .. Len(wave), NEW j \in 1 .. 2 * Socs
               PROVE  /\ wave[n][j] >= armed + n
                      /\ n < Len(wave) => wave[n][j] <= wave[n + 1][j]
    BY DEF NeverOlder
  <2>1. wave[n][j] >= armed + n
    BY DEF CaptureInv, FreshInv
  <2>2. Len(wave) \in Nat
    BY DEF CaptureInv, RowsInv
  <2>3. n < Len(wave) => n \in 1 .. Len(wave) - 1
    BY <2>2
  <2>4. QED
    BY <2>1, <2>3 DEF CaptureInv, OrderInv
<1>2. QED
  BY <1>1, CaptureInvariant, PTL

=============================================================================

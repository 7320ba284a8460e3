--------------------------- MODULE NdtBoardProofs ----------------------------
(***************************************************************************)
(* Proofs about NdtSm and NdtBoard, for any record ids, record tags, rails *)
(* and burst lengths: what the state machine keeps whatever its hooks do,  *)
(* that the board implements it, and that what the status word, the        *)
(* buffer, the header and the EEPROM promise holds.                        *)
(*                                                                         *)
(* The invariants of NdtBoard speak of the moments at which a master may   *)
(* look; to be inductive they have to say, for every place inside a hook,  *)
(* how far it has got.                                                     *)
(***************************************************************************)
EXTENDS MCNdtSm, MCNdtBoard, SequenceTheorems, TLAPS

-----------------------------------------------------------------------------
(* The state machine by itself, NdtSm: for every period, every width of    *)
(* the millisecond counter and every depth of the queue its statics keep   *)
(* their types, and a latched thermal fault is final.                      *)

\* Values modulo the counter's width stay within it.
LEMMA MsValue ==
  ASSUME NEW n \in Nat
  PROVE  n % MsMod \in 0 .. MsMod - 1
BY TimeAssumption

\* Taking an event off a queue leaves a shorter queue of events.
LEMMA PopQueue ==
  ASSUME NEW q \in Seq(Events), q # << >>, Len(q) <= QDepth - 1
  PROVE  /\ Head(q) \in Events
         /\ Tail(q) \in Seq(Events) /\ Len(Tail(q)) <= QDepth - 1
<1>1. Head(q) \in Events /\ Tail(q) \in Seq(Events) /\ Len(Tail(q)) = Len(q) - 1
  BY HeadTailProperties
<1>2. QED
  BY <1>1, LenProperties, DepthAssumption

\* Putting one on a queue with room leaves a queue within the depth.
LEMMA PostQueue ==
  ASSUME NEW q \in Seq(Events), NEW e \in Events, Len(q) < QDepth - 1
  PROVE  Append(q, e) \in Seq(Events) /\ Len(Append(q, e)) <= QDepth - 1
<1>1. Append(q, e) \in Seq(Events) /\ Len(Append(q, e)) = Len(q) + 1
  BY AppendProperties
<1>2. QED
  BY <1>1, LenProperties, DepthAssumption

\* Every event names a place step_idle() goes to, and an argument of its kind.
LEMMA EventKinds ==
  ASSUME NEW e \in Events
  PROVE  /\ e.arg \in {0} \cup SaveIds \cup BurstArgs
         /\ Dispatch(e.id) \in
              {"step", "accept_command", "store_save", "store_load",
               "set_burst_cycles"}
         /\ Dispatch(e.id) \in {"store_save", "store_load"} => e.arg \in SaveIds
<1>1. CASE e \in [id : {"TRIGGER"}, arg : {0}]
  BY <1>1 DEF Dispatch
<1>2. CASE e \in [id : {"STORE_SAVE", "STORE_LOAD"}, arg : SaveIds]
  BY <1>2 DEF Dispatch
<1>3. CASE e \in [id : {"SET_BURST"}, arg : BurstArgs]
  BY <1>3 DEF Dispatch
<1>4. QED
  BY <1>1, <1>2, <1>3 DEF Events

-----------------------------------------------------------------------------

\* A step of the machine keeps the types of its statics.
LEMMA SmTypeStep == SmTypeOK /\ [SmNext]_smVars => SmTypeOK'
<1> SUFFICES ASSUME SmTypeOK, [SmNext]_smVars PROVE SmTypeOK'
  OBVIOUS
<1> USE DEF SmTypeOK, States, Hooks, Points, times
<1>1. CASE StepIdle
  BY <1>1 DEF StepIdle
<1>2. ASSUME NEW flag \in BOOLEAN, ThermalFaultReturns(flag) PROVE SmTypeOK'
  BY <1>2 DEF ThermalFaultReturns
<1>3. CASE OnThermalEnterReturns
  BY <1>3 DEF OnThermalEnterReturns
<1>4. CASE CheckPeriodic
  BY <1>4 DEF CheckPeriodic
<1>5. ASSUME NEW periodic \in BOOLEAN, accept_trigger(periodic) PROVE SmTypeOK'
  <2>1. s_lastTrigMs + Period \in Nat
    BY TimeAssumption
  <2>2. (s_lastTrigMs + Period) % MsMod \in 0 .. MsMod - 1
    BY <2>1, MsValue
  <2>3. QED
    BY <1>5, <2>2 DEF accept_trigger
<1>6. CASE NothingQueued
  BY <1>6 DEF NothingQueued
<1>7. CASE PopEvent
  <2>1. /\ Head(queue) \in Events
        /\ queue' \in Seq(Events) /\ Len(queue') <= QDepth - 1
    BY <1>7, PopQueue DEF PopEvent
  <2>2. ev_arg' \in {0} \cup SaveIds \cup BurstArgs /\ pc' \in Hooks \cup Points
    BY <1>7, <2>1, EventKinds DEF PopEvent
  <2>3. QED
    BY <1>7, <2>1, <2>2 DEF PopEvent
<1>8. CASE StoreReturns
  BY <1>8 DEF StoreReturns
<1>9. CASE SetBurstReturns
  BY <1>9 DEF SetBurstReturns
<1>10. CASE StepFire
  BY <1>10 DEF StepFire
<1>11. ASSUME NEW ok \in BOOLEAN, SuppliesOkReturns(ok) PROVE SmTypeOK'
  BY <1>11 DEF SuppliesOkReturns
<1>12. CASE FireReturns \/ OnVoltageFaultReturns
  BY <1>12 DEF FireReturns, OnVoltageFaultReturns
<1>13. CASE StepDataReady \/ AfterCaptureReturns \/ StepVoltageFault
  BY <1>13 DEF StepDataReady, AfterCaptureReturns, StepVoltageFault
<1>14. CASE StepThermalFault \/ ThermalBlinkReturns
  BY <1>14 DEF StepThermalFault, ThermalBlinkReturns, AfterBlink
<1>15. CASE Blink
  BY <1>15 DEF Blink
<1>16. ASSUME NEW flag \in BOOLEAN, RecheckReturns(flag) PROVE SmTypeOK'
  BY <1>16 DEF RecheckReturns
<1>17. CASE Tick
  <2>1. g_msTicks + 1 \in Nat
    BY TimeAssumption
  <2>2. (g_msTicks + 1) % MsMod \in 0 .. MsMod - 1
    BY <2>1, MsValue
  <2>3. QED
    BY <1>17, <2>2 DEF Tick
<1>18. ASSUME NEW e \in Events, Post(e) PROVE SmTypeOK'
  BY <1>18, PostQueue DEF Post
<1>19. CASE UNCHANGED smVars
  BY <1>19 DEF smVars
<1>20. QED
  BY <1>1, <1>2, <1>3, <1>4, <1>5, <1>6, <1>7, <1>8, <1>9, <1>10, <1>11, <1>12,
     <1>13, <1>14, <1>15, <1>16, <1>17, <1>18, <1>19
     DEF SmNext, MainLoop, AcceptPeriodic, AcceptCommand

\* The types hold when main() enters its loop.
LEMMA SmTypeStart == SmInit => SmTypeOK
BY TimeAssumption, DepthAssumption DEF SmInit, SmTypeOK, States, Hooks, Points

\* The statics of ndt_sm.c keep their types: the times stay within the counter,
\* the queue within its depth, and pc names a hook or a point of the machine.
THEOREM SmTypes == SmSpec => []SmTypeOK
BY SmTypeStart, SmTypeStep, PTL DEF SmSpec

-----------------------------------------------------------------------------
(* The latched thermal fault.                                              *)

InFault == s_state = "THERMAL_FAULT" /\ ThermalLatched

\* In a latched fault the main loop is nowhere but at the blinking.
LatchInv == InFault => pc \in {"step", "blink", "thermal_blink"}

\* No step leaves a latched fault, or its blinking.
LEMMA LatchStep ==
  LatchInv /\ [SmNext]_smVars => LatchInv' /\ (InFault => InFault')
<1> SUFFICES ASSUME LatchInv, [SmNext]_smVars
             PROVE  LatchInv' /\ (InFault => InFault')
  OBVIOUS
<1> USE DEF LatchInv, InFault, ThermalLatched, times
<1>1. CASE StepIdle \/ OnThermalEnterReturns \/ CheckPeriodic \/ NothingQueued
  BY <1>1 DEF StepIdle, OnThermalEnterReturns, CheckPeriodic, NothingQueued
<1>2. ASSUME NEW flag \in BOOLEAN, ThermalFaultReturns(flag) \/ RecheckReturns(flag)
      PROVE  LatchInv' /\ (InFault => InFault')
  BY <1>2 DEF ThermalFaultReturns, RecheckReturns
<1>3. CASE AcceptPeriodic \/ AcceptCommand
  BY <1>3 DEF AcceptPeriodic, AcceptCommand, accept_trigger
<1>4. CASE PopEvent
  BY <1>4 DEF PopEvent
<1>5. CASE StoreReturns \/ SetBurstReturns
  BY <1>5 DEF StoreReturns, SetBurstReturns
<1>6. CASE StepFire \/ FireReturns \/ OnVoltageFaultReturns
  BY <1>6 DEF StepFire, FireReturns, OnVoltageFaultReturns
<1>7. ASSUME NEW ok \in BOOLEAN, SuppliesOkReturns(ok)
      PROVE  LatchInv' /\ (InFault => InFault')
  BY <1>7 DEF SuppliesOkReturns
<1>8. CASE StepDataReady \/ AfterCaptureReturns \/ StepVoltageFault
  BY <1>8 DEF StepDataReady, AfterCaptureReturns, StepVoltageFault
<1>9. CASE StepThermalFault \/ Blink \/ ThermalBlinkReturns
  BY <1>9 DEF StepThermalFault, Blink, ThermalBlinkReturns, AfterBlink
<1>10. CASE Tick
  BY <1>10 DEF Tick
<1>11. ASSUME NEW e \in Events, Post(e) PROVE LatchInv' /\ (InFault => InFault')
  BY <1>11 DEF Post
<1>12. CASE UNCHANGED smVars
  BY <1>12 DEF smVars
<1>13. QED
  BY <1>1, <1>2, <1>3, <1>4, <1>5, <1>6, <1>7, <1>8, <1>9, <1>10, <1>11, <1>12
     DEF SmNext, MainLoop

\* A latched thermal fault is left by nothing: no flag, no queued command, no
\* periodic trigger and no wrap of the counter ends it or calls a hook other
\* than the blinking.
THEOREM SmFaultLatched == SmSpec => FaultLatched
<1>1. SmInit => LatchInv
  BY DEF SmInit, LatchInv
<1>2. InFault /\ LatchInv
        => s_state = "THERMAL_FAULT" /\ pc \in {"step", "blink", "thermal_blink"}
  BY DEF InFault, LatchInv
<1>3. s_state = "THERMAL_FAULT" /\ ThermalLatched <=> InFault
  BY DEF InFault
<1>4. QED
  BY <1>1, <1>2, <1>3, LatchStep, PTL DEF SmSpec, FaultLatched

-----------------------------------------------------------------------------
(* The pace of triggers and blinks.  The comparison of the code sees the   *)
(* time that has passed modulo the width of the counter, which is never    *)
(* more than the time itself; so it may succeed late, never early.         *)

\* A reading after whole turns of the counter.
LEMMA Remainder ==
  ASSUME NEW m \in Nat \ {0}, NEW q \in Int, NEW r \in 0 .. m - 1
  PROVE  (m * q + r) % m = r
OBVIOUS

\* Every number of milliseconds is whole turns of the counter and a reading.
LEMMA Quotient ==
  ASSUME NEW m \in Nat \ {0}, NEW n \in Nat
  PROVE  \E q \in Int, r \in 0 .. m - 1 : n % m = r /\ n = m * q + r
<1>1. n % m \in 0 .. m - 1 /\ n \div m \in Int /\ n = m * (n \div m) + (n % m)
  OBVIOUS
<1>2. QED
  BY <1>1, Zenon

\* Time that has been counted modulo the counter's width goes on being so.
LEMMA MsAdd ==
  ASSUME NEW n \in Nat, NEW k \in Nat
  PROVE  ((n % MsMod) + k) % MsMod = (n + k) % MsMod
<1>0. MsMod \in Nat \ {0}
  BY TimeAssumption
<1>1. PICK q \in Int, r \in 0 .. MsMod - 1 : n % MsMod = r /\ n = MsMod * q + r
  BY <1>0, Quotient
<1>2. r + k \in Nat
  BY <1>0
<1>3. PICK p \in Int, s \in 0 .. MsMod - 1 :
        (r + k) % MsMod = s /\ r + k = MsMod * p + s
  BY <1>0, <1>2, Quotient
<1>4. n + k = MsMod * (q + p) + s /\ q + p \in Int
  BY <1>0, <1>1, <1>3
<1>5. (n + k) % MsMod = s
  BY <1>0, <1>4, Remainder
<1>6. QED
  BY <1>1, <1>3, <1>5

\* A comparison that succeeds never does so early, wherever the counter wraps.
LEMMA NeverEarly ==
  ASSUME SmTypeOK, NEW since \in 0 .. MsMod - 1, NEW period \in 1 .. MsMod - 1,
         NEW k \in Nat, (since + k) % MsMod = g_msTicks, Elapsed(since, period)
  PROVE  k >= period
<1> SUFFICES ASSUME k < period PROVE FALSE
  OBVIOUS
<1>1. MsMod \in Nat /\ MsMod > 0 /\ since + k < 2 * MsMod /\ since + k \in Nat
  BY TimeAssumption
<1>2. g_msTicks = since + k \/ g_msTicks = since + k - MsMod
  BY <1>1
<1>3. (g_msTicks + MsMod - since) % MsMod = k
  <2>1. k \in Nat /\ k < MsMod
    BY <1>1
  <2>2. k % MsMod = k /\ (k + MsMod) % MsMod = k
    BY <1>1, <2>1
  <2>3. g_msTicks + MsMod - since \in {k, k + MsMod}
    BY <1>1, <1>2
  <2>4. QED
    BY <2>2, <2>3
<1>4. QED
  BY <1>1, <1>3 DEF Elapsed

\* What the histories say of the counter: the wrapped difference of two readings
\* and the time that has passed differ by whole turns of the counter.
PaceInv ==
  /\ behind \in Nat /\ (s_lastTrigMs + behind) % MsMod = g_msTicks
  /\ pc = "accept_periodic" => behind >= Period
  /\ sinceBlink \in 0 .. BlinkMs
  /\ sinceBlink < BlinkMs => (s_lastBlinkMs + sinceBlink) % MsMod = g_msTicks
  /\ pc = "blink" => sinceBlink = BlinkMs

\* A trigger or a blink that takes its time from the counter restarts its history.
LEMMA MsNow ==
  ASSUME SmTypeOK
  PROVE  (g_msTicks + 0) % MsMod = g_msTicks
<1>1. MsMod \in Nat \ {0} /\ g_msTicks \in 0 .. MsMod - 1
  BY TimeAssumption DEF SmTypeOK
<1>2. g_msTicks = MsMod * 0 + g_msTicks /\ 0 \in Int /\ g_msTicks + 0 = g_msTicks
  BY <1>1
<1>3. QED
  BY <1>1, <1>2, Remainder

\* A step of the main loop that accepts no trigger, takes no blink and enters no
\* fault leaves the times alone, and reaches the trigger and the blink only when
\* they are due.
LEMMA LoopElsewhere ==
  ASSUME SmTypeOK, PaceInv, MainLoop,
         pc \notin {"accept_periodic", "accept_command", "on_thermal_enter",
                    "blink"}
  PROVE  /\ UNCHANGED <<build, s_lastTrigMs, s_lastBlinkMs, g_msTicks>>
         /\ pc' = "accept_periodic" => Elapsed(s_lastTrigMs, Period)
         /\ pc' = "blink" => Elapsed(s_lastBlinkMs, BlinkMs)
<1> USE DEF times
<1> DEFINE Goal == /\ UNCHANGED <<build, s_lastTrigMs, s_lastBlinkMs, g_msTicks>>
                   /\ pc' = "accept_periodic" => Elapsed(s_lastTrigMs, Period)
                   /\ pc' = "blink" => Elapsed(s_lastBlinkMs, BlinkMs)
<1>1. CASE StepIdle \/ StepFire \/ StepDataReady \/ StepVoltageFault
  BY <1>1 DEF StepIdle, StepFire, StepDataReady, StepVoltageFault
<1>2. CASE NothingQueued \/ StoreReturns \/ SetBurstReturns
  BY <1>2 DEF NothingQueued, StoreReturns, SetBurstReturns
<1>3. CASE FireReturns \/ OnVoltageFaultReturns \/ AfterCaptureReturns
  BY <1>3 DEF FireReturns, OnVoltageFaultReturns, AfterCaptureReturns
<1>4. ASSUME NEW b \in BOOLEAN,
             ThermalFaultReturns(b) \/ SuppliesOkReturns(b) \/ RecheckReturns(b)
      PROVE  Goal
  BY <1>4 DEF ThermalFaultReturns, SuppliesOkReturns, RecheckReturns
<1>5. CASE PopEvent
  <2>1. pc' \in {"step", "accept_command", "store_save", "store_load",
                 "set_burst_cycles"}
    <3>1. Head(queue) \in Events
      BY <1>5, PopQueue DEF PopEvent, SmTypeOK
    <3>2. QED
      BY <1>5, <3>1, EventKinds DEF PopEvent
  <2>2. QED
    BY <1>5, <2>1 DEF PopEvent
<1>6. CASE CheckPeriodic
  BY <1>6 DEF CheckPeriodic
<1>7. CASE StepThermalFault
  BY <1>7 DEF StepThermalFault, AfterBlink
<1>8. CASE ThermalBlinkReturns
  BY <1>8 DEF ThermalBlinkReturns, AfterBlink
<1>9. pc \notin {"accept_periodic", "accept_command", "on_thermal_enter", "blink"}
        => ~AcceptPeriodic /\ ~AcceptCommand /\ ~OnThermalEnterReturns /\ ~Blink
  BY DEF AcceptPeriodic, AcceptCommand, OnThermalEnterReturns, Blink
<1>10. QED
  BY <1>1, <1>2, <1>3, <1>4, <1>5, <1>6, <1>7, <1>8, <1>9 DEF MainLoop

\* The main loop keeps what the histories say.
LEMMA PaceLoopStep ==
  ASSUME SmTypeOK, PaceInv, PacedLoop
  PROVE  PaceInv'
<1> USE DEF times
<1>0. /\ s_lastTrigMs \in 0 .. MsMod - 1 /\ s_lastBlinkMs \in 0 .. MsMod - 1
      /\ MsMod \in Nat \ {0} /\ Period \in 1 .. MsMod - 1 /\ BlinkMs \in 1 .. MsMod - 1
      /\ behind \in Nat /\ (s_lastTrigMs + behind) % MsMod = g_msTicks
      /\ sinceBlink \in 0 .. BlinkMs
  BY TimeAssumption DEF SmTypeOK, PaceInv
<1>1. CASE pc = "accept_periodic"
  <2>1. /\ accept_trigger(TRUE)
        /\ pc' = "step" /\ g_msTicks' = g_msTicks /\ s_lastBlinkMs' = s_lastBlinkMs
    BY <1>1 DEF PacedLoop, MainLoop, StepIdle, ThermalFaultReturns,
         OnThermalEnterReturns, CheckPeriodic, AcceptPeriodic, AcceptCommand,
         NothingQueued, PopEvent, StoreReturns, SetBurstReturns, StepFire,
         SuppliesOkReturns, FireReturns, OnVoltageFaultReturns, StepDataReady,
         AfterCaptureReturns, StepVoltageFault, StepThermalFault, Blink,
         ThermalBlinkReturns, RecheckReturns, accept_trigger
  <2>2. /\ behind' = IF SkipMissed THEN 0 ELSE behind - Period
        /\ sinceBlink' = sinceBlink
    BY <1>1, <2>1 DEF PacedLoop, Leaves
  <2>3. behind >= Period
    BY <1>1 DEF PaceInv
  <2>4. behind' \in Nat /\ (s_lastTrigMs' + behind') % MsMod = g_msTicks
    <3>1. CASE SkipMissed
      BY <2>1, <2>2, <3>1, MsNow DEF accept_trigger
    <3>2. CASE ~SkipMissed
      <4>1. s_lastTrigMs' = (s_lastTrigMs + Period) % MsMod
        BY <2>1, <3>2 DEF accept_trigger
      <4>2. behind' = behind - Period
        BY <2>2, <3>2
      <4>3. behind - Period \in Nat /\ s_lastTrigMs + Period \in Nat
        BY <1>0, <2>3
      <4>4. (((s_lastTrigMs + Period) % MsMod) + (behind - Period)) % MsMod
              = (s_lastTrigMs + Period + (behind - Period)) % MsMod
        BY <4>3, MsAdd
      <4>5. s_lastTrigMs + Period + (behind - Period) = s_lastTrigMs + behind
        BY <1>0
      <4>6. QED
        BY <1>0, <4>1, <4>2, <4>3, <4>4, <4>5
    <3>3. QED
      BY <3>1, <3>2
  <2>5. QED
    BY <1>0, <2>1, <2>2, <2>4 DEF PaceInv
<1>2. CASE pc = "accept_command"
  <2>1. /\ accept_trigger(FALSE)
        /\ pc' = "step" /\ g_msTicks' = g_msTicks /\ s_lastBlinkMs' = s_lastBlinkMs
        /\ s_lastTrigMs' = g_msTicks
    BY <1>2 DEF PacedLoop, MainLoop, StepIdle, ThermalFaultReturns,
         OnThermalEnterReturns, CheckPeriodic, AcceptPeriodic, AcceptCommand,
         NothingQueued, PopEvent, StoreReturns, SetBurstReturns, StepFire,
         SuppliesOkReturns, FireReturns, OnVoltageFaultReturns, StepDataReady,
         AfterCaptureReturns, StepVoltageFault, StepThermalFault, Blink,
         ThermalBlinkReturns, RecheckReturns, accept_trigger
  <2>2. behind' = 0 /\ sinceBlink' = sinceBlink
    BY <1>2, <2>1 DEF PacedLoop, Leaves
  <2>3. QED
    BY <1>0, <2>1, <2>2, MsNow DEF PaceInv
<1>3. CASE pc \in {"on_thermal_enter", "blink"}
  <2>1. /\ pc' \in {"step", "thermal_blink"} /\ g_msTicks' = g_msTicks
        /\ s_lastTrigMs' = s_lastTrigMs /\ s_lastBlinkMs' = g_msTicks
    BY <1>3 DEF PacedLoop, MainLoop, StepIdle, ThermalFaultReturns,
         OnThermalEnterReturns, CheckPeriodic, AcceptPeriodic, AcceptCommand,
         NothingQueued, PopEvent, StoreReturns, SetBurstReturns, StepFire,
         SuppliesOkReturns, FireReturns, OnVoltageFaultReturns, StepDataReady,
         AfterCaptureReturns, StepVoltageFault, StepThermalFault, Blink,
         ThermalBlinkReturns, RecheckReturns, accept_trigger
  <2>2. behind' = behind /\ sinceBlink' = 0
    BY <1>3, <2>1 DEF PacedLoop, Leaves
  <2>3. QED
    BY <1>0, <2>1, <2>2, MsNow DEF PaceInv
<1>4. CASE pc \notin {"accept_periodic", "accept_command", "on_thermal_enter",
                      "blink"}
  <2>1. MainLoop /\ behind' = behind /\ sinceBlink' = sinceBlink
    BY <1>4 DEF PacedLoop, Leaves
  <2>2. /\ UNCHANGED <<s_lastTrigMs, s_lastBlinkMs, g_msTicks>>
        /\ pc' = "accept_periodic" => Elapsed(s_lastTrigMs, Period)
        /\ pc' = "blink" => Elapsed(s_lastBlinkMs, BlinkMs)
    BY <1>4, <2>1, LoopElsewhere
  <2>3. pc' = "accept_periodic" => behind >= Period
    BY <1>0, <2>2, NeverEarly
  <2>4. pc' = "blink" => sinceBlink = BlinkMs
    <3> SUFFICES ASSUME pc' = "blink", sinceBlink < BlinkMs PROVE FALSE
      BY <1>0
    <3>1. (s_lastBlinkMs + sinceBlink) % MsMod = g_msTicks /\ sinceBlink \in Nat
      BY <1>0 DEF PaceInv
    <3>2. sinceBlink >= BlinkMs
      BY <1>0, <2>2, <3>1, NeverEarly
    <3>3. QED
      BY <1>0, <3>2
  <2>5. QED
    BY <2>1, <2>2, <2>3, <2>4 DEF PaceInv
<1>5. QED
  BY <1>1, <1>2, <1>3, <1>4

\* Every step keeps what the histories say, however far time runs.
LEMMA PaceStep ==
  SmTypeOK /\ PaceInv /\ [PacedNext]_pacedVars => PaceInv'
<1> SUFFICES ASSUME SmTypeOK, PaceInv, [PacedNext]_pacedVars PROVE PaceInv'
  OBVIOUS
<1>1. CASE PacedLoop
  BY <1>1, PaceLoopStep
<1>2. CASE PacedTick
  <2>0. /\ s_lastTrigMs \in 0 .. MsMod - 1 /\ s_lastBlinkMs \in 0 .. MsMod - 1
        /\ MsMod \in Nat \ {0} /\ BlinkMs \in Nat /\ Period \in Nat
        /\ behind \in Nat /\ (s_lastTrigMs + behind) % MsMod = g_msTicks
        /\ sinceBlink \in 0 .. BlinkMs
    BY TimeAssumption DEF SmTypeOK, PaceInv
  <2>1. /\ g_msTicks' = (g_msTicks + 1) % MsMod
        /\ UNCHANGED <<s_lastTrigMs, s_lastBlinkMs, pc>>
        /\ behind' = behind + 1
        /\ sinceBlink' = IF sinceBlink < BlinkMs THEN sinceBlink + 1 ELSE sinceBlink
    BY <1>2 DEF PacedTick, Tick, times
  <2>2. (s_lastTrigMs + (behind + 1)) % MsMod = (g_msTicks + 1) % MsMod
    <3>1. s_lastTrigMs + behind \in Nat
      BY <2>0
    <3>2. (((s_lastTrigMs + behind) % MsMod) + 1) % MsMod
            = (s_lastTrigMs + behind + 1) % MsMod
      BY <3>1, MsAdd
    <3>3. s_lastTrigMs + behind + 1 = s_lastTrigMs + (behind + 1)
      BY <2>0
    <3>4. QED
      BY <2>0, <3>2, <3>3
  <2>3. sinceBlink < BlinkMs =>
          (s_lastBlinkMs + (sinceBlink + 1)) % MsMod = (g_msTicks + 1) % MsMod
    <3> SUFFICES ASSUME sinceBlink < BlinkMs
                 PROVE  (s_lastBlinkMs + (sinceBlink + 1)) % MsMod
                          = (g_msTicks + 1) % MsMod
      OBVIOUS
    <3>1. s_lastBlinkMs + sinceBlink \in Nat
      BY <2>0
    <3>2. (((s_lastBlinkMs + sinceBlink) % MsMod) + 1) % MsMod
            = (s_lastBlinkMs + sinceBlink + 1) % MsMod
      BY <3>1, MsAdd
    <3>3. s_lastBlinkMs + sinceBlink + 1 = s_lastBlinkMs + (sinceBlink + 1)
      BY <2>0
    <3>4. (s_lastBlinkMs + sinceBlink) % MsMod = g_msTicks
      BY DEF PaceInv
    <3>5. QED
      BY <3>2, <3>3, <3>4
  <2>4. /\ behind' \in Nat /\ (s_lastTrigMs' + behind') % MsMod = g_msTicks'
        /\ pc' = "accept_periodic" => behind' >= Period
    <3>1. pc = "accept_periodic" => behind + 1 >= Period
      BY <2>0 DEF PaceInv
    <3>2. QED
      BY <2>0, <2>1, <2>2, <3>1
  <2>5. /\ sinceBlink' \in 0 .. BlinkMs
        /\ sinceBlink' < BlinkMs =>
             (s_lastBlinkMs' + sinceBlink') % MsMod = g_msTicks'
        /\ pc' = "blink" => sinceBlink' = BlinkMs
    <3>1. CASE sinceBlink < BlinkMs
      <4>1. sinceBlink + 1 \in 0 .. BlinkMs
        BY <2>0, <3>1
      <4>2. pc # "blink"
        BY <2>0, <3>1 DEF PaceInv
      <4>3. QED
        BY <2>1, <2>3, <3>1, <4>1, <4>2
    <3>2. CASE ~(sinceBlink < BlinkMs)
      BY <2>0, <2>1, <3>2 DEF PaceInv
    <3>3. QED
      BY <3>1, <3>2
  <2>6. QED
    BY <2>4, <2>5 DEF PaceInv
<1>3. CASE PacedPost
  BY <1>3 DEF PacedPost, Post, PaceInv, times
<1>4. CASE UNCHANGED pacedVars
  BY <1>4 DEF pacedVars, smVars, times, PaceInv
<1>5. QED
  BY <1>1, <1>2, <1>3, <1>4 DEF PacedNext

\* The histories' steps are the machine's.
LEMMA PaceIsSm == [PacedNext]_pacedVars => [SmNext]_smVars
BY DEF PacedNext, PacedLoop, PacedTick, PacedPost, pacedVars, smVars, SmNext

\* What the histories say holds for ever.
LEMMA PaceAlways == PacedSpec => [](SmTypeOK /\ PaceInv)
<1>1. PacedInit => SmTypeOK /\ PaceInv
  <2> SUFFICES ASSUME PacedInit PROVE SmTypeOK /\ PaceInv
    OBVIOUS
  <2>1. SmTypeOK
    BY SmTypeStart DEF PacedInit
  <2>2. (g_msTicks + 0) % MsMod = g_msTicks
    BY <2>1, MsNow
  <2>3. QED
    BY <2>1, <2>2, TimeAssumption DEF PacedInit, SmInit, PaceInv
<1>2. SmTypeOK /\ PaceInv /\ [PacedNext]_pacedVars => SmTypeOK' /\ PaceInv'
  BY PaceStep, PaceIsSm, SmTypeStep
<1>3. PacedSpec <=> PacedInit /\ [][PacedNext]_pacedVars
  BY DEF PacedSpec
<1>4. QED
  BY <1>1, <1>2, <1>3, PTL

\* Two periodic triggers, or a command and a periodic trigger, are never closer
\* than the period in real time, however often the counter wraps meanwhile and
\* however long a scan, a save or a fault takes.
THEOREM TriggersKeepPace == PacedSpec => PeriodicPace
<1>1. PaceInv => (pc = "accept_periodic" => behind >= Period)
  BY DEF PaceInv
<1>2. PaceInv /\ [PacedNext]_pacedVars
        => [Leaves("accept_periodic") => behind >= Period]_pacedVars
  BY <1>1 DEF Leaves
<1>3. PacedSpec => [][PacedNext]_pacedVars
  BY PTL DEF PacedSpec
<1>4. QED
  BY <1>2, <1>3, PaceAlways, PTL DEF PeriodicPace

\* The LED toggles at most every BlinkMs of real time, across every wrap.
THEOREM BlinksKeepPace == PacedSpec => BlinkPace
<1>1. PaceInv /\ [PacedNext]_pacedVars
        => [Leaves("blink") => sinceBlink >= BlinkMs]_pacedVars
  <2>1. PaceInv /\ pc = "blink" => sinceBlink >= BlinkMs
    BY TimeAssumption DEF PaceInv
  <2>2. QED
    BY <2>1 DEF Leaves
<1>2. PacedSpec => [][PacedNext]_pacedVars
  BY PTL DEF PacedSpec
<1>3. QED
  BY <1>1, <1>2, PaceAlways, PTL DEF BlinkPace

-----------------------------------------------------------------------------
(* The board.                                                              *)

Places(h, ps) == pc = h /\ at \in ps

\* Which state the machine is in while a hook runs, and that nothing but a hook
\* is ever in the middle of its body.
Control ==
  /\ pc \in {"thermal_fault", "on_thermal_enter", "periodic", "accept_periodic",
             "accept_command", "q_pop", "set_burst_cycles"} => s_state = "IDLE"
  /\ pc \in {"supplies_ok", "fire_and_capture", "on_voltage_fault"}
       => s_state = "FIRE"
  /\ pc = "after_capture" => s_state = "DATA_READY"
  /\ pc \in {"store_save", "store_load"}
       => s_state = "STORE_OP" /\ ev_arg \in SaveIds
  /\ pc \in {"blink", "thermal_blink", "recheck"} => s_state = "THERMAL_FAULT"
  /\ at # "" => pc \in {"on_thermal_enter", "supplies_ok", "on_voltage_fault",
                        "fire_and_capture", "after_capture", "store_save",
                        "store_load"}

\* The pulser: on after FireHvOn, in TX_DISABLE after ReceiveTxDisable, both
\* until hook_after_capture() undoes them.
PulserInv ==
  /\ hv => \/ pc = "fire_and_capture" /\ at \notin {"", "hv"}
           \/ s_state = "DATA_READY" /\ ~Places("after_capture", {"valid"})
  /\ pc = "fire_and_capture" \/ s_state = "DATA_READY"
       => Rails \subseteq g_statusFlags
  /\ Places("fire_and_capture", {"burst"}) => hv
  /\ ThermalLatched /\ mode # "OCTAL_3LEVEL" =>
       \/ s_state = "THERMAL_FAULT"
       \/ pc = "fire_and_capture" /\ at \notin {"", "hv", "burst", "tx_disable"}
       \/ s_state = "DATA_READY" /\ ~Places("after_capture", {"hv", "valid"})

Whole == g_waveBuf[1] = g_lastHdr.rec /\ g_waveBuf[2] = g_lastHdr.rec

\* From the check of the supplies to the end of the scan, and during a load.
Rewriting ==
  \/ Places("supplies_ok", {"measure"})
  \/ pc \in {"fire_and_capture", "on_voltage_fault"}
  \/ s_state = "DATA_READY"
  \/ Places("store_load", {"lock", "find", "load_1", "load_2", "checksum",
                           "unlock_ok", "unlock_failed", "set_valid",
                           "set_fail"})

\* A scan has its record, or a load has found one to be intact.
Captured ==
  \/ Places("fire_and_capture", {"stream_id", "stream_rest", "unlock"})
  \/ s_state = "DATA_READY"

Checked == Places("store_load", {"unlock_ok", "set_valid"})

\* The buffer: no DATA_VALID while it is rewritten, and all of one record
\* wherever the flag is set or about to be.
RecordInv ==
  /\ Rewriting => ~Has("DATA_VALID")
  /\ Places("fire_and_capture", {"header"}) => g_waveBuf[1] = g_waveBuf[2]
  /\ Has("DATA_VALID") \/ Captured \/ Checked => Whole

\* Between the change of g_lastHdr and the end of its copy into g_hdrStream.
Streaming ==
  \/ Places("fire_and_capture", {"stream_id", "stream_rest"})
  \/ Places("store_save", {"eeprom", "stream_id", "stream_rest"})
  \/ Places("store_load", {"load_1", "load_2", "checksum", "unlock_ok",
                           "unlock_failed", "set_valid", "set_fail",
                           "stream_id", "stream_rest"})

\* The served header: the board's own, except while it is copied, and then
\* EEPROM_BUSY is set or DATA_VALID clear.
StreamInv ==
  /\ ~Streaming => g_hdrStream = g_lastHdr
  /\ at = "stream_rest" => g_hdrStream.id = g_lastHdr.id
  /\ pc \in {"store_save", "store_load"} /\ at # "" => Has("EEPROM_BUSY")

\* The EEPROM: what a header with an id promises, that a fresh record has none,
\* and what a load has found.
SavedInv ==
  /\ Captured => g_lastHdr.id = 0
  /\ Has("DATA_VALID") /\ ~Has("EEPROM_FAIL") /\ g_lastHdr.id # 0
       /\ ~Places("store_save", {"eeprom"})
       => eeprom[g_lastHdr.id] = g_waveBuf[1]
  /\ Places("store_save", {"eeprom"}) =>
       Has("DATA_VALID") /\ g_lastHdr.id = ev_arg
  /\ Places("store_load", {"load_1", "load_2", "checksum", "unlock_ok",
                           "set_valid"}) => g_lastHdr.id = ev_arg
  /\ Places("store_load", {"checksum"}) /\ Whole
       => eeprom[ev_arg] = g_waveBuf[1]
  /\ Checked => eeprom[ev_arg] = g_waveBuf[1]

BoardInv ==
  Control /\ LatchInv /\ PulserInv /\ RecordInv /\ StreamInv /\ SavedInv

-----------------------------------------------------------------------------
(* The board implements the state machine.                                 *)

\* Every step of the board is a step of ndt_sm.c or an access inside a hook.
LEMMA BoardStepsMachine == hot \in BOOLEAN /\ [Next]_vars => [SmNext]_smVars
<1> SUFFICES ASSUME hot \in BOOLEAN, [Next]_vars PROVE [SmNext]_smVars
  OBVIOUS
<1> USE DEF SmNext, MainLoop
<1>1. CASE hook_thermal_fault
  BY <1>1 DEF hook_thermal_fault
<1>2. CASE ThermalFlag \/ ThermalHvOff \/ ThermalTxDisable
  BY <1>2 DEF ThermalFlag, ThermalHvOff, ThermalTxDisable, Within
<1>3. CASE SuppliesClear \/ VoltageFlag \/ VoltageHvOff
  BY <1>3 DEF SuppliesClear, VoltageFlag, VoltageHvOff, Within
<1>4. CASE SuppliesMeasure
  <2>1. PICK rails \in SUBSET Rails : SuppliesOkReturns(rails = Rails)
    BY <1>4 DEF SuppliesMeasure
  <2>2. (rails = Rails) \in BOOLEAN
    OBVIOUS
  <2>3. QED
    BY <2>1, <2>2
<1>5. CASE hook_fire_and_capture
  BY <1>5 DEF hook_fire_and_capture, FireLock, FireHvOn, NDT_burst,
     ReceiveTxDisable, ReceiveSwitchesOn, CaptureFirst, CaptureSecond,
     FireHeader, StreamId, StreamRest, FireUnlock, Within
<1>6. CASE hook_after_capture
  BY <1>6 DEF hook_after_capture, AfterMode, AfterHvOff, AfterValid, Within
<1>7. CASE hook_set_burst_cycles \/ hook_thermal_blink
  BY <1>7 DEF hook_set_burst_cycles, hook_thermal_blink
<1>8. CASE hook_store_save
  BY <1>8 DEF hook_store_save, SaveBegin, SaveSucceeds, SaveFails, StreamId,
     StreamRest, SaveEnd, Within
<1>9. CASE hook_store_load
  BY <1>9 DEF hook_store_load, LoadBegin, LoadLock, LoadNotFound, LoadHeader,
     LoadPage, LoadFails, LoadChecksum, LoadUnlock, LoadResult, StreamId,
     StreamRest, LoadEnd, Within
<1>10. CASE Machine
  BY <1>10 DEF Machine
<1>11. CASE Interrupt
  BY <1>11 DEF Interrupt
<1>12. CASE TempChanges \/ UNCHANGED vars
  BY <1>12 DEF TempChanges, vars
<1>13. QED
  BY <1>1, <1>2, <1>3, <1>4, <1>5, <1>6, <1>7, <1>8, <1>9, <1>10, <1>11, <1>12
     DEF Next, main, Hook

-----------------------------------------------------------------------------
(* Type correctness.                                                       *)

\* Types of what the hooks write.
BoardTypes ==
  /\ g_statusFlags \subseteq Flags
  /\ g_waveBuf \in [1 .. 2 -> Recs]
  /\ g_lastHdr \in Headers /\ g_hdrStream \in Headers
  /\ g_burstCycles \in BurstMin .. BurstMax
  /\ s_txLock \in BOOLEAN /\ hv \in BOOLEAN /\ hot \in BOOLEAN
  /\ g_store \in BOOLEAN
  /\ mode \in {"OCTAL_3LEVEL", "TX_DISABLE"} /\ drive \in {"low", "both"}
  /\ eeprom \in [SaveIds -> Recs \cup {"none", "torn"}]

\* A clamped burst length is one the pulser may be driven for.
LEMMA ClampValue ==
  ASSUME NEW n \in Nat
  PROVE  Clamp(n) \in BurstMin .. BurstMax
BY BurstAssumption DEF Clamp

\* No step changes the types of the board's state.
LEMMA BoardTypeStep ==
  ASSUME SmTypeOK, Control, BoardTypes, [Next]_vars
  PROVE  BoardTypes'
<1> USE DEF BoardTypes, record, pulser, memory, boardVars, boardVarsButAt
<1>1. CASE hook_thermal_fault
  BY <1>1 DEF hook_thermal_fault
<1>2. CASE ThermalFlag \/ ThermalHvOff \/ ThermalTxDisable
  BY <1>2 DEF ThermalFlag, ThermalHvOff, ThermalTxDisable, Flags
<1>3. CASE SuppliesClear \/ VoltageFlag \/ VoltageHvOff
  BY <1>3 DEF SuppliesClear, VoltageFlag, VoltageHvOff, Flags
<1>4. CASE SuppliesMeasure
  BY <1>4 DEF SuppliesMeasure, Flags
<1>5. CASE hook_fire_and_capture
  <2>1. CASE FireLock \/ FireHvOn \/ NDT_burst \/ ReceiveTxDisable
               \/ ReceiveSwitchesOn \/ FireUnlock
    BY <2>1 DEF FireLock, FireHvOn, NDT_burst, ReceiveTxDisable,
       ReceiveSwitchesOn, FireUnlock
  <2>2. CASE CaptureFirst \/ CaptureSecond
    BY <2>2 DEF CaptureFirst, CaptureSecond
  <2>3. CASE FireHeader
    BY <2>3 DEF FireHeader, Headers
  <2>4. ASSUME NEW h, NEW p, NEW q, StreamId(h, p, q) \/ StreamRest(h, p, q)
        PROVE  BoardTypes'
    BY <2>4 DEF StreamId, StreamRest, Headers
  <2>5. QED
    BY <1>5, <2>1, <2>2, <2>3, <2>4 DEF hook_fire_and_capture
<1>6. CASE hook_after_capture
  BY <1>6 DEF hook_after_capture, AfterMode, AfterHvOff, AfterValid, Flags
<1>7. CASE hook_set_burst_cycles \/ hook_thermal_blink
  <2>1. ev_arg \in Nat
    BY ArgAssumption DEF SmTypeOK
  <2>2. QED
    BY <1>7, <2>1, ClampValue DEF hook_set_burst_cycles, hook_thermal_blink
<1>8. CASE hook_store_save
  <2>1. CASE SaveBegin
    BY <2>1 DEF SaveBegin, Flags, Headers, Control
  <2>2. ASSUME NEW c \in Recs \cup {"none", "torn"}, ev_arg \in SaveIds,
               eeprom' \in Evictions(ev_arg, c)
        PROVE  eeprom' \in [SaveIds -> Recs \cup {"none", "torn"}]
    BY <2>2 DEF Evictions
  <2>3. g_lastHdr.rec \in Recs
    BY DEF Headers
  <2>4. CASE SaveSucceeds
    BY <2>2, <2>3, <2>4 DEF SaveSucceeds, Control, Within, Goto
  <2>5. CASE SaveFails
    BY <2>2, <2>3, <2>5 DEF SaveFails, Control, Within, Goto, Flags
  <2>6. ASSUME NEW h, NEW p, NEW q, StreamId(h, p, q) \/ StreamRest(h, p, q)
        PROVE  BoardTypes'
    BY <2>6 DEF StreamId, StreamRest, Headers
  <2>7. CASE SaveEnd
    BY <2>7 DEF SaveEnd
  <2>8. QED
    BY <1>8, <2>1, <2>4, <2>5, <2>6, <2>7 DEF hook_store_save
<1>9. CASE hook_store_load
  <2>1. CASE LoadBegin \/ LoadLock \/ LoadNotFound \/ LoadFails \/ LoadChecksum
               \/ LoadUnlock \/ LoadResult \/ LoadEnd
    BY <2>1 DEF LoadBegin, LoadLock, LoadNotFound, LoadFails, LoadChecksum,
       LoadUnlock, LoadResult, LoadEnd, Flags
  <2>2. CASE LoadHeader
    BY <2>2 DEF LoadHeader, Headers, Control, Within, Goto
  <2>3. ASSUME NEW half \in 1 .. 2, NEW p, NEW q, LoadPage(half, p, q)
        PROVE  BoardTypes'
    BY <2>3 DEF LoadPage
  <2>4. ASSUME NEW h, NEW p, NEW q, StreamId(h, p, q) \/ StreamRest(h, p, q)
        PROVE  BoardTypes'
    BY <2>4 DEF StreamId, StreamRest, Headers
  <2>5. QED
    BY <1>9, <2>1, <2>2, <2>3, <2>4 DEF hook_store_load
<1>10. CASE Machine \/ Interrupt
  BY <1>10 DEF Machine, Interrupt
<1>11. CASE TempChanges \/ UNCHANGED vars
  BY <1>11 DEF TempChanges, vars
<1>12. QED
  BY <1>1, <1>2, <1>3, <1>4, <1>5, <1>6, <1>7, <1>8, <1>9, <1>10, <1>11
     DEF Next, main, Hook

-----------------------------------------------------------------------------
(* The inductive invariant.                                                *)

\* The machine between two hooks: nothing is on, nothing half written.
LEMMA MachineKeeps ==
  ASSUME SmTypeOK, BoardTypes, BoardInv, Machine
  PROVE  BoardInv'
<1> USE DEF BoardInv, Control, PulserInv, RecordInv, StreamInv, SavedInv, Places,
            Rewriting, Captured, Checked, Whole, Streaming, Has, Machine, boardVars, record, pulser, memory,
            times, ThermalLatched
<1>0. LatchInv'
  BY LatchStep DEF SmNext, MainLoop
<1>1. CASE StepIdle
  BY <1>0, <1>1 DEF StepIdle
<1>2. CASE CheckPeriodic
  BY <1>0, <1>2 DEF CheckPeriodic
<1>3. CASE AcceptPeriodic \/ AcceptCommand
  BY <1>0, <1>3 DEF AcceptPeriodic, AcceptCommand, accept_trigger
<1>4. CASE NothingQueued
  BY <1>0, <1>4 DEF NothingQueued
<1>5. CASE PopEvent
  <2>1. /\ Head(queue) \in Events
    BY <1>5, PopQueue DEF PopEvent, SmTypeOK
  <2>2. QED
    BY <1>0, <1>5, <2>1, EventKinds DEF PopEvent
<1>6. CASE StepFire
  BY <1>0, <1>6 DEF StepFire
<1>7. CASE StepDataReady
  BY <1>0, <1>7 DEF StepDataReady
<1>8. CASE StepVoltageFault
  BY <1>0, <1>8 DEF StepVoltageFault
<1>9. CASE StepThermalFault \/ Blink
  BY <1>0, <1>9 DEF StepThermalFault, Blink, AfterBlink
<1>10. QED
  BY <1>1, <1>2, <1>3, <1>4, <1>5, <1>6, <1>7, <1>8, <1>9

\* The fault hooks and the supply check.
LEMMA FaultHooksKeep ==
  ASSUME BoardTypes, BoardInv, [Next]_vars, LatchInv',
         \/ hook_thermal_fault \/ ThermalFlag \/ ThermalHvOff \/ ThermalTxDisable
         \/ SuppliesClear \/ SuppliesMeasure \/ VoltageFlag \/ VoltageHvOff
         \/ hook_set_burst_cycles \/ hook_thermal_blink
  PROVE  BoardInv'
<1> USE DEF BoardInv, Control, PulserInv, RecordInv, StreamInv, SavedInv, Places,
            Rewriting, Captured, Checked, Whole, Streaming, Has, record, pulser, memory, boardVarsButAt,
            boardVars, Within, Goto, smVars, times, ThermalLatched, BoardTypes
<1>1. CASE hook_thermal_fault
  BY <1>1 DEF hook_thermal_fault, ThermalFaultReturns, RecheckReturns, LatchInv, InFault
<1>2. CASE ThermalFlag
  BY <1>2 DEF ThermalFlag
<1>3. CASE ThermalHvOff
  BY <1>3 DEF ThermalHvOff
<1>4. CASE ThermalTxDisable
  BY <1>4 DEF ThermalTxDisable, OnThermalEnterReturns
<1>5. CASE SuppliesClear
  BY <1>5 DEF SuppliesClear
<1>6. CASE SuppliesMeasure
  BY <1>6, RailsAssumption DEF SuppliesMeasure, SuppliesOkReturns
<1>7. CASE VoltageFlag
  BY <1>7 DEF VoltageFlag
<1>8. CASE VoltageHvOff
  BY <1>8 DEF VoltageHvOff, OnVoltageFaultReturns
<1>9. CASE hook_set_burst_cycles
  BY <1>9 DEF hook_set_burst_cycles, SetBurstReturns
<1>10. CASE hook_thermal_blink
  BY <1>10 DEF hook_thermal_blink, ThermalBlinkReturns, AfterBlink
<1>11. QED
  BY <1>1, <1>2, <1>3, <1>4, <1>5, <1>6, <1>7, <1>8, <1>9, <1>10

\* A scan.
LEMMA ScanKeeps ==
  ASSUME BoardTypes, BoardInv, [Next]_vars, LatchInv',
         hook_fire_and_capture \/ hook_after_capture
  PROVE  BoardInv'
<1> USE DEF BoardInv, Control, PulserInv, RecordInv, StreamInv, SavedInv, Places,
            Rewriting, Captured, Checked, Whole, Streaming, Has, record, pulser, memory, boardVarsButAt,
            boardVars, Within, Goto, smVars, times, ThermalLatched, BoardTypes
<1>1. CASE FireLock
  BY <1>1 DEF FireLock
<1>2. CASE FireHvOn
  BY <1>2 DEF FireHvOn
<1>3. CASE NDT_burst
  BY <1>3 DEF NDT_burst
<1>4. CASE ReceiveTxDisable \/ ReceiveSwitchesOn
  BY <1>4 DEF ReceiveTxDisable, ReceiveSwitchesOn
<1>5. CASE CaptureFirst
  BY <1>5 DEF CaptureFirst
<1>6. CASE CaptureSecond
  BY <1>6 DEF CaptureSecond
<1>7. CASE FireHeader
  BY <1>7 DEF FireHeader
<1>8. CASE StreamId("fire_and_capture", "stream_id", "stream_rest")
  BY <1>8 DEF StreamId, Headers
<1>9. CASE StreamRest("fire_and_capture", "stream_rest", "unlock")
  BY <1>9 DEF StreamRest, Headers
<1>10. CASE FireUnlock
  BY <1>10 DEF FireUnlock, FireReturns
<1>11. CASE AfterMode
  BY <1>11 DEF AfterMode
<1>12. CASE AfterHvOff
  BY <1>12 DEF AfterHvOff
<1>13. CASE AfterValid
  BY <1>13 DEF AfterValid, AfterCaptureReturns
<1>14. QED
  BY <1>1, <1>2, <1>3, <1>4, <1>5, <1>6, <1>7, <1>8, <1>9, <1>10, <1>11, <1>12,
     <1>13 DEF hook_fire_and_capture, hook_after_capture

\* An eviction never hits the id that is being saved.
LEMMA EvictionKeeps ==
  ASSUME BoardTypes, NEW id \in SaveIds, NEW content,
         eeprom' \in Evictions(id, content)
  PROVE  eeprom'[id] = content
BY DEF Evictions, BoardTypes

\* A save.
LEMMA SaveKeeps ==
  ASSUME BoardTypes, BoardInv, [Next]_vars, LatchInv', hook_store_save
  PROVE  BoardInv'
<1> USE DEF BoardInv, Control, PulserInv, RecordInv, StreamInv, SavedInv, Places,
            Rewriting, Captured, Checked, Whole, Streaming, Has, record, pulser,
            memory, boardVarsButAt, boardVars, Within, Goto, smVars, times,
            ThermalLatched, BoardTypes
<1>1. CASE SaveBegin
  BY <1>1 DEF SaveBegin, Headers
<1>2. CASE SaveSucceeds
  <2>1. eeprom'[ev_arg] = g_lastHdr.rec
    BY <1>2, EvictionKeeps DEF SaveSucceeds
  <2>2. QED
    BY <1>2, <2>1 DEF SaveSucceeds
<1>3. CASE SaveFails
  BY <1>3 DEF SaveFails
<1>4. CASE StreamId("store_save", "stream_id", "stream_rest")
  BY <1>4 DEF StreamId, Headers
<1>5. CASE StreamRest("store_save", "stream_rest", "busy_off")
  BY <1>5 DEF StreamRest, Headers
<1>6. CASE SaveEnd
  BY <1>6 DEF SaveEnd, StoreReturns
<1>7. QED
  BY <1>1, <1>2, <1>3, <1>4, <1>5, <1>6 DEF hook_store_save

\* A load.
LEMMA LoadKeeps ==
  ASSUME BoardTypes, BoardInv, [Next]_vars, LatchInv', hook_store_load
  PROVE  BoardInv'
<1> USE DEF BoardInv, Control, PulserInv, RecordInv, StreamInv, SavedInv, Places,
            Rewriting, Captured, Checked, Whole, Streaming, Has, record, pulser,
            memory, boardVarsButAt, boardVars, Within, Goto, smVars, times,
            ThermalLatched, BoardTypes
<1>1. CASE LoadBegin
  BY <1>1, RailsAssumption DEF LoadBegin
<1>2. CASE LoadLock
  BY <1>2 DEF LoadLock
<1>3. CASE LoadHeader
  BY <1>3 DEF LoadHeader
<1>4. CASE LoadPage(1, "load_1", "load_2")
  BY <1>4 DEF LoadPage
<1>5. CASE LoadPage(2, "load_2", "checksum")
  BY <1>5 DEF LoadPage
<1>6. CASE LoadFails
  BY <1>6 DEF LoadFails
<1>7. CASE LoadChecksum
  BY <1>7 DEF LoadChecksum, ChecksumOK
<1>8. CASE LoadUnlock
  BY <1>8 DEF LoadUnlock
<1>9. CASE LoadResult
  BY <1>9 DEF LoadResult
<1>10. CASE StreamId("store_load", "stream_id", "stream_rest")
  BY <1>10 DEF StreamId, Headers
<1>11. CASE StreamRest("store_load", "stream_rest", "busy_off")
  BY <1>11 DEF StreamRest, Headers
<1>12. CASE LoadEnd
  BY <1>12 DEF LoadEnd, StoreReturns
<1>13. CASE LoadNotFound
  BY <1>13 DEF LoadNotFound
<1>14. QED
  BY <1>1, <1>2, <1>3, <1>4, <1>5, <1>6, <1>7, <1>8, <1>9, <1>10, <1>11, <1>12,
     <1>13 DEF hook_store_load

\* Interrupts and the pulser's temperature touch none of it.
LEMMA OthersKeep ==
  ASSUME BoardInv, LatchInv', Interrupt \/ TempChanges \/ UNCHANGED vars
  PROVE  BoardInv'
<1> USE DEF record, pulser, memory
<1>1. UNCHANGED <<at, g_statusFlags, g_waveBuf, g_lastHdr, g_hdrStream, hv, mode,
                  eeprom, build, s_state, ev_arg, pc>>
  BY DEF Interrupt, TempChanges, Tick, Post, vars, smVars, boardVars
<1>2. Control' /\ PulserInv'
  BY <1>1 DEF BoardInv, Control, PulserInv, Places, ThermalLatched
<1>3. RecordInv' /\ StreamInv'
  BY <1>1 DEF BoardInv, RecordInv, StreamInv, Places, Rewriting, Captured,
     Checked, Whole, Streaming, Has
<1>4. SavedInv'
  BY <1>1 DEF BoardInv, SavedInv, Places, Captured, Checked, Whole, Has
<1>5. QED
  BY <1>2, <1>3, <1>4 DEF BoardInv

\* BoardInv, with the types, is inductive.
LEMMA BoardStep ==
  BoardTypeOK /\ BoardInv /\ [Next]_vars => BoardTypeOK' /\ BoardInv'
<1> SUFFICES ASSUME BoardTypeOK, BoardInv, [Next]_vars
             PROVE  BoardTypeOK' /\ BoardInv'
  OBVIOUS
<1>1. SmTypeOK /\ BoardTypes /\ Control /\ LatchInv
  BY DEF BoardTypeOK, BoardTypes, BoardInv
<1>2. [SmNext]_smVars
  BY <1>1, BoardStepsMachine DEF BoardTypes
<1>3. SmTypeOK' /\ LatchInv'
  BY <1>1, <1>2, SmTypeStep, LatchStep
<1>4. BoardTypes'
  BY <1>1, BoardTypeStep
<1>5. BoardInv'
  BY <1>1, <1>3, MachineKeeps, FaultHooksKeep, ScanKeeps, SaveKeeps, LoadKeeps,
     OthersKeep DEF Next, main, Hook
<1>6. QED
  BY <1>3, <1>4, <1>5 DEF BoardTypeOK, BoardTypes

\* main() enters its loop with BoardInv true.
LEMMA BoardStart == Init => BoardTypeOK /\ BoardInv
<1> SUFFICES ASSUME Init PROVE BoardTypeOK /\ BoardInv
  OBVIOUS
<1>1. SmTypeOK
  BY SmTypeStart DEF Init
<1>2. BoardTypeOK
  <2>1. PICK blank \in Recs : /\ g_waveBuf = [half \in 1 .. 2 |-> blank]
                             /\ g_lastHdr = [id |-> 0, rec |-> blank]
    BY DEF Init
  <2>2. g_waveBuf \in [1 .. 2 -> Recs] /\ g_lastHdr \in Headers
    BY <2>1 DEF Headers
  <2>3. QED
    BY <1>1, <2>2 DEF Init, BoardTypeOK, Flags
<1>3. BoardInv
  BY RailsAssumption DEF Init, SmInit, BoardInv, Control, LatchInv, InFault,
     PulserInv, RecordInv, StreamInv, SavedInv, Places, Rewriting, Captured,
     Checked, Whole, Streaming, Has
<1>4. QED
  BY <1>2, <1>3

-----------------------------------------------------------------------------
(* What the board promises.                                                *)

\* The board implements the state machine: every behaviour of the hooks with
\* their accesses is one of ndt_sm.c.
THEOREM BoardImplementsSm == Spec => SmSpec
<1>1. Init => SmInit
  BY DEF Init
<1>2. BoardTypeOK /\ [Next]_vars => [SmNext]_smVars
  BY BoardStepsMachine DEF BoardTypeOK
<1>3. QED
  BY <1>1, <1>2, BoardStart, BoardStep, PTL DEF Spec, SmSpec

\* So a latched thermal fault is final on the board, too.
THEOREM BoardFaultLatched == Spec => FaultLatched
BY BoardImplementsSm, SmFaultLatched, PTL

\* The inductive invariant holds in every state the board reaches.
THEOREM BoardInvariant == Spec => [](BoardTypeOK /\ BoardInv)
BY BoardStart, BoardStep, PTL DEF Spec

\* DATA_VALID: all of g_waveBuf is the record that g_lastHdr describes.
THEOREM BufferWhole == Spec => []ValidIsWhole
<1>1. BoardInv => ValidIsWhole
  BY DEF BoardInv, RecordInv, Whole, ValidIsWhole
<1>2. QED
  BY <1>1, BoardInvariant, PTL

\* DATA_VALID without EEPROM_BUSY: the served header is the board's own.
THEOREM HeaderServed == Spec => []ServedHeaderMatches
<1>1. BoardInv => ServedHeaderMatches
  BY DEF BoardInv, RecordInv, StreamInv, Streaming, Rewriting, Places, Has,
     ServedHeaderMatches
<1>2. QED
  BY <1>1, BoardInvariant, PTL

\* A header with a record id is a promise about the EEPROM.
THEOREM IdPromises == Spec => []SavedIdHoldsRecord
<1>1. BoardInv => SavedIdHoldsRecord
  BY DEF BoardInv, RecordInv, StreamInv, SavedInv, Streaming, Rewriting, Places,
     Has, SavedIdHoldsRecord
<1>2. QED
  BY <1>1, BoardInvariant, PTL

\* The high voltage is on in a scan whose rails were all in range, and only then.
THEOREM HvInScan == Spec => []HvOnlyInScan
<1>1. BoardInv => HvOnlyInScan
  BY DEF BoardInv, Control, PulserInv, HvOnlyInScan
<1>2. QED
  BY <1>1, BoardInvariant, PTL

\* With latched faults every burst is driven in octal mode, with high voltage.
THEOREM BurstInMode == Spec => []BurstInOctalMode
<1>1. BoardInv => BurstInOctalMode
  BY DEF BoardInv, Control, PulserInv, Places, BurstInOctalMode
<1>2. QED
  BY <1>1, BoardInvariant, PTL

-----------------------------------------------------------------------------
(* A pulser that turns hot: the count of MCNdtBoard, for every build.      *)

\* From the end of a burst to the next check of THP, and from a failed check
\* until the pulser has cooled down.
BurstBehind ==
  \/ pc = "fire_and_capture" /\ at \notin {"", "hv", "burst"}
  \/ s_state \in {"DATA_READY", "THERMAL_FAULT"}
  \/ s_state = "IDLE" /\ pc \in {"step", "thermal_fault", "on_thermal_enter"}

\* "burst" is a place of hook_fire_and_capture() alone.
BurstPlace == at = "burst" => pc = "fire_and_capture"

HotInv ==
  /\ burstsWhileHot \in {0, 1}
  /\ burstsWhileHot = 1 => hot /\ BurstBehind
  /\ BurstPlace

LEMMA BurstPlaceStep == Control /\ BurstPlace /\ [Next]_vars => BurstPlace'
<1> SUFFICES ASSUME Control, BurstPlace, [Next]_vars PROVE BurstPlace'
  OBVIOUS
<1> USE DEF BurstPlace, Control, Within, Goto, boardVars, smVars
<1>1. CASE hook_thermal_fault \/ hook_set_burst_cycles \/ hook_thermal_blink
  BY <1>1 DEF hook_thermal_fault, ThermalFaultReturns, RecheckReturns,
     hook_set_burst_cycles, SetBurstReturns, hook_thermal_blink,
     ThermalBlinkReturns
<1>2. CASE ThermalFlag \/ ThermalHvOff \/ ThermalTxDisable
  BY <1>2 DEF ThermalFlag, ThermalHvOff, ThermalTxDisable
<1>3. CASE SuppliesClear \/ SuppliesMeasure \/ VoltageFlag \/ VoltageHvOff
  BY <1>3 DEF SuppliesClear, SuppliesMeasure, VoltageFlag, VoltageHvOff
<1>4. CASE hook_fire_and_capture
  BY <1>4 DEF hook_fire_and_capture, FireLock, FireHvOn, NDT_burst,
     ReceiveTxDisable, ReceiveSwitchesOn, CaptureFirst, CaptureSecond,
     FireHeader, StreamId, StreamRest, FireUnlock
<1>5. CASE hook_after_capture
  BY <1>5 DEF hook_after_capture, AfterMode, AfterHvOff, AfterValid
<1>6. CASE hook_store_save
  BY <1>6 DEF hook_store_save, SaveBegin, SaveSucceeds, SaveFails, StreamId,
     StreamRest, SaveEnd
<1>7. CASE hook_store_load
  BY <1>7 DEF hook_store_load, LoadBegin, LoadLock, LoadNotFound, LoadHeader,
     LoadPage, LoadFails, LoadChecksum, LoadUnlock, LoadResult, StreamId,
     StreamRest, LoadEnd
<1>8. CASE Machine
  BY <1>8 DEF Machine, StepIdle, CheckPeriodic, AcceptPeriodic, AcceptCommand,
     NothingQueued, PopEvent, StepFire, StepDataReady, StepVoltageFault,
     StepThermalFault, Blink
<1>9. CASE Interrupt \/ TempChanges \/ UNCHANGED vars
  BY <1>9 DEF Interrupt, TempChanges, Tick, Post, vars
<1>10. QED
  BY <1>1, <1>2, <1>3, <1>4, <1>5, <1>6, <1>7, <1>8, <1>9 DEF Next, main, Hook

\* A step that leaves the place of the burst has driven it.
LEMMA LeavesBurst ==
  ASSUME BurstPlace, [Next]_vars, at = "burst", at' # at
  PROVE  BurstBehind'
<1>1. pc = "fire_and_capture"
  BY DEF BurstPlace
<1>2. ~Machine /\ ~Interrupt /\ ~TempChanges /\ ~UNCHANGED vars
  BY DEF Machine, Interrupt, TempChanges, vars, boardVars
<1>3. hook_fire_and_capture
  BY <1>1, <1>2 DEF Next, main, Hook, Within, Goto, hook_thermal_fault,
     ThermalFaultReturns, RecheckReturns, ThermalFlag, ThermalHvOff,
     ThermalTxDisable, SuppliesClear, SuppliesMeasure, VoltageFlag, VoltageHvOff,
     hook_after_capture, AfterMode, AfterHvOff, AfterValid, hook_set_burst_cycles,
     SetBurstReturns, hook_thermal_blink, ThermalBlinkReturns, hook_store_save,
     SaveBegin, SaveSucceeds, SaveFails, StreamId, StreamRest, SaveEnd,
     hook_store_load, LoadBegin, LoadLock, LoadNotFound, LoadHeader, LoadPage,
     LoadFails, LoadChecksum, LoadUnlock, LoadResult, LoadEnd
<1>4. at' = "tx_disable" /\ pc' = pc
  BY <1>3 DEF hook_fire_and_capture, FireLock, FireHvOn, NDT_burst,
     ReceiveTxDisable, ReceiveSwitchesOn, CaptureFirst, CaptureSecond, FireHeader,
     StreamId, StreamRest, FireUnlock, Within, Goto, smVars
<1>5. QED
  BY <1>1, <1>4 DEF BurstBehind

\* While the pulser is hot the next check of THP fails, and every later one.
LEMMA StaysBehind ==
  ASSUME Control, BurstPlace, [Next]_vars, hot = TRUE, BurstBehind
  PROVE  BurstBehind'
<1> USE DEF BurstBehind, Control, Within, Goto, boardVars, smVars
<1>1. CASE hook_thermal_fault
  BY <1>1 DEF hook_thermal_fault, ThermalFaultReturns, RecheckReturns
<1>2. CASE ThermalFlag \/ ThermalHvOff \/ ThermalTxDisable
  BY <1>2 DEF ThermalFlag, ThermalHvOff, ThermalTxDisable, OnThermalEnterReturns
<1>3. CASE SuppliesClear \/ SuppliesMeasure \/ VoltageFlag \/ VoltageHvOff
  BY <1>3 DEF SuppliesClear, SuppliesMeasure, VoltageFlag, VoltageHvOff
<1>4. CASE hook_fire_and_capture
  BY <1>4 DEF hook_fire_and_capture, FireLock, FireHvOn, NDT_burst,
     ReceiveTxDisable, ReceiveSwitchesOn, CaptureFirst, CaptureSecond,
     FireHeader, StreamId, StreamRest, FireUnlock, FireReturns
<1>5. CASE hook_after_capture
  BY <1>5 DEF hook_after_capture, AfterMode, AfterHvOff, AfterValid,
     AfterCaptureReturns
<1>6. CASE hook_set_burst_cycles \/ hook_thermal_blink
  BY <1>6 DEF hook_set_burst_cycles, hook_thermal_blink, SetBurstReturns,
     ThermalBlinkReturns
<1>7. CASE hook_store_save
  BY <1>7 DEF hook_store_save, SaveBegin, SaveSucceeds, SaveFails, StreamId,
     StreamRest, SaveEnd, StoreReturns
<1>8. CASE hook_store_load
  BY <1>8 DEF hook_store_load, LoadBegin, LoadLock, LoadNotFound, LoadHeader,
     LoadPage, LoadFails, LoadChecksum, LoadUnlock, LoadResult, StreamId,
     StreamRest, LoadEnd, StoreReturns
<1>9. CASE Machine
  BY <1>9 DEF Machine, StepIdle, CheckPeriodic, AcceptPeriodic, AcceptCommand,
     accept_trigger, NothingQueued, PopEvent, StepFire, StepDataReady,
     StepVoltageFault, StepThermalFault, Blink
<1>10. CASE Interrupt \/ TempChanges \/ UNCHANGED vars
  BY <1>10 DEF Interrupt, TempChanges, Tick, Post, vars
<1>11. QED
  BY <1>1, <1>2, <1>3, <1>4, <1>5, <1>6, <1>7, <1>8, <1>9, <1>10
     DEF Next, main, Hook

\* The count.
LEMMA HotStep ==
  BoardTypeOK /\ BoardInv /\ HotInv
    /\ [Next /\ CountBursts]_<<vars, burstsWhileHot>> => HotInv'
<1> SUFFICES ASSUME BoardTypeOK, BoardInv, HotInv, Next, CountBursts PROVE HotInv'
  <2>1. UNCHANGED <<vars, burstsWhileHot>> => (HotInv => HotInv')
    <3>1. UNCHANGED <<vars, burstsWhileHot>>
            => UNCHANGED <<at, pc, s_state, hot, burstsWhileHot>>
      BY DEF vars, smVars, boardVars
    <3>2. UNCHANGED <<at, pc, s_state>> => BurstBehind' = BurstBehind
                                           /\ BurstPlace' = BurstPlace
      BY DEF BurstBehind, BurstPlace
    <3>3. QED
      BY <3>1, <3>2, Zenon DEF HotInv
  <2>2. QED
    BY <2>1
<1>1. Control /\ BurstPlace /\ hot \in BOOLEAN
  BY DEF BoardInv, BoardTypeOK, HotInv
<1>2. BurstPlace'
  BY <1>1, BurstPlaceStep
<1>3. CASE ~hot'
  <2>1. burstsWhileHot' = 0
    BY <1>3 DEF CountBursts
  <2>2. QED
    BY <1>2, <2>1 DEF HotInv
<1>4. CASE hot' /\ hot /\ at = "burst" /\ at' # at
  <2>1. BurstBehind'
    BY <1>1, <1>4, LeavesBurst
  <2>2. burstsWhileHot = 0
    BY <1>1, <1>4 DEF HotInv, BurstBehind, BurstPlace, Control
  <2>3. burstsWhileHot' = 1
    BY <1>4, <2>2 DEF CountBursts
  <2>4. QED
    BY <1>2, <1>4, <2>1, <2>3 DEF HotInv
<1>5. CASE hot' /\ ~(hot /\ at = "burst" /\ at' # at)
  <2>1. burstsWhileHot' = burstsWhileHot
    BY <1>5 DEF CountBursts
  <2>2. burstsWhileHot = 1 => BurstBehind'
    <3>1. CASE burstsWhileHot = 1
      <4>1. hot = TRUE /\ BurstBehind
        BY <1>1, <3>1 DEF HotInv
      <4>2. QED
        BY <1>1, <4>1, StaysBehind
    <3>2. QED
      BY <3>1
  <2>3. QED
    BY <1>2, <1>5, <2>1, <2>2 DEF HotInv
<1>6. QED
  BY <1>3, <1>4, <1>5

\* A pulser that turns hot, in whatever build and wherever the board stands, is
\* driven by no more than the burst already under way.
THEOREM OneBurst == CountedSpec => []OneBurstAfterHot
<1>1. MCInit => BoardTypeOK /\ BoardInv /\ HotInv
  <2> SUFFICES ASSUME MCInit PROVE BoardTypeOK /\ BoardInv /\ HotInv
    OBVIOUS
  <2>1. Init /\ burstsWhileHot = 0
    BY DEF MCInit
  <2>2. at = ""
    BY <2>1 DEF Init
  <2>3. burstsWhileHot = 0
    BY <2>1
  <2>4. burstsWhileHot \in {0, 1} /\ burstsWhileHot # 1
    BY <2>3
  <2>5. at # "burst"
    BY <2>2
  <2>6. HotInv
    BY <2>4, <2>5, Zenon DEF HotInv, BurstPlace
  <2>7. QED
    BY <2>1, <2>6, BoardStart
<1>2. BoardTypeOK /\ BoardInv /\ [Next /\ CountBursts]_<<vars, burstsWhileHot>>
        => BoardTypeOK' /\ BoardInv'
  BY BoardStep
<1>3. HotInv => OneBurstAfterHot
  BY DEF HotInv, OneBurstAfterHot
<1>4. QED
  BY <1>1, <1>2, <1>3, HotStep, PTL DEF CountedSpec
=============================================================================

-------------------------------- MODULE NdtSm --------------------------------
(***************************************************************************)
(* The state machine of ndt_sm.c: ndt_sm_step(), called for ever by main(),*)
(* and the board hooks it calls.  Control leaves the machine at every hook *)
(* call and comes back at its return; in between interrupts post events    *)
(* and the millisecond counter moves on.  What a hook does is not modelled *)
(* here (NdtBoard does): the result of one that returns a value is any     *)
(* value.                                                                  *)
(*                                                                         *)
(* pc says where the main loop is: "step" between two calls of             *)
(* ndt_sm_step(), the name of the hook that is running, or the place in    *)
(* step_idle() that is reached next.  The event queue is the bounded FIFO  *)
(* that NdtRingProofs shows the ring to implement.                         *)
(***************************************************************************)
EXTENDS Naturals, Sequences

CONSTANTS
  TrigSources,     \* the settings of ndt_config.h a binary may be built with:
  SkipSettings,    \* NDT_TRIGGER_SOURCE, NDT_TRIG_SKIP_MISSED # 0 and
  LatchSettings,   \* NDT_THERMAL_LATCHED # 0
  Period,          \* NDT_TRIG_PERIOD_MS
  BlinkMs,         \* NDT_THERMAL_BLINK_MS
  MsMod,           \* the modulus of the uint32_t milliseconds (2^32)
  QDepth,          \* NDT_EVENT_QUEUE_DEPTH
  SaveIds,         \* record ids of STORE_SAVE and STORE_LOAD
  BurstArgs        \* arguments of SET_BURST, raw

ASSUME ConfigAssumption ==
  /\ TrigSources \subseteq {"I2C", "PERIODIC", "BOTH"}
  /\ SkipSettings \subseteq BOOLEAN
  /\ LatchSettings \subseteq BOOLEAN
ASSUME TimeAssumption ==
  /\ MsMod \in Nat \ {0}
  /\ Period \in 1 .. MsMod - 1
  /\ BlinkMs \in 1 .. MsMod - 1
ASSUME DepthAssumption == QDepth \in Nat \ {0}
ASSUME ArgAssumption == SaveIds \subseteq Nat /\ BurstArgs \subseteq Nat

VARIABLES
  build,                                 \* the settings of this binary
  s_state, s_lastTrigMs, s_lastBlinkMs,  \* the statics of ndt_sm.c
  queue,                                 \* the events pending in the ring
  ev_arg,                                \* step_idle()'s ev.arg, 0 when it is dead
  g_msTicks,                             \* the millisecond tick of main.c
  pc

times  == <<s_lastTrigMs, s_lastBlinkMs>>
smVars == <<build, s_state, times, queue, ev_arg, g_msTicks, pc>>

TrigSource     == build.trigSource      \* NDT_TRIGGER_SOURCE
SkipMissed     == build.skipMissed      \* NDT_TRIG_SKIP_MISSED # 0
ThermalLatched == build.thermalLatched  \* NDT_THERMAL_LATCHED # 0

States ==
  {"IDLE", "FIRE", "DATA_READY", "STORE_OP", "THERMAL_FAULT", "VOLTAGE_FAULT"}

\* What the I2CB interrupt posts.
Events ==
  [id : {"TRIGGER"}, arg : {0}]
  \cup [id : {"STORE_SAVE", "STORE_LOAD"}, arg : SaveIds]
  \cup [id : {"SET_BURST"}, arg : BurstArgs]

Hooks ==
  {"thermal_fault", "on_thermal_enter", "supplies_ok", "fire_and_capture",
   "after_capture", "on_voltage_fault", "thermal_blink", "store_save",
   "store_load", "set_burst_cycles"}

\* The points of ndt_sm_step() between two hooks.
Points ==
  {"step", "periodic", "accept_periodic", "accept_command", "q_pop", "blink",
   "recheck"}

\* ndt_sm_init(), before interrupts are enabled.
SmInit ==
  /\ build \in [trigSource : TrigSources, skipMissed : SkipSettings,
                thermalLatched : LatchSettings]
  /\ s_state = "IDLE"
  /\ g_msTicks = 0
  /\ s_lastTrigMs = 0 /\ s_lastBlinkMs = 0
  /\ queue = << >>
  /\ ev_arg = 0
  /\ pc = "step"

\* Faults: comparisons that do not survive the wrap of the counter.
ElapsedAbsolute(since, period) ==
  IF g_msTicks >= since THEN g_msTicks - since >= period
                        ELSE since - g_msTicks >= period

ElapsedSum(since, period) == g_msTicks >= since + period

\* (uint32_t)(now_ms() - since) >= period
Elapsed(since, period) == (g_msTicks + MsMod - since) % MsMod >= period

-----------------------------------------------------------------------------
(* Interrupts.                                                             *)

\* ndt_timer1ISR()
Tick ==
  /\ g_msTicks' = (g_msTicks + 1) % MsMod
  /\ UNCHANGED <<build, s_state, times, queue, ev_arg, pc>>

\* A fault: the ring is believed one slot larger than it is.
PostUnmasked(e) ==
  /\ queue' = IF Len(queue) <= QDepth - 1 THEN Append(queue, e) ELSE queue
  /\ UNCHANGED <<build, s_state, times, ev_arg, g_msTicks, pc>>

\* ndt_sm_post() from the I2CB interrupt; a full ring drops the event.
Post(e) ==
  /\ queue' = IF Len(queue) < QDepth - 1 THEN Append(queue, e) ELSE queue
  /\ UNCHANGED <<build, s_state, times, ev_arg, g_msTicks, pc>>

-----------------------------------------------------------------------------
(* step_idle()                                                             *)

StepIdle ==
  /\ pc = "step" /\ s_state = "IDLE"
  /\ pc' = "thermal_fault"
  /\ UNCHANGED <<build, s_state, times, queue, ev_arg, g_msTicks>>

ThermalFaultReturns(hot) ==
  /\ pc = "thermal_fault"
  /\ pc' = IF hot THEN "on_thermal_enter" ELSE "periodic"
  /\ UNCHANGED <<build, s_state, times, queue, ev_arg, g_msTicks>>

OnThermalEnterReturns ==
  /\ pc = "on_thermal_enter"
  /\ s_state' = "THERMAL_FAULT"
  /\ s_lastBlinkMs' = g_msTicks
  /\ pc' = "step"
  /\ UNCHANGED <<build, s_lastTrigMs, queue, ev_arg, g_msTicks>>

CheckPeriodic ==
  /\ pc = "periodic"
  /\ pc' = IF TrigSource \in {"PERIODIC", "BOTH"} /\ Elapsed(s_lastTrigMs, Period)
             THEN "accept_periodic" ELSE "q_pop"
  /\ UNCHANGED <<build, s_state, times, queue, ev_arg, g_msTicks>>

\* A fault: a periodic trigger forgets to restart its period.
AcceptTriggerNoRestart(periodic) ==
  /\ s_state' = "FIRE"
  /\ s_lastTrigMs' = IF periodic THEN s_lastTrigMs ELSE g_msTicks
  /\ pc' = "step"
  /\ UNCHANGED <<build, s_lastBlinkMs, queue, ev_arg, g_msTicks>>

accept_trigger(periodic) ==
  /\ s_state' = "FIRE"
  /\ s_lastTrigMs' = IF periodic /\ ~SkipMissed
                       THEN (s_lastTrigMs + Period) % MsMod
                       ELSE g_msTicks
  /\ pc' = "step"
  /\ UNCHANGED <<build, s_lastBlinkMs, queue, ev_arg, g_msTicks>>

AcceptPeriodic == pc = "accept_periodic" /\ accept_trigger(TRUE)

AcceptCommand == pc = "accept_command" /\ accept_trigger(FALSE)

NothingQueued ==
  /\ pc = "q_pop" /\ queue = << >>
  /\ pc' = "step"
  /\ UNCHANGED <<build, s_state, times, queue, ev_arg, g_msTicks>>

\* Where step_idle() goes with the event it popped.  Nobody posts
\* NDT_EV_CLEAR_FAULT, which the code ignores.
Dispatch(id) ==
  CASE id = "TRIGGER"    -> IF TrigSource = "PERIODIC" THEN "step"
                                                       ELSE "accept_command"
    [] id = "STORE_SAVE" -> "store_save"
    [] id = "STORE_LOAD" -> "store_load"
    [] id = "SET_BURST"  -> "set_burst_cycles"

PopEvent ==
  /\ pc = "q_pop" /\ queue # << >>
  /\ queue' = Tail(queue)
  /\ ev_arg' = Head(queue).arg
  /\ pc' = Dispatch(Head(queue).id)
  /\ s_state' = IF pc' \in {"store_save", "store_load"} THEN "STORE_OP"
                                                        ELSE s_state
  /\ UNCHANGED <<build, times, g_msTicks>>

StoreReturns ==
  /\ pc \in {"store_save", "store_load"}
  /\ s_state' = "IDLE"
  /\ ev_arg' = 0
  /\ pc' = "step"
  /\ UNCHANGED <<build, times, queue, g_msTicks>>

SetBurstReturns ==
  /\ pc = "set_burst_cycles"
  /\ ev_arg' = 0
  /\ pc' = "step"
  /\ UNCHANGED <<build, s_state, times, queue, g_msTicks>>

-----------------------------------------------------------------------------
(* ndt_sm_step() outside IDLE                                              *)

StepFire ==
  /\ pc = "step" /\ s_state = "FIRE"
  /\ pc' = "supplies_ok"
  /\ UNCHANGED <<build, s_state, times, queue, ev_arg, g_msTicks>>

SuppliesOkReturns(ok) ==
  /\ pc = "supplies_ok"
  /\ pc' = IF ok THEN "fire_and_capture" ELSE "on_voltage_fault"
  /\ UNCHANGED <<build, s_state, times, queue, ev_arg, g_msTicks>>

FireReturns ==
  /\ pc = "fire_and_capture"
  /\ s_state' = "DATA_READY"
  /\ pc' = "step"
  /\ UNCHANGED <<build, times, queue, ev_arg, g_msTicks>>

OnVoltageFaultReturns ==
  /\ pc = "on_voltage_fault"
  /\ s_state' = "VOLTAGE_FAULT"
  /\ pc' = "step"
  /\ UNCHANGED <<build, times, queue, ev_arg, g_msTicks>>

StepDataReady ==
  /\ pc = "step" /\ s_state = "DATA_READY"
  /\ pc' = "after_capture"
  /\ UNCHANGED <<build, s_state, times, queue, ev_arg, g_msTicks>>

AfterCaptureReturns ==
  /\ pc = "after_capture"
  /\ s_state' = "IDLE"
  /\ pc' = "step"
  /\ UNCHANGED <<build, times, queue, ev_arg, g_msTicks>>

\* A fault: a voltage fault is latched.
StepVoltageFaultStuck ==
  /\ pc = "step" /\ s_state = "VOLTAGE_FAULT"
  /\ UNCHANGED smVars

StepVoltageFault ==
  /\ pc = "step" /\ s_state = "VOLTAGE_FAULT"
  /\ s_state' = "IDLE"
  /\ UNCHANGED <<build, times, queue, ev_arg, g_msTicks, pc>>

\* A fault: the recheck is compiled in whatever NDT_THERMAL_LATCHED says.
AfterBlinkUnlatched == "recheck"

\* Where the THERMAL_FAULT case goes after the blinking.
AfterBlink == IF ThermalLatched THEN "step" ELSE "recheck"

StepThermalFault ==
  /\ pc = "step" /\ s_state = "THERMAL_FAULT"
  /\ pc' = IF Elapsed(s_lastBlinkMs, BlinkMs) THEN "blink" ELSE AfterBlink
  /\ UNCHANGED <<build, s_state, times, queue, ev_arg, g_msTicks>>

Blink ==
  /\ pc = "blink"
  /\ s_lastBlinkMs' = g_msTicks
  /\ pc' = "thermal_blink"
  /\ UNCHANGED <<build, s_state, s_lastTrigMs, queue, ev_arg, g_msTicks>>

ThermalBlinkReturns ==
  /\ pc = "thermal_blink"
  /\ pc' = AfterBlink
  /\ UNCHANGED <<build, s_state, times, queue, ev_arg, g_msTicks>>

\* NDT_THERMAL_LATCHED == 0: the hook is asked again and a cool pulser frees
\* the machine.
RecheckReturns(hot) ==
  /\ pc = "recheck"
  /\ s_state' = IF hot THEN s_state ELSE "IDLE"
  /\ pc' = "step"
  /\ UNCHANGED <<build, times, queue, ev_arg, g_msTicks>>

-----------------------------------------------------------------------------

MainLoop ==
  \/ StepIdle
  \/ \E hot \in BOOLEAN : ThermalFaultReturns(hot)
  \/ OnThermalEnterReturns
  \/ CheckPeriodic \/ AcceptPeriodic \/ AcceptCommand
  \/ NothingQueued \/ PopEvent \/ StoreReturns \/ SetBurstReturns
  \/ StepFire
  \/ \E ok \in BOOLEAN : SuppliesOkReturns(ok)
  \/ FireReturns \/ OnVoltageFaultReturns
  \/ StepDataReady \/ AfterCaptureReturns \/ StepVoltageFault
  \/ StepThermalFault \/ Blink \/ ThermalBlinkReturns
  \/ \E hot \in BOOLEAN : RecheckReturns(hot)

SmNext == MainLoop \/ Tick \/ \E e \in Events : Post(e)

SmSpec == SmInit /\ [][SmNext]_smVars

\* main() never leaves its loop, and every hook returns.
SmFairSpec == SmSpec /\ WF_smVars(MainLoop)

-----------------------------------------------------------------------------

\* Types of the state machine's statics, and the states its pc goes with.
SmTypeOK ==
  /\ s_state \in States
  /\ s_lastTrigMs \in 0 .. MsMod - 1
  /\ s_lastBlinkMs \in 0 .. MsMod - 1
  /\ g_msTicks \in 0 .. MsMod - 1
  /\ queue \in Seq(Events) /\ Len(queue) <= QDepth - 1
  /\ ev_arg \in {0} \cup SaveIds \cup BurstArgs
  /\ pc \in Hooks \cup Points

\* ndt_sm.c: a command that arrives mid-scan "simply waits in the queue".  It
\* does not wait for ever: the main loop keeps taking commands off the queue
\* unless the queue runs empty or the pulser overheats, time and again.  The
\* periodic check comes first, so with periodic triggers this needs a scan that
\* is shorter than the period.
CommandsServed ==
  []<>(queue = << >> \/ s_state = "THERMAL_FAULT") \/ []<><<PopEvent>>_smVars

\* A latched thermal fault (NDT_THERMAL_LATCHED) is left by nothing but a
\* reset, whatever the flag, the queue and the timers do meanwhile, and nothing
\* drives the pulser after it.
FaultLatched ==
  [](s_state = "THERMAL_FAULT" /\ ThermalLatched =>
       [](s_state = "THERMAL_FAULT" /\ pc \in {"step", "blink", "thermal_blink"}))

\* README.md, "Thermal fault": the "main loop keeps draining commands while the
\* fault is active".
ThermalDrainsCommands ==
  []<>(queue = << >> \/ s_state # "THERMAL_FAULT") \/ []<><<PopEvent>>_smVars

=============================================================================

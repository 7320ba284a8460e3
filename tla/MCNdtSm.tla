------------------------------- MODULE MCNdtSm -------------------------------
(***************************************************************************)
(* Instances of NdtSm for TLC, with three history variables that count     *)
(* real milliseconds, which the wrapping counter of the code does not:     *)
(*   behind      ms since the tick the last trigger was accounted to       *)
(*   sinceBlink  ms since the LED was last toggled in the fault, or since  *)
(*               the fault was entered (counted up to BlinkMs)             *)
(*   scan        ms spent since the last trigger was accepted, or since the  *)
(*               last pass that found none, up to the next one accepted     *)
(***************************************************************************)
EXTENDS NdtSm, Integers

CONSTANTS
  MaxScan, \* a scan takes no more milliseconds than this
  MaxLag   \* bound: time stops when the machine is this far behind

\* TLC's bounds: the machine is never behind by a whole turn of the counter.
ASSUME LagAssumption == MaxLag \in Nat /\ MaxLag < MsMod /\ MaxScan \in Nat

VARIABLES behind, sinceBlink, scan

pacedVars == <<smVars, behind, sinceBlink, scan>>

PacedInit == SmInit /\ behind = 0 /\ sinceBlink = 0 /\ scan = 0

\* A scan, or what a pass of step_idle() does before the periodic check; saves,
\* loads and faults may take any time.
InScan ==
  \/ s_state \in {"FIRE", "DATA_READY", "VOLTAGE_FAULT"}
  \/ s_state = "IDLE" /\ pc \in {"step", "thermal_fault", "periodic",
                            "accept_periodic", "accept_command"}

PacedTick ==
  /\ Tick
  /\ scan' = IF InScan THEN scan + 1 ELSE scan
  /\ behind' = behind + 1
  /\ sinceBlink' = IF sinceBlink < BlinkMs THEN sinceBlink + 1 ELSE sinceBlink

\* Time as TLC lets it run.
BoundedTick == PacedTick /\ behind < MaxLag /\ (InScan => scan < MaxScan)

\* The main loop leaves the point p in this step.
Leaves(p) == pc = p /\ pc' # p

PacedLoop ==
  /\ MainLoop
  /\ behind' = CASE Leaves("accept_command")  -> 0
                 [] Leaves("accept_periodic") ->
                      IF SkipMissed THEN 0 ELSE behind - Period
                 [] OTHER -> behind
  /\ sinceBlink' = IF Leaves("on_thermal_enter") \/ Leaves("blink")
                     THEN 0 ELSE sinceBlink
  /\ scan' = IF \E p \in {"accept_periodic", "accept_command", "q_pop"} : Leaves(p)
               THEN 0 ELSE scan

PacedPost ==
  /\ \E e \in Events : Post(e)
  /\ UNCHANGED <<behind, sinceBlink, scan>>

\* The machine with its histories; the steps of TLC are among its steps.
PacedNext == PacedLoop \/ PacedTick \/ PacedPost

PacedSpec == PacedInit /\ [][PacedNext]_pacedVars

BoundedNext == PacedLoop \/ BoundedTick \/ PacedPost

\* Timer 1 never stops and main() never leaves its loop.
BoundedFairSpec ==
  /\ PacedInit /\ [][BoundedNext]_pacedVars
  /\ WF_pacedVars(PacedLoop) /\ WF_pacedVars(BoundedTick)

-----------------------------------------------------------------------------

\* Two periodic triggers, or a command and a periodic trigger, are never closer
\* than the period in real time, across the wrap of the millisecond counter;
\* without SKIP_MISSED the machine catches up on missed ticks but never
\* gets ahead of the clock.
PeriodicPace == [][Leaves("accept_periodic") => behind >= Period]_pacedVars

\* The LED toggles at most every BlinkMs of real time, across the wrap.
BlinkPace == [][Leaves("blink") => sinceBlink >= BlinkMs]_pacedVars

\* The periodic source keeps firing, across the wrap of the counter, as long as
\* the pulser does not overheat.
PeriodicFires ==
  TrigSource = "PERIODIC" =>
    []<>(s_state = "THERMAL_FAULT") \/ []<><<AcceptPeriodic>>_smVars
=============================================================================

-------------------------------- MODULE NdtScan --------------------------------
(***************************************************************************)
(* A scan at the level of the hardware: hook_fire_and_capture() from the   *)
(* burst of NdtBurst through max14808_enter_receive_mode(), pin by pin,    *)
(* and the measurement of the start delay to NDT_captureRecord(), then     *)
(* hook_after_capture()'s way back to octal mode.                          *)
(*                                                                         *)
(* ePWM1 triggers a sweep of the same SOCs on ADCA and ADCC each time its  *)
(* counter is zero.  A sweep replaces the results one by one, and          *)
(* sets INT1 with the last; nothing holds a result for the reader.  A      *)
(* sample is the number of the sweep it was taken in.  Time runs on        *)
(* between any two steps of the code; interrupts may stretch the body of   *)
(* the loop up to MaxBody ticks per row.                                   *)
(***************************************************************************)
EXTENDS NdtBurst

CONSTANTS
  Samples,  \* WAVE_SAMPLES
  Period,   \* ticks of the pacer per sweep
  Socs,     \* conversions of a sweep on each ADC (4)
  Conv,     \* ticks per conversion
  MaxBody   \* bound: ticks from the end of a sweep to the end of its row

ASSUME PacerAssumption ==
  /\ {Samples, Socs, Conv, Period} \subseteq Nat \ {0} /\ MaxBody \in Nat
  /\ Socs * Conv < Period

\* The timer does not come round while a burst lasts (2^32 ticks are 43 s).
ASSUME DelayAssumption ==
  Cycles * (HalfTicksA + HalfTicksB) + 2 * MaxJitter < TimerMod

\* When SOC j (1 .. Socs) ends, in ticks after the trigger.
Eoc(j) == j * Conv

Sweep == Eoc(Socs)

VARIABLES
  at,       \* the place in the hooks
  t_fire,   \* the timer when the burst began
  startDelay, \* g_startDelayNs, in ticks
  wave,     \* g_waveBuf: the rows stored so far,
  row,      \*   and the one under way
  flagA, flagC,  \* ADCINT1 of ADCA and of ADCC
  running,  \* the pacer counts
  ctr,      \* its counter
  sweep,    \* the sweeps triggered so far
  conv,     \* ticks since the last trigger, as long as its sweep lasts
  armed,    \* history: the sweeps triggered before the capture
  body,     \* history: ticks since the flags of this row were set
  tight     \* history: every row so far was stored in time

delay   == <<t_fire, startDelay>>
adc     == <<flagA, flagC, ctr, sweep, conv>>
capture == <<wave, row, armed, body, tight>>
scanVars == <<vars, at, delay, adc, running, capture>>

\* The flags are those the sweep after the last record has left.
ScanInit ==
  /\ Init
  /\ at = "burst"
  /\ t_fire = timer /\ startDelay = 0
  /\ wave = << >> /\ row = << >>
  /\ flagA \in BOOLEAN /\ flagC = flagA
  /\ running = FALSE /\ ctr = 0 /\ sweep = 0 /\ conv = Sweep
  /\ armed = 0 /\ body = 0 /\ tight = TRUE

Goto(p, q) == at = p /\ at' = q

-----------------------------------------------------------------------------
(* The burst, the receive mode, the start delay                            *)

InBurst ==
  /\ at = "burst"
  /\ Burst \/ Tick
  /\ UNCHANGED <<at, delay, adc, running, capture>>

\* max14808_set_mode(): MODE0, then MODE1.
SetMode(m0, m1) ==
  <<[pins |-> {PIN_MODE0}, to |-> m0], [pins |-> {PIN_MODE1}, to |-> m1]>>

\* _write_channel(dev, ch, 1, 1) on all channels
SwitchesOn ==
  [j \in 1 .. 16 |-> Set({IF j % 2 = 1 THEN DinP[(j + 1) \div 2] ELSE DinN[j \div 2]})]

\* A fault: the switches are closed before the outputs are off.
ReceiveModeLate == SwitchesOn \o SetMode(TRUE, TRUE)

\* max14808_enter_receive_mode(dev, true)
ReceiveMode == SetMode(TRUE, TRUE) \o SwitchesOn

EnterReceiveMode ==
  /\ half = "done" /\ Goto("burst", "receive")
  /\ todo' = ReceiveMode
  /\ UNCHANGED <<high, i, half, t_ref, timer, history>>
  /\ UNCHANGED <<delay, adc, running, capture>>

WritePin ==
  /\ at \in {"receive", "restore"} /\ Write
  /\ UNCHANGED <<at, delay, adc, running, capture>>

\* The driver's own delay and what interrupts add to it.
ReceiveTick ==
  /\ at = "receive" /\ lost < MaxJitter
  /\ lost' = lost + 1
  /\ timer' = (timer - 1) % TimerMod /\ clock' = clock + 1
  /\ UNCHANGED <<high, i, todo, half, t_ref, nominal>>
  /\ UNCHANGED <<at, delay, adc, running, capture>>

\* Nothing looks at the timer, or at the times of the burst, any more.
Forget ==
  /\ t_fire' = 0 /\ timer' = 0 /\ t_ref' = 0
  /\ clock' = 0 /\ nominal' = 0 /\ lost' = 0
  /\ UNCHANGED <<high, i, todo, half>>

\* A fault: the reference that burst_wait() moves on is taken for t_fire.
MeasureRef ==
  /\ todo = << >> /\ Goto("receive", "clear_A")
  /\ startDelay' = (t_ref - timer) % TimerMod
  /\ Forget
  /\ UNCHANGED <<adc, running, capture>>

\* t_fire - t_cap
Measure ==
  /\ todo = << >> /\ Goto("receive", "clear_A")
  /\ startDelay' = (t_fire - timer) % TimerMod
  /\ Forget
  /\ UNCHANGED <<adc, running, capture>>

-----------------------------------------------------------------------------
(* The pacer and the ADCs                                                  *)

\* The results of SOC j of either ADC.
Result(j) == IF conv >= Eoc(j) THEN sweep ELSE sweep - 1

Waiting == (at = "poll_A" /\ ~flagA) \/ (at = "poll_C" /\ ~flagC)

PacerTick ==
  /\ running
  /\ body' = IF Waiting THEN 0 ELSE body + 1
  /\ body' <= MaxBody
  /\ ctr' = (ctr + 1) % Period
  /\ IF ctr' = 0 THEN sweep' = sweep + 1 /\ conv' = 0
     ELSE conv' = (IF conv < Sweep THEN conv + 1 ELSE conv) /\ UNCHANGED sweep
  /\ IF conv + 1 = Sweep THEN flagA' = TRUE /\ flagC' = TRUE
                          ELSE UNCHANGED <<flagA, flagC>>
  /\ UNCHANGED <<vars, at, delay, running, wave, row, armed, tight>>

-----------------------------------------------------------------------------
(* NDT_captureRecord()                                                     *)

Clear_A(p, q) ==
  /\ Goto(p, q)
  /\ flagA' = FALSE
  /\ UNCHANGED <<vars, delay, flagC, ctr, sweep, conv, running, capture>>

Clear_C(p, q) ==
  /\ Goto(p, q)
  /\ flagC' = FALSE
  /\ UNCHANGED <<vars, delay, flagA, ctr, sweep, conv, running, capture>>

\* A fault: the counter is set and not started.
ArmStopped ==
  /\ Goto("arm", "poll_A")
  /\ ctr' = 0 /\ armed' = sweep
  /\ UNCHANGED <<vars, delay, flagA, flagC, sweep, conv, running, wave, row, body,
                 tight>>

\* The pacer is armed: counter to zero, then up.  Whether that zero triggers a
\* sweep is left open.
Arm ==
  /\ Goto("arm", "poll_A")
  /\ running' = TRUE /\ ctr' = 0
  /\ \/ sweep' = sweep + 1 /\ conv' = 0
     \/ UNCHANGED <<sweep, conv>>
  /\ armed' = sweep
  /\ UNCHANGED <<vars, delay, flagA, flagC, wave, row, body, tight>>

Poll_A ==
  /\ flagA /\ Goto("poll_A", "poll_C")
  /\ UNCHANGED <<vars, delay, adc, running, capture>>

Poll_C ==
  /\ flagC /\ Goto("poll_C", "ack_A")
  /\ UNCHANGED <<vars, delay, adc, running, capture>>

\* The bodies of the loops that wait for the flags are empty.
Spin == Waiting /\ UNCHANGED scanVars

\* The ticks within which a row can be stored before SOC0 is replaced.
Slack == Period - Sweep + Eoc(1) - 1

\* A result is read: those of ADCA, then those of ADCC; with the last the row is stored.
ReadResult ==
  /\ at = "read"
  /\ LET full == row \o <<Result((Len(row) % Socs) + 1)>> IN
       IF Len(full) < 2 * Socs
         THEN /\ row' = full
              /\ UNCHANGED <<at, wave, body, tight>>
         ELSE /\ wave' = wave \o <<full>> /\ row' = << >>
              /\ tight' = (tight /\ body <= Slack) /\ body' = 0
              /\ at' = IF Len(wave') < Samples THEN "poll_A" ELSE "freeze"
  /\ UNCHANGED <<vars, delay, adc, running, armed>>

\* The pacer is frozen, and hook_after_capture() restores octal mode.
Freeze ==
  /\ Goto("freeze", "restore")
  /\ running' = FALSE
  /\ todo' = SetMode(TRUE, FALSE)
  /\ UNCHANGED <<high, i, half, t_ref, timer, history>>
  /\ UNCHANGED <<delay, adc, capture>>

Restored ==
  /\ todo = << >> /\ Goto("restore", "done")
  /\ UNCHANGED <<vars, delay, adc, running, capture>>

Row == Poll_A \/ Poll_C \/ Spin \/ ReadResult \/ Freeze

\* A fault: the flags are not cleared before the pacer is armed.
CaptureUncleared ==
  \/ Goto("clear_A", "arm") /\ UNCHANGED <<vars, delay, adc, running, capture>>
  \/ Arm \/ Clear_A("ack_A", "ack_C") \/ Clear_C("ack_C", "read") \/ Row

\* A fault: the flags are not cleared in the loop.
CaptureUnacknowledged ==
  \/ Clear_A("clear_A", "clear_C") \/ Clear_C("clear_C", "arm") \/ Arm
  \/ Goto("ack_A", "read") /\ UNCHANGED <<vars, delay, adc, running, capture>>
  \/ Row

NDT_captureRecord ==
  \/ Clear_A("clear_A", "clear_C") \/ Clear_C("clear_C", "arm") \/ Arm
  \/ Clear_A("ack_A", "ack_C") \/ Clear_C("ack_C", "read") \/ Row

Scan ==
  \/ EnterReceiveMode \/ WritePin \/ Measure \/ NDT_captureRecord \/ Restored

\* The scan is over.
Over == at = "done" /\ UNCHANGED scanVars

ScanNext == InBurst \/ Scan \/ ReceiveTick \/ PacerTick \/ Over

ScanSpec == ScanInit /\ [][ScanNext]_scanVars

\* The processor goes on, and so do the clocks.
ScanFairSpec ==
  /\ ScanSpec
  /\ WF_scanVars(InBurst)
  /\ WF_scanVars(Scan)
  /\ WF_scanVars(PacerTick)

-----------------------------------------------------------------------------

\* t(i) = start_delay_ns + i * sample_period_ns (README.md): if each row is
\* stored before SOC0 of the next sweep ends, row n holds, on all channels,
\* sweep n of this capture: none is missed, mixed, taken twice or left over
\* from the last record.
RowsAreSweeps ==
  tight => \A n \in 1 .. Len(wave), j \in 1 .. 2 * Socs : wave[n][j] = armed + n

\* Interrupts that stretch a row can only make its samples later: whatever they
\* do to the flags, no sample is older than its row, and no channel runs back.
NeverOlder ==
  \A n \in 1 .. Len(wave), j \in 1 .. 2 * Socs :
    /\ wave[n][j] >= armed + n
    /\ n < Len(wave) => wave[n][j] <= wave[n + 1][j]

\* The start delay in the header is the time from the first edge to the capture,
\* also when the timer wraps in between.
StartDelayExact ==
  [][at' = "clear_A" /\ at # at' => startDelay' = clock]_scanVars

\* The waits for the ADC flags end, although they have no time-out and the code
\* may clear a flag that it has not seen: the pacer brings the next.
CaptureReturns == <>(at = "done")
=============================================================================

# Verification of the NDT auxiliary board firmware

TLA+ models of the firmware in this repository, checked with TLC on small
instances, and theorems about them checked with TLAPS for all instances.
`PROJECT.json` maps every definition to the source lines it stands for and lists
the runs, the faulty variants that each property must catch, the hazards and the
theorems.

    tlc -config MCNdtBoard.cfg MCNdtBoard      model-check one run
    tlapm NdtBoardProofs.tla                   check the proofs of one component

## 1. The system

One processor, two execution contexts: `main()` calls `ndt_sm_step()` for ever,
and two interrupts (I2CB, Timer 1) may run between any two of its memory accesses.
There is no critical section anywhere in the program; what the contexts share is
ordered by hand.

| component | source | state | operations | talks to |
|---|---|---|---|---|
| event ring | `ndt_sm.c` 27-67 | `s_queue`, `s_head`, `s_tail`, `s_dropped` | `ndt_sm_post()` (interrupt), `q_pop()` (main loop) | I2CB → state machine |
| state machine | `ndt_sm.c` 71-229 | `s_state`, `s_lastTrigMs`, `s_lastBlinkMs` | `ndt_sm_step()` | calls the hooks |
| board hooks | `main.c` 395-683 | status word, record buffer, header, header stream, burst length, pulser pins | the ten hooks of `g_hooks` | pulser, store, I2CB streams |
| I2CB slave | `ndt_i2cb.c` | TX descriptor, index and freeze; command parser | `INT_myI2CB_ISR()`, `ndt_i2cb_lock_tx()` | posts events, serves the buffers |
| record store | `ndt_store.c` | the EEPROM's slots | save, load, find | EEPROM driver |
| EEPROM driver | `m24m01e.c` | none of its own; the chip's memory and write cycle | read, write, ready poll | I2CA transport |
| I2CA transport | `i2ca_eeprom.c` | peripheral registers, the frame on the bus | write, write-read, abort | the chip |
| pulser driver | `max14808.c` | MODE, DINP, DINN pins | `set_mode`, `enter_receive_mode` | hooks |
| tone burst, capture | `main.c` 436-519 | drive pins, Timer 0 reference; pacer, ADC flags, record buffer | `NDT_burst()`, `NDT_captureRecord()` | hooks, ePWM1, ADCs |
| millisecond tick | `main.c` 255-271 | `g_msTicks` | Timer 1 interrupt, `ndt_millis()` | state machine |

What is hard about it, and what makes each part correct:

* **Ring.** Producer and consumer interleave access by access. It must be a FIFO
  that drops only when full, and never let a slot be written while it is read.
* **State machine.** Its times wrap; its faults must be latched, or left; commands
  wait in the ring while it does something else. Triggers must keep their pace,
  no command may wait for ever, a latched fault must be final.
* **Hooks.** A master may look at the status word, buffer and header between any
  two of their accesses, and every step of a scan, save or load can fail. The flags must
  never say more than is true of the buffer, the header and the EEPROM; high
  voltage and bursts must stay inside the checks made for them; the read side
  must always reopen.
* **I2CB.** The master stops, restarts and aborts anywhere, and the freeze comes
  and goes between bytes. Commands must be executed exactly as sent, streams read without a shift.
* **Store.** 33 page writes per record, any of which fails or is
  the last before a power cut.
  A load must return the record saved last under its id or an error.
* **EEPROM driver and transport.** Page and half boundaries of the chip; every wait
  may be given up while the frame it waits for is still on the bus. A call must return, leave
  the bus free, and say OK only for the bytes it was asked for.
* **Burst and capture.** Eight channels on two ports, four register writes per half-cycle,
  interrupts anywhere: no shoot-through, no phase error, no drift. The capture races a sweep of
  the ADCs that nothing holds back: row n has to be sweep n.
* **Together.** What a master reads byte by byte while all this goes on must be one record.

## 2. The modules

| module | models | state and actions |
|---|---|---|
| `NdtQueue` | what the ring promises | a bounded sequence and a drop counter; accept, drop, pop |
| `NdtRing` | the ring | the four statics, the locals and a program counter for each side; one action per access to shared memory |
| `NdtSm` | the state machine | its statics, `pc` between hook calls, the queue of `NdtQueue` seen as a sequence, the counter with its modulus; one action per hook call, hook return and decision of `step_idle()`. A hook that returns a value returns any |
| `MCNdtSm` | instance of `NdtSm` | three history counters of real milliseconds |
| `NdtBoard` | the hooks, composed with `NdtSm` | extends `NdtSm`: same actions, whose returns now do what the hook does; `at` is the place in the hook; one action per access the interrupts can observe |
| `MCNdtBoard` | instance of `NdtBoard` | one history counter, symmetry of the record tags |
| `NdtI2cb` | the slave protocol | the handler's statics; one action per interrupt source, one per act of the bus master |
| `NdtSystem` | the board and its master, over the buffers | extends `NdtBoard`: one action per byte fetched, at any point of the hooks; the place in the master's session |
| `NdtArchive` | what the store promises | a set of records, each with the time it was saved, and the save in progress |
| `NdtStore` | the record store | header and data pages of each slot; one action per page write, and its ways to fail |
| `I2caEeprom` | the transport, the I2CA peripheral and the chip | `at` is the flag the code polls; one action per wait that ends, one per wait that is given up; the peripheral moves byte by byte on its own |
| `M24m01e` | the EEPROM driver | extends `I2caEeprom`; the driver's loop; one action per frame handed down and per answer |
| `NdtBurst` | `NDT_burst()`, `burst_wait()` | the pins, the timer and the reference; one action per register write |
| `NdtScan` | the scan from burst to octal mode | extends `NdtBurst`: pin writes of `max14808_enter_receive_mode()`, the start delay, `NDT_captureRecord()` flag by flag and result by result; the pacer and the sweep move tick by tick |
| `NdtMillis` | `ndt_millis()` | the halves of the counter and of the locals; one action per half read |
| `NdtRingProofs`, `NdtBoardProofs` (also of `NdtSm`), `NdtSystemProofs`, `NdtI2cbProofs`, `NdtStoreProofs`, `M24m01eProofs`, `NdtScanProofs` (also of `NdtBurst`), `NdtMillisProofs` | theorems | section 4 |

Composition. `NdtBoard` extends `NdtSm`, and implements it. `NdtSystem` extends `NdtBoard` with the
master; `NdtI2cb` shows apart from it that byte k of a read is byte k of the stream. `NdtRing` refines
`NdtQueue`, which is
the queue `NdtSm` uses (at most `QDepth - 1` events, an event is dropped
only when that many wait). `NdtStore` refines `NdtArchive`; `NdtBoard` uses the
archive per record id: an intact record, a torn one, or none. `M24m01e` runs on `I2caEeprom` and says what
a page write of `NdtStore` can leave behind (a prefix, when it fails). `NdtScan` is what
`NDT_burst`, `ReceiveTxDisable`, `ReceiveSwitchesOn`, `CaptureFirst` and `CaptureSecond` of
`NdtBoard` do to the hardware.

Abstractions. A record is a tag, a page one tag, a sample (in `NdtScan`) the number of the sweep it
was taken in. In the store a bus transfer succeeds or fails; how is the subject of `I2caEeprom`.
The counted waits of `i2ca_eeprom.c` may be given up only when nothing on the bus can move any more:
their budgets are many byte times. The policy macros of `ndt_config.h` are the rigid variable
`build`, so that one run covers several builds. `main()` up to its loop is `Init`.
Where the code and the models' constants differ in size (`MsMod` for 2^32,
`CounterMod`, `HalfMod`, page sizes) the constant is the code's modulus scaled down.

Definitions whose comment begins "A fault:" are not part of any specification: each
is a plausible bug of the definition below it, and `PROJECT.json` ("mutants")
says which property has to notice it.

## 3. The runs

| run | cfg | shows |
|---|---|---|
| `ring` | `NdtRing.cfg` | `NoSlotRace`, `ImplementsQueue` and the invariant they rest on, at every interleaving of the two sides |
| `sm` | `MCNdtSm.cfg` | in all 12 builds: triggers (`PeriodicPace`) and blinks (`BlinkPace`) keep their distance in real time across the wrap; periodic scans never stop (`PeriodicFires`); commands are served as long as a scan is shorter than the period (`CommandsServed`); a latched fault is final (`FaultLatched`) |
| `sm_thermal` | `NdtSmThermal.cfg` | a violation: finding 1 |
| `board` | `MCNdtBoard.cfg` | `ValidIsWhole`, `ServedHeaderMatches`, `SavedIdHoldsRecord`: what DATA_VALID, the header and a record id promise holds through failing scans, saves and loads; `BurstInOctalMode`, `HvOnlyInScan`, `OneBurstAfterHot`: when the pulser may be driven |
| `board_recover` | `NdtBoardRecover.cfg` | a violation: finding 2 |
| `system` | `NdtSystem.cfg` | `SessionReadsOneRecord`: a session that the status word and the freeze let through reads one record, whatever the main loop does between its bytes; `ReadSideReopens`; `HotShutsDown` from any point of any hook |
| `system_read` | `NdtSystemRead.cfg` | a violation: finding 4 |
| `i2cb` | `NdtI2cb.cfg` | `CommandsAsSent` against a decoder written from the protocol table, `ReadInOrder` |
| `store` | `NdtStore.cfg` | `DirectoryInv` (an id and a sequence number name one slot) and `ImplementsArchive` |
| `store_cut` | `NdtStoreCut.cfg` | a violation: finding 3 |
| `eeprom_driver` | `M24m01e.cfg` | driver and transport on a bus that hangs and loses bytes: `WriteLandsExactly` (also when the STOP of a frame that was given up comes under the next call), `ReadDeliversRange`, `CallsReturn` with a chip that may never answer, `BusReleased` once the bus works again |
| `scan` | `NdtScan.cfg` | `InPhase` (masks agree with the pin table), `NoShootThrough` (into and out of the receive mode, too), `DriftFree`, `StartDelayExact`; `RowsAreSweeps` and `NeverOlder`: the rows of a record against the sweeps; `CaptureReturns` |

**Bounds, and why they are enough.**

* `ring`: depth 4, so each index wraps while the queue is empty, partly filled and
  full; two ids and two arguments, so a mixed event differs from every real one.
  The theorems remove the bound.
* `sm`: the counter wraps at 8 with a period and a blink of 2. Time stops when the
  machine is 6 ticks behind its last trigger (`MaxLag` < `MsMod`); that is three missed periods to catch up on, and
  the theorems have no such bound. A scan
  lasts at most `MaxScan` = 1 tick, less than the period, as 0.9 ms against 1000 ms does; with `MaxScan` equal to
  the period TLC finds `CommandsServed` violated, which is the starvation that `ndt_config.h` must not be
  set to. A queue of one event is enough for
  an event to wait and to be dropped.
* `board`: two record ids and two record tags tell "the right record" from "another one"
  and let an id be evicted by another; the buffer's two halves are the fewest that
  can be mixed; of two rails any may be bad. The shipped build: triggered over I2C, faults latched. There the time
  decides nothing but when the LED blinks, and runs in this instance in the thermal fault only. Periodic triggers
  are in `sm`; the theorems hold for every build.
* `system`, `system_read`: as `board` with one id and one rail, no symmetry (TLC's liveness checking is not
  sound with it); a session is five bytes, one of each kind that can differ: the two halves of the status
  word, the header, and the two halves of the samples.
* `i2cb`: every command class (no, one and two parameters), an unknown byte, a channel
  out of range; writes of up to three bytes and reads past the end of every stream.
* `store`: two slots and three ids force overwriting, filling and evicting; two data pages
  let a record be torn after the header and in the middle of the data; four saves. The code's
  counter lasts 2^32 saves of 0.3 s; its wrap is out of reach except by finding 3.
* `eeprom_driver`: four pages in two halves, two bytes a page; starts at, before and after the boundaries and at the end
  of the memory; lengths of none, one, and one that crosses two boundaries; two calls, so that the second meets what the
  first left on the bus; two faults, each a hang or a lost acknowledge at any byte.
* `scan`: two cycles; the timer wraps in the burst, in the receive mode or not at all; up to `MaxJitter` ticks
  are lost in every half-cycle, at any place; the drive pins start low or, as after
  a capture, high. Three rows of two conversions per ADC, a sweep of 6 ticks in a period of 8; a row may take
  up to 10 ticks, long enough to lose a sweep and to clear the flags of the next.

**Fairness.** `main()` is `for (;;) ndt_sm_step();`, it never blocks, and every hook
terminates (`CallsReturn` and `CaptureReturns` are why), so weak
fairness of the main loop's next-state relation is what the processor gives. The timer
interrupt is weakly fair where a property is about time (`PeriodicFires`). Nothing is assumed of
the master, of THP, of the rails or of the EEPROM: `HotShutsDown` assumes that the pulser
stays hot as its hypothesis. In `M24m01e` the code is fair, and the peripheral unless it
hangs; a hang need not end and the chip owes nothing. In `NdtScan` the processor, the timer and the pacer are fair.

## 4. What is proved

Eight modules, each for all values of its component's constants under the named assumptions of the
module it extends: every invariant and every action property that a passing run checks, and both refinements
that one does. The inductive invariants were checked by TLC on the instances of the runs before they were proved.

`NdtRingProofs`, for every `QDepth` that is at least 1, every set of ids and arguments and every
modulus of the drop counter (the assumptions of `NdtRing`):

* `TypeCorrect`: `Spec => []TypeOK`; both indices stay inside `s_queue`.
* `RingInvariant`: `Spec => []RingInv`. `RingInv` relates each side's locals to the
  statics: the producer's copy of `s_head` and its successor are current, the slot it
  fills is the one in front of `s_head` and its successor is not `s_tail`; the
  consumer's copy of `s_tail` is current, and what it has copied is still what the slot
  holds. It is inductive together with `TypeOK`. The interesting step is the consumer advancing
  `s_tail` while the producer holds the result of its test for room: the test can only become more true.
* `NoRace`: `Spec => []NoSlotRace`. Not inductive by itself; it follows from `RingInv`, which says
  that the producer's slot is `s_head` and the consumer's a different one.
* `RingImplementsQueue`: `Spec => Queue!Spec`. Under the mapping that reads the slots from
  `s_tail` up to `s_head` as a sequence, `PostPublish` appends, `PopAdvance`
  takes the head, `PostFull` drops with `QDepth - 1` events pending, and every
  other step stutters. The lemmas before it compute what the mapped sequence becomes
  when an index moves, with and without the wrap, and show that filling the reserved slot
  does not touch it.

`NdtBoardProofs`, about `NdtSm`, for every period, width of the counter, depth and build:

* `SmTypes` (`SmSpec => []SmTypeOK`, the bound of the queue included) and
  `SmFaultLatched`. The latter rests on a step lemma (`LatchStep`): in a latched fault the places the
  machine can be at lead to each other only.
* `TriggersKeepPace`, `BlinksKeepPace`: `PeriodicPace` and `BlinkPace` of `MCNdtSm`, without TLC's bounds on time:
  scans, saves and faults may last any number of turns of the counter. `PaceInv` says that the real time since a
  trigger (or a blink) and the difference of the two readings are equal modulo the counter's width. The
  difference is therefore never more than the real time, and the comparison never succeeds early (`NeverEarly`); it may
  succeed late, which is why `PeriodicFires` needs a bound.

`NdtBoardProofs`, about `NdtBoard`, for any record ids, tags, rails and burst lengths:

* `BoardImplementsSm`: `Spec => SmSpec`. Each step inside a hook leaves the machine's variables alone, each return
  is one of the returns `NdtSm` allows. So `SmTypes` and `SmFaultLatched` hold of the
  board (`BoardFaultLatched`).
* `BoardInvariant`: `Spec => [](BoardTypeOK /\ BoardInv)`. The invariants of `NdtBoard` speak of the moments at
  which a master may look and are not inductive. `BoardInv` says what holds at every `at`:
  `Control` (which state each hook runs in), `PulserInv` (from `FireHvOn` to `AfterHvOff` the
  voltage is on and the rails are good; where octal mode is lost and restored), `RecordInv` (DATA_VALID is clear wherever the buffer is
  rewritten; it is of one piece from the end of a capture or of a checked load), `StreamInv` (the stream equals
  the header except while one is copied into the other, and then EEPROM_BUSY is set or DATA_VALID clear), `SavedInv` (what
  the EEPROM holds under an id from the moment it is written into the header). The step is proved hook by hook
  (`ScanKeeps`, `SaveKeeps`, `LoadKeeps`, `FaultHooksKeep`, `MachineKeeps`).
* `BufferWhole`, `HeaderServed`, `IdPromises`, `HvInScan`, `BurstInMode`: five safety properties of the run
  `board` follow from it. (`BurstInOctalMode` is about builds that latch faults: finding 2 is the other ones.)
* `OneBurst`: `CountedSpec => []OneBurstAfterHot`, in every build and with the time running, which TLC's instance lets
  it do in the fault only. The count is 0 or the board is between the end of a burst and its next look at THP (`BurstBehind`).

`NdtSystemProofs`, for the same constants:

* `SystemImplementsBoard`: `SystemSpec => Spec`. The master only reads.
* `SystemInvariant`: `SystemSpec => [](BoardTypeOK /\ BoardInv /\ SessionInv)`. `SessionInv` says at which places of the
  hooks the read side is closed, and that under a live session (it has taken DATA_VALID from an open read side) the
  buffer stands still: it is one record, the header it is about to fetch is that record's, and so is what it has fetched. The step
  that needs it is the one that starts to rewrite the buffer: the side was closed before it, so a session
  has either fetched a byte since, met the freeze and given up, or was outpaced (`Outpaced`) and starts anew.
* `SessionWhole`: `SessionReadsOneRecord`, the promise to the master, for every schedule of the two.

`NdtI2cbProofs`, for streams of any length and writes and reads of any length:

* `SlaveInvariant`: the types, which source of the handler goes with which phase of the bus (`SourceInv`), what the
  parser holds (`ParserInv`) and what the index counts (`IndexInv`).
* `CommandsExecuted`: `CommandsAsSent`. The reference `Decode` is a recursive function on the places of a write, from its
  end backwards, and the parser runs forwards. The proof never computes it: it shows that one function solves the equation `Decode`
  is defined by (`Solves`) and uses the equation for one command at a time: complete, unknown, or cut
  off. The invariant (`Follows`) is: whatever bytes may still come, what has been executed followed by what the pending command
  and those bytes ask for is what all the bytes ask for. An interrupt then moves one byte from one side to the other.
* `StreamsInOrder`: `ReadInOrder`. The index is the number of bytes fetched, modulo the length of the stream selected.
* `SlaveTypes`: `TypeOK`.

`NdtStoreProofs`, for any number of slots, pages, ids and records:

* `DirectorySound` (`TypeOK` and `DirectoryInv` hold), `StoreTypes` and
  `CounterMonotonic`. The invariant is inductive once the types of the call are added. What has to be shown is
  that the slot chosen (`TargetAlone`) is the one that had the id, or a free or the oldest one when none had, and that
  `max_seq + 1` is above all others (`NextSeqAbove`); the latter fails with the cut of finding 3, which `CutSpec`
  has and `Spec` does not.
* `StoreImplementsArchive`: `Spec => ImplementsArchive`. A used slot is a record dated by its sequence number. The
  refinement needs one more invariant, `CallFresh`: until its header is written a save is aimed at its target
  and numbered above every record. The lemma it turns on is `Room`: giving up the record in the target slot, if any, is what the archive
  does to make room, because used slots and records are equally many (`EntryCount`) and the oldest slot is the record saved longest
  ago. Then a header that reaches the memory places the record, the last page that was missing completes it, a page
  lost to a power cut places a torn one of the same date, a header lost empties the place, and every other step ends the save or stutters.

`M24m01eProofs`, for every page, half and memory size, any calls and any number of hangs:

* `DriverInvariant`: the inductive invariant of driver, transport, bus and chip. Every flag the code waits for is tied to
  where the frame on the bus stands (`PlaceInv`, `BytesInv`), the STOP that may still be owed for a frame that was given up
  included (`StopInv`). `MemInv` says that the memory is what it was with the bytes of the call that have landed laid
  over it; `ReadInv` the same of the buffer.
* `WritesLand`, `ReadsDeliver`, `DriverTypes`: `WriteLandsExactly`, `ReadDeliversRange` and `TypeOK`. What needs the invariant is a frame that
  was given up: its STOP, and with it its write cycle, may come under the next call, which may be one for the same page.

`NdtScanProofs`, for any burst, record, pacer and sweep, and any delays of the code within `MaxJitter` and `MaxBody`:

* `BurstInPhase`, `BurstShootsNotThrough`: `InPhase` and `NoShootThrough`, from `PinsInv`: after each register write, which pins of
  which port are known to be high or low (`HalfCycleInv`, `EndInv`, `ReceiveInv`, `RestoreInv`). That masks and pin
  table agree is a lemma of its own (`PinTable`).
* `BurstNeverDrifts`, `StartDelayIsExact`: `DriftFree` and `StartDelayExact`, from `TimesInv`, which relates the wrapped differences of the timer
  to the clock. They need `DelayAssumption`: the whole burst is shorter than one turn of the timer, which lasts 43 s.
* `CaptureInvariant`: which sweep each result register holds at each tick of the pacer, what the flags say of it, and what the row
  under way has read. `RowsAreSweepsAlways` and `SamplesNeverOlder` follow: `RowsAreSweeps` and `NeverOlder`.

`NdtMillisProofs`: `MillisNeverTorn`, from `HalfAssumption` (fewer than 2^16 ticks in a turn of the loop; a turn takes a
fraction of a microsecond). It needs an invariant that says, at each half read, which values the counter
has had since the turn began; two equal reads of both halves then leave room for one value only. With the theorem no run
is kept for it.

What stays with TLC is liveness, which is out of the prover's reach: `PeriodicFires`, `CommandsServed`, `ReadSideReopens`, `HotShutsDown`,
`CallsReturn`, `BusReleased` and `CaptureReturns`. There is no induction over data in the proofs: where the model computes something recursively (`Decode`), the proof works with the equation it solves, and
the existence of a solution comes from a least counterexample.

## 5. Findings

Each is a counterexample TLC finds in the named run.

1. **A thermal fault does not drain commands** (`sm_thermal`). In `NDT_ST_THERMAL_FAULT`
   the machine only blinks; `q_pop()` is reached from IDLE alone (`ndt_sm.c:211`).
   README.md:175 says that the main loop "keeps draining commands while the fault is active".
2. **Recovery from a thermal fault leaves the pulser disabled** (`board_recover`).
   With `NDT_THERMAL_LATCHED` 0 the machine returns to IDLE, and nothing undoes the
   TX_DISABLE of `hook_on_thermal_enter()`. The next scan records noise and marks it
   valid. README.md:100: the setting "lets the board recover once `THP` releases".
3. **A header cut inside its frame breaks the sequence numbers** (`store_cut`). An erased slot
   that got a magic and an id but no `seq` claims 0xFFFFFFFF; the next save
   is numbered 0, and once the store is full it is the first to be evicted although it is the
   newest. The same cut in an evicted slot leaves the old record, valid checksum included, under
   the new id. `store` excludes such cuts: its writes reach the memory whole or not at all.

4. **A frozen status word passes for a good one** (`system_read`). While the read side is frozen the status word
   reads as 0xFF like everything else, and it is fetched byte by byte (`ndt_i2cb.c:205`). If its low byte falls into a load
   that fails, 0xFF shows DATA_VALID set; if the load has unlocked and cleared EEPROM_BUSY before the high byte
   is fetched, that byte is good. The session goes on and reads a buffer that is half one record and half another
   without one 0xFF in it, which README.md:38 and README.md:81 say cannot be. `SessionReadsOneRecord` shows the remedy on
   the master's side: discard a status whose low byte is 0xFF.

Smaller disagreements met while modelling, for which no run is kept:

* The ring holds `NDT_EVENT_QUEUE_DEPTH - 1` = 7 events; README.md:80 says 8 deep. (`RingImplementsQueue`
  proves the capacity is exactly one less.)
* 0xFF is also a byte that samples and headers may hold: a master cannot tell it from the freeze.
* `max14808_set_mode()` does not reset DINP/DINN as `main.c:588` says; they stay high after
  a capture. The first half-cycle of the next burst is therefore entered
  from both-high and not through the both-low gap of `main.c:450`; no shoot-through
  follows (`NoShootThrough` starts from both levels).
* `main.c:485` gives the body of the capture loop 160 cycles, the period. The results are not held until the period is over:
  a row is sound when its reads are done before SOC0 of the next sweep ends, Period - Sweep + Eoc(1) after
  the flags (`Slack`), with the times of that comment about 51 cycles. In between, rows mix two sweeps;
  past the period they are taken later than the time axis of README.md:42 says. `NeverOlder` shows that it never gets worse than that.
* `i2ca_abort()` does not drain the receive register. After a read that was given up, the next one may return
  a stale first byte with 0, which `i2ca_eeprom.h:18` calls success; `ReadDeliversRange` excludes it by `stale`.
  The store's checksum (or its magic) catches it.

## 6. Not modelled, and why

* The rest of `max14808.c` (five-level modes, `pulse_burst`, sync): not called by the program.
* `m24m01e.c`'s identification page and lock functions: not called by the program.
* The rail tolerances of `tap_in_range()`: straight-line arithmetic on constants; `NdtBoard` lets any set of rails be in range.
* Peripheral set-up, SysConfig output, driverlib, Unity: vendored or generated. They are some 90,000 of the
  repository's 93,000 lines; the firmware's own sources are about 2,300, comments included, and the map covers the parts of
  them that keep state.
* Collisions of the additive 16-bit checksum: record tags never collide.
* A second interrupt inside the first: the C28x does not nest them here.

Assumptions about what is outside `src/`, worth checking on hardware:

* I2CA: a data count of 0 is an address phase only (`i2ca_eeprom.c:69` relies on it); a STOP empties the transmit
  register; a forced STOP may come after any byte.
* M24M01E: no answer during the write cycle; a page write that is stopped early programs the bytes it has acknowledged, or none.
* ADC: a sweep's results are replaced one by one, INT1 comes with the last, and the flag is set again if it was cleared
  in the meantime. Whether arming the pacer at zero triggers a sweep at once is left open.
* The master: a session that pauses for more than `HV_SETTLE_US` (or the time of a header read from the EEPROM) between
  two bytes starts anew (`Outpaced`). The read side is closed that long before the buffer is rewritten; a slower
  master can see nothing of the freeze and read two records.

## 7. Plan

Done, in the order of their importance:

1. `NdtQueue`, `NdtRing`, `NdtRingProofs`: the shared structure everything enters by.
2. `NdtSm`: control. 3. `NdtBoard`: the hooks under it.
4. `NdtI2cb`: the other context. 5. `NdtArchive`, `NdtStore`: persistence.
6. `M24m01e` on `I2caEeprom`. 7. `NdtBurst`, `NdtScan`. 8. `NdtMillis`.
9. `NdtSystem`: the composition. 10. Proofs of `NdtSm`, `NdtBoard`, `NdtSystem`, `NdtStore`,
    `NdtMillis`.
11. Proofs of `NdtScan`, `M24m01e`, `NdtI2cb`, of the pace of `NdtSm`, of `OneBurstAfterHot`, and of the refinement of `NdtArchive`
    by `NdtStore`.

Next:

12. Compositions stated as theorems rather than in words: that the saves and loads of `NdtBoard` are those of
    `NdtArchive` record by record, and that the burst and the captures of `NdtBoard` are what `NdtScan` does.
13. What `NdtBoard` leaves to the rest of the code that nothing calls: the identification page of `m24m01e.c`
    and the five-level modes of `max14808.c`, should the program come to use them.

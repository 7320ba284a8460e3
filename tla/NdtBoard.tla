------------------------------ MODULE NdtBoard ------------------------------
(***************************************************************************)
(* The board: ndt_sm.c driving the hooks of main.c.  NdtSm says when a     *)
(* hook runs; this module says what it does to the pulser pins, the status *)
(* word, the record buffer and the streams the I2CB slave serves.  Each    *)
(* step is one access to state that an interrupt can observe; `at' is the  *)
(* place inside the hook that pc names, "" outside its body.               *)
(*                                                                         *)
(* A record is a tag: two records with the same tag hold the same samples. *)
(* g_waveBuf is two halves, since it is filled sample by sample or page by *)
(* page.  The EEPROM is, per record id, the tag of an intact record,       *)
(* "none", or "torn" for a record whose save did not finish (NdtStore).    *)
(***************************************************************************)
EXTENDS NdtSm

CONSTANTS
  Recs,      \* record tags
  Rails,     \* the supply taps of g_tapOkBit
  BurstMin,  \* NDT_BURST_CYCLES_MIN
  BurstMax   \* NDT_BURST_CYCLES_MAX

ASSUME BurstAssumption ==
  BurstMin \in Nat /\ BurstMax \in Nat /\ BurstMin <= BurstMax
ASSUME RailsAssumption ==  \* the bits of STATUS_* are distinct
  Rails \cap {"DATA_VALID", "THERMAL_FAULT", "VOLTAGE_FAULT", "EEPROM_BUSY",
              "EEPROM_FAIL"} = {}

VARIABLES
  at,
  g_statusFlags,   \* the set of flags that are 1
  g_waveBuf,       \* the record buffer
  g_lastHdr,       \* its header
  g_hdrStream,     \* the header as the slave serves it
  g_burstCycles,
  s_txLock,        \* ndt_i2cb.c: the read side is frozen
  hv,              \* PIN_PULSER_EN
  mode,            \* the MODE pins of the MAX14808
  drive,           \* DINP/DINN of every channel: "low" or "both" high
  hot,             \* the MAX14808 holds THP low
  g_store,         \* the store is bound to the EEPROM driver
  eeprom

record    == <<g_waveBuf, g_lastHdr, g_hdrStream>>
pulser    == <<hv, mode, drive>>
memory    == <<g_store, eeprom>>
boardVars == <<at, g_statusFlags, record, g_burstCycles, s_txLock, pulser,
               hot, memory>>
boardVarsButAt == <<g_statusFlags, record, g_burstCycles, s_txLock, pulser,
                    hot, memory>>
vars      == <<smVars, boardVars>>

Flags ==
  Rails \cup
  {"DATA_VALID", "THERMAL_FAULT", "VOLTAGE_FAULT", "EEPROM_BUSY", "EEPROM_FAIL"}

Headers == [id : {0} \cup SaveIds, rec : Recs]

\* main() up to its loop: the pulser is set to octal three-level mode with every
\* drive pin low, RAM is clear, and the EEPROM holds whatever earlier runs of
\* the board, and the power cuts that ended them, left there.  An EEPROM that
\* does not answer the probe is never bound.
Init ==
  /\ SmInit
  /\ at = ""
  /\ g_store \in BOOLEAN
  /\ g_statusFlags = IF g_store THEN {} ELSE {"EEPROM_FAIL"}
  /\ \E blank \in Recs :
       /\ g_waveBuf = [half \in 1 .. 2 |-> blank]
       /\ g_lastHdr = [id |-> 0, rec |-> blank]
  /\ g_hdrStream = g_lastHdr
  /\ g_burstCycles \in BurstMin .. BurstMax
  /\ s_txLock = FALSE
  /\ hv = FALSE /\ mode = "OCTAL_3LEVEL" /\ drive = "low"
  /\ hot \in BOOLEAN
  /\ eeprom \in [SaveIds -> Recs \cup {"none", "torn"}]

\* The environment: the pulser heats up and cools down.
TempChanges ==
  /\ hot' \in BOOLEAN
  /\ UNCHANGED <<smVars, at, g_statusFlags, record, g_burstCycles, s_txLock,
                 pulser, memory>>

\* Moves inside the body of hook h: from place p to place q.
Goto(h, p, q) == pc = h /\ at = p /\ at' = q

Within(h, p, q) == Goto(h, p, q) /\ UNCHANGED smVars

-----------------------------------------------------------------------------
(* hook_thermal_fault(), hook_on_thermal_enter()                           *)

\* A fault: the active-low THP pin is read the wrong way round.
hook_thermal_fault_inverted ==
  /\ ThermalFaultReturns(~hot) \/ RecheckReturns(~hot)
  /\ UNCHANGED boardVars

hook_thermal_fault ==
  /\ ThermalFaultReturns(hot) \/ RecheckReturns(hot)
  /\ UNCHANGED boardVars

ThermalFlag ==
  /\ Within("on_thermal_enter", "", "hv")
  /\ g_statusFlags' = g_statusFlags \cup {"THERMAL_FAULT"}
  /\ UNCHANGED <<record, g_burstCycles, s_txLock, pulser, hot, memory>>

ThermalHvOff ==
  /\ Within("on_thermal_enter", "hv", "mode")
  /\ hv' = FALSE
  /\ UNCHANGED <<g_statusFlags, record, g_burstCycles, s_txLock, mode, drive,
                 hot, memory>>

\* A fault: the high voltage goes off and the outputs stay enabled.
ThermalStaysEnabled ==
  /\ Goto("on_thermal_enter", "mode", "")
  /\ OnThermalEnterReturns
  /\ UNCHANGED boardVarsButAt

ThermalTxDisable ==
  /\ Goto("on_thermal_enter", "mode", "")
  /\ OnThermalEnterReturns
  /\ mode' = "TX_DISABLE"
  /\ UNCHANGED <<g_statusFlags, record, g_burstCycles, s_txLock, hv, drive,
                 hot, memory>>

-----------------------------------------------------------------------------
(* hook_supplies_ok(), hook_on_voltage_fault()                             *)

\* A fault: the last scan's DATA_VALID survives into this one.
SuppliesKeepValid ==
  /\ Within("supplies_ok", "", "measure")
  /\ g_statusFlags' = g_statusFlags \ (Rails \cup {"VOLTAGE_FAULT"})
  /\ UNCHANGED <<record, g_burstCycles, s_txLock, pulser, hot, memory>>

SuppliesClear ==
  /\ Within("supplies_ok", "", "measure")
  /\ g_statusFlags' =
       g_statusFlags \ (Rails \cup {"DATA_VALID", "VOLTAGE_FAULT"})
  /\ UNCHANGED <<record, g_burstCycles, s_txLock, pulser, hot, memory>>

\* A fault: one good rail is enough.
SuppliesMeasureAny ==
  /\ Goto("supplies_ok", "measure", "")
  /\ \E rails \in SUBSET Rails :
       /\ g_statusFlags' = g_statusFlags \cup rails
       /\ SuppliesOkReturns(rails # {})
  /\ UNCHANGED <<record, g_burstCycles, s_txLock, pulser, hot, memory>>

SuppliesMeasure ==
  /\ Goto("supplies_ok", "measure", "")
  /\ \E rails \in SUBSET Rails :
       /\ g_statusFlags' = g_statusFlags \cup rails
       /\ SuppliesOkReturns(rails = Rails)
  /\ UNCHANGED <<record, g_burstCycles, s_txLock, pulser, hot, memory>>

VoltageFlag ==
  /\ Within("on_voltage_fault", "", "hv")
  /\ g_statusFlags' = g_statusFlags \cup {"VOLTAGE_FAULT"}
  /\ UNCHANGED <<record, g_burstCycles, s_txLock, pulser, hot, memory>>

VoltageHvOff ==
  /\ Goto("on_voltage_fault", "hv", "")
  /\ OnVoltageFaultReturns
  /\ hv' = FALSE
  /\ UNCHANGED <<g_statusFlags, record, g_burstCycles, s_txLock, mode, drive,
                 hot, memory>>

-----------------------------------------------------------------------------
(* ndt_store_hdr_to_stream(&g_lastHdr, g_hdrStream): element by element, the *)
(* id first.                                                               *)

StreamId(h, p, q) ==
  /\ Within(h, p, q)
  /\ g_hdrStream' = [g_hdrStream EXCEPT !.id = g_lastHdr.id]
  /\ UNCHANGED <<g_statusFlags, g_waveBuf, g_lastHdr, g_burstCycles, s_txLock,
                 pulser, hot, memory>>

StreamRest(h, p, q) ==
  /\ Within(h, p, q)
  /\ g_hdrStream' = [g_hdrStream EXCEPT !.rec = g_lastHdr.rec]
  /\ UNCHANGED <<g_statusFlags, g_waveBuf, g_lastHdr, g_burstCycles, s_txLock,
                 pulser, hot, memory>>

-----------------------------------------------------------------------------
(* hook_fire_and_capture(), hook_after_capture()                           *)

\* A fault: a capture leaves the read side open.
FireLockForgotten ==
  /\ Within("fire_and_capture", "", "hv")
  /\ UNCHANGED boardVarsButAt

FireLock ==
  /\ Within("fire_and_capture", "", "hv")
  /\ s_txLock' = TRUE
  /\ UNCHANGED <<g_statusFlags, record, g_burstCycles, pulser, hot, memory>>

FireHvOn ==
  /\ Within("fire_and_capture", "hv", "burst")
  /\ hv' = TRUE
  /\ UNCHANGED <<g_statusFlags, record, g_burstCycles, s_txLock, mode, drive,
                 hot, memory>>

\* NDT_burst() toggles the drive pins and leaves them all low.
NDT_burst ==
  /\ Within("fire_and_capture", "burst", "tx_disable")
  /\ drive' = "low"
  /\ UNCHANGED <<g_statusFlags, record, g_burstCycles, s_txLock, hv, mode, hot,
                 memory>>

\* max14808_enter_receive_mode(.., true): TX disable, then DINP = DINN = 1,
\* which damps the outputs and closes the T/R switches.
ReceiveTxDisable ==
  /\ Within("fire_and_capture", "tx_disable", "tr_on")
  /\ mode' = "TX_DISABLE"
  /\ UNCHANGED <<g_statusFlags, record, g_burstCycles, s_txLock, hv, drive, hot,
                 memory>>

ReceiveSwitchesOn ==
  /\ Within("fire_and_capture", "tr_on", "capture_1")
  /\ drive' = "both"
  /\ UNCHANGED <<g_statusFlags, record, g_burstCycles, s_txLock, hv, mode, hot,
                 memory>>

\* NDT_captureRecord(): a new record replaces the old one half by half.
CaptureFirst ==
  /\ Within("fire_and_capture", "capture_1", "capture_2")
  /\ \E r \in Recs : r # g_waveBuf[1] /\ g_waveBuf' = [g_waveBuf EXCEPT ![1] = r]
  /\ UNCHANGED <<g_statusFlags, g_lastHdr, g_hdrStream, g_burstCycles, s_txLock,
                 pulser, hot, memory>>

CaptureSecond ==
  /\ Within("fire_and_capture", "capture_2", "header")
  /\ g_waveBuf' = [g_waveBuf EXCEPT ![2] = g_waveBuf[1]]
  /\ UNCHANGED <<g_statusFlags, g_lastHdr, g_hdrStream, g_burstCycles, s_txLock,
                 pulser, hot, memory>>

FireHeader ==
  /\ Within("fire_and_capture", "header", "stream_id")
  /\ g_lastHdr' = [id |-> 0, rec |-> g_waveBuf[1]]
  /\ UNCHANGED <<g_statusFlags, g_waveBuf, g_hdrStream, g_burstCycles, s_txLock,
                 pulser, hot, memory>>

FireUnlock ==
  /\ Goto("fire_and_capture", "unlock", "")
  /\ FireReturns
  /\ s_txLock' = FALSE
  /\ UNCHANGED <<g_statusFlags, record, g_burstCycles, pulser, hot, memory>>

hook_fire_and_capture ==
  \/ FireLock \/ FireHvOn \/ NDT_burst \/ ReceiveTxDisable \/ ReceiveSwitchesOn
  \/ CaptureFirst \/ CaptureSecond \/ FireHeader
  \/ StreamId("fire_and_capture", "stream_id", "stream_rest")
  \/ StreamRest("fire_and_capture", "stream_rest", "unlock")
  \/ FireUnlock

\* A fault: the receive mode is not left again.
AfterModeForgotten ==
  /\ Within("after_capture", "", "hv")
  /\ UNCHANGED boardVarsButAt

\* max14808_set_mode() writes the MODE pins and leaves DINP/DINN alone.
AfterMode ==
  /\ Within("after_capture", "", "hv")
  /\ mode' = "OCTAL_3LEVEL"
  /\ UNCHANGED <<g_statusFlags, record, g_burstCycles, s_txLock, hv, drive, hot,
                 memory>>

AfterHvOff ==
  /\ Within("after_capture", "hv", "valid")
  /\ hv' = FALSE
  /\ UNCHANGED <<g_statusFlags, record, g_burstCycles, s_txLock, mode, drive,
                 hot, memory>>

AfterValid ==
  /\ Goto("after_capture", "valid", "")
  /\ AfterCaptureReturns
  /\ g_statusFlags' = g_statusFlags \cup {"DATA_VALID"}
  /\ UNCHANGED <<record, g_burstCycles, s_txLock, pulser, hot, memory>>

hook_after_capture == AfterMode \/ AfterHvOff \/ AfterValid

-----------------------------------------------------------------------------
(* hook_set_burst_cycles(), hook_thermal_blink()                           *)

\* A fault: only the upper end is clamped.
ClampLow(n) == IF n > BurstMax THEN BurstMax ELSE n

Clamp(n) == IF n < BurstMin THEN BurstMin ELSE IF n > BurstMax THEN BurstMax ELSE n

hook_set_burst_cycles ==
  /\ SetBurstReturns
  /\ g_burstCycles' = Clamp(ev_arg)
  /\ UNCHANGED <<at, g_statusFlags, record, s_txLock, pulser, hot, memory>>

\* The LED is not part of the model.
hook_thermal_blink == ThermalBlinkReturns /\ UNCHANGED boardVars

-----------------------------------------------------------------------------
(* hook_store_save(), with ndt_store_save()                                *)

SaveBegin ==
  /\ pc = "store_save" /\ at = ""
  /\ LET busy == (g_statusFlags \cup {"EEPROM_BUSY"}) \ {"EEPROM_FAIL"} IN
       \/ /\ "DATA_VALID" \in g_statusFlags
          /\ g_statusFlags' = busy
          /\ g_lastHdr' = [g_lastHdr EXCEPT !.id = ev_arg]
          /\ at' = "eeprom"
       \/ /\ "DATA_VALID" \notin g_statusFlags      \* nothing valid to save
          /\ g_statusFlags' = busy \cup {"EEPROM_FAIL"}
          /\ at' = "stream_id"
          /\ UNCHANGED g_lastHdr
  /\ UNCHANGED <<smVars, g_waveBuf, g_hdrStream, g_burstCycles, s_txLock, pulser,
                 hot, memory>>

\* What a save may do to the other ids: nothing, or the eviction of the oldest.
Evictions(id, content) ==
  { [eeprom EXCEPT ![id] = content] } \cup
  { [eeprom EXCEPT ![id] = content, ![old] = "none"] : old \in SaveIds \ {id} }

\* A fault: the served header keeps the id it had before the save.
SaveForgetsStream ==
  /\ Within("store_save", "eeprom", "busy_off")
  /\ g_store
  /\ eeprom' \in Evictions(ev_arg, g_lastHdr.rec)
  /\ UNCHANGED <<g_statusFlags, record, g_burstCycles, s_txLock, pulser, hot,
                 g_store>>

SaveSucceeds ==
  /\ Within("store_save", "eeprom", "stream_id")
  /\ g_store
  /\ eeprom' \in Evictions(ev_arg, g_lastHdr.rec)
  /\ UNCHANGED <<g_statusFlags, record, g_burstCycles, s_txLock, pulser, hot,
                 g_store>>

\* A fault: the result of ndt_store_save() is ignored.
SaveFailsSilently ==
  /\ Within("store_save", "eeprom", "stream_id")
  /\ eeprom' \in {eeprom} \cup Evictions(ev_arg, "torn")
  /\ UNCHANGED <<g_statusFlags, record, g_burstCycles, s_txLock, pulser, hot,
                 g_store>>

\* The store has no device, the directory scan fails, or a page write does, the
\* header page being first; the write that is reported as failed may have been
\* carried out.
SaveFails ==
  /\ Within("store_save", "eeprom", "stream_id")
  /\ \/ UNCHANGED eeprom
     \/ /\ g_store
        /\ eeprom' \in Evictions(ev_arg, "torn") \cup Evictions(ev_arg, g_lastHdr.rec)
  /\ g_statusFlags' = g_statusFlags \cup {"EEPROM_FAIL"}
  /\ UNCHANGED <<record, g_burstCycles, s_txLock, pulser, hot, g_store>>

SaveEnd ==
  /\ Goto("store_save", "busy_off", "")
  /\ StoreReturns
  /\ g_statusFlags' = g_statusFlags \ {"EEPROM_BUSY"}
  /\ UNCHANGED <<record, g_burstCycles, s_txLock, pulser, hot, memory>>

hook_store_save ==
  \/ SaveBegin \/ SaveSucceeds \/ SaveFails
  \/ StreamId("store_save", "stream_id", "stream_rest")
  \/ StreamRest("store_save", "stream_rest", "busy_off")
  \/ SaveEnd

-----------------------------------------------------------------------------
(* hook_store_load(), with ndt_store_load()                                *)

LoadBegin ==
  /\ Within("store_load", "", "lock")
  /\ g_statusFlags' =
       (g_statusFlags \cup {"EEPROM_BUSY"}) \ {"EEPROM_FAIL", "DATA_VALID"}
  /\ UNCHANGED <<record, g_burstCycles, s_txLock, pulser, hot, memory>>

LoadLock ==
  /\ Within("store_load", "lock", "find")
  /\ s_txLock' = TRUE
  /\ UNCHANGED <<g_statusFlags, record, g_burstCycles, pulser, hot, memory>>

\* No device, no such id, or the bus fails while the headers are read.
LoadNotFound ==
  /\ Within("store_load", "find", "unlock_failed")
  /\ UNCHANGED boardVarsButAt

\* The header of the id is parsed straight into g_lastHdr.
LoadHeader ==
  /\ Within("store_load", "find", "load_1")
  /\ g_store /\ eeprom[ev_arg] # "none"
  /\ \E r \in Recs :
       /\ eeprom[ev_arg] \in {r, "torn"}
       /\ g_lastHdr' = [id |-> ev_arg, rec |-> r]
  /\ UNCHANGED <<g_statusFlags, g_waveBuf, g_hdrStream, g_burstCycles, s_txLock,
                 pulser, hot, memory>>

\* The samples are the header's record, as far as its checksum can tell.
ChecksumOK == \A half \in 1 .. 2 : g_waveBuf[half] = g_lastHdr.rec

\* A page arrives in g_waveBuf.  Those of a torn record may be any record's,
\* but not all of them the header's.
LoadPage(half, p, q) ==
  /\ Within("store_load", p, q)
  /\ \E r \in Recs :
       /\ eeprom[ev_arg] \in {r, "torn"}
       /\ half = 2 /\ eeprom[ev_arg] = "torn" =>
            {g_waveBuf[1], r} # {g_lastHdr.rec}
       /\ g_waveBuf' = [g_waveBuf EXCEPT ![half] = r]
  /\ UNCHANGED <<g_statusFlags, g_lastHdr, g_hdrStream, g_burstCycles, s_txLock,
                 pulser, hot, memory>>

\* A page read fails and the rest of the record is not read.
LoadFails ==
  /\ at \in {"load_1", "load_2"}
  /\ Within("store_load", at, "unlock_failed")
  /\ UNCHANGED boardVarsButAt

LoadChecksum ==
  /\ Within("store_load", "checksum",
            IF ChecksumOK THEN "unlock_ok" ELSE "unlock_failed")
  /\ UNCHANGED boardVarsButAt

\* A fault: the error path returns with the read side frozen.
LoadUnlockOnSuccess ==
  /\ \/ /\ Within("store_load", "unlock_ok", "set_valid")
        /\ s_txLock' = FALSE
     \/ /\ Within("store_load", "unlock_failed", "set_fail")
        /\ UNCHANGED s_txLock
  /\ UNCHANGED <<g_statusFlags, record, g_burstCycles, pulser, hot, memory>>

LoadUnlock ==
  /\ \/ Within("store_load", "unlock_ok", "set_valid")
     \/ Within("store_load", "unlock_failed", "set_fail")
  /\ s_txLock' = FALSE
  /\ UNCHANGED <<g_statusFlags, record, g_burstCycles, pulser, hot, memory>>

LoadResult ==
  /\ \/ /\ Within("store_load", "set_valid", "stream_id")
        /\ g_statusFlags' = g_statusFlags \cup {"DATA_VALID"}
     \/ /\ Within("store_load", "set_fail", "stream_id")
        /\ g_statusFlags' = g_statusFlags \cup {"EEPROM_FAIL"}
  /\ UNCHANGED <<record, g_burstCycles, s_txLock, pulser, hot, memory>>

LoadEnd ==
  /\ Goto("store_load", "busy_off", "")
  /\ StoreReturns
  /\ g_statusFlags' = g_statusFlags \ {"EEPROM_BUSY"}
  /\ UNCHANGED <<record, g_burstCycles, s_txLock, pulser, hot, memory>>

hook_store_load ==
  \/ LoadBegin \/ LoadLock \/ LoadNotFound \/ LoadHeader
  \/ LoadPage(1, "load_1", "load_2") \/ LoadPage(2, "load_2", "checksum")
  \/ LoadFails \/ LoadChecksum \/ LoadUnlock \/ LoadResult
  \/ StreamId("store_load", "stream_id", "stream_rest")
  \/ StreamRest("store_load", "stream_rest", "busy_off")
  \/ LoadEnd

-----------------------------------------------------------------------------

\* The hooks' bodies, and the steps of ndt_sm_step() between them.
Hook ==
  \/ hook_thermal_fault
  \/ ThermalFlag \/ ThermalHvOff \/ ThermalTxDisable
  \/ SuppliesClear \/ SuppliesMeasure \/ VoltageFlag \/ VoltageHvOff
  \/ hook_fire_and_capture \/ hook_after_capture
  \/ hook_set_burst_cycles \/ hook_thermal_blink
  \/ hook_store_save \/ hook_store_load

Machine ==
  /\ \/ StepIdle \/ CheckPeriodic \/ AcceptPeriodic \/ AcceptCommand
     \/ NothingQueued \/ PopEvent \/ StepFire \/ StepDataReady
     \/ StepVoltageFault \/ StepThermalFault \/ Blink
  /\ UNCHANGED boardVars

main == Hook \/ Machine

Interrupt == (Tick \/ \E e \in Events : Post(e)) /\ UNCHANGED boardVars

Next == main \/ Interrupt \/ TempChanges

Spec == Init /\ [][Next]_vars

\* main() never leaves its loop, and the loops of its hooks end.
FairSpec == Spec /\ WF_vars(main)

-----------------------------------------------------------------------------

Has(flag) == flag \in g_statusFlags

\* Types of the board's state.
BoardTypeOK ==
  /\ SmTypeOK
  /\ g_statusFlags \subseteq Flags
  /\ g_waveBuf \in [1 .. 2 -> Recs]
  /\ g_lastHdr \in Headers /\ g_hdrStream \in Headers
  /\ g_burstCycles \in BurstMin .. BurstMax
  /\ s_txLock \in BOOLEAN /\ hv \in BOOLEAN /\ hot \in BOOLEAN
  /\ g_store \in BOOLEAN
  /\ mode \in {"OCTAL_3LEVEL", "TX_DISABLE"} /\ drive \in {"low", "both"}
  /\ eeprom \in [SaveIds -> Recs \cup {"none", "torn"}]

\* STATUS_DATA_VALID ("g_waveBuf holds a valid A-scan"): all of the buffer is one
\* record, the one g_lastHdr describes, whatever scans, saves, loads and
\* failures came before.
ValidIsWhole ==
  Has("DATA_VALID") => \A half \in 1 .. 2 : g_waveBuf[half] = g_lastHdr.rec

\* A master that waits for DATA_VALID without EEPROM_BUSY, as the README tells
\* it to, reads the header of the record in the buffer.
ServedHeaderMatches ==
  Has("DATA_VALID") /\ ~Has("EEPROM_BUSY") => g_hdrStream = g_lastHdr

\* A header with a record id, read with DATA_VALID and without EEPROM_FAIL, is a
\* promise: the EEPROM holds this very record under that id, through failing
\* saves, evictions and loads of other records.
SavedIdHoldsRecord ==
  Has("DATA_VALID") /\ ~Has("EEPROM_FAIL") /\ ~Has("EEPROM_BUSY")
    /\ g_hdrStream.id # 0
    => eeprom[g_hdrStream.id] = g_waveBuf[1]

\* The high voltage is on only during a scan, and only when every rail was in
\* range at the check this scan made.
HvOnlyInScan ==
  hv => s_state \in {"FIRE", "DATA_READY"} /\ Rails \subseteq g_statusFlags

\* A burst is driven in the mode max14808_pulse_burst() insists on: after every
\* receive phase, failed scan, save and load the pulser is back in octal mode.
\* (RecoversToOctalMode asks the same of a board whose faults are not latched.)
BurstInOctalMode ==
  pc = "fire_and_capture" /\ at = "burst" /\ ThermalLatched =>
    mode = "OCTAL_3LEVEL" /\ hv

\* The read side is never left frozen and the EEPROM never left busy.
ReadSideReopens == []<>(~s_txLock) /\ []<>(~Has("EEPROM_BUSY"))

\* A pulser that stays hot is shut down for good, whatever the board was doing:
\* high voltage off, outputs disabled, the fault reported.
HotShutsDown ==
  <>[]hot => <>[](~hv /\ mode = "TX_DISABLE" /\ Has("THERMAL_FAULT")
                     /\ s_state = "THERMAL_FAULT")

\* README.md: NDT_THERMAL_LATCHED 0 "lets the board recover once `THP` releases".
\* A board that has recovered drives its bursts.
RecoversToOctalMode ==
  pc = "fire_and_capture" /\ at = "burst" => mode = "OCTAL_3LEVEL"
=============================================================================

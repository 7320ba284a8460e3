--------------------------- MODULE NdtSystemProofs ---------------------------
(***************************************************************************)
(* Proofs about NdtSystem, for any record tags, record ids, rails and      *)
(* builds: a session that the status word and the freeze let through reads *)
(* one record.                                                             *)
(*                                                                         *)
(* While a session is live the buffer stands still: the read side is       *)
(* closed before the buffer is rewritten, and by then the session has      *)
(* fetched a byte and met the freeze, or been outpaced.                    *)
(***************************************************************************)
EXTENDS NdtSystem, NdtBoardProofs

\* Where the read side is closed.
Locked ==
  \/ pc = "fire_and_capture" /\ at # ""
  \/ Places("store_load", {"find", "load_1", "load_2", "checksum", "unlock_ok",
                           "unlock_failed"})

LockInv == s_txLock = Locked

\* The buffer has been rewritten, or part of it, and the read side is closed.
Rewritten ==
  \/ Places("fire_and_capture", {"capture_2", "header", "stream_id",
                                 "stream_rest", "unlock"})
  \/ Places("store_load", {"load_2", "checksum", "unlock_ok"})

\* The buffer is of one piece and the header is that of its record, unless a
\* load has just parsed another.
Steady ==
  /\ ~Rewritten
  /\ g_waveBuf[1] = g_waveBuf[2]
  /\ ~Places("store_load", {"load_1"}) => g_lastHdr.rec = g_waveBuf[1]

\* A session that has taken DATA_VALID from a read side that was open.
Live == stage # "status_lo" /\ ~loFrozen

SessionInv ==
  /\ LockInv
  /\ polled => Closed
  /\ stage \in {"status_lo", "status_hi", "hdr"} => seen = {}
  /\ Live =>
       /\ polled => ~s_txLock
       /\ Steady
       /\ stage = "hdr" => g_hdrStream.rec = g_waveBuf[1]
       /\ stage \in {"wave_1", "wave_2"} => seen = {g_waveBuf[1]}

-----------------------------------------------------------------------------
(* The system is the board, watched.                                       *)

LEMMA SystemStep == [SystemNext]_sysVars => [Next]_vars
BY DEF SystemNext, MainStep, FetchByte, FetchStatusLo, FetchStatusHi, Fetch,
   FetchLast, Command, Next, Interrupt, sysVars

\* So what is proved of the board holds whatever its master does.
THEOREM SystemImplementsBoard == SystemSpec => Spec
<1>1. SystemInit => Init
  BY DEF SystemInit
<1>2. QED
  BY <1>1, SystemStep, PTL DEF SystemSpec, Spec

-----------------------------------------------------------------------------
(* The board under a live session.                                         *)

\* The machine between two hooks leaves the board alone, and no hook is in the
\* middle of its body.
LEMMA MachineOutside == Control /\ Machine => at = "" /\ at' = ""
BY DEF Control, Machine, boardVars, StepIdle, CheckPeriodic, AcceptPeriodic,
   AcceptCommand, accept_trigger, NothingQueued, PopEvent, StepFire, StepDataReady,
   StepVoltageFault, StepThermalFault, Blink

\* The flag of the freeze follows the places in the hooks.
LEMMA LockStep ==
  ASSUME Control, LockInv, [Next]_vars
  PROVE  LockInv'
<1> USE DEF LockInv, Locked, Places, record, pulser, memory, boardVars,
            boardVarsButAt, Within, Goto, smVars, times
<1>1. CASE Machine
  BY <1>1, MachineOutside DEF Machine
<1>2. CASE hook_fire_and_capture
  BY <1>2 DEF hook_fire_and_capture, FireLock, FireHvOn, NDT_burst,
     ReceiveTxDisable, ReceiveSwitchesOn, CaptureFirst, CaptureSecond,
     FireHeader, StreamId, StreamRest, FireUnlock, FireReturns
<1>3. CASE hook_store_load
  BY <1>3 DEF hook_store_load, LoadBegin, LoadLock, LoadNotFound, LoadHeader,
     LoadPage, LoadFails, LoadChecksum, LoadUnlock, LoadResult, StreamId,
     StreamRest, LoadEnd, StoreReturns
<1>4. CASE hook_store_save
  BY <1>4 DEF hook_store_save, SaveBegin, SaveSucceeds, SaveFails, StreamId,
     StreamRest, SaveEnd, StoreReturns
<1>5. CASE hook_after_capture
  BY <1>5 DEF hook_after_capture, AfterMode, AfterHvOff, AfterValid,
     AfterCaptureReturns
<1>6. CASE hook_thermal_fault \/ ThermalFlag \/ ThermalHvOff \/ ThermalTxDisable
  BY <1>6 DEF Control, hook_thermal_fault, ThermalFlag, ThermalHvOff,
     ThermalTxDisable, ThermalFaultReturns, RecheckReturns, OnThermalEnterReturns
<1>7. CASE SuppliesClear \/ SuppliesMeasure \/ VoltageFlag \/ VoltageHvOff
  BY <1>7 DEF SuppliesClear, SuppliesMeasure, VoltageFlag, VoltageHvOff,
     SuppliesOkReturns, OnVoltageFaultReturns
<1>8. CASE hook_set_burst_cycles \/ hook_thermal_blink
  BY <1>8 DEF Control, hook_set_burst_cycles, hook_thermal_blink, SetBurstReturns,
     ThermalBlinkReturns, AfterBlink
<1>9. CASE Interrupt \/ TempChanges \/ UNCHANGED vars
  BY <1>9 DEF Interrupt, TempChanges, Tick, Post, vars
<1>10. QED
  BY <1>1, <1>2, <1>3, <1>4, <1>5, <1>6, <1>7, <1>8, <1>9 DEF Next, main, Hook

\* As long as the main loop does not rewrite it, the buffer stands still, and a
\* header that is right stays right while it is copied again.
LEMMA SteadyStep ==
  ASSUME BoardTypes, Control, Steady, [Next]_vars,
         ~Places("fire_and_capture", {"capture_1"}),
         ~Places("store_load", {"load_1"})
  PROVE  /\ Steady' /\ g_waveBuf' = g_waveBuf
         /\ g_hdrStream.rec = g_waveBuf[1] => g_hdrStream'.rec = g_waveBuf[1]
<1> USE DEF Steady, Rewritten, Places, record, pulser, memory, boardVars,
            boardVarsButAt, Within, Goto, smVars, times, BoardTypes, Headers
<1>1. CASE Machine
  BY <1>1, MachineOutside DEF Machine
<1>2. CASE hook_fire_and_capture
  BY <1>2 DEF hook_fire_and_capture, FireLock, FireHvOn, NDT_burst,
     ReceiveTxDisable, ReceiveSwitchesOn, CaptureFirst, CaptureSecond,
     FireHeader, StreamId, StreamRest, FireUnlock, FireReturns
<1>3. CASE hook_store_load
  BY <1>3 DEF hook_store_load, LoadBegin, LoadLock, LoadNotFound, LoadHeader,
     LoadPage, LoadFails, LoadChecksum, LoadUnlock, LoadResult, StreamId,
     StreamRest, LoadEnd, StoreReturns
<1>4. CASE hook_store_save
  BY <1>4 DEF hook_store_save, SaveBegin, SaveSucceeds, SaveFails, StreamId,
     StreamRest, SaveEnd, StoreReturns
<1>5. CASE hook_after_capture
  BY <1>5 DEF hook_after_capture, AfterMode, AfterHvOff, AfterValid,
     AfterCaptureReturns
<1>6. CASE hook_thermal_fault \/ ThermalFlag \/ ThermalHvOff \/ ThermalTxDisable
  BY <1>6 DEF Control, hook_thermal_fault, ThermalFlag, ThermalHvOff,
     ThermalTxDisable, ThermalFaultReturns, RecheckReturns, OnThermalEnterReturns
<1>7. CASE SuppliesClear \/ SuppliesMeasure \/ VoltageFlag \/ VoltageHvOff
  BY <1>7 DEF SuppliesClear, SuppliesMeasure, VoltageFlag, VoltageHvOff,
     SuppliesOkReturns, OnVoltageFaultReturns
<1>8. CASE hook_set_burst_cycles \/ hook_thermal_blink
  BY <1>8 DEF Control, hook_set_burst_cycles, hook_thermal_blink, SetBurstReturns,
     ThermalBlinkReturns, AfterBlink
<1>9. CASE Interrupt \/ TempChanges \/ UNCHANGED vars
  BY <1>9 DEF Interrupt, TempChanges, Tick, Post, vars
<1>10. QED
  BY <1>1, <1>2, <1>3, <1>4, <1>5, <1>6, <1>7, <1>8, <1>9 DEF Next, main, Hook

\* After a load has opened the read side again nothing closes it before the hook
\* returns.
LEMMA OpenStays ==
  ASSUME Control, Closed, ~Locked, [Next]_vars
  PROVE  ~Locked'
<1> USE DEF Closed, Locked, Places, record, pulser, memory, boardVars,
            boardVarsButAt, Within, Goto, smVars, times
<1>1. pc = "store_load" /\ at # ""
  OBVIOUS
<1>2. CASE hook_store_load
  BY <1>2 DEF hook_store_load, LoadBegin, LoadLock, LoadNotFound, LoadHeader,
     LoadPage, LoadFails, LoadChecksum, LoadUnlock, LoadResult, StreamId,
     StreamRest, LoadEnd, StoreReturns
<1>3. CASE Interrupt \/ TempChanges \/ UNCHANGED vars
  BY <1>3 DEF Interrupt, TempChanges, Tick, Post, vars
<1>4. ~Machine
  BY <1>1, MachineOutside
<1>5. /\ ~hook_fire_and_capture /\ ~hook_store_save /\ ~hook_after_capture
      /\ ~hook_thermal_fault /\ ~ThermalFlag /\ ~ThermalHvOff /\ ~ThermalTxDisable
      /\ ~SuppliesClear /\ ~SuppliesMeasure /\ ~VoltageFlag /\ ~VoltageHvOff
      /\ ~hook_set_burst_cycles /\ ~hook_thermal_blink
  BY <1>1 DEF hook_fire_and_capture, FireLock, FireHvOn, NDT_burst,
     ReceiveTxDisable, ReceiveSwitchesOn, CaptureFirst, CaptureSecond,
     FireHeader, FireUnlock, hook_store_save, SaveBegin, SaveSucceeds, SaveFails,
     SaveEnd, StreamId, StreamRest, hook_after_capture, AfterMode, AfterHvOff,
     AfterValid, hook_thermal_fault, ThermalFaultReturns, RecheckReturns,
     ThermalFlag, ThermalHvOff, ThermalTxDisable, SuppliesClear, SuppliesMeasure,
     VoltageFlag, VoltageHvOff, hook_set_burst_cycles, SetBurstReturns,
     hook_thermal_blink, ThermalBlinkReturns
<1>6. QED
  BY <1>2, <1>3, <1>4, <1>5 DEF Next, main, Hook

-----------------------------------------------------------------------------
(* The session.                                                            *)

\* A fetch leaves the board alone.
LEMMA FetchKeepsBoard ==
  FetchByte => UNCHANGED vars
BY DEF FetchByte, FetchStatusLo, FetchStatusHi, Fetch, FetchLast

LEMMA FetchKeeps ==
  ASSUME BoardTypes, BoardInv, SessionInv, FetchByte
  PROVE  SessionInv'
<1> USE DEF SessionInv, LockInv, Live
<1>1. UNCHANGED <<pc, at, s_txLock, g_waveBuf, g_lastHdr, g_hdrStream>>
  BY FetchKeepsBoard DEF vars, smVars, boardVars, record
<1>2. /\ Locked' = Locked /\ Closed' = Closed
      /\ Steady' = Steady
  BY <1>1 DEF Locked, Closed, Places, Steady, Rewritten
<1>3. CASE stage' = "status_lo" /\ ~polled' /\ seen' = {}
  BY <1>1, <1>2, <1>3
<1>4. CASE FetchStatusLo
  <2>1. ~s_txLock => Steady
    BY <1>4 DEF FetchStatusLo, BoardInv, RecordInv, Whole, Locked, Places,
       Steady, Rewritten, Rewriting
  <2>2. QED
    BY <1>1, <1>2, <1>4, <2>1 DEF FetchStatusLo, Proceed
<1>5. CASE FetchStatusHi
  <2>1. CASE s_txLock \/ Has("EEPROM_BUSY")
    BY <1>3, <1>5, <2>1 DEF FetchStatusHi, GiveUp
  <2>2. CASE ~s_txLock /\ ~Has("EEPROM_BUSY")
    <3>1. ~Streaming /\ g_hdrStream = g_lastHdr
      BY <2>2 DEF BoardInv, StreamInv, Streaming, Locked, Places
    <3>2. ~Places("store_load", {"load_1"})
      BY <2>2 DEF Locked, Places
    <3>3. QED
      BY <1>1, <1>2, <1>5, <2>2, <3>1, <3>2 DEF FetchStatusHi, Proceed, Steady
  <2>3. QED
    BY <2>1, <2>2
<1>6. CASE s_txLock /\ ~FetchStatusLo /\ ~FetchStatusHi
  BY <1>3, <1>6 DEF FetchByte, Fetch, FetchLast, GiveUp
<1>7. CASE ~s_txLock /\ Fetch("hdr", "wave_1", g_hdrStream.rec)
  BY <1>1, <1>2, <1>7 DEF Fetch, Proceed
<1>8. CASE ~s_txLock /\ Fetch("wave_1", "wave_2", g_waveBuf[1])
  BY <1>1, <1>2, <1>8 DEF Fetch, Proceed
<1>9. CASE FetchLast
  BY <1>3, <1>9 DEF FetchLast, GiveUp
<1>10. QED
  BY <1>4, <1>5, <1>6, <1>7, <1>8, <1>9 DEF FetchByte

\* The main loop ends the session before it touches the buffer.
LEMMA MainKeeps ==
  ASSUME BoardTypes, BoardInv, SessionInv, MainStep
  PROVE  SessionInv'
<1> USE DEF SessionInv, Live
<1>1. [Next]_vars /\ Control
  BY DEF MainStep, Next, BoardInv
<1>2. LockInv'
  BY <1>1, LockStep
<1>3. CASE Outpaced
  BY <1>2, <1>3 DEF MainStep, GiveUp
<1>4. CASE ~Outpaced
  <2>1. UNCHANGED <<stage, loFrozen, seen>> /\ polled' = (polled /\ Closed')
    BY <1>4 DEF MainStep
  <2>2. ASSUME Live
        PROVE  /\ ~Places("fire_and_capture", {"capture_1"})
               /\ ~Places("store_load", {"load_1"})
    BY <1>4, <2>2 DEF Outpaced, Closed, LockInv, Locked, Places
  <2>3. ASSUME Live, polled' PROVE ~s_txLock'
    BY <1>1, <1>2, <2>1, <2>3, OpenStays DEF LockInv
  <2>4. ASSUME Live
        PROVE  /\ Steady' /\ g_waveBuf' = g_waveBuf
               /\ g_hdrStream.rec = g_waveBuf[1] => g_hdrStream'.rec = g_waveBuf[1]
    BY <1>1, <2>2, <2>4, SteadyStep
  <2>5. QED
    BY <1>2, <2>1, <2>3, <2>4
<1>5. QED
  BY <1>3, <1>4

\* Commands and the temperature reach neither the buffer nor the session.
LEMMA RestKeeps ==
  ASSUME SessionInv,
         Command \/ (TempChanges /\ UNCHANGED session) \/ UNCHANGED sysVars
  PROVE  SessionInv'
<1>1. UNCHANGED <<pc, at, s_txLock, g_waveBuf, g_lastHdr, g_hdrStream, session>>
  BY DEF Command, Post, TempChanges, sysVars, vars, smVars, boardVars, record
<1>2. QED
  BY <1>1 DEF session, SessionInv, LockInv, Locked, Closed, Places, Live, Steady,
     Rewritten

\* The two together are inductive.
LEMMA SystemKeeps ==
  BoardTypeOK /\ BoardInv /\ SessionInv /\ [SystemNext]_sysVars => SessionInv'
<1>1. BoardTypeOK => BoardTypes
  BY DEF BoardTypeOK, BoardTypes
<1>2. QED
  BY <1>1, FetchKeeps, MainKeeps, RestKeeps DEF SystemNext

LEMMA SystemStart == SystemInit => SessionInv
<1> SUFFICES ASSUME SystemInit PROVE SessionInv
  OBVIOUS
<1>1. at = "" /\ s_txLock = FALSE
  BY DEF SystemInit, Init
<1>2. QED
  BY <1>1 DEF SystemInit, Init, SmInit, SessionInv, LockInv, Locked, Places, Live

\* In every state of the system the board keeps its invariant, and a live session
\* has read nothing but the record in the buffer.
THEOREM SystemInvariant == SystemSpec => [](BoardTypeOK /\ BoardInv /\ SessionInv)
<1>1. SystemSpec => [](BoardTypeOK /\ BoardInv)
  BY SystemImplementsBoard, BoardInvariant, PTL
<1>2. QED
  BY <1>1, SystemStart, SystemKeeps, PTL DEF SystemSpec

\* README.md: "a master read can never observe a half-overwritten A-scan", for a
\* master that discards a low status byte of 0xFF.
THEOREM SessionWhole == SystemSpec => SessionReadsOneRecord
<1>1. SessionInv =>
        (FetchLast /\ ~s_txLock /\ ~loFrozen => seen = {g_waveBuf[2]})
  BY DEF SessionInv, FetchLast, Live, Steady
<1>2. SessionInv /\ [SystemNext]_sysVars =>
        [FetchLast /\ ~s_txLock /\ ~loFrozen => seen = {g_waveBuf[2]}]_sysVars
  BY <1>1
<1>3. QED
  BY <1>2, SystemInvariant, PTL DEF SystemSpec, SessionReadsOneRecord
=============================================================================

------------------------------- MODULE NdtSystem -------------------------------
(***************************************************************************)
(* The board and its master over what they share: the buffers the I2CB     *)
(* slave serves and the freeze of its read side.  NdtI2cb shows that byte  *)
(* k of a read is byte k of the selected stream, or 0xFF while the read    *)
(* side is frozen; here each such byte is fetched by an interrupt of its   *)
(* own, between any two steps of the main loop, and has the value the      *)
(* buffers have at that moment.                                            *)
(*                                                                         *)
(* The master does what the README asks of it: a session polls the status  *)
(* word until it shows DATA_VALID without EEPROM_BUSY, then reads the      *)
(* header and the samples.  It sends commands between transactions.  A     *)
(* byte that comes back as 0xFF for the freeze ends the session.           *)
(*                                                                         *)
(* Time is left out: it decides nothing in a build triggered over I2C but  *)
(* the blinking of the LED.                                                *)
(***************************************************************************)
EXTENDS NdtBoard

VARIABLES
  stage,     \* the byte the session fetches next: "status_lo", "status_hi",
             \* "hdr", "wave_1" or "wave_2"
  loFrozen,  \* the low byte of the status word was fetched while frozen
  seen,      \* the record tags this session has read so far
  polled     \* history: the session fetched a byte since the read side closed

session == <<stage, loFrozen, seen, polled>>
sysVars == <<vars, session>>

SystemInit ==
  /\ Init
  /\ stage = "status_lo" /\ loFrozen = FALSE /\ seen = {} /\ polled = FALSE

\* The part of the hooks that main.c means to run with the read side closed.
Closed == \/ pc = "fire_and_capture" /\ at # ""
          \/ pc = "store_load" /\ at \notin {"", "lock"}

-----------------------------------------------------------------------------
(* The TX_DATA_RDY interrupt of ndt_i2cb.c, one per byte.                  *)

GiveUp == stage' = "status_lo" /\ loFrozen' = FALSE /\ seen' = {} /\ polled' = FALSE

Proceed(to) == stage' = to /\ polled' = Closed

\* STATUS, low byte: DATA_VALID is set in 0xFF, too.
FetchStatusLo ==
  /\ stage = "status_lo"
  /\ s_txLock \/ Has("DATA_VALID")
  /\ Proceed("status_hi") /\ loFrozen' = s_txLock
  /\ UNCHANGED <<vars, seen>>

\* STATUS, high byte: EEPROM_BUSY is set in 0xFF, too.
FetchStatusHi ==
  /\ stage = "status_hi"
  /\ IF s_txLock \/ Has("EEPROM_BUSY") THEN GiveUp
     ELSE Proceed("hdr") /\ UNCHANGED <<loFrozen, seen>>
  /\ UNCHANGED vars

\* A byte of the header or the samples that belongs to record rec.
Fetch(from, to, rec) ==
  /\ stage = from
  /\ IF s_txLock THEN GiveUp
     ELSE Proceed(to) /\ seen' = seen \cup {rec} /\ UNCHANGED loFrozen
  /\ UNCHANGED vars

FetchLast ==
  /\ stage = "wave_2"
  /\ GiveUp
  /\ UNCHANGED vars

FetchByte ==
  \/ FetchStatusLo \/ FetchStatusHi
  \/ Fetch("hdr", "wave_1", g_hdrStream.rec)
  \/ Fetch("wave_1", "wave_2", g_waveBuf[1])
  \/ FetchLast

\* A command is a transaction of its own: not between two bytes of a read.
Command ==
  /\ stage \notin {"status_hi", "wave_2"}
  /\ \E e \in Events : Post(e)
  /\ UNCHANGED <<boardVars, session>>

-----------------------------------------------------------------------------

\* The buffer is about to be rewritten and the session has not fetched a byte
\* since the read side was closed.
Outpaced == Closed /\ at \in {"capture_1", "load_1"} /\ ~polled

\* The main loop.  It closes the read side half a millisecond and more before
\* it rewrites the buffer (HV_SETTLE_US; a header read of the EEPROM); a master
\* that pauses that long inside a session cannot know, and has to start anew.
MainStep ==
  /\ main
  /\ IF Outpaced THEN GiveUp
     ELSE polled' = (polled /\ Closed') /\ UNCHANGED <<stage, loFrozen, seen>>

SystemNext ==
  \/ MainStep
  \/ FetchByte
  \/ Command
  \/ TempChanges /\ UNCHANGED session

SystemSpec == SystemInit /\ [][SystemNext]_sysVars

\* main() never leaves its loop; the master owes nothing.
SystemFairSpec == SystemSpec /\ WF_sysVars(MainStep)

-----------------------------------------------------------------------------

\* README.md: "a master read can never observe a half-overwritten A-scan".  A
\* session that found the status good and met no 0xFF byte has read the header
\* and the samples of one record, whatever scans, saves, loads and failures
\* went on between its bytes, provided that it does not take a low status byte
\* of 0xFF for flags.
SessionReadsOneRecord ==
  [][FetchLast /\ ~s_txLock /\ ~loFrozen => seen = {g_waveBuf[2]}]_sysVars

\* The same for a master that takes the status word as it comes.
AnySessionReadsOneRecord ==
  [][FetchLast /\ ~s_txLock => seen = {g_waveBuf[2]}]_sysVars
=============================================================================

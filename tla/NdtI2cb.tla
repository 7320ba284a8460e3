------------------------------- MODULE NdtI2cb -------------------------------
(***************************************************************************)
(* The I2CB slave of ndt_i2cb.c: the command parser and the stream reader  *)
(* of its interrupt handler, and the bus master that drives it.            *)
(*                                                                         *)
(* The master side is external: it opens transactions, sends and reads     *)
(* bytes, stops, restarts without a stop and aborts at any point, and each *)
(* of these raises one interrupt source of the peripheral.  The handler    *)
(* serves a source before the bus raises the next one: a byte takes 22 us  *)
(* at 400 kHz and nothing in main.c masks interrupts.                      *)
(***************************************************************************)
EXTENDS Naturals, Sequences

CONSTANTS
  Bytes,         \* the byte values the master sends
  WaveChannels,  \* streams->wave_channels
  WaveSamples,   \* streams->wave_samples
  TapCount,      \* streams->tap_count
  HdrLen,        \* streams->hdr_len
  MaxWrite,      \* bound: bytes the master writes in one transaction
  MaxRead        \* bound: bytes the master reads in one transaction

ASSUME StreamAssumption ==
  /\ WaveChannels \in Nat \ {0} /\ WaveSamples \in Nat \ {0}
  /\ TapCount \in Nat \ {0} /\ HdrLen \in Nat \ {0}
ASSUME ByteAssumption == Bytes \subseteq 0 .. 255
ASSUME BoundAssumption == MaxWrite \in Nat /\ MaxRead \in Nat

VARIABLES
  s_tx, s_txIdx, s_txLock,       \* the TX descriptor, its index, the freeze
  s_cmd, s_need, s_got, s_par,   \* the RX parser
  effects,   \* what the commands of this write did: posts, selections, bad
  i2cdxr,    \* the byte last handed to the peripheral to send
  bus,       \* "idle", "write" or "read": the transaction that is open
  src,       \* the interrupt source that is pending, with its data
  written,   \* the bytes of the open write that the handler has served
  nread      \* the bytes of the open read that the handler has served

tx     == <<s_tx, s_txIdx>>
parser == <<s_cmd, s_need, s_got, s_par>>
wire   == <<bus, written, nread>>
vars   == <<tx, s_txLock, parser, effects, i2cdxr, wire, src>>

NoSource == [kind |-> "NONE"]

-----------------------------------------------------------------------------
(* Streams and commands                                                    *)

\* k_paramLen
k_paramLen == <<0, 1, 0, 1, 0, 2, 2, 0>>
CMD_MAX == 8

Status  == [name |-> "status"]
Taps    == [name |-> "taps"]
Wave(c) == [name |-> "wave", ch |-> c]
Hdr     == [name |-> "hdr"]

Streams == {Status, Taps, Hdr} \cup {Wave(c) : c \in 0 .. WaveChannels - 1}

\* s_tx.bytes and s_tx.wide
StreamBytes(s) ==
  CASE s.name = "status" -> 2
    [] s.name = "taps"   -> TapCount * 2
    [] s.name = "wave"   -> WaveSamples * 2
    [] s.name = "hdr"    -> HdrLen

Wide(s) == s.name # "hdr"

Posts(id, arg)   == [does |-> "post", id |-> id, arg |-> arg]
Selects(s)       == [does |-> "select", stream |-> s]
BadCommand       == [does |-> "bad"]

\* What apply_command() does with a command and its parameters.
Effect(cmd, p0, p1) ==
  CASE cmd = 1 -> Posts("TRIGGER", 0)
    [] cmd = 2 -> Posts("SET_BURST", p0)
    [] cmd = 3 -> Selects(Status)
    [] cmd = 4 -> Selects(Wave(IF p0 % 8 < WaveChannels THEN p0 % 8 ELSE 0))
    [] cmd = 5 -> Selects(Taps)
    [] cmd = 6 -> Posts("STORE_SAVE", p0 + 256 * p1)
    [] cmd = 7 -> Posts("STORE_LOAD", p0 + 256 * p1)
    [] cmd = 8 -> Selects(Hdr)

\* ndt_i2cb_init()
Init ==
  /\ s_tx = Status /\ s_txIdx = 0 /\ s_txLock = FALSE
  /\ s_cmd = 0 /\ s_need = 0 /\ s_got = 0 /\ s_par = [i \in 0 .. 1 |-> 0]
  /\ effects = << >>
  /\ i2cdxr = <<"none">>
  /\ bus = "idle" /\ src = NoSource
  /\ written = << >> /\ nread = 0

-----------------------------------------------------------------------------
(* The bus master and the main loop.                                       *)

\* A START, or a repeated START, addresses the slave.
StartTransaction(dir) ==
  /\ src = NoSource
  /\ bus' = dir /\ written' = << >> /\ nread' = 0
  /\ effects' = << >>
  /\ src' = [kind |-> "ADDR_TARGET"]
  /\ UNCHANGED <<tx, s_txLock, parser, i2cdxr>>

MasterSends(d) ==
  /\ src = NoSource /\ bus = "write" /\ Len(written) < MaxWrite
  /\ src' = [kind |-> "RX_DATA_RDY", data |-> d]
  /\ UNCHANGED <<tx, s_txLock, parser, effects, i2cdxr, wire>>

MasterReads ==
  /\ src = NoSource /\ bus = "read" /\ nread < MaxRead
  /\ src' = [kind |-> "TX_DATA_RDY"]
  /\ UNCHANGED <<tx, s_txLock, parser, effects, i2cdxr, wire>>

Stop ==
  /\ src = NoSource
  /\ bus' = "idle"
  /\ src' = [kind |-> "STOP_CONDITION"]
  /\ UNCHANGED <<tx, s_txLock, parser, effects, i2cdxr, written, nread>>

\* The master aborts or loses the bus; a STOP may or may not follow.
Abort ==
  /\ src = NoSource /\ bus # "idle"
  /\ bus' = "idle"
  /\ src' \in {[kind |-> "NO_ACK"], [kind |-> "ARB_LOST"]}
  /\ UNCHANGED <<tx, s_txLock, parser, effects, i2cdxr, written, nread>>

Bus ==
  \/ \E dir \in {"write", "read"} : StartTransaction(dir)
  \/ \E d \in Bytes : MasterSends(d)
  \/ MasterReads \/ Stop \/ Abort

\* The main loop freezes and thaws the read side at any time.
ndt_i2cb_lock_tx(locked) ==
  /\ s_txLock' = locked
  /\ UNCHANGED <<tx, parser, effects, i2cdxr, wire, src>>

-----------------------------------------------------------------------------
(* INT_myI2CB_ISR()                                                        *)

\* A fault: a new transaction keeps the parameters the last one still owed.
ServeAddrKeepsNeed ==
  /\ src.kind = "ADDR_TARGET"
  /\ s_txIdx' = 0 /\ s_got' = 0
  /\ src' = NoSource
  /\ UNCHANGED <<s_tx, s_txLock, s_cmd, s_need, s_par, effects, i2cdxr, wire>>

ServeAddr ==
  /\ src.kind = "ADDR_TARGET"
  /\ s_txIdx' = 0 /\ s_need' = 0 /\ s_got' = 0
  /\ src' = NoSource
  /\ UNCHANGED <<s_tx, s_txLock, s_cmd, s_par, effects, i2cdxr, wire>>

apply_command(cmd, p0, p1) ==
  LET effect == Effect(cmd, p0, p1) IN
  /\ effects' = Append(effects, effect)
  /\ IF effect.does = "select" THEN s_tx' = effect.stream /\ s_txIdx' = 0
                               ELSE UNCHANGED tx

\* A byte where a command is expected.
RxCommand(d) ==
  /\ s_need = 0
  /\ \/ /\ d \notin 1 .. CMD_MAX
        /\ effects' = Append(effects, BadCommand)
        /\ UNCHANGED <<tx, parser>>
     \/ /\ d \in 1 .. CMD_MAX /\ k_paramLen[d] = 0
        /\ apply_command(d, 0, 0)
        /\ UNCHANGED parser
     \/ /\ d \in 1 .. CMD_MAX /\ k_paramLen[d] # 0
        /\ s_cmd' = d /\ s_need' = k_paramLen[d] /\ s_got' = 0
        /\ UNCHANGED <<tx, s_par, effects>>

\* A byte that is a parameter; the last one completes the command.
RxParameter(d) ==
  /\ s_need # 0
  /\ s_par' = [s_par EXCEPT ![s_got] = d]
  /\ s_got' = s_got + 1
  /\ IF s_got' >= s_need
       THEN s_need' = 0 /\ apply_command(s_cmd, s_par'[0], s_par'[1])
       ELSE UNCHANGED <<tx, s_need, effects>>
  /\ UNCHANGED s_cmd

ServeRx ==
  /\ src.kind = "RX_DATA_RDY"
  /\ RxCommand(src.data) \/ RxParameter(src.data)
  /\ written' = Append(written, src.data)
  /\ src' = NoSource
  /\ UNCHANGED <<s_txLock, i2cdxr, bus, nread>>

\* The byte of the element the index points at, or 0xFF.
TxByte ==
  IF s_txLock THEN <<"0xFF">>
  ELSE IF Wide(s_tx) THEN <<s_tx, s_txIdx \div 2, s_txIdx % 2>>
                     ELSE <<s_tx, s_txIdx, 0>>

\* A fault: the index stands still while the read side is frozen.
ServeTxStalls ==
  /\ src.kind = "TX_DATA_RDY"
  /\ i2cdxr' = TxByte
  /\ s_txIdx' = IF s_txLock THEN s_txIdx
                ELSE IF s_txIdx + 1 >= StreamBytes(s_tx) THEN 0 ELSE s_txIdx + 1
  /\ nread' = nread + 1
  /\ src' = NoSource
  /\ UNCHANGED <<s_tx, s_txLock, parser, effects, bus, written>>

\* A fault: off by one at the end of the stream.
ServeTxOverrun ==
  /\ src.kind = "TX_DATA_RDY"
  /\ i2cdxr' = TxByte
  /\ s_txIdx' = IF s_txIdx + 1 > StreamBytes(s_tx) THEN 0 ELSE s_txIdx + 1
  /\ nread' = nread + 1
  /\ src' = NoSource
  /\ UNCHANGED <<s_tx, s_txLock, parser, effects, bus, written>>

ServeTx ==
  /\ src.kind = "TX_DATA_RDY"
  /\ i2cdxr' = TxByte
  /\ s_txIdx' = IF s_txIdx + 1 >= StreamBytes(s_tx) THEN 0 ELSE s_txIdx + 1
  /\ nread' = nread + 1
  /\ src' = NoSource
  /\ UNCHANGED <<s_tx, s_txLock, parser, effects, bus, written>>

ServeStop ==
  /\ src.kind = "STOP_CONDITION"
  /\ s_txIdx' = 0 /\ s_need' = 0
  /\ src' = NoSource
  /\ UNCHANGED <<s_tx, s_txLock, s_cmd, s_got, s_par, effects, i2cdxr, wire>>

ServeAbort ==
  /\ src.kind \in {"NO_ACK", "ARB_LOST"}
  /\ s_txIdx' = 0 /\ s_need' = 0 /\ s_got' = 0
  /\ src' = NoSource
  /\ UNCHANGED <<s_tx, s_txLock, s_cmd, s_par, effects, i2cdxr, wire>>

INT_myI2CB_ISR == ServeAddr \/ ServeRx \/ ServeTx \/ ServeStop \/ ServeAbort

Next ==
  \/ Bus
  \/ INT_myI2CB_ISR
  \/ \E locked \in BOOLEAN : ndt_i2cb_lock_tx(locked)

Spec == Init /\ [][Next]_vars

-----------------------------------------------------------------------------

\* What a write of these bytes asks for, read off the protocol table of
\* ndt_i2cb.h: complete commands one after the other, each with its
\* parameters; a byte that is no command counts as bad; a command whose
\* parameters are missing asks for nothing.
Decode(bytes) ==
  LET Byte(i) == IF i <= Len(bytes) THEN bytes[i] ELSE 0
      rest[i \in 1 .. Len(bytes) + 1] ==
        IF i > Len(bytes) THEN << >>
        ELSE IF bytes[i] \notin 1 .. CMD_MAX THEN <<BadCommand>> \o rest[i + 1]
        ELSE LET next == i + 1 + k_paramLen[bytes[i]] IN
             IF next > Len(bytes) + 1 THEN << >>
             ELSE <<Effect(bytes[i], Byte(i + 1), Byte(i + 2))>> \o rest[next]
  IN rest[1]

\* Types of the slave's statics; the TX index stays inside the selected stream,
\* whose last element it must not read past.
TypeOK ==
  /\ s_tx \in Streams /\ s_txIdx \in 0 .. StreamBytes(s_tx) - 1
  /\ s_txLock \in BOOLEAN
  /\ s_cmd \in 0 .. CMD_MAX /\ s_need \in 0 .. 2 /\ s_got \in 0 .. 2
  /\ s_par \in [0 .. 1 -> {0} \cup Bytes]
  /\ s_need # 0 => s_cmd \in 1 .. CMD_MAX /\ s_need = k_paramLen[s_cmd]
                   /\ s_got < s_need
  /\ bus \in {"idle", "write", "read"}
  /\ written \in Seq(Bytes) /\ nread \in 0 .. MaxRead

\* Every complete command of a write has its effect exactly once and in order,
\* with its own parameters, and an incomplete one has none, however the write
\* and the transactions before it were cut off by stops, restarts and aborts.
CommandsAsSent == effects = Decode(written)

\* Byte k of a read is byte k of the selected stream, wrapping at its length, or
\* 0xFF while the read side is frozen: no abort, restart or freeze before or
\* during the read shifts the bytes of a stream.
StreamByte(s, k) ==
  LET i == k % StreamBytes(s) IN
  IF Wide(s) THEN <<s, i \div 2, i % 2>> ELSE <<s, i, 0>>

ReadInOrder ==
  [][nread' = nread + 1 =>
       i2cdxr' = IF s_txLock THEN <<"0xFF">> ELSE StreamByte(s_tx, nread)]_vars
=============================================================================

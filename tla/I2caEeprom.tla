------------------------------ MODULE I2caEeprom ------------------------------
(***************************************************************************)
(* The transport of i2ca_eeprom.c: one I2C frame per call, every wait on a *)
(* status flag of the I2CA peripheral with a budget of its own.  The       *)
(* peripheral, the bus and the M24M01E behind it run on while the code     *)
(* polls; all three may hang, and come back before or after the code has   *)
(* given up.                                                               *)
(*                                                                         *)
(* They are external.  STP is cleared when the STOP is on the bus, and a   *)
(* STOP empties the transmit register; a STOP forced on a frame may come   *)
(* after any of its bytes.  The chip answers nothing during its write      *)
(* cycle, wraps inside the page when it is written past its end and inside *)
(* the half when it is read past its end, and programs the bytes it has    *)
(* acknowledged when the STOP comes; when the frame was not carried to its *)
(* end it may also drop them all.                                          *)
(***************************************************************************)
EXTENDS Naturals, Sequences, FiniteSetsExt

CONSTANTS
  AddrBytes,  \* address bytes of a frame (2)
  PageSize,   \* M24M01E_PAGE_SIZE
  HalfSize,   \* 64 KB
  Size,       \* M24M01E_SIZE_BYTES
  MaxFaults   \* bound: hangs and noise on the bus

ASSUME GeometryAssumption ==
  /\ AddrBytes \in Nat \ {0}
  /\ PageSize \in Nat \ {0} /\ HalfSize \in Nat \ {0} /\ Size \in Nat \ {0}
  /\ HalfSize % PageSize = 0 /\ Size % HalfSize = 0

VARIABLES
  fn,      \* the arguments of the call: see Frame
  at,      \* what the code waits for; "idle" outside a call
  i,       \* bytes moved by the loops of the code
  rc,      \* "none", or what the call returns
  rdata,   \* the bytes it has read
  frame,   \* the peripheral: the frame on the bus,
  bus,     \*   and how far it is
  moved,   \*   bytes sent, or received, since the last (repeated) START
  stp,     \*   the STP bit: "none", "queued" behind the data, or "forced"
  NO_ACK,
  dxr,     \*   the transmit register is full
  drr,     \*   the receive register: at most one byte
  stuck,   \*   the bus hangs
  mem,     \* the M24M01E: its bytes,
  cycle,   \*   and whether it is in its write cycle
  faults   \* history: hangs and noise so far

code  == <<fn, at, i, rc, rdata>>
regs  == <<frame, bus, moved, stp, NO_ACK, dxr, drr>>
chip  == <<mem, cycle>>
i2caVars == <<code, regs, stuck, chip, faults>>

Addresses == 0 .. Size - 1

\* A frame to address a (device select and address bytes): the bytes to send,
\* address bytes first, then the number of bytes to read.  An empty frame is a
\* poll.  call is the driver's call it belongs to.
Frame(a, send, n, call) == [addr |-> a, send |-> send, read |-> n, call |-> call]

AddressBytes == [k \in 1 .. AddrBytes |-> "address"]

I2caInit ==
  /\ fn = Frame(0, << >>, 0, 0) /\ frame = fn
  /\ at = "idle" /\ i = 0 /\ rc = "none" /\ rdata = << >>
  /\ bus = "free" /\ moved = 0 /\ stp = "none"
  /\ NO_ACK = FALSE /\ dxr = FALSE /\ drr = << >>
  /\ stuck = FALSE /\ cycle = FALSE /\ faults = 0

-----------------------------------------------------------------------------
(* The peripheral, the bus and the chip                                    *)

\* Where byte k of a write frame, and of a read, to address a lands.
WrittenAt(a, k) == a - (a % PageSize) + ((a + k) % PageSize)

ReadFrom(a, k) == a - (a % HalfSize) + ((a + k) % HalfSize)

\* The memory after the first n data bytes of the frame.
Programmed(n) ==
  [x \in Addresses |->
     LET here == {k \in 0 .. n - 1 : WrittenAt(frame.addr, k) = x} IN
     IF here = {} THEN mem[x] ELSE frame.send[AddrBytes + Max(here) + 1]]

Noise == faults < MaxFaults /\ faults' = faults + 1

\* Without a STOP queued the peripheral holds the bus until the code goes on.
Held == IF stp = "none" THEN "held" ELSE IF bus = "raddr" THEN "recv" ELSE "send"

Acknowledged(next) ==
  bus' = next /\ UNCHANGED <<NO_ACK, dxr, faults>>

\* The byte in the transmit register, if any, may be lost or stay there.
NotAcknowledged(full) ==
  NO_ACK' = TRUE /\ bus' = Held /\ dxr' \in {full, FALSE}

\* START and the device select byte.
HwAddress ==
  /\ bus \in {"addr", "raddr"}
  /\ \/ ~cycle /\ Acknowledged(IF bus = "raddr" THEN "recv" ELSE "send")
     \/ cycle /\ NotAcknowledged(dxr) /\ UNCHANGED faults
     \/ ~cycle /\ NotAcknowledged(dxr) /\ Noise
  /\ UNCHANGED <<code, frame, moved, stp, drr, stuck, chip>>

\* A byte is sent; the code may have put the next one behind it already.
HwSend ==
  /\ bus = "send" /\ ~NO_ACK /\ dxr
  /\ \/ /\ moved' = moved + 1 /\ dxr' = FALSE
        /\ bus' = IF moved' = Len(frame.send) THEN Held ELSE "send"
        /\ UNCHANGED <<NO_ACK, faults>>
     \/ /\ NotAcknowledged(moved + 1 < Len(frame.send)) /\ Noise
        /\ UNCHANGED moved
  /\ UNCHANGED <<code, frame, stp, drr, stuck, chip>>

\* A byte is received; until the code reads it the peripheral stops the clock.
HwReceive ==
  /\ bus = "recv" /\ ~NO_ACK /\ drr = << >> /\ moved < frame.read
  /\ drr' = <<mem[ReadFrom(frame.addr, moved)]>>
  /\ moved' = moved + 1
  /\ UNCHANGED <<code, frame, bus, stp, NO_ACK, dxr, stuck, chip, faults>>

Complete ==
  \/ bus = "send" /\ moved = Len(frame.send)
  \/ bus = "recv" /\ moved = frame.read

\* The STOP, and what the chip does on it.  STP on a free bus clears itself.
HwStop ==
  /\ \/ stp = "queued" /\ (NO_ACK \/ Complete)
     \/ stp = "forced"
  /\ stp' = "none" /\ bus' = "free" /\ dxr' = FALSE
  /\ \/ /\ bus = "send" /\ moved > AddrBytes
        /\ mem' = Programmed(moved - AddrBytes) /\ cycle' = TRUE
     \/ /\ ~(bus = "send" /\ moved > AddrBytes /\ Complete /\ ~NO_ACK)
        /\ UNCHANGED chip
  /\ UNCHANGED <<code, frame, moved, NO_ACK, drr, stuck, faults>>

Hardware == ~stuck /\ (HwAddress \/ HwSend \/ HwReceive \/ HwStop)

CycleEnds ==
  cycle /\ cycle' = FALSE /\ UNCHANGED <<code, regs, stuck, mem, faults>>

Hang ==
  /\ ~stuck /\ bus # "free" /\ Noise /\ stuck' = TRUE
  /\ UNCHANGED <<code, regs, chip>>

Unhang ==
  stuck /\ stuck' = FALSE /\ UNCHANGED <<code, regs, chip, faults>>

\* Nothing will move on the bus any more as long as it stays like this.
Dead == stuck \/ bus = "free" \/ (bus = "held" /\ NO_ACK)

-----------------------------------------------------------------------------
(* i2ca_ep_write(), i2ca_ep_write_read()                                   *)

Read == fn.read > 0

Return(r) == at' = "idle" /\ rc' = r

\* A call; what it does first is to wait for a free bus.
i2ca_call(f) ==
  /\ at = "idle" /\ rc = "none"
  /\ fn' = f /\ at' = "bus_free" /\ i' = 0 /\ rdata' = << >>
  /\ UNCHANGED <<rc, regs, stuck, chip, faults>>

\* START; a write queues its STOP with it.
BusFree ==
  /\ at = "bus_free" /\ bus = "free"
  /\ frame' = fn /\ bus' = "addr" /\ moved' = 0 /\ NO_ACK' = FALSE
  /\ stp' = IF Read THEN stp ELSE "queued"
  /\ at' = IF fn.send = << >> THEN "stop" ELSE "put"
  /\ UNCHANGED <<fn, i, rc, rdata, dxr, drr, stuck, chip, faults>>

BusNeverFree ==
  /\ at = "bus_free" /\ bus # "free" /\ Dead
  /\ Return("IO")
  /\ UNCHANGED <<fn, i, rdata, regs, stuck, chip, faults>>

\* A fault: the call returns without a STOP.
AbortWithoutStop(r) ==
  /\ Return(r)
  /\ UNCHANGED <<fn, i, rdata, regs, stuck, chip, faults>>

\* i2ca_abort(base, r) up to its wait.
Abort(r) ==
  /\ at' = "abort" /\ rc' = r /\ stp' = "forced"
  /\ UNCHANGED <<fn, i, rdata, frame, bus, moved, NO_ACK, dxr, drr, stuck, chip,
                 faults>>

\* i2ca_abort() returns, whether or not the STOP is out.  It does not read
\* the receive register.
AbortReturns ==
  /\ at = "abort" /\ (stp = "none" \/ stuck)
  /\ at' = "idle" /\ NO_ACK' = FALSE
  /\ UNCHANGED <<fn, i, rc, rdata, frame, bus, moved, stp, dxr, drr, stuck, chip,
                 faults>>

\* TX_DATA_RDY, then I2C_putData().
Put ==
  /\ at = "put" /\ ~dxr
  /\ IF NO_ACK THEN Abort("NACK")
     ELSE /\ dxr' = TRUE /\ i' = i + 1
          /\ at' = IF i' < Len(fn.send) THEN "put" ELSE IF Read THEN "ardy" ELSE "stop"
          /\ UNCHANGED <<fn, rc, rdata, frame, bus, moved, stp, NO_ACK, drr,
                         stuck, chip, faults>>

PutTimeout == at = "put" /\ dxr /\ Dead /\ Abort("IO")

\* REG_ACCESS_RDY, then the repeated START in receive mode.
Ardy ==
  /\ at = "ardy" /\ bus = "held"
  /\ IF NO_ACK THEN Abort("NACK")
     ELSE /\ bus' = "raddr" /\ moved' = 0 /\ stp' = "queued"
          /\ at' = "get" /\ i' = 0
          /\ UNCHANGED <<fn, rc, rdata, frame, NO_ACK, dxr, drr, stuck, chip,
                         faults>>

ArdyTimeout == at = "ardy" /\ Dead /\ ~(bus = "held" /\ ~NO_ACK) /\ Abort("IO")

\* RX_DATA_RDY, then I2C_getData().
Get ==
  /\ at = "get" /\ drr # << >>
  /\ rdata' = rdata \o drr /\ drr' = << >>
  /\ i' = i + 1
  /\ at' = IF i' < fn.read THEN "get" ELSE "stop"
  /\ UNCHANGED <<fn, rc, frame, bus, moved, stp, NO_ACK, dxr, stuck, chip, faults>>

GetTimeout == at = "get" /\ drr = << >> /\ Dead /\ Abort("IO")

\* A fault: the NO_ACK flag is not looked at after the STOP.
StopDoneUnchecked ==
  /\ at = "stop" /\ stp = "none"
  /\ Return("OK")
  /\ UNCHANGED <<fn, i, rdata, regs, stuck, chip, faults>>

\* The STOP is out.  Only a write looks at NO_ACK.
StopDone ==
  /\ at = "stop" /\ stp = "none"
  /\ IF NO_ACK /\ ~Read THEN Return("NACK") /\ NO_ACK' = FALSE
                        ELSE Return("OK") /\ UNCHANGED NO_ACK
  /\ UNCHANGED <<fn, i, rdata, frame, bus, moved, stp, dxr, drr, stuck, chip,
                 faults>>

\* A fault: the wait for the STOP has no budget.
StopTimeoutNever == FALSE /\ UNCHANGED i2caVars

StopTimeout == at = "stop" /\ stp # "none" /\ stuck /\ Abort("IO")

i2ca ==
  \/ BusFree \/ BusNeverFree \/ AbortReturns
  \/ Put \/ PutTimeout \/ Ardy \/ ArdyTimeout \/ Get \/ GetTimeout
  \/ StopDone \/ StopTimeout
=============================================================================

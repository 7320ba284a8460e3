------------------------------- MODULE M24m01e -------------------------------
(***************************************************************************)
(* The M24M01E driver of m24m01e.c on top of the transport of              *)
(* i2ca_eeprom.c.  A call is split into bus frames, none of which crosses  *)
(* a page (write) or a half of the memory (A16 is part of the device       *)
(* select byte); after each write frame the driver polls until the chip    *)
(* answers again.                                                          *)
(***************************************************************************)
EXTENDS I2caEeprom

CONSTANTS
  PollTries,  \* dev->poll_tries
  Starts,     \* bound: addresses of the calls
  Lengths,    \* bound: lengths of the calls
  MaxCalls    \* bound: calls made

ASSUME CallAssumption ==
  PollTries \in Nat \ {0} /\ Starts \subseteq Nat /\ Lengths \subseteq Nat

VARIABLES
  op,      \* the call: its kind, address and length, and what it returned
  addr,    \* addr and len of the driver's loop
  len,
  buf,     \* the bytes a read has delivered
  tries,   \* polls left in m24m01e_wait_ready()
  calls,   \* history: the number of calls made
  before,  \* history: the memory when the call was made
  stale    \* history: a frame of this call found a byte in the receive register

loop    == <<addr, len, buf, tries>>
history == <<calls, before, stale>>
vars    == <<i2caVars, op, loop, history>>

\* Byte k of the data of call n: different from all the others.
Byte(n, k) == <<n, k>>

Init ==
  /\ I2caInit
  /\ mem = [a \in Addresses |-> Byte(0, a)]
  /\ op = [kind |-> "none", addr |-> 0, len |-> 0, rc |-> "OK"]
  /\ addr = 0 /\ len = 0 /\ buf = << >> /\ tries = 0
  /\ calls = 0 /\ before = mem /\ stale = FALSE

Busy == op.rc = "running"

Running(r) == op' = [op EXCEPT !.rc = r]

\* The memory when the call was made, and after: a frame of an earlier call that
\* gave up may end while this call waits for the bus.
BusMoves ==
  /\ i2ca \/ Hardware \/ CycleEnds \/ Hang \/ Unhang
  /\ before' = IF frame.call = calls THEN before ELSE mem'
  /\ stale' = (stale \/ (at = "bus_free" /\ bus' = "addr" /\ drr # << >>))
  /\ UNCHANGED <<op, loop, calls>>

-----------------------------------------------------------------------------

\* m24m01e_read(), m24m01e_write(): the checks of the parameters.
Call(kind, a, n) ==
  /\ ~Busy /\ calls < MaxCalls
  /\ calls' = calls + 1 /\ before' = mem /\ stale' = FALSE
  /\ addr' = a /\ len' = n /\ buf' = << >> /\ tries' = 0
  /\ op' = [kind |-> kind, addr |-> a, len |-> n,
            rc |-> IF n = 0 THEN "OK"
                   ELSE IF a >= Size \/ a + n > Size THEN "ERR_RANGE"
                   ELSE "running"]
  /\ UNCHANGED i2caVars

Smaller(a, b) == IF a < b THEN a ELSE b

\* A fault: the end of the call is forgotten.
WriteChunkToPageEnd == PageSize - (addr % PageSize)

\* page_room or what is left
WriteChunk == Smaller(PageSize - (addr % PageSize), len)

\* A fault: the read is not restarted where A16 changes.
ReadChunkWhole == len

\* half_end - addr or what is left
ReadChunk == Smaller(HalfSize - (addr % HalfSize), len)

ReadFrame == Frame(addr, AddressBytes, ReadChunk, calls)

\* The frame that write_page_chunk() puts together.
WriteFrame ==
  Frame(addr, AddressBytes \o [k \in 1 .. WriteChunk |->
                                 Byte(calls, addr - op.addr + k - 1)], 0, calls)

Poll == Frame(0, << >>, 0, calls)

\* A frame of the call is given to the transport.
Transfer ==
  /\ Busy
  /\ i2ca_call(IF op.kind = "read" THEN ReadFrame
               ELSE IF tries > 0 THEN Poll ELSE WriteFrame)
  /\ UNCHANGED <<op, loop, history>>

\* The transport has returned r.
Returned(r) ==
  /\ at = "idle" /\ rc = r /\ rc' = "none"
  /\ UNCHANGED <<fn, at, i, rdata, regs, stuck, chip, faults, history>>

\* The loop moves on by n bytes.
Advance(n) ==
  /\ addr' = addr + n /\ len' = len - n
  /\ Running(IF len' = 0 THEN "OK" ELSE "running")

ReadFrameDone ==
  /\ op.kind = "read" /\ Returned("OK")
  /\ buf' = buf \o rdata
  /\ Advance(ReadChunk)
  /\ UNCHANGED tries

WriteFrameDone ==
  /\ op.kind = "write" /\ tries = 0 /\ Returned("OK")
  /\ tries' = PollTries
  /\ UNCHANGED <<op, addr, len, buf>>

\* A clean NACK to a write frame is taken for the WC pin.
FrameFails ==
  /\ tries = 0
  /\ \/ /\ Returned("NACK")
        /\ Running(IF op.kind = "write" THEN "ERR_WRITE_PROTECT" ELSE "ERR_NACK")
     \/ Returned("IO") /\ Running("ERR_IO")
  /\ UNCHANGED loop

\* m24m01e_wait_ready(): the chip answers, and the loop goes on.
PollAck ==
  /\ tries > 0 /\ Returned("OK")
  /\ tries' = 0
  /\ Advance(WriteChunk)
  /\ UNCHANGED buf

\* It does not, for whatever reason; the last try in vain is a time-out.
PollNack ==
  /\ tries > 0 /\ (Returned("NACK") \/ Returned("IO"))
  /\ tries' = tries - 1
  /\ IF tries' = 0 THEN Running("ERR_TIMEOUT") ELSE UNCHANGED op
  /\ UNCHANGED <<addr, len, buf>>

m24m01e_wait_ready == PollAck \/ PollNack

Driver ==
  \/ Transfer \/ ReadFrameDone \/ WriteFrameDone \/ FrameFails
  \/ m24m01e_wait_ready

\* The bound is reached.
Done == ~Busy /\ calls = MaxCalls /\ UNCHANGED vars

Next ==
  \/ \E kind \in {"read", "write"}, a \in Starts, n \in Lengths : Call(kind, a, n)
  \/ Driver
  \/ BusMoves
  \/ Done

Spec == Init /\ [][Next]_vars

\* The calls block until they are done.  A peripheral that does not hang goes
\* on; the chip owes nothing, and a hang need not end.
FairSpec ==
  /\ Spec
  /\ WF_vars(Driver)
  /\ WF_vars(BusMoves /\ i2ca)
  /\ WF_vars(BusMoves /\ Hardware)

-----------------------------------------------------------------------------

\* The memory with the first n bytes of the current call written over the one
\* the call found.
Overlay(n) ==
  [x \in Addresses |->
     IF op.addr <= x /\ x < op.addr + n THEN Byte(calls, x - op.addr)
                                        ELSE before[x]]

\* Types of the memory and of the driver's loop, which never leaves the range
\* of the call; of the transport, what its registers may hold.
TypeOK ==
  /\ DOMAIN mem = Addresses
  /\ tries \in 0 .. PollTries
  /\ op.rc \in {"OK", "running", "ERR_RANGE", "ERR_NACK", "ERR_WRITE_PROTECT",
                "ERR_IO", "ERR_TIMEOUT"}
  /\ Busy => /\ op.kind \in {"read", "write"} /\ len > 0
             /\ addr + len = op.addr + op.len /\ addr + len <= Size
  /\ bus \in {"free", "addr", "send", "held", "raddr", "recv"}
  /\ stp \in {"none", "queued", "forced"} /\ Len(drr) <= 1
  /\ moved <= Len(frame.send) \/ moved <= frame.read

\* A write that returns OK has put every byte where it belongs; one that fails,
\* anywhere, leaves a prefix of its bytes; neither touches another byte, at the
\* ends of pages, halves and the memory, and however late the STOP of a frame
\* that was given up.
WriteLandsExactly ==
  op.kind = "write" =>
    /\ op.rc = "OK" => mem = Overlay(op.len)
    /\ \E n \in 0 .. op.len : mem = Overlay(n)

\* A read that returns OK has delivered the bytes of its range, also where it
\* crosses into the other half, unless a frame that was given up left a byte in
\* the receive register: i2ca_abort() does not drain it.
ReadDeliversRange ==
  op.kind = "read" /\ op.rc = "OK" /\ ~stale =>
    /\ Len(buf) = op.len
    /\ \A k \in 1 .. op.len : buf[k] = mem[op.addr + k - 1]

\* i2ca_eeprom.c, "never hang": every call returns, whether or not the bus comes
\* back or the chip ever answers again.
CallsReturn == []<>(~Busy)

\* A bus that works again is free again: no frame that was given up keeps it, and
\* the next call finds it as a first call does.
BusReleased == <>[](~stuck) => []<>(bus = "free")
=============================================================================

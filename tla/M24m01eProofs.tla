---------------------------- MODULE M24m01eProofs ----------------------------
(***************************************************************************)
(* Proofs about the M24M01E driver and its transport, for any page, half   *)
(* and memory size, any calls and any number of hangs: where the bytes of  *)
(* a write land, and what a read delivers.                                 *)
(***************************************************************************)
EXTENDS M24m01e, SequenceTheorems, TLAPS

Values == {"address"} \cup (Nat \X Nat)

Frames == [addr : Nat, send : Seq(Values), read : Nat, call : Nat]

Ops == [kind : {"none", "read", "write"}, addr : Nat, len : Nat,
        rc : {"OK", "running", "ERR_RANGE", "ERR_NACK", "ERR_WRITE_PROTECT",
              "ERR_IO", "ERR_TIMEOUT"}]

\* The transport and the chip.
BusTypes ==
  /\ mem \in [Addresses -> Values]
  /\ fn \in Frames /\ frame \in Frames
  /\ at \in {"idle", "bus_free", "put", "ardy", "get", "stop", "abort"}
  /\ rc \in {"none", "OK", "NACK", "IO"}
  /\ i \in Nat /\ moved \in Nat
  /\ rdata \in Seq(Values) /\ drr \in Seq(Values) /\ Len(drr) <= 1
  /\ bus \in {"free", "addr", "send", "held", "raddr", "recv"}
  /\ stp \in {"none", "queued", "forced"}

BusFlags ==
  NO_ACK \in BOOLEAN /\ dxr \in BOOLEAN /\ stuck \in BOOLEAN /\ cycle \in BOOLEAN

\* The driver's call and its loop.
LoopTypes ==
  /\ op \in Ops /\ calls \in Nat
  /\ addr \in Nat /\ len \in Nat /\ tries \in 0 .. PollTries
  /\ buf \in Seq(Values) /\ before \in [Addresses -> Values]
  /\ addr >= op.addr /\ addr + len = op.addr + op.len
  /\ Busy => op.kind \in {"read", "write"} /\ len > 0 /\ addr + len <= Size
  /\ ~Busy => at = "idle" /\ rc = "none"

\* The place in the transport and what it returns.
PlaceInv ==
  /\ at \in {"bus_free", "put", "ardy", "get", "stop"} => rc = "none"
  /\ at = "abort" => rc \in {"NACK", "IO"}
  /\ at \notin {"idle", "bus_free"} \/ rc = "OK" => frame = fn
  /\ at = "put" => i < Len(fn.send)
  /\ at = "get" => i < fn.read
  /\ at \in {"bus_free", "put", "ardy"} => rdata = << >>
  /\ at = "bus_free" => i = 0
  /\ at = "get" => Len(rdata) = i
  /\ at = "stop" \/ rc = "OK" => Len(rdata) = fn.read

\* The frame on the bus: no byte of it crosses a page, and none is sent or received
\* that is not of the frame, or was not put.
BytesInv ==
  /\ frame.addr < Size
  /\ Len(frame.send) <= AddrBytes + PageSize - (frame.addr % PageSize)
  /\ bus \in {"addr", "send", "held"} =>
       moved <= Len(frame.send) /\ (dxr = TRUE => moved < Len(frame.send))
  /\ bus \in {"raddr", "recv"} => moved <= frame.read
  /\ moved <= Len(frame.send) \/ moved <= frame.read
  /\ at = "put" => moved <= i /\ (dxr = TRUE => moved < i)

\* Its STOP is out only when it was given up, not acknowledged, or carried to its end.
StopInv ==
  /\ bus = "free" => dxr = FALSE /\ stuck = FALSE
  /\ bus = "free" /\ stp # "none" => at = "abort"
  /\ bus = "free" /\ at = "put" => NO_ACK = TRUE /\ ~Read
  /\ bus \in {"raddr", "recv"} => stp # "none" /\ frame.read > 0
  /\ stp = "forced" => at \in {"abort", "idle", "bus_free"}
  /\ at \in {"put", "ardy"} /\ Read => stp = "none" /\ bus \in {"addr", "send", "held"}
  /\ at \in {"put", "stop"} /\ ~Read /\ stp # "queued" => bus = "free"
  /\ at \in {"get", "stop"} /\ stp = "none" => bus = "free"
  /\ at = "get" => bus \in {"raddr", "recv", "free"}
  /\ at \in {"put", "stop"} /\ ~Read => bus \in {"addr", "send", "free"}
  /\ at \in {"ardy", "get"} => Read
  /\ rc = "OK" => bus = "free"

\* The frame that the driver asks for.
Request ==
  IF op.kind = "read" THEN ReadFrame ELSE IF tries > 0 THEN Poll ELSE WriteFrame

Landed == addr - op.addr

\* The call; its own frames begin after those of the calls before it.
CallInv ==
  /\ frame.call <= calls
  /\ Busy /\ ~(at = "idle" /\ rc = "none") => fn = Request
  /\ frame.call # calls => mem = before /\ addr = op.addr /\ tries = 0 /\ buf = << >>
  /\ op.kind = "none" => ~Busy
  /\ op.kind = "read" => tries = 0
  /\ ~Busy => tries = 0
  /\ op.rc = "OK" => len = 0
  /\ op.rc = "ERR_TIMEOUT" => len > 0

OwnFrame ==
  frame.call = calls =>
    /\ op.kind = "none" => frame.send = << >>
    /\ op.kind = "read" => frame.send = AddressBytes
    /\ op.kind = "write" => frame = WriteFrame \/ frame = Poll
    /\ op.kind = "write" /\ frame = WriteFrame =>
         /\ len > 0
         /\ ~(Busy /\ tries = 0 /\ at \in {"idle", "bus_free"} /\ rc = "none")

\* What a write has put into the memory.
MemInv ==
  op.kind = "write" /\ frame.call = calls =>
    /\ frame = WriteFrame /\ bus # "free" =>
         mem = Overlay(Landed) /\ tries = 0 /\ op.rc # "ERR_TIMEOUT"
    /\ frame = WriteFrame => \E m \in 0 .. WriteChunk : mem = Overlay(Landed + m)
    /\ tries > 0 \/ op.rc = "ERR_TIMEOUT" => mem = Overlay(Landed + WriteChunk)
    /\ frame = WriteFrame /\ (rc = "OK" \/ (at = "stop" /\ stp = "none" /\ NO_ACK = FALSE))
         => mem = Overlay(Landed + WriteChunk)
    /\ frame = Poll /\ tries = 0 /\ op.rc # "ERR_TIMEOUT" => mem = Overlay(Landed)

\* What a read has delivered.
ReadInv ==
  op.kind = "read" /\ ~stale =>
    /\ Len(buf) = addr - op.addr
    /\ \A k \in 1 .. Len(buf) : buf[k] = mem[op.addr + k - 1]
    /\ at \in {"put", "ardy"} => drr = << >>
    /\ at = "get" => moved = i + Len(drr)
                     /\ (drr # << >> => drr[1] = mem[addr + i])
    /\ at \in {"get", "stop"} \/ rc = "OK" =>
         \A k \in 1 .. Len(rdata) : rdata[k] = mem[addr + k - 1]

Inv ==
  /\ BusTypes /\ BusFlags /\ LoopTypes /\ PlaceInv /\ BytesInv /\ StopInv
  /\ CallInv /\ OwnFrame /\ MemInv /\ ReadInv

-----------------------------------------------------------------------------
(* Addresses and frames.                                                   *)

\* Within a block of m addresses the remainder moves on with the address.
LEMMA NoWrap ==
  ASSUME NEW m \in Nat \ {0}, NEW a \in Nat, NEW k \in Nat, (a % m) + k < m
  PROVE  a - (a % m) + ((a + k) % m) = a + k
<1>1. a % m \in 0 .. m - 1 /\ a \div m \in Int /\ a = m * (a \div m) + (a % m)
  OBVIOUS
<1>2. a + k = m * (a \div m) + ((a % m) + k)
  BY <1>1
<1>3. (a + k) % m = (a % m) + k
  BY <1>1, <1>2
<1>4. QED
  BY <1>1, <1>3

\* A chunk is not empty and stays within its page, or its half.
LEMMA Chunks ==
  ASSUME addr \in Nat, len \in Nat \ {0}
  PROVE  /\ WriteChunk \in 1 .. len /\ (addr % PageSize) + WriteChunk <= PageSize
         /\ ReadChunk \in 1 .. len /\ (addr % HalfSize) + ReadChunk <= HalfSize
<1>1. PageSize \in Nat \ {0} /\ HalfSize \in Nat \ {0}
  BY GeometryAssumption
<1>2. addr % PageSize \in 0 .. PageSize - 1 /\ addr % HalfSize \in 0 .. HalfSize - 1
  BY <1>1
<1>3. QED
  BY <1>1, <1>2 DEF WriteChunk, ReadChunk, Smaller

\* The bytes of the frames the driver asks for.
LEMMA FrameBytes ==
  ASSUME addr \in Nat, len \in Nat \ {0}, calls \in Nat, op.addr \in Nat, addr >= op.addr
  PROVE  /\ WriteFrame \in Frames /\ ReadFrame \in Frames /\ Poll \in Frames
         /\ WriteFrame.addr = addr /\ WriteFrame.call = calls /\ WriteFrame.read = 0
         /\ Len(WriteFrame.send) = AddrBytes + WriteChunk
         /\ \A k \in 1 .. WriteChunk :
              WriteFrame.send[AddrBytes + k] = Byte(calls, Landed + k - 1)
         /\ ReadFrame.addr = addr /\ ReadFrame.call = calls
         /\ ReadFrame.send = AddressBytes /\ ReadFrame.read = ReadChunk
         /\ Len(AddressBytes) = AddrBytes /\ AddrBytes \in Nat \ {0}
         /\ Poll.send = << >> /\ Poll.read = 0 /\ Poll.call = calls /\ Poll.addr = 0
         /\ WriteFrame # Poll
<1> DEFINE data == [k \in 1 .. WriteChunk |-> Byte(calls, addr - op.addr + k - 1)]
<1>1. /\ AddrBytes \in Nat \ {0} /\ WriteChunk \in Nat \ {0} /\ ReadChunk \in Nat
  BY Chunks, GeometryAssumption
<1>2. AddressBytes \in Seq(Values) /\ Len(AddressBytes) = AddrBytes
  BY <1>1 DEF AddressBytes, Values
<1>3. data \in Seq(Values) /\ Len(data) = WriteChunk
  <2>1. \A k \in 1 .. WriteChunk : addr - op.addr + k - 1 \in Nat
    BY <1>1
  <2>2. \A k \in 1 .. WriteChunk : Byte(calls, addr - op.addr + k - 1) \in Values
    BY <2>1 DEF Byte, Values
  <2>3. QED
    BY <1>1, <2>2
<1>4. WriteFrame = Frame(addr, AddressBytes \o data, 0, calls)
  BY DEF WriteFrame
<1>5. \A k \in 1 .. WriteChunk : data[k] = Byte(calls, Landed + k - 1)
  BY DEF Landed
<1> HIDE DEF data
<1>6. /\ AddressBytes \o data \in Seq(Values)
      /\ Len(AddressBytes \o data) = AddrBytes + WriteChunk
      /\ \A k \in 1 .. WriteChunk : (AddressBytes \o data)[AddrBytes + k] = data[k]
  <2>1. /\ AddressBytes \o data \in Seq(Values)
        /\ Len(AddressBytes \o data) = Len(AddressBytes) + Len(data)
        /\ \A k \in 1 .. Len(AddressBytes) + Len(data) :
             (AddressBytes \o data)[k] = IF k <= Len(AddressBytes) THEN AddressBytes[k]
                                         ELSE data[k - Len(AddressBytes)]
    BY <1>2, <1>3, ConcatProperties
  <2>2. \A k \in 1 .. WriteChunk :
          AddrBytes + k \in 1 .. AddrBytes + WriteChunk
            /\ ~(AddrBytes + k <= AddrBytes) /\ AddrBytes + k - AddrBytes = k
    BY <1>1
  <2>3. QED
    BY <1>2, <1>3, <2>1, <2>2
<1>7. WriteFrame \in Frames /\ ReadFrame \in Frames /\ Poll \in Frames
  BY <1>1, <1>2, <1>4, <1>6 DEF Frame, Frames, ReadFrame, Poll
<1>8. /\ WriteFrame.addr = addr /\ WriteFrame.call = calls /\ WriteFrame.read = 0
      /\ WriteFrame.send = AddressBytes \o data
  BY <1>4 DEF Frame
<1>9. /\ ReadFrame.addr = addr /\ ReadFrame.call = calls
      /\ ReadFrame.send = AddressBytes /\ ReadFrame.read = ReadChunk
      /\ Poll.send = << >> /\ Poll.read = 0 /\ Poll.call = calls /\ Poll.addr = 0
  BY DEF Frame, ReadFrame, Poll
<1>10. WriteFrame # Poll
  <2>1. Len(Poll.send) = 0
    BY <1>9
  <2>2. Len(WriteFrame.send) # 0
    BY <1>1, <1>6, <1>8
  <2>3. QED
    BY <2>1, <2>2
<1>11. QED
  BY <1>1, <1>2, <1>5, <1>6, <1>7, <1>8, <1>9, <1>10

\* What a frame that crosses no page programs.
LEMMA ProgrammedIs ==
  ASSUME frame \in Frames, NEW n \in Nat, AddrBytes + n <= Len(frame.send),
         Len(frame.send) <= AddrBytes + PageSize - (frame.addr % PageSize)
  PROVE  Programmed(n) =
           [x \in Addresses |->
              IF frame.addr <= x /\ x < frame.addr + n
                THEN frame.send[AddrBytes + (x - frame.addr) + 1] ELSE mem[x]]
<1> DEFINE here(x) == {k \in 0 .. n - 1 : WrittenAt(frame.addr, k) = x}
<1>1. /\ PageSize \in Nat \ {0} /\ AddrBytes \in Nat /\ frame.addr \in Nat
      /\ Len(frame.send) \in Nat
  BY GeometryAssumption DEF Frames
<1>2. \A k \in 0 .. n - 1 : WrittenAt(frame.addr, k) = frame.addr + k
  <2> SUFFICES ASSUME NEW k \in 0 .. n - 1
               PROVE  WrittenAt(frame.addr, k) = frame.addr + k
    OBVIOUS
  <2>1. k \in Nat /\ frame.addr % PageSize \in 0 .. PageSize - 1
    BY <1>1
  <2>2. (frame.addr % PageSize) + k < PageSize
    BY <1>1, <2>1
  <2>3. QED
    BY <1>1, <2>1, <2>2, NoWrap DEF WrittenAt
<1>3. ASSUME NEW x \in Addresses, frame.addr <= x, x < frame.addr + n
      PROVE  /\ here(x) # {}
             /\ frame.send[AddrBytes + Max(here(x)) + 1]
                  = frame.send[AddrBytes + (x - frame.addr) + 1]
  <2>1. x \in Int /\ x - frame.addr \in 0 .. n - 1
    BY <1>1, <1>3 DEF Addresses
  <2>2. here(x) = {x - frame.addr}
    <3>1. \A k \in 0 .. n - 1 : WrittenAt(frame.addr, k) = x <=> k = x - frame.addr
      BY <1>1, <1>2, <2>1
    <3>2. QED
      BY <2>1, <3>1
  <2>3. Max(here(x)) = x - frame.addr
    BY <2>1, <2>2 DEF Max
  <2> HIDE DEF here
  <2>4. QED
    BY <2>2, <2>3
<1>4. ASSUME NEW x \in Addresses, ~(frame.addr <= x /\ x < frame.addr + n)
      PROVE  here(x) = {}
  BY <1>1, <1>2, <1>4 DEF Addresses
<1>5. Programmed(n) = [x \in Addresses |->
                         IF here(x) = {} THEN mem[x]
                         ELSE frame.send[AddrBytes + Max(here(x)) + 1]]
  BY DEF Programmed
<1> HIDE DEF here
<1>6. QED
  BY <1>3, <1>4, <1>5

\* The bytes of a write frame land where they belong.
LEMMA Landing ==
  ASSUME LoopTypes, len > 0, frame = WriteFrame, mem = Overlay(Landed),
         NEW n \in 0 .. WriteChunk
  PROVE  Programmed(n) = Overlay(Landed + n)
<1>1. /\ addr \in Nat /\ len \in Nat \ {0} /\ calls \in Nat /\ op.addr \in Nat
      /\ addr >= op.addr
  BY DEF LoopTypes, Ops
<1>2. /\ n \in Nat /\ WriteChunk \in Nat /\ AddrBytes \in Nat
      /\ Landed \in Nat /\ addr = op.addr + Landed /\ PageSize \in Nat
      /\ addr % PageSize \in Nat
  BY <1>1, Chunks, GeometryAssumption DEF Landed
<1>3. /\ frame \in Frames /\ frame.addr = addr
      /\ Len(frame.send) = AddrBytes + WriteChunk
      /\ \A k \in 1 .. WriteChunk : frame.send[AddrBytes + k] = Byte(calls, Landed + k - 1)
  BY <1>1, FrameBytes
<1>4. Programmed(n) =
        [x \in Addresses |->
           IF addr <= x /\ x < addr + n
             THEN frame.send[AddrBytes + (x - addr) + 1] ELSE mem[x]]
  <2>1. (addr % PageSize) + WriteChunk <= PageSize
    BY <1>1, Chunks
  <2>2. /\ AddrBytes + n <= Len(frame.send)
        /\ Len(frame.send) <= AddrBytes + PageSize - (frame.addr % PageSize)
    BY <1>2, <1>3, <2>1
  <2>3. QED
    BY <1>2, <1>3, <2>2, ProgrammedIs
<1>5. ASSUME NEW x \in Addresses
      PROVE  (IF addr <= x /\ x < addr + n
                THEN frame.send[AddrBytes + (x - addr) + 1] ELSE mem[x])
             = (IF op.addr <= x /\ x < op.addr + (Landed + n)
                  THEN Byte(calls, x - op.addr) ELSE before[x])
  <2>1. x \in Int
    BY DEF Addresses
  <2>2. mem[x] = IF op.addr <= x /\ x < op.addr + Landed
                   THEN Byte(calls, x - op.addr) ELSE before[x]
    BY DEF Overlay
  <2>3. CASE addr <= x /\ x < addr + n
    <3>1. /\ x - addr + 1 \in 1 .. WriteChunk
          /\ AddrBytes + (x - addr) + 1 = AddrBytes + (x - addr + 1)
          /\ Landed + (x - addr + 1) - 1 = x - op.addr
          /\ op.addr <= x /\ x < op.addr + (Landed + n)
      BY <1>1, <1>2, <2>1, <2>3
    <3>2. frame.send[AddrBytes + (x - addr) + 1] = Byte(calls, x - op.addr)
      BY <1>3, <3>1
    <3>3. QED
      BY <2>3, <3>1, <3>2
  <2>4. CASE ~(addr <= x /\ x < addr + n)
    <3>1. (op.addr <= x /\ x < op.addr + (Landed + n)) <=> (op.addr <= x /\ x < op.addr + Landed)
      BY <1>1, <1>2, <2>1, <2>4
    <3>2. QED
      BY <2>2, <2>4, <3>1
  <2>5. QED
    BY <2>3, <2>4
<1>6. QED
  BY <1>4, <1>5 DEF Overlay

\* What a STOP may program are bytes of its frame.
LEMMA ProgramTypes ==
  ASSUME BusTypes, BytesInv, bus = "send", moved > AddrBytes
  PROVE  /\ Programmed(moved - AddrBytes) \in [Addresses -> Values]
         /\ moved - AddrBytes \in Nat
<1>1. /\ frame \in Frames /\ moved \in Nat /\ AddrBytes \in Nat /\ moved <= Len(frame.send)
      /\ frame.send \in Seq(Values) /\ frame.addr \in Nat
      /\ Len(frame.send) <= AddrBytes + PageSize - (frame.addr % PageSize)
  BY GeometryAssumption DEF BusTypes, BytesInv, Frames
<1> DEFINE n == moved - AddrBytes
<1>2. n \in Nat /\ AddrBytes + n <= Len(frame.send)
  BY <1>1
<1>3. ASSUME NEW x \in Addresses
      PROVE  (IF frame.addr <= x /\ x < frame.addr + n
                THEN frame.send[AddrBytes + (x - frame.addr) + 1] ELSE mem[x]) \in Values
  <2>1. x \in Int /\ mem[x] \in Values
    BY DEF BusTypes, Addresses
  <2>2. CASE frame.addr <= x /\ x < frame.addr + n
    <3>1. AddrBytes + (x - frame.addr) + 1 \in 1 .. Len(frame.send)
      BY <1>1, <1>2, <2>1, <2>2
    <3>2. QED
      BY <1>1, <2>2, <3>1
  <2>3. QED
    BY <2>1, <2>2
<1> HIDE DEF n
<1>4. QED
  BY <1>1, <1>2, <1>3, ProgrammedIs DEF n

\* The frame a call is waiting to send.
LEMMA AskedFrame ==
  ASSUME Inv, at # "idle"
  PROVE  /\ Busy /\ fn = Request /\ fn.call = calls /\ fn.addr < Size
         /\ Len(fn.send) <= AddrBytes + PageSize - (fn.addr % PageSize)
         /\ fn.send = << >> => fn.read = 0
<1>1. Busy /\ fn = Request
  BY DEF Inv, LoopTypes, CallInv
<1>2. /\ addr \in Nat /\ len \in Nat \ {0} /\ calls \in Nat /\ op.addr \in Nat
      /\ addr >= op.addr /\ addr + len <= Size /\ Size \in Nat
  BY <1>1, GeometryAssumption DEF Inv, LoopTypes, Ops
<1>3. PageSize \in Nat \ {0} /\ AddrBytes \in Nat /\ addr < Size /\ 0 < Size
  BY <1>2, GeometryAssumption
<1>4. /\ addr % PageSize \in 0 .. PageSize - 1
      /\ WriteChunk \in Nat /\ (addr % PageSize) + WriteChunk <= PageSize
  BY <1>2, <1>3, Chunks
<1>9. 0 % PageSize = 0
  BY <1>3
<1>5. CASE fn = ReadFrame
  <2>1. /\ fn.addr = addr /\ fn.call = calls /\ Len(fn.send) = AddrBytes /\ AddrBytes # 0
    BY <1>2, <1>5, FrameBytes
  <2>2. fn.send # << >>
    BY <2>1
  <2>3. QED
    BY <1>1, <1>3, <1>4, <2>1, <2>2
<1>6. CASE fn = Poll
  <2>1. Len(fn.send) = 0 /\ fn.addr = 0 /\ fn.call = calls /\ fn.read = 0
    BY <1>2, <1>6, FrameBytes
  <2>2. QED
    BY <1>1, <1>3, <1>9, <2>1
<1>7. CASE fn = WriteFrame
  <2>1. /\ Len(fn.send) = AddrBytes + WriteChunk /\ fn.addr = addr /\ fn.call = calls
        /\ fn.read = 0
    BY <1>2, <1>7, FrameBytes
  <2>2. QED
    BY <1>1, <1>3, <1>4, <2>1
<1>8. QED
  BY <1>1, <1>5, <1>6, <1>7 DEF Request

\* A block of m addresses that begins below the end of the memory ends there too.
LEMMA BlockFits ==
  ASSUME NEW m \in Nat \ {0}, NEW a \in Nat, NEW b \in Nat, a < b, b % m = 0
  PROVE  a - (a % m) + m <= b /\ a - (a % m) \in Nat
<1> DEFINE p == a \div m  q == b \div m
<1>1. a % m \in 0 .. m - 1 /\ p \in Int /\ q \in Int /\ a = m * p + (a % m) /\ b = m * q
  OBVIOUS
<1>2. m * p \in Int /\ a - (a % m) = m * p
  BY <1>1
<1> HIDE DEF p, q
<1>3. p < q
  <2> SUFFICES ASSUME p >= q PROVE FALSE
    BY <1>1
  <2>1. p - q \in Nat
    BY <1>1
  <2>2. m * (p - q) >= 0 /\ m * (p - q) = m * p - m * q
    BY <1>1, <2>1
  <2>3. QED
    BY <1>1, <1>2, <2>2
<1>4. m * p + m <= m * q
  <2>1. q - p - 1 \in Nat
    BY <1>1, <1>3
  <2>2. m * (q - p - 1) >= 0 /\ m * (q - p - 1) = m * q - m * p - m
    BY <1>1, <2>1
  <2>3. QED
    BY <1>1, <1>2, <2>2
<1>5. p >= 0
  <2> SUFFICES ASSUME p < 0 PROVE FALSE
    BY <1>1
  <2>1. -p - 1 \in Nat
    BY <1>1
  <2>2. m * (-p - 1) >= 0 /\ m * (-p - 1) = -(m * p) - m
    BY <1>1, <2>1
  <2>3. QED
    BY <1>1, <1>2, <2>2
<1>6. m * p \in Nat
  BY <1>1, <1>5
<1>7. QED
  BY <1>1, <1>2, <1>4, <1>6

\* A read comes from the memory, and within its half from where it is sent to.
LEMMA ReadLands ==
  ASSUME NEW a \in Nat, a < Size, NEW k \in Nat
  PROVE  /\ ReadFrom(a, k) \in Addresses
         /\ (a % HalfSize) + k < HalfSize => ReadFrom(a, k) = a + k
<1>1. HalfSize \in Nat \ {0} /\ Size \in Nat /\ Size % HalfSize = 0
  BY GeometryAssumption
<1>2. a - (a % HalfSize) + HalfSize <= Size /\ a - (a % HalfSize) \in Nat
  BY <1>1, BlockFits
<1>3. (a + k) % HalfSize \in 0 .. HalfSize - 1
  BY <1>1
<1>4. ReadFrom(a, k) \in Addresses
  BY <1>1, <1>2, <1>3 DEF ReadFrom, Addresses
<1>5. (a % HalfSize) + k < HalfSize => ReadFrom(a, k) = a + k
  BY <1>1, NoWrap DEF ReadFrom
<1>6. QED
  BY <1>4, <1>5

-----------------------------------------------------------------------------
(* What the transport, the bus and the chip do.                            *)

\* Types of the transport and the chip.
LEMMA MovesTypes ==
  ASSUME Inv, BusMoves
  PROVE  BusTypes' /\ BusFlags'
<1>1. BusTypes /\ BusFlags /\ BytesInv
  BY DEF Inv
<1>2. CASE BusFree
  BY <1>1, <1>2 DEF BusFree, BusTypes, BusFlags, chip
<1>3. CASE BusNeverFree
  BY <1>1, <1>3 DEF BusNeverFree, Return, BusTypes, BusFlags, chip, regs
<1>4. CASE AbortReturns
  BY <1>1, <1>4 DEF AbortReturns, BusTypes, BusFlags, chip
<1>5. ASSUME \/ Abort("IO") \/ Abort("NACK")
      PROVE  BusTypes' /\ BusFlags'
  BY <1>1, <1>5 DEF Abort, BusTypes, BusFlags, chip
<1>6. CASE Put
  <2>1. CASE Abort("NACK")
    BY <1>5, <2>1
  <2>2. CASE ~Abort("NACK")
    <3>1. BusTypes'
      BY <1>1, <1>6, <2>2 DEF Put, BusTypes, chip
    <3>2. BusFlags'
      BY <1>1, <1>6, <2>2 DEF Put, BusFlags, chip
    <3>3. QED
      BY <3>1, <3>2
  <2>3. QED
    BY <2>1, <2>2
<1>7. CASE Ardy
  BY <1>1, <1>5, <1>7 DEF Ardy, BusTypes, BusFlags, chip
<1>8. CASE PutTimeout \/ ArdyTimeout \/ GetTimeout \/ StopTimeout
  BY <1>5, <1>8 DEF PutTimeout, ArdyTimeout, GetTimeout, StopTimeout
<1>9. CASE Get
  BY <1>1, <1>9 DEF Get, BusTypes, BusFlags, chip
<1>10. CASE StopDone
  BY <1>1, <1>10 DEF StopDone, Return, BusTypes, BusFlags, chip
<1>11. CASE HwAddress
  <2>1. bus' \in {"send", "recv", "held"} /\ NO_ACK' \in {NO_ACK, TRUE} /\ dxr' \in {dxr, FALSE}
    BY <1>11 DEF HwAddress, Acknowledged, NotAcknowledged, Held
  <2>2. UNCHANGED <<fn, at, i, rc, rdata, frame, moved, stp, drr, stuck, mem, cycle>>
    BY <1>11 DEF HwAddress, code, chip
  <2>3. BusTypes'
    BY <1>1, <2>1, <2>2 DEF BusTypes
  <2>4. BusFlags'
    BY <1>1, <2>1, <2>2 DEF BusFlags
  <2>5. QED
    BY <2>3, <2>4
<1>12. CASE HwSend
  <2>1. bus' \in {"send", "recv", "held"}
    BY <1>12 DEF HwSend, NotAcknowledged, Held
  <2>7. NO_ACK' = NO_ACK \/ NO_ACK' = TRUE
    BY <1>12 DEF HwSend, NotAcknowledged
  <2>8. moved' = moved \/ moved' = moved + 1
    BY <1>12 DEF HwSend
  <2>6. dxr' \in BOOLEAN
    <3>1. dxr' = FALSE \/ NotAcknowledged(moved + 1 < Len(frame.send))
      BY <1>12 DEF HwSend
    <3>2. ASSUME NEW full \in BOOLEAN, NotAcknowledged(full)
          PROVE  dxr' \in BOOLEAN
      BY <3>2 DEF NotAcknowledged
    <3>3. (moved + 1 < Len(frame.send)) \in BOOLEAN
      OBVIOUS
    <3>4. QED
      BY <3>1, <3>2, <3>3, Zenon
  <2>2. UNCHANGED <<fn, at, i, rc, rdata, frame, stp, drr, stuck, mem, cycle>>
    BY <1>12 DEF HwSend, code, chip
  <2>3. BusTypes'
    BY <1>1, <2>1, <2>2, <2>8 DEF BusTypes
  <2>4. BusFlags'
    BY <1>1, <2>2, <2>6, <2>7 DEF BusFlags
  <2>5. QED
    BY <2>3, <2>4
<1>13. CASE HwReceive
  <2>1. frame.addr \in Nat /\ frame.addr < Size /\ moved \in Nat
    BY <1>1 DEF BusTypes, BytesInv, Frames
  <2>2. mem[ReadFrom(frame.addr, moved)] \in Values
    BY <1>1, <2>1, ReadLands DEF BusTypes
  <2>3. drr' \in Seq(Values) /\ Len(drr') = 1
    BY <1>13, <2>2 DEF HwReceive
  <2>4. QED
    BY <1>1, <1>13, <2>3 DEF HwReceive, code, chip, BusTypes, BusFlags
<1>14. CASE HwStop
  <2>1. mem' \in [Addresses -> Values] /\ cycle' \in BOOLEAN
    BY <1>1, <1>14, ProgramTypes DEF HwStop, chip, BusTypes, BusFlags
  <2>2. QED
    BY <1>1, <1>14, <2>1 DEF HwStop, code, BusTypes, BusFlags
<1>15. CASE CycleEnds \/ Hang \/ Unhang
  BY <1>1, <1>15 DEF CycleEnds, Hang, Unhang, code, regs, chip, BusTypes, BusFlags
<1>16. QED
  BY <1>2, <1>3, <1>4, <1>6, <1>7, <1>8, <1>9, <1>10, <1>11, <1>12, <1>13, <1>14, <1>15
     DEF BusMoves, i2ca, Hardware

\* The place in the transport.
LEMMA MovesPlace ==
  ASSUME Inv, BusMoves
  PROVE  PlaceInv'
<1>1. BusTypes /\ PlaceInv
  BY DEF Inv
<1>2. CASE BusFree
  <2>1. fn.send \in Seq(Values) /\ fn.read \in Nat
    BY <1>1 DEF BusTypes, Frames
  <2>2. fn.send = << >> => fn.read = 0
    BY <1>2, AskedFrame DEF BusFree
  <2>3. /\ at = "bus_free" /\ i = 0 /\ rdata = << >> /\ rc = "none"
        /\ frame' = fn /\ UNCHANGED <<fn, i, rc, rdata>>
        /\ at' = IF fn.send = << >> THEN "stop" ELSE "put"
    BY <1>1, <1>2 DEF BusFree, PlaceInv
  <2>4. Len(rdata) = 0 /\ (fn.send # << >> => Len(fn.send) > 0)
    BY <2>1, <2>3
  <2>5. QED
    BY <2>2, <2>3, <2>4 DEF PlaceInv
<1>3. CASE BusNeverFree
  BY <1>1, <1>3 DEF BusNeverFree, Return, PlaceInv, regs
<1>4. CASE AbortReturns
  BY <1>1, <1>4 DEF AbortReturns, PlaceInv
<1>5. ASSUME \/ Abort("IO") \/ Abort("NACK"), at \in {"put", "ardy", "get", "stop"}
      PROVE  PlaceInv'
  BY <1>1, <1>5 DEF Abort, PlaceInv
<1>6. CASE Put
  <2>1. CASE Abort("NACK")
    BY <1>5, <1>6, <2>1 DEF Put
  <2>2. CASE ~Abort("NACK")
    BY <1>1, <1>6, <2>2 DEF Put, PlaceInv, Read, BusTypes, Frames
  <2>3. QED
    BY <2>1, <2>2
<1>7. CASE Ardy
  <2>1. CASE Abort("NACK")
    BY <1>5, <1>7, <2>1 DEF Ardy
  <2>2. CASE ~Abort("NACK")
    <3>1. at = "ardy" /\ at' = "get" /\ i' = 0 /\ UNCHANGED <<fn, frame, rc, rdata>>
      BY <1>7, <2>2 DEF Ardy
    <3>2. fn.read > 0
      BY <3>1 DEF Inv, StopInv, Read
    <3>3. rdata = << >> /\ Len(rdata) = 0 /\ rc = "none" /\ frame = fn
      BY <1>1, <3>1 DEF PlaceInv
    <3>4. QED
      BY <3>1, <3>2, <3>3 DEF PlaceInv
  <2>3. QED
    BY <2>1, <2>2
<1>8. CASE PutTimeout \/ ArdyTimeout \/ GetTimeout \/ StopTimeout
  BY <1>5, <1>8 DEF PutTimeout, ArdyTimeout, GetTimeout, StopTimeout
<1>9. CASE Get
  <2>1. Len(drr) = 1 /\ rdata \in Seq(Values) /\ drr \in Seq(Values) /\ i \in Nat
    <3>1. rdata \in Seq(Values) /\ drr \in Seq(Values) /\ i \in Nat /\ Len(drr) <= 1
      BY <1>1 DEF BusTypes
    <3>2. drr # << >>
      BY <1>9 DEF Get
    <3>3. QED
      BY <3>1, <3>2
  <2>2. Len(rdata \o drr) = i + 1
    <3>1. Len(rdata) = i
      BY <1>1, <1>9 DEF Get, PlaceInv
    <3>2. Len(rdata \o drr) = Len(rdata) + Len(drr)
      BY <2>1, ConcatProperties
    <3>3. QED
      BY <2>1, <3>1, <3>2
  <2>3. fn.read \in Nat
    BY <1>1 DEF BusTypes, Frames
  <2>4. QED
    BY <1>1, <1>9, <2>1, <2>2, <2>3 DEF Get, PlaceInv
<1>10. CASE StopDone
  BY <1>1, <1>10 DEF StopDone, Return, PlaceInv
<1>11. CASE Hardware \/ CycleEnds \/ Hang \/ Unhang
  <2>1. UNCHANGED <<fn, at, i, rc, rdata, frame>>
    BY <1>11 DEF Hardware, HwAddress, HwSend, HwReceive, HwStop, CycleEnds, Hang, Unhang, code, regs
  <2>2. QED
    BY <1>1, <2>1 DEF PlaceInv
<1>12. QED
  BY <1>2, <1>3, <1>4, <1>6, <1>7, <1>8, <1>9, <1>10, <1>11 DEF BusMoves, i2ca

\* The bytes of the frame on the bus.
LEMMA MovesBytes ==
  ASSUME Inv, BusMoves
  PROVE  BytesInv'
<1>1. BytesInv /\ moved \in Nat /\ i \in Nat /\ Len(frame.send) \in Nat /\ frame.read \in Nat
  BY DEF Inv, BusTypes, Frames
<1>2. at = "put" => frame = fn /\ i < Len(frame.send)
  BY DEF Inv, PlaceInv
<1>3. ASSUME UNCHANGED <<frame, moved, bus>>, dxr' = TRUE => dxr = TRUE,
             at' = "put" => at = "put" /\ i' = i
      PROVE  BytesInv'
  BY <1>1, <1>3 DEF BytesInv
<1>5. CASE BusFree
  <2>1. fn.addr < Size /\ Len(fn.send) <= AddrBytes + PageSize - (fn.addr % PageSize)
    BY <1>5, AskedFrame DEF BusFree
  <2>2. /\ Len(fn.send) \in Nat /\ frame' = fn /\ bus' = "addr" /\ moved' = 0 /\ dxr' = FALSE
        /\ i' = i
    BY <1>5 DEF Inv, BusTypes, Frames, BusFree, StopInv
  <2>3. QED
    BY <1>1, <2>1, <2>2 DEF BytesInv
<1>6. CASE Put /\ ~Abort("NACK")
  <2>1. /\ at = "put" /\ i' = i + 1 /\ UNCHANGED <<frame, moved, bus>>
    BY <1>6 DEF Put
  <2>2. moved <= i /\ moved < Len(frame.send) /\ moved < i'
    BY <1>1, <1>2, <2>1 DEF BytesInv
  <2>3. QED
    BY <1>1, <2>1, <2>2 DEF BytesInv
<1>7. CASE Ardy /\ ~Abort("NACK")
  <2>1. at' = "get" /\ moved' = 0 /\ bus' = "raddr" /\ frame' = frame
    BY <1>7 DEF Ardy
  <2>2. QED
    BY <1>1, <2>1 DEF BytesInv
<1>8. CASE \/ Abort("IO") \/ Abort("NACK") \/ BusNeverFree \/ AbortReturns \/ Get \/ StopDone
           \/ CycleEnds \/ Hang \/ Unhang
  <2>1. UNCHANGED <<frame, moved, bus, dxr>> /\ (at' = "put" => at = "put" /\ i' = i)
    BY <1>8 DEF Abort, BusNeverFree, Return, AbortReturns, Get, StopDone, CycleEnds, Hang, Unhang,
                code, regs
  <2>2. QED
    BY <1>3, <2>1
<1>9. CASE HwAddress
  <2>1. UNCHANGED <<frame, moved, at, i>> /\ (dxr' = TRUE => dxr = TRUE)
    BY <1>9 DEF HwAddress, Acknowledged, NotAcknowledged, code
  <2>2. \/ bus = "addr" /\ bus' \in {"send", "held"}
        \/ bus = "raddr" /\ bus' = "recv"
    BY <1>9 DEF HwAddress, Acknowledged, NotAcknowledged, Held, Inv, StopInv
  <2>3. QED
    BY <1>1, <2>1, <2>2 DEF BytesInv
<1>10. CASE HwSend
  <2>1. UNCHANGED <<frame, at, i>> /\ bus = "send" /\ bus' \in {"send", "held"} /\ dxr = TRUE
    BY <1>10 DEF HwSend, NotAcknowledged, Held, code, Inv, BusFlags
  <2>2. moved < Len(frame.send) /\ (at = "put" => moved < i)
    BY <1>1, <2>1 DEF BytesInv
  <2>3. \/ moved' = moved + 1 /\ dxr' = FALSE
        \/ moved' = moved
    BY <1>10 DEF HwSend
  <2>4. moved' <= Len(frame.send) /\ (dxr' = TRUE => moved' < Len(frame.send))
    BY <1>1, <2>2, <2>3
  <2>5. at = "put" => moved' <= i /\ (dxr' = TRUE => moved' < i)
    BY <1>1, <2>2, <2>3
  <2>6. QED
    BY <1>1, <2>1, <2>4, <2>5 DEF BytesInv
<1>11. CASE HwReceive
  <2>1. /\ UNCHANGED <<frame, at, i, bus, dxr>> /\ bus = "recv" /\ moved' = moved + 1
        /\ moved < frame.read
    BY <1>11 DEF HwReceive, code
  <2>2. at # "put"
    BY <1>2, <2>1 DEF Inv, StopInv, Read
  <2>3. moved' <= frame.read
    BY <1>1, <2>1
  <2>4. QED
    BY <1>1, <2>1, <2>2, <2>3 DEF BytesInv
<1>12. CASE HwStop
  <2>1. UNCHANGED <<frame, moved, at, i>> /\ bus' = "free" /\ dxr' = FALSE
    BY <1>12 DEF HwStop, code
  <2>2. QED
    BY <1>1, <2>1 DEF BytesInv
<1>13. QED
  BY <1>5, <1>6, <1>7, <1>8, <1>9, <1>10, <1>11, <1>12
     DEF BusMoves, i2ca, Hardware, PutTimeout, ArdyTimeout, GetTimeout, StopTimeout

\* The STOP of the frame on the bus.
LEMMA MovesStop ==
  ASSUME Inv, BusMoves
  PROVE  StopInv'
<1>1. StopInv /\ PlaceInv /\ BusFlags
  BY DEF Inv
<1>2. at \notin {"idle", "bus_free"} => frame = fn /\ (frame.read > 0 <=> Read)
  BY DEF Inv, PlaceInv, Read
<1>3. at = "put" => ~Complete
  <2>1. at = "put" => i < Len(frame.send) /\ moved <= i
    BY DEF Inv, PlaceInv, BytesInv
  <2>2. at = "put" => moved < Len(frame.send)
    BY <2>1 DEF Inv, BusTypes, Frames
  <2>3. at = "put" => bus # "recv"
    BY <1>1, <1>2 DEF StopInv
  <2>4. QED
    BY <2>2, <2>3 DEF Complete, Inv, BusTypes, Frames
<1>4. fn' = fn => Read' = Read
  BY DEF Read
<1>5. CASE BusFree
  <2>1. /\ bus = "free" /\ at = "bus_free" /\ frame' = fn /\ bus' = "addr" /\ fn' = fn
        /\ stp' = (IF Read THEN stp ELSE "queued") /\ at' \in {"put", "stop"}
        /\ at' = "stop" => fn.send = << >>
        /\ rc' = rc /\ UNCHANGED <<stuck, dxr>>
    BY <1>5 DEF BusFree
  <2>2. stp = "none" /\ rc # "OK"
    BY <1>1, <2>1 DEF StopInv, PlaceInv
  <2>3. fn.send = << >> => ~Read
    BY <2>1, AskedFrame DEF Read
  <2>4. QED
    BY <1>4, <2>1, <2>2, <2>3 DEF StopInv
<1>6. CASE BusNeverFree \/ AbortReturns
  BY <1>1, <1>4, <1>6 DEF BusNeverFree, AbortReturns, Return, regs, StopInv, PlaceInv
<1>7. ASSUME Abort("IO") \/ Abort("NACK"), at \in {"put", "ardy", "get", "stop"}
      PROVE  StopInv'
  BY <1>1, <1>4, <1>7 DEF Abort, StopInv, PlaceInv
<1>8. CASE Put /\ ~Abort("NACK")
  BY <1>1, <1>4, <1>8 DEF Put, StopInv, PlaceInv
<1>9. CASE Ardy /\ ~Abort("NACK")
  BY <1>1, <1>2, <1>4, <1>9 DEF Ardy, StopInv, PlaceInv
<1>10. CASE Get
  BY <1>1, <1>4, <1>10 DEF Get, StopInv, PlaceInv
<1>11. CASE StopDone
  <2>1. /\ at = "stop" /\ at' = "idle" /\ stp = "none" /\ rc' \in {"OK", "NACK"}
        /\ UNCHANGED <<fn, frame, bus, stp, dxr, stuck>>
    BY <1>11 DEF StopDone, Return
  <2>2. bus = "free"
    BY <1>1, <2>1 DEF StopInv
  <2>3. QED
    BY <1>1, <1>4, <2>1, <2>2 DEF StopInv
<1>12. CASE HwAddress
  <2>1. UNCHANGED <<fn, at, rc, frame, stp, stuck>>
    BY <1>12 DEF HwAddress, code
  <2>2. CASE bus = "addr"
    <3>1. bus' = "send" \/ (bus' = "held" /\ stp = "none")
      BY <1>12, <2>2 DEF HwAddress, Acknowledged, NotAcknowledged, Held
    <3>2. QED
      BY <1>1, <1>2, <1>4, <2>1, <2>2, <3>1 DEF StopInv
  <2>3. CASE bus = "raddr"
    <3>1. bus' = "recv"
      BY <1>1, <1>12, <2>3 DEF HwAddress, Acknowledged, NotAcknowledged, Held, StopInv
    <3>2. QED
      BY <1>1, <1>2, <1>4, <2>1, <2>3, <3>1 DEF StopInv
  <2>4. QED
    BY <1>12, <2>2, <2>3 DEF HwAddress
<1>13. CASE HwSend
  <2>1. UNCHANGED <<fn, at, rc, frame, stp, stuck>> /\ bus = "send"
    BY <1>13 DEF HwSend, code
  <2>2. bus' = "send" \/ (bus' = "held" /\ stp = "none")
    BY <1>13 DEF HwSend, NotAcknowledged, Held
  <2>3. QED
    BY <1>1, <1>4, <2>1, <2>2 DEF StopInv
<1>14. CASE HwReceive
  BY <1>1, <1>4, <1>14 DEF HwReceive, code, StopInv
<1>15. CASE HwStop /\ ~stuck
  BY <1>1, <1>2, <1>3, <1>4, <1>15 DEF HwStop, code, StopInv, PlaceInv, BusFlags
<1>16. CASE CycleEnds \/ Hang \/ Unhang
  BY <1>1, <1>4, <1>16 DEF CycleEnds, Hang, Unhang, code, regs, StopInv
<1>17. QED
  BY <1>5, <1>6, <1>7, <1>8, <1>9, <1>10, <1>11, <1>12, <1>13, <1>14, <1>15, <1>16
     DEF BusMoves, i2ca, Hardware, PutTimeout, ArdyTimeout, GetTimeout, StopTimeout, Put, Ardy

\* The loop of the driver does not move meanwhile.
LEMMA MovesLoop ==
  ASSUME Inv, BusMoves
  PROVE  LoopTypes'
<1>1. LoopTypes /\ BusTypes' /\ mem' \in [Addresses -> Values]
  BY MovesTypes DEF Inv, BusTypes
<1>2. before' \in [Addresses -> Values]
  BY <1>1 DEF BusMoves, LoopTypes
<1>3. UNCHANGED <<op, addr, len, buf, tries, calls>>
  BY DEF BusMoves, loop
<1>4. at = "idle" /\ rc = "none" => at' = "idle" /\ rc' = "none"
  BY DEF BusMoves, i2ca, BusFree, BusNeverFree, AbortReturns, Put, PutTimeout, Ardy, ArdyTimeout,
         Get, GetTimeout, StopDone, StopTimeout, Hardware, HwAddress, HwSend, HwReceive, HwStop,
         CycleEnds, Hang, Unhang, code
<1>5. QED
  BY <1>1, <1>2, <1>3, <1>4 DEF LoopTypes, Busy

\* What the driver would ask for does not change with the bus.
LEMMA SameCall ==
  ASSUME UNCHANGED <<op, addr, len, buf, tries, calls>>
  PROVE  /\ Request' = Request /\ WriteFrame' = WriteFrame /\ Poll' = Poll
         /\ ReadFrame' = ReadFrame
         /\ Landed' = Landed /\ WriteChunk' = WriteChunk /\ ReadChunk' = ReadChunk
         /\ Busy' = Busy
<1>1. WriteChunk' = WriteChunk /\ ReadChunk' = ReadChunk /\ Landed' = Landed /\ Busy' = Busy
  BY DEF WriteChunk, ReadChunk, Smaller, Landed, Busy
<1>2. WriteFrame' = WriteFrame /\ Poll' = Poll /\ ReadFrame' = ReadFrame
  BY <1>1 DEF WriteFrame, Poll, ReadFrame, Frame, AddressBytes, Byte
<1>3. QED
  BY <1>1, <1>2 DEF Request

\* The frame on the bus is exchanged where a START is sent, and only there.
LEMMA MovesFrame ==
  ASSUME Inv, BusMoves
  PROVE  /\ UNCHANGED <<op, addr, len, buf, tries, calls, fn>>
         /\ \/ BusFree
            \/ /\ UNCHANGED frame /\ (bus = "free" => bus' = "free")
               /\ at' \in {"idle", "bus_free"} /\ rc' = "none" =>
                    at \in {"idle", "bus_free"} /\ rc = "none"
               /\ at = "idle" /\ rc = "none" => at' = "idle" /\ rc' = "none"
<1>1. PlaceInv /\ BusTypes
  BY DEF Inv
<1>2. UNCHANGED <<op, addr, len, buf, tries, calls, fn>>
  BY DEF BusMoves, loop, i2ca, BusFree, BusNeverFree, AbortReturns, Put, PutTimeout, Ardy,
         ArdyTimeout, Get, GetTimeout, StopDone, StopTimeout, Hardware, HwAddress, HwSend,
         HwReceive, HwStop, CycleEnds, Hang, Unhang, Abort, Return, code
<1>3. ASSUME Hardware \/ CycleEnds \/ Hang \/ Unhang
      PROVE  /\ UNCHANGED <<frame, at, rc>>
             /\ bus = "free" => bus' = "free"
  BY <1>3 DEF Hardware, HwAddress, HwSend, HwReceive, HwStop, CycleEnds, Hang, Unhang, code, regs
<1>4. ASSUME i2ca, ~BusFree
      PROVE  /\ UNCHANGED frame
             /\ at # "idle"
             /\ bus = "free" => bus' = "free"
             /\ at' \in {"put", "ardy", "get", "stop", "abort"} \/ rc' # "none"
  BY <1>1, <1>4 DEF i2ca, BusNeverFree, AbortReturns, Put, PutTimeout, Ardy, ArdyTimeout, Get,
         GetTimeout, StopDone, StopTimeout, Abort, Return, regs, PlaceInv
<1>5. QED
  BY <1>2, <1>3, <1>4 DEF BusMoves

\* The call keeps to its frames.
LEMMA MovesCall ==
  ASSUME Inv, BusMoves
  PROVE  CallInv' /\ OwnFrame'
<1>1. CallInv /\ OwnFrame /\ LoopTypes /\ calls \in Nat /\ PlaceInv
  BY DEF Inv, LoopTypes
<1>2. UNCHANGED <<op, addr, len, buf, tries, calls, fn>>
  BY MovesFrame
<1>3. /\ Request' = Request /\ WriteFrame' = WriteFrame /\ Poll' = Poll /\ Busy' = Busy
      /\ AddressBytes' = AddressBytes
  BY <1>2, SameCall DEF AddressBytes
<1>4. CASE BusFree
  <2>1. at = "bus_free" /\ frame' = fn /\ at' \in {"put", "stop"}
    BY <1>4 DEF BusFree
  <2>2. Busy /\ fn = Request /\ fn.call = calls /\ frame'.call = calls
    BY <2>1, AskedFrame
  <2>3. CallInv'
    BY <1>1, <1>2, <1>3, <2>1, <2>2 DEF CallInv
  <2>4. /\ addr \in Nat /\ len \in Nat \ {0} /\ calls \in Nat /\ op.addr \in Nat
        /\ addr >= op.addr /\ op.kind \in {"read", "write"}
    BY <1>1, <2>2 DEF LoopTypes, Ops
  <2>5. ReadFrame.send = AddressBytes
    BY <2>4, FrameBytes
  <2>6. OwnFrame'
    BY <1>2, <1>3, <2>1, <2>2, <2>4, <2>5 DEF OwnFrame, Request
  <2>7. QED
    BY <2>3, <2>6
<1>5. CASE ~BusFree
  <2>1. /\ UNCHANGED frame
        /\ at' \in {"idle", "bus_free"} /\ rc' = "none" =>
             at \in {"idle", "bus_free"} /\ rc = "none"
        /\ at = "idle" /\ rc = "none" => at' = "idle" /\ rc' = "none"
    BY <1>5, MovesFrame
  <2>2. frame.call # calls => before' = mem'
    BY DEF BusMoves
  <2>3. CallInv'
    BY <1>1, <1>2, <1>3, <2>1, <2>2 DEF CallInv
  <2>4. OwnFrame'
    BY <1>1, <1>2, <1>3, <2>1 DEF OwnFrame
  <2>5. QED
    BY <2>3, <2>4
<1>6. QED
  BY <1>4, <1>5

\* A write lands as far as its frames have been carried.
LEMMA MovesMem ==
  ASSUME Inv, BusMoves
  PROVE  MemInv'
<1> SUFFICES ASSUME op.kind = "write", frame'.call = calls
             PROVE  MemInv'
  <2>1. op' = op /\ calls' = calls
    BY DEF BusMoves
  <2>2. QED
    BY <2>1 DEF MemInv
<1>1. MemInv /\ CallInv /\ OwnFrame /\ LoopTypes /\ PlaceInv /\ StopInv /\ BytesInv
  BY DEF Inv
<1>2. UNCHANGED <<op, addr, len, buf, tries, calls, fn>>
  BY MovesFrame
<1>3. /\ WriteFrame' = WriteFrame /\ Poll' = Poll
      /\ Landed' = Landed /\ WriteChunk' = WriteChunk
  BY <1>2, SameCall
<1>4. /\ moved \in Nat /\ AddrBytes \in Nat \ {0} /\ tries \in Nat /\ Landed \in Nat
      /\ addr \in Nat /\ len \in Nat /\ calls \in Nat /\ op.addr \in Nat /\ addr >= op.addr
  BY <1>1, GeometryAssumption DEF Inv, BusTypes, LoopTypes, Ops, Landed
<1>5. Landed + 0 = Landed /\ WriteChunk \in Int
  BY <1>4, GeometryAssumption DEF WriteChunk, Smaller
<1>6. CASE BusFree
  <2>1. /\ at = "bus_free" /\ rc = "none" /\ Busy /\ fn = Request /\ len > 0
        /\ frame' = Request /\ bus' = "addr" /\ rc' = "none" /\ mem' = mem
        /\ at' = IF fn.send = << >> THEN "stop" ELSE "put"
    BY <1>1, <1>6, AskedFrame DEF BusFree, PlaceInv, chip, LoopTypes
  <2>2. before' = before
    BY <1>1, <1>6, <2>1 DEF BusMoves, CallInv
  <2>3. Overlay(Landed + WriteChunk)' = Overlay(Landed + WriteChunk)
    BY <1>2, <1>3, <2>2 DEF Overlay, Byte
  <2>4. WriteFrame # Poll /\ Len(WriteFrame.send) = AddrBytes + WriteChunk /\ WriteChunk \in 1 .. len
    BY <1>4, <2>1, FrameBytes, Chunks
  <2>5. CASE tries > 0
    <3>1. frame' = Poll
      BY <2>1, <2>5 DEF Request
    <3>2. mem = Overlay(Landed + WriteChunk)
      BY <1>1, <1>4, <2>5 DEF MemInv, CallInv
    <3>3. mem' = Overlay(Landed + WriteChunk)'
      BY <2>1, <2>3, <3>2
    <3>4. QED
      BY <1>2, <1>3, <2>4, <2>5, <3>1, <3>3 DEF MemInv
  <2>6. CASE ~(tries > 0)
    <3>1. tries = 0 /\ frame' = WriteFrame
      BY <1>4, <2>1, <2>6 DEF Request
    <3>2. mem = Overlay(Landed)
      <4>1. CASE frame.call = calls
        <5>1. frame # WriteFrame
          BY <1>1, <2>1, <3>1, <4>1 DEF OwnFrame
        <5>2. frame = Poll
          BY <1>1, <4>1, <5>1 DEF OwnFrame
        <5>3. op.rc # "ERR_TIMEOUT"
          BY <2>1 DEF Busy
        <5>4. QED
          BY <1>1, <3>1, <4>1, <5>2, <5>3 DEF MemInv
      <4>2. CASE frame.call # calls
        <5>1. mem = before /\ Landed = 0
          BY <1>1, <1>4, <4>2 DEF CallInv, Landed
        <5>2. \A x \in Addresses : ~(op.addr <= x /\ x < op.addr + Landed)
          BY <1>4, <5>1 DEF Addresses
        <5>3. before = [x \in Addresses |-> before[x]]
          BY <1>1 DEF LoopTypes
        <5>4. QED
          BY <5>1, <5>2, <5>3 DEF Overlay
      <4>3. QED
        BY <4>1, <4>2
    <3>3. mem' = Overlay(Landed)'
      BY <1>2, <1>3, <2>1, <2>2, <3>2 DEF Overlay, Byte
    <3>4. mem' = Overlay(Landed + 0)'
      BY <1>2, <1>3, <1>5, <3>3 DEF Overlay, Byte
    <3>5. WriteFrame.send # << >> /\ fn = WriteFrame
      <4>1. WriteFrame.send # << >>
        BY <1>4, <2>4
      <4>2. QED
        BY <2>1, <3>1, <4>1
    <3>6. at' = "put" /\ op.rc # "ERR_TIMEOUT" /\ 0 \in 0 .. WriteChunk
      BY <2>1, <2>4, <3>5 DEF Busy
    <3>7. \E m \in 0 .. WriteChunk' : mem' = Overlay(Landed + m)'
      BY <1>3, <3>4, <3>6
    <3>8. QED
      BY <1>2, <1>3, <2>1, <2>4, <3>1, <3>3, <3>6, <3>7 DEF MemInv
  <2>7. QED
    BY <2>5, <2>6
<1>7. CASE ~BusFree
  <2>1. frame' = frame /\ frame.call = calls /\ before' = before /\ (bus = "free" => bus' = "free")
    BY <1>7, MovesFrame DEF BusMoves
  <2>2. /\ Overlay(Landed)' = Overlay(Landed)
        /\ Overlay(Landed + WriteChunk)' = Overlay(Landed + WriteChunk)
        /\ \A m \in 0 .. WriteChunk : Overlay(Landed + m)' = Overlay(Landed + m)
    BY <1>2, <1>3, <2>1 DEF Overlay, Byte
  <2>3. CASE HwStop
    <3>1. /\ bus' = "free" /\ stp' = "none" /\ UNCHANGED <<at, rc, NO_ACK>>
          /\ (stp = "queued" /\ (NO_ACK \/ Complete)) \/ stp = "forced"
      BY <2>3 DEF HwStop, code
    <3>2. at = "stop" => stp = "queued" /\ (NO_ACK = TRUE \/ Complete)
      BY <1>1, <3>1 DEF StopInv, Inv, BusFlags
    <3>3. frame = Poll => ~(bus = "send" /\ moved > AddrBytes)
      <4>1. Len(Poll.send) = 0
        BY DEF Poll, Frame
      <4>2. bus = "send" => moved <= Len(frame.send)
        BY <1>1 DEF BytesInv
      <4>3. QED
        BY <1>4, <4>1, <4>2
    <3>4. CASE bus = "send" /\ moved > AddrBytes /\ mem' = Programmed(moved - AddrBytes)
      <4>1. frame = WriteFrame
        BY <1>1, <2>1, <3>3, <3>4 DEF OwnFrame
      <4>2. len > 0 /\ mem = Overlay(Landed) /\ tries = 0 /\ op.rc # "ERR_TIMEOUT" /\ rc # "OK"
        BY <1>1, <2>1, <3>4, <4>1 DEF OwnFrame, MemInv, StopInv
      <4>3. /\ Len(frame.send) = AddrBytes + WriteChunk /\ WriteFrame # Poll
            /\ WriteChunk \in 1 .. len
        BY <1>4, <4>1, <4>2, FrameBytes, Chunks
      <4>4. moved <= AddrBytes + WriteChunk
        BY <1>1, <3>4, <4>3 DEF BytesInv
      <4>5. moved - AddrBytes \in 0 .. WriteChunk
        BY <1>4, <3>4, <4>3, <4>4
      <4>6. mem' = Overlay(Landed + (moved - AddrBytes))
        BY <1>1, <3>4, <4>1, <4>2, <4>5, Landing
      <4>7. \E m \in 0 .. WriteChunk : mem' = Overlay(Landed + m)
        BY <4>5, <4>6
      <4>8. \E m \in 0 .. WriteChunk' : mem' = Overlay(Landed + m)'
        BY <1>3, <2>2, <4>7
      <4>9. at = "stop" /\ NO_ACK = FALSE => mem' = Overlay(Landed + WriteChunk)
        <5> SUFFICES ASSUME at = "stop", NO_ACK = FALSE
                     PROVE  mem' = Overlay(Landed + WriteChunk)
          OBVIOUS
        <5>1. Complete
          BY <3>2
        <5>2. moved = AddrBytes + WriteChunk
          BY <3>4, <4>3, <5>1 DEF Complete
        <5>3. moved - AddrBytes = WriteChunk
          BY <1>4, <4>3, <5>2
        <5>4. QED
          BY <4>6, <5>3
      <4>10. QED
        BY <1>2, <1>3, <2>1, <2>2, <3>1, <4>1, <4>2, <4>3, <4>8, <4>9 DEF MemInv
    <3>5. CASE /\ ~(bus = "send" /\ moved > AddrBytes /\ Complete /\ ~NO_ACK)
               /\ mem' = mem
      <4>1. ~(frame = WriteFrame /\ at = "stop" /\ NO_ACK = FALSE)
        <5> SUFFICES ASSUME frame = WriteFrame, at = "stop", NO_ACK = FALSE PROVE FALSE
          OBVIOUS
        <5>1. Complete
          BY <3>2
        <5>2. len > 0
          BY <1>1, <2>1 DEF OwnFrame
        <5>3. /\ Len(frame.send) = AddrBytes + WriteChunk /\ WriteChunk \in 1 .. len
              /\ frame.read = 0
          BY <1>4, <5>2, FrameBytes, Chunks
        <5>4. frame = fn /\ ~Read
          BY <1>1, <5>3 DEF PlaceInv, Read
        <5>5. bus # "recv"
          BY <1>1, <5>4 DEF StopInv
        <5>6. bus = "send" /\ moved = AddrBytes + WriteChunk
          BY <5>1, <5>3, <5>5 DEF Complete
        <5>7. moved > AddrBytes
          BY <1>4, <5>3, <5>6
        <5>8. QED
          BY <3>5, <5>1, <5>6, <5>7
      <4>2. QED
        BY <1>1, <1>2, <1>3, <2>1, <2>2, <3>1, <3>5, <4>1 DEF MemInv
    <3>6. QED
      BY <2>3, <3>4, <3>5 DEF HwStop, chip
  <2>4. CASE ~HwStop
    <3>1. mem' = mem
      BY <1>7, <2>4 DEF BusMoves, i2ca, BusNeverFree, AbortReturns, Put, PutTimeout, Ardy,
         ArdyTimeout, Get, GetTimeout, StopDone, StopTimeout, Hardware, HwAddress, HwSend,
         HwReceive, CycleEnds, Hang, Unhang, Abort, chip
    <3>2. ASSUME frame = WriteFrame,
                 rc' = "OK" \/ (at' = "stop" /\ stp' = "none" /\ NO_ACK' = FALSE)
          PROVE  rc = "OK" \/ (at = "stop" /\ stp = "none" /\ NO_ACK = FALSE)
      <4>1. frame.read = 0 /\ (at \in {"put", "get", "ardy", "stop"} => ~Read)
        <5>1. frame.read = 0
          BY <3>2 DEF WriteFrame, Frame
        <5>2. QED
          BY <1>1, <5>1 DEF PlaceInv, Read
      <4>2. CASE i2ca
        <5>1. ASSUME Abort("IO") \/ Abort("NACK") \/ AbortReturns \/ BusNeverFree
              PROVE  FALSE
          BY <3>2, <5>1, <1>1 DEF Abort, AbortReturns, BusNeverFree, Return, PlaceInv
        <5>2. ~Get /\ ~Ardy
          BY <1>1, <4>1 DEF Get, Ardy, StopInv
        <5>3. CASE Put
          <6>1. at = "put" /\ NO_ACK = FALSE /\ stp' = stp /\ rc' = rc
            BY <5>1, <5>3 DEF Put, Inv, BusFlags
          <6>2. stp = "queued"
            BY <1>1, <4>1, <6>1 DEF StopInv
          <6>3. QED
            BY <3>2, <6>1, <6>2
        <5>4. CASE StopDone
          <6>1. at = "stop" /\ stp = "none" /\ at' = "idle"
            BY <5>4 DEF StopDone, Return
          <6>2. NO_ACK = FALSE
            BY <3>2, <4>1, <5>4, <6>1 DEF StopDone, Return, Inv, BusFlags
          <6>3. QED
            BY <6>1, <6>2
        <5>5. QED
          BY <1>7, <4>2, <5>1, <5>2, <5>3, <5>4 DEF i2ca, PutTimeout, ArdyTimeout, GetTimeout,
             StopTimeout
      <4>3. CASE Hardware \/ CycleEnds \/ Hang \/ Unhang
        <5>1. /\ UNCHANGED <<at, rc, stp>> /\ (NO_ACK' = FALSE => NO_ACK = FALSE)
          BY <2>4, <4>3 DEF Hardware, HwAddress, HwSend, HwReceive, CycleEnds, Hang, Unhang, code,
             regs, Acknowledged, NotAcknowledged
        <5>2. QED
          BY <3>2, <5>1
      <4>4. QED
        BY <4>2, <4>3 DEF BusMoves
    <3>3. QED
      BY <1>1, <1>2, <1>3, <2>1, <2>2, <3>1, <3>2 DEF MemInv
  <2>5. QED
    BY <2>3, <2>4
<1>8. QED
  BY <1>6, <1>7

\* One byte is put behind those read so far.
LEMMA OneMoreByte ==
  ASSUME NEW s \in Seq(Values), NEW d \in Seq(Values), Len(d) <= 1, d # << >>
  PROVE  /\ Len(d) = 1 /\ Len(s \o d) = Len(s) + 1
         /\ \A k \in 1 .. Len(s) + 1 : (s \o d)[k] = IF k <= Len(s) THEN s[k] ELSE d[1]
<1>1. Len(d) = 1 /\ Len(s) \in Nat
  <2>1. Len(d) \in Nat /\ Len(s) \in Nat /\ Len(d) # 0
    BY EmptySeq
  <2>2. QED
    BY <2>1
<1>2. /\ Len(s \o d) = Len(s) + Len(d)
      /\ \A k \in 1 .. Len(s) + Len(d) : (s \o d)[k] = IF k <= Len(s) THEN s[k] ELSE d[k - Len(s)]
  BY ConcatProperties
<1>3. \A k \in 1 .. Len(s) + 1 : ~(k <= Len(s)) => k - Len(s) = 1
  BY <1>1
<1>4. QED
  BY <1>1, <1>2, <1>3

\* A read delivers its bytes in order, and its frames write nothing.
LEMMA MovesRead ==
  ASSUME Inv, BusMoves
  PROVE  ReadInv'
<1> SUFFICES ASSUME op.kind = "read", stale' = FALSE
             PROVE  ReadInv'
  <2>1. op' = op /\ stale' \in {stale, TRUE} \cup BOOLEAN
    BY DEF BusMoves
  <2>2. QED
    BY <2>1 DEF ReadInv, BusMoves
<1>1. /\ CallInv /\ OwnFrame /\ LoopTypes /\ PlaceInv /\ StopInv /\ BytesInv /\ BusTypes
      /\ ReadInv
  BY DEF Inv
<1>2. UNCHANGED <<op, addr, len, buf, tries, calls, fn>>
  BY MovesFrame
<1>3. ~stale
  BY DEF BusMoves
<1>4. /\ addr \in Nat /\ len \in Nat /\ calls \in Nat /\ op.addr \in Nat /\ addr >= op.addr
      /\ i \in Nat /\ moved \in Nat /\ AddrBytes \in Nat
  BY <1>1, GeometryAssumption DEF LoopTypes, Ops, BusTypes
<1>5. Len(buf) = addr - op.addr /\ \A k \in 1 .. Len(buf) : buf[k] = mem[op.addr + k - 1]
  BY <1>1, <1>3 DEF ReadInv
<1>6. at # "idle" \/ rc = "OK" =>
        /\ Busy /\ len > 0 /\ fn = ReadFrame /\ fn.addr = addr /\ fn.call = calls
        /\ fn.send = AddressBytes /\ Len(fn.send) = AddrBytes /\ AddrBytes > 0
        /\ fn.read = ReadChunk /\ ReadChunk \in 1 .. len
        /\ (addr % HalfSize) + ReadChunk <= HalfSize /\ addr < Size
  <2> SUFFICES ASSUME at # "idle" \/ rc = "OK"
               PROVE  /\ Busy /\ len > 0 /\ fn = ReadFrame /\ fn.addr = addr /\ fn.call = calls
                      /\ fn.send = AddressBytes /\ Len(fn.send) = AddrBytes /\ AddrBytes > 0
                      /\ fn.read = ReadChunk /\ ReadChunk \in 1 .. len
                      /\ (addr % HalfSize) + ReadChunk <= HalfSize /\ addr < Size
    OBVIOUS
  <2>1. Busy /\ fn = Request /\ len > 0 /\ addr + len <= Size
    BY <1>1 DEF LoopTypes, CallInv
  <2>2. fn = ReadFrame
    BY <2>1 DEF Request
  <2>3. Size \in Nat
    BY GeometryAssumption
  <2>4. len \in Nat \ {0}
    BY <1>4, <2>1
  <2>5. /\ fn.addr = addr /\ fn.call = calls
        /\ fn.send = AddressBytes /\ Len(fn.send) = AddrBytes /\ AddrBytes > 0
        /\ fn.read = ReadChunk
    BY <1>4, <2>2, <2>4, FrameBytes
  <2>6. ReadChunk \in 1 .. len /\ (addr % HalfSize) + ReadChunk <= HalfSize
    BY <1>4, <2>4, Chunks
  <2>7. addr < Size
    BY <1>4, <2>1, <2>3, <2>4
  <2>8. QED
    BY <2>1, <2>2, <2>5, <2>6, <2>7
<1>7. mem' = mem \/ frame.call # calls
  <2> SUFFICES ASSUME frame.call = calls
               PROVE  mem' = mem
    OBVIOUS
  <2>1. frame.send = AddressBytes
    BY <1>1 DEF OwnFrame
  <2>2. Len(AddressBytes) = AddrBytes
    BY <1>4 DEF AddressBytes
  <2>3. ~(bus = "send" /\ moved > AddrBytes)
    BY <1>1, <1>4, <2>1, <2>2 DEF BytesInv
  <2>4. QED
    BY <2>3 DEF BusMoves, i2ca, BusFree, BusNeverFree, AbortReturns, Put, PutTimeout, Ardy,
       ArdyTimeout, Get, GetTimeout, StopDone, StopTimeout, Hardware, HwAddress, HwSend,
       HwReceive, HwStop, CycleEnds, Hang, Unhang, Abort, chip
<1>8. Len(buf) = addr - op.addr /\ \A k \in 1 .. Len(buf) : buf[k] = mem'[op.addr + k - 1]
  <2>1. frame.call # calls => Len(buf) = 0
    BY <1>1 DEF CallInv
  <2>2. QED
    BY <1>5, <1>7, <2>1
<1>9. SUFFICES /\ at' \in {"put", "ardy"} => drr' = << >>
               /\ at' = "get" => moved' = i' + Len(drr')
                                 /\ (drr' # << >> => drr'[1] = mem'[addr + i'])
               /\ at' \in {"get", "stop"} \/ rc' = "OK" =>
                    \A k \in 1 .. Len(rdata') : rdata'[k] = mem'[addr + k - 1]
  BY <1>2, <1>8 DEF ReadInv
<1>10. CASE BusFree
  <2>1. at = "bus_free" /\ rc' = "none" /\ bus' = "addr" /\ drr' = drr
        /\ at' = IF fn.send = << >> THEN "stop" ELSE "put"
    BY <1>1, <1>10 DEF BusFree, PlaceInv
  <2>2. drr = << >>
    BY <2>1 DEF BusMoves
  <2>3. fn.send # << >>
    BY <1>6, <2>1
  <2>4. QED
    BY <2>1, <2>2, <2>3
<1>11. CASE ~BusFree
  <2>1. frame' = frame
    BY <1>11, MovesFrame
  <2>2. at \in {"put", "ardy", "get", "stop"} \/ rc = "OK" => mem' = mem /\ frame = fn
    <3> SUFFICES ASSUME at \in {"put", "ardy", "get", "stop"} \/ rc = "OK"
                 PROVE  mem' = mem /\ frame = fn
      OBVIOUS
    <3>1. frame = fn /\ fn.call = calls
      BY <1>1, <1>6 DEF PlaceInv
    <3>2. QED
      BY <1>7, <3>1
  <2>3. /\ at \in {"put", "ardy"} => drr = << >>
        /\ at = "get" => moved = i + Len(drr) /\ (drr # << >> => drr[1] = mem[addr + i])
        /\ at \in {"get", "stop"} \/ rc = "OK" =>
             \A k \in 1 .. Len(rdata) : rdata[k] = mem[addr + k - 1]
    BY <1>1, <1>3 DEF ReadInv
  <2>4. CASE \/ BusNeverFree \/ AbortReturns \/ Abort("NACK") \/ Abort("IO") \/ StopDone
             \/ (Put /\ ~Abort("NACK"))
    <3>1. /\ at' = "put" => at = "put"
          /\ at' = "ardy" => at = "put"
          /\ at' # "get"
          /\ at' = "stop" => FALSE
          /\ rc' = "OK" => rc = "OK" \/ at = "stop"
          /\ UNCHANGED <<drr, rdata>>
      <4>1. at = "put" => Read
        BY <1>6 DEF Read
      <4>2. QED
        BY <2>4, <4>1 DEF BusNeverFree, AbortReturns, Abort, StopDone, Return, Put, regs
    <3>2. QED
      BY <2>2, <2>3, <3>1
  <2>5. CASE Ardy /\ ~Abort("NACK")
    <3>1. /\ at = "ardy" /\ at' = "get" /\ moved' = 0 /\ i' = 0
          /\ UNCHANGED <<drr, rdata, rc>>
      BY <2>5 DEF Ardy
    <3>2. drr = << >> /\ rdata = << >> /\ rc = "none"
      BY <1>1, <2>3, <3>1 DEF PlaceInv
    <3>3. Len(drr') = 0 /\ Len(rdata') = 0
      BY <3>1, <3>2
    <3>4. QED
      BY <3>1, <3>2, <3>3
  <2>6. CASE Get
    <3>1. /\ at = "get" /\ drr # << >> /\ rdata' = rdata \o drr /\ drr' = << >> /\ i' = i + 1
          /\ at' \in {"get", "stop"} /\ UNCHANGED <<rc, moved>>
      BY <2>6 DEF Get
    <3>2. /\ rdata \in Seq(Values) /\ drr \in Seq(Values) /\ Len(drr) = 1 /\ Len(rdata) = i
          /\ drr[1] = mem[addr + i] /\ moved = i + 1 /\ mem' = mem /\ rc = "none"
      <4>1. rdata \in Seq(Values) /\ drr \in Seq(Values) /\ Len(drr) <= 1
        BY <1>1 DEF BusTypes
      <4>2. drr # << >>
        BY <3>1
      <4>4. Len(drr) = 1
        BY <4>1, <4>2, OneMoreByte
      <4>3. QED
        BY <1>1, <2>2, <2>3, <3>1, <4>1, <4>4 DEF PlaceInv
    <3>3. /\ Len(rdata') = i + 1
          /\ \A k \in 1 .. i + 1 : rdata'[k] = IF k <= i THEN rdata[k] ELSE drr[1]
      <4>1. rdata' = rdata \o drr /\ drr # << >>
        BY <3>1
      <4>2. rdata \in Seq(Values) /\ drr \in Seq(Values) /\ Len(drr) <= 1 /\ Len(rdata) = i
        BY <3>2
      <4>3. QED
        BY <4>1, <4>2, OneMoreByte
    <3>4. \A k \in 1 .. Len(rdata') : rdata'[k] = mem'[addr + k - 1]
      <4> SUFFICES ASSUME NEW k \in 1 .. i + 1
                   PROVE  rdata'[k] = mem[addr + k - 1]
        BY <3>2, <3>3
      <4>1. CASE k <= i
        <5>1. k \in 1 .. Len(rdata)
          BY <3>2, <4>1
        <5>2. QED
          BY <2>3, <3>1, <3>3, <4>1, <5>1
      <4>2. CASE ~(k <= i)
        <5>1. k = i + 1 /\ addr + k - 1 = addr + i
          BY <1>4, <4>2
        <5>2. rdata'[k] = drr[1]
          BY <3>3, <4>2
        <5>3. QED
          BY <3>2, <5>1, <5>2
      <4>3. QED
        BY <4>1, <4>2
    <3>5. Len(drr') = 0
      BY <3>1
    <3>6. QED
      BY <1>4, <3>1, <3>2, <3>4, <3>5
  <2>7. CASE HwReceive
    <3>1. /\ bus = "recv" /\ drr = << >> /\ moved < frame.read
          /\ drr' = <<mem[ReadFrom(frame.addr, moved)]>> /\ moved' = moved + 1
          /\ UNCHANGED <<at, i, rc, rdata>> /\ mem' = mem
      BY <2>7 DEF HwReceive, code, chip
    <3>2. at \notin {"put", "ardy"}
      <4>1. at \in {"put", "ardy"} => Read
        BY <1>6 DEF Read
      <4>2. QED
        BY <1>1, <3>1, <4>1 DEF StopInv
    <3>3. CASE at = "get"
      <4>1. moved = i /\ frame = fn
        <5>1. Len(drr) = 0
          BY <3>1
        <5>2. QED
          BY <1>4, <2>2, <2>3, <3>3, <5>1
      <4>2. (addr % HalfSize) + moved < HalfSize
        <5>1. HalfSize \in Nat \ {0} /\ addr % HalfSize \in Nat
          BY <1>4, GeometryAssumption
        <5>2. QED
          BY <1>4, <1>6, <3>1, <3>3, <4>1, <5>1
      <4>3. ReadFrom(frame.addr, moved) = addr + i
        BY <1>4, <1>6, <3>3, <4>1, <4>2, ReadLands
      <4>4. Len(drr') = 1 /\ drr'[1] = mem[addr + i]
        BY <3>1, <4>3
      <4>5. QED
        BY <1>4, <2>3, <3>1, <3>3, <4>1, <4>4
    <3>4. CASE at # "get"
      BY <2>3, <3>1, <3>2, <3>4
    <3>5. QED
      BY <3>3, <3>4
  <2>8. CASE (Hardware /\ ~HwReceive) \/ CycleEnds \/ Hang \/ Unhang
    <3>1. UNCHANGED <<at, i, rc, rdata, drr>>
      BY <2>8 DEF Hardware, HwAddress, HwSend, HwStop, CycleEnds, Hang, Unhang, code, regs
    <3>2. at = "get" => moved' = moved
      <4>1. at = "get" => bus # "send"
        BY <1>1 DEF StopInv
      <4>2. QED
        BY <2>8, <4>1 DEF Hardware, HwAddress, HwSend, HwStop, CycleEnds, Hang, Unhang, code, regs
    <3>3. QED
      BY <2>2, <2>3, <3>1, <3>2
  <2>9. QED
    BY <1>11, <2>4, <2>5, <2>6, <2>7, <2>8
       DEF BusMoves, i2ca, PutTimeout, ArdyTimeout, GetTimeout, StopTimeout, Put, Ardy
<1>12. QED
  BY <1>10, <1>11

\* Whatever happens on the bus.
LEMMA MovesInv ==
  ASSUME Inv, BusMoves
  PROVE  Inv'
BY MovesTypes, MovesPlace, MovesBytes, MovesStop, MovesLoop, MovesCall, MovesMem, MovesRead
   DEF Inv

-----------------------------------------------------------------------------
(* What the driver does.                                                   *)

\* The transport, the bus and the chip as they are.
LEMMA TransportKept ==
  ASSUME Inv, UNCHANGED <<fn, at, i, rdata, regs, stuck, chip>>,
         rc' = rc \/ (at = "idle" /\ rc' = "none")
  PROVE  BusTypes' /\ BusFlags' /\ PlaceInv' /\ BytesInv' /\ StopInv'
<1>1. UNCHANGED <<fn, at, i, rdata, frame, bus, moved, stp, NO_ACK, dxr, drr, stuck, mem, cycle>>
  BY DEF regs, chip
<1>2. BusTypes' /\ BusFlags'
  BY <1>1 DEF Inv, BusTypes, BusFlags
<1>3. PlaceInv'
  BY <1>1 DEF Inv, PlaceInv
<1>4. BytesInv'
  BY <1>1 DEF Inv, BytesInv
<1>5. Read' = Read
  BY <1>1 DEF Read
<1>6. StopInv'
  BY <1>1, <1>5 DEF Inv, StopInv
<1>7. QED
  BY <1>2, <1>3, <1>4, <1>6

\* The call begins: no frame of it is on the bus.
LEMMA CallBegins ==
  ASSUME Inv, NEW kind \in {"read", "write"}, NEW a \in Starts, NEW n \in Lengths,
         Call(kind, a, n)
  PROVE  Inv'
<1>1. /\ LoopTypes /\ CallInv /\ BusTypes
      /\ a \in Nat /\ n \in Nat /\ Size \in Nat /\ PollTries \in Nat
  BY CallAssumption, GeometryAssumption DEF Inv
<1>2. at = "idle" /\ rc = "none" /\ UNCHANGED i2caVars /\ mem \in [Addresses -> Values]
  BY <1>1 DEF Call, LoopTypes, BusTypes
<1>3. UNCHANGED <<at, rc, frame, mem, drr, moved, rdata, bus>>
  BY <1>2 DEF i2caVars, code, regs, chip
<1>4. BusTypes' /\ BusFlags' /\ PlaceInv' /\ BytesInv' /\ StopInv'
  BY <1>2, TransportKept DEF i2caVars, code
<1>5. /\ op'.kind = kind /\ op'.addr = a /\ op'.len = n
      /\ op'.rc \in {"OK", "running", "ERR_RANGE"}
      /\ op'.rc = "OK" => n = 0
      /\ op'.rc = "running" => n > 0 /\ a + n <= Size
      /\ op' \in Ops
      /\ addr' = a /\ len' = n /\ buf' = << >> /\ tries' = 0 /\ calls' = calls + 1
      /\ before' = mem /\ stale' = FALSE
  BY <1>1 DEF Call, Ops
<1>6. LoopTypes'
  BY <1>1, <1>2, <1>3, <1>5 DEF LoopTypes, Busy
<1>7. calls \in Nat /\ frame.call \in Nat /\ frame.call # calls'
  <2>1. calls \in Nat /\ frame.call \in Nat /\ frame.call <= calls
    BY <1>1 DEF LoopTypes, BusTypes, Frames, CallInv
  <2>2. QED
    BY <1>5, <2>1
<1>8. CallInv'
  <2>1. frame'.call <= calls' /\ frame'.call # calls'
    <3>1. frame.call <= calls + 1
      BY <1>1, <1>7 DEF CallInv
    <3>2. QED
      BY <1>3, <1>5, <1>7, <3>1
  <2>2. QED
    BY <1>2, <1>3, <1>5, <2>1 DEF CallInv
<1>9. OwnFrame' /\ MemInv'
  BY <1>3, <1>7 DEF OwnFrame, MemInv
<1>10. ReadInv'
  <2>1. Len(buf') = 0 /\ addr' - op'.addr = 0
    BY <1>1, <1>5
  <2>2. QED
    BY <1>2, <1>3, <1>5, <2>1 DEF ReadInv
<1>11. QED
  BY <1>4, <1>6, <1>8, <1>9, <1>10 DEF Inv

\* A frame is handed over.
LEMMA TransferBegins ==
  ASSUME Inv, Transfer
  PROVE  Inv'
<1>1. /\ Busy /\ at = "idle" /\ rc = "none" /\ rc' = "none" /\ fn' = Request
      /\ at' = "bus_free" /\ i' = 0 /\ rdata' = << >>
      /\ UNCHANGED <<frame, bus, moved, stp, NO_ACK, dxr, drr, stuck, mem, cycle>>
      /\ UNCHANGED <<op, addr, len, buf, tries, calls, before, stale>>
  BY DEF Transfer, i2ca_call, Request, regs, chip, loop, history
<1>2. LoopTypes /\ CallInv /\ BusTypes
  BY DEF Inv
<1>3. fn' \in Frames
  <2>1. addr \in Nat /\ len \in Nat \ {0} /\ calls \in Nat /\ op.addr \in Nat /\ addr >= op.addr
    BY <1>1, <1>2 DEF LoopTypes, Ops
  <2>2. QED
    BY <1>1, <2>1, FrameBytes DEF Request
<1>4. /\ Request' = Request /\ WriteFrame' = WriteFrame /\ Poll' = Poll
      /\ Landed' = Landed /\ WriteChunk' = WriteChunk /\ Busy' = Busy
      /\ AddressBytes' = AddressBytes
  BY <1>1, SameCall DEF AddressBytes
<1>5. BusTypes' /\ BusFlags' /\ LoopTypes'
  <2>1. BusTypes'
    BY <1>1, <1>2, <1>3 DEF BusTypes
  <2>2. BusFlags'
    BY <1>1 DEF Inv, BusFlags
  <2>3. LoopTypes'
    BY <1>1, <1>2, <1>4 DEF LoopTypes
  <2>4. QED
    BY <2>1, <2>2, <2>3
<1>6. PlaceInv'
  BY <1>1 DEF Inv, PlaceInv
<1>7. BytesInv'
  BY <1>1 DEF Inv, BytesInv
<1>8. StopInv'
  BY <1>1 DEF Inv, StopInv
<1>9. CallInv'
  BY <1>1, <1>2, <1>4 DEF CallInv
<1>10. OwnFrame'
  BY <1>1, <1>4 DEF Inv, OwnFrame
<1>11. MemInv'
  <2>1. /\ Overlay(Landed)' = Overlay(Landed)
        /\ Overlay(Landed + WriteChunk)' = Overlay(Landed + WriteChunk)
        /\ \A m \in 0 .. WriteChunk : Overlay(Landed + m)' = Overlay(Landed + m)
    BY <1>1, <1>4 DEF Overlay, Byte
  <2>2. MemInv
    BY DEF Inv
  <2>3. QED
    BY <1>1, <1>4, <2>1, <2>2 DEF MemInv
<1>12. ReadInv'
  BY <1>1 DEF Inv, ReadInv
<1>13. QED
  BY <1>5, <1>6, <1>7, <1>8, <1>9, <1>10, <1>11, <1>12 DEF Inv

\* A poll is told from a write frame, also where nothing is left to write.
LEMMA PollIsEmpty ==
  addr \in Nat /\ len \in Nat /\ calls \in Nat /\ op.addr \in Nat /\ addr >= op.addr
    => WriteFrame # Poll
<1> SUFFICES ASSUME addr \in Nat, len \in Nat, calls \in Nat, op.addr \in Nat,
                    addr >= op.addr
             PROVE  WriteFrame # Poll
  OBVIOUS
<1>1. CASE len # 0
  BY <1>1, FrameBytes
<1>2. CASE len = 0
  <2>1. AddrBytes \in Nat \ {0} /\ PageSize \in Nat \ {0}
    BY GeometryAssumption
  <2>2. WriteChunk = 0
    <3>1. addr % PageSize \in 0 .. PageSize - 1
      BY <2>1
    <3>2. QED
      BY <1>2, <2>1, <3>1 DEF WriteChunk, Smaller
  <2> DEFINE data == [k \in 1 .. WriteChunk |-> Byte(calls, addr - op.addr + k - 1)]
  <2>3. data \in Seq(Values)
    BY <2>2
  <2>4. AddressBytes \in Seq(Values) /\ Len(AddressBytes) = AddrBytes
    BY <2>1 DEF AddressBytes, Values
  <2>5. WriteFrame.send = AddressBytes \o data
    BY DEF WriteFrame, Frame
  <2> HIDE DEF data
  <2>6. Len(AddressBytes \o data) = Len(AddressBytes) + Len(data) /\ Len(data) \in Nat
    BY <2>3, <2>4, ConcatProperties
  <2>7. Len(WriteFrame.send) # 0
    BY <2>1, <2>4, <2>5, <2>6
  <2>8. Len(Poll.send) = 0
    BY DEF Poll, Frame
  <2>9. QED
    BY <2>7, <2>8
<1>3. QED
  BY <1>1, <1>2

\* The transport has returned: the frame is off the bus when it returned OK.
LEMMA Answered ==
  ASSUME Inv, NEW r \in {"OK", "NACK", "IO"}, Returned(r)
  PROVE  /\ at = "idle" /\ rc = r /\ rc' = "none" /\ Busy /\ fn = Request
         /\ UNCHANGED <<fn, at, i, rdata, frame, bus, moved, stp, NO_ACK, dxr, drr, stuck, mem,
                        cycle, calls, before, stale>>
         /\ BusTypes' /\ BusFlags' /\ PlaceInv' /\ BytesInv' /\ StopInv'
         /\ r = "OK" => frame = Request /\ frame.call = calls /\ bus = "free"
         /\ addr \in Nat /\ len \in Nat \ {0} /\ calls \in Nat /\ op.addr \in Nat
         /\ addr >= op.addr /\ op.kind \in {"read", "write"} /\ op.rc = "running"
<1>1. /\ at = "idle" /\ rc = r /\ rc' = "none" /\ UNCHANGED <<fn, at, i, rdata, regs, stuck, chip>>
      /\ UNCHANGED <<calls, before, stale>>
  BY DEF Returned, history
<1>2. UNCHANGED <<frame, bus, moved, stp, NO_ACK, dxr, drr, mem, cycle>>
  BY <1>1 DEF regs, chip
<1>3. Busy /\ fn = Request /\ op.rc = "running"
  BY <1>1 DEF Inv, LoopTypes, CallInv, Busy
<1>4. /\ addr \in Nat /\ len \in Nat \ {0} /\ calls \in Nat /\ op.addr \in Nat
      /\ addr >= op.addr /\ op.kind \in {"read", "write"}
  BY <1>3 DEF Inv, LoopTypes, Ops
<1>5. r = "OK" => frame = Request /\ frame.call = calls /\ bus = "free"
  <2>1. r = "OK" => frame = fn /\ bus = "free"
    BY <1>1 DEF Inv, PlaceInv, StopInv
  <2>2. fn.call = calls
    BY <1>3, <1>4, FrameBytes DEF Request
  <2>3. QED
    BY <1>3, <2>1, <2>2
<1>6. BusTypes' /\ BusFlags' /\ PlaceInv' /\ BytesInv' /\ StopInv'
  BY <1>1, TransportKept
<1>7. QED
  BY <1>1, <1>2, <1>3, <1>4, <1>5, <1>6

\* The loop moves on.
LEMMA LoopAdvances ==
  ASSUME LoopTypes, Busy, NEW n \in 1 .. len, Advance(n), UNCHANGED <<calls, before>>,
         tries' \in 0 .. PollTries, buf' \in Seq(Values), at' = "idle", rc' = "none"
  PROVE  /\ LoopTypes'
         /\ op'.kind = op.kind /\ op'.addr = op.addr /\ op'.rc \in {"OK", "running"}
         /\ op'.rc = "OK" => len' = 0
         /\ addr' = addr + n /\ len' \in Nat /\ addr' \in Nat
<1>1. /\ op \in Ops /\ op.addr \in Nat /\ op.len \in Nat /\ addr \in Nat /\ len \in Nat /\ n \in Nat
      /\ n <= len /\ addr >= op.addr /\ addr + len = op.addr + op.len /\ addr + len <= Size
      /\ op.kind \in {"read", "write"} /\ Size \in Nat
  BY GeometryAssumption DEF LoopTypes, Ops
<1>2. /\ addr' = addr + n /\ len' = len - n
      /\ op' = [op EXCEPT !.rc = IF len' = 0 THEN "OK" ELSE "running"]
  BY DEF Advance, Running
<1>3. /\ op' \in Ops /\ op'.kind = op.kind /\ op'.addr = op.addr /\ op'.len = op.len
      /\ op'.rc = IF len' = 0 THEN "OK" ELSE "running"
  BY <1>1, <1>2 DEF Ops
<1>4. /\ len' \in Nat /\ addr' \in Nat /\ addr' >= op'.addr /\ addr' + len' = op'.addr + op'.len
      /\ addr' + len' <= Size
  BY <1>1, <1>2, <1>3
<1>5. LoopTypes'
  <2>1. op'.rc = "running" => len' > 0
    BY <1>3, <1>4
  <2>2. QED
    BY <1>1, <1>3, <1>4, <2>1 DEF LoopTypes, Busy
<1>6. QED
  BY <1>2, <1>3, <1>4, <1>5

\* A read frame: its bytes follow those of the frames before it.
LEMMA ReadAnswered ==
  ASSUME Inv, ReadFrameDone
  PROVE  Inv'
<1>1. /\ op.kind = "read" /\ Returned("OK") /\ buf' = buf \o rdata /\ Advance(ReadChunk)
      /\ tries' = tries
  BY DEF ReadFrameDone
<1>2. /\ at = "idle" /\ rc = "OK" /\ rc' = "none" /\ Busy /\ fn = Request
      /\ UNCHANGED <<fn, at, i, rdata, frame, bus, moved, drr, mem, calls, before, stale>>
      /\ BusTypes' /\ BusFlags' /\ PlaceInv' /\ BytesInv' /\ StopInv'
      /\ frame = Request /\ frame.call = calls
      /\ addr \in Nat /\ len \in Nat \ {0} /\ calls \in Nat /\ op.addr \in Nat
      /\ addr >= op.addr
  BY <1>1, Answered
<1>3. /\ LoopTypes /\ BusTypes /\ CallInv /\ OwnFrame /\ PlaceInv /\ ReadInv
      /\ rdata \in Seq(Values) /\ buf \in Seq(Values)
  BY DEF Inv, BusTypes, LoopTypes
<1>4. ReadChunk \in 1 .. len
  BY <1>2, Chunks
<1>5. frame = ReadFrame /\ frame.read = ReadChunk /\ frame = fn
  <2>1. frame = ReadFrame
    BY <1>1, <1>2 DEF Request
  <2>2. QED
    BY <1>2, <2>1, FrameBytes
<1>6. Len(rdata) = ReadChunk
  BY <1>2, <1>3, <1>5 DEF PlaceInv
<1>7. /\ buf' \in Seq(Values) /\ Len(buf') = Len(buf) + ReadChunk
      /\ \A k \in 1 .. Len(buf) + ReadChunk :
           buf'[k] = IF k <= Len(buf) THEN buf[k] ELSE rdata[k - Len(buf)]
  <2>1. /\ buf \o rdata \in Seq(Values)
        /\ Len(buf \o rdata) = Len(buf) + Len(rdata)
        /\ \A k \in 1 .. Len(buf) + Len(rdata) :
             (buf \o rdata)[k] = IF k <= Len(buf) THEN buf[k] ELSE rdata[k - Len(buf)]
    BY <1>3, ConcatProperties
  <2>2. QED
    BY <1>1, <1>6, <2>1
<1>8. /\ LoopTypes'
      /\ op'.kind = "read" /\ op'.addr = op.addr /\ op'.rc \in {"OK", "running"}
      /\ op'.rc = "OK" => len' = 0
      /\ addr' = addr + ReadChunk /\ len' \in Nat /\ addr' \in Nat
  <2>1. tries' \in 0 .. PollTries
    BY <1>1, <1>3 DEF LoopTypes
  <2>2. QED
    BY <1>1, <1>2, <1>3, <1>4, <1>7, <2>1, LoopAdvances
<1>9. CallInv'
  <2>1. op.kind = "read" => tries = 0
    BY <1>3 DEF CallInv
  <2>2. frame.call <= calls
    BY <1>3 DEF CallInv
  <2>3. QED
    BY <1>1, <1>2, <1>8, <2>1, <2>2 DEF CallInv
<1>10. OwnFrame' /\ MemInv'
  <2>1. frame.send = AddressBytes
    BY <1>1, <1>2, <1>3 DEF OwnFrame
  <2>2. AddressBytes' = AddressBytes
    BY DEF AddressBytes
  <2>3. QED
    BY <1>2, <1>8, <2>1, <2>2 DEF OwnFrame, MemInv
<1>11. ASSUME Len(buf) = addr - op.addr, NEW k \in 1 .. Len(buf) + ReadChunk, ~(k <= Len(buf))
       PROVE  k - Len(buf) \in 1 .. Len(rdata) /\ addr + (k - Len(buf)) - 1 = op.addr + k - 1
  <2> DEFINE b == Len(buf)
  <2>1. /\ addr \in Nat /\ op.addr \in Nat /\ ReadChunk \in Nat /\ Len(rdata) = ReadChunk
    BY <1>2, <1>4, <1>6
  <2>2. b \in Nat /\ b = addr - op.addr /\ k \in 1 .. b + ReadChunk /\ ~(k <= b)
    BY <1>3, <1>11
  <2> HIDE DEF b
  <2>3. k - b \in 1 .. ReadChunk
    <3>1. k \in Nat /\ k <= b + ReadChunk
      BY <2>1, <2>2
    <3>2. k > b
      BY <3>1, <2>2
    <3>3. QED
      BY <2>1, <2>2, <3>1, <3>2
  <2>5. addr + (k - b) - 1 = op.addr + k - 1
    <3> DEFINE o == op.addr
    <3>1. k \in Nat /\ b \in Nat /\ o \in Nat /\ addr \in Nat /\ b = addr - o
      BY <2>1, <2>2
    <3> HIDE DEF o
    <3>2. addr = b + o
      BY <3>1
    <3>3. addr + (k - b) - 1 = o + k - 1
      BY <3>1, <3>2
    <3>4. QED
      BY <3>3 DEF o
  <2>4. QED
    BY <2>1, <2>3, <2>5 DEF b
<1>12. ReadInv'
  <2> SUFFICES ASSUME ~stale
               PROVE  /\ Len(buf') = addr' - op'.addr
                      /\ \A k \in 1 .. Len(buf') : buf'[k] = mem'[op'.addr + k - 1]
    BY <1>2 DEF ReadInv
  <2>1. /\ Len(buf) = addr - op.addr
        /\ \A k \in 1 .. Len(buf) : buf[k] = mem[op.addr + k - 1]
        /\ \A k \in 1 .. Len(rdata) : rdata[k] = mem[addr + k - 1]
    BY <1>1, <1>2, <1>3 DEF ReadInv
  <2>2. Len(buf') = addr' - op'.addr
    BY <1>2, <1>4, <1>7, <1>8, <2>1
  <2>3. ASSUME NEW k \in 1 .. Len(buf) + ReadChunk
        PROVE  buf'[k] = mem[op.addr + k - 1]
    <3>1. CASE k <= Len(buf)
      <4>1. k \in 1 .. Len(buf)
        BY <2>1, <3>1
      <4>2. QED
        BY <1>7, <2>1, <3>1, <4>1
    <3>2. CASE ~(k <= Len(buf))
      <4>1. /\ k - Len(buf) \in 1 .. Len(rdata)
            /\ addr + (k - Len(buf)) - 1 = op.addr + k - 1
        BY <1>11, <2>1, <3>2
      <4>2. rdata[k - Len(buf)] = mem[addr + (k - Len(buf)) - 1]
        BY <2>1, <4>1
      <4>3. QED
        BY <1>7, <3>2, <4>1, <4>2
    <3>3. QED
      BY <3>1, <3>2
  <2>4. QED
    BY <1>2, <1>7, <1>8, <2>2, <2>3
<1>13. QED
  BY <1>2, <1>8, <1>9, <1>10, <1>12 DEF Inv

\* A write frame: all of its bytes are in the memory, and the polling begins.
LEMMA WriteAnswered ==
  ASSUME Inv, WriteFrameDone
  PROVE  Inv'
<1>1. /\ op.kind = "write" /\ tries = 0 /\ Returned("OK") /\ tries' = PollTries
      /\ UNCHANGED <<op, addr, len, buf>>
  BY DEF WriteFrameDone
<1>2. /\ at = "idle" /\ rc = "OK" /\ rc' = "none" /\ Busy /\ fn = Request
      /\ UNCHANGED <<fn, at, i, rdata, frame, bus, moved, stp, NO_ACK, drr, mem, calls, before,
                     stale>>
      /\ BusTypes' /\ BusFlags' /\ PlaceInv' /\ BytesInv' /\ StopInv'
      /\ frame = Request /\ frame.call = calls /\ bus = "free"
  BY <1>1, Answered
<1>3. LoopTypes /\ CallInv /\ MemInv /\ PollTries \in Nat \ {0}
  BY CallAssumption DEF Inv
<1>4. /\ WriteFrame' = WriteFrame /\ Poll' = Poll /\ Landed' = Landed /\ WriteChunk' = WriteChunk
      /\ Busy' = Busy
  BY <1>1, <1>2 DEF WriteFrame, Poll, Landed, WriteChunk, Smaller, Frame, AddressBytes, Byte, Busy
<1>5. frame = WriteFrame
  BY <1>1, <1>2 DEF Request
<1>6. LoopTypes'
  BY <1>1, <1>2, <1>3, <1>4 DEF LoopTypes
<1>7. CallInv'
  BY <1>1, <1>2, <1>3, <1>4 DEF CallInv
<1>8. OwnFrame'
  BY <1>1, <1>2, <1>3, <1>4, <1>5 DEF OwnFrame, LoopTypes
<1>9. MemInv'
  <2>1. /\ Overlay(Landed + WriteChunk)' = Overlay(Landed + WriteChunk)
        /\ \A m \in 0 .. WriteChunk : Overlay(Landed + m)' = Overlay(Landed + m)
    BY <1>1, <1>2, <1>4 DEF Overlay, Byte
  <2>2. /\ mem = Overlay(Landed + WriteChunk)
        /\ \E m \in 0 .. WriteChunk : mem = Overlay(Landed + m)
    BY <1>1, <1>2, <1>3, <1>5 DEF MemInv
  <2>3. tries' # 0
    BY <1>1, <1>3
  <2>4. QED
    BY <1>1, <1>2, <1>4, <2>1, <2>2, <2>3 DEF MemInv
<1>10. ReadInv'
  BY <1>1 DEF ReadInv
<1>11. QED
  BY <1>2, <1>6, <1>7, <1>8, <1>9, <1>10 DEF Inv

\* A frame that failed ends the call, wherever its bytes are.
LEMMA FailureAnswered ==
  ASSUME Inv, FrameFails
  PROVE  Inv'
<1>1. PICK r \in {"NACK", "IO"} : Returned(r)
  BY DEF FrameFails
<1>2. /\ at = "idle" /\ rc = r /\ rc' = "none" /\ Busy /\ op.rc = "running"
      /\ UNCHANGED <<fn, at, i, rdata, frame, bus, moved, stp, NO_ACK, drr, mem, calls, before,
                     stale>>
      /\ BusTypes' /\ BusFlags' /\ PlaceInv' /\ BytesInv' /\ StopInv'
  BY <1>1, Answered
<1>3. /\ tries = 0 /\ UNCHANGED <<addr, len, buf, tries>>
      /\ \E e \in {"ERR_WRITE_PROTECT", "ERR_NACK", "ERR_IO"} : op' = [op EXCEPT !.rc = e]
  BY DEF FrameFails, Running, loop
<1>4. LoopTypes /\ CallInv /\ OwnFrame /\ MemInv /\ ReadInv /\ op \in Ops
  BY DEF Inv, LoopTypes
<1>5. /\ op' \in Ops /\ op'.kind = op.kind /\ op'.addr = op.addr /\ op'.len = op.len
      /\ op'.rc \in {"ERR_WRITE_PROTECT", "ERR_NACK", "ERR_IO"}
  BY <1>3, <1>4 DEF Ops
<1>6. /\ WriteFrame' = WriteFrame /\ Poll' = Poll /\ Landed' = Landed /\ WriteChunk' = WriteChunk
      /\ AddressBytes' = AddressBytes
  BY <1>2, <1>3, <1>5
     DEF WriteFrame, Poll, Landed, WriteChunk, Smaller, Frame, AddressBytes, Byte
<1>7. LoopTypes'
  BY <1>2, <1>3, <1>4, <1>5 DEF LoopTypes, Busy
<1>8. CallInv'
  BY <1>2, <1>3, <1>4, <1>5 DEF CallInv, Busy
<1>9. OwnFrame'
  BY <1>2, <1>3, <1>4, <1>5, <1>6 DEF OwnFrame, Busy
<1>10. MemInv'
  <2>1. /\ Overlay(Landed)' = Overlay(Landed)
        /\ Overlay(Landed + WriteChunk)' = Overlay(Landed + WriteChunk)
        /\ \A m \in 0 .. WriteChunk : Overlay(Landed + m)' = Overlay(Landed + m)
    BY <1>2, <1>5, <1>6 DEF Overlay, Byte
  <2>2. QED
    BY <1>2, <1>3, <1>4, <1>5, <1>6, <2>1 DEF MemInv
<1>11. ReadInv'
  BY <1>2, <1>3, <1>4, <1>5 DEF ReadInv
<1>12. QED
  BY <1>2, <1>7, <1>8, <1>9, <1>10, <1>11 DEF Inv

\* The chip answers again: the chunk is done.
LEMMA PollAnswered ==
  ASSUME Inv, PollAck
  PROVE  Inv'
<1>1. tries > 0 /\ Returned("OK") /\ tries' = 0 /\ Advance(WriteChunk) /\ buf' = buf
  BY DEF PollAck
<1>2. /\ at = "idle" /\ rc = "OK" /\ rc' = "none" /\ Busy /\ fn = Request /\ op.rc = "running"
      /\ UNCHANGED <<fn, at, i, rdata, frame, bus, moved, stp, NO_ACK, drr, mem, calls, before,
                     stale>>
      /\ BusTypes' /\ BusFlags' /\ PlaceInv' /\ BytesInv' /\ StopInv'
      /\ frame = Request /\ frame.call = calls
      /\ addr \in Nat /\ len \in Nat \ {0} /\ calls \in Nat /\ op.addr \in Nat
      /\ addr >= op.addr /\ op.kind \in {"read", "write"}
  BY <1>1, Answered
<1>3. LoopTypes /\ CallInv /\ MemInv
  BY DEF Inv
<1>4. op.kind = "write"
  <2>1. op.kind = "read" => tries = 0
    BY <1>3 DEF CallInv
  <2>2. QED
    BY <1>1, <1>2, <2>1
<1>5. frame = Poll
  BY <1>1, <1>2, <1>4 DEF Request
<1>6. WriteChunk \in 1 .. len
  BY <1>2, Chunks
<1>7. /\ LoopTypes'
      /\ op'.kind = "write" /\ op'.addr = op.addr /\ op'.rc \in {"OK", "running"}
      /\ op'.rc = "OK" => len' = 0
      /\ addr' = addr + WriteChunk /\ len' \in Nat /\ addr' \in Nat
  <2>1. tries' \in 0 .. PollTries /\ buf' \in Seq(Values)
    BY <1>1, <1>3, CallAssumption DEF LoopTypes
  <2>2. QED
    BY <1>1, <1>2, <1>3, <1>4, <1>6, <2>1, LoopAdvances
<1>8. CallInv'
  <2>1. frame.call <= calls
    BY <1>3 DEF CallInv
  <2>2. QED
    BY <1>1, <1>2, <1>7, <2>1 DEF CallInv
<1>9. frame' = Poll' /\ Poll' # WriteFrame'
  <2>1. Poll' = Poll
    BY <1>2 DEF Poll, Frame
  <2>2. addr' >= op'.addr
    BY <1>7 DEF LoopTypes
  <2>3. /\ addr' \in Nat /\ len' \in Nat /\ calls' \in Nat /\ op'.addr \in Nat
        /\ addr' >= op'.addr
    BY <1>2, <1>7, <2>2
  <2>5. (addr \in Nat /\ len \in Nat /\ calls \in Nat /\ op.addr \in Nat /\ addr >= op.addr
           => WriteFrame # Poll)'
    BY PollIsEmpty, PTL
  <2>6. WriteFrame' # Poll'
    BY <2>3, <2>5
  <2>4. QED
    BY <1>2, <1>5, <2>1, <2>6
<1>10. OwnFrame'
  BY <1>7, <1>9 DEF OwnFrame
<1>11. MemInv'
  <2>1. mem = Overlay(Landed + WriteChunk)
    BY <1>1, <1>2, <1>3, <1>4 DEF MemInv
  <2>2. Landed' = Landed + WriteChunk
    BY <1>2, <1>6, <1>7 DEF Landed
  <2>3. Overlay(Landed)' = Overlay(Landed + WriteChunk)
    BY <1>2, <1>7, <2>2 DEF Overlay, Byte
  <2>4. QED
    BY <1>1, <1>2, <1>7, <1>9, <2>1, <2>3 DEF MemInv
<1>12. ReadInv'
  BY <1>7 DEF ReadInv
<1>13. QED
  BY <1>2, <1>7, <1>8, <1>10, <1>11, <1>12 DEF Inv

\* A poll in vain, the last of them too.
LEMMA PollInVain ==
  ASSUME Inv, PollNack
  PROVE  Inv'
<1>1. PICK r \in {"NACK", "IO"} : Returned(r)
  BY DEF PollNack
<1>2. /\ at = "idle" /\ rc = r /\ rc' = "none" /\ Busy /\ op.rc = "running"
      /\ UNCHANGED <<fn, at, i, rdata, frame, bus, moved, stp, NO_ACK, drr, mem, calls, before,
                     stale>>
      /\ BusTypes' /\ BusFlags' /\ PlaceInv' /\ BytesInv' /\ StopInv'
      /\ len \in Nat \ {0} /\ op.kind \in {"read", "write"}
  BY <1>1, Answered
<1>3. LoopTypes /\ CallInv /\ OwnFrame /\ MemInv /\ op \in Ops /\ tries \in Nat
  BY DEF Inv, LoopTypes
<1>4. /\ tries > 0 /\ tries' = tries - 1 /\ UNCHANGED <<addr, len, buf>>
      /\ \/ tries' = 0 /\ op' = [op EXCEPT !.rc = "ERR_TIMEOUT"]
         \/ tries' # 0 /\ op' = op
  BY DEF PollNack, Running
<1>5. op.kind = "write" /\ frame.call = calls
  <2>1. tries # 0
    BY <1>3, <1>4
  <2>2. QED
    BY <1>2, <1>3, <2>1 DEF CallInv
<1>6. /\ op' \in Ops /\ op'.kind = "write" /\ op'.addr = op.addr /\ op'.len = op.len
      /\ \/ tries' = 0 /\ op'.rc = "ERR_TIMEOUT"
         \/ tries' # 0 /\ op'.rc = "running"
  BY <1>2, <1>3, <1>4, <1>5 DEF Ops
<1>7. /\ WriteFrame' = WriteFrame /\ Poll' = Poll /\ Landed' = Landed /\ WriteChunk' = WriteChunk
  BY <1>2, <1>4, <1>6
     DEF WriteFrame, Poll, Landed, WriteChunk, Smaller, Frame, AddressBytes, Byte
<1>8. LoopTypes'
  <2>1. tries' \in 0 .. PollTries
    BY <1>3, <1>4, CallAssumption DEF LoopTypes
  <2>2. QED
    BY <1>2, <1>3, <1>4, <1>6, <2>1 DEF LoopTypes, Busy
<1>9. CallInv'
  <2>1. frame.call <= calls /\ len > 0
    BY <1>2, <1>3 DEF CallInv
  <2>2. QED
    BY <1>2, <1>4, <1>5, <1>6, <2>1 DEF CallInv, Busy
<1>10. OwnFrame'
  <2>1. (frame = WriteFrame \/ frame = Poll) /\ len > 0
    BY <1>2, <1>3, <1>5 DEF OwnFrame
  <2>2. QED
    BY <1>2, <1>4, <1>6, <1>7, <2>1 DEF OwnFrame, Busy
<1>11. MemInv'
  <2>1. /\ Overlay(Landed + WriteChunk)' = Overlay(Landed + WriteChunk)
        /\ \A m \in 0 .. WriteChunk : Overlay(Landed + m)' = Overlay(Landed + m)
    BY <1>2, <1>6, <1>7 DEF Overlay, Byte
  <2>2. mem = Overlay(Landed + WriteChunk)
    BY <1>3, <1>4, <1>5 DEF MemInv
  <2>3. frame = WriteFrame => bus = "free"
    <3>1. tries # 0
      BY <1>3, <1>4
    <3>2. QED
      BY <1>3, <1>5, <3>1 DEF MemInv
  <2>4. frame = WriteFrame => \E m \in 0 .. WriteChunk : mem = Overlay(Landed + m)
    BY <1>3, <1>5 DEF MemInv
  <2>5. QED
    BY <1>2, <1>4, <1>6, <1>7, <2>1, <2>2, <2>3, <2>4 DEF MemInv
<1>12. ReadInv'
  BY <1>6 DEF ReadInv
<1>13. QED
  BY <1>2, <1>8, <1>9, <1>10, <1>11, <1>12 DEF Inv

-----------------------------------------------------------------------------
(* The theorems.                                                           *)

LEMMA InitInv == Init => Inv
<1> SUFFICES ASSUME Init
             PROVE  Inv
  OBVIOUS
<1>1. /\ AddrBytes \in Nat \ {0} /\ PageSize \in Nat \ {0} /\ Size \in Nat \ {0}
      /\ PollTries \in Nat \ {0}
  BY GeometryAssumption, CallAssumption
<1>2. mem \in [Addresses -> Values]
  <2>1. \A a \in Addresses : Byte(0, a) \in Values
    BY DEF Addresses, Byte, Values
  <2>2. QED
    BY <2>1 DEF Init
<1>3. /\ frame = fn /\ fn = Frame(0, << >>, 0, 0) /\ fn \in Frames
      /\ frame.addr = 0 /\ frame.send = << >> /\ frame.read = 0 /\ frame.call = 0
      /\ Len(frame.send) = 0
  BY DEF Init, I2caInit, Frame, Frames
<1>4. /\ at = "idle" /\ i = 0 /\ rc = "none" /\ rdata = << >> /\ bus = "free" /\ moved = 0
      /\ stp = "none" /\ NO_ACK = FALSE /\ dxr = FALSE /\ drr = << >> /\ stuck = FALSE
      /\ cycle = FALSE
      /\ op = [kind |-> "none", addr |-> 0, len |-> 0, rc |-> "OK"]
      /\ addr = 0 /\ len = 0 /\ buf = << >> /\ tries = 0 /\ calls = 0 /\ before = mem
  BY DEF Init, I2caInit
<1>5. op \in Ops /\ op.rc = "OK" /\ op.kind = "none" /\ op.addr = 0 /\ op.len = 0 /\ ~Busy
  BY <1>4 DEF Ops, Busy
<1>6. BusTypes
  <2>1. Len(drr) = 0
    BY <1>4
  <2>2. QED
    BY <1>2, <1>3, <1>4, <2>1 DEF BusTypes
<1>7. BusFlags /\ PlaceInv /\ StopInv
  BY <1>3, <1>4 DEF BusFlags, PlaceInv, StopInv
<1>8. LoopTypes
  BY <1>1, <1>2, <1>4, <1>5 DEF LoopTypes
<1>9. BytesInv
  <2>1. 0 % PageSize = 0
    BY <1>1
  <2>2. QED
    BY <1>1, <1>3, <1>4, <2>1 DEF BytesInv
<1>10. CallInv /\ OwnFrame /\ MemInv /\ ReadInv
  BY <1>3, <1>4, <1>5 DEF CallInv, OwnFrame, MemInv, ReadInv
<1>11. QED
  BY <1>6, <1>7, <1>8, <1>9, <1>10 DEF Inv

LEMMA StepInv == Inv /\ [Next]_vars => Inv'
<1> SUFFICES ASSUME Inv, [Next]_vars
             PROVE  Inv'
  OBVIOUS
<1>1. CASE \E kind \in {"read", "write"}, a \in Starts, n \in Lengths : Call(kind, a, n)
  BY <1>1, CallBegins
<1>2. CASE Driver
  BY <1>2, TransferBegins, ReadAnswered, WriteAnswered, FailureAnswered, PollAnswered, PollInVain
     DEF Driver, m24m01e_wait_ready
<1>3. CASE BusMoves
  BY <1>3, MovesInv
<1>4. CASE UNCHANGED vars
  <2>1. UNCHANGED <<fn, at, i, rc, rdata, frame, bus, moved, stp, NO_ACK, dxr, drr, stuck, mem,
                    cycle, op, addr, len, buf, tries, calls, before, stale>>
    BY <1>4 DEF vars, i2caVars, code, regs, chip, loop, history
  <2>2. BusTypes' /\ BusFlags' /\ PlaceInv' /\ BytesInv' /\ StopInv'
    BY <2>1, TransportKept DEF regs, chip
  <2>3. /\ Request' = Request /\ WriteFrame' = WriteFrame /\ Poll' = Poll
        /\ Landed' = Landed /\ WriteChunk' = WriteChunk /\ Busy' = Busy
        /\ AddressBytes' = AddressBytes
    BY <2>1, SameCall DEF AddressBytes
  <2>4. LoopTypes' /\ CallInv' /\ OwnFrame' /\ ReadInv'
    BY <2>1, <2>3 DEF Inv, LoopTypes, CallInv, OwnFrame, ReadInv
  <2>5. MemInv'
    <3>1. /\ Overlay(Landed)' = Overlay(Landed)
          /\ Overlay(Landed + WriteChunk)' = Overlay(Landed + WriteChunk)
          /\ \A m \in 0 .. WriteChunk : Overlay(Landed + m)' = Overlay(Landed + m)
      BY <2>1, <2>3 DEF Overlay, Byte
    <3>2. QED
      BY <2>1, <2>3, <3>1 DEF Inv, MemInv
  <2>6. QED
    BY <2>2, <2>4, <2>5 DEF Inv
<1>5. QED
  BY <1>1, <1>2, <1>3, <1>4 DEF Next, Done

\* The inductive invariant: of the place in i2ca_ep_write() and
\* i2ca_ep_write_read(), of the frame on the bus and its STOP, and of the bytes
\* the call has written or read so far.
THEOREM DriverInvariant == Spec => []Inv
BY InitInv, StepInv, PTL DEF Spec

\* The loop of the driver stays within the range of its call, and no frame sends
\* or receives a byte more than it has.
THEOREM DriverTypes == Spec => []TypeOK
<1>1. Inv => TypeOK
  <2> SUFFICES ASSUME Inv
               PROVE  TypeOK
    OBVIOUS
  <2>1. BusTypes /\ LoopTypes /\ BytesInv
    BY DEF Inv
  <2>2. QED
    BY <2>1 DEF BusTypes, LoopTypes, BytesInv, TypeOK, Ops
<1>2. QED
  BY <1>1, DriverInvariant, PTL

\* A write puts every byte where it belongs, a failed one a prefix of them, and
\* neither touches another byte: m24m01e_write() at the ends of pages, halves and
\* the memory, for every geometry, however often the bus hangs and however late
\* the STOP of a frame that was given up.
THEOREM WritesLand == Spec => []WriteLandsExactly
<1>1. Inv => WriteLandsExactly
  <2> SUFFICES ASSUME Inv, op.kind = "write"
               PROVE  /\ op.rc = "OK" => mem = Overlay(op.len)
                      /\ \E n \in 0 .. op.len : mem = Overlay(n)
    BY DEF WriteLandsExactly
  <2>1. /\ LoopTypes /\ CallInv /\ OwnFrame /\ MemInv
        /\ addr \in Nat /\ len \in Nat /\ calls \in Nat /\ op.addr \in Nat /\ op.len \in Nat
        /\ addr >= op.addr /\ addr + len = op.addr + op.len /\ tries \in Nat
    BY DEF Inv, LoopTypes, Ops
  <2>2. Landed \in Nat /\ Landed + len = op.len
    BY <2>1 DEF Landed
  <2>3. op.rc = "OK" => len = 0 /\ Landed = op.len /\ tries = 0
    BY <2>1, <2>2 DEF CallInv, Busy
  <2>4. CASE frame.call # calls
    <3>1. mem = before /\ Landed = 0
      BY <2>1, <2>4 DEF CallInv, Landed
    <3>2. \A x \in Addresses : ~(op.addr <= x /\ x < op.addr + Landed)
      BY <2>1, <3>1 DEF Addresses
    <3>3. before = [x \in Addresses |-> before[x]]
      BY <2>1 DEF LoopTypes
    <3>4. mem = Overlay(Landed)
      BY <3>1, <3>2, <3>3 DEF Overlay
    <3>5. QED
      BY <2>1, <2>2, <2>3, <3>1, <3>4
  <2>5. CASE frame.call = calls /\ frame = WriteFrame
    <3>1. len \in Nat \ {0} /\ op.rc # "OK"
      BY <2>1, <2>3, <2>5 DEF OwnFrame
    <3>2. WriteChunk \in 1 .. len
      BY <2>1, <3>1, Chunks
    <3>3. PICK m \in 0 .. WriteChunk : mem = Overlay(Landed + m)
      BY <2>1, <2>5 DEF MemInv
    <3>4. Landed + m \in 0 .. op.len
      BY <2>1, <2>2, <3>2
    <3>5. QED
      BY <3>1, <3>3, <3>4
  <2>6. CASE frame.call = calls /\ frame = Poll
    <3>1. CASE tries > 0 \/ op.rc = "ERR_TIMEOUT"
      <4>1. mem = Overlay(Landed + WriteChunk)
        BY <2>1, <2>6, <3>1 DEF MemInv
      <4>2. len \in Nat \ {0} /\ op.rc # "OK"
        <5>1. tries > 0 => Busy
          BY <2>1 DEF CallInv
        <5>2. QED
          BY <2>1, <2>3, <3>1, <5>1 DEF CallInv, LoopTypes, Busy
      <4>3. WriteChunk \in 1 .. len
        BY <2>1, <4>2, Chunks
      <4>4. Landed + WriteChunk \in 0 .. op.len
        BY <2>1, <2>2, <4>3
      <4>5. QED
        BY <4>1, <4>2, <4>4
    <3>2. CASE ~(tries > 0 \/ op.rc = "ERR_TIMEOUT")
      <4>1. tries = 0
        BY <2>1, <3>2
      <4>2. mem = Overlay(Landed)
        BY <2>1, <2>6, <3>2, <4>1 DEF MemInv
      <4>3. Landed \in 0 .. op.len
        BY <2>1, <2>2
      <4>4. QED
        BY <2>3, <4>2, <4>3
    <3>3. QED
      BY <3>1, <3>2
  <2>7. QED
    BY <2>1, <2>4, <2>5, <2>6 DEF OwnFrame
<1>2. QED
  BY <1>1, DriverInvariant, PTL

\* m24m01e_read() that returns OK has delivered the bytes of its range, in order,
\* across every change of A16, unless a frame that was given up left its byte
\* in the receive register.
THEOREM ReadsDeliver == Spec => []ReadDeliversRange
<1>1. Inv => ReadDeliversRange
  <2> SUFFICES ASSUME Inv, op.kind = "read", op.rc = "OK", ~stale
               PROVE  /\ Len(buf) = op.len
                      /\ \A k \in 1 .. op.len : buf[k] = mem[op.addr + k - 1]
    BY DEF ReadDeliversRange
  <2>1. /\ Len(buf) = addr - op.addr
        /\ \A k \in 1 .. Len(buf) : buf[k] = mem[op.addr + k - 1]
    BY DEF Inv, ReadInv
  <2>2. len = 0
    BY DEF Inv, CallInv
  <2>3. addr - op.addr = op.len
    BY <2>2 DEF Inv, LoopTypes, Ops
  <2>4. QED
    BY <2>1, <2>3
<1>2. QED
  BY <1>1, DriverInvariant, PTL

=============================================================================

------------------------------ MODULE NdtStore ------------------------------
(***************************************************************************)
(* The A-scan record store of ndt_store.c on the EEPROM.  A slot is a      *)
(* header page and data pages; a save overwrites them one by one, the      *)
(* header first, and may stop after any of them: a write fails, before or  *)
(* after it reached the memory, or the power does.                         *)
(*                                                                         *)
(* The samples are record tags: a data page holds the part of one record's *)
(* samples that belongs there, and the checksum in the header is the tag   *)
(* of the record it was computed from.  Two different records never have   *)
(* the same checksum here; in the code one of 65536 pairs has.             *)
(***************************************************************************)
EXTENDS Naturals, FiniteSets, FiniteSetsExt

CONSTANTS
  SlotCount,  \* NDT_STORE_SLOT_COUNT
  Pages,      \* NDT_STORE_DATA_PAGES
  Ids,        \* record ids
  Recs,       \* record tags
  CounterMod, \* the modulus of the sequence number (2^32)
  MaxSeq      \* bound: the highest sequence number a save is given

ASSUME GeometryAssumption == SlotCount \in Nat \ {0} /\ Pages \in Nat \ {0}
ASSUME SeqAssumption == CounterMod \in Nat /\ MaxSeq \in Nat /\ MaxSeq + 1 < CounterMod
ASSUME TagAssumption == Recs \cap {"junk", "torn", "erased"} = {}

Slots == 0 .. SlotCount - 1

VARIABLES
  hdrs,     \* the header page of each slot, Blank when it has no valid magic
  data,     \* the tag in each data page of each slot
  call,     \* the save in progress: its header, its target slot
  page,     \* the page it writes next: 0 is the header
  reply     \* what the last load returned

eeprom == <<hdrs, data>>
vars   == <<eeprom, call, page, reply>>

Blank   == [magic |-> FALSE]
NoCall  == [op |-> "nothing"]
Header(id, seq, r) == [magic |-> TRUE, id |-> id, seq |-> seq, ck |-> r]
Headers == {Header(id, seq, r) : id \in Ids, seq \in 1 .. MaxSeq, r \in Recs}

\* A factory-fresh EEPROM.
Init ==
  /\ hdrs = [s \in Slots |-> Blank]
  /\ data = [s \in Slots |-> [p \in 1 .. Pages |-> "junk"]]
  /\ call = NoCall /\ page = 0
  /\ reply = NoCall

-----------------------------------------------------------------------------
(* The directory                                                           *)

\* Slots whose header read_hdr() accepts.
Used == {s \in Slots : hdrs[s].magic}

Matches(id) == {s \in Used : hdrs[s].id = id}

Seqs == {hdrs[s].seq : s \in Used}

\* A fault: the counter is not advanced.
NextSeqStuck == IF Used = {} THEN 1 ELSE Max(Seqs)

\* max_seq + 1
NextSeq == IF Used = {} THEN 1 ELSE (Max(Seqs) + 1) % CounterMod

\* The first of the slots with the lowest sequence number.
Oldest == Min({s \in Used : hdrs[s].seq = Min(Seqs)})

\* Faults: a free slot is preferred to the one that has the id; the newest
\* record is evicted.
TargetFreeFirst(id) ==
  IF Used # Slots          THEN Min(Slots \ Used)
  ELSE IF Matches(id) # {} THEN Min(Matches(id))
  ELSE Oldest

TargetNewest(id) ==
  IF Matches(id) # {}  THEN Min(Matches(id))
  ELSE IF Used # Slots THEN Min(Slots \ Used)
  ELSE CHOOSE s \in Used : hdrs[s].seq = Max(Seqs)

\* The slot with the id, else the first free slot, else the oldest record's.
Target(id) ==
  IF Matches(id) # {}  THEN Min(Matches(id))
  ELSE IF Used # Slots THEN Min(Slots \ Used)
  ELSE Oldest

-----------------------------------------------------------------------------
(* ndt_store_save()                                                        *)

SaveBegin(id, r) ==
  /\ call = NoCall /\ page = 0
  /\ NextSeq <= MaxSeq
  /\ call' = [op |-> "save", id |-> id, rec |-> r, slot |-> Target(id),
              seq |-> NextSeq]
  /\ UNCHANGED <<eeprom, page, reply>>

\* A bus error in the directory scan: nothing has been written.
SaveScanFails ==
  /\ call # NoCall /\ page = 0
  /\ call' = NoCall
  /\ UNCHANGED <<eeprom, page, reply>>

\* The page that is written next reaches the memory.
Write ==
  IF page = 0
    THEN /\ hdrs' = [hdrs EXCEPT ![call.slot] = Header(call.id, call.seq, call.rec)]
         /\ UNCHANGED data
    ELSE /\ data' = [data EXCEPT ![call.slot][page] = call.rec]
         /\ UNCHANGED hdrs

\* A fault: one data page too many.
WritePageOver ==
  /\ call # NoCall
  /\ Write
  /\ IF page <= Pages THEN page' = page + 1 /\ UNCHANGED call
                      ELSE page' = 0 /\ call' = NoCall
  /\ UNCHANGED reply

\* m24m01e_write() returns OK; after the last page so does ndt_store_save().
WritePage ==
  /\ call # NoCall
  /\ Write
  /\ IF page < Pages THEN page' = page + 1 /\ UNCHANGED call
                     ELSE page' = 0 /\ call' = NoCall
  /\ UNCHANGED reply

\* m24m01e_write() fails, whether the page was written or not, and the save is
\* given up.
WriteFails ==
  /\ call # NoCall
  /\ Write \/ UNCHANGED eeprom
  /\ page' = 0 /\ call' = NoCall
  /\ UNCHANGED reply

\* The power fails inside the write cycle: the page is unreadable.  (A cut
\* before or after the cycle looks like WriteFails: RAM is lost either way.)
PowerCut ==
  /\ call # NoCall
  /\ IF page = 0
       THEN hdrs' = [hdrs EXCEPT ![call.slot] = Blank] /\ UNCHANGED data
       ELSE data' = [data EXCEPT ![call.slot][page] = "junk"] /\ UNCHANGED hdrs
  /\ page' = 0 /\ call' = NoCall
  /\ UNCHANGED reply

\* The transport stops inside the header's frame and the chip programs what it
\* got: magic and id, or these and seq, are new, the rest of the page is old.
\* An erased page is all ones.  (Frames cut inside a field are left out.)
HeaderCut ==
  /\ call # NoCall /\ page = 0
  /\ LET old == IF hdrs[call.slot].magic THEN hdrs[call.slot]
                ELSE [seq |-> CounterMod - 1, ck |-> "erased"]
     IN \E seq \in {old.seq, call.seq} :
          hdrs' = [hdrs EXCEPT ![call.slot] = Header(call.id, seq, old.ck)]
  /\ call' = NoCall
  /\ UNCHANGED <<data, page, reply>>

-----------------------------------------------------------------------------
(* ndt_store_load(), with ndt_store_find()                                 *)

Answer(status) == [op |-> "load", status |-> status]

Whole(s) == \A p \in 1 .. Pages : data[s][p] = hdrs[s].ck

\* A fault: the stored checksum is not compared.
LoadedUnchecked(id) ==
  IF Matches(id) = {} THEN Answer("ERR_NOT_FOUND")
  ELSE [op |-> "load", status |-> "OK", rec |-> data[Min(Matches(id))][1]]

\* What a load without bus errors returns.
Loaded(id) ==
  IF Matches(id) = {} THEN Answer("ERR_NOT_FOUND")
  ELSE LET s == Min(Matches(id)) IN
       IF Whole(s) THEN [op |-> "load", status |-> "OK", rec |-> data[s][1]]
                   ELSE Answer("ERR_CORRUPT")

ndt_store_load(id) ==
  /\ call = NoCall
  /\ reply' \in {Loaded(id), Answer("ERR_IO")}
  /\ UNCHANGED <<eeprom, call, page>>

-----------------------------------------------------------------------------

ndt_store_save ==
  \/ \E id \in Ids, r \in Recs : SaveBegin(id, r)
  \/ SaveScanFails \/ WritePage \/ WriteFails

Next ==
  \/ ndt_store_save
  \/ PowerCut
  \/ \E id \in Ids : ndt_store_load(id)

Spec == Init /\ [][Next]_vars

\* The same with a bus that fails inside a header.
CutSpec == Init /\ [][Next \/ HeaderCut]_vars

-----------------------------------------------------------------------------

\* Types of the EEPROM's pages and of the save's locals.
TypeOK ==
  /\ hdrs \in [Slots -> {Blank} \cup Headers]
  /\ data \in [Slots -> [1 .. Pages -> Recs \cup {"junk"}]]
  /\ page \in 0 .. Pages
  /\ page # 0 => call # NoCall

\* The directory never lists an id or a sequence number twice, and the number
\* of the save in progress is above all others: however saves were cut short,
\* "the record with this id" and "the oldest record" name one slot.
DirectoryInv ==
  /\ \A s, t \in Used : s # t =>
       hdrs[s].id # hdrs[t].id /\ hdrs[s].seq # hdrs[t].seq
  /\ call # NoCall =>
       /\ \A s \in Used \ {call.slot} :
            hdrs[s].id # call.id /\ hdrs[s].seq < call.seq
       /\ page # 0 => hdrs[call.slot] = Header(call.id, call.seq, call.rec)

\* ndt_store.h: seq is a "Monotonic save counter", "highest existing + 1": the
\* number of a save is above those of all the records it does not replace.
SaveCounterMonotonic ==
  call # NoCall => \A s \in Used \ {call.slot} : hdrs[s].seq < call.seq

\* The archive the slots stand for: the used slots, in the order of their
\* sequence numbers.
Entry(s) ==
  [id |-> hdrs[s].id, rec |-> IF Whole(s) THEN hdrs[s].ck ELSE "torn",
   saved |-> hdrs[s].seq]

Entries == {Entry(s) : s \in Used}

Saving ==
  IF call = NoCall THEN NoCall
                   ELSE [op |-> "save", id |-> call.id, rec |-> call.rec]

Archive == INSTANCE NdtArchive
  WITH Capacity <- SlotCount, Times <- 1 .. MaxSeq,
       entries <- Entries, saving <- Saving

\* The slots are an archive: through failed writes and power cuts a load returns
\* the record saved last under its id or an error, an interrupted save costs
\* one record at most, and eviction takes the record saved longest ago.
ImplementsArchive == Archive!Spec
=============================================================================

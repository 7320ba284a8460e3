--------------------------- MODULE NdtStoreProofs ----------------------------
(***************************************************************************)
(* Proofs about the record store, for any number of slots, pages, ids and  *)
(* records: through failed writes and power cuts no id and no sequence     *)
(* number is listed twice, and the slots are an archive.                   *)
(***************************************************************************)
EXTENDS NdtStore, FiniteSetTheorems, TLAPS

-----------------------------------------------------------------------------
(* Least and greatest elements.                                            *)

\* A set of naturals that is not empty has a least element.
LEMMA LeastNat ==
  ASSUME NEW S, S \subseteq Nat, S # {}
  PROVE  \E x \in S : \A y \in S : x <= y
<1> DEFINE R == {ss \in Nat \X Nat : ss[1] < ss[2]}
<1>1. IsWellFoundedOn(R, Nat)
  BY NatLessThanWellFounded, Zenon DEF OpToRel
<1> HIDE DEF R
<1>2. PICK x \in S : \A y \in S : ~(<<y, x>> \in R)
  BY <1>1, WFMin, Zenon
<1>3. ASSUME NEW y \in S, y < x PROVE FALSE
  <2>1. <<y, x>> \in R
    BY <1>3 DEF R
  <2>2. QED
    BY <2>1, <1>2
<1>4. QED
  BY <1>3

\* Min finds it.
LEMMA MinValue ==
  ASSUME NEW S, S \subseteq Nat, S # {}
  PROVE  Min(S) \in S /\ \A y \in S : Min(S) <= y
BY LeastNat DEF Min

\* Max finds the greatest element of a bounded set.
LEMMA MaxValue ==
  ASSUME NEW n \in Nat, NEW S, S \subseteq 0 .. n, S # {}
  PROVE  Max(S) \in S /\ \A y \in S : y <= Max(S)
<1> DEFINE D == {n - x : x \in S}
<1>1. PICK d \in D : \A e \in D : d <= e
  <2>1. \A x \in S : n - x \in Nat
    OBVIOUS
  <2>2. D \subseteq Nat
    BY <2>1
  <2>3. D # {}
    <3>1. PICK x \in S : TRUE
      OBVIOUS
    <3>2. n - x \in D
      OBVIOUS
    <3>3. QED
      BY <3>2
  <2> HIDE DEF D
  <2>4. QED
    BY <2>2, <2>3, LeastNat
<1>2. PICK x \in S : d = n - x
  BY <1>1
<1>3. \A y \in S : x >= y
  <2> SUFFICES ASSUME NEW y \in S PROVE x >= y
    OBVIOUS
  <2>1. n - y \in D
    OBVIOUS
  <2> HIDE DEF D
  <2>2. n - x <= n - y
    BY <1>1, <1>2, <2>1
  <2>3. x \in 0 .. n /\ y \in 0 .. n
    OBVIOUS
  <2>4. QED
    BY <2>2, <2>3
<1>4. QED
  BY <1>3 DEF Max

\* A number below the modulus is its own remainder.
LEMMA SmallMod ==
  ASSUME NEW m \in Nat, NEW k \in Nat, k < m
  PROVE  k % m = k
OBVIOUS

-----------------------------------------------------------------------------
(* The directory.                                                          *)

\* What a save keeps in its locals.
CallType ==
  call = NoCall \/ call \in [op : {"save"}, id : Ids, rec : Recs, slot : Slots,
                             seq : 1 .. MaxSeq]

StoreInv == TypeOK /\ CallType /\ DirectoryInv

\* What read_hdr() finds in a used slot.
LEMMA UsedHeader ==
  ASSUME TypeOK, NEW s \in Used
  PROVE  s \in Slots /\ hdrs[s].seq \in 1 .. MaxSeq
BY DEF TypeOK, Used, Headers, Header, Blank

\* The number of a save is above those of all the records.
LEMMA NextSeqAbove ==
  ASSUME TypeOK, NextSeq <= MaxSeq
  PROVE  NextSeq \in 1 .. MaxSeq /\ \A s \in Used : hdrs[s].seq < NextSeq
<1>1. CASE Used = {}
  BY <1>1, SeqAssumption DEF NextSeq
<1>2. CASE Used # {}
  <2>1. Seqs \subseteq 0 .. MaxSeq /\ Seqs # {} /\ Seqs \subseteq 1 .. MaxSeq
    BY <1>2, UsedHeader, SeqAssumption DEF Seqs
  <2>2. Max(Seqs) \in Seqs /\ \A y \in Seqs : y <= Max(Seqs)
    BY <2>1, MaxValue, SeqAssumption
  <2>3. (Max(Seqs) + 1) % CounterMod = Max(Seqs) + 1
    <3>1. Max(Seqs) \in 1 .. MaxSeq
      BY <2>1, <2>2
    <3>2. Max(Seqs) + 1 \in Nat /\ Max(Seqs) + 1 < CounterMod
      BY <3>1, SeqAssumption
    <3>3. QED
      BY <3>2, SmallMod, SeqAssumption
  <2>4. \A s \in Used : hdrs[s].seq \in Seqs
    BY DEF Seqs
  <2>5. QED
    <3>1. NextSeq = Max(Seqs) + 1
      BY <1>2, <2>3 DEF NextSeq
    <3>2. Max(Seqs) \in 1 .. MaxSeq
      BY <2>1, <2>2
    <3>3. \A s \in Used : hdrs[s].seq <= Max(Seqs) /\ hdrs[s].seq \in 1 .. MaxSeq
      BY <2>2, <2>4, UsedHeader
    <3>4. QED
      BY <3>1, <3>2, <3>3, SeqAssumption
<1>3. QED
  BY <1>1, <1>2

\* A save writes to a slot of the store, and no other slot has its id.
LEMMA TargetAlone ==
  ASSUME TypeOK, DirectoryInv, NEW id \in Ids
  PROVE  Target(id) \in Slots /\ \A s \in Used \ {Target(id)} : hdrs[s].id # id
<1> USE DEF Slots
<1>1. Used \subseteq Nat /\ Used \subseteq Slots
  BY GeometryAssumption DEF Used
<1>2. CASE Matches(id) # {}
  <2>1. Min(Matches(id)) \in Matches(id)
    BY <1>1, <1>2, MinValue DEF Matches
  <2>2. QED
    BY <1>1, <1>2, <2>1 DEF Target, Matches, DirectoryInv
<1>3. CASE Matches(id) = {} /\ Used # Slots
  <2>1. Slots \ Used # {} /\ Slots \ Used \subseteq Nat
    <3>1. Slots \subseteq Nat
      BY GeometryAssumption
    <3> HIDE DEF Slots
    <3>2. QED
      BY <1>1, <1>3, <3>1
  <2>2. Min(Slots \ Used) \in Slots
    BY <2>1, MinValue
  <2>3. QED
    BY <1>3, <2>2 DEF Target, Matches
<1>4. CASE Matches(id) = {} /\ Used = Slots
  <2>1. Seqs \subseteq Nat /\ Seqs # {}
    <3>1. \A s \in Used : hdrs[s].seq \in Nat
      BY UsedHeader, SeqAssumption
    <3>2. 0 \in Used
      BY <1>4, GeometryAssumption
    <3>3. QED
      BY <3>1, <3>2 DEF Seqs
  <2>2. Min(Seqs) \in Seqs
    BY <2>1, MinValue
  <2>3. {s \in Used : hdrs[s].seq = Min(Seqs)} # {}
    BY <2>2 DEF Seqs
  <2>4. Oldest \in Slots
    BY <1>1, <2>3, MinValue DEF Oldest
  <2>5. QED
    BY <1>4, <2>4 DEF Target, Matches
<1>5. QED
  BY <1>2, <1>3, <1>4

-----------------------------------------------------------------------------

\* The page a save writes next: types, and the directory after a header.
LEMMA WriteKeeps ==
  ASSUME StoreInv, call # NoCall, Write,
         \/ call' = NoCall /\ page' = 0
         \/ call' = call /\ page' \in 1 .. Pages
  PROVE  StoreInv'
<1> USE DEF StoreInv, CallType
<1>1. call \in [op : {"save"}, id : Ids, rec : Recs, slot : Slots,
                seq : 1 .. MaxSeq]
  OBVIOUS
<1>2. CASE page = 0
  <2>1. /\ hdrs' = [hdrs EXCEPT ![call.slot] = Header(call.id, call.seq, call.rec)]
        /\ data' = data
    BY <1>2 DEF Write
  <2>2. Header(call.id, call.seq, call.rec) \in Headers
    BY <1>1 DEF Headers
  <2>3. TypeOK'
    BY <2>1, <2>2, GeometryAssumption DEF TypeOK
  <2>4. /\ hdrs'[call.slot] = Header(call.id, call.seq, call.rec)
        /\ \A s \in Slots \ {call.slot} : hdrs'[s] = hdrs[s]
    BY <1>1, <2>1 DEF TypeOK
  <2>5. Used' \ {call.slot} = Used \ {call.slot}
    BY <2>4 DEF Used
  <2>6. \A s \in Used \ {call.slot} :
          hdrs'[s].id # call.id /\ hdrs'[s].seq < call.seq
    BY <1>1, <2>4 DEF DirectoryInv, Used
  <2>7. hdrs'[call.slot].id = call.id /\ hdrs'[call.slot].seq = call.seq
    BY <2>4 DEF Header
  <2>8. \A s \in Used \ {call.slot} : hdrs[s].seq \in 1 .. MaxSeq
    BY UsedHeader
  <2>9. \A s, t \in Used' : s # t =>
          hdrs'[s].id # hdrs'[t].id /\ hdrs'[s].seq # hdrs'[t].seq
    <3> SUFFICES ASSUME NEW s \in Used', NEW t \in Used', s # t
                 PROVE  hdrs'[s].id # hdrs'[t].id /\ hdrs'[s].seq # hdrs'[t].seq
      OBVIOUS
    <3>1. CASE s = call.slot
      BY <1>1, <2>4, <2>5, <2>6, <2>7, <2>8, <3>1 DEF Used
    <3>2. CASE t = call.slot
      BY <1>1, <2>4, <2>5, <2>6, <2>7, <2>8, <3>2 DEF Used
    <3>3. CASE s # call.slot /\ t # call.slot
      BY <2>4, <2>5, <3>3 DEF DirectoryInv, Used
    <3>4. QED
      BY <3>1, <3>2, <3>3
  <2>10. QED
    BY <1>1, <2>3, <2>4, <2>5, <2>6, <2>9 DEF DirectoryInv
<1>3. CASE page # 0
  <2>1. /\ hdrs' = hdrs
        /\ data' = [data EXCEPT ![call.slot][page] = call.rec]
    BY <1>3 DEF Write
  <2>2. TypeOK'
    BY <1>1, <1>3, <2>1, GeometryAssumption DEF TypeOK
  <2>3. Used' = Used
    BY <2>1 DEF Used
  <2>4. QED
    BY <1>3, <2>1, <2>2, <2>3 DEF DirectoryInv
<1>4. QED
  BY <1>2, <1>3

\* Every step of the store keeps the directory sound.
LEMMA StoreStep == StoreInv /\ [Next]_vars => StoreInv'
<1> SUFFICES ASSUME StoreInv, [Next]_vars PROVE StoreInv'
  OBVIOUS
<1> USE DEF StoreInv, CallType, eeprom
<1>1. ASSUME NEW id \in Ids, NEW r \in Recs, SaveBegin(id, r) PROVE StoreInv'
  <2>1. NextSeq \in 1 .. MaxSeq /\ \A s \in Used : hdrs[s].seq < NextSeq
    BY <1>1, NextSeqAbove DEF SaveBegin
  <2>2. Target(id) \in Slots /\ \A s \in Used \ {Target(id)} : hdrs[s].id # id
    BY TargetAlone
  <2>3. /\ call' = [op |-> "save", id |-> id, rec |-> r, slot |-> Target(id),
                    seq |-> NextSeq]
        /\ page = 0 /\ UNCHANGED <<hdrs, data, page>>
    BY <1>1 DEF SaveBegin
  <2>4. TypeOK' /\ CallType'
    BY <2>1, <2>2, <2>3, GeometryAssumption DEF TypeOK
  <2>5. Used' = Used
    BY <2>3 DEF Used
  <2>6. DirectoryInv'
    BY <2>1, <2>2, <2>3, <2>5 DEF DirectoryInv
  <2>7. QED
    BY <2>4, <2>6
<1>2. CASE SaveScanFails
  BY <1>2 DEF SaveScanFails, TypeOK, DirectoryInv, Used
<1>3. CASE WritePage
  <2>1. \/ call' = NoCall /\ page' = 0
        \/ call' = call /\ page' \in 1 .. Pages
    BY <1>3, GeometryAssumption DEF WritePage, TypeOK
  <2>2. QED
    BY <1>3, <2>1, WriteKeeps DEF WritePage
<1>4. CASE WriteFails
  <2>1. CASE Write
    BY <1>4, <2>1, WriteKeeps DEF WriteFails
  <2>2. CASE UNCHANGED eeprom
    BY <1>4, <2>2, GeometryAssumption DEF WriteFails, TypeOK, DirectoryInv, Used
  <2>3. QED
    BY <1>4, <2>1, <2>2 DEF WriteFails
<1>5. CASE PowerCut
  <2>0. call.slot \in Slots
    BY <1>5 DEF PowerCut
  <2>1. CASE page = 0
    <3>1. /\ hdrs' = [hdrs EXCEPT ![call.slot] = Blank] /\ data' = data
          /\ call' = NoCall /\ page' = 0
      BY <1>5, <2>1 DEF PowerCut
    <3>2. TypeOK'
      BY <2>0, <3>1, GeometryAssumption DEF TypeOK
    <3>3. \A s \in Used' : s \in Used /\ hdrs'[s] = hdrs[s]
      BY <3>1 DEF Used, TypeOK, Blank
    <3>4. QED
      BY <3>1, <3>2, <3>3 DEF DirectoryInv
  <2>2. CASE page # 0
    <3>1. /\ hdrs' = hdrs
          /\ data' = [data EXCEPT ![call.slot][page] = "junk"]
          /\ call' = NoCall /\ page' = 0
      BY <1>5, <2>2 DEF PowerCut
    <3>2. TypeOK'
      <4>1. hdrs \in [Slots -> {Blank} \cup Headers] /\ page \in 1 .. Pages
        BY <2>2, GeometryAssumption DEF TypeOK
      <4>2. data' \in [Slots -> [1 .. Pages -> Recs \cup {"junk"}]]
        BY <2>0, <3>1, <4>1 DEF TypeOK
      <4>3. QED
        BY <3>1, <4>1, <4>2, GeometryAssumption DEF TypeOK
    <3>3. QED
      BY <3>1, <3>2 DEF DirectoryInv, Used
  <2>3. QED
    BY <2>1, <2>2
<1>6. ASSUME NEW id \in Ids, ndt_store_load(id) PROVE StoreInv'
  BY <1>6 DEF ndt_store_load, TypeOK, DirectoryInv, Used
<1>7. CASE UNCHANGED vars
  BY <1>7 DEF vars, TypeOK, DirectoryInv, Used
<1>8. QED
  BY <1>1, <1>2, <1>3, <1>4, <1>5, <1>6, <1>7 DEF Next, ndt_store_save

\* Whatever saves, failures and power cuts came before, an id and a sequence
\* number name one slot, and the save in progress is numbered above all others.
THEOREM DirectorySound == Spec => [](TypeOK /\ DirectoryInv)
<1>1. Init => StoreInv
  BY GeometryAssumption
     DEF Init, StoreInv, TypeOK, CallType, DirectoryInv, Used, Blank
<1>2. StoreInv => TypeOK /\ DirectoryInv
  BY DEF StoreInv
<1>3. QED
  BY <1>1, <1>2, StoreStep, PTL DEF Spec

\* Without a header cut inside its frame (see HeaderCut) the save counter is
\* monotonic, as ndt_store.h says.
THEOREM CounterMonotonic == Spec => []SaveCounterMonotonic
<1>1. DirectoryInv => SaveCounterMonotonic
  BY DEF DirectoryInv, SaveCounterMonotonic
<1>2. QED
  BY <1>1, DirectorySound, PTL

-----------------------------------------------------------------------------
(* The archive.                                                            *)

\* A save that has not written its header is aimed at its target, and numbered
\* above every record.
CallFresh ==
  call # NoCall /\ page = 0 =>
    /\ call.slot = Target(call.id)
    /\ \A s \in Used : hdrs[s].seq < call.seq

ArchiveInv == StoreInv /\ CallFresh

LEMMA ArchiveStep == ArchiveInv /\ [Next]_vars => ArchiveInv'
<1> SUFFICES ASSUME ArchiveInv, [Next]_vars PROVE ArchiveInv'
  OBVIOUS
<1>1. StoreInv'
  BY StoreStep DEF ArchiveInv
<1>2. CallFresh'
  <2>1. ASSUME NEW id \in Ids, NEW r \in Recs, SaveBegin(id, r)
        PROVE  CallFresh'
    <3>1. /\ call' = [op |-> "save", id |-> id, rec |-> r, slot |-> Target(id),
                      seq |-> NextSeq]
          /\ UNCHANGED <<hdrs, data, page>>
      BY <2>1 DEF SaveBegin, eeprom
    <3>2. \A s \in Used : hdrs[s].seq < NextSeq
      BY <2>1, NextSeqAbove DEF SaveBegin, ArchiveInv, StoreInv
    <3>3. Target(id)' = Target(id) /\ Used' = Used
      BY <3>1 DEF Target, Oldest, Matches, Seqs, Used
    <3>4. QED
      BY <3>1, <3>2, <3>3 DEF CallFresh
  <2>2. CASE SaveScanFails \/ WriteFails \/ PowerCut
    BY <2>2 DEF SaveScanFails, WriteFails, PowerCut, CallFresh
  <2>3. CASE WritePage
    <3>1. page' # 0 \/ call' = NoCall
      BY <2>3, GeometryAssumption
         DEF WritePage, ArchiveInv, StoreInv, TypeOK
    <3>2. QED
      BY <3>1 DEF CallFresh
  <2>4. CASE (\E id \in Ids : ndt_store_load(id)) \/ UNCHANGED vars
    <3>1. UNCHANGED <<hdrs, data, call, page>>
      BY <2>4 DEF ndt_store_load, vars, eeprom
    <3>2. Target(call.id)' = Target(call.id) /\ Used' = Used
      BY <3>1 DEF Target, Oldest, Matches, Seqs, Used
    <3>3. QED
      BY <3>1, <3>2 DEF CallFresh, ArchiveInv
  <2>5. QED
    BY <2>1, <2>2, <2>3, <2>4 DEF Next, ndt_store_save
<1>3. QED
  BY <1>1, <1>2 DEF ArchiveInv

\* Used slots stand for as many records.
LEMMA EntryCount ==
  ASSUME TypeOK, DirectoryInv, NEW T, T \subseteq Used
  PROVE  /\ IsFiniteSet({Entry(s) : s \in T}) /\ IsFiniteSet(T)
         /\ Cardinality({Entry(s) : s \in T}) = Cardinality(T)
<1> DEFINE E == {Entry(s) : s \in T}
           f == [s \in T |-> Entry(s)]
<1>1. IsFiniteSet(Slots)
  BY FS_Interval, GeometryAssumption DEF Slots
<1>2. IsFiniteSet(T)
  <2>1. T \in SUBSET Slots
    BY DEF Used
  <2>2. QED
    BY <1>1, <2>1, FS_Subset
<1>3. \A s, t \in T : s # t => Entry(s) # Entry(t)
  BY DEF DirectoryInv, Entry
<1>4. f \in [T -> E] /\ \A s \in T : f[s] = Entry(s)
  OBVIOUS
<1>5. f \in Surjection(T, E)
  BY <1>4 DEF Surjection
<1>6. f \in Injection(T, E)
  BY <1>3, <1>4 DEF Injection, IsInjective
<1> HIDE DEF f
<1>7. QED
  BY <1>2, <1>5, <1>6, FS_Surjection

\* How many slots there are.
LEMMA SlotCard == IsFiniteSet(Slots) /\ Cardinality(Slots) = SlotCount
BY FS_Interval, GeometryAssumption DEF Slots

\* A save makes room by giving up the record in its target slot, if any: the
\* one that has the id, or the one saved longest ago.
LEMMA Room ==
  ASSUME ArchiveInv, call # NoCall
  PROVE  Archive!MakeRoom(call.id) = {Entry(s) : s \in Used \ {call.slot}}
<1> DEFINE O == {Entry(s) : s \in Used \ {call.slot}}
<1>0. /\ TypeOK /\ DirectoryInv /\ call.slot \in Slots /\ call.id \in Ids
      /\ Used \subseteq Slots
  BY DEF ArchiveInv, StoreInv, CallType, Used
<1>1. \A s \in Used \ {call.slot} : hdrs[s].id # call.id
  BY <1>0 DEF DirectoryInv
<1> DEFINE Newer == {e \in Entries : \E older \in Entries : older.saved < e.saved}
           Others == Archive!Without(call.id)
<1>R. Archive!MakeRoom(call.id) =
        IF Cardinality(Others) = SlotCount THEN Newer ELSE Others
  BY Zenon DEF Archive!MakeRoom, Archive!Cardinality, Cardinality
<1> HIDE DEF Newer, Others
<1>2. CASE call.slot \notin Used \/ hdrs[call.slot].id = call.id
  <2>1. Others = O
    BY <1>1, <1>2 DEF Others, Archive!Without, Entries, Entry
  <2>2. Cardinality(O) = Cardinality(Used \ {call.slot})
    <3>1. Used \ {call.slot} \subseteq Used
      OBVIOUS
    <3>2. QED
      BY <3>1, <1>0, EntryCount
  <2>3. Cardinality(Used \ {call.slot}) <= Cardinality(Slots \ {call.slot})
    <3>1. IsFiniteSet(Slots \ {call.slot})
      BY SlotCard, FS_RemoveElement
    <3>2. Used \ {call.slot} \in SUBSET (Slots \ {call.slot})
      BY <1>0
    <3>3. QED
      BY <3>1, <3>2, FS_Subset
  <2>4. Cardinality(Slots \ {call.slot}) = SlotCount - 1
    BY <1>0, SlotCard, FS_RemoveElement
  <2>5. Cardinality(Used \ {call.slot}) # SlotCount
    BY <2>3, <2>4, GeometryAssumption
  <2> HIDE DEF O
  <2>6. QED
    BY <1>R, <2>1, <2>2, <2>5, Zenon DEF O
<1>3. CASE call.slot \in Used /\ hdrs[call.slot].id # call.id
  <2>1. page = 0
    BY <1>0, <1>3 DEF DirectoryInv, Header
  <2>2. Matches(call.id) = {}
    BY <1>1, <1>3 DEF Matches
  <2>3. call.slot = Target(call.id)
    BY <2>1 DEF ArchiveInv, CallFresh
  <2>4. Used = Slots
    <3> SUFFICES ASSUME Used # Slots PROVE FALSE
      OBVIOUS
    <3>1. Slots \ Used # {} /\ Slots \ Used \subseteq Nat
      <4>1. Slots \subseteq Nat
        BY GeometryAssumption DEF Slots
      <4>2. QED
        BY <1>0, <4>1
    <3>2. Min(Slots \ Used) \in Slots \ Used
      BY <3>1, MinValue
    <3>3. QED
      BY <1>3, <2>2, <2>3, <3>2 DEF Target
  <2>5. call.slot = Oldest
    BY <2>2, <2>3, <2>4 DEF Target
  <2>6. Others = Entries
    BY <1>1, <1>3 DEF Others, Archive!Without, Entries, Entry
  <2>7. Cardinality(Others) = SlotCount
    BY <1>0, <2>4, <2>6, EntryCount, SlotCard DEF Entries
  <2>8. \A s \in Used : hdrs[s].seq \in Nat
    BY <1>0, UsedHeader, SeqAssumption
  <2>9. Min(Seqs) \in Seqs /\ \A y \in Seqs : Min(Seqs) <= y
    <3>1. Seqs \subseteq Nat /\ Seqs # {}
      BY <1>3, <2>8 DEF Seqs
    <3>2. QED
      BY <3>1, MinValue
  <2>10. hdrs[call.slot].seq = Min(Seqs)
    <3>1. {s \in Used : hdrs[s].seq = Min(Seqs)} # {}
      BY <2>9 DEF Seqs
    <3>2. {s \in Used : hdrs[s].seq = Min(Seqs)} \subseteq Nat
      <4>1. Slots \subseteq Nat
        BY GeometryAssumption DEF Slots
      <4>2. QED
        BY <1>0, <4>1
    <3>3. Oldest \in {s \in Used : hdrs[s].seq = Min(Seqs)}
      BY <3>1, <3>2, MinValue DEF Oldest
    <3>4. QED
      BY <2>5, <3>3
  <2>11. \A s \in Used \ {call.slot} : hdrs[call.slot].seq < hdrs[s].seq
    <3> SUFFICES ASSUME NEW s \in Used \ {call.slot}
                 PROVE  hdrs[call.slot].seq < hdrs[s].seq
      OBVIOUS
    <3>1. hdrs[call.slot].seq # hdrs[s].seq
      BY <1>0, <1>3 DEF DirectoryInv
    <3>2. hdrs[call.slot].seq <= hdrs[s].seq
      BY <2>9, <2>10 DEF Seqs
    <3>3. QED
      BY <1>3, <2>8, <3>1, <3>2
  <2>12. Newer = O
    <3>1. \A s \in Used : Entry(s).saved = hdrs[s].seq
      BY DEF Entry
    <3>2. \A s \in Used : hdrs[call.slot].seq <= hdrs[s].seq
      BY <1>3, <2>8, <2>11
    <3>3. ASSUME NEW e \in Entries, NEW older \in Entries,
                 older.saved < e.saved
          PROVE  e \in O
      <4>1. PICK s \in Used : e = Entry(s)
        BY <3>3 DEF Entries
      <4>2. PICK t \in Used : older = Entry(t)
        BY <3>3 DEF Entries
      <4>3. hdrs[t].seq < hdrs[s].seq
        BY <3>1, <3>3, <4>1, <4>2
      <4>4. s # call.slot
        BY <1>3, <2>8, <3>2, <4>3
      <4>5. QED
        BY <4>1, <4>4
    <3>4. ASSUME NEW s \in Used \ {call.slot}
          PROVE  /\ Entry(s) \in Entries /\ Entry(call.slot) \in Entries
                 /\ Entry(call.slot).saved < Entry(s).saved
      BY <1>3, <2>11, <3>1 DEF Entries
    <3> HIDE DEF O
    <3>5. \A e \in O : \E s \in Used \ {call.slot} : e = Entry(s)
      BY DEF O
    <3>6. QED
      BY <3>3, <3>4, <3>5 DEF Newer
  <2> HIDE DEF O
  <2>13. QED
    BY <1>R, <2>7, <2>12, Zenon DEF O
<1>4. QED
  BY <1>2, <1>3

\* A step that changes one slot changes one record.
LEMMA OthersStay ==
  ASSUME NEW k \in Slots,
         \A s \in Slots \ {k} : hdrs'[s] = hdrs[s] /\ data'[s] = data[s]
  PROVE  LET others == {Entry(s) : s \in Used \ {k}}
         IN  /\ hdrs'[k].magic => Entries' = others \cup {Entry(k)'}
             /\ ~hdrs'[k].magic => Entries' = others
             /\ hdrs[k].magic => Entries = others \cup {Entry(k)}
<1> DEFINE O == {Entry(s) : s \in Used \ {k}}
<1>1. \A s \in Slots \ {k} : Entry(s)' = Entry(s) /\ (s \in Used' <=> s \in Used)
  BY DEF Entry, Whole, Used
<1>2. Used \subseteq Slots /\ Used' \subseteq Slots
  BY DEF Used
<1>3. {Entry(s)' : s \in Used' \ {k}} = O
  BY <1>1, <1>2
<1>4. Entries' = {Entry(s)' : s \in Used'}
  BY DEF Entries
<1>5. Entries = {Entry(s) : s \in Used}
  BY DEF Entries
<1>6. (k \in Used' <=> hdrs'[k].magic) /\ (k \in Used <=> hdrs[k].magic)
  BY DEF Used
<1>7. hdrs'[k].magic => Entries' = O \cup {Entry(k)'}
  BY <1>3, <1>4, <1>6
<1>8. ~hdrs'[k].magic => Entries' = O
  BY <1>3, <1>4, <1>6
<1>9. hdrs[k].magic => Entries = O \cup {Entry(k)}
  BY <1>5, <1>6
<1>10. QED
  BY <1>7, <1>8, <1>9

\* The save in progress, as the archive sees it.
LEMMA SavingValue ==
  /\ call # NoCall => Saving = [op |-> "save", id |-> call.id, rec |-> call.rec]
  /\ call # NoCall => Saving # Archive!Nothing
  /\ call = NoCall => Saving = Archive!Nothing
  /\ Archive!Nothing = NoCall
BY DEF Saving, NoCall, Archive!Nothing

\* The header reaches the memory, or a data page is lost: the record is in its
\* place, dated by its sequence number.
LEMMA PlaceStep ==
  ASSUME ArchiveInv, call # NoCall, NEW content \in {call.rec, "torn"},
         Entries' = {Entry(s) : s \in Used \ {call.slot}} \cup
                      {[id |-> call.id, rec |-> content, saved |-> call.seq]},
         call' \in {call, NoCall}, reply' = reply
  PROVE  Archive!Place
<1>1. Archive!MakeRoom(call.id) = {Entry(s) : s \in Used \ {call.slot}}
  BY Room
<1>2. Saving = [op |-> "save", id |-> call.id, rec |-> call.rec]
  BY SavingValue
<1>3. \A e \in Archive!MakeRoom(Saving.id) : e.saved < call.seq
  <2>1. \A s \in Used \ {call.slot} : hdrs[s].seq < call.seq
    BY DEF ArchiveInv, StoreInv, DirectoryInv
  <2>2. \A s \in Used \ {call.slot} : Entry(s).saved < call.seq
    BY <2>1 DEF Entry
  <2>3. QED
    BY <1>1, <1>2, <2>2
<1>4. call.seq \in 1 .. MaxSeq
  BY DEF ArchiveInv, StoreInv, CallType
<1>5. Saving' \in {Saving, Archive!Nothing}
  BY SavingValue DEF Saving
<1>6. Entries' = Archive!MakeRoom(Saving.id) \cup
                   {[id |-> Saving.id, rec |-> content, saved |-> call.seq]}
  BY <1>1, <1>2
<1>7. content \in {Saving.rec, "torn"}
  BY <1>2
<1>8. QED
  BY <1>3, <1>4, <1>5, <1>6, <1>7, SavingValue, Zenon DEF Archive!Place

\* A page of the save reaches the memory.
LEMMA WriteStep ==
  ASSUME ArchiveInv, call # NoCall, Write, call' \in {call, NoCall},
         reply' = reply
  PROVE  Archive!Place \/ Archive!Complete \/ Archive!Finish
           \/ UNCHANGED Archive!vars
<1>0. /\ TypeOK /\ DirectoryInv /\ call.slot \in Slots /\ call.id \in Ids
      /\ call.rec \in Recs /\ call.seq \in 1 .. MaxSeq
  BY DEF ArchiveInv, StoreInv, CallType
<1>1. PICK k \in Slots : k = call.slot
  BY <1>0
<1> DEFINE O == {Entry(s) : s \in Used \ {call.slot}}
           New(r) == [id |-> call.id, rec |-> r, saved |-> call.seq]
<1>2. CASE page = 0
  <2>1. /\ hdrs' = [hdrs EXCEPT ![call.slot] = Header(call.id, call.seq, call.rec)]
        /\ data' = data
    BY <1>2 DEF Write
  <2>2. /\ hdrs'[k] = Header(call.id, call.seq, call.rec)
        /\ \A s \in Slots \ {k} : hdrs'[s] = hdrs[s] /\ data'[s] = data[s]
    BY <1>0, <1>1, <2>1 DEF TypeOK
  <2>3. Entries' = {Entry(s) : s \in Used \ {k}} \cup {Entry(k)'}
    BY <2>2, OthersStay DEF Header
  <2>4. \E r \in {call.rec, "torn"} : Entry(k)' = New(r)
    BY <2>2 DEF Entry, Header
  <2>5. PICK r \in {call.rec, "torn"} : Entry(k)' = New(r)
    BY <2>4
  <2>6. Entries' = O \cup {New(r)}
    BY <1>1, <2>3, <2>5
  <2>7. QED
    BY <2>5, <2>6, PlaceStep
<1>3. CASE page # 0
  <2>1. /\ hdrs' = hdrs
        /\ data' = [data EXCEPT ![call.slot][page] = call.rec]
    BY <1>3 DEF Write
  <2>2. hdrs[k] = Header(call.id, call.seq, call.rec)
    BY <1>0, <1>1, <1>3 DEF DirectoryInv
  <2>3. /\ hdrs'[k] = hdrs[k]
        /\ \A p \in 1 .. Pages :
             data'[k][p] = IF p = page THEN call.rec ELSE data[k][p]
        /\ \A s \in Slots \ {k} : hdrs'[s] = hdrs[s] /\ data'[s] = data[s]
    <3>1. hdrs'[k] = hdrs[k]
      BY <2>1
    <3>2. data' = [data EXCEPT ![k] = [data[k] EXCEPT ![page] = call.rec]]
      BY <1>1, <2>1
    <3>3. data'[k] = [data[k] EXCEPT ![page] = call.rec]
      BY <3>2 DEF TypeOK, ArchiveInv, StoreInv
    <3>4. \A s \in Slots \ {k} : data'[s] = data[s]
      BY <3>2 DEF TypeOK, ArchiveInv, StoreInv
    <3>5. data[k] \in [1 .. Pages -> Recs \cup {"junk"}]
      BY <1>0 DEF TypeOK
    <3>6. QED
      BY <2>1, <3>3, <3>4, <3>5
  <2>4. /\ Entries' = O \cup {Entry(k)'}
        /\ Entries = O \cup {Entry(k)}
    BY <1>1, <2>2, <2>3, OthersStay DEF Header
  <2>5. /\ Entry(k) = New(IF Whole(k) THEN call.rec ELSE "torn")
        /\ Entry(k)' = New(IF Whole(k)' THEN call.rec ELSE "torn")
    BY <2>2, <2>3 DEF Entry, Header
  <2>6. Whole(k) => Whole(k)'
    BY <2>2, <2>3 DEF Whole, Header
  <2>7. CASE Whole(k) \/ ~Whole(k)'
    <3>1. Entries' = Entries
      <4>1. Entry(k)' = Entry(k)
        BY <2>5, <2>6, <2>7, Zenon
      <4>2. QED
        BY <2>4, <4>1, Zenon
    <3>2. Saving' = Saving \/ Saving' = Archive!Nothing
      BY SavingValue DEF Saving
    <3>3. QED
      BY <3>1, <3>2, SavingValue, Zenon DEF Archive!Finish, Archive!vars
  <2>8. CASE ~Whole(k) /\ Whole(k)'
    <3>1. Entry(k) = New("torn") /\ Entry(k)' = New(call.rec)
      BY <2>5, <2>8, Zenon
    <3>2. Saving = [op |-> "save", id |-> call.id, rec |-> call.rec]
      BY SavingValue
    <3>3. \A e \in O : e.saved < call.seq
      <4>1. \A s \in Used \ {call.slot} : hdrs[s].seq < call.seq
        BY <1>0 DEF DirectoryInv
      <4>2. QED
        BY <4>1 DEF Entry
    <3>4. \A e \in Entries : e.saved <= Entry(k).saved
      <4>1. Entry(k).saved = call.seq
        BY <3>1
      <4>2. \A e \in O : e.saved <= call.seq
        <5>1. \A s \in Used \ {call.slot} :
                Entry(s).saved \in Nat /\ Entry(s).saved < call.seq
          <6>1. \A s \in Used \ {call.slot} : hdrs[s].seq \in Nat
            BY <1>0, UsedHeader, SeqAssumption
          <6>2. QED
            BY <3>3, <6>1 DEF Entry
        <5>2. QED
          BY <1>0, <5>1, SeqAssumption
      <4>3. call.seq <= call.seq
        BY <1>0, SeqAssumption
      <4> HIDE DEF O, New
      <4>4. QED
        BY <2>4, <4>1, <4>2, <4>3
    <3>5. Entries' = (Entries \ {Entry(k)}) \cup {[Entry(k) EXCEPT !.rec = Saving.rec]}
      <4>1. Entry(k) \notin O
        <5>1. ~(call.seq < call.seq)
          BY <1>0, SeqAssumption
        <5>2. QED
          BY <3>1, <3>3, <5>1
      <4>2. [Entry(k) EXCEPT !.rec = Saving.rec] = New(call.rec)
        BY <3>1, <3>2
      <4> HIDE DEF O, New
      <4>3. QED
        BY <2>4, <3>1, <4>1, <4>2
    <3>6. Entry(k).id = Saving.id /\ Entry(k).rec = "torn"
      BY <3>1, <3>2
    <3>7. Saving' \in {Saving, Archive!Nothing}
      BY SavingValue DEF Saving
    <3>8. Entry(k) \in Entries
      BY <2>4
    <3>9. Archive!Complete
      BY <3>4, <3>5, <3>6, <3>7, <3>8, SavingValue, Zenon DEF Archive!Complete
    <3>10. QED
      BY <3>9
  <2>9. QED
    BY <2>7, <2>8
<1>4. QED
  BY <1>2, <1>3

\* The power fails in a write cycle: the record loses its place, or becomes torn.
LEMMA CutStep ==
  ASSUME ArchiveInv, PowerCut
  PROVE  Archive!Lose \/ Archive!Place \/ Archive!Finish
<1>0. /\ TypeOK /\ DirectoryInv /\ call # NoCall /\ call.slot \in Slots
      /\ call.rec \in Recs /\ call' = NoCall /\ reply' = reply
  BY DEF ArchiveInv, StoreInv, CallType, PowerCut
<1>1. PICK k \in Slots : k = call.slot
  BY <1>0
<1>2. Saving = [op |-> "save", id |-> call.id, rec |-> call.rec]
      /\ Saving' = Archive!Nothing
  BY <1>0, SavingValue DEF Saving
<1> DEFINE O == {Entry(s) : s \in Used \ {call.slot}}
           New(r) == [id |-> call.id, rec |-> r, saved |-> call.seq]
<1>3. CASE page = 0
  <2>1. hdrs' = [hdrs EXCEPT ![k] = Blank] /\ data' = data
    BY <1>1, <1>3 DEF PowerCut
  <2>2. /\ ~hdrs'[k].magic
        /\ \A s \in Slots \ {k} : hdrs'[s] = hdrs[s] /\ data'[s] = data[s]
    BY <1>0, <2>1 DEF TypeOK, Blank
  <2>3. Entries' = O
    BY <1>1, <2>2, OthersStay
  <2>4. Archive!MakeRoom(Saving.id) = O
    BY <1>0, <1>2, Room
  <2>5. QED
    BY <1>0, <1>2, <2>3, <2>4, SavingValue DEF Archive!Lose
<1>4. CASE page # 0
  <2>1. hdrs' = hdrs /\ data' = [data EXCEPT ![k] = [data[k] EXCEPT ![page] = "junk"]]
    BY <1>1, <1>4 DEF PowerCut
  <2>2. hdrs[k] = Header(call.id, call.seq, call.rec) /\ hdrs'[k] = hdrs[k]
    BY <1>0, <1>1, <1>4, <2>1 DEF DirectoryInv
  <2>3. \A s \in Slots \ {k} : hdrs'[s] = hdrs[s] /\ data'[s] = data[s]
    BY <1>0, <2>1 DEF TypeOK
  <2>4. /\ Entries' = O \cup {Entry(k)'}
        /\ Entries = O \cup {Entry(k)}
    BY <1>1, <2>2, <2>3, OthersStay DEF Header
  <2>5. ~Whole(k)'
    <3>1. page \in 1 .. Pages
      BY <1>0, <1>4, GeometryAssumption DEF TypeOK
    <3>2. data'[k][page] = "junk"
      BY <1>0, <2>1, <3>1 DEF TypeOK
    <3>3. hdrs'[k].ck = call.rec /\ call.rec # "junk"
      BY <1>0, <2>2, TagAssumption DEF Header
    <3>4. QED
      BY <3>1, <3>2, <3>3 DEF Whole
  <2>6. /\ Entry(k) = New(IF Whole(k) THEN call.rec ELSE "torn")
        /\ Entry(k)' = New("torn")
    BY <2>2, <2>5 DEF Entry, Header
  <2>7. CASE Whole(k)
    <3>1. Entries' = O \cup {New("torn")}
      BY <2>4, <2>6, Zenon
    <3>2. Archive!Place
      BY <1>0, <3>1, PlaceStep
    <3>3. QED
      BY <3>2
  <2>8. CASE ~Whole(k)
    <3>1. Entries' = Entries
      <4>1. Entry(k)' = Entry(k)
        BY <2>6, <2>8, Zenon
      <4>2. QED
        BY <2>4, <4>1, Zenon
    <3>2. QED
      BY <1>0, <1>2, <3>1, SavingValue DEF Archive!Finish
  <2>9. QED
    BY <2>7, <2>8
<1>5. QED
  BY <1>3, <1>4

\* Nothing in the EEPROM changes: the records stay.
LEMMA EntriesStay ==
  ASSUME UNCHANGED <<hdrs, data>>
  PROVE  Entries' = Entries
<1>1. \A s \in Slots : Entry(s)' = Entry(s)
  BY DEF Entry, Whole
<1>2. Used' = Used /\ Used \subseteq Slots
  BY DEF Used
<1>3. QED
  BY <1>1, <1>2 DEF Entries

\* A load answers from the record saved under the id.
LEMMA LoadStep ==
  ASSUME ArchiveInv, NEW id \in Ids, ndt_store_load(id)
  PROVE  Archive!Load(id)
<1>0. /\ TypeOK /\ call = NoCall /\ UNCHANGED <<hdrs, data, call>>
      /\ reply' \in {Loaded(id), Answer("ERR_IO")}
  BY DEF ArchiveInv, StoreInv, ndt_store_load, eeprom
<1>1. Entries' = Entries
  BY <1>0, EntriesStay
<1>2. Saving = Archive!Nothing /\ Saving' = Saving
  BY <1>0, SavingValue DEF Saving
<1>3. CASE reply' = Answer("ERR_IO")
  BY <1>1, <1>2, <1>3 DEF Archive!Load, Answer
<1>4. CASE reply' = Loaded(id) /\ Matches(id) = {}
  <2>1. \A e \in Entries : e.id # id
    BY <1>4 DEF Entries, Entry, Matches
  <2>2. reply' = [op |-> "load", status |-> "ERR_NOT_FOUND"]
    BY <1>4 DEF Loaded, Answer
  <2>3. QED
    BY <1>1, <1>2, <2>1, <2>2 DEF Archive!Load
<1>5. CASE reply' = Loaded(id) /\ Matches(id) # {}
  <2>1. PICK s \in Matches(id) : s = Min(Matches(id))
    <3>1. Slots \subseteq Nat
      BY GeometryAssumption DEF Slots
    <3>2. Matches(id) \subseteq Nat
      BY <3>1 DEF Matches, Used
    <3>3. QED
      BY <1>5, <3>2, MinValue
  <2>2. s \in Used /\ Entry(s) \in Entries /\ Entry(s).id = id
    BY <2>1 DEF Matches, Entries, Entry
  <2>3. reply' = IF Whole(s)
                   THEN [op |-> "load", status |-> "OK", rec |-> data[s][1]]
                   ELSE [op |-> "load", status |-> "ERR_CORRUPT"]
    BY <1>5, <2>1 DEF Loaded, Answer
  <2>4. hdrs[s].ck # "torn"
    BY <1>0, <2>2, TagAssumption DEF TypeOK, Used, Headers, Header, Blank
  <2>5. Whole(s) => data[s][1] = hdrs[s].ck
    BY GeometryAssumption DEF Whole
  <2>6. Entry(s).rec = IF Whole(s) THEN hdrs[s].ck ELSE "torn"
    BY DEF Entry
  <2>7. reply' = Archive!Answer(Entry(s))
    <3>1. CASE Whole(s)
      BY <2>3, <2>4, <2>5, <2>6, <3>1 DEF Archive!Answer
    <3>2. CASE ~Whole(s)
      BY <2>3, <2>6, <3>2 DEF Archive!Answer
    <3>3. QED
      BY <3>1, <3>2
  <2>8. QED
    BY <1>1, <1>2, <2>2, <2>7, Zenon DEF Archive!Load
<1>6. QED
  BY <1>0, <1>3, <1>4, <1>5

\* Every step of the store is a step of the archive, or none.
LEMMA ArchiveSimulates ==
  ASSUME ArchiveInv, [Next]_vars
  PROVE  [Archive!Next]_(Archive!vars)
<1> SUFFICES Archive!Next \/ UNCHANGED Archive!vars
  OBVIOUS
<1>1. ASSUME NEW id \in Ids, NEW r \in Recs, SaveBegin(id, r)
      PROVE  Archive!Save(id, r)
  <2>1. /\ call = NoCall /\ UNCHANGED <<hdrs, data, reply>>
        /\ call' = [op |-> "save", id |-> id, rec |-> r, slot |-> Target(id),
                    seq |-> NextSeq]
    BY <1>1 DEF SaveBegin, eeprom
  <2>2. Saving' = [op |-> "save", id |-> id, rec |-> r]
    BY <2>1 DEF Saving, NoCall
  <2>3. QED
    BY <2>1, <2>2, EntriesStay, SavingValue DEF Archive!Save
<1>2. ASSUME SaveScanFails \/ (WriteFails /\ UNCHANGED eeprom)
      PROVE  Archive!Finish
  <2>1. /\ call # NoCall /\ call' = NoCall /\ UNCHANGED <<hdrs, data, reply>>
    BY <1>2 DEF SaveScanFails, WriteFails, eeprom
  <2>2. Saving' = Archive!Nothing
    BY <2>1, SavingValue DEF Saving
  <2>3. QED
    BY <2>1, <2>2, EntriesStay, SavingValue DEF Archive!Finish
<1>3. CASE WritePage \/ (WriteFails /\ Write)
  <2>1. call # NoCall /\ Write /\ call' \in {call, NoCall} /\ reply' = reply
    BY <1>3 DEF WritePage, WriteFails
  <2>2. QED
    BY <2>1, WriteStep DEF Archive!Next
<1>4. CASE PowerCut
  BY <1>4, CutStep DEF Archive!Next
<1>5. ASSUME NEW id \in Ids, ndt_store_load(id) PROVE Archive!Load(id)
  BY <1>5, LoadStep
<1>6. CASE UNCHANGED vars
  <2>1. UNCHANGED <<hdrs, data, call, reply>>
    BY <1>6 DEF vars, eeprom
  <2>2. QED
    BY <2>1, EntriesStay DEF Archive!vars, Saving
<1>7. WriteFails => (WriteFails /\ Write) \/ (WriteFails /\ UNCHANGED eeprom)
  BY DEF WriteFails
<1>8. QED
  BY <1>1, <1>2, <1>3, <1>4, <1>5, <1>6, <1>7
     DEF Next, ndt_store_save, Archive!Next

\* The slots are an archive: for any number of slots, pages, ids and records, and
\* through any failed writes and power cuts, a load returns the record saved last
\* under its id or an error, an interrupted save costs one record at most, and
\* eviction takes the record saved longest ago.
THEOREM StoreImplementsArchive == Spec => ImplementsArchive
<1>1. Init => ArchiveInv
  BY GeometryAssumption
     DEF Init, ArchiveInv, StoreInv, TypeOK, CallType, CallFresh, DirectoryInv,
         Used, Blank
<1>2. Init => Archive!Init
  <2> SUFFICES ASSUME Init PROVE Archive!Init
    OBVIOUS
  <2>1. Entries = {}
    BY DEF Init, Entries, Used, Blank
  <2>2. QED
    BY <2>1, SavingValue DEF Init, Archive!Init
<1>3. ArchiveInv /\ [Next]_vars => [Archive!Next]_(Archive!vars)
  BY ArchiveSimulates
<1>4. QED
  BY <1>1, <1>2, <1>3, ArchiveStep, PTL
     DEF Spec, ImplementsArchive, Archive!Spec

\* The EEPROM's pages and the save's locals keep their types.
THEOREM StoreTypes == Spec => []TypeOK
BY DirectorySound, PTL
=============================================================================

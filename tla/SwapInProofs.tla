---------------------------- MODULE SwapInProofs ----------------------------
(***************************************************************************)
(* Proofs, for every trace, replay, slot size and codec, of what modules   *)
(* SwapOut and SwapIn claim.  Of the packing loop alone: that its          *)
(* invariants hold.  None of them is inductive by itself: that no slot     *)
(* overflows rests on the compressed page being the one of the current     *)
(* trace page (Pending), the layout of a slot rests on what happens to     *)
(* every page (OneLostPerSeal), and that rests on the types.  They are     *)
(* proved in that order.                                                   *)
(*                                                                         *)
(* Of both halves: that the scan is always aligned with the bytes SwapOut  *)
(* wrote, that the two error returns of the replay are never taken, that   *)
(* every record is answered with the page a reader of the code expects,    *)
(* and that they implement the abstract SwapArea.  The invariants of the   *)
(* packing loop are kept by the composed program too, because a replay     *)
(* touches no variable of it.  With NoneRejected they are all the replay   *)
(* needs to know of the slots.                                             *)
(***************************************************************************)
EXTENDS SwapIn, SequenceTheorems, FiniteSetTheorems, TLAPS

(* What the loop knows while it holds a compressed page. *)
Pending ==
  /\ pc = "insert" => /\ i <= Len(dataPages)
                      /\ compressedPage = Compressed(dataPages[i])
                      /\ dataPages[i].data \notin Rejected
  /\ live = IF pc = "insert" THEN 1 ELSE 0

(* One history entry for every slot. *)
HistoryPerSlot == Len(placed) = current /\ Len(opened) = current

(* Before its first step: pages are loaded, and none of them is packed.    *)
Unstored ==
  /\ slot_size \in Nat
  /\ pc = "compress" /\ dataPages \in Seq(Page) /\ i = 1 /\ compressedPage = NoPage
  /\ slots = <<NewSlot>> /\ slot_list = <<>> /\ slot_tree = [p \in Pfn |-> 0]
  /\ live = 0 /\ placed = <<<<>>>> /\ opened = <<1>>

Base == StoreTypeOK /\ HistoryPerSlot /\ Pending

PlacedEntry == [page : 1 .. Len(dataPages), start : 0 .. slot_size]

-----------------------------------------------------------------------------
(* Types *)

(* What CompressDataPage returns. *)
LEMMA CompressedType ==
  ASSUME NEW page \in Page
  PROVE  /\ page.data \in Data
         /\ CompressedSize[page.data] \in Nat \ {0}
         /\ Compressed(page).pfn = page.pfn /\ page.pfn \in Pfn
         /\ Compressed(page).uid = page.uid /\ page.uid \in Uid
         /\ Compressed(page).compressed_size = CompressedSize[page.data]
         /\ Compressed(page).buf = BytesOf(page.data)
         /\ \A k \in 0 .. CompressedSize[page.data] - 1 :
              Compressed(page).buf[k] = <<page.data, k>>
  BY CodecAssumption DEF Page, Compressed, BytesOf

(* A fresh slot. *)
LEMMA NewSlotType ==
  ASSUME slot_size \in Nat
  PROVE  /\ NewSlot \in SlotType
         /\ NewSlot.offset = 0 /\ NewSlot.metainfo = <<>> /\ Len(NewSlot.metainfo) = 0
<1>1. [b \in 0 .. slot_size - 1 |-> Uninit] \in [0 .. slot_size - 1 -> Byte]
  BY DEF Byte
<1>2. <<>> \in Seq(MetaInfo) /\ 0 \in 0 .. slot_size
  OBVIOUS
<1> QED BY <1>1, <1>2 DEF NewSlot, SlotType

(* The bytes of a slot after an insertion: those of the page from the old  *)
(* offset on, and the old ones everywhere else.                            *)
LEMMA WrittenBytes ==
  ASSUME slot_size \in Nat, NEW s \in SlotType, NEW page \in Page, Fits(s, Compressed(page))
  PROVE  /\ Written(s, Compressed(page)) \in [0 .. slot_size - 1 -> Byte]
         /\ \A k \in 0 .. CompressedSize[page.data] - 1 :
              Written(s, Compressed(page))[s.offset + k] = <<page.data, k>>
         /\ \A b \in 0 .. s.offset - 1 : Written(s, Compressed(page))[b] = s.buf[b]
<1> DEFINE size == CompressedSize[page.data]
           c    == Compressed(page)
<1>1. /\ s.buf \in [0 .. slot_size - 1 -> Byte] /\ s.offset \in 0 .. slot_size
      /\ s.offset \in Nat /\ DOMAIN s.buf = 0 .. slot_size - 1
  BY DEF SlotType
<1>2. /\ size \in Nat \ {0} /\ c.compressed_size = size /\ page.data \in Data
      /\ \A k \in 0 .. size - 1 : c.buf[k] = <<page.data, k>>
  BY CompressedType
<1>3. s.offset + size <= slot_size
  BY <1>2 DEF Fits
<1>4. \A k \in 0 .. size - 1 : <<page.data, k>> \in Byte
  BY <1>2 DEF Byte
<1>5. Written(s, c) = [b \in 0 .. slot_size - 1 |->
                         IF b \in s.offset .. s.offset + size - 1
                           THEN c.buf[b - s.offset] ELSE s.buf[b]]
  BY <1>1, <1>2 DEF Written
<1> HIDE DEF c, size
<1>6. ASSUME NEW b \in 0 .. slot_size - 1, b \in s.offset .. s.offset + size - 1
      PROVE  b - s.offset \in 0 .. size - 1
  BY <1>1, <1>2, <1>6
<1>7. ASSUME NEW b \in 0 .. slot_size - 1
      PROVE  Written(s, c)[b] \in Byte
  <2>1. CASE b \in s.offset .. s.offset + size - 1
    <3>1. Written(s, c)[b] = <<page.data, b - s.offset>>
      BY <1>2, <1>5, <1>6, <2>1
    <3> QED BY <1>4, <1>6, <2>1, <3>1
  <2>2. CASE b \notin s.offset .. s.offset + size - 1
    BY <1>1, <1>5, <2>2
  <2> QED BY <2>1, <2>2
<1>8. Written(s, c) \in [0 .. slot_size - 1 -> Byte]
  BY <1>5, <1>7
<1>9. ASSUME NEW k \in 0 .. size - 1
      PROVE  Written(s, c)[s.offset + k] = <<page.data, k>>
  <2>1. /\ s.offset + k \in 0 .. slot_size - 1 /\ (s.offset + k) - s.offset = k
        /\ s.offset + k \in s.offset .. s.offset + size - 1
    BY <1>1, <1>2, <1>3
  <2> QED BY <1>2, <1>5, <2>1
<1>10. ASSUME NEW b \in 0 .. s.offset - 1
       PROVE  Written(s, c)[b] = s.buf[b]
  <2>1. b \in 0 .. slot_size - 1 /\ b \notin s.offset .. s.offset + size - 1
    BY <1>1, <1>2
  <2> QED BY <1>5, <2>1
<1> QED BY <1>8, <1>9, <1>10 DEF c, size

(* The slot after an insertion is a slot, with one entry more. *)
LEMMA InsertedType ==
  ASSUME slot_size \in Nat, NEW s \in SlotType, NEW page \in Page, Fits(s, Compressed(page))
  PROVE  /\ Inserted(s, Compressed(page)) \in SlotType
         /\ Inserted(s, Compressed(page)).buf = Written(s, Compressed(page))
         /\ Inserted(s, Compressed(page)).offset = s.offset + CompressedSize[page.data]
         /\ Inserted(s, Compressed(page)).metainfo =
              Append(s.metainfo, [pfn |-> page.pfn, uid |-> page.uid,
                                  compressed_size |-> CompressedSize[page.data]])
<1>1. /\ s.offset \in 0 .. slot_size /\ s.metainfo \in Seq(MetaInfo)
  BY DEF SlotType
<1>2. [pfn |-> page.pfn, uid |-> page.uid,
       compressed_size |-> CompressedSize[page.data]] \in MetaInfo
  BY CompressedType DEF MetaInfo
<1>3. s.offset + CompressedSize[page.data] \in 0 .. slot_size
  BY <1>1, CompressedType DEF Fits
<1>4. Append(s.metainfo, [pfn |-> page.pfn, uid |-> page.uid,
                          compressed_size |-> CompressedSize[page.data]]) \in Seq(MetaInfo)
  BY <1>1, <1>2, AppendProperties
<1> QED BY <1>3, <1>4, WrittenBytes, CompressedType DEF Inserted, SlotType

(* The slots, and the page at hand, when InsertCompressedDataPage is called. *)
LEMMA AtInsert ==
  ASSUME Base, pc = "insert"
  PROVE  /\ i \in 1 .. Len(dataPages) /\ i \in Nat
         /\ dataPages[i] \in Page /\ compressedPage = Compressed(dataPages[i])
         /\ current \in Nat \ {0} /\ current \in 1 .. Len(slots)
         /\ slot_size \in Nat /\ slots[current] \in SlotType
         /\ placed[current] \in Seq(PlacedEntry)
<1>1. /\ dataPages \in Seq(Page) /\ slots \in Seq(SlotType) /\ slots # <<>>
      /\ placed \in Seq(Seq(PlacedEntry)) /\ Len(placed) = current /\ slot_size \in Nat
  BY DEF Base, StoreTypeOK, HistoryPerSlot, PlacedEntry
<1>2. i \in 1 .. Len(dataPages) /\ i \in Nat
  BY DEF Base, StoreTypeOK, Pending
<1>3. current \in Nat \ {0} /\ current \in 1 .. Len(slots)
  BY <1>1, EmptySeq DEF current
<1> QED BY <1>1, <1>2, <1>3, ElementOfSeq DEF Base, Pending

(* What a successful insertion does to the slots and to their history. *)
LEMMA AfterInsertStored ==
  ASSUME Base, InsertStored
  PROVE  /\ slots' \in Seq(SlotType) /\ Len(slots') = Len(slots)
         /\ slots'[current] = Inserted(slots[current], Compressed(dataPages[i]))
         /\ \A s \in 1 .. Len(slots) : s # current => slots'[s] = slots[s]
         /\ placed' \in Seq(Seq(PlacedEntry)) /\ Len(placed') = Len(placed)
         /\ placed'[current] = Append(placed[current],
                                      [page |-> i, start |-> slots[current].offset])
         /\ \A s \in 1 .. Len(slots) : s # current => placed'[s] = placed[s]
<1> DEFINE new   == Inserted(slots[current], Compressed(dataPages[i]))
           entry == [page |-> i, start |-> slots[current].offset]
<1>1. /\ pc = "insert" /\ Fits(slots[current], compressedPage)
      /\ slots' = [slots EXCEPT ![current] = Inserted(slots[current], compressedPage)]
      /\ placed' = [placed EXCEPT ![current] = Append(placed[current], entry)]
  BY DEF InsertStored
<1>2. /\ slots \in Seq(SlotType) /\ placed \in Seq(Seq(PlacedEntry))
      /\ Len(placed) = current /\ current = Len(slots)
  BY DEF Base, StoreTypeOK, HistoryPerSlot, PlacedEntry, current
<1>3. new \in SlotType
  <2>1. /\ slots[current] \in SlotType /\ dataPages[i] \in Page
        /\ Fits(slots[current], Compressed(dataPages[i])) /\ slot_size \in Nat
    BY <1>1, AtInsert
  <2> QED BY ONLY <2>1, InsertedType
<1>4. entry \in PlacedEntry
  BY <1>1, AtInsert DEF PlacedEntry, SlotType
<1>5. Append(placed[current], entry) \in Seq(PlacedEntry)
  BY <1>1, <1>4, AtInsert, AppendProperties
<1>6. slots' = [slots EXCEPT ![current] = new] /\ current \in 1 .. Len(slots)
  BY <1>1, AtInsert
<1> HIDE DEF new, entry
<1>7. /\ slots' \in Seq(SlotType) /\ Len(slots') = Len(slots) /\ slots'[current] = new
      /\ \A s \in 1 .. Len(slots) : s # current => slots'[s] = slots[s]
  BY <1>2, <1>3, <1>6, ExceptSeq
<1>8. /\ placed' \in Seq(Seq(PlacedEntry)) /\ Len(placed') = Len(placed)
      /\ placed'[current] = Append(placed[current], entry)
      /\ \A s \in 1 .. Len(slots) : s # current => placed'[s] = placed[s]
  BY <1>1, <1>2, <1>5, <1>6, ExceptSeq
<1> QED BY <1>7, <1>8 DEF new, entry

(* What a refused insertion does to them: one slot more, and empty. *)
LEMMA AfterInsertRefused ==
  ASSUME Base, InsertRefused
  PROVE  /\ slots' \in Seq(SlotType) /\ Len(slots') = Len(slots) + 1
         /\ slots'[Len(slots) + 1] = NewSlot
         /\ \A s \in 1 .. Len(slots) : slots'[s] = slots[s]
         /\ placed' \in Seq(Seq(PlacedEntry)) /\ Len(placed') = Len(slots) + 1
         /\ placed'[Len(slots) + 1] = <<>>
         /\ \A s \in 1 .. Len(slots) : placed'[s] = placed[s]
         /\ opened' \in Seq(1 .. Len(dataPages) + 1) /\ Len(opened') = Len(slots) + 1
         /\ opened'[Len(slots) + 1] = i + 1
         /\ \A s \in 1 .. Len(slots) : opened'[s] = opened[s]
<1>1. /\ pc = "insert" /\ slots' = Append(slots, NewSlot)
      /\ placed' = Append(placed, <<>>) /\ opened' = Append(opened, i + 1)
  BY DEF InsertRefused, SlotAllocated
<1>2. /\ slots \in Seq(SlotType) /\ placed \in Seq(Seq(PlacedEntry))
      /\ opened \in Seq(1 .. Len(dataPages) + 1)
      /\ Len(placed) = Len(slots) /\ Len(opened) = Len(slots)
  BY DEF Base, StoreTypeOK, HistoryPerSlot, PlacedEntry, current
<1>3. <<>> \in Seq(PlacedEntry)
  OBVIOUS
<1>4. i + 1 \in 1 .. Len(dataPages) + 1
  BY <1>1, AtInsert
<1>5. /\ slots' \in Seq(SlotType) /\ Len(slots') = Len(slots) + 1
      /\ slots'[Len(slots) + 1] = NewSlot
      /\ \A s \in 1 .. Len(slots) : slots'[s] = slots[s]
  BY <1>1, <1>2, AtInsert, NewSlotType, AppendProperties
<1>6. /\ placed' \in Seq(Seq(PlacedEntry)) /\ Len(placed') = Len(slots) + 1
      /\ placed'[Len(slots) + 1] = <<>>
      /\ \A s \in 1 .. Len(slots) : placed'[s] = placed[s]
  BY <1>1, <1>2, <1>3, AppendProperties
<1>7. /\ opened' \in Seq(1 .. Len(dataPages) + 1) /\ Len(opened') = Len(slots) + 1
      /\ opened'[Len(slots) + 1] = i + 1
      /\ \A s \in 1 .. Len(slots) : opened'[s] = opened[s]
  BY <1>1, <1>2, <1>4, AppendProperties
<1> QED BY <1>5, <1>6, <1>7

LEMMA UnstoredInit == StoreInit => Unstored
  BY TraceAssumption, SlotAssumption DEF StoreInit, Unstored

(* A global variable that only parse_args assigns. *)
LEMMA SizeKept ==
  ASSUME [StoreNext]_storeVars
  PROVE  UNCHANGED <<slot_size, SlotType>>
<1>1. slot_size' = slot_size
  BY DEF StoreNext, CompressDataPage, CompressFailed, InsertStored, InsertRefused, FinishStore,
         storeVars
<1> QED BY <1>1 DEF SlotType

LEMMA BaseInit == Unstored => Base
<1> SUFFICES ASSUME Unstored PROVE Base
  OBVIOUS
<1>1. dataPages \in Seq(Page) /\ Len(dataPages) \in Nat
  BY DEF Unstored
<1>2. slots = <<NewSlot>> /\ slots \in Seq(SlotType) /\ slots # <<>> /\ Len(slots) = 1
  BY NewSlotType DEF Unstored
<1>3. placed = <<<<>>>> /\ placed \in Seq(Seq(PlacedEntry)) /\ Len(placed) = 1
  BY DEF Unstored
<1>4. opened = <<1>> /\ opened \in Seq(1 .. Len(dataPages) + 1) /\ Len(opened) = 1
  BY <1>1 DEF Unstored
<1>5. slot_tree \in [Pfn -> 0 .. Len(slots)] /\ slot_list \in Seq(1 .. Len(slots))
  BY <1>2 DEF Unstored
<1> QED BY <1>1, <1>2, <1>3, <1>4, <1>5
        DEF Unstored, Base, StoreTypeOK, HistoryPerSlot, Pending, PlacedEntry, current

LEMMA BaseStep == Base /\ [StoreNext]_storeVars => Base'
<1> SUFFICES ASSUME Base, [StoreNext]_storeVars PROVE Base'
  OBVIOUS
<1>0. /\ dataPages \in Seq(Page) /\ Len(dataPages) \in Nat
      /\ slot_list \in Seq(1 .. Len(slots)) /\ slot_tree \in [Pfn -> 0 .. Len(slots)]
      /\ Len(slots) \in Nat /\ slots \in Seq(SlotType)
      /\ slot_size \in Nat /\ slot_size' = slot_size /\ SlotType' = SlotType
  BY SizeKept DEF Base, StoreTypeOK
<1>1. CASE CompressDataPage
  <2>1. i \in 1 .. Len(dataPages) /\ dataPages[i] \in Page
    BY <1>0, <1>1, ElementOfSeq DEF Base, StoreTypeOK, CompressDataPage
  <2> QED BY <1>0, <1>1, <2>1
          DEF Base, StoreTypeOK, HistoryPerSlot, Pending, CompressDataPage, current
<1>2. CASE CompressFailed
  BY <1>0, <1>2 DEF Base, StoreTypeOK, HistoryPerSlot, Pending, CompressFailed, current
<1>3. CASE InsertStored
  <2>1. /\ pc = "insert" /\ pc' = "compress" /\ compressedPage' = NoPage
        /\ live' = live - 1 /\ i' = i + 1
        /\ UNCHANGED <<dataPages, slot_list, opened>>
        /\ slot_tree' = [slot_tree EXCEPT ![compressedPage.pfn] = current]
    BY <1>3 DEF InsertStored, NextPage, TreeUpdated
  <2>2. /\ slots' \in Seq(SlotType) /\ slots' # <<>> /\ Len(slots') = Len(slots)
        /\ placed' \in Seq(Seq(PlacedEntry)) /\ Len(placed') = Len(placed)
    BY <1>3, <2>1, AfterInsertStored, AtInsert, EmptySeq DEF current
  <2>3. slot_tree' \in [Pfn -> 0 .. Len(slots')]
    <3>1. current \in 0 .. Len(slots')
      BY <1>0, <2>1, <2>2, AtInsert
    <3>2. slot_tree \in [Pfn -> 0 .. Len(slots')]
      BY <1>0, <2>2
    <3> QED BY <2>1, <3>1, <3>2
  <2>4. live' = 0 /\ i' \in 1 .. Len(dataPages) + 1
    BY <1>0, <2>1, AtInsert DEF Base, Pending
  <2> QED BY <1>0, <2>1, <2>2, <2>3, <2>4
          DEF Base, StoreTypeOK, HistoryPerSlot, Pending, PlacedEntry, current
<1>4. CASE InsertRefused
  <2>1. /\ pc = "insert" /\ pc' = "compress" /\ compressedPage' = NoPage
        /\ live' = live - 1 /\ i' = i + 1
        /\ UNCHANGED <<dataPages, slot_tree>>
        /\ slot_list' = Append(slot_list, current)
    BY <1>4 DEF InsertRefused, NextPage
  <2>2. /\ slots' \in Seq(SlotType) /\ slots' # <<>> /\ Len(slots') = Len(slots) + 1
        /\ placed' \in Seq(Seq(PlacedEntry)) /\ Len(placed') = Len(slots')
        /\ opened' \in Seq(1 .. Len(dataPages) + 1) /\ Len(opened') = Len(slots')
    BY <1>0, <1>4, AfterInsertRefused, EmptySeq
  <2>3. slot_list' \in Seq(1 .. Len(slots'))
    <3>1. 1 .. Len(slots) \subseteq 1 .. Len(slots')
      BY <1>0, <2>2
    <3>2. slot_list \in Seq(1 .. Len(slots'))
      BY <1>0, <3>1, SeqMonotonic
    <3>3. current \in 1 .. Len(slots')
      BY <2>1, <3>1, AtInsert
    <3> QED BY <2>1, <3>2, <3>3, AppendProperties
  <2>4. slot_tree' \in [Pfn -> 0 .. Len(slots')]
    BY <1>0, <2>1, <2>2
  <2>5. live' = 0 /\ i' \in 1 .. Len(dataPages) + 1
    BY <1>0, <2>1, AtInsert DEF Base, Pending
  <2> QED BY <1>0, <2>1, <2>2, <2>3, <2>4, <2>5
          DEF Base, StoreTypeOK, HistoryPerSlot, Pending, PlacedEntry, current
<1>5. CASE FinishStore
  <2>1. LastListed \in Seq(1 .. Len(slots))
    <3>1. current \in 1 .. Len(slots)
      BY <1>0, EmptySeq DEF Base, StoreTypeOK, current
    <3> QED BY <1>0, <3>1, AppendProperties DEF LastListed
  <2> QED BY <1>0, <1>5, <2>1
          DEF Base, StoreTypeOK, HistoryPerSlot, Pending, FinishStore, current
<1>6. CASE UNCHANGED storeVars
  BY <1>0, <1>6 DEF Base, StoreTypeOK, HistoryPerSlot, Pending, storeVars, current
<1> QED BY <1>1, <1>2, <1>3, <1>4, <1>5, <1>6 DEF StoreNext

THEOREM BaseInvariant == StoreSpec => []Base
  BY UnstoredInit, BaseInit, BaseStep, PTL DEF StoreSpec

(* Whatever the trace, the slot size and the codec, no slot is ever filled *)
(* beyond its buffer, and every variable keeps its type.                   *)
THEOREM StoreTypesCorrect == StoreSpec => []StoreTypeOK
  BY BaseInvariant, PTL DEF Base

(* Whatever the trace, the loop owns no DataPage at its head.              *)
THEOREM StoreNeverLeaks == StoreSpec => []StoreLeaksNothing
<1>1. Base => StoreLeaksNothing
  BY DEF Base, Pending, StoreLeaksNothing
<1> QED BY <1>1, BaseInvariant, PTL

-----------------------------------------------------------------------------
(* What becomes of every page *)

(* The steps that touch neither slots nor history. *)
LEMMA SlotsUntouched ==
  ASSUME CompressDataPage \/ CompressFailed \/ FinishStore \/ UNCHANGED storeVars
  PROVE  UNCHANGED <<dataPages, i, slots, slot_tree, placed, opened, current, slot_size>>
  BY DEF CompressDataPage, CompressFailed, FinishStore, storeVars, current

(* Sequence facts of Base, for the slots that exist. *)
LEMMA SlotFacts ==
  ASSUME Base
  PROVE  /\ current \in Nat \ {0} /\ Len(slots) = current /\ Len(placed) = current
         /\ Len(opened) = current /\ i \in Nat \ {0} /\ Len(dataPages) \in Nat
         /\ slot_size \in Nat
         /\ \A s \in 1 .. current :
              /\ slots[s] \in SlotType /\ placed[s] \in Seq(PlacedEntry)
              /\ Len(placed[s]) \in Nat /\ opened[s] \in 1 .. Len(dataPages) + 1
<1>1. /\ slots \in Seq(SlotType) /\ slots # <<>> /\ placed \in Seq(Seq(PlacedEntry))
      /\ opened \in Seq(1 .. Len(dataPages) + 1) /\ dataPages \in Seq(Page)
      /\ Len(slots) = current /\ Len(placed) = current /\ Len(opened) = current
      /\ i \in 1 .. Len(dataPages) + 1 /\ slot_size \in Nat
  BY DEF Base, StoreTypeOK, HistoryPerSlot, PlacedEntry, current
<1>2. current \in Nat \ {0} /\ i \in Nat \ {0} /\ Len(dataPages) \in Nat
  BY <1>1, EmptySeq
<1>3. ASSUME NEW s \in 1 .. current
      PROVE  /\ slots[s] \in SlotType /\ placed[s] \in Seq(PlacedEntry)
             /\ Len(placed[s]) \in Nat /\ opened[s] \in 1 .. Len(dataPages) + 1
  <2>1. placed[s] \in Seq(PlacedEntry)
    BY <1>1, ElementOfSeq
  <2> QED BY <1>1, <2>1, ElementOfSeq, LenProperties
<1> QED BY <1>1, <1>2, <1>3

LEMMA OneLostInit == Unstored => OneLostPerSeal
<1> SUFFICES ASSUME Unstored PROVE OneLostPerSeal
  OBVIOUS
<1>1. /\ i = 1 /\ Len(slots) = 1 /\ placed = <<<<>>>> /\ opened = <<1>>
      /\ Len(placed) = 1 /\ Len(opened) = 1 /\ placed[1] = <<>> /\ opened[1] = 1
      /\ Len(placed[1]) = 0
  BY DEF Unstored
<1> QED BY <1>1 DEF OneLostPerSeal, Sealed, current

LEMMA OneLostStep ==
  Base /\ OneLostPerSeal /\ [StoreNext]_storeVars => OneLostPerSeal'
<1> SUFFICES ASSUME Base, OneLostPerSeal, [StoreNext]_storeVars PROVE OneLostPerSeal'
  OBVIOUS
<1> USE SlotFacts
<1>0. HistoryPerSlot' /\ current' = Len(slots')
  BY BaseStep DEF Base, current
<1>1. CASE InsertStored
  <2>1. current' = current /\ opened' = opened /\ i' = i + 1
    BY <1>0, <1>1, AfterInsertStored DEF InsertStored, NextPage
  <2>2. /\ placed'[current] = Append(placed[current],
                                    [page |-> i, start |-> slots[current].offset])
        /\ \A s \in 1 .. current : s # current => placed'[s] = placed[s]
        /\ current \in 1 .. current
    <3>1. current \in 1 .. current /\ Len(slots) = current
      OBVIOUS
    <3> QED BY ONLY <1>1, <3>1, Base, AfterInsertStored
  <2>3. [page |-> i, start |-> slots[current].offset] \in PlacedEntry
    BY <1>1, AtInsert DEF InsertStored, PlacedEntry, SlotType
  <2>4. /\ Len(placed'[current]) = Len(placed[current]) + 1
        /\ \A k \in 1 .. Len(placed[current]) : placed'[current][k] = placed[current][k]
        /\ placed'[current][Len(placed[current]) + 1].page = i
    BY <2>2, <2>3, AppendProperties
  <2>5. i' = opened'[current'] + Len(placed'[current'])
    BY <2>1, <2>2, <2>4 DEF OneLostPerSeal
  <2>6. ASSUME NEW s \in Sealed'
        PROVE  opened'[s + 1] = opened'[s] + Len(placed'[s]) + 1
    <3>1. s \in Sealed /\ s \in 1 .. current /\ s # current
      BY <2>1, <2>6 DEF Sealed
    <3>2. placed'[s] = placed[s]
      BY <2>2, <3>1
    <3> QED BY <2>1, <3>1, <3>2 DEF OneLostPerSeal
  <2>7. ASSUME NEW s \in 1 .. current', NEW k \in 1 .. Len(placed'[s])
        PROVE  placed'[s][k].page = opened'[s] + k - 1
    <3>1. CASE s # current
      BY <2>1, <2>2, <2>7, <3>1 DEF OneLostPerSeal
    <3>2. CASE s = current /\ k <= Len(placed[current])
      <4>1. k \in 1 .. Len(placed[current])
        BY <2>4, <2>7, <3>2
      <4>2. placed[current][k].page = opened[current] + k - 1
        BY <2>2, <4>1 DEF OneLostPerSeal
      <4> QED BY <2>1, <2>4, <3>2, <4>1, <4>2
    <3>3. CASE s = current /\ k = Len(placed[current]) + 1
      BY <2>1, <2>2, <2>4, <2>7, <3>3 DEF OneLostPerSeal
    <3>4. CASE s = current
      <4>1. k \in 1 .. Len(placed[current]) + 1
        BY <2>4, <2>7, <3>4
      <4>2. Len(placed[current]) \in Nat
        BY <2>2
      <4>3. k <= Len(placed[current]) \/ k = Len(placed[current]) + 1
        BY ONLY <4>1, <4>2
      <4> QED BY ONLY <3>2, <3>3, <3>4, <4>3
    <3> QED BY ONLY <3>1, <3>4
  <2>8. Len(opened)' = current' /\ Len(placed)' = current' /\ opened'[1] = 1
    BY <1>0, <2>1 DEF OneLostPerSeal, HistoryPerSlot
  <2> QED BY ONLY <2>5, <2>6, <2>7, <2>8 DEF OneLostPerSeal
<1>2. CASE InsertRefused
  <2>1. /\ current' = current + 1 /\ i' = i + 1
        /\ placed'[current + 1] = <<>> /\ opened'[current + 1] = i + 1
        /\ \A s \in 1 .. current : placed'[s] = placed[s] /\ opened'[s] = opened[s]
    BY <1>0, <1>2, AfterInsertRefused DEF InsertRefused, NextPage
  <2>2. Len(placed'[current']) = 0
    BY <2>1
  <2>3. ASSUME NEW s \in Sealed'
        PROVE  opened'[s + 1] = opened'[s] + Len(placed'[s]) + 1
    <3>1. CASE s = current
      BY SMTT(30), <2>1, <3>1 DEF OneLostPerSeal
    <3>2. CASE s \in Sealed
      <4>1. s \in 1 .. current /\ s + 1 \in 1 .. current
        BY <3>2 DEF Sealed
      <4>2. placed'[s] = placed[s] /\ opened'[s] = opened[s] /\ opened'[s + 1] = opened[s + 1]
        BY <2>1, <4>1
      <4> QED BY <3>2, <4>2 DEF OneLostPerSeal
    <3> QED BY <2>1, <2>3, <3>1, <3>2 DEF Sealed
  <2>4. ASSUME NEW s \in 1 .. current', NEW k \in 1 .. Len(placed'[s])
        PROVE  placed'[s][k].page = opened'[s] + k - 1
    <3>1. s \in 1 .. current
      BY <2>1, <2>2, <2>4
    <3>2. placed'[s] = placed[s] /\ opened'[s] = opened[s]
      BY <2>1, <3>1
    <3> QED BY <2>4, <3>1, <3>2 DEF OneLostPerSeal
  <2>5. Len(opened)' = current' /\ Len(placed)' = current'
    BY <1>0 DEF HistoryPerSlot
  <2>6. opened'[1] = 1
    <3>1. 1 \in 1 .. current /\ opened[1] = 1
      BY DEF OneLostPerSeal
    <3> QED BY <2>1, <3>1
  <2>7. i' = opened'[current'] + Len(placed'[current'])
    BY <2>1, <2>2
  <2> QED BY ONLY <2>3, <2>4, <2>5, <2>6, <2>7 DEF OneLostPerSeal
<1>3. CASE CompressDataPage \/ CompressFailed \/ FinishStore \/ UNCHANGED storeVars
  BY <1>3, SlotsUntouched DEF OneLostPerSeal, Sealed, current
<1> QED BY <1>1, <1>2, <1>3 DEF StoreNext

(* Whatever the trace, exactly one page is lost for each slot sealed, and  *)
(* the others are stored once each and in trace order.                     *)
THEOREM OneLostPerSealAlways == StoreSpec => []OneLostPerSeal
  BY UnstoredInit, OneLostInit, OneLostStep, BaseInvariant, PTL DEF StoreSpec

-----------------------------------------------------------------------------
(* The layout of slots *)

(* Every entry ends at or before the slot's offset.  LaidOut implies it,   *)
(* by an induction over the entries that keeping it as an invariant spares.*)
Below(cell, entries) ==
  \A n \in 1 .. Len(cell.metainfo) : EndOf(cell, n, entries[n]) <= cell.offset

(* Inserting a page keeps a slot laid out: the new entry starts at the old *)
(* offset, and no byte below it is touched.                                *)
LEMMA InsertKeepsLayout ==
  ASSUME slot_size \in Nat, NEW cell \in SlotType, NEW entries \in Seq(PlacedEntry),
         dataPages \in Seq(Page), NEW p \in 1 .. Len(dataPages),
         Fits(cell, Compressed(dataPages[p])),
         LaidOut(cell, entries), Below(cell, entries)
  PROVE  LET new  == Inserted(cell, Compressed(dataPages[p]))
             more == Append(entries, [page |-> p, start |-> cell.offset])
         IN  LaidOut(new, more) /\ Below(new, more)
<1> DEFINE page  == dataPages[p]
           size  == CompressedSize[page.data]
           entry == [page |-> p, start |-> cell.offset]
           info  == [pfn |-> page.pfn, uid |-> page.uid, compressed_size |-> size]
           new   == Inserted(cell, Compressed(page))
           more  == Append(entries, entry)
           last  == Len(cell.metainfo)
<1>1. page \in Page /\ size \in Nat \ {0} /\ info \in MetaInfo /\ entry \in PlacedEntry
  BY ElementOfSeq, CompressedType DEF MetaInfo, PlacedEntry, SlotType
<1>2. /\ cell.metainfo \in Seq(MetaInfo) /\ cell.offset \in Nat
      /\ last \in Nat /\ Len(entries) = last
  BY DEF SlotType, LaidOut
<1>3. new.offset = cell.offset + size /\ new.metainfo = Append(cell.metainfo, info)
  BY <1>1, InsertedType
<1>4. /\ Len(new.metainfo) = last + 1
      /\ \A n \in 1 .. last : new.metainfo[n] = cell.metainfo[n]
      /\ new.metainfo[last + 1] = info
  BY <1>1, <1>2, <1>3, AppendProperties
<1>5. /\ Len(more) = last + 1
      /\ \A n \in 1 .. last : more[n] = entries[n]
      /\ more[last + 1] = entry
  BY <1>1, <1>2, AppendProperties
<1>6. /\ \A k \in 0 .. size - 1 : new.buf[cell.offset + k] = <<page.data, k>>
      /\ \A b \in 0 .. cell.offset - 1 : new.buf[b] = cell.buf[b]
  <2>1. new.buf = Written(cell, Compressed(page))
    BY <1>1, InsertedType
  <2>2. /\ \A k \in 0 .. size - 1 :
             Written(cell, Compressed(page))[cell.offset + k] = <<page.data, k>>
        /\ \A b \in 0 .. cell.offset - 1 :
             Written(cell, Compressed(page))[b] = cell.buf[b]
    BY <1>1, WrittenBytes
  <2> QED BY <2>1, <2>2
<1>7. ASSUME NEW n \in 1 .. last
      PROVE  /\ entries[n].start \in Nat /\ cell.metainfo[n].compressed_size \in Nat
             /\ EndOf(new, n, more[n]) = EndOf(cell, n, entries[n])
             /\ EndOf(cell, n, entries[n]) \in Nat
             /\ EndOf(cell, n, entries[n]) <= cell.offset
  <2>1. entries[n] \in PlacedEntry /\ cell.metainfo[n] \in MetaInfo
    BY SMTT(30), <1>2, ElementOfSeq
  <2>2. entries[n].start \in Nat /\ cell.metainfo[n].compressed_size \in Nat
    BY SMTT(30), <2>1 DEF PlacedEntry, MetaInfo
  <2>3. new.metainfo[n] = cell.metainfo[n] /\ more[n] = entries[n]
    BY <1>4, <1>5
  <2> HIDE DEF new, more, entry
  <2>4. EndOf(cell, n, entries[n]) <= cell.offset
    BY DEF Below
  <2>5. EndOf(new, n, more[n]) = EndOf(cell, n, entries[n])
    BY <2>3 DEF EndOf
  <2>6. EndOf(cell, n, entries[n]) \in Nat
    BY SMTT(30), <2>2 DEF EndOf
  <2> QED BY <2>2, <2>4, <2>5, <2>6
<1>8. EndOf(new, last + 1, more[last + 1]) = cell.offset + size
  BY <1>4, <1>5 DEF EndOf
<1>9. ASSUME NEW n \in 1 .. last
      PROVE  Describes(new, n, more[n])
  <2> DEFINE d == PageOf(entries[n]).data
  <2>1. Describes(cell, n, entries[n])
    BY <1>2 DEF LaidOut
  <2>2. ASSUME NEW k \in 0 .. CompressedSize[d] - 1
        PROVE  entries[n].start + k \in 0 .. cell.offset - 1
    <3>1. cell.metainfo[n].compressed_size = CompressedSize[d]
      BY <2>1 DEF Describes
    <3>2. /\ entries[n].start \in Nat /\ CompressedSize[d] \in Nat
          /\ entries[n].start + CompressedSize[d] <= cell.offset
      BY <1>7, <3>1 DEF EndOf
    <3> HIDE DEF d
    <3> QED BY SMTT(30), <1>2, <2>2, <3>2
  <2>3. new.metainfo[n] = cell.metainfo[n] /\ more[n] = entries[n]
    BY <1>4, <1>5
  <2> HIDE DEF new, more, entry
  <2>4. \A k \in 0 .. CompressedSize[d] - 1 : new.buf[entries[n].start + k] = <<d, k>>
    BY <1>6, <2>1, <2>2 DEF Describes
  <2> QED BY <2>1, <2>3, <2>4 DEF Describes
<1>10. Describes(new, last + 1, more[last + 1])
  <2>1. PageOf(more[last + 1]) = page /\ more[last + 1].start = cell.offset
    BY <1>5 DEF PageOf
  <2>2. new.metainfo[last + 1] = info
    BY <1>4
  <2> HIDE DEF new, more, page, last
  <2> QED BY <1>6, <2>1, <2>2 DEF Describes
<1>11. \A n \in 1 .. last + 1 : Describes(new, n, more[n])
  BY <1>2, <1>9, <1>10
<1>12. more[1].start = 0
  BY <1>2, <1>5 DEF LaidOut
<1>13. ASSUME NEW n \in 1 .. last
       PROVE  more[n + 1].start = EndOf(new, n, more[n])
  <2>1. CASE n < last
    <3>1. entries[n + 1].start = EndOf(cell, n, entries[n])
      BY <1>2, <2>1 DEF LaidOut
    <3> QED BY SMTT(30), <1>2, <1>5, <1>7, <2>1, <3>1
  <2>2. CASE n = last
    BY <1>2, <1>5, <1>7, <2>2 DEF LaidOut
  <2> QED BY <1>2, <2>1, <2>2
<1> HIDE DEF entry, info, new, more, last, size, page
<1>14. LaidOut(new, more)
  BY <1>2, <1>3, <1>4, <1>5, <1>8, <1>11, <1>12, <1>13 DEF LaidOut
<1>15. Below(new, more)
  BY <1>1, <1>2, <1>3, <1>4, <1>7, <1>8 DEF Below
<1> QED BY <1>14, <1>15 DEF entry, new, more, page

Layout == SlotLayout /\ \A s \in 1 .. current : Below(slots[s], placed[s])

LEMMA LayoutInit == Unstored => Layout
<1> SUFFICES ASSUME Unstored PROVE Layout
  OBVIOUS
<1>1. slots[1] = NewSlot /\ placed[1] = <<>> /\ current = 1 /\ Len(placed[1]) = 0
  BY DEF Unstored, current
<1> QED BY <1>1, NewSlotType DEF Unstored, Layout, SlotLayout, LaidOut, Below

LEMMA LayoutStep == Base /\ Layout /\ [StoreNext]_storeVars => Layout'
<1> SUFFICES ASSUME Base, Layout, [StoreNext]_storeVars,
                    NEW s \in 1 .. current'
             PROVE  LaidOut(slots[s], placed[s])' /\ Below(slots[s], placed[s])'
  BY DEF Layout, SlotLayout
<1>0. dataPages' = dataPages /\ current' = Len(slots') /\ current = Len(slots)
  BY DEF StoreNext, CompressDataPage, CompressFailed, InsertStored, InsertRefused,
         FinishStore, storeVars, current
<1>1. SUFFICES LaidOut(slots'[s], placed'[s]) /\ Below(slots'[s], placed'[s])
  BY <1>0 DEF LaidOut, Below, Describes, EndOf, PageOf
<1> USE SlotFacts
<1>2. CASE InsertStored
  <2>1. /\ slots'[current] = Inserted(slots[current], Compressed(dataPages[i]))
        /\ placed'[current] = Append(placed[current],
                                    [page |-> i, start |-> slots[current].offset])
        /\ \A t \in 1 .. current : t # current =>
             slots'[t] = slots[t] /\ placed'[t] = placed[t]
        /\ current' = current
    BY <1>0, <1>2, AfterInsertStored
  <2>2. CASE s = current
    <3>1. /\ slots[current] \in SlotType /\ placed[current] \in Seq(PlacedEntry)
          /\ LaidOut(slots[current], placed[current])
          /\ Below(slots[current], placed[current])
      BY DEF Layout, SlotLayout
    <3>2. /\ dataPages \in Seq(Page) /\ i \in 1 .. Len(dataPages)
          /\ Fits(slots[current], Compressed(dataPages[i]))
      BY <1>2, AtInsert DEF InsertStored, Base, StoreTypeOK
    <3> QED BY <2>1, <2>2, <3>1, <3>2, InsertKeepsLayout
  <2>3. CASE s # current
    BY <2>1, <2>3 DEF Layout, SlotLayout
  <2> QED BY <2>2, <2>3
<1>3. CASE InsertRefused
  <2>1. /\ slots'[current + 1] = NewSlot /\ placed'[current + 1] = <<>>
        /\ \A t \in 1 .. current : slots'[t] = slots[t] /\ placed'[t] = placed[t]
        /\ current' = current + 1
    BY <1>0, <1>3, AfterInsertRefused
  <2>2. CASE s = current + 1
    BY <2>1, <2>2, NewSlotType DEF LaidOut, Below
  <2>3. CASE s \in 1 .. current
    BY <2>1, <2>3 DEF Layout, SlotLayout
  <2> QED BY <2>1, <2>2, <2>3
<1>4. CASE CompressDataPage \/ CompressFailed \/ FinishStore \/ UNCHANGED storeVars
  <2>1. slots' = slots /\ placed' = placed /\ current' = current
    BY <1>4, SlotsUntouched
  <2> QED BY <2>1 DEF Layout, SlotLayout
<1> QED BY <1>2, <1>3, <1>4 DEF StoreNext

THEOREM LayoutInvariant == StoreSpec => []Layout
  BY UnstoredInit, LayoutInit, LayoutStep, BaseInvariant, PTL DEF StoreSpec

(* Whatever the trace, the slot size and the codec, adding up the          *)
(* compressed sizes of a slot's entries leads to the bytes of each.        *)
THEOREM SlotLayoutAlways == StoreSpec => []SlotLayout
  BY LayoutInvariant, PTL DEF Layout

-----------------------------------------------------------------------------
(* The tree *)

(* A fresh slot holds no frame, and an insertion adds the frame of its     *)
(* page to those a slot holds, and no other.                               *)
LEMMA NewSlotHolds == \A p : ~ HasFrame(NewSlot, p)
  BY DEF HasFrame, NewSlot

LEMMA InsertHolds ==
  ASSUME slot_size \in Nat, NEW cell \in SlotType, NEW page \in Page, Fits(cell, Compressed(page)),
         NEW p
  PROVE  HasFrame(Inserted(cell, Compressed(page)), p)
           <=> p = page.pfn \/ HasFrame(cell, p)
<1> DEFINE info == [pfn |-> page.pfn, uid |-> page.uid,
                    compressed_size |-> CompressedSize[page.data]]
           more == Inserted(cell, Compressed(page)).metainfo
           last == Len(cell.metainfo)
<1>1. more = Append(cell.metainfo, info)
  BY InsertedType
<1>2. cell.metainfo \in Seq(MetaInfo) /\ info \in MetaInfo
  BY CompressedType DEF SlotType, MetaInfo
<1>3. info.pfn = page.pfn
  OBVIOUS
<1> HIDE DEF info, more
<1>4. /\ last \in Nat /\ Len(more) = last + 1 /\ more[last + 1] = info
      /\ \A n \in 1 .. last : more[n] = cell.metainfo[n]
  BY <1>1, <1>2, AppendProperties
<1> HIDE DEF last
<1>5. ASSUME NEW n \in 1 .. Len(more), more[n].pfn = p
      PROVE  p = page.pfn \/ \E m \in 1 .. last : cell.metainfo[m].pfn = p
  <2>1. CASE n = last + 1
    BY <1>3, <1>4, <1>5, <2>1
  <2>2. CASE n \in 1 .. last
    BY <1>4, <1>5, <2>2
  <2> QED BY <1>4, <2>1, <2>2
<1>6. p = page.pfn => \E n \in 1 .. Len(more) : more[n].pfn = p
  <2>1. last + 1 \in 1 .. Len(more)
    BY <1>4
  <2> QED BY <1>3, <1>4, <2>1
<1>7. ASSUME NEW m \in 1 .. last, cell.metainfo[m].pfn = p
      PROVE  \E n \in 1 .. Len(more) : more[n].pfn = p
  <2>1. m \in 1 .. Len(more) /\ more[m] = cell.metainfo[m]
    BY <1>4
  <2> QED BY <1>7, <2>1
<1> QED BY <1>5, <1>6, <1>7 DEF HasFrame, more, last

LEMMA TreeInit == Unstored => TreeLatest
<1> SUFFICES ASSUME Unstored PROVE TreeLatest
  OBVIOUS
<1>1. slots[1] = NewSlot /\ current = 1 /\ slot_tree = [p \in Pfn |-> 0]
  BY DEF Unstored, current
<1>2. \A s \in 1 .. current : s = 1
  BY <1>1
<1>3. ASSUME NEW p \in Pfn
      PROVE  slot_tree[p] = 0 /\ \A s \in 1 .. current : ~ HasFrame(slots[s], p)
  BY <1>1, <1>2, NewSlotHolds
<1> QED BY <1>3 DEF TreeLatest, Holds

LEMMA TreeStep == Base /\ TreeLatest /\ [StoreNext]_storeVars => TreeLatest'
<1> SUFFICES ASSUME Base, TreeLatest, [StoreNext]_storeVars, NEW p \in Pfn
             PROVE  /\ slot_tree'[p] = 0 =>
                         \A s \in 1 .. current' : ~ HasFrame(slots'[s], p)
                    /\ slot_tree'[p] # 0 =>
                         /\ HasFrame(slots'[slot_tree'[p]], p)
                         /\ \A s \in slot_tree'[p] + 1 .. current' : ~ HasFrame(slots'[s], p)
  BY DEF TreeLatest, Holds
<1> DEFINE t == slot_tree[p]
<1>0. current' = Len(slots') /\ slot_tree \in [Pfn -> 0 .. current]
  BY DEF current, Base, StoreTypeOK
<1> USE SlotFacts
<1>1. /\ t \in 0 .. current
      /\ t = 0 => \A s \in 1 .. current : ~ HasFrame(slots[s], p)
      /\ t # 0 => /\ HasFrame(slots[t], p)
                  /\ \A s \in t + 1 .. current : ~ HasFrame(slots[s], p)
  BY <1>0 DEF TreeLatest, Holds
<1>2. CASE InsertStored
  <2> DEFINE page == dataPages[i]
  <2>1. /\ slots'[current] = Inserted(slots[current], Compressed(page))
        /\ \A s \in 1 .. current : s # current => slots'[s] = slots[s]
        /\ current' = current
    BY <1>0, <1>2, AfterInsertStored
  <2>2. page \in Page /\ slots[current] \in SlotType /\ Fits(slots[current], Compressed(page))
    BY <1>2, AtInsert DEF InsertStored
  <2>3. slot_tree' = [slot_tree EXCEPT ![page.pfn] = current]
    BY <1>2, <2>2, AtInsert, CompressedType DEF InsertStored, TreeUpdated
  <2>4. HasFrame(slots'[current], p) <=> p = page.pfn \/ HasFrame(slots[current], p)
    BY <2>1, <2>2, InsertHolds
  <2> HIDE DEF page, t
  <2>5. CASE p = page.pfn
    <3>1. slot_tree'[p] = current
      BY <1>0, <2>3, <2>5
    <3> QED BY <2>1, <2>4, <2>5, <3>1
  <2>6. CASE p # page.pfn
    <3>1. slot_tree'[p] = t
      BY <1>0, <2>3, <2>6 DEF t
    <3>2. \A s \in 1 .. current : HasFrame(slots'[s], p) <=> HasFrame(slots[s], p)
      <4> SUFFICES ASSUME NEW s \in 1 .. current
                   PROVE  HasFrame(slots'[s], p) <=> HasFrame(slots[s], p)
        OBVIOUS
      <4>1. CASE s = current
        BY <2>4, <2>6, <4>1
      <4>2. CASE s # current
        BY <2>1, <4>2
      <4> QED BY <4>1, <4>2
    <3>3. t # 0 => HasFrame(slots'[t], p)
      BY <1>1, <3>2
    <3>4. \A s \in t + 1 .. current : s \in 1 .. current
      BY <1>1
    <3>5. t # 0 => \A s \in t + 1 .. current : ~ HasFrame(slots'[s], p)
      BY <1>1, <3>2, <3>4
    <3>6. t = 0 => \A s \in 1 .. current : ~ HasFrame(slots'[s], p)
      BY <1>1, <3>2
    <3> QED BY <2>1, <3>1, <3>3, <3>5, <3>6
  <2> QED BY <2>5, <2>6
<1>3. CASE InsertRefused
  <2> HIDE DEF t
  <2>1. /\ slots'[current + 1] = NewSlot /\ current' = current + 1
        /\ \A s \in 1 .. current : slots'[s] = slots[s]
        /\ slot_tree'[p] = t
    BY <1>0, <1>3, AfterInsertRefused DEF InsertRefused, t
  <2>2. ~ HasFrame(slots'[current + 1], p)
    BY <2>1, NewSlotHolds
  <2>3. t # 0 => HasFrame(slots'[t], p)
    BY <1>1, <2>1
  <2>4. \A s \in 1 .. current + 1 : s \in 1 .. current \/ s = current + 1
    OBVIOUS
  <2>5. t = 0 => \A s \in 1 .. current + 1 : ~ HasFrame(slots'[s], p)
    BY <1>1, <2>1, <2>2, <2>4
  <2>6. \A s \in t + 1 .. current + 1 :
          (s \in 1 .. current /\ s \in t + 1 .. current) \/ s = current + 1
    <3>1. current \in Nat /\ t \in Nat
      BY <1>1
    <3> QED BY ONLY <3>1
  <2>7. t # 0 => \A s \in t + 1 .. current + 1 : ~ HasFrame(slots'[s], p)
    BY <1>1, <2>1, <2>2, <2>6
  <2> QED BY <2>1, <2>3, <2>5, <2>7
<1>4. CASE CompressDataPage \/ CompressFailed \/ FinishStore \/ UNCHANGED storeVars
  BY <1>1, <1>4, SlotsUntouched
<1> QED BY <1>2, <1>3, <1>4 DEF StoreNext

(* Whatever the trace, the tree leads to the newest slot that holds the    *)
(* frame, and knows every frame some slot holds.                           *)
THEOREM TreeLatestAlways == StoreSpec => []TreeLatest
  BY UnstoredInit, TreeInit, TreeStep, BaseInvariant, PTL DEF StoreSpec

-----------------------------------------------------------------------------
(* When slots are sealed, and what is listed *)

LEMMA SealInit == Unstored => SealOnlyWhenFull
  BY DEF Unstored, SealOnlyWhenFull, Sealed, current

LEMMA SealStep ==
  Base /\ SealOnlyWhenFull /\ [StoreNext]_storeVars => SealOnlyWhenFull'
<1> SUFFICES ASSUME Base, SealOnlyWhenFull, [StoreNext]_storeVars, NEW s \in Sealed'
             PROVE  slots'[s].offset
                      + CompressedSize[dataPages'[opened'[s + 1] - 1].data] > slot_size
  BY SizeKept DEF SealOnlyWhenFull
<1>0. current' = Len(slots')
  BY DEF current
<1> USE SlotFacts
<1>1. CASE InsertStored
  <2>1. /\ current' = current /\ opened' = opened /\ dataPages' = dataPages
        /\ \A t \in 1 .. current : t # current => slots'[t] = slots[t]
    BY <1>0, <1>1, AfterInsertStored DEF InsertStored
  <2>2. s \in Sealed /\ s \in 1 .. current /\ s # current
    BY <2>1 DEF Sealed
  <2> QED BY <2>1, <2>2 DEF SealOnlyWhenFull
<1>2. CASE InsertRefused
  <2>1. /\ current' = current + 1 /\ dataPages' = dataPages
        /\ opened'[current + 1] = i + 1
        /\ \A t \in 1 .. current : slots'[t] = slots[t] /\ opened'[t] = opened[t]
    BY <1>0, <1>2, AfterInsertRefused DEF InsertRefused
  <2>2. CASE s = current
    <3>1. ~ Fits(slots[current], Compressed(dataPages[i])) /\ dataPages[i] \in Page
      BY <1>2, AtInsert DEF InsertRefused
    <3>2. /\ slots[current].offset \in Nat
          /\ CompressedSize[dataPages[i].data] \in Nat
          /\ Compressed(dataPages[i]).compressed_size = CompressedSize[dataPages[i].data]
      BY SMTT(30), <3>1, CompressedType DEF SlotType
    <3>3. slots[current].offset + CompressedSize[dataPages[i].data] > slot_size
      BY ONLY <3>1, <3>2, slot_size \in Nat DEF Fits
    <3>4. i \in Nat /\ current \in 1 .. current /\ (i + 1) - 1 = i
      BY SlotFacts
    <3>5. opened'[s + 1] - 1 = i /\ slots'[s] = slots[current]
      BY <2>1, <2>2, <3>4
    <3> QED BY <2>1, <3>3, <3>5
  <2>3. CASE s \in Sealed
    <3>1. s \in 1 .. current /\ s + 1 \in 1 .. current
      BY <2>3 DEF Sealed
    <3> QED BY <2>1, <2>3, <3>1 DEF SealOnlyWhenFull
  <2>4. s = current \/ s \in Sealed
    <3>1. s \in 1 .. current /\ current \in Nat /\ current' = current + 1
      BY <2>1, SlotFacts DEF Sealed
    <3>2. s = current \/ s \in 1 .. (current - 1)
      BY ONLY <3>1
    <3> QED BY ONLY <3>2 DEF Sealed
  <2> QED BY ONLY <2>2, <2>3, <2>4
<1>3. CASE CompressDataPage \/ CompressFailed \/ FinishStore \/ UNCHANGED storeVars
  BY <1>3, SlotsUntouched DEF SealOnlyWhenFull, Sealed
<1> QED BY <1>1, <1>2, <1>3 DEF StoreNext

(* Whatever the trace, a slot is sealed only for a page it has no room for.*)
THEOREM SealOnlyWhenFullAlways == StoreSpec => []SealOnlyWhenFull
  BY UnstoredInit, SealInit, SealStep, BaseInvariant, PTL DEF StoreSpec

(* While the loop runs, slot_list is what was sealed so far. *)
Listed ==
  /\ pc # "stored" => slot_list = [s \in 1 .. current - 1 |-> s]
  /\ SlotListExact

LEMMA AppendToRange ==
  ASSUME NEW n \in Nat
  PROVE  Append([s \in 1 .. n |-> s], n + 1) = [s \in 1 .. n + 1 |-> s]
<1>1. [s \in 1 .. n |-> s] \in Seq(Nat) /\ Len([s \in 1 .. n |-> s]) = n
  OBVIOUS
<1> QED BY <1>1

LEMMA ListedStep == Base /\ Layout /\ Listed /\ [StoreNext]_storeVars => Listed'
<1> SUFFICES ASSUME Base, Layout, Listed, [StoreNext]_storeVars PROVE Listed'
  OBVIOUS
<1>0. current' = Len(slots') /\ current \in Nat \ {0}
  BY SlotFacts DEF current
<1>1. CASE CompressDataPage \/ CompressFailed
  BY <1>1, SlotsUntouched DEF Listed, SlotListExact, CompressDataPage, CompressFailed
<1>2. CASE InsertStored
  <2>1. current' = current /\ pc' # "stored" /\ pc # "stored" /\ slot_list' = slot_list
    BY <1>0, <1>2, AfterInsertStored DEF InsertStored, NextPage, current
  <2> QED BY <2>1 DEF Listed, SlotListExact
<1>3. CASE InsertRefused
  <2>1. /\ current' = current + 1 /\ pc' # "stored" /\ pc # "stored"
        /\ slot_list' = Append(slot_list, current)
    BY <1>0, <1>3, AfterInsertRefused DEF InsertRefused, NextPage, current
  <2>2. slot_list = [s \in 1 .. current - 1 |-> s]
    BY <2>1 DEF Listed
  <2>3. /\ current - 1 \in Nat /\ (current - 1) + 1 = current
        /\ (current + 1) - 1 = current
    BY <1>0
  <2>4. slot_list' = [s \in 1 .. current |-> s]
    BY <2>1, <2>2, <2>3, AppendToRange
  <2> QED BY <2>1, <2>3, <2>4 DEF Listed, SlotListExact
<1>4. CASE FinishStore
  <2>1. /\ pc = "compress" /\ pc' = "stored" /\ slot_list' = LastListed
        /\ placed' = placed /\ current' = current
    BY <1>4, SlotsUntouched DEF FinishStore
  <2>2. Len(placed[current]) = Len(slots[current].metainfo)
    BY SlotFacts DEF Layout, SlotLayout, LaidOut
  <2>3. slot_list = [s \in 1 .. current - 1 |-> s]
    BY <2>1 DEF Listed
  <2>4. current - 1 \in Nat /\ (current - 1) + 1 = current /\ Len(placed[current]) \in Nat
    BY <1>0, SlotFacts
  <2>5. slot_list' = [s \in 1 .. (IF Len(placed[current]) = 0
                                    THEN current - 1 ELSE current) |-> s]
    <3>1. CASE Len(placed[current]) = 0
      BY <2>1, <2>2, <2>3, <3>1 DEF LastListed
    <3>2. CASE Len(placed[current]) > 0
      <4>1. slot_list' = Append(slot_list, current)
        BY <2>1, <2>2, <3>2 DEF LastListed
      <4>2. slot_list' = [s \in 1 .. current |-> s]
        BY <2>3, <2>4, <4>1, AppendToRange
      <4> QED BY <3>2, <4>2
    <3> QED BY <2>4, <3>1, <3>2
  <2> QED BY <2>1, <2>5 DEF Listed, SlotListExact
<1>5. CASE UNCHANGED storeVars
  BY <1>5, SlotsUntouched DEF Listed, SlotListExact, storeVars
<1> QED BY <1>1, <1>2, <1>3, <1>4, <1>5 DEF StoreNext

LEMMA ListedInit == Unstored => Listed
<1> SUFFICES ASSUME Unstored PROVE Listed
  OBVIOUS
<1>1. current = 1 /\ slot_list = <<>> /\ pc = "compress"
  BY DEF Unstored, current
<1>2. [s \in 1 .. 0 |-> s] = <<>>
  OBVIOUS
<1> QED BY <1>1, <1>2 DEF Listed, SlotListExact

(* Whatever the trace, the slot count the program reports is that of the   *)
(* slots it allocated, but for a last one that is empty.                   *)
THEOREM SlotListExactAlways == StoreSpec => []SlotListExact
<1>1. Listed => SlotListExact
  BY DEF Listed
<1> QED BY <1>1, UnstoredInit, ListedInit, ListedStep, BaseInvariant, LayoutInvariant, PTL DEF StoreSpec

-----------------------------------------------------------------------------
(* The slots a replay may rely on *)

(* No page in a slot is one the codec reported an error for. *)
NoneRejected ==
  \A s \in 1 .. current : \A n \in 1 .. Len(placed[s]) : PageAt(s, n).data \notin Rejected

Stored == Base /\ Layout /\ TreeLatest /\ NoneRejected

-----------------------------------------------------------------------------
(* The packing loop, with the replay behind it *)

LEMMA NoneRejectedInit == Unstored => NoneRejected
<1> SUFFICES ASSUME Unstored PROVE NoneRejected
  OBVIOUS
<1>1. current = 1 /\ placed[1] = <<>> /\ Len(placed[1]) = 0
  BY DEF Unstored, current
<1> QED BY <1>1 DEF NoneRejected

(* Only a page the codec accepted reaches InsertCompressedDataPage. *)
LEMMA NoneRejectedStep == Base /\ NoneRejected /\ [StoreNext]_storeVars => NoneRejected'
<1> SUFFICES ASSUME Base, NoneRejected, [StoreNext]_storeVars,
                    NEW s \in 1 .. current', NEW n \in 1 .. Len(placed'[s])
             PROVE  dataPages'[placed'[s][n].page].data \notin Rejected
  BY DEF NoneRejected, PageAt, PageOf
<1>0. current' = Len(slots')
  BY DEF current
<1> USE SlotFacts
<1>1. CASE InsertStored
  <2> DEFINE entry == [page |-> i, start |-> slots[current].offset]
  <2>1. /\ current' = current /\ dataPages' = dataPages
        /\ placed'[current] = Append(placed[current], entry)
        /\ \A t \in 1 .. current : t # current => placed'[t] = placed[t]
    BY <1>0, <1>1, AfterInsertStored DEF InsertStored
  <2>2. entry \in PlacedEntry /\ entry.page = i
    BY <1>1, AtInsert DEF InsertStored, PlacedEntry, SlotType
  <2>3. dataPages[i].data \notin Rejected
    BY <1>1 DEF InsertStored, Base, Pending
  <2> HIDE DEF entry
  <2>4. CASE s = current
    <3>1. /\ Len(placed'[current]) = Len(placed[current]) + 1
          /\ \A m \in 1 .. Len(placed[current]) : placed'[current][m] = placed[current][m]
          /\ placed'[current][Len(placed[current]) + 1] = entry
      BY <2>1, <2>2, AppendProperties
    <3>2. n \in 1 .. Len(placed[s]) \/ n = Len(placed[s]) + 1
      BY <2>4, <3>1
    <3> QED BY <2>1, <2>2, <2>3, <2>4, <3>1, <3>2 DEF NoneRejected, PageAt, PageOf
  <2>5. CASE s # current
    BY <2>1, <2>5 DEF NoneRejected, PageAt, PageOf
  <2> QED BY <2>4, <2>5
<1>2. CASE InsertRefused
  <2>1. /\ current' = current + 1 /\ dataPages' = dataPages
        /\ placed'[current + 1] = <<>>
        /\ \A t \in 1 .. current : placed'[t] = placed[t]
    BY <1>0, <1>2, AfterInsertRefused DEF InsertRefused
  <2>2. s \in 1 .. current
    BY <2>1
  <2> QED BY <2>1, <2>2 DEF NoneRejected, PageAt, PageOf
<1>3. CASE CompressDataPage \/ CompressFailed \/ FinishStore \/ UNCHANGED storeVars
  <2>1. placed' = placed /\ current' = current /\ dataPages' = dataPages
    BY <1>3, SlotsUntouched
  <2> QED BY <2>1 DEF NoneRejected, PageAt, PageOf
<1> QED BY <1>1, <1>2, <1>3 DEF StoreNext

LEMMA StoredInit == Unstored => Stored
  BY BaseInit, LayoutInit, TreeInit, NoneRejectedInit DEF Stored

LEMMA StoredStep == Stored /\ [Next]_vars => Stored'
<1>1. [Next]_vars => [StoreNext]_storeVars
  BY DEF Next, vars
<1> QED BY <1>1, BaseStep, LayoutStep, TreeStep, NoneRejectedStep DEF Stored

(* What the packing loop promises the replay. *)
THEOREM StoredAlways == Spec => []Stored
<1>1. Init => Unstored
  BY UnstoredInit DEF Init
<1> QED BY <1>1, StoredInit, StoredStep, PTL DEF Spec

(* The program that replays keeps every promise of the packing loop, which *)
(* is proved of the loop alone above: nothing in the replay undoes         *)
(* the types, the layout, the tree, the account of lost pages or slot_list.*)
THEOREM StoreStaysCorrect ==
  Spec => [](/\ StoreTypeOK /\ SlotLayout /\ TreeLatest /\ OneLostPerSeal
             /\ SealOnlyWhenFull /\ SlotListExact /\ StoreLeaksNothing)
<1>1. Init => OneLostPerSeal /\ SealOnlyWhenFull /\ Listed
  BY UnstoredInit, OneLostInit, SealInit, ListedInit DEF Init
<1>2. Stored /\ OneLostPerSeal /\ SealOnlyWhenFull /\ Listed /\ [Next]_vars
        => (OneLostPerSeal /\ SealOnlyWhenFull /\ Listed)'
  <2>1. [Next]_vars => [StoreNext]_storeVars
    BY DEF Next, vars
  <2> QED BY <2>1, OneLostStep, SealStep, ListedStep DEF Stored
<1>3. Stored => StoreTypeOK /\ SlotLayout /\ TreeLatest /\ StoreLeaksNothing
  BY DEF Stored, Base, Layout, Pending, StoreLeaksNothing
<1>4. Listed => SlotListExact
  BY DEF Listed
<1> QED BY <1>1, <1>2, <1>3, <1>4, StoredAlways, PTL DEF Spec

-----------------------------------------------------------------------------
(* The replay's inductive invariant *)

(* The frame of entry n of slot s. *)
FrameAt(s, n) == slots[s].metainfo[n].pfn

(* Entry n is the first of frame p in slot s. *)
FirstOf(s, n, p) ==
  /\ n \in 1 .. Len(slots[s].metainfo)
  /\ FrameAt(s, n) = p
  /\ \A m \in 1 .. n - 1 : FrameAt(s, m) # p

(* d answers a record of frame p: Expected(p), without its choices. *)
Answers(p, d) ==
  IF slot_tree[p] = 0
    THEN d = Skipped
    ELSE \E n \in 1 .. Len(placed[slot_tree[p]]) :
           FirstOf(slot_tree[p], n, p) /\ d = PageAt(slot_tree[p], n).data

(* Before its first step the replay is empty, and from then on the packing *)
(* loop is done: the slots a scan walks no longer change.                  *)
Phases ==
  /\ rpc = "waiting" => restored = <<>> /\ ops = <<>>
  /\ rpc # "waiting" => pc = "stored"

(* While a record is being answered, its slot is the one the tree has.     *)
AtRecord ==
  rpc \in {"scan", "decompress"} =>
    r <= Len(ops) /\ slot = slot_tree[Record.pfn] /\ slot # 0

(* The page held between the scan and the decompression is the compressed  *)
(* form of the first page of the frame in the slot.                        *)
Fetched ==
  /\ rpc = "decompress" => /\ FirstOf(slot, j, Record.pfn)
                           /\ fetched = Compressed(PageAt(slot, j))
  /\ rpc # "decompress" => fetched = NoPage

AnsweredRight ==
  \A q \in 1 .. Len(restored) : /\ restored[q].pfn = ops[q].pfn
                                /\ Answers(ops[q].pfn, restored[q].data)

Replaying ==
  /\ ReplayTypeOK /\ Phases /\ AtRecord /\ ScanAligned /\ Fetched
  /\ ReplayNeverFails /\ AnsweredRight

-----------------------------------------------------------------------------
(* What a scan finds in a slot *)

(* Entry n of slot s: it describes its page, which the codec accepted, and *)
(* its bytes lie within the slot.                                          *)
LEMMA EntryFacts ==
  ASSUME Stored, NEW s \in 1 .. current, NEW n \in 1 .. Len(slots[s].metainfo)
  PROVE  /\ Len(placed[s]) = Len(slots[s].metainfo)
         /\ Len(slots[s].metainfo) \in Nat
         /\ PageAt(s, n) \in Page /\ PageAt(s, n).data \notin Rejected
         /\ slots[s].metainfo[n] =
              [pfn |-> PageAt(s, n).pfn, uid |-> PageAt(s, n).uid,
               compressed_size |-> CompressedSize[PageAt(s, n).data]]
         /\ placed[s][n].start \in Nat
         /\ placed[s][n].start + CompressedSize[PageAt(s, n).data] <= slot_size
         /\ \A k \in 0 .. CompressedSize[PageAt(s, n).data] - 1 :
              slots[s].buf[placed[s][n].start + k] = <<PageAt(s, n).data, k>>
<1> USE SlotFacts DEF Stored
<1>1. /\ LaidOut(slots[s], placed[s]) /\ Below(slots[s], placed[s])
      /\ slots[s] \in SlotType /\ placed[s] \in Seq(PlacedEntry)
  BY DEF Layout, SlotLayout
<1>2. Len(placed[s]) = Len(slots[s].metainfo) /\ Len(placed[s]) \in Nat
  BY <1>1 DEF LaidOut
<1>3. placed[s][n] \in PlacedEntry
  BY <1>1, <1>2, ElementOfSeq
<1>4. PageAt(s, n) \in Page
  BY <1>3, ElementOfSeq DEF PageAt, PageOf, PlacedEntry, Base, StoreTypeOK
<1>5. Describes(slots[s], n, placed[s][n])
  BY <1>1 DEF LaidOut
<1>6. EndOf(slots[s], n, placed[s][n]) <= slots[s].offset
  BY <1>1 DEF Below
<1>7. slots[s].offset \in Nat /\ slots[s].offset <= slot_size
  BY <1>1 DEF SlotType
<1>8. placed[s][n].start \in Nat
  BY <1>3 DEF PlacedEntry
<1>9. CompressedSize[PageAt(s, n).data] \in Nat
  BY <1>4, CompressedType
<1>10. placed[s][n].start + CompressedSize[PageAt(s, n).data] <= slots[s].offset
  BY <1>5, <1>6 DEF EndOf, Describes, PageAt
<1>11. placed[s][n].start + CompressedSize[PageAt(s, n).data] <= slot_size
  <2>1. slot_size \in Nat
    OBVIOUS
  <2> QED BY ONLY <1>7, <1>8, <1>9, <1>10, <2>1
<1>12. PageAt(s, n).data \notin Rejected
  BY <1>2 DEF NoneRejected
<1> QED BY <1>2, <1>4, <1>5, <1>8, <1>11, <1>12 DEF Describes, PageAt

(* The bytes copied out from where an entry starts are its page's. *)
LEMMA EntryBytes ==
  ASSUME Stored, NEW s \in 1 .. current, NEW n \in 1 .. Len(slots[s].metainfo)
  PROVE  ReadBytes(s, placed[s][n].start, slots[s].metainfo[n].compressed_size)
           = BytesOf(PageAt(s, n).data)
<1> DEFINE d     == PageAt(s, n).data
           start == placed[s][n].start
           size  == CompressedSize[d]
<1>1. /\ start \in Nat /\ size \in Nat \ {0} /\ start + size <= slot_size
      /\ slots[s].metainfo[n].compressed_size = size
      /\ \A k \in 0 .. size - 1 : slots[s].buf[start + k] = <<d, k>>
  <2>1. /\ PageAt(s, n) \in Page /\ start \in Nat /\ start + size <= slot_size
        /\ \A k \in 0 .. size - 1 : slots[s].buf[start + k] = <<d, k>>
    BY EntryFacts
  <2>2. slots[s].metainfo[n].compressed_size = size
    <3>1. slots[s].metainfo[n] = [pfn |-> PageAt(s, n).pfn, uid |-> PageAt(s, n).uid,
                                  compressed_size |-> size]
      BY EntryFacts
    <3> QED BY <3>1
  <2>3. size \in Nat \ {0}
    BY <2>1, CompressedType
  <2> QED BY <2>1, <2>2, <2>3
<1> HIDE DEF start, d
<1>2. \A k \in 0 .. size - 1 : start + k < slot_size
  <2>1. slot_size \in Nat
    BY SlotFacts DEF Stored
  <2> HIDE DEF size
  <2> QED BY ONLY <1>1, <2>1
<1>3. ReadBytes(s, start, size) = [k \in 0 .. size - 1 |-> <<d, k>>]
  BY <1>1, <1>2 DEF ReadBytes
<1> QED BY <1>1, <1>3 DEF BytesOf, d, start

(* Decompressing what the codec produced gives back what it was made from. *)
LEMMA DecodedExactly ==
  ASSUME NEW page \in Page, page.data \notin Rejected
  PROVE  Decoded(Compressed(page)) = {page.data}
<1>1. /\ page.data \in Data \ Rejected
      /\ Compressed(page).buf = BytesOf(page.data)
  BY CompressedType
<1>2. ASSUME NEW d \in Data, NEW e \in Data, BytesOf(d) = BytesOf(e)
      PROVE  d = e
  <2>1. 0 \in 0 .. CompressedSize[d] - 1 /\ 0 \in 0 .. CompressedSize[e] - 1
    BY CodecAssumption
  <2>2. BytesOf(d)[0] = <<d, 0>> /\ BytesOf(e)[0] = <<e, 0>>
    BY <2>1 DEF BytesOf
  <2> QED BY <1>2, <2>2
<1> QED BY <1>1, <1>2 DEF Decoded

(* A slot the tree points to has the frame at an entry the scan has not    *)
(* passed, so the scan never runs off the end of its metainfo.             *)
LEMMA FrameAhead ==
  ASSUME Stored, NEW p \in Pfn, slot_tree[p] # 0, NEW n \in Nat \ {0},
         \A m \in 1 .. n - 1 : FrameAt(slot_tree[p], m) # p
  PROVE  slot_tree[p] \in 1 .. current /\ n \in 1 .. Len(slots[slot_tree[p]].metainfo)
<1>1. slot_tree[p] \in 1 .. current
  BY SlotFacts DEF Stored, Base, StoreTypeOK
<1>2. PICK m \in 1 .. Len(slots[slot_tree[p]].metainfo) : FrameAt(slot_tree[p], m) = p
  BY DEF Stored, TreeLatest, Holds, HasFrame, FrameAt
<1>3. slots[slot_tree[p]] \in SlotType
  BY <1>1, SlotFacts DEF Stored
<1>4. Len(slots[slot_tree[p]].metainfo) \in Nat
  BY <1>3 DEF SlotType
<1>5. m \notin 1 .. n - 1
  BY <1>2
<1> QED BY <1>1, <1>2, <1>4, <1>5

-----------------------------------------------------------------------------
(* The replay, step by step *)

AnswerRecord == [pfn : Pfn, data : Data \cup {Skipped}]

LEMMA ReplayingInit == Unstored /\ ReplayInit => Replaying
<1> SUFFICES ASSUME Unstored, ReplayInit PROVE Replaying
  OBVIOUS
<1>1. /\ rpc = "waiting" /\ ops = <<>> /\ r = 1 /\ slot = 0 /\ j = 0 /\ data_offset = 0
      /\ fetched = NoPage /\ restored = <<>>
  BY DEF ReplayInit
<1>3. slot \in 0 .. Len(slots)
  <2>1. Len(slots) = 1
    BY NewSlotType DEF Unstored
  <2> QED BY <1>1, <2>1
<1>4. ReplayTypeOK
  BY <1>1, <1>3 DEF ReplayTypeOK, Unstored
<1>5. Phases /\ AtRecord /\ ScanAligned /\ Fetched /\ ReplayNeverFails /\ AnsweredRight
  BY <1>1 DEF Phases, AtRecord, ScanAligned, Fetched, ReplayNeverFails, AnsweredRight
<1> QED BY <1>4, <1>5 DEF Replaying

(* A step of the packing loop: the replay has not started. *)
LEMMA StoreStepKeepsReplay ==
  ASSUME Stored, Replaying, StoreNext, UNCHANGED replayVars
  PROVE  Replaying'
<1>1. pc # "stored"
  BY DEF StoreNext, CompressDataPage, CompressFailed, InsertStored, InsertRefused,
         FinishStore
<1>2. rpc = "waiting" /\ restored = <<>>
  BY <1>1 DEF Replaying, Phases
<1>3. Len(slots) <= Len(slots') /\ Len(slots) \in Nat /\ Len(slots') \in Nat
  <2>1. CASE InsertStored
    BY <2>1, AfterInsertStored, SlotFacts DEF Stored
  <2>2. CASE InsertRefused
    BY <2>2, AfterInsertRefused, SlotFacts DEF Stored
  <2>3. CASE CompressDataPage \/ CompressFailed \/ FinishStore
    BY <2>3, SlotsUntouched, SlotFacts DEF Stored
  <2> QED BY <2>1, <2>2, <2>3 DEF StoreNext
<1>4. slot \in 0 .. Len(slots')
  BY <1>3 DEF Replaying, ReplayTypeOK
<1>5. ReplayTypeOK'
  BY <1>4, SizeKept DEF replayVars, Replaying, ReplayTypeOK
<1>6. rpc' = "waiting" /\ restored' = <<>> /\ ops' = <<>> /\ fetched' = NoPage
  BY <1>2 DEF replayVars, Replaying, Phases, Fetched
<1>7. Phases' /\ AtRecord' /\ ScanAligned' /\ Fetched' /\ ReplayNeverFails'
  BY <1>6 DEF Phases, AtRecord, ScanAligned, Fetched, ReplayNeverFails
<1>8. AnsweredRight'
  BY <1>6 DEF AnsweredRight
<1> QED BY <1>5, <1>7, <1>8 DEF Replaying

(* What every step of the replay starts from. *)
LEMMA RecordFacts ==
  ASSUME Stored, Replaying
  PROVE  /\ r \in Nat \ {0} /\ Len(ops) \in Nat /\ slot \in 0 .. current
         /\ r <= Len(ops) => Record.pfn \in Pfn /\ slot_tree[Record.pfn] \in 0 .. current
         /\ restored \in Seq(AnswerRecord) /\ Len(restored) = r - 1
<1>1. ops \in Seq([pfn : Pfn, uid : Uid]) /\ r \in 1 .. Len(ops) + 1
  BY DEF Replaying, ReplayTypeOK
<1>2. r <= Len(ops) => Record.pfn \in Pfn
  <2> SUFFICES ASSUME r <= Len(ops) PROVE ops[r].pfn \in Pfn
    BY DEF Record
  <2>1. r \in 1 .. Len(ops)
    BY <1>1
  <2>2. ops[r] \in [pfn : Pfn, uid : Uid]
    BY <1>1, <2>1, ElementOfSeq
  <2> QED BY <2>2
<1>3. slot_tree \in [Pfn -> 0 .. current]
  BY DEF Stored, Base, StoreTypeOK, current
<1> QED BY <1>1, <1>2, <1>3 DEF Replaying, ReplayTypeOK, AnswerRecord, current

(* One more answer, of the type and the value it must have. *)
LEMMA AnswerStep ==
  ASSUME Stored, Replaying, UNCHANGED storeVars, UNCHANGED ops, r <= Len(ops),
         NEW d \in Data \cup {Skipped}, Answers(Record.pfn, d), Answered(d)
  PROVE  /\ restored' \in Seq(AnswerRecord) /\ Len(restored') = r' - 1
         /\ r' \in 1 .. Len(ops') + 1
         /\ AnsweredRight'
<1> DEFINE e == [pfn |-> Record.pfn, data |-> d]
<1>1. restored' = Append(restored, e) /\ r' = r + 1
  BY DEF Answered
<1>2. e \in AnswerRecord /\ e.data = d /\ e.pfn = Record.pfn
  BY RecordFacts DEF AnswerRecord
<1> HIDE DEF e
<1>3. /\ restored' \in Seq(AnswerRecord) /\ Len(restored') = Len(restored) + 1
      /\ \A q \in 1 .. Len(restored) : restored'[q] = restored[q]
      /\ restored'[Len(restored) + 1] = e
  BY <1>1, <1>2, RecordFacts, AppendProperties
<1>4. Len(restored') = r' - 1 /\ r' \in 1 .. Len(ops') + 1
  BY SMTT(30), <1>1, <1>3, RecordFacts
<1>5. ASSUME NEW q \in 1 .. Len(restored')
      PROVE  restored'[q].pfn = ops[q].pfn /\ Answers(ops[q].pfn, restored'[q].data)
  <2>1. CASE q \in 1 .. Len(restored)
    BY <1>3, <2>1 DEF Replaying, AnsweredRight
  <2>2. CASE q = Len(restored) + 1
    <3>1. q = r
      BY <2>2, RecordFacts
    <3> QED BY <1>2, <1>3, <2>2, <3>1 DEF Record
  <2>3. Len(restored) \in Nat
    BY RecordFacts
  <2> QED BY <1>3, <2>1, <2>2, <2>3
<1>6. AnsweredRight'
  BY <1>5 DEF AnsweredRight, Answers, FirstOf, FrameAt, PageAt, PageOf, storeVars
<1> QED BY <1>3, <1>4, <1>6

(* An answer stays right as long as neither the store nor the answers change.*)
LEMMA AnsweredKept ==
  ASSUME AnsweredRight, UNCHANGED storeVars, UNCHANGED <<ops, restored>>
  PROVE  AnsweredRight'
<1>1. /\ slots' = slots /\ slot_tree' = slot_tree /\ placed' = placed
      /\ dataPages' = dataPages /\ ops' = ops /\ restored' = restored
  BY SMTT(30) DEF storeVars
<1>2. \A q \in 1 .. Len(restored) : /\ restored[q].pfn = ops[q].pfn
                                    /\ Answers(ops[q].pfn, restored[q].data)
  BY ONLY SMTT(30), AnsweredRight DEF AnsweredRight
<1>3. ASSUME NEW q \in 1 .. Len(restored)
      PROVE  Answers(ops[q].pfn, restored[q].data)'
  <2>1. Answers(ops[q].pfn, restored[q].data)
    BY <1>2
  <2> QED BY ONLY <1>1, <2>1 DEF Answers, FirstOf, FrameAt, PageAt, PageOf
<1>4. \A q \in 1 .. Len(restored) : (restored[q].pfn = ops[q].pfn)'
  BY ONLY <1>1, <1>2
<1>5. (1 .. Len(restored))' = 1 .. Len(restored)
  BY <1>1
<1> QED BY ONLY <1>3, <1>4, <1>5 DEF AnsweredRight

(* The tree has the frame: the scan of its slot starts at its first entry. *)
LEMMA FindSlotStep ==
  ASSUME Stored, Replaying, FindSlot, UNCHANGED storeVars
  PROVE  Replaying'
<1>1. /\ rpc = "replay" /\ r <= Len(ops) /\ slot_tree[Record.pfn] # 0
      /\ slot' = slot_tree[Record.pfn] /\ j' = 1 /\ data_offset' = 0
      /\ rpc' = AtEntry(slot', 1)
      /\ UNCHANGED <<ops, r, fetched, restored>>
      /\ UNCHANGED storeVars
  BY DEF FindSlot
<1>2. Record.pfn \in Pfn /\ Record' = Record
  BY <1>1, RecordFacts DEF Record
<1>3. slot' \in 1 .. current /\ 1 \in 1 .. Len(slots[slot'].metainfo)
  <2>1. 1 \in Nat \ {0} /\ 1 .. 1 - 1 = {}
    OBVIOUS
  <2>2. \A m \in 1 .. 1 - 1 : FrameAt(slot_tree[Record.pfn], m) # Record.pfn
    BY ONLY <2>1
  <2>3. /\ slot_tree[Record.pfn] \in 1 .. current
        /\ 1 \in 1 .. Len(slots[slot_tree[Record.pfn]].metainfo)
    BY <1>1, <1>2, <2>1, <2>2, FrameAhead
  <2> QED BY ONLY <1>1, <2>3
<1>4. rpc' = "scan"
  BY <1>1, <1>3 DEF AtEntry
<1>5. placed[slot'][1].start = 0
  BY <1>3, SlotFacts DEF Stored, Layout, SlotLayout, LaidOut
<1>6. ReplayTypeOK'
  <2>1. slot' \in 0 .. Len(slots') /\ 0 \in 0 .. slot_size'
    BY <1>1, <1>3, SlotFacts DEF storeVars, current, Stored
  <2> QED BY <1>1, <1>4, <2>1 DEF Replaying, ReplayTypeOK
<1>7. Phases' /\ AtRecord' /\ Fetched' /\ ReplayNeverFails'
  BY <1>1, <1>2, <1>4
     DEF Replaying, Phases, AtRecord, Fetched, ReplayNeverFails, storeVars
<1>8. ScanAligned'
  BY <1>1, <1>3, <1>5 DEF ScanAligned, storeVars
<1>9. AnsweredRight'
  BY <1>1, AnsweredKept DEF Replaying
<1> QED BY <1>6, <1>7, <1>8, <1>9 DEF Replaying

(* While the scan is at an entry, the frame is there or still ahead. *)
LEMMA AtScan ==
  ASSUME Stored, Replaying, rpc = "scan"
  PROVE  /\ r <= Len(ops) /\ Record.pfn \in Pfn
         /\ slot = slot_tree[Record.pfn] /\ slot \in 1 .. current
         /\ j \in 1 .. Len(slots[slot].metainfo) /\ j \in Nat \ {0}
         /\ data_offset = placed[slot][j].start
         /\ \A m \in 1 .. j - 1 : FrameAt(slot, m) # Record.pfn
<1>1. r <= Len(ops) /\ slot = slot_tree[Record.pfn] /\ slot # 0
  BY DEF Replaying, AtRecord
<1>2. /\ j \in 1 .. Len(slots[slot].metainfo) /\ data_offset = placed[slot][j].start
      /\ \A m \in 1 .. j - 1 : FrameAt(slot, m) # Record.pfn
  BY DEF Replaying, ScanAligned, FrameAt
<1>3. Record.pfn \in Pfn /\ slot \in 0 .. current
  BY <1>1, RecordFacts
<1>4. current \in Nat
  BY SlotFacts DEF Stored
<1> QED BY <1>1, <1>2, <1>3, <1>4

(* Passing an entry of another frame. *)
LEMMA ScanEntryStep ==
  ASSUME Stored, Replaying, ScanEntry, UNCHANGED storeVars
  PROVE  Replaying'
<1>1. /\ rpc = "scan" /\ Entry.pfn # Record.pfn
      /\ data_offset' = data_offset + Entry.compressed_size /\ j' = j + 1
      /\ rpc' = AtEntry(slot, j + 1)
      /\ UNCHANGED <<ops, r, slot, fetched, restored>>
      /\ UNCHANGED storeVars
  BY DEF ScanEntry, OffsetAfterEntry
<1>2. \A m \in 1 .. (j + 1) - 1 : FrameAt(slot, m) # Record.pfn
  <2>1. j \in Nat /\ FrameAt(slot, j) # Record.pfn
        /\ \A m \in 1 .. j - 1 : FrameAt(slot, m) # Record.pfn
    BY <1>1, AtScan DEF Entry, FrameAt
  <2>2. \A m \in 1 .. (j + 1) - 1 : m \in 1 .. j - 1 \/ m = j
    BY ONLY <2>1
  <2> QED BY ONLY <2>1, <2>2
<1>3. j + 1 \in 1 .. Len(slots[slot].metainfo)
  <2>1. slot_tree[Record.pfn] # 0 /\ j + 1 \in Nat \ {0}
    BY <1>1, AtScan
  <2> QED BY <1>1, <1>2, <2>1, AtScan, FrameAhead
<1>4. rpc' = "scan" /\ Record' = Record
  BY <1>1, <1>3 DEF AtEntry, Record
<1>5. data_offset' = placed[slot][j + 1].start
  <2>1. LaidOut(slots[slot], placed[slot])
    BY <1>1, AtScan DEF Stored, Layout, SlotLayout
  <2>2. j \in 1 .. Len(slots[slot].metainfo) - 1
    BY <1>1, <1>3, AtScan
  <2>3. placed[slot][j + 1].start = EndOf(slots[slot], j, placed[slot][j])
    BY <2>1, <2>2 DEF LaidOut
  <2> QED BY <1>1, <2>3, AtScan DEF EndOf, Entry
<1>6. data_offset' \in 0 .. slot_size
  <2>1. slot \in 1 .. current
    BY <1>1, AtScan
  <2>2. placed[slot] \in Seq(PlacedEntry) /\ Len(placed[slot]) = Len(slots[slot].metainfo)
    BY <2>1, SlotFacts DEF Stored, Layout, SlotLayout, LaidOut
  <2>3. placed[slot][j + 1] \in PlacedEntry
    BY <1>3, <2>2, ElementOfSeq
  <2> QED BY <1>5, <2>3 DEF PlacedEntry
<1>7. ReplayTypeOK'
  BY <1>1, <1>4, <1>6 DEF Replaying, ReplayTypeOK, storeVars
<1>8. Phases' /\ AtRecord' /\ Fetched' /\ ReplayNeverFails'
  BY <1>1, <1>4 DEF Replaying, Phases, AtRecord, Fetched, ReplayNeverFails, storeVars
<1>9. ScanAligned'
  BY <1>1, <1>2, <1>3, <1>4, <1>5 DEF ScanAligned, FrameAt, storeVars
<1>10. AnsweredRight'
  BY <1>1, AnsweredKept DEF Replaying
<1> QED BY <1>7, <1>8, <1>9, <1>10 DEF Replaying

(* What is copied out is the first page of the frame, as the codec made it.*)
LEMMA ScanFoundStep ==
  ASSUME Stored, Replaying, ScanFound, UNCHANGED storeVars
  PROVE  Replaying'
<1> DEFINE page == PageAt(slot, j)
<1>1. /\ rpc = "scan" /\ rpc' = "decompress" /\ Entry.pfn = Record.pfn
      /\ fetched' = [pfn |-> Entry.pfn, uid |-> Entry.uid,
                     buf |-> ReadBytes(slot, data_offset, Entry.compressed_size),
                     compressed_size |-> Entry.compressed_size]
      /\ UNCHANGED <<ops, r, slot, j, data_offset, restored>>
      /\ UNCHANGED storeVars
  BY DEF ScanFound
<1>2. slot \in 1 .. current /\ j \in 1 .. Len(slots[slot].metainfo)
  BY <1>1, AtScan
<1>3. FirstOf(slot, j, Record.pfn)
  BY <1>1, AtScan DEF FirstOf, FrameAt, Entry
<1>4. /\ page \in Page
      /\ Entry = [pfn |-> page.pfn, uid |-> page.uid,
                  compressed_size |-> CompressedSize[page.data]]
  BY <1>2, EntryFacts DEF Entry
<1>5. ReadBytes(slot, data_offset, Entry.compressed_size) = BytesOf(page.data)
  BY <1>1, <1>2, AtScan, EntryBytes DEF Entry
<1>6. fetched' = Compressed(page)
  BY <1>1, <1>4, <1>5 DEF Compressed
<1> HIDE DEF page
<1>7. fetched = NoPage /\ fetched' # NoPage
  BY <1>1, <1>4, <1>6, NullAssumption DEF Replaying, Fetched
<1>8. ReplayTypeOK'
  <2>1. fetched'.pfn \in Pfn /\ fetched'.uid \in Uid
    BY <1>4, <1>6, CompressedType
  <2> QED BY <1>1, <1>7, <2>1 DEF Replaying, ReplayTypeOK, storeVars
<1>9. Phases' /\ AtRecord' /\ ScanAligned' /\ ReplayNeverFails'
  BY <1>1 DEF Replaying, Phases, AtRecord, Record, ScanAligned, ReplayNeverFails, storeVars
<1>10. Fetched'
  BY <1>1, <1>3, <1>6
     DEF Fetched, FirstOf, FrameAt, PageAt, PageOf, Record, storeVars, page
<1>11. AnsweredRight'
  BY <1>1, AnsweredKept DEF Replaying
<1> QED BY <1>8, <1>9, <1>10, <1>11 DEF Replaying

(* Decompression gives back the page the slot holds for the record. *)
LEMMA DecompressStep ==
  ASSUME Stored, Replaying, DecompressDataPage, UNCHANGED storeVars
  PROVE  Replaying'
<1> DEFINE page == PageAt(slot, j)
<1>1. rpc = "decompress" /\ FirstOf(slot, j, Record.pfn) /\ fetched = Compressed(page)
  BY DEF DecompressDataPage, Replaying, Fetched
<1>2. r <= Len(ops) /\ slot = slot_tree[Record.pfn] /\ slot # 0 /\ slot \in 1 .. current
  BY <1>1, RecordFacts, SlotFacts DEF Replaying, AtRecord, Stored
<1>3. /\ page \in Page /\ page.data \notin Rejected /\ page.data \in Data
      /\ j \in 1 .. Len(placed[slot])
  BY <1>1, <1>2, EntryFacts, CompressedType DEF FirstOf
<1>4. Decoded(fetched) = {page.data}
  BY <1>1, <1>3, DecodedExactly
<1> HIDE DEF page
<1>5. /\ rpc' = "replay" /\ Answered(page.data)
      /\ fetched' = NoPage /\ UNCHANGED <<ops, slot, j, data_offset>>
  BY <1>4 DEF DecompressDataPage
<1>6. Answers(Record.pfn, page.data)
  BY <1>1, <1>2, <1>3 DEF Answers, page
<1>7. page.data # Skipped /\ page.data \in Data \cup {Skipped} /\ UNCHANGED ops
  BY <1>3, <1>5, AnswerAssumption
<1>8. /\ restored' \in Seq(AnswerRecord) /\ Len(restored') = r' - 1
      /\ r' \in 1 .. Len(ops') + 1
      /\ AnsweredRight'
  BY <1>2, <1>5, <1>6, <1>7, AnswerStep
<1>10. ReplayTypeOK'
  <2>1. /\ ops' \in Seq([pfn : Pfn, uid : Uid]) /\ slot' \in 0 .. Len(slots')
        /\ j' \in Nat /\ data_offset' \in 0 .. slot_size
    BY <1>5 DEF Replaying, ReplayTypeOK, storeVars
  <2> QED BY <1>5, <1>8, <2>1 DEF ReplayTypeOK, AnswerRecord, storeVars
<1>11. Phases' /\ AtRecord' /\ ScanAligned' /\ Fetched' /\ ReplayNeverFails'
  BY <1>1, <1>5
     DEF Replaying, Phases, AtRecord, ScanAligned, Fetched, ReplayNeverFails, storeVars
<1> QED BY <1>8, <1>10, <1>11 DEF Replaying

(* A frame that is not in the tree is skipped. *)
LEMMA SkipStep ==
  ASSUME Stored, Replaying, SkipRecord, UNCHANGED storeVars
  PROVE  Replaying'
<1>1. /\ rpc = "replay" /\ r <= Len(ops) /\ slot_tree[Record.pfn] = 0
      /\ Answered(Skipped)
      /\ UNCHANGED <<rpc, ops, slot, j, data_offset, fetched>>
  BY DEF SkipRecord
<1>2. Answers(Record.pfn, Skipped) /\ Skipped \in Data \cup {Skipped}
  BY <1>1 DEF Answers
<1>3. UNCHANGED ops
  BY <1>1
<1>4. /\ restored' \in Seq(AnswerRecord) /\ Len(restored') = r' - 1
      /\ r' \in 1 .. Len(ops') + 1
      /\ AnsweredRight'
  BY <1>1, <1>2, <1>3, AnswerStep
<1>6. ReplayTypeOK'
  BY <1>1, <1>4 DEF Replaying, ReplayTypeOK, AnswerRecord, storeVars
<1>7. Phases' /\ AtRecord' /\ ScanAligned' /\ Fetched' /\ ReplayNeverFails'
  <2>1. rpc' = "replay" /\ fetched' = NoPage /\ pc' = "stored"
    BY <1>1 DEF Replaying, Fetched, Phases, storeVars
  <2> QED BY <2>1 DEF Phases, AtRecord, ScanAligned, Fetched, ReplayNeverFails
<1> QED BY <1>4, <1>6, <1>7 DEF Replaying

(* The steps before the first record and after the last. *)
LEMMA EndsOfReplay ==
  ASSUME Stored, Replaying, LoadReplay \/ FinishReplay, UNCHANGED storeVars
  PROVE  Replaying'
<1>1. CASE LoadReplay
  <2>1. /\ rpc = "waiting" /\ pc = "stored" /\ rpc' \in {"replay", "no_replay_file"}
        /\ restored = <<>> /\ r = 1 /\ fetched = NoPage
        /\ UNCHANGED <<r, slot, j, data_offset, fetched, restored>>
    <3>1. Len(restored) = r - 1 /\ r \in Nat /\ restored = <<>>
      BY <1>1, RecordFacts DEF LoadReplay, Replaying, Phases
    <3> QED BY <1>1, <3>1 DEF LoadReplay, Replaying, Fetched
  <2>2. ops' \in Seq([pfn : Pfn, uid : Uid])
    BY <1>1, ReplayAssumption DEF LoadReplay, Replaying, ReplayTypeOK
  <2>3. r' \in 1 .. Len(ops') + 1
    BY <2>1, <2>2
  <2>4. ReplayTypeOK'
    BY <2>1, <2>2, <2>3 DEF Replaying, ReplayTypeOK, storeVars
  <2>5. Phases' /\ AtRecord' /\ ScanAligned' /\ Fetched' /\ ReplayNeverFails'
    BY <2>1 DEF Phases, AtRecord, ScanAligned, Fetched, ReplayNeverFails, storeVars
  <2>6. AnsweredRight'
    BY <2>1 DEF AnsweredRight
  <2> QED BY <2>4, <2>5, <2>6 DEF Replaying
<1>2. CASE FinishReplay
  <2>1. /\ rpc = "replay" /\ rpc' = "finished"
        /\ UNCHANGED <<ops, r, slot, j, data_offset, fetched, restored>>
    BY <1>2 DEF FinishReplay
  <2>2. ReplayTypeOK'
    BY <2>1 DEF Replaying, ReplayTypeOK, storeVars
  <2>3. Phases' /\ AtRecord' /\ ScanAligned' /\ Fetched' /\ ReplayNeverFails'
    BY <2>1 DEF Replaying, Phases, AtRecord, ScanAligned, Fetched, ReplayNeverFails, storeVars
  <2>4. AnsweredRight'
    BY <2>1, AnsweredKept DEF Replaying
  <2> QED BY <2>2, <2>3, <2>4 DEF Replaying
<1> QED BY <1>1, <1>2

(* Every step of the composed program keeps it. *)
LEMMA ReplayingStep == Stored /\ Replaying /\ [Next]_vars => Replaying'
<1> SUFFICES ASSUME Stored, Replaying, [Next]_vars PROVE Replaying'
  OBVIOUS
<1>1. CASE StoreNext /\ UNCHANGED replayVars
  BY <1>1, StoreStepKeepsReplay
<1>2. CASE ReplayNext /\ UNCHANGED storeVars
  BY <1>2, EndsOfReplay, SkipStep, FindSlotStep, ScanEntryStep, ScanFoundStep,
     DecompressStep DEF ReplayNext
<1>3. CASE UNCHANGED vars
  <2>1. UNCHANGED storeVars /\ UNCHANGED replayVars
    BY <1>3 DEF vars
  <2>2. ReplayTypeOK'
    BY <2>1 DEF Replaying, ReplayTypeOK, storeVars, replayVars
  <2>3. Phases' /\ AtRecord' /\ ReplayNeverFails'
    BY <2>1 DEF Replaying, Phases, AtRecord, Record, ReplayNeverFails, storeVars, replayVars
  <2>4. ScanAligned' /\ Fetched'
    BY <2>1 DEF Replaying, ScanAligned, Fetched, FirstOf, FrameAt, PageAt, PageOf, Record,
                storeVars, replayVars
  <2>5. AnsweredRight'
    BY <2>1, AnsweredKept DEF Replaying, replayVars
  <2> QED BY <2>2, <2>3, <2>4, <2>5 DEF Replaying
<1> QED BY <1>1, <1>2, <1>3 DEF Next

(* The replay keeps its inductive invariant. *)
THEOREM ReplayingAlways == Spec => []Replaying
<1>1. Init => Unstored /\ ReplayInit
  BY UnstoredInit DEF Init
<1> QED BY <1>1, ReplayingInit, ReplayingStep, StoredAlways, PTL DEF Spec

(* Whatever the replay, every variable of it keeps its type, no scan's     *)
(* offset leaves its slot, and every record is answered once.              *)
THEOREM ReplayTypesCorrect == Spec => []ReplayTypeOK
  BY ReplayingAlways, PTL DEF Replaying

(* Whatever the trace and the replay, the offset the scan adds up is where *)
(* the entry's bytes were put, and it has passed no entry of the frame.    *)
THEOREM ScanAlignedAlways == Spec => []ScanAligned
  BY ReplayingAlways, PTL DEF Replaying

(* Whatever the trace and the replay, neither "page not found" nor a       *)
(* failed decompression ends it.                                           *)
THEOREM ReplayNeverFailsAlways == Spec => []ReplayNeverFails
  BY ReplayingAlways, PTL DEF Replaying

-----------------------------------------------------------------------------
(* The answers *)

(* What Answers describes is what Expected chooses: the newest slot with   *)
(* the frame is the one the tree has, and its first entry of the frame is  *)
(* the only one with no other before it.                                   *)
LEMMA AnswersExpected ==
  ASSUME Stored, NEW p \in Pfn, NEW d, Answers(p, d)
  PROVE  d = Expected(p)
<1> DEFINE holding    == {s \in 1 .. current : Holds(s, p)}
           newest     == CHOOSE s \in holding : \A t \in holding : t <= s
           entries(s) == {n \in 1 .. Len(placed[s]) : PageAt(s, n).pfn = p}
           first(s)   == CHOOSE n \in entries(s) : \A m \in entries(s) : n <= m
           top        == slot_tree[p]
<1>1. top \in 0 .. current /\ current \in Nat
  BY SlotFacts DEF Stored, Base, StoreTypeOK
<1>2. Expected(p) = IF holding = {} THEN Skipped ELSE PageAt(newest, first(newest)).data
  BY DEF Expected
<1>3. CASE top = 0
  <2>1. holding = {}
    BY <1>3 DEF Stored, TreeLatest
  <2> QED BY <1>2, <1>3, <2>1 DEF Answers
<1>4. CASE top # 0
  <2>1. /\ top \in holding
        /\ \A s \in top + 1 .. current : ~ Holds(s, p)
    BY <1>1, <1>4 DEF Stored, TreeLatest
  <2>2. \A t \in holding : t <= top
    <3> SUFFICES ASSUME NEW t \in 1 .. current, Holds(t, p) PROVE t <= top
      OBVIOUS
    <3>1. t \notin top + 1 .. current
      BY <2>1
    <3> HIDE DEF top
    <3> QED BY <1>1, <3>1
  <2>3. \A s \in holding : s \in Nat
    OBVIOUS
  <2> HIDE DEF holding, top
  <2>4. newest \in holding /\ \A t \in holding : t <= newest
    BY <2>1, <2>2
  <2>5. newest = top
    <3>1. newest <= top /\ top <= newest /\ newest \in Nat /\ top \in Nat
      BY <2>1, <2>2, <2>3, <2>4
    <3> HIDE DEF newest
    <3> QED BY <3>1
  <2>6. PICK n \in 1 .. Len(placed[top]) : FirstOf(top, n, p) /\ d = PageAt(top, n).data
    BY <1>4 DEF Answers, top
  <2>7. top \in 1 .. current
    BY <1>1, <1>4
  <2>8. Len(placed[top]) = Len(slots[top].metainfo) /\ Len(placed[top]) \in Nat
    BY <2>6, <2>7, EntryFacts DEF FirstOf
  <2>9. \A m \in 1 .. Len(placed[top]) : PageAt(top, m).pfn = FrameAt(top, m)
    <3> SUFFICES ASSUME NEW m \in 1 .. Len(placed[top])
                 PROVE  PageAt(top, m).pfn = slots[top].metainfo[m].pfn
      BY DEF FrameAt
    <3>1. slots[top].metainfo[m] =
            [pfn |-> PageAt(top, m).pfn, uid |-> PageAt(top, m).uid,
             compressed_size |-> CompressedSize[PageAt(top, m).data]]
      BY <2>7, <2>8, EntryFacts
    <3> QED BY <3>1
  <2>10. n \in entries(top) /\ \A m \in entries(top) : m \in Nat /\ n <= m
    <3>1. n \in entries(top)
      BY <2>6, <2>9 DEF FirstOf
    <3>2. ASSUME NEW m \in 1 .. Len(placed[top]), PageAt(top, m).pfn = p
          PROVE  n <= m
      <4>1. FrameAt(top, m) = p
        BY <2>9, <3>2
      <4>2. m \notin 1 .. n - 1
        BY <2>6, <4>1 DEF FirstOf
      <4> QED BY <4>2
    <3> QED BY <3>1, <3>2
  <2>11. first(top) = n
    <3> DEFINE E == entries(top)
    <3>1. n \in E /\ \A m \in E : m \in Nat /\ n <= m
      BY <2>10
    <3> HIDE DEF E
    <3> DEFINE f == CHOOSE k \in E : \A m \in E : k <= m
    <3>2. f \in E /\ \A m \in E : f <= m
      BY <3>1
    <3>3. f <= n /\ n <= f /\ f \in Nat /\ n \in Nat
      BY <3>1, <3>2
    <3>4. f = n
      <4> HIDE DEF f
      <4> QED BY <3>3
    <3> QED BY <3>4 DEF E
  <2>12. holding # {}
    BY <2>1
  <2>13. Expected(p) = PageAt(top, n).data
    <3> HIDE DEF newest, first
    <3> QED BY <1>2, <2>5, <2>11, <2>12
  <2> QED BY <2>6, <2>13
<1> QED BY <1>3, <1>4

LEMMA ExactlyRestored == Stored /\ Replaying => RestoredExactly
<1> SUFFICES ASSUME Stored, Replaying, NEW q \in 1 .. Len(restored)
             PROVE  restored[q] = [pfn |-> ops[q].pfn, data |-> Expected(ops[q].pfn)]
  BY DEF RestoredExactly
<1>1. restored[q] \in AnswerRecord
  BY RecordFacts, ElementOfSeq
<1>2. restored[q].pfn = ops[q].pfn /\ Answers(ops[q].pfn, restored[q].data)
  BY DEF Replaying, AnsweredRight
<1>3. ops[q].pfn \in Pfn
  BY <1>1, <1>2 DEF AnswerRecord
<1>4. restored[q].data = Expected(ops[q].pfn)
  BY <1>2, <1>3, AnswersExpected
<1> QED BY <1>1, <1>2, <1>4 DEF AnswerRecord

(* Whatever the trace and the replay, every record is answered in order    *)
(* with the first page of its frame in the newest slot that has one.       *)
THEOREM RestoredExactlyAlways == Spec => []RestoredExactly
  BY ExactlyRestored, StoredAlways, ReplayingAlways, PTL

-----------------------------------------------------------------------------
(* The abstract swap area *)

(* What is kept of frame p: the contents of the entries made for it. *)
LEMMA KeptMember ==
  ASSUME NEW p, NEW d
  PROVE  d \in KeptData(p) <=> \E s \in 1 .. Len(placed) : \E n \in 1 .. Len(placed[s]) :
                                PageAt(s, n).pfn = p /\ d = PageAt(s, n).data
  BY DEF KeptData

(* The same after a step, which no step but an insertion tells apart. *)
LEMMA KeptMemberAfter ==
  ASSUME NEW p, NEW d
  PROVE  d \in KeptData(p)' <=>
           \E s \in 1 .. Len(placed') : \E n \in 1 .. Len(placed'[s]) :
             /\ dataPages'[placed'[s][n].page].pfn = p
             /\ d = dataPages'[placed'[s][n].page].data
  BY SMTT(30) DEF KeptData, PageAt, PageOf

(* At first nothing is kept and nothing answered. *)
LEMMA AreaInit == Init => Area!Init
<1> SUFFICES ASSUME Init PROVE Area!Init
  OBVIOUS
<1>1. placed = <<<<>>>> /\ Len(placed) = 1 /\ Len(placed[1]) = 0 /\ restored = <<>>
  BY DEF Init, StoreInit, ReplayInit
<1>2. \A p \in Pfn : KeptData(p) = {}
  BY <1>1 DEF KeptData
<1> QED BY <1>1, <1>2 DEF Area!Init

(* A stored page is kept for its frame, and for no other. *)
LEMMA KeptInsert ==
  ASSUME Stored, InsertStored, NEW p \in Pfn
  PROVE  KeptData(p)' = IF p = dataPages[i].pfn
                          THEN KeptData(p) \cup {dataPages[i].data} ELSE KeptData(p)
<1> DEFINE entry == [page |-> i, start |-> slots[current].offset]
<1> USE SlotFacts DEF Stored
<1>1. /\ dataPages' = dataPages /\ Len(placed') = current
      /\ placed'[current] = Append(placed[current], entry)
      /\ \A t \in 1 .. current : t # current => placed'[t] = placed[t]
  BY AfterInsertStored DEF InsertStored
<1>2. entry \in PlacedEntry /\ entry.page = i
  BY AtInsert DEF InsertStored, PlacedEntry, SlotType
<1> HIDE DEF entry
<1>3. /\ Len(placed'[current]) = Len(placed[current]) + 1
      /\ \A m \in 1 .. Len(placed[current]) : placed'[current][m] = placed[current][m]
      /\ placed'[current][Len(placed[current]) + 1] = entry
  BY <1>1, <1>2, AppendProperties
<1>4. /\ current \in 1 .. current /\ Len(placed) = current
      /\ \A t \in 1 .. current : Len(placed[t]) \in Nat
      /\ Len(placed[current]) + 1 \in 1 .. Len(placed'[current])
  BY <1>3
<1>5. ASSUME NEW d, d \in KeptData(p)'
      PROVE  d \in KeptData(p) \/ (p = dataPages[i].pfn /\ d = dataPages[i].data)
  <2>9. \E s \in 1 .. Len(placed') : \E n \in 1 .. Len(placed'[s]) :
          /\ dataPages'[placed'[s][n].page].pfn = p
          /\ d = dataPages'[placed'[s][n].page].data
    <3> HIDE SlotFacts DEF Stored
    <3> QED BY ONLY <1>5, KeptMemberAfter
  <2>0. PICK s \in 1 .. current : \E n \in 1 .. Len(placed'[s]) :
          dataPages[placed'[s][n].page].pfn = p /\ d = dataPages[placed'[s][n].page].data
    <3> HIDE SlotFacts DEF Stored
    <3> QED BY <1>1, <2>9
  <2>1. PICK n \in 1 .. Len(placed'[s]) :
          dataPages[placed'[s][n].page].pfn = p /\ d = dataPages[placed'[s][n].page].data
    BY <2>0
  <2>2. CASE s = current /\ n = Len(placed[current]) + 1
    BY <1>2, <1>3, <2>1, <2>2
  <2>3. CASE s = current /\ n # Len(placed[current]) + 1
    <3>1. n \in 1 .. Len(placed[current])
      BY <1>3, <1>4, <2>1, <2>3
    <3>2. PageAt(current, n).pfn = p /\ d = PageAt(current, n).data
      BY <1>3, <2>1, <2>3, <3>1 DEF PageAt, PageOf
    <3> QED BY <1>4, <3>1, <3>2, KeptMember
  <2>4. CASE s # current
    <3>1. n \in 1 .. Len(placed[s])
      BY <1>1, <2>1, <2>4
    <3>2. PageAt(s, n).pfn = p /\ d = PageAt(s, n).data
      BY <1>1, <2>1, <2>4 DEF PageAt, PageOf
    <3> QED BY <1>4, <3>1, <3>2, KeptMember
  <2> QED BY <2>2, <2>3, <2>4
<1>6. ASSUME NEW d, d \in KeptData(p)
      PROVE  d \in KeptData(p)'
  <2>0. PICK s \in 1 .. current : \E n \in 1 .. Len(placed[s]) :
          PageAt(s, n).pfn = p /\ d = PageAt(s, n).data
    BY <1>4, <1>6, KeptMember
  <2>1. PICK n \in 1 .. Len(placed[s]) :
          PageAt(s, n).pfn = p /\ d = PageAt(s, n).data
    BY <2>0
  <2>2. n \in 1 .. Len(placed'[s]) /\ placed'[s][n] = placed[s][n]
    <3>1. CASE s = current
      BY <1>3, <1>4, <2>1, <3>1
    <3>2. CASE s # current
      BY <1>1, <2>1, <3>2
    <3> QED BY <3>1, <3>2
  <2>3. /\ dataPages'[placed'[s][n].page].pfn = p
        /\ d = dataPages'[placed'[s][n].page].data
    BY <1>1, <2>1, <2>2 DEF PageAt, PageOf
  <2>4. s \in 1 .. Len(placed')
    BY <1>1
  <2> QED BY <2>2, <2>3, <2>4, KeptMemberAfter
<1>7. p = dataPages[i].pfn => dataPages[i].data \in KeptData(p)'
  <2> SUFFICES ASSUME p = dataPages[i].pfn PROVE dataPages[i].data \in KeptData(p)'
    OBVIOUS
  <2>1. /\ dataPages'[placed'[current][Len(placed[current]) + 1].page].pfn = p
        /\ dataPages[i].data
             = dataPages'[placed'[current][Len(placed[current]) + 1].page].data
    BY <1>1, <1>2, <1>3
  <2>2. current \in 1 .. Len(placed')
        /\ Len(placed[current]) + 1 \in 1 .. Len(placed'[current])
    BY ONLY <1>1, <1>4
  <2> QED BY ONLY <2>1, <2>2, KeptMemberAfter, p = dataPages[i].pfn
<1> QED BY <1>5, <1>6, <1>7

(* What is kept depends on the trace and the history of the slots only. *)
LEMMA KeptUnchanged ==
  ASSUME UNCHANGED <<placed, dataPages>>, NEW p \in Pfn
  PROVE  KeptData(p)' = KeptData(p)
<1>1. \A d : d \in KeptData(p)' <=> d \in KeptData(p)
  BY KeptMember, KeptMemberAfter DEF PageAt, PageOf
<1> QED BY <1>1

(* An empty slot more keeps nothing more: the refused page is lost. *)
LEMMA KeptRefused ==
  ASSUME Stored, InsertRefused, NEW p \in Pfn
  PROVE  KeptData(p)' = KeptData(p)
<1>1. /\ dataPages' = dataPages /\ Len(placed') = current + 1 /\ Len(placed) = current
      /\ placed'[current + 1] = <<>> /\ Len(placed'[current + 1]) = 0
      /\ \A t \in 1 .. current : placed'[t] = placed[t]
  <2>1. /\ Len(placed') = Len(slots) + 1 /\ placed'[Len(slots) + 1] = <<>>
        /\ \A t \in 1 .. Len(slots) : placed'[t] = placed[t]
    BY AfterInsertRefused DEF Stored
  <2>2. Len(slots) = current /\ Len(placed) = current
    BY SlotFacts DEF Stored
  <2>3. dataPages' = dataPages
    BY DEF InsertRefused
  <2> QED BY <2>1, <2>2, <2>3
<1>2. \A s \in 1 .. current + 1 : s \in 1 .. current \/ s = current + 1
  BY SlotFacts DEF Stored
<1>3. ASSUME NEW d, d \in KeptData(p)'
      PROVE  d \in KeptData(p)
  <2>0. PICK s \in 1 .. Len(placed') : \E n \in 1 .. Len(placed'[s]) :
          dataPages'[placed'[s][n].page].pfn = p /\ d = dataPages'[placed'[s][n].page].data
    BY <1>3, KeptMemberAfter
  <2>1. PICK n \in 1 .. Len(placed'[s]) :
          dataPages'[placed'[s][n].page].pfn = p /\ d = dataPages'[placed'[s][n].page].data
    BY <2>0
  <2>2. s \in 1 .. current
    BY <1>1, <1>2, <2>0, <2>1
  <2>3. PageAt(s, n).pfn = p /\ d = PageAt(s, n).data /\ n \in 1 .. Len(placed[s])
    BY <1>1, <2>1, <2>2 DEF PageAt, PageOf
  <2> QED BY <1>1, <2>2, <2>3, KeptMember
<1>4. ASSUME NEW d, d \in KeptData(p)
      PROVE  d \in KeptData(p)'
  <2>0. PICK s \in 1 .. current : \E n \in 1 .. Len(placed[s]) :
          PageAt(s, n).pfn = p /\ d = PageAt(s, n).data
    BY <1>1, <1>4, KeptMember
  <2>1. PICK n \in 1 .. Len(placed[s]) :
          PageAt(s, n).pfn = p /\ d = PageAt(s, n).data
    BY <2>0
  <2>2. /\ dataPages'[placed'[s][n].page].pfn = p
        /\ d = dataPages'[placed'[s][n].page].data
        /\ s \in 1 .. Len(placed') /\ n \in 1 .. Len(placed'[s])
    BY <1>1, <2>1 DEF PageAt, PageOf
  <2> QED BY <2>2, KeptMemberAfter
<1> QED BY <1>3, <1>4

(* Every step of the program keeps a page, answers a record, or is nothing *)
(* to the abstract area.                                                   *)
LEMMA AreaStep ==
  Stored /\ Replaying /\ [Next]_vars => [Area!Next]_(Area!vars)
<1> SUFFICES ASSUME Stored, Replaying, [Next]_vars
             PROVE  Area!Next \/ UNCHANGED Area!vars
  OBVIOUS
<1>1. ASSUME InsertStored, UNCHANGED replayVars PROVE Area!Next
  <2> DEFINE page == dataPages[i]
  <2>1. page \in Page /\ page.pfn \in Pfn /\ page.data \in Data
    BY <1>1, AtInsert, CompressedType DEF InsertStored, Stored
  <2>2. [p \in Pfn |-> KeptData(p)']
          = [[p \in Pfn |-> KeptData(p)] EXCEPT ![page.pfn] = @ \cup {page.data}]
    BY <1>1, <2>1, KeptInsert
  <2>3. Area!Keep(page.pfn, page.data)
    BY <1>1, <2>2 DEF Area!Keep, replayVars
  <2> QED BY <2>1, <2>3 DEF Area!Next
<1>2. ASSUME InsertRefused \/ CompressDataPage \/ CompressFailed \/ FinishStore,
             UNCHANGED replayVars
      PROVE  UNCHANGED Area!vars
  <2>1. \A p \in Pfn : KeptData(p)' = KeptData(p)
    BY <1>2, KeptRefused, KeptUnchanged, SlotsUntouched
  <2> QED BY <1>2, <2>1 DEF Area!vars, replayVars
<1>3. ASSUME UNCHANGED storeVars PROVE \A p \in Pfn : KeptData(p)' = KeptData(p)
  BY <1>3, KeptUnchanged DEF storeVars
<1>4. ASSUME SkipRecord, UNCHANGED storeVars PROVE Area!Next
  <2>1. Record.pfn \in Pfn /\ slot_tree[Record.pfn] = 0
    BY <1>4, RecordFacts DEF SkipRecord
  <2>2. KeptData(Record.pfn) = {}
    <3> SUFFICES ASSUME NEW s \in 1 .. Len(placed), NEW n \in 1 .. Len(placed[s]),
                        PageAt(s, n).pfn = Record.pfn
                 PROVE  FALSE
      BY DEF KeptData
    <3>1. s \in 1 .. current /\ n \in 1 .. Len(slots[s].metainfo)
      BY SlotFacts DEF Stored, Layout, SlotLayout, LaidOut
    <3>2. slots[s].metainfo[n] =
            [pfn |-> PageAt(s, n).pfn, uid |-> PageAt(s, n).uid,
             compressed_size |-> CompressedSize[PageAt(s, n).data]]
      BY <3>1, EntryFacts
    <3>3. HasFrame(slots[s], Record.pfn)
      BY <3>1, <3>2 DEF HasFrame
    <3> QED BY <2>1, <3>1, <3>3 DEF Stored, TreeLatest, Holds
  <2>3. Area!Skip(Record.pfn)
    BY <1>3, <1>4, <2>1, <2>2 DEF SkipRecord, Answered, Area!Skip, Area!Answer
  <2> QED BY <2>1, <2>3 DEF Area!Next
<1>5. ASSUME DecompressDataPage, UNCHANGED storeVars PROVE Area!Next
  <2> DEFINE page == PageAt(slot, j)
  <2>1. rpc = "decompress" /\ FirstOf(slot, j, Record.pfn) /\ fetched = Compressed(page)
    BY <1>5 DEF DecompressDataPage, Replaying, Fetched
  <2>2. r <= Len(ops) /\ slot \in 1 .. current /\ Record.pfn \in Pfn
    BY <2>1, RecordFacts, SlotFacts DEF Replaying, AtRecord, Stored
  <2>3. /\ page \in Page /\ page.data \notin Rejected /\ page.data \in Data
        /\ j \in 1 .. Len(placed[slot])
        /\ slots[slot].metainfo[j] = [pfn |-> page.pfn, uid |-> page.uid,
                                      compressed_size |-> CompressedSize[page.data]]
    BY <2>1, <2>2, EntryFacts, CompressedType DEF FirstOf
  <2>4. page.pfn = Record.pfn
    BY <2>1, <2>3 DEF FirstOf, FrameAt
  <2>5. page.data \in KeptData(Record.pfn)
    <3>1. slot \in 1 .. Len(placed)
      BY <2>2, SlotFacts DEF Stored
    <3> QED BY <2>3, <2>4, <3>1, KeptMember
  <2>6. Decoded(fetched) = {page.data}
    BY <2>1, <2>3, DecodedExactly
  <2> HIDE DEF page
  <2>7. Answered(page.data)
    BY <1>5, <2>6 DEF DecompressDataPage
  <2>8. Area!Answer(Record.pfn, page.data)
    BY <1>3, <1>5, <2>7 DEF Answered, Area!Answer
  <2>9. Area!SwapIn(Record.pfn)
    BY <2>2, <2>5, <2>8 DEF Area!SwapIn
  <2> QED BY <2>2, <2>9 DEF Area!Next
<1>6. ASSUME LoadReplay \/ FindSlot \/ ScanEntry \/ ScanFound \/ FinishReplay,
             UNCHANGED storeVars
      PROVE  UNCHANGED Area!vars
  BY <1>3, <1>6
     DEF Area!vars, LoadReplay, FindSlot, ScanEntry, ScanFound, FinishReplay
<1>7. ASSUME UNCHANGED vars PROVE UNCHANGED Area!vars
  BY <1>3, <1>7 DEF Area!vars, vars, replayVars
<1> QED BY <1>1, <1>2, <1>4, <1>5, <1>6, <1>7 DEF Next, StoreNext, ReplayNext

(* The program, with the entries of its slots as what is kept, implements  *)
(* the abstract swap area: what is answered was kept for that frame, and a *)
(* record is skipped only if nothing was.                                  *)
THEOREM AreaImplemented == Spec => ImplementsArea
  BY AreaInit, AreaStep, StoredAlways, ReplayingAlways, PTL
     DEF Spec, ImplementsArea, Area!Spec
=============================================================================

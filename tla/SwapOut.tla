------------------------------- MODULE SwapOut -------------------------------
(***************************************************************************)
(* The swap-out half of the ZRAM simulation: every page of the loaded      *)
(* trace is compressed and packed into fixed-size slots, and a tree from   *)
(* page frame number to slot is kept up to date.  It is Step 3 of          *)
(* EvalWriteCompressedFile.cpp, and prepare_read_evaluation_env of         *)
(* EvalReadCompressedFile.cpp runs the same loop before a replay.          *)
(*                                                                         *)
(* The program is sequential; pc names the point of the loop it is at.     *)
(* A compressed page is its sequence of bytes, byte k of the compressed    *)
(* form of data d being the pair <<d, k>>, so that a byte that ends up in  *)
(* the wrong place, or half of another page, can be told from the right    *)
(* one.                                                                    *)
(***************************************************************************)
EXTENDS Naturals, Sequences, Globals

CONSTANTS
  Pfn,             (* page frame numbers                                   *)
  Uid,             (* owners of pages                                      *)
  Data,            (* what a page can contain                              *)
  CompressedSize,  (* bytes each content compresses to                     *)
  Rejected,        (* contents for which the codec reports an error        *)
  SlotSizes,       (* the values slot_size may have                        *)
  Traces,          (* the page sequences a swap-out trace may hold         *)
  NoPage,          (* a null DataPage pointer                              *)
  Uninit           (* a byte of malloc'ed memory that nobody has written   *)

Page == [pfn : Pfn, uid : Uid, data : Data]

ASSUME CodecAssumption == /\ CompressedSize \in [Data -> Nat \ {0}]
                          /\ Rejected \subseteq Data
ASSUME SlotAssumption  == SlotSizes \subseteq Nat
ASSUME TraceAssumption == Traces \subseteq Seq(Page)

VARIABLES
  pc,              (* where the loop is, or how it ended                   *)
  dataPages,       (* the loaded trace                                     *)
  i,               (* index of the page being stored                       *)
  compressedPage,  (* the DataPage the codec returned, or NoPage           *)
  slots,           (* every ZRamBufferSlot allocated, in that order        *)
  slot_list,       (* indices of the slots pushed on slot_list             *)
  slot_tree,       (* pfn -> index of its slot, 0 when the pfn is absent   *)
  live,            (* DataPage objects the loops allocated and still own   *)
  placed,          (* history: for each slot, the trace index and first    *)
                   (* byte of every page copied into it                    *)
  opened           (* history: for each slot, the trace index of the first *)
                   (* page offered to it.  No action reads placed, opened. *)

packVars  == <<pc, dataPages, i, compressedPage, slots, slot_list, slot_tree,
               live, placed, opened>>
storeVars == <<pc, dataPages, i, compressedPage, slots, slot_list, slot_tree,
               live, placed, opened, slot_size>>

current == Len(slots)   \* current_slot is always the slot allocated last

-----------------------------------------------------------------------------
(* Codec and slots *)

(* The bytes the codec produces for d. *)
BytesOf(d) == [k \in 0 .. CompressedSize[d] - 1 |-> <<d, k>>]

(* The DataPage CompressDataPage returns for a page it accepts. *)
Compressed(page) ==
  [pfn |-> page.pfn, uid |-> page.uid,
   buf |-> BytesOf(page.data), compressed_size |-> CompressedSize[page.data]]

(* A null pointer is no compressed page. *)
ASSUME NullAssumption == NoPage \notin {Compressed(page) : page \in Page}

NewSlot == [buf      |-> [b \in 0 .. slot_size - 1 |-> Uninit],
            offset   |-> 0,
            metainfo |-> <<>>]

StrictlyFits(slot, page) == slot.offset + page.compressed_size < slot_size
StartFits(slot, page)    == slot.offset <= slot_size

(* InsertCompressedDataPage's check for room. *)
Fits(slot, page) == slot.offset + page.compressed_size <= slot_size

WrittenAtStart(slot, page) ==
  [b \in DOMAIN slot.buf |->
     IF b < page.compressed_size THEN page.buf[b] ELSE slot.buf[b]]

(* memcpy(buf + offset, page->buf, page->compressed_size) *)
Written(slot, page) ==
  [b \in DOMAIN slot.buf |->
     IF b \in slot.offset .. slot.offset + page.compressed_size - 1
       THEN page.buf[b - slot.offset]
       ELSE slot.buf[b]]

(* The slot after a successful InsertCompressedDataPage. *)
Inserted(slot, page) ==
  [buf      |-> Written(slot, page),
   offset   |-> slot.offset + page.compressed_size,
   metainfo |-> Append(slot.metainfo,
                       [pfn |-> page.pfn, uid |-> page.uid,
                        compressed_size |-> page.compressed_size])]

-----------------------------------------------------------------------------
(* The loop *)

StoreInit ==
  /\ pc = "compress"
  /\ slot_size \in SlotSizes
  /\ dataPages \in Traces
  /\ i = 1
  /\ compressedPage = NoPage
  /\ slots = <<NewSlot>>
  /\ slot_list = <<>>
  /\ slot_tree = [p \in Pfn |-> 0]
  /\ live = 0
  /\ placed = <<<<>>>>
  /\ opened = <<1>>

(* compr_alg->CompressDataPage succeeds: a new DataPage is allocated. *)
CompressDataPage ==
  /\ pc = "compress"
  /\ i <= Len(dataPages)
  /\ dataPages[i].data \notin Rejected
  /\ compressedPage' = Compressed(dataPages[i])
  /\ live' = live + 1
  /\ pc' = "insert"
  /\ UNCHANGED <<slot_size, dataPages, i, slots, slot_list, slot_tree, placed, opened>>

(* The codec reports an error: CompressDataPage frees its page and returns *)
(* a null pointer, and the program gives up with a message and status 1.   *)
CompressFailed ==
  /\ pc = "compress"
  /\ i <= Len(dataPages)
  /\ dataPages[i].data \in Rejected
  /\ pc' = "compress_failed"
  /\ UNCHANGED <<slot_size, dataPages, i, compressedPage, slots, slot_list, slot_tree,
                 live, placed, opened>>

NextPageLeaking == compressedPage' = NoPage /\ i' = i + 1 /\ pc' = "compress"
                   /\ UNCHANGED live

(* The end of the loop's body, after either outcome of the insertion: the  *)
(* compressed page is deleted and the loop goes on to the next page.       *)
NextPage == /\ compressedPage' = NoPage
            /\ live' = live - 1
            /\ i' = i + 1
            /\ pc' = "compress"

TreeInserted(p) ==
  IF slot_tree[p] = 0 THEN [slot_tree EXCEPT ![p] = current] ELSE slot_tree

(* slot_tree[pfn] = current_slot *)
TreeUpdated(p) == [slot_tree EXCEPT ![p] = current]

(* InsertCompressedDataPage returns true. *)
InsertStored ==
  /\ pc = "insert"
  /\ Fits(slots[current], compressedPage)
  /\ slots' = [slots EXCEPT ![current] = Inserted(@, compressedPage)]
  /\ placed' = [placed EXCEPT ![current] =
                  Append(@, [page |-> i, start |-> slots[current].offset])]
  /\ slot_tree' = TreeUpdated(compressedPage.pfn)
  /\ NextPage
  /\ UNCHANGED <<slot_size, dataPages, slot_list, opened>>

SlotReused == UNCHANGED <<slots, placed, opened>>

(* current_slot = new ZRamBufferSlot(slot_size) *)
SlotAllocated == /\ slots' = Append(slots, NewSlot)
                 /\ placed' = Append(placed, <<>>)
                 /\ opened' = Append(opened, i + 1)

(* InsertCompressedDataPage returns false: the slot is pushed on slot_list *)
(* and a new one allocated.  The refused page is not offered again.        *)
InsertRefused ==
  /\ pc = "insert"
  /\ ~ Fits(slots[current], compressedPage)
  /\ slot_list' = Append(slot_list, current)
  /\ SlotAllocated
  /\ NextPage
  /\ UNCHANGED <<slot_size, dataPages, slot_tree>>

AllListed == Append(slot_list, current)

(* slot_list once the current slot has been listed, if it holds a page.    *)
LastListed == IF Len(slots[current].metainfo) > 0
                THEN Append(slot_list, current) ELSE slot_list

(* After the last page. *)
FinishStore ==
  /\ pc = "compress"
  /\ i > Len(dataPages)
  /\ slot_list' = LastListed
  /\ pc' = "stored"
  /\ UNCHANGED <<slot_size, dataPages, i, compressedPage, slots, slot_tree, live,
                 placed, opened>>

StoreNext == \/ CompressDataPage
             \/ CompressFailed
             \/ InsertStored
             \/ InsertRefused
             \/ FinishStore

(* One thread runs the loop and nothing blocks it, hence weak fairness.    *)
StoreSpec == StoreInit /\ [][StoreNext]_storeVars /\ WF_storeVars(StoreNext)

-----------------------------------------------------------------------------
(* Properties *)

MetaInfo == [pfn : Pfn, uid : Uid, compressed_size : Nat]
Byte     == (Data \X Nat) \cup {Uninit}
SlotType == [buf : [0 .. slot_size - 1 -> Byte], offset : 0 .. slot_size,
             metainfo : Seq(MetaInfo)]

(* Types, with the bound that matters: no slot is ever filled beyond the   *)
(* buffer InsertCompressedDataPage copies into.                            *)
StoreTypeOK ==
  /\ slot_size \in Nat
  /\ pc \in {"compress", "insert", "stored", "compress_failed"}
  /\ dataPages \in Seq(Page)
  /\ i \in 1 .. Len(dataPages) + 1
  /\ compressedPage \in {Compressed(page) : page \in Page} \cup {NoPage}
  /\ slots \in Seq(SlotType) /\ slots # <<>>
  /\ slot_list \in Seq(1 .. Len(slots))
  /\ slot_tree \in [Pfn -> 0 .. Len(slots)]
  /\ live \in Nat
  /\ placed \in Seq(Seq([page : 1 .. Len(dataPages), start : 0 .. slot_size]))
  /\ opened \in Seq(1 .. Len(dataPages) + 1)

Sealed == 1 .. current - 1   \* the slots current_slot has moved on from

(* The page of the trace an entry of placed stands for. *)
PageOf(entry) == dataPages[entry.page]

PageAt(s, n) == PageOf(placed[s][n])

(* Entry n of a slot describes the page it was made for, and the bytes of  *)
(* the slot from where it starts are the ones the codec produced.          *)
Describes(slot, n, entry) ==
  /\ slot.metainfo[n] = [pfn |-> PageOf(entry).pfn, uid |-> PageOf(entry).uid,
                         compressed_size |-> CompressedSize[PageOf(entry).data]]
  /\ \A k \in 0 .. CompressedSize[PageOf(entry).data] - 1 :
       slot.buf[entry.start + k] = <<PageOf(entry).data, k>>

EndOf(slot, n, entry) == entry.start + slot.metainfo[n].compressed_size

LaidOut(slot, entries) ==
  LET last == Len(slot.metainfo)
  IN  /\ Len(entries) = last
      /\ slot.offset = IF last = 0 THEN 0 ELSE EndOf(slot, last, entries[last])
      /\ last > 0 => entries[1].start = 0
      /\ \A n \in 1 .. last - 1 : entries[n + 1].start = EndOf(slot, n, entries[n])
      /\ \A n \in 1 .. last : Describes(slot, n, entries[n])

(* GetCompressedDataPage finds a page by adding up the compressed sizes of *)
(* the entries before it.  This is where every slot keeps that promise:    *)
(* each entry describes the page it was made for, starts where the one     *)
(* before it ends, the last one ends at offset, and the bytes there are    *)
(* still the ones the codec produced, whatever was inserted since.         *)
SlotLayout == \A s \in 1 .. current : LaidOut(slots[s], placed[s])

HasFrame(slot, p) == \E n \in 1 .. Len(slot.metainfo) : slot.metainfo[n].pfn = p

Holds(s, p) == HasFrame(slots[s], p)

(* The tree and the slots agree: a pfn leads to the newest slot that holds *)
(* a page of that frame, and is absent from the tree only if no slot does. *)
TreeLatest ==
  \A p \in Pfn :
    /\ slot_tree[p] = 0 => \A s \in 1 .. current : ~ Holds(s, p)
    /\ slot_tree[p] # 0 => /\ Holds(slot_tree[p], p)
                           /\ \A s \in slot_tree[p] + 1 .. current : ~ Holds(s, p)

(* What happens to every page of the trace: they are stored in trace order *)
(* and once each, except that the page on which a slot overflowed is in no *)
(* slot at all.  One page is lost for each slot that was sealed, no more.  *)
OneLostPerSeal ==
  /\ Len(opened) = current /\ Len(placed) = current
  /\ opened[1] = 1
  /\ \A s \in Sealed : opened[s + 1] = opened[s] + Len(placed[s]) + 1
  /\ \A s \in 1 .. current : \A j \in 1 .. Len(placed[s]) :
       placed[s][j].page = opened[s] + j - 1
  /\ i = opened[current] + Len(placed[current])

(* A slot is given up only for a page there was no room for: packing never *)
(* wastes a slot that could have taken the page.                           *)
SealOnlyWhenFull ==
  \A s \in Sealed :
    LET refused == dataPages[opened[s + 1] - 1]
    IN  slots[s].offset + CompressedSize[refused.data] > slot_size

(* slot_list, whose size is the count the program reports, has every slot  *)
(* allocated once, in order, but for a last one that is still empty.       *)
SlotListExact ==
  pc = "stored" =>
    slot_list = [s \in 1 .. (IF Len(placed[current]) = 0 THEN current - 1 ELSE current) |-> s]

(* "we just make sure that there is not memory leak during the execution   *)
(* of the program": at the head of the loop every DataPage the loop        *)
(* allocated has been deleted, on both outcomes of the insertion.          *)
StoreLeaksNothing == pc # "insert" => live = 0

-----------------------------------------------------------------------------
(* What the documentation says of the loop, and the loop does not do *)

(* ZRAMSimulation/README.md: "it compresses each page and stores it in a   *)
(* key-value tree".  Asked only of pages that an empty slot would take.    *)
EveryPageStored ==
  pc = "stored" =>
    \A n \in {m \in 1 .. Len(dataPages) : CompressedSize[dataPages[m].data] <= slot_size} :
      \E s \in 1 .. current : \E j \in 1 .. Len(placed[s]) : placed[s][j].page = n
=============================================================================

------------------------------- MODULE SwapIn -------------------------------
(***************************************************************************)
(* The swap-in half: once prepare_read_evaluation_env has filled the slots *)
(* (module SwapOut), main of EvalReadCompressedFile.cpp looks every record *)
(* of a replay trace up in the tree, finds the page by a linear scan of    *)
(* its slot (ZRamBufferSlot::GetCompressedDataPage) and decompresses it.   *)
(*                                                                         *)
(* rpc names the point of the replay.  One action of this module is one    *)
(* iteration of the scan, so that the running offset the scan keeps can be *)
(* compared with where SwapOut put the bytes.                              *)
(***************************************************************************)
EXTENDS SwapOut

CONSTANTS
  Replays,     (* the record sequences a swap-in trace may hold            *)
  Skipped,     (* answer to a record whose pfn is not in the tree          *)
  Corrupt      (* page produced from bytes that no compression produced    *)

ASSUME ReplayAssumption == Replays \subseteq Seq([pfn : Pfn, uid : Uid])
ASSUME AnswerAssumption == Skipped \notin Data /\ Corrupt \notin Data

VARIABLES
  rpc,         (* where the replay is, or how it ended                     *)
  ops,         (* the loaded replay trace                                  *)
  r,           (* index of the record being replayed                       *)
  slot,        (* index of the slot being scanned                          *)
  j,           (* index of the scanned entry of its metainfo               *)
  data_offset, (* where the scan believes that entry's bytes start         *)
  fetched,     (* the DataPage the scan returned, or NoPage                *)
  restored     (* history: the answer to every record.  Properties only.   *)

replayVars == <<rpc, ops, r, slot, j, data_offset, fetched, restored>>
vars == <<storeVars, replayVars>>

-----------------------------------------------------------------------------

ReplayInit ==
  /\ rpc = "waiting"
  /\ ops = <<>>
  /\ r = 1
  /\ slot = 0 /\ j = 0 /\ data_offset = 0
  /\ fetched = NoPage
  /\ restored = <<>>

(* Steps 1 and 2: the replay trace is opened, which ends the program if it *)
(* cannot be (SwapinTraceReader exits), and read.                          *)
LoadReplay ==
  /\ pc = "stored"
  /\ rpc = "waiting"
  /\ \/ rpc' = "replay" /\ ops' \in Replays
     \/ rpc' = "no_replay_file" /\ UNCHANGED ops
  /\ UNCHANGED <<r, slot, j, data_offset, fetched, restored>>

Record == ops[r]
Entry  == slots[slot].metainfo[j]

AnsweredInPlace(d) == /\ restored' = Append(restored, [pfn |-> Record.pfn, data |-> d])
                      /\ UNCHANGED r

(* One record has been answered: the loop goes on to the next.             *)
Answered(d) == /\ restored' = Append(restored, [pfn |-> Record.pfn, data |-> d])
               /\ r' = r + 1

(* The pfn is not in the tree: "we just skip it". *)
SkipRecord ==
  /\ rpc = "replay"
  /\ r <= Len(ops)
  /\ slot_tree[Record.pfn] = 0
  /\ Answered(Skipped)
  /\ UNCHANGED <<rpc, ops, slot, j, data_offset, fetched>>

AtEntryShort(s, n) == IF n < Len(slots[s].metainfo) THEN "scan" ELSE "page_not_found"

(* The scan goes on while there are entries; past the last one it returns  *)
(* a null pointer and main returns 1.                                      *)
AtEntry(s, n) == IF n <= Len(slots[s].metainfo) THEN "scan" ELSE "page_not_found"

FindSlotAnywhere ==
  /\ rpc = "replay"
  /\ r <= Len(ops)
  /\ slot_tree[Record.pfn] # 0
  /\ slot' = slot_tree[Record.pfn]
  /\ j' = 1
  /\ rpc' = AtEntry(slot', 1)
  /\ UNCHANGED <<ops, r, data_offset, fetched, restored>>

(* slot_tree[pfn], and the start of GetCompressedDataPage. *)
FindSlot ==
  /\ rpc = "replay"
  /\ r <= Len(ops)
  /\ slot_tree[Record.pfn] # 0
  /\ slot' = slot_tree[Record.pfn]
  /\ j' = 1
  /\ data_offset' = 0
  /\ rpc' = AtEntry(slot', 1)
  /\ UNCHANGED <<ops, r, fetched, restored>>

OffsetByEntries == data_offset + 1

(* data_offset += metainfo[i]->compressed_size *)
OffsetAfterEntry == data_offset + Entry.compressed_size

ScanRetried ==
  /\ rpc = "scan"
  /\ Entry.pfn # Record.pfn
  /\ UNCHANGED replayVars

(* The entry is another frame's. *)
ScanEntry ==
  /\ rpc = "scan"
  /\ Entry.pfn # Record.pfn
  /\ data_offset' = OffsetAfterEntry
  /\ j' = j + 1
  /\ rpc' = AtEntry(slot, j + 1)
  /\ UNCHANGED <<ops, r, slot, fetched, restored>>

ReadFromStart(s, from, size) == [k \in 0 .. size - 1 |-> slots[s].buf[k]]

(* memcpy out of the slot.  Beyond its end nothing was written.            *)
ReadBytes(s, from, size) ==
  [k \in 0 .. size - 1 |->
     IF from + k < slot_size THEN slots[s].buf[from + k] ELSE Uninit]

(* The first entry of the frame is found and copied out. *)
ScanFound ==
  /\ rpc = "scan"
  /\ Entry.pfn = Record.pfn
  /\ fetched' = [pfn |-> Entry.pfn, uid |-> Entry.uid,
                 buf |-> ReadBytes(slot, data_offset, Entry.compressed_size),
                 compressed_size |-> Entry.compressed_size]
  /\ rpc' = "decompress"
  /\ UNCHANGED <<ops, r, slot, j, data_offset, restored>>

(* What the codec makes of a compressed page: what it was made from, if it *)
(* is the codec's own.  Of other bytes it may report an error, or may      *)
(* produce some other page.                                                *)
Decoded(page) == {d \in Data \ Rejected : page.buf = BytesOf(d)}

(* DecompressDataPage.  On an error its page is deleted and main returns   *)
(* 1.                                                                      *)
DecompressDataPage ==
  /\ rpc = "decompress"
  /\ rpc' \in IF Decoded(fetched) # {} THEN {"replay"} ELSE {"replay", "decompress_failed"}
  /\ IF rpc' = "replay"
       THEN Answered(IF Decoded(fetched) # {} THEN CHOOSE d \in Decoded(fetched) : TRUE
                                              ELSE Corrupt)
       ELSE UNCHANGED <<r, restored>>
  /\ fetched' = NoPage
  /\ UNCHANGED <<ops, slot, j, data_offset>>

(* After the last record: "Finished!". *)
FinishReplay ==
  /\ rpc = "replay"
  /\ r > Len(ops)
  /\ rpc' = "finished"
  /\ UNCHANGED <<ops, r, slot, j, data_offset, fetched, restored>>

ReplayNext == \/ LoadReplay
              \/ SkipRecord
              \/ FindSlot
              \/ ScanEntry
              \/ ScanFound
              \/ DecompressDataPage
              \/ FinishReplay

Init == StoreInit /\ ReplayInit

Next == \/ StoreNext /\ UNCHANGED replayVars
        \/ ReplayNext /\ UNCHANGED storeVars

(* The same single thread runs both loops. *)
Spec == Init /\ [][Next]_vars /\ WF_vars(Next)

-----------------------------------------------------------------------------
(* Properties *)

(* Types, with two bounds: the running offset of a scan never leaves the   *)
(* slot, however many records were replayed before, and every record has   *)
(* been answered exactly once.                                             *)
ReplayTypeOK ==
  /\ rpc \in {"waiting", "no_replay_file", "replay", "scan", "decompress",
              "finished", "page_not_found", "decompress_failed"}
  /\ ops \in Seq([pfn : Pfn, uid : Uid])
  /\ r \in 1 .. Len(ops) + 1
  /\ slot \in 0 .. Len(slots)
  /\ j \in Nat
  /\ data_offset \in 0 .. slot_size
  /\ fetched # NoPage => fetched.pfn \in Pfn /\ fetched.uid \in Uid
  /\ restored \in Seq([pfn : Pfn, data : Data \cup {Skipped}])
  /\ Len(restored) = r - 1

(* The offset the scan adds up is where SwapOut put the entry it looks at, *)
(* and every entry it has passed is of another frame: what it copies is    *)
(* the first page of the frame in the slot, whole.                         *)
ScanAligned ==
  rpc = "scan" =>
    /\ j \in 1 .. Len(slots[slot].metainfo)
    /\ data_offset = placed[slot][j].start
    /\ \A n \in 1 .. j - 1 : slots[slot].metainfo[n].pfn # Record.pfn

(* The two error returns of the replay loop are never taken: a pfn that is *)
(* in the tree is in the slot it points to, and what the scan copies out   *)
(* decompresses.                                                           *)
ReplayNeverFails == rpc \notin {"page_not_found", "decompress_failed"}

(* The answer a reader of the code would give: the first page of the frame *)
(* in the newest slot that has one, and a skip if no slot has.             *)
Expected(p) ==
  LET holding == {s \in 1 .. current : Holds(s, p)}
      newest  == CHOOSE s \in holding : \A t \in holding : t <= s
      entries == {n \in 1 .. Len(placed[newest]) : PageAt(newest, n).pfn = p}
      first   == CHOOSE n \in entries : \A m \in entries : n <= m
  IN  IF holding = {} THEN Skipped ELSE PageAt(newest, first).data

(* Every record of the replay is answered in order and with that page.     *)
RestoredExactly ==
  \A q \in 1 .. Len(restored) :
    restored[q] = [pfn |-> ops[q].pfn, data |-> Expected(ops[q].pfn)]

(* The replay reaches its end or an error return. *)
ReplayEnds ==
  <>(\/ pc = "compress_failed"
     \/ rpc \in {"no_replay_file", "finished", "page_not_found", "decompress_failed"})

(* The contents of frame p that are in some slot. *)
KeptData(p) ==
  UNION {{PageAt(s, n).data : n \in {m \in 1 .. Len(placed[s]) : PageAt(s, m).pfn = p}}
         : s \in 1 .. Len(placed)}

(* The two halves together implement the abstract swap area.               *)
Area == INSTANCE SwapArea WITH kept   <- [p \in Pfn |-> KeptData(p)],
                               served <- restored
ImplementsArea == Area!Spec

-----------------------------------------------------------------------------
(* What the documentation says of the replay, and the replay does not do *)

(* "if the pfn is already in the tree, update it": a frame swapped out     *)
(* again is found with its new contents.  Asked only of stored versions.   *)
NewestRestored ==
  \A q \in 1 .. Len(restored) : \A s \in 1 .. current : \A n \in 1 .. Len(placed[s]) :
    LET mine == PageAt(s, n).pfn = restored[q].pfn
        last == \A t \in 1 .. current : \A m \in 1 .. Len(placed[t]) :
                  PageAt(t, m).pfn = restored[q].pfn =>
                    placed[t][m].page <= placed[s][n].page
    IN  mine /\ last => restored[q].data = PageAt(s, n).data
=============================================================================

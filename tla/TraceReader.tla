---------------------------- MODULE TraceReader ----------------------------
(***************************************************************************)
(* SwapoutTraceReader and SwapinTraceReader of ZSwapTest.h: a reader is    *)
(* constructed from file names, asked to load its trace, any number of     *)
(* times, and destroyed.  The two loaders are one loop; the swap-out       *)
(* reader also reads a block of page data behind every record.             *)
(***************************************************************************)
EXTENDS TraceFiles, Integers

CONSTANTS
  MetaFiles,  (* the sequences of tokens a .meta file may hold             *)
  DataFiles,  (* the sequences of whole blocks a .data file may hold       *)
  MaxCalls,   (* bound on the number of calls of LoadTrace                 *)
  NoBuffer,   (* the null pointer                                          *)
  Unread      (* what is in memory that nothing has been read into         *)

(* What a block may contain. *)
Block == UNION {{blocks[n] : n \in 1 .. Len(blocks)} : blocks \in DataFiles}

ASSUME FileAssumption == MetaFiles \subseteq Seq(Token(Int)) /\ DataFiles \subseteq Seq(Block)
ASSUME CallAssumption == MaxCalls \in Nat

VARIABLES
  reader,   (* "swapout" or "swapin"                                       *)
  meta,     (* the tokens of traceFile or replayFile                       *)
  data,     (* the blocks of dataFile                                      *)
  pc,       (* where the reader is                                         *)
  tokens,   (* what is still to be read of meta                            *)
  blocks,   (* what is still to be read of data                            *)
  buffer,   (* the page buffer of a running LoadTrace, or NoBuffer         *)
  record,   (* what fscanf has assigned to uid and pfn                     *)
  loaded,   (* dataPages, or ops_records                                   *)
  live,     (* DataPage or PageMetadata objects allocated and not deleted  *)
  calls,    (* calls of LoadTrace so far                                   *)
  status    (* what the last of them returned                              *)

files == <<reader, meta, data>>
vars  == <<files, pc, tokens, blocks, buffer, record, loaded, live, calls, status>>

Init ==
  /\ reader \in {"swapout", "swapin"}
  /\ meta \in MetaFiles
  /\ data \in IF reader = "swapout" THEN DataFiles ELSE {<<>>}
  /\ pc = "unopened"
  /\ tokens = meta /\ blocks = data
  /\ buffer = NoBuffer
  /\ record = Unread
  /\ loaded = <<>>
  /\ live = 0
  /\ calls = 0 /\ status = 0

(* The constructor.  A file that cannot be opened ends the program; the    *)
(* data file has to be writable too, as its mode is "rb+".                 *)
Construct ==
  /\ pc = "unopened"
  /\ pc' \in {"idle", "exit"}
  /\ UNCHANGED <<files, tokens, blocks, buffer, record, loaded, live, calls, status>>

ReturnKeepingBuffer(code) == pc' = "idle" /\ status' = code /\ UNCHANGED buffer

(* The end of LoadTrace: the buffer is freed. *)
Return(code) == /\ pc' = "idle"
                /\ status' = code
                /\ buffer' = NoBuffer

AlwaysReloads == TRUE

(* LoadTrace serves a reader that has loaded nothing. *)
MayLoad == loaded = <<>>

(* LoadTrace is called and refuses, or cannot allocate its buffer.         *)
LoadRefused ==
  /\ pc = "idle" /\ calls < MaxCalls
  /\ ~ MayLoad \/ reader = "swapout"
  /\ calls' = calls + 1
  /\ status' = -1
  /\ UNCHANGED <<files, pc, tokens, blocks, buffer, record, loaded, live>>

LoadTrace ==
  /\ pc = "idle" /\ calls < MaxCalls
  /\ MayLoad
  /\ calls' = calls + 1
  /\ buffer' = IF reader = "swapout" THEN Unread ELSE NoBuffer
  /\ pc' = "scan"
  /\ UNCHANGED <<files, tokens, blocks, record, loaded, live, status>>

(* fscanf has assigned both numbers. *)
ScanRecord ==
  /\ pc = "scan"
  /\ Fscanf(tokens).assigned = 2
  /\ record' = RecordAt(tokens, 1)
  /\ tokens' = Fscanf(tokens).rest
  /\ pc' = IF reader = "swapout" THEN "read" ELSE "push"
  /\ UNCHANGED <<files, blocks, buffer, loaded, live, calls, status>>

ScanAgain == /\ pc = "scan" /\ Fscanf(tokens).assigned # 2
             /\ tokens' = Fscanf(tokens).rest
             /\ UNCHANGED <<files, pc, blocks, buffer, record, loaded, live, calls, status>>

(* It has not, which is taken for the end of the trace. *)
ScanEnd ==
  /\ pc = "scan"
  /\ Fscanf(tokens).assigned # 2
  /\ tokens' = Fscanf(tokens).rest
  /\ Return(0)
  /\ UNCHANGED <<files, blocks, record, loaded, live, calls>>

ReadMiscounted == /\ pc = "read" /\ blocks # <<>> /\ Return(-1)
                  /\ blocks' = Tail(blocks)
                  /\ UNCHANGED <<files, tokens, record, loaded, live, calls>>

(* fread returns 1. *)
ReadBlock ==
  /\ pc = "read"
  /\ blocks # <<>>
  /\ buffer' = Head(blocks)
  /\ blocks' = Tail(blocks)
  /\ pc' = "push"
  /\ UNCHANGED <<files, tokens, record, loaded, live, calls, status>>

ReadFailsQuietly == /\ pc = "read" /\ blocks = <<>> /\ Return(0)
                    /\ UNCHANGED <<files, tokens, blocks, record, loaded, live, calls>>

(* fread returns no whole block: LoadTrace gives up, with the pages it has *)
(* loaded still in dataPages.                                              *)
ReadFails ==
  /\ pc = "read"
  /\ blocks = <<>>
  /\ Return(-1)
  /\ UNCHANGED <<files, tokens, blocks, record, loaded, live, calls>>

PagesSharingBuffer ==
  Append([k \in 1 .. Len(loaded) |-> [loaded[k] EXCEPT !.data = buffer]],
         PageFrom(record, buffer))

(* A new DataPage with a copy of the buffer, or a new PageMetadata.        *)
Pushed == Append(loaded, IF reader = "swapout"
                           THEN PageFrom(record, buffer)
                           ELSE record)

Push ==
  /\ pc = "push"
  /\ loaded' = Pushed
  /\ live' = live + 1
  /\ pc' = "scan"
  /\ UNCHANGED <<files, tokens, blocks, buffer, record, calls, status>>

(* The destructor deletes everything loaded and closes the files. *)
Destroy ==
  /\ pc = "idle"
  /\ pc' = "destroyed"
  /\ loaded' = <<>>
  /\ live' = live - Len(loaded)
  /\ UNCHANGED <<files, tokens, blocks, buffer, record, calls, status>>

Next == \/ Construct
        \/ LoadRefused
        \/ LoadTrace
        \/ ScanRecord
        \/ ScanEnd
        \/ ReadBlock
        \/ ReadFails
        \/ Push
        \/ Destroy

(* A running LoadTrace is never blocked.  Nobody has to call it.           *)
Spec == Init /\ [][Next]_vars /\ WF_vars(ScanRecord \/ ScanEnd \/ ReadBlock \/ ReadFails \/ Push)

-----------------------------------------------------------------------------
(* Properties *)

(* Types. *)
ReaderTypeOK ==
  /\ reader \in {"swapout", "swapin"}
  /\ pc \in {"unopened", "idle", "scan", "read", "push", "destroyed", "exit"}
  /\ Len(tokens) <= Len(meta)
  /\ loaded \in Seq([pfn : Int, uid : Int, data : Block] \cup [pfn : Int, uid : Int])
  /\ live \in Nat /\ calls \in 0 .. MaxCalls /\ status \in {0, -1}

(* The pages of a loaded trace have the numbers of consecutive records of  *)
(* one file, with no place in front of them where a record could be read,  *)
(* and the blocks of the other from the first one on, on every path        *)
(* through the loaders and after a failed load as well: the files never    *)
(* get out of step, whatever stands between, behind or within the lines.   *)
PagesPaired ==
  \E skipped \in 0 .. Len(meta) :
    /\ \A p \in 1 .. skipped : ~ IsRecord(meta, p)
    /\ \A k \in 1 .. Len(loaded) :
         /\ IsRecord(meta, skipped + Place(k))
         /\ loaded[k] = IF reader = "swapin" THEN RecordAt(meta, skipped + Place(k))
                          ELSE PageFrom(RecordAt(meta, skipped + Place(k)), data[k])

(* What a load of both files has to leave behind.                          *)
Trace == IF reader = "swapin" THEN Records(meta) ELSE Pages(meta, data)

(* What LoadTrace loads is exactly what the operators of TraceFiles say,   *)
(* whose pages are paired: the first load that gets as far as reading      *)
(* stops with success at the first place where no record can be read, and  *)
(* fails if and only if there are fewer blocks than records in front of    *)
(* that place; no later call adds to what it left, or completes it.        *)
LoadExact ==
  /\ PagesPaired
  /\ pc = "idle" /\ loaded # <<>> /\ Records(meta) # <<>> => loaded = Trace
  /\ pc = "idle" /\ calls = 1 /\ (loaded # <<>> \/ status = 0) =>
       /\ loaded = Trace
       /\ status = 0 <=> reader = "swapin" \/ LoadSucceeds(meta, data)

(* Outside LoadTrace no page buffer is held, and what was allocated is in  *)
(* the vector the destructor goes through: nothing is lost on any of the   *)
(* four returns of LoadTrace, and the destructor leaves nothing.  And a    *)
(* block of the data file is consumed for every page there is or is about  *)
(* to be, and for nothing else.                                            *)
NothingLost ==
  /\ ReaderTypeOK
  /\ pc # "exit" => live = Len(loaded)
  /\ pc \in {"unopened", "idle", "destroyed"} => buffer = NoBuffer
  /\ reader = "swapout" /\ pc # "destroyed" =>
       Len(loaded) + Len(blocks) + (IF pc = "push" THEN 1 ELSE 0) = Len(data)

(* Every call returns, whatever the file holds. *)
LoadReturns == (pc \in {"scan", "read", "push"}) ~> (pc = "idle")
=============================================================================

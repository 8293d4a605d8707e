------------------------------ MODULE Programs ------------------------------
(***************************************************************************)
(* The three programs from their command line to their exit status:        *)
(* parse_args (module Args), the loaders (TraceFiles), packing (SwapOut)   *)
(* and replay (SwapIn), put together as the main functions of              *)
(* EvalWriteCompressedFile.cpp ("write"), EvalReadCompressedFile.cpp       *)
(* ("read") and delta/EvalReadCompressedFile.cpp ("delta") do, with the    *)
(* calls of zsim_begin and zsim_end that bound what zsim measures.         *)
(*                                                                         *)
(* malloc refuses what no object can have the size of: half of the address *)
(* space or more.  Any smaller slot it is assumed to provide.              *)
(***************************************************************************)
EXTENDS SwapIn, Args, TraceFiles

CONSTANTS
  MetaFiles,    (* what the file named by -t may hold                      *)
  DataFiles,    (* what the file named by -f may hold                      *)
  ReplayFiles   (* what the file named by -r may hold                      *)

Names(args, option) == \E n \in 1 .. Len(args) : args[n][1] = option

NoObject == 2 ^ (LongBits - 1)   \* the size from which malloc returns null

(* At first slot_size has its default, and nothing is loaded.  A page has  *)
(* been compressed into a buffer, so its size is that of an object.        *)
ASSUME SizeAssumption == /\ SlotSizes = {DefaultSlotSize}
                         /\ \A d \in Data : CompressedSize[d] < NoObject
ASSUME FilesAssumption ==
  /\ MetaFiles \cup ReplayFiles \subseteq Seq(Token(Uid \cup Pfn))
  /\ \A tokens \in MetaFiles \cup ReplayFiles : Records(tokens) \in Seq([uid : Uid, pfn : Pfn])
  /\ DataFiles \subseteq Seq(Data)
  /\ {Records(tokens) : tokens \in ReplayFiles} \subseteq Replays
  /\ Traces = {<<>>}

VARIABLES
  mpc,          (* where main is                                           *)
  exit_status,  (* "running", then "success", "failure" or "killed"        *)
  region,       (* "none", "open" after zsim_begin, "closed" after zsim_end*)
  openable,     (* the options whose files can be opened                   *)
  meta, data, replay

mainVars == <<mpc, exit_status, region>>
fileVars == <<openable, meta, data, replay>>
progVars == <<vars, argVars, mainVars, fileVars>>

(* What a file holds matters only if the program gets to read it. *)
IfRead(options, files) == IF options \subseteq openable THEN files ELSE {<<>>}

MainInit ==
  /\ Init /\ ArgsInit
  /\ mpc = "args"
  /\ exit_status = "running"
  /\ region = "none"
  /\ openable \in SUBSET {option \in {"f", "t", "r"} : Names(argv, option)}
  /\ meta \in IfRead({"f", "t"}, MetaFiles)
  /\ data \in IfRead({"f", "t"}, DataFiles)
  /\ replay \in IfRead({"f", "t", "r"}, ReplayFiles)

Continue(step) == mpc' = step /\ UNCHANGED exit_status
Exit(status)   == mpc' = "exit" /\ exit_status' = status

Opens(option) == filename[option] # Null /\ option \in openable

-----------------------------------------------------------------------------

ParseArgs ==
  /\ mpc = "args"
  /\ ArgsNext
  /\ CASE argpc' = "parse"  -> UNCHANGED <<mpc, exit_status>>
       [] argpc' = "parsed" -> Continue("load")
       [] argpc' = "usage"  -> Exit("failure")
  /\ UNCHANGED <<packVars, replayVars, region, fileVars>>

(* The constructor of SwapoutTraceReader exits, or LoadTrace returns -1.   *)
LoadTraceFails ==
  /\ mpc = "load"
  /\ ~ (Opens("f") /\ Opens("t") /\ LoadSucceeds(meta, data))
  /\ Exit("failure")
  /\ UNCHANGED <<vars, argVars, region, fileVars>>

OpensRegion(programs) == region' = IF program \in programs THEN "open" ELSE region

AllPackingMeasured == OpensRegion({"write", "read"})

(* zsim_begin of the write program *)
PackingMeasured == OpensRegion({"write"})

(* The trace is loaded and, whatever comes next, a slot made of the size   *)
(* that is in force by now.  If malloc refuses it, the slot has no buffer, *)
(* and nobody looks at the bytes that it has here.                         *)
LoadTrace ==
  /\ mpc = "load"
  /\ Opens("f") /\ Opens("t") /\ LoadSucceeds(meta, data)
  /\ dataPages' = Pages(meta, data)
  /\ slots' = <<NewSlot>>
  /\ PackingMeasured
  /\ Continue(IF compalg = 1 THEN "bd0" ELSE "store")
  /\ UNCHANGED <<pc, i, compressedPage, slot_list, slot_tree, live, placed, opened,
                 replayVars, argVars, fileVars>>

(* Base-delta compression packs nothing: prepare_read_evaluation_env       *)
(* returns with an empty tree.                                             *)
BaseDelta ==
  /\ mpc = "bd0"
  /\ dataPages # <<>>
  /\ pc' = "stored"
  /\ Continue("replay")
  /\ UNCHANGED <<dataPages, i, compressedPage, slots, slot_list, slot_tree, live, placed, opened,
                 replayVars, argVars, region, fileVars>>

NoPagesIgnored == /\ mpc = "bd0" /\ dataPages = <<>> /\ pc' = "stored" /\ Continue("replay")
                  /\ UNCHANGED <<dataPages, i, compressedPage, slots, slot_list, slot_tree, live,
                                 placed, opened, replayVars, argVars, region, fileVars>>

(* The average size of no pages is a division by zero, which traps.        *)
BaseDeltaOfNothing ==
  /\ mpc = "bd0"
  /\ dataPages = <<>>
  /\ Exit("killed")
  /\ UNCHANGED <<vars, argVars, region, fileVars>>

(* InsertCompressedDataPage finds room in a slot that has no buffer.       *)
NoBuffer == pc = "insert" /\ slot_size >= NoObject /\ Fits(slots[current], compressedPage)

(* The memcpy to a null pointer kills the program. *)
InsertCrashes ==
  /\ mpc = "store"
  /\ NoBuffer
  /\ Exit("killed")
  /\ UNCHANGED <<vars, argVars, region, fileVars>>

(* One step of the packing loop, which ends the write program, and the     *)
(* others only if a page cannot be compressed.                             *)
Store ==
  /\ mpc = "store"
  /\ ~ NoBuffer
  /\ StoreNext
  /\ CASE pc' = "compress_failed" -> Exit("failure") /\ UNCHANGED region
       [] pc' = "stored" /\ program = "write" -> Exit("success") /\ region' = "closed"
       [] pc' = "stored" /\ program # "write" -> Continue("replay") /\ UNCHANGED region
       [] OTHER -> UNCHANGED mainVars
  /\ UNCHANGED <<replayVars, argVars, fileVars>>

(* The replay trace is the one its file holds. *)
OpenReplay ==
  /\ LoadReplay
  /\ IF Opens("r") THEN rpc' = "replay" /\ ops' = Records(replay)
                   ELSE rpc' = "no_replay_file"

StartReplay ==
  /\ mpc = "replay"
  /\ OpenReplay
  /\ IF rpc' = "replay"
       THEN OpensRegion({"read"}) /\ UNCHANGED <<mpc, exit_status>>
       ELSE Exit("failure") /\ UNCHANGED region
  /\ UNCHANGED <<storeVars, argVars, fileVars>>

RegionKept == UNCHANGED region

(* zsim_end of the read program *)
RegionClosed == region' = IF program = "read" THEN "closed" ELSE region

(* One step of the replay, until "Finished!" or one of the error returns,  *)
(* which leave the measured region open.                                   *)
Replay ==
  /\ mpc = "replay"
  /\ rpc # "waiting" /\ ReplayNext
  /\ CASE rpc' = "finished" -> Exit("success") /\ RegionClosed
       [] rpc' \in {"page_not_found", "decompress_failed"} -> Exit("failure") /\ UNCHANGED region
       [] OTHER -> UNCHANGED mainVars
  /\ UNCHANGED <<storeVars, argVars, fileVars>>

MainNext == \/ ParseArgs
            \/ LoadTraceFails
            \/ LoadTrace
            \/ BaseDelta
            \/ BaseDeltaOfNothing
            \/ InsertCrashes
            \/ Store
            \/ StartReplay
            \/ Replay

(* One thread, as before. *)
MainSpec == MainInit /\ [][MainNext]_progVars /\ WF_progVars(MainNext)

-----------------------------------------------------------------------------
(* Properties *)

(* The exit status tells what the input files and options were: 0 stands   *)
(* for options and codecs all of which the program knows, files that could *)
(* be opened, as many blocks as records, pages the codec took, and a       *)
(* replay trace, and every such input leads to it.  Two kinds of input kill*)
(* a program that can load its trace: a trace of no pages for a base-delta *)
(* run, and a slot size no object can have, unless there is nothing to put *)
(* in a slot.  No error return of the replay hides behind a status.        *)
StatusExplained ==
  LET codecs     == {"lzo", "lz4"} \cup (IF program = "delta" THEN {"bd0"} ELSE {})
      Known(o)   == o[1] \in Accepted[program] /\ (o[1] = "c" => o[2] \in codecs)
      loadable   == /\ \A n \in 1 .. Len(argv) : Known(argv[n])
                    /\ Opens("f") /\ Opens("t") /\ LoadSucceeds(meta, data)
      compresses == \A n \in 1 .. Len(dataPages) : dataPages[n].data \notin Rejected
      empty      == Records(meta) = <<>>
      unserved   == slot_size >= NoObject /\ ~ empty
  IN  /\ exit_status = "success" <=>
           /\ mpc = "exit" /\ loadable
           /\ IF compalg = 1 THEN ~ empty ELSE compresses /\ ~ unserved
           /\ program # "write" => Opens("r")
      /\ exit_status = "killed" <=>
           /\ mpc = "exit" /\ loadable
           /\ IF compalg = 1 THEN empty ELSE unserved /\ dataPages[1].data \notin Rejected

(* The region at the end: closed whenever the program reports success, and *)
(* never opened by the delta program.  What leaves it open is a page the   *)
(* write program cannot compress, or has no memory to insert.              *)
RegionBalanced ==
  mpc = "exit" =>
    region = IF program # "delta" /\ exit_status = "success" THEN "closed"
               ELSE IF program = "write" /\ (pc = "compress_failed" \/ exit_status = "killed")
               THEN "open" ELSE "none"

(* Every step of the loop under measurement is inside the region, and none *)
(* of the other loop: the read program does not measure its packing, and   *)
(* none measures parsing or loading.  At the end the region is balanced.   *)
RegionMeasures ==
  [][/\ i' # i /\ program = "write" => region = "open"
     /\ restored' # restored /\ program = "read" => region = "open"
     /\ region = "open" => IF program = "write" THEN mpc = "store" ELSE mpc = "replay"
     /\ RegionBalanced']_progVars

(* From file to file: a page restored for a frame is the block that stands *)
(* in the data file at the position of one of the frame's records in the   *)
(* swap-out trace; a frame without a record is skipped; and a base-delta   *)
(* run restores nothing at all.                                            *)
RestoredFromFile ==
  \A q \in 1 .. Len(restored) :
    LET frame == Records(replay)[q].pfn
        mine  == {k \in 1 .. Len(Records(meta)) : Records(meta)[k].pfn = frame}
    IN  /\ restored[q].pfn = frame
        /\ restored[q].data # Skipped => compalg = 0 /\ \E k \in mine : data[k] = restored[q].data
        /\ compalg = 0 /\ Len(slots) = 1 =>   \* then no page was refused
             (restored[q].data = Skipped <=> mine = {})

(* Every program ends, whatever its options and files.                     *)
ProgramEnds == <>(mpc = "exit")
=============================================================================

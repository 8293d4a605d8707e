------------------------------ MODULE MCSwapIn ------------------------------
(***************************************************************************)
(* Instance of SwapOut and SwapIn: all traces of up to MaxPages pages over *)
(* two frames and contents that fill a third of a slot, two thirds of it,  *)
(* more than a whole slot (an incompressible page is larger than the       *)
(* default 4096 byte slot), or that the codec rejects, replayed by up to   *)
(* MaxRecords records, which may name a frame that was never swapped out   *)
(* and may name a frame twice.                                             *)
(***************************************************************************)
EXTENDS SwapIn

CONSTANTS p1, p2, u1, a, b, oversize, bad

MaxPages   == 4
MaxRecords == 2

MCPfn  == {p1, p2}
MCUid  == {u1}
MCData == {a, b, oversize, bad}
MCCompressedSize ==
  [d \in MCData |-> CASE d = a -> 1 [] d = b -> 2 [] OTHER -> 4]
MCRejected == {bad}
MCTraces == UNION {[1 .. n -> [pfn : MCPfn, uid : MCUid, data : MCData]] : n \in 0 .. MaxPages}
MCReplays == UNION {[1 .. n -> [pfn : MCPfn, uid : MCUid]] : n \in 0 .. MaxRecords}
=============================================================================

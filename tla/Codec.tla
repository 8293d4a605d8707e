------------------------------- MODULE Codec -------------------------------
(***************************************************************************)
(* What a CompressionAlgorithm of ZSwapTest.h promises the packing loop    *)
(* and the replay, whichever codec is behind it: CompressDataPage makes of *)
(* every page a block that fits the buffer its class allocates, and        *)
(* DecompressDataPage gives back that page and reports no error.  SwapOut  *)
(* and SwapIn rely on it for the contents a codec does not reject.         *)
(***************************************************************************)
EXTENDS Naturals, Sequences

CONSTANTS Bytes,       (* what a page is made of                           *)
          Capacity(_), (* bytes allocated for the block of a page of a size *)
          NoPage       (* a null pointer                                   *)

VARIABLES page,             (* what is to be compressed                    *)
          compressed_size,  (* of its block, 0 while there is none         *)
          returned          (* what DecompressDataPage returned            *)

vars == <<page, compressed_size, returned>>

Init == /\ page \in Seq(Bytes) /\ page # NoPage
        /\ compressed_size = 0
        /\ returned = NoPage

CompressDataPage == /\ compressed_size = 0
                    /\ compressed_size' \in 1 .. Capacity(Len(page))
                    /\ UNCHANGED <<page, returned>>

DecompressDataPage == /\ compressed_size # 0
                      /\ returned = NoPage
                      /\ returned' = page
                      /\ UNCHANGED <<page, compressed_size>>

Next == CompressDataPage \/ DecompressDataPage

(* Both calls are made, and both return. *)
Spec == Init /\ [][Next]_vars /\ <>(returned # NoPage)
=============================================================================

------------------------------- MODULE Globals -------------------------------
(***************************************************************************)
(* The global variable of the three programs that parse_args assigns and   *)
(* the packing loop reads.                                                 *)
(***************************************************************************)

VARIABLE slot_size   \* size of a ZRamBufferSlot, in bytes
=============================================================================

------------------------------ MODULE SwapArea ------------------------------
(***************************************************************************)
(* What the simulated ZRAM area promises, without slots, offsets or bytes. *)
(* Pages may be lost when they are swapped out.  A page that was kept can  *)
(* always be swapped in, any number of times; a swap-in of a frame answers *)
(* with something that was swapped out for that very frame, and is skipped *)
(* only if nothing of that frame was kept.                                 *)
(***************************************************************************)
EXTENDS Sequences

CONSTANTS Pfn, Data, Skipped

VARIABLES kept,    (* pfn -> the contents kept for that frame            *)
          served   (* the answers given to swap-ins, in order            *)

vars == <<kept, served>>

Init == /\ kept = [p \in Pfn |-> {}]
        /\ served = <<>>

Keep(p, d) == /\ kept' = [kept EXCEPT ![p] = @ \cup {d}]
              /\ UNCHANGED served

Answer(p, d) == /\ served' = Append(served, [pfn |-> p, data |-> d])
                /\ UNCHANGED kept

SwapIn(p) == \E d \in kept[p] : Answer(p, d)

Skip(p) == kept[p] = {} /\ Answer(p, Skipped)

Next == \E p \in Pfn : \/ \E d \in Data : Keep(p, d)
                       \/ SwapIn(p)
                       \/ Skip(p)

Spec == Init /\ [][Next]_vars
=============================================================================

----------------------------- MODULE TraceFiles -----------------------------
(***************************************************************************)
(* Trace files, as the loaders of ZSwapTest.h read them with               *)
(* fscanf("%d,%d\n") and fread.  fscanf knows no lines: to %d and to "\n"  *)
(* an end of line is white space like any other.  A .meta file is the      *)
(* sequence of what fscanf can tell apart in it:                           *)
(*                                                                         *)
(*   "number"  what %d converts, and its value                             *)
(*   "comma"   a comma with no white space in front of it                  *)
(*   "sign"    a + or - with no digit behind it                            *)
(*   "text"    anything else; also a comma behind white space, as neither  *)
(*             "," nor %d matches that                                     *)
(*                                                                         *)
(* A .data file is a sequence of blocks of PAGE_SIZE bytes.  What is left  *)
(* of it behind the last whole block can never be read.                    *)
(***************************************************************************)
EXTENDS Naturals, Sequences, FiniteSetsExt

Token(Values) == [kind : {"number"}, value : Values] \cup [kind : {"comma", "sign", "text"}]

Kind(tokens, p) == IF p <= Len(tokens) THEN tokens[p].kind ELSE "eof"

(* uid,pfn *)
IsRecord(tokens, p) == /\ Kind(tokens, p) = "number"
                       /\ Kind(tokens, p + 1) = "comma"
                       /\ Kind(tokens, p + 2) = "number"

RecordAt(tokens, p) == [uid |-> tokens[p].value, pfn |-> tokens[p + 2].value]

Behind(tokens, n) == SubSeq(tokens, n + 1, Len(tokens))

(* A %d that fails at token p has nonetheless read a sign.                 *)
ReadByFailure(tokens, p) == IF Kind(tokens, p) = "sign" THEN p ELSE p - 1

(* One call of fscanf: how many numbers it assigns, and what it leaves to  *)
(* be read, which the next call then meets.                                *)
Fscanf(tokens) ==
  LET Result(assigned, n) == [assigned |-> assigned, rest |-> Behind(tokens, n)]
  IN  IF Kind(tokens, 1) # "number" THEN Result(0, ReadByFailure(tokens, 1))
      ELSE IF Kind(tokens, 2) # "comma" THEN Result(1, 1)
      ELSE IF Kind(tokens, 3) # "number" THEN Result(1, ReadByFailure(tokens, 3))
      ELSE Result(2, 3)

-----------------------------------------------------------------------------
(* What the first LoadTrace on a pair of files leaves behind, stated       *)
(* without its loop.                                                       *)

(* Where the nth record is, if nothing stands in front of the first.       *)
Place(n) == 3 * n - 2

(* The records the file begins with, up to the first place where no record *)
(* can be read.  Line breaks do not matter.                                *)
Records(tokens) ==
  LET AreRecords(n) == \A k \in 1 .. n : IsRecord(tokens, Place(k))
      count         == Max({n \in 0 .. Len(tokens) : AreRecords(n)})
  IN  [k \in 1 .. count |-> RecordAt(tokens, Place(k))]

(* Every record needs a block.  *)
LoadSucceeds(tokens, blocks) == Len(Records(tokens)) <= Len(blocks)

PageFrom(record, block) == [pfn |-> record.pfn, uid |-> record.uid, data |-> block]

PagesOfOneBuffer(tokens, blocks) ==
  LET n == Min({Len(Records(tokens)), Len(blocks)})
  IN  [k \in 1 .. n |-> PageFrom(Records(tokens)[k], blocks[n])]

(* The pages that are loaded.  Of a replay trace it is the records.        *)
Pages(tokens, blocks) ==
  [k \in 1 .. Min({Len(Records(tokens)), Len(blocks)}) |->
     PageFrom(Records(tokens)[k], blocks[k])]
=============================================================================

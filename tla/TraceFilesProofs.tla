-------------------------- MODULE TraceFilesProofs --------------------------
(***************************************************************************)
(* What the operators of module TraceFiles give for every trace file: how  *)
(* many records are loaded, and which pages they and the blocks make.      *)
(***************************************************************************)
EXTENDS TraceFiles, SequenceTheorems, WellFoundedInduction, TLAPS

(* The greatest number of a bounded set of them, and the lesser of two.    *)
LEMMA MaxOf ==
  ASSUME NEW L \in Nat, NEW S, S \subseteq 0 .. L, S # {}
  PROVE  Max(S) \in S /\ \A y \in S : Max(S) >= y
<1> DEFINE T == {L - y : y \in S}
<1>0. \A y \in S : y \in Int /\ L - y \in T /\ L - y \in Nat
  OBVIOUS
<1>1. T \subseteq Nat /\ T # {}
  <2>1. PICK y \in S : TRUE
    OBVIOUS
  <2> QED BY <1>0, <2>1
<1>2. PICK t \in T : \A y \in T : ~ (<<y, t>> \in OpToRel(<, Nat))
  BY <1>1, NatLessThanWellFounded, WFMin
<1>3. \A y \in T : ~ (y < t)
  BY <1>1, <1>2 DEF OpToRel
<1>4. PICK x \in S : t = L - x
  OBVIOUS
<1>5. ASSUME NEW y \in S PROVE x >= y
  <2>1. ~ (L - y < L - x)
    BY <1>0, <1>3, <1>4
  <2> QED BY <1>0, <2>1
<1> HIDE DEF T
<1>6. \E z \in S : \A y \in S : z >= y
  BY <1>5
<1> QED BY <1>6 DEF Max

LEMMA MinOfTwo ==
  ASSUME NEW a \in Nat, NEW b \in Nat
  PROVE  Min({a, b}) = IF a <= b THEN a ELSE b
<1>1. \E x \in {a, b} : \A y \in {a, b} : x <= y
  OBVIOUS
<1>2. Min({a, b}) \in {a, b} /\ \A y \in {a, b} : Min({a, b}) <= y
  BY <1>1 DEF Min
<1> QED BY <1>2

-----------------------------------------------------------------------------
(* Records *)

(* The numbers of a record are numbers of the file.                        *)
LEMMA RecordTokens ==
  ASSUME NEW V, NEW tokens \in Seq(Token(V)), NEW p \in Nat \ {0}, IsRecord(tokens, p)
  PROVE  /\ p + 2 <= Len(tokens)
         /\ RecordAt(tokens, p) \in [uid : V, pfn : V]
         /\ RecordAt(tokens, p).uid \in V /\ RecordAt(tokens, p).pfn \in V
<1>0. Len(tokens) \in Nat
  OBVIOUS
<1>1. ASSUME NEW q \in Nat \ {0}, Kind(tokens, q) = "number"
      PROVE  q <= Len(tokens) /\ tokens[q].value \in V
  <2>1. q <= Len(tokens) /\ tokens[q].kind = "number"
    BY <1>1 DEF Kind
  <2>2. tokens[q] \in Token(V)
    BY <1>0, <2>1, ElementOfSeq
  <2> QED BY <2>1, <2>2 DEF Token
<1>2. p + 2 \in Nat \ {0}
  OBVIOUS
<1> QED BY <1>1, <1>2 DEF IsRecord, RecordAt

(* The file begins with at least n records.                                *)
AreRecords(tokens, n) == \A k \in 1 .. n : IsRecord(tokens, Place(k))

(* Records(tokens) are the most records of which that is true.             *)
LEMMA RecordsAre ==
  ASSUME NEW V, NEW tokens \in Seq(Token(V))
  PROVE  /\ Len(Records(tokens)) \in 0 .. Len(tokens)
         /\ AreRecords(tokens, Len(Records(tokens)))
         /\ \A n \in 0 .. Len(tokens) : AreRecords(tokens, n) => n <= Len(Records(tokens))
         /\ Records(tokens) = [k \in 1 .. Len(Records(tokens)) |-> RecordAt(tokens, Place(k))]
         /\ Records(tokens) \in Seq([uid : V, pfn : V])
<1> DEFINE T == {n \in 0 .. Len(tokens) : \A k \in 1 .. n : IsRecord(tokens, Place(k))}
<1>0. Len(tokens) \in Nat
  OBVIOUS
<1>1. 0 \in T /\ T \subseteq 0 .. Len(tokens)
  BY <1>0
<1>2. \A n \in 0 .. Len(tokens) : n \in T <=> AreRecords(tokens, n)
  BY <1>0 DEF AreRecords
<1>3. Records(tokens) = [k \in 1 .. Max(T) |-> RecordAt(tokens, Place(k))]
  BY DEF Records
<1> HIDE DEF T
<1>4. Max(T) \in T /\ \A y \in T : Max(T) >= y
  BY <1>0, <1>1, MaxOf
<1>5. Max(T) \in 0 .. Len(tokens)
  BY <1>1, <1>4
<1>6. ASSUME NEW k \in 1 .. Max(T) PROVE RecordAt(tokens, Place(k)) \in [uid : V, pfn : V]
  <2>1. IsRecord(tokens, Place(k)) /\ Place(k) \in Nat \ {0}
    BY <1>2, <1>4, <1>5, <1>6 DEF AreRecords, Place
  <2> QED BY <2>1, RecordTokens
<1>7. Len(Records(tokens)) = Max(T) /\ Records(tokens) \in Seq([uid : V, pfn : V])
  <2> DEFINE c == Max(T)
             R(k) == RecordAt(tokens, Place(k))
  <2>1. c \in Nat /\ Records(tokens) = [k \in 1 .. c |-> R(k)]
    BY <1>0, <1>3, <1>5
  <2>2. \A k \in 1 .. c : R(k) \in [uid : V, pfn : V]
    BY <1>6
  <2> HIDE DEF c, R
  <2> DEFINE W == [uid : V, pfn : V]
  <2>3. \A k \in 1 .. c : R(k) \in W
    BY <2>2
  <2> HIDE DEF W
  <2>4. Records(tokens) \in Seq(W) /\ Len(Records(tokens)) = c
    BY <2>1, <2>3
  <2> QED BY <2>4 DEF c, W
<1> QED BY <1>0, <1>2, <1>3, <1>4, <1>5, <1>7

(* If every record has a block, the loaded pages are as many as the        *)
(* records, each made of its record and its block.                         *)
LEMMA PagesAre ==
  ASSUME NEW V, NEW tokens \in Seq(Token(V)), NEW B, NEW blocks \in Seq(B),
         LoadSucceeds(tokens, blocks)
  PROVE  /\ Len(Records(tokens)) \in Nat
         /\ Len(Pages(tokens, blocks)) = Len(Records(tokens))
         /\ Pages(tokens, blocks) = [k \in 1 .. Len(Records(tokens)) |->
                                       PageFrom(Records(tokens)[k], blocks[k])]
         /\ \A k \in 1 .. Len(Records(tokens)) :
              /\ Records(tokens)[k] \in [uid : V, pfn : V] /\ blocks[k] \in B
              /\ Pages(tokens, blocks)[k] = PageFrom(Records(tokens)[k], blocks[k])
<1> DEFINE n == Len(Records(tokens))
<1>1. n \in Nat /\ Len(blocks) \in Nat /\ Records(tokens) \in Seq([uid : V, pfn : V])
  BY RecordsAre
<1>2. n <= Len(blocks) /\ Min({n, Len(blocks)}) = n
  <2>1. n <= Len(blocks)
    BY DEF LoadSucceeds
  <2> HIDE DEF n
  <2> QED BY <1>1, <2>1, MinOfTwo
<1>3. Pages(tokens, blocks) = [k \in 1 .. n |-> PageFrom(Records(tokens)[k], blocks[k])]
  BY <1>2 DEF Pages
<1>4. \A k \in 1 .. n : Records(tokens)[k] \in [uid : V, pfn : V]
  BY <1>1, ElementOfSeq
<1> HIDE DEF n
<1>5. \A k \in 1 .. n : blocks[k] \in B
  BY <1>1, <1>2
<1>6. Len(Pages(tokens, blocks)) = n
  BY <1>1, <1>3
<1> QED BY <1>1, <1>3, <1>4, <1>5, <1>6 DEF n
=============================================================================

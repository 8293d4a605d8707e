--------------------------- MODULE DeltaCompProofs ---------------------------
(***************************************************************************)
(* Proofs of the base-delta compression, for all traces and sizes.         *)
(*                                                                         *)
(* The invariant is Compressing.  That the stream can be read back needs   *)
(* to know where every word of it begins, which is Readable; the recursive *)
(* definitions of the reader (ValueAt, Behind) are shown to have the       *)
(* solution known from there, and, by the least number at which they would *)
(* differ, only that one.                                                  *)
(***************************************************************************)
EXTENDS DeltaComp, SequenceTheorems, FiniteSetTheorems, FunctionTheorems,
        WellFoundedInduction, TLAPS

-----------------------------------------------------------------------------
(* Arithmetic *)

LEMMA DivMod ==
  ASSUME NEW a \in Nat, NEW b \in Nat \ {0}
  PROVE  /\ a \div b \in Nat /\ a % b \in 0 .. b - 1
         /\ a = (b * (a \div b)) + (a % b)
  OBVIOUS

LEMMA Quotient ==
  ASSUME NEW b \in Nat \ {0}, NEW q \in Nat, NEW r \in 0 .. b - 1
  PROVE  (q * b + r) \div b = q /\ (q * b + r) % b = r
<1> DEFINE a == q * b + r
           d == a \div b
           m == a % b
<1>1. a \in Nat
  OBVIOUS
<1>2. d \in Nat /\ m \in 0 .. b - 1 /\ a = (b * d) + m
  BY <1>1, DivMod
<1> HIDE DEF d, m
<1>3. d = q
  <2>1. ASSUME d < q PROVE FALSE
    <3>1. d + 1 <= q
      BY <1>2, <2>1
    <3>2. b * (d + 1) <= b * q
      BY <1>2, <3>1
    <3> QED BY <1>2, <3>2
  <2>2. ASSUME d > q PROVE FALSE
    <3>1. q + 1 <= d
      BY <1>2, <2>2
    <3>2. b * (q + 1) <= b * d
      BY <1>2, <3>1
    <3> QED BY <1>2, <3>2
  <2> QED BY <1>2, <2>1, <2>2
<1> QED BY <1>2, <1>3 DEF d, m

LEMMA CeilDivBounds ==
  ASSUME NEW a \in Nat, NEW b \in Nat \ {0}
  PROVE  /\ CeilDiv(a, b) \in Nat
         /\ a <= CeilDiv(a, b) * b /\ CeilDiv(a, b) * b < a + b
<1>1. a + b - 1 \in Nat
  OBVIOUS
<1>2. /\ CeilDiv(a, b) \in Nat /\ (a + b - 1) % b \in 0 .. b - 1
      /\ a + b - 1 = (b * CeilDiv(a, b)) + ((a + b - 1) % b)
  BY <1>1, DivMod DEF CeilDiv
<1> QED BY <1>2

(* The power of a number of bits is the number of sets of these bits. *)
LEMMA PowerNat == ASSUME NEW k \in Nat PROVE 2 ^ k \in Nat \ {0}
<1>1. IsFiniteSet(1 .. k) /\ Cardinality(1 .. k) = k
  BY FS_Interval
<1>2. IsFiniteSet(SUBSET (1 .. k)) /\ Cardinality(SUBSET (1 .. k)) = 2 ^ k
  BY <1>1, FS_SUBSET
<1>3. {} \in SUBSET (1 .. k)
  OBVIOUS
<1> QED BY <1>2, <1>3, FS_CardinalityType, FS_EmptySet

LEMMA PowerSum == ASSUME NEW k \in Nat, NEW m \in Nat PROVE 2 ^ (k + m) = 2 ^ k * 2 ^ m
<1> DEFINE K == 1 .. k
           M == k + 1 .. k + m
           A == 1 .. k + m
           F == [s \in SUBSET A |-> <<s \cap K, s \cap M>>]
<1>1. /\ IsFiniteSet(K) /\ Cardinality(K) = k
      /\ IsFiniteSet(M) /\ Cardinality(M) = m
      /\ IsFiniteSet(A) /\ Cardinality(A) = k + m
  <2>1. \A a, b \in Int : /\ IsFiniteSet(a .. b)
                         /\ Cardinality(a .. b) = IF a > b THEN 0 ELSE b - a + 1
    BY FS_Interval
  <2>2. IsFiniteSet(K) /\ Cardinality(K) = k
    BY <2>1
  <2>3. IsFiniteSet(M) /\ Cardinality(M) = IF k + 1 > k + m THEN 0 ELSE (k + m) - (k + 1) + 1
    BY <2>1
  <2>4. IsFiniteSet(A) /\ Cardinality(A) = IF 1 > k + m THEN 0 ELSE (k + m) - 1 + 1
    BY <2>1
  <2> HIDE DEF K, M, A
  <2> QED BY <2>2, <2>3, <2>4
<1>2. K \cap M = {} /\ K \cup M = A
  OBVIOUS
<1> HIDE DEF K, M, A
<1>3. F \in Bijection(SUBSET A, (SUBSET K) \X (SUBSET M))
  <2>1. F \in [SUBSET A -> (SUBSET K) \X (SUBSET M)]
    OBVIOUS
  <2>2. ASSUME NEW s \in SUBSET A, NEW t \in SUBSET A, F[s] = F[t] PROVE s = t
    <3>1. s \cap K = t \cap K /\ s \cap M = t \cap M
      BY <2>2
    <3> QED BY <1>2, <3>1
  <2>3. ASSUME NEW p \in (SUBSET K) \X (SUBSET M) PROVE \E s \in SUBSET A : F[s] = p
    <3>1. PICK x \in SUBSET K, y \in SUBSET M : p = <<x, y>>
      OBVIOUS
    <3>2. x \cup y \in SUBSET A /\ (x \cup y) \cap K = x /\ (x \cup y) \cap M = y
      BY <1>2
    <3> QED BY <3>1, <3>2
  <2> HIDE DEF F
  <2> QED BY <2>1, <2>2, <2>3, Fun_IsBij
<1>4. ExistsBijection(SUBSET A, (SUBSET K) \X (SUBSET M))
  BY <1>3, Fun_ExistsBij
<1>5. /\ IsFiniteSet(SUBSET A) /\ Cardinality(SUBSET A) = 2 ^ (k + m)
      /\ IsFiniteSet(SUBSET K) /\ Cardinality(SUBSET K) = 2 ^ k
      /\ IsFiniteSet(SUBSET M) /\ Cardinality(SUBSET M) = 2 ^ m
  BY <1>1, FS_SUBSET
<1>6. Cardinality((SUBSET K) \X (SUBSET M)) = Cardinality(SUBSET A)
  BY <1>4, <1>5, FS_Bijection
<1>7. Cardinality((SUBSET K) \X (SUBSET M)) = 2 ^ k * 2 ^ m
  <2>1. Cardinality((SUBSET K) \X (SUBSET M)) = Cardinality(SUBSET K) * Cardinality(SUBSET M)
    BY <1>5, FS_Product
  <2> QED BY <1>5, <2>1
<1> QED BY <1>5, <1>6, <1>7

LEMMA SizeFacts ==
  /\ BaseBits \in Nat \ {0} /\ LowBits \in Nat \ {0} /\ ByteBits \in Nat \ {0}
  /\ PageBytes \in Nat \ {0} /\ PageWords \in Nat \ {0} /\ InputPages \in Nat \ {0}
  /\ LogBases \in Nat /\ CountBits \in Nat /\ WordBits \in Nat \ {0}
  /\ NumBases \in Nat \ {0} /\ 2 ^ LowBits \in Nat \ {0} /\ 2 ^ BaseBits \in Nat \ {0}
<1>1. /\ BaseBits \in Nat \ {0} /\ LowBits \in Nat \ {0} /\ ByteBits \in Nat \ {0}
      /\ PageBytes \in Nat \ {0} /\ PageWords \in Nat \ {0} /\ InputPages \in Nat \ {0}
      /\ LogBases \in Nat /\ CountBits \in Nat
  BY SizeAssumption
<1> QED BY <1>1, PowerNat DEF WordBits, NumBases

(* The upper bits of a word are a base. *)
LEMMA BaseOfWord == ASSUME NEW w \in Word PROVE BaseOf(w) \in Base
<1> DEFINE L == 2 ^ LowBits
           H == 2 ^ BaseBits
<1>1. L \in Nat \ {0} /\ H \in Nat \ {0} /\ 2 ^ WordBits = H * L
  BY SizeFacts, PowerSum DEF WordBits
<1>2. w \in Nat /\ w < 2 ^ WordBits
  BY <1>1 DEF Word
<1> DEFINE d == w \div L
<1>3. d \in Nat /\ w % L \in 0 .. L - 1 /\ w = (L * d) + (w % L)
  BY <1>1, <1>2, DivMod
<1> HIDE DEF L, H, d
<1>4. ASSUME d >= H PROVE FALSE
  <2>1. L * H <= L * d
    BY <1>1, <1>3, <1>4
  <2> QED BY <1>1, <1>2, <1>3, <2>1
<1>5. d \in 0 .. H - 1
  BY <1>1, <1>3, <1>4
<1> QED BY <1>5 DEF BaseOf, Base, d, L, H

-----------------------------------------------------------------------------
(* The inductive invariant *)

GroupWords == InputPages * PageWords

(* A group of pages is being compressed. *)
Working == pc \in {"scan", "choose", "bases", "encode", "returned"}

(* The groups are whole, and cut from what the trace has.                  *)
Grouped ==
  /\ dataPages \in Seq([1 .. PageWords -> Word])
  /\ data # <<>> => Len(data) = GroupWords
  /\ Working => iter < num_iters

(* The words scanned so far that have base b. *)
Seen(b) == {k \in 1 .. Len(baseid_array) : BaseOf(data[k]) = b}

(* base_count has counted them. *)
Scanned ==
  /\ ScanFaithful
  /\ \A b \in DOMAIN base_count : base_count[b] = Cardinality(Seen(b))
  /\ Len(baseid_array) <= Len(data)
  /\ pc = "scan" => n = Len(baseid_array) + 1
  /\ Working /\ pc # "scan" => Len(baseid_array) = Len(data)

(* The bases chosen so far are the commonest. *)
Chosen ==
  Working /\ pc # "scan" =>
    /\ IsInjective(top_bases)
    /\ Range(top_bases) \subseteq DOMAIN base_count
    /\ Len(top_bases) <= NumBases
    /\ \A b \in Range(top_bases), c \in Untaken : base_count[c] <= base_count[b]
    /\ compressed_count = Cardinality(WordsOf(Range(top_bases)))
    /\ pc # "choose" => Len(top_bases) >= effective_num_bases

(* The words written so far that are written as a base and a value.        *)
Coded == {k \in 1 .. n - 1 : BaseOf(data[k]) \in Range(top_bases)}

(* The bits of m words, c of them compressed. *)
BitsOf(m, c) == (LowBits + LogBases) * c + (m - c) * WordBits + m

(* Where every bit of the stream is. *)
Packed ==
  /\ Len(written) = byte_count * ByteBits + Len(stream_val)
  /\ \A b \in 1 .. byte_count, j \in 1 .. ByteBits :
       written[(b - 1) * ByteBits + j] = data_buffer[b][j]
  /\ \A j \in 1 .. Len(stream_val) : written[byte_count * ByteBits + j] = stream_val[j]

(* The stream has the size worked out for it.                              *)
Streamed ==
  /\ pc \in {"scan", "choose", "bases"} =>
       byte_count = 0 /\ stream_val = <<>> /\ written = <<>>
  /\ pc = "bases" => n <= NumBases
  /\ pc \in {"bases", "encode"} =>
       /\ num_pages_needed = PagesNeeded /\ num_pages_needed < InputPages
       /\ Len(data_buffer) = CeilDiv(data_bits, ByteBits)
  /\ pc = "encode" =>
       /\ n <= Len(data) + 1
       /\ Len(written) = BitsOf(n - 1, Cardinality(Coded))
       /\ Packed

Compressing == DeltaTypeOK /\ Grouped /\ Scanned /\ Chosen /\ Streamed

-----------------------------------------------------------------------------
(* Groups *)

LEMMA Lengths ==
  ASSUME DeltaTypeOK
  PROVE  /\ Len(data) \in Nat /\ Len(baseid_array) \in Nat /\ Len(base_array) \in Nat
         /\ Len(top_bases) \in Nat /\ Len(data_buffer) \in Nat /\ Len(written) \in Nat
         /\ Len(stream_val) \in Nat /\ byte_count \in Nat /\ compressed_count \in Nat
         /\ DOMAIN data_buffer = 1 .. Len(data_buffer)
         /\ DOMAIN top_bases = 1 .. Len(top_bases)
         /\ DOMAIN base_array = 1 .. Len(base_array)
         /\ \A k \in 1 .. Len(data) : data[k] \in Word /\ BaseOf(data[k]) \in Base
<1>1. \A k \in 1 .. Len(data) : data[k] \in Word
  BY ElementOfSeq DEF DeltaTypeOK
<1>2. /\ Len(data) \in Nat /\ Len(baseid_array) \in Nat /\ Len(base_array) \in Nat
      /\ Len(top_bases) \in Nat /\ Len(data_buffer) \in Nat /\ Len(written) \in Nat
      /\ Len(stream_val) \in Nat
  BY DEF DeltaTypeOK
<1>3. /\ DOMAIN data_buffer = 1 .. Len(data_buffer)
      /\ DOMAIN top_bases = 1 .. Len(top_bases)
      /\ DOMAIN base_array = 1 .. Len(base_array)
  BY DEF DeltaTypeOK
<1>4. byte_count \in Nat /\ compressed_count \in Nat
  BY <1>2 DEF DeltaTypeOK
<1> QED BY <1>1, <1>2, <1>3, <1>4, BaseOfWord

LEMMA EmptyFacts ==
  /\ Len(<<>>) = 0 /\ DOMAIN <<>> = {} /\ Range(<<>>) = {} /\ IsInjective(<<>>)
  /\ \A S : <<>> \in Seq(S)
  BY DEF Range, IsInjective

LEMMA CompressingInit == Init => Compressing
<1> SUFFICES ASSUME Init PROVE Compressing
  OBVIOUS
<1> USE EmptyFacts, SizeFacts
<1>1. dataPages \in Seq([1 .. PageWords -> Word]) /\ Len(dataPages) \in Nat
  BY PagesAssumption DEF Init
<1>2. num_iters \in Nat
  BY <1>1, DivMod DEF num_iters
<1>3. DeltaTypeOK
  BY <1>2 DEF Init, DeltaTypeOK
<1>4. Grouped
  BY <1>1 DEF Init, Grouped, Working
<1>5. Scanned
  BY DEF Init, Scanned, ScanFaithful, Working
<1>6. Chosen /\ Streamed
  BY DEF Init, Chosen, Streamed, Working
<1> QED BY <1>3, <1>4, <1>5, <1>6 DEF Compressing

LEMMA PrepareStep == Compressing /\ Prepare => Compressing'
<1> SUFFICES ASSUME Compressing, Prepare PROVE Compressing'
  OBVIOUS
<1>0. /\ pc = "prepare" /\ pc' \in {"divided_by_zero", "next_group"}
      /\ UNCHANGED <<outerVars, data, n, scanVars, rankVars, num_pages_needed,
                     base_buffer, streamVars>>
  BY DEF Prepare
<1> USE DEF outerVars, scanVars, rankVars, streamVars
<1>1. DeltaTypeOK'
  BY <1>0 DEF Compressing, DeltaTypeOK, num_iters, Byte
<1>2. Grouped' /\ Chosen' /\ Streamed'
  BY <1>0 DEF Compressing, Grouped, Chosen, Streamed, Working
<1>3. Scanned'
  BY <1>0 DEF Compressing, Scanned, ScanFaithful, Seen, Working
<1> QED BY <1>1, <1>2, <1>3 DEF Compressing

LEMMA FinishStep == Compressing /\ Finish => Compressing'
<1> SUFFICES ASSUME Compressing, Finish PROVE Compressing'
  OBVIOUS
<1>0. /\ pc = "next_group" /\ pc' = "finished"
      /\ UNCHANGED <<outerVars, data, n, scanVars, rankVars, num_pages_needed,
                     base_buffer, streamVars>>
  BY DEF Finish
<1> USE DEF outerVars, scanVars, rankVars, streamVars
<1>1. DeltaTypeOK'
  BY <1>0 DEF Compressing, DeltaTypeOK, num_iters, Byte
<1>2. Grouped' /\ Chosen' /\ Streamed'
  BY <1>0 DEF Compressing, Grouped, Chosen, Streamed, Working
<1>3. Scanned'
  BY <1>0 DEF Compressing, Scanned, ScanFaithful, Seen, Working
<1> QED BY <1>1, <1>2, <1>3 DEF Compressing

LEMMA AddSlotsStep == Compressing /\ AddSlots => Compressing'
<1> SUFFICES ASSUME Compressing, AddSlots PROVE Compressing'
  OBVIOUS
<1>0. /\ pc = "returned" /\ pc' = "next_group"
      /\ iter' = iter + 1 /\ total_slots' = total_slots + num_pages_needed
      /\ UNCHANGED <<dataPages, data, n, scanVars, rankVars, num_pages_needed,
                     base_buffer, streamVars>>
  BY DEF AddSlots
<1> USE DEF scanVars, rankVars, streamVars
<1>1. iter' \in 0 .. num_iters' /\ total_slots' \in 0 .. iter' * InputPages
  <2>1. /\ iter \in Nat /\ iter < num_iters /\ num_iters \in Nat
        /\ total_slots \in 0 .. iter * InputPages /\ num_pages_needed \in 0 .. InputPages
    BY <1>0, SizeFacts, DivMod DEF Compressing, DeltaTypeOK, Grouped, Working, num_iters
  <2>2. num_iters' = num_iters /\ iter' \in 0 .. num_iters
    BY <1>0, <2>1 DEF num_iters
  <2>3. (iter + 1) * InputPages = iter * InputPages + InputPages
    BY <2>1, SizeFacts
  <2>4. iter * InputPages \in Nat
    BY <2>1, SizeFacts
  <2> QED BY <1>0, <2>1, <2>2, <2>3, <2>4, SizeFacts
<1>2. DeltaTypeOK'
  BY <1>0, <1>1 DEF Compressing, DeltaTypeOK, Byte
<1>3. Grouped' /\ Chosen' /\ Streamed'
  BY <1>0 DEF Compressing, Grouped, Chosen, Streamed, Working
<1>4. Scanned'
  BY <1>0 DEF Compressing, Scanned, ScanFaithful, Seen, Working
<1> QED BY <1>2, <1>3, <1>4 DEF Compressing

(* Every word of a group is in the trace. *)
LEMMA WordCopied ==
  ASSUME Grouped, iter \in Nat, iter < num_iters, NEW k \in 1 .. GroupWords
  PROVE  dataPages[(iter * InputPages) + ((k - 1) \div PageWords) + 1]
                  [((k - 1) % PageWords) + 1] \in Word
<1> USE SizeFacts
<1> DEFINE p == (k - 1) \div PageWords
           w == (k - 1) % PageWords
<1>1. /\ Len(dataPages) \in Nat
      /\ \A q \in 1 .. Len(dataPages) : dataPages[q] \in [1 .. PageWords -> Word]
  BY DEF Grouped
<1>2. k - 1 \in Nat /\ k - 1 < InputPages * PageWords
  BY DEF GroupWords
<1>3. p \in Nat /\ w \in 0 .. PageWords - 1 /\ k - 1 = (PageWords * p) + w
  BY <1>2, DivMod
<1> HIDE DEF p, w
<1>4. p < InputPages
  <2>1. ASSUME p >= InputPages PROVE FALSE
    <3>1. PageWords * InputPages <= PageWords * p
      BY <1>3, <2>1
    <3> QED BY <1>2, <1>3, <3>1
  <2> QED BY <1>3, <2>1
<1>5. /\ num_iters \in Nat /\ InputPages * num_iters <= Len(dataPages)
  <2>1. /\ num_iters \in Nat /\ Len(dataPages) % InputPages \in Nat
        /\ Len(dataPages) = (InputPages * num_iters) + (Len(dataPages) % InputPages)
    <3> DEFINE L == Len(dataPages)
    <3>1. L \in Nat
      BY <1>1
    <3> HIDE DEF L
    <3>2. L \div InputPages \in Nat /\ L % InputPages \in 0 .. InputPages - 1
          /\ L = (InputPages * (L \div InputPages)) + (L % InputPages)
      BY <3>1, DivMod
    <3> QED BY <3>2 DEF L, num_iters
  <2>2. InputPages * num_iters \in Nat
    BY <2>1
  <2> QED BY <1>1, <2>1, <2>2
<1>6. InputPages * (iter + 1) <= InputPages * num_iters
  <2>1. iter + 1 <= num_iters
    BY <1>5
  <2> QED BY <1>5, <2>1
<1>7. iter * InputPages \in Nat /\ InputPages * (iter + 1) = iter * InputPages + InputPages
  OBVIOUS
<1>8. (iter * InputPages) + p + 1 \in 1 .. Len(dataPages)
  <2>1. InputPages * (iter + 1) <= Len(dataPages)
    <3>1. InputPages * (iter + 1) \in Nat /\ InputPages * num_iters \in Nat
      BY <1>5
    <3>2. \A a, b, c \in Nat : a <= b /\ b <= c => a <= c
      OBVIOUS
    <3> HIDE SizeFacts
    <3> QED BY <1>1, <1>5, <1>6, <3>1, <3>2
  <2> DEFINE x == iter * InputPages
  <2>2. x \in Nat /\ x + InputPages <= Len(dataPages)
    BY <1>7, <2>1
  <2> HIDE DEF x
  <2>3. x + p + 1 \in 1 .. Len(dataPages)
    BY <1>1, <1>3, <1>4, <2>2
  <2> QED BY <2>3 DEF x
<1>9. w + 1 \in 1 .. PageWords
  BY <1>3
<1>10. dataPages[(iter * InputPages) + p + 1][w + 1] \in Word
  BY <1>1, <1>8, <1>9
<1> QED BY <1>10 DEF p, w

LEMMA CopyPagesStep == Compressing /\ CopyPages => Compressing'
<1> SUFFICES ASSUME Compressing, CopyPages PROVE Compressing'
  OBVIOUS
<1> USE EmptyFacts, SizeFacts
<1>0. /\ pc = "next_group" /\ iter < num_iters /\ pc' = "scan" /\ n' = 1
      /\ base_array' = <<>> /\ baseid_array' = <<>> /\ base_count' = <<>>
      /\ base_buffer' = <<>>
      /\ data_buffer' = <<>> /\ byte_count' = 0 /\ stream_val' = <<>> /\ written' = <<>>
      /\ UNCHANGED <<outerVars, rankVars, num_pages_needed>>
  BY DEF CopyPages
<1>1. data' \in Seq(Word) /\ Len(data') = GroupWords
  <2>1. GroupWords \in Nat
    BY DEF GroupWords
  <2>2. iter \in Nat
    BY DEF Compressing, DeltaTypeOK
  <2>3. \A k \in 1 .. GroupWords :
          dataPages[(iter * InputPages) + ((k - 1) \div PageWords) + 1]
                   [((k - 1) % PageWords) + 1] \in Word
    BY <1>0, <2>2, WordCopied DEF Compressing
  <2>4. data' = [k \in 1 .. GroupWords |->
                  dataPages[(iter * InputPages) + ((k - 1) \div PageWords) + 1]
                           [((k - 1) % PageWords) + 1]]
    BY DEF CopyPages, GroupWords
  <2>5. data' \in [1 .. GroupWords -> Word]
    BY <2>3, <2>4
  <2> QED BY <2>1, <2>5
<1> USE DEF outerVars, rankVars
<1>2. compressed_count' \in 0 .. Len(data')
  <2>1. compressed_count \in 0 .. Len(data) /\ Len(data) \in {0, GroupWords}
    BY DEF Compressing, DeltaTypeOK, Grouped
  <2>2. GroupWords \in Nat
    BY DEF GroupWords
  <2> QED BY <1>0, <1>1, <2>1, <2>2
<1>3. DeltaTypeOK'
  BY <1>0, <1>1, <1>2 DEF Compressing, DeltaTypeOK, num_iters
<1>4. Grouped'
  BY <1>0, <1>1 DEF Compressing, Grouped, num_iters
<1>5. Scanned'
  BY <1>0, <1>1 DEF Scanned, ScanFaithful, Working, GroupWords
<1>6. Chosen' /\ Streamed'
  BY <1>0 DEF Chosen, Streamed, Working
<1> QED BY <1>3, <1>4, <1>5, <1>6 DEF Compressing

-----------------------------------------------------------------------------
(* Counting bases *)

LEMMA SeenFinite ==
  ASSUME DeltaTypeOK, NEW b
  PROVE  IsFiniteSet(Seen(b)) /\ Cardinality(Seen(b)) \in Nat
<1>1. IsFiniteSet(1 .. Len(baseid_array))
  BY Lengths, FS_Interval
<1>2. Seen(b) \in SUBSET (1 .. Len(baseid_array))
  BY DEF Seen
<1> QED BY <1>1, <1>2, FS_Subset, FS_CardinalityType

(* One more word is scanned. *)
LEMMA SeenNext ==
  ASSUME DeltaTypeOK, n = Len(baseid_array) + 1, NEW b,
         UNCHANGED data, Len(baseid_array') = Len(baseid_array) + 1
  PROVE  /\ b = ThisBase => Seen(b)' = Seen(b) \cup {n}
         /\ b # ThisBase => Seen(b)' = Seen(b)
         /\ n \notin Seen(b)
         /\ Cardinality(Seen(b)') = Cardinality(Seen(b)) + (IF b = ThisBase THEN 1 ELSE 0)
<1>0. Len(baseid_array) \in Nat
  BY Lengths
<1>1. \A k \in 1 .. Len(baseid_array) + 1 : k \in 1 .. Len(baseid_array) \/ k = n
  BY <1>0
<1>2. Seen(b)' = {k \in 1 .. Len(baseid_array) + 1 : BaseOf(data[k]) = b}
  BY DEF Seen
<1>3. b = ThisBase => Seen(b)' = Seen(b) \cup {n}
  BY <1>0, <1>1, <1>2 DEF Seen, ThisBase
<1>4. b # ThisBase => Seen(b)' = Seen(b)
  BY <1>0, <1>1, <1>2 DEF Seen, ThisBase
<1>5. n \notin Seen(b)
  BY <1>0 DEF Seen
<1>6. CASE b = ThisBase
  BY <1>3, <1>5, <1>6, SeenFinite, FS_AddElement
<1>7. CASE b # ThisBase
  <2>1. Cardinality(Seen(b)') = Cardinality(Seen(b)) /\ Cardinality(Seen(b)) \in Nat
    BY <1>4, <1>7, SeenFinite
  <2> QED BY <1>4, <1>5, <1>7, <2>1
<1> QED BY <1>3, <1>4, <1>5, <1>6, <1>7

LEMMA AtWord ==
  ASSUME DeltaTypeOK, n <= Len(data)
  PROVE  n \in 1 .. Len(data) /\ data[n] \in Word /\ ThisBase \in Base
<1>1. n \in 1 .. Len(data)
  BY Lengths DEF DeltaTypeOK
<1> QED BY <1>1, Lengths DEF ThisBase

LEMMA ScanKnownStep == Compressing /\ ScanKnown => Compressing'
<1> SUFFICES ASSUME Compressing, ScanKnown PROVE Compressing'
  OBVIOUS
<1> DEFINE id == IdOf(ThisBase)
<1>0. /\ pc = "scan" /\ n <= Len(data) /\ ThisBase \in DOMAIN base_count
      /\ baseid_array' = Append(baseid_array, id)
      /\ base_count' = [base_count EXCEPT ![ThisBase] = @ + 1]
      /\ n' = n + 1
      /\ UNCHANGED <<pc, outerVars, data, base_array, rankVars, num_pages_needed,
                     base_buffer, streamVars>>
  BY DEF ScanKnown
<1>1. DeltaTypeOK /\ Grouped /\ Scanned /\ Chosen /\ Streamed /\ ScanFaithful
  BY DEF Compressing, Scanned
<1>2. ThisBase \in Range(base_array) /\ n = Len(baseid_array) + 1
  BY <1>0, <1>1 DEF Scanned, ScanFaithful
<1>3. id \in Nat /\ id + 1 \in DOMAIN base_array /\ base_array[id + 1] = ThisBase
  <2>1. \E k \in 1 .. Len(base_array) : base_array[k] = ThisBase
    BY <1>1, <1>2, Lengths DEF Range
  <2>2. PICK k \in 1 .. Len(base_array) : base_array[k] = ThisBase /\ id = k - 1
    BY <2>1 DEF IdOf
  <2> QED BY <1>1, <2>2, Lengths
<1> HIDE DEF id
<1>4. /\ baseid_array' \in Seq(Nat) /\ Len(baseid_array') = Len(baseid_array) + 1
      /\ \A k \in 1 .. Len(baseid_array) : baseid_array'[k] = baseid_array[k]
      /\ baseid_array'[n] = id
  <2>1. baseid_array \in Seq(Nat)
    BY <1>1 DEF DeltaTypeOK
  <2> QED BY <1>0, <1>2, <1>3, <2>1, AppendProperties
<1>5. n \in 1 .. Len(data) /\ data[n] \in Word /\ ThisBase \in Base
  BY <1>0, <1>1, AtWord
<1>6. /\ DOMAIN base_count' = DOMAIN base_count
      /\ \A b \in DOMAIN base_count :
           base_count'[b] = base_count[b] + (IF b = ThisBase THEN 1 ELSE 0)
  <2>1. \A b \in DOMAIN base_count : base_count[b] \in Nat
    BY <1>1 DEF DeltaTypeOK, Range
  <2> QED BY <1>0, <2>1
<1>7. DeltaTypeOK'
  <2>1. DOMAIN base_count' \subseteq Base
    BY <1>1, <1>6 DEF DeltaTypeOK
  <2>2. \A b \in DOMAIN base_count : base_count[b] \in Nat \ {0}
    BY <1>1 DEF DeltaTypeOK, Range
  <2>3. \A b \in DOMAIN base_count' : base_count'[b] \in Nat \ {0}
    BY <1>6, <2>2
  <2>4. Range(base_count') \subseteq Nat \ {0}
    BY <2>3 DEF Range
  <2>5. n' \in Nat \ {0}
    BY <1>0, <1>5
  <2> QED BY <1>0, <1>1, <1>4, <2>1, <2>4, <2>5
          DEF DeltaTypeOK, num_iters, outerVars, rankVars, streamVars
<1>8. Scanned'
  <2>1. ASSUME NEW k \in 1 .. Len(baseid_array')
        PROVE  /\ baseid_array'[k] + 1 \in DOMAIN base_array'
               /\ base_array'[baseid_array'[k] + 1] = BaseOf(data'[k])
    <3>1. k \in 1 .. Len(baseid_array) \/ k = n
      BY <1>1, <1>2, <1>4, Lengths
    <3>2. CASE k \in 1 .. Len(baseid_array)
      BY <1>0, <1>1, <1>4, <3>2 DEF ScanFaithful
    <3>3. CASE k = n
      BY <1>0, <1>3, <1>4, <3>3 DEF ThisBase
    <3> QED BY <3>1, <3>2, <3>3
  <2>2. ScanFaithful'
    BY <1>0, <1>1, <1>6, <2>1 DEF ScanFaithful
  <2>3. ASSUME NEW b \in DOMAIN base_count'
        PROVE  base_count'[b] = Cardinality(Seen(b)')
    <3>1. base_count[b] = Cardinality(Seen(b))
      BY <1>1, <1>6 DEF Scanned
    <3>2. Cardinality(Seen(b)') = Cardinality(Seen(b)) + (IF b = ThisBase THEN 1 ELSE 0)
      BY <1>0, <1>1, <1>2, <1>4, SeenNext
    <3> QED BY <1>6, <3>1, <3>2
  <2>4. Len(baseid_array') <= Len(data') /\ n' = Len(baseid_array') + 1 /\ pc' = "scan"
    BY <1>0, <1>2, <1>4, <1>5
  <2> QED BY <2>2, <2>3, <2>4 DEF Scanned
<1>9. Grouped' /\ Chosen' /\ Streamed'
  BY <1>0, <1>1
     DEF Grouped, Chosen, Streamed, Working, num_iters, outerVars, rankVars, streamVars
<1> QED BY <1>7, <1>8, <1>9 DEF Compressing

LEMMA ScanNewStep == Compressing /\ ScanNew => Compressing'
<1> SUFFICES ASSUME Compressing, ScanNew PROVE Compressing'
  OBVIOUS
<1>0. /\ pc = "scan" /\ n <= Len(data) /\ ThisBase \notin DOMAIN base_count
      /\ baseid_array' = Append(baseid_array, Len(base_array))
      /\ base_array' = Append(base_array, ThisBase)
      /\ base_count' = [b \in DOMAIN base_count \cup {ThisBase} |->
                          IF b = ThisBase THEN 1 ELSE base_count[b]]
      /\ n' = n + 1
      /\ UNCHANGED <<pc, outerVars, data, rankVars, num_pages_needed,
                     base_buffer, streamVars>>
  BY DEF ScanNew, NextId
<1>1. DeltaTypeOK /\ Grouped /\ Scanned /\ Chosen /\ Streamed /\ ScanFaithful
  BY DEF Compressing, Scanned
<1>2. ThisBase \notin Range(base_array) /\ n = Len(baseid_array) + 1
  BY <1>0, <1>1 DEF Scanned, ScanFaithful
<1>3. n \in 1 .. Len(data) /\ data[n] \in Word /\ ThisBase \in Base
  BY <1>0, <1>1, AtWord
<1>4. /\ baseid_array' \in Seq(Nat) /\ Len(baseid_array') = Len(baseid_array) + 1
      /\ \A k \in 1 .. Len(baseid_array) : baseid_array'[k] = baseid_array[k]
      /\ baseid_array'[n] = Len(base_array)
  <2>1. baseid_array \in Seq(Nat) /\ Len(base_array) \in Nat
    BY <1>1, Lengths DEF DeltaTypeOK
  <2> QED BY <1>0, <1>2, <2>1, AppendProperties
<1>5. /\ base_array' \in Seq(Base) /\ Len(base_array') = Len(base_array) + 1
      /\ \A k \in 1 .. Len(base_array) : base_array'[k] = base_array[k]
      /\ base_array'[Len(base_array) + 1] = ThisBase
  <2>1. base_array \in Seq(Base)
    BY <1>1 DEF DeltaTypeOK
  <2> QED BY <1>0, <1>3, <2>1, AppendProperties
<1>6. /\ DOMAIN base_array = 1 .. Len(base_array) /\ Len(base_array) \in Nat
      /\ DOMAIN base_array' = 1 .. Len(base_array) + 1
  BY <1>1, <1>5, Lengths
<1>7. /\ DOMAIN base_count' = DOMAIN base_count \cup {ThisBase}
      /\ base_count'[ThisBase] = 1
      /\ \A b \in DOMAIN base_count : base_count'[b] = base_count[b]
  BY <1>0
<1>8. DeltaTypeOK'
  <2>1. DOMAIN base_count' \subseteq Base
    BY <1>1, <1>3, <1>7 DEF DeltaTypeOK
  <2>2. \A b \in DOMAIN base_count : base_count[b] \in Nat \ {0}
    BY <1>1 DEF DeltaTypeOK, Range
  <2>3. \A b \in DOMAIN base_count' : base_count'[b] \in Nat \ {0}
    BY <1>7, <2>2
  <2>4. Range(base_count') \subseteq Nat \ {0}
    BY <2>3 DEF Range
  <2>5. n' \in Nat \ {0}
    BY <1>0, <1>3
  <2> QED BY <1>0, <1>1, <1>4, <1>5, <2>1, <2>4, <2>5
          DEF DeltaTypeOK, num_iters, outerVars, rankVars, streamVars
<1>9. Scanned'
  <2>1. ASSUME NEW k \in 1 .. Len(baseid_array')
        PROVE  /\ baseid_array'[k] + 1 \in DOMAIN base_array'
               /\ base_array'[baseid_array'[k] + 1] = BaseOf(data'[k])
    <3>1. k \in 1 .. Len(baseid_array) \/ k = n
      BY <1>1, <1>2, <1>4, Lengths
    <3>2. CASE k \in 1 .. Len(baseid_array)
      <4>1. /\ baseid_array[k] + 1 \in DOMAIN base_array
            /\ base_array[baseid_array[k] + 1] = BaseOf(data[k])
        BY <1>1, <3>2 DEF ScanFaithful
      <4> QED BY <1>0, <1>4, <1>5, <1>6, <3>2, <4>1
    <3>3. CASE k = n
      BY <1>0, <1>4, <1>5, <1>6, <3>3 DEF ThisBase
    <3> QED BY <3>1, <3>2, <3>3
  <2>2. IsInjective(base_array')
    <3>1. \A k \in 1 .. Len(base_array) : base_array[k] # ThisBase
      BY <1>2, <1>6 DEF Range
    <3>2. \A k \in 1 .. Len(base_array) + 1 :
            k \in 1 .. Len(base_array) \/ k = Len(base_array) + 1
      BY <1>6
    <3> QED BY <1>1, <1>5, <1>6, <3>1, <3>2 DEF ScanFaithful, IsInjective
  <2>3. DOMAIN base_count' = Range(base_array')
    <3>1. Range(base_array') = Range(base_array) \cup {ThisBase}
      BY <1>5, <1>6 DEF Range
    <3> QED BY <1>1, <1>7, <3>1 DEF ScanFaithful
  <2>4. ScanFaithful'
    BY <2>1, <2>2, <2>3 DEF ScanFaithful
  <2>5. Seen(ThisBase) = {}
    <3>1. ASSUME NEW k \in 1 .. Len(baseid_array), BaseOf(data[k]) = ThisBase PROVE FALSE
      <4>1. ThisBase \in Range(base_array)
        BY <1>1, <3>1 DEF ScanFaithful, Range
      <4> QED BY <1>2, <4>1
    <3> QED BY <3>1 DEF Seen
  <2>6. ASSUME NEW b \in DOMAIN base_count'
        PROVE  base_count'[b] = Cardinality(Seen(b)')
    <3>1. Cardinality(Seen(b)') = Cardinality(Seen(b)) + (IF b = ThisBase THEN 1 ELSE 0)
      BY <1>0, <1>1, <1>2, <1>4, SeenNext
    <3>2. CASE b = ThisBase
      BY <1>7, <2>5, <3>1, <3>2, FS_EmptySet
    <3>3. CASE b # ThisBase
      <4>1. b \in DOMAIN base_count
        BY <1>7, <3>3
      <4> QED BY <1>1, <1>7, <3>1, <3>3, <4>1, SeenFinite DEF Scanned
    <3> QED BY <3>2, <3>3
  <2>7. Len(baseid_array') <= Len(data') /\ n' = Len(baseid_array') + 1 /\ pc' = "scan"
    BY <1>0, <1>2, <1>3, <1>4
  <2> QED BY <2>4, <2>6, <2>7 DEF Scanned
<1>10. Grouped' /\ Chosen' /\ Streamed'
  BY <1>0, <1>1
     DEF Grouped, Chosen, Streamed, Working, num_iters, outerVars, rankVars, streamVars
<1> QED BY <1>8, <1>9, <1>10 DEF Compressing

-----------------------------------------------------------------------------
(* Choosing bases *)

LEMMA WordsFinite ==
  ASSUME DeltaTypeOK, NEW B
  PROVE  /\ IsFiniteSet(WordsOf(B)) /\ Cardinality(WordsOf(B)) \in Nat
         /\ Cardinality(WordsOf(B)) <= Len(data)
<1>1. IsFiniteSet(1 .. Len(data)) /\ Cardinality(1 .. Len(data)) = Len(data)
  <2>1. \A a, b \in Int : /\ IsFiniteSet(a .. b)
                         /\ Cardinality(a .. b) = IF a > b THEN 0 ELSE b - a + 1
    BY FS_Interval
  <2> DEFINE L == Len(data)
  <2>2. L \in Nat
    BY Lengths
  <2> HIDE DEF L
  <2>3. IsFiniteSet(1 .. L) /\ Cardinality(1 .. L) = IF 1 > L THEN 0 ELSE L - 1 + 1
    BY <2>1, <2>2
  <2>4. IsFiniteSet(1 .. L) /\ Cardinality(1 .. L) = L
    BY <2>2, <2>3
  <2> QED BY <2>4 DEF L
<1>2. WordsOf(B) \in SUBSET (1 .. Len(data))
  BY DEF WordsOf
<1> QED BY <1>1, <1>2, FS_Subset, FS_CardinalityType

(* When all words are scanned, base_count has the bases of all words, and  *)
(* how many words have each.                                               *)
LEMMA CountedAll ==
  ASSUME DeltaTypeOK, Scanned, Len(baseid_array) = Len(data)
  PROVE  /\ DOMAIN base_count = {BaseOf(data[k]) : k \in 1 .. Len(data)}
         /\ \A b \in DOMAIN base_count : base_count[b] = Cardinality(WordsOf({b}))
         /\ IsFiniteSet(DOMAIN base_count)
<1>1. \A b : Seen(b) = WordsOf({b})
  BY DEF Seen, WordsOf
<1>2. \A b \in DOMAIN base_count : base_count[b] = Cardinality(WordsOf({b}))
  BY <1>1 DEF Scanned
<1>3. DOMAIN base_count \subseteq {BaseOf(data[k]) : k \in 1 .. Len(data)}
  <2>1. ASSUME NEW b \in DOMAIN base_count
        PROVE  \E k \in 1 .. Len(data) : BaseOf(data[k]) = b
    <3>1. base_count[b] # 0
      BY DEF DeltaTypeOK, Range
    <3>2. Seen(b) # {}
      BY <3>1, FS_EmptySet DEF Scanned
    <3> QED BY <3>2 DEF Seen
  <2> QED BY <2>1
<1>4. ASSUME NEW k \in 1 .. Len(data) PROVE BaseOf(data[k]) \in DOMAIN base_count
  BY DEF Scanned, ScanFaithful, Range
<1>5. IsFiniteSet(DOMAIN base_count)
  <2>1. IsFiniteSet(1 .. Len(base_array))
    BY Lengths, FS_Interval
  <2>2. base_array \in Surjection(1 .. Len(base_array), Range(base_array))
    <3>1. base_array \in [1 .. Len(base_array) -> Range(base_array)]
      BY Lengths DEF Range, DeltaTypeOK
    <3>2. \A b \in Range(base_array) : \E k \in 1 .. Len(base_array) : base_array[k] = b
      BY Lengths DEF Range
    <3> QED BY <3>1, <3>2, Fun_IsSurj
  <2> QED BY <2>1, <2>2, FS_Surjection DEF Scanned, ScanFaithful
<1> QED BY <1>2, <1>3, <1>4, <1>5

LEMMA SortBasesStep == Compressing /\ SortBases => Compressing'
<1> SUFFICES ASSUME Compressing, SortBases PROVE Compressing'
  OBVIOUS
<1> USE EmptyFacts
<1>0. /\ pc = "scan" /\ n > Len(data) /\ pc' = "choose"
      /\ top_bases' = <<>> /\ compressed_count' = 0
      /\ UNCHANGED <<outerVars, data, n, scanVars, num_pages_needed, base_buffer, streamVars>>
  BY DEF SortBases
<1>1. DeltaTypeOK /\ Grouped /\ Scanned /\ Streamed
  BY DEF Compressing
<1> USE DEF outerVars, scanVars, streamVars
<1>2. DeltaTypeOK'
  BY SMTT(30), <1>0, <1>1, Lengths DEF DeltaTypeOK, num_iters
<1>3. Grouped' /\ Streamed'
  BY <1>0, <1>1 DEF Grouped, Streamed, Working, num_iters
<1>4. Scanned'
  <2>1. Len(baseid_array) = Len(data)
    <3>1. n = Len(baseid_array) + 1 /\ Len(baseid_array) <= Len(data)
      BY <1>0, <1>1 DEF Scanned
    <3> QED BY <1>0, <1>1, <3>1, Lengths
  <2> QED BY <1>0, <1>1, <2>1 DEF Scanned, ScanFaithful, Seen, Working
<1>5. Chosen'
  <2>1. 0 <= NumBases
    BY SizeFacts
  <2>2. WordsOf({}) = {} /\ WordsOf({})' = {}
    BY DEF WordsOf
  <2> QED BY <1>0, <2>1, <2>2, FS_EmptySet DEF Chosen, WordsOf
<1> QED BY <1>2, <1>3, <1>4, <1>5 DEF Compressing

LEMMA ChooseBaseStep == Compressing /\ ChooseBase => Compressing'
<1> SUFFICES ASSUME Compressing, ChooseBase PROVE Compressing'
  OBVIOUS
<1>1. DeltaTypeOK /\ Grouped /\ Scanned /\ Chosen /\ Streamed /\ pc = "choose"
  BY DEF Compressing, ChooseBase
<1>2. PICK b \in CommonestUntaken :
        /\ top_bases' = Append(top_bases, b)
        /\ compressed_count' = compressed_count + base_count[b]
  BY DEF ChooseBase
<1>0. /\ Len(top_bases) < effective_num_bases
      /\ UNCHANGED <<pc, outerVars, data, n, scanVars, num_pages_needed, base_buffer,
                     streamVars>>
  BY DEF ChooseBase
<1>3. /\ b \in DOMAIN base_count /\ b \notin Range(top_bases)
      /\ \A c \in Untaken : base_count[c] <= base_count[b]
  BY DEF CommonestUntaken, Untaken
<1>4. b \in Base
  BY <1>1, <1>3 DEF DeltaTypeOK
<1>5. /\ top_bases' \in Seq(Base) /\ Len(top_bases') = Len(top_bases) + 1
      /\ \A k \in 1 .. Len(top_bases) : top_bases'[k] = top_bases[k]
      /\ top_bases'[Len(top_bases) + 1] = b
  <2>1. top_bases \in Seq(Base)
    BY <1>1 DEF DeltaTypeOK
  <2> QED BY <1>2, <1>4, <2>1, AppendProperties
<1>6. /\ DOMAIN top_bases = 1 .. Len(top_bases) /\ Len(top_bases) \in Nat
      /\ DOMAIN top_bases' = 1 .. Len(top_bases) + 1
  BY <1>1, <1>5, Lengths
<1>7. Range(top_bases') = Range(top_bases) \cup {b}
  BY <1>5, <1>6 DEF Range
<1>8. Len(baseid_array) = Len(data)
  BY <1>1 DEF Scanned, Working
<1>9. compressed_count' = Cardinality(WordsOf(Range(top_bases'))) /\ compressed_count' <= Len(data)
  <2>1. WordsOf(Range(top_bases')) = WordsOf(Range(top_bases)) \cup WordsOf({b})
    BY <1>7 DEF WordsOf
  <2>2. WordsOf(Range(top_bases)) \cap WordsOf({b}) = {}
    BY <1>3 DEF WordsOf
  <2>3. /\ compressed_count = Cardinality(WordsOf(Range(top_bases)))
        /\ base_count[b] = Cardinality(WordsOf({b}))
    BY <1>1, <1>3, <1>8, CountedAll DEF Chosen, Working
  <2> DEFINE S == WordsOf(Range(top_bases))
             T == WordsOf({b})
  <2>4. IsFiniteSet(S) /\ IsFiniteSet(T) /\ S \cap T = {}
    BY <1>1, <2>2, WordsFinite
  <2> HIDE DEF S, T
  <2>5. Cardinality(S \cup T) = Cardinality(S) + Cardinality(T)
    <3>1. Cardinality(S \cup T) = Cardinality(S) + Cardinality(T) - Cardinality(S \cap T)
      BY <2>4, FS_Union
    <3>2. Cardinality(S \cap T) = 0
      BY <2>4, FS_EmptySet
    <3>3. Cardinality(S) \in Nat /\ Cardinality(T) \in Nat
      BY <2>4, FS_CardinalityType
    <3> QED BY <3>1, <3>2, <3>3
  <2>6. Cardinality(WordsOf(Range(top_bases'))) <= Len(data)
    BY <1>1, WordsFinite
  <2> QED BY <1>2, <2>1, <2>3, <2>5, <2>6 DEF S, T
<1> USE DEF outerVars, scanVars, streamVars
<1>10. DeltaTypeOK'
  <2>1. compressed_count' \in 0 .. Len(data')
    <3>1. compressed_count' \in Nat
      BY <1>1, <1>9, WordsFinite
    <3> QED BY <1>0, <1>1, <1>9, <3>1, Lengths
  <2> QED BY <1>0, <1>1, <1>5, <2>1 DEF DeltaTypeOK, num_iters
<1>11. Grouped' /\ Streamed'
  BY <1>0, <1>1 DEF Grouped, Streamed, Working, num_iters
<1>12. Scanned'
  BY <1>0, <1>1 DEF Scanned, ScanFaithful, Seen, Working
<1>13. Chosen'
  <2>1. IsInjective(top_bases')
    <3>1. IsInjective(top_bases)
      BY <1>1 DEF Chosen, Working
    <3>2. \A k \in 1 .. Len(top_bases) : top_bases[k] # b
      BY <1>3, <1>6 DEF Range
    <3>3. \A k \in 1 .. Len(top_bases) + 1 :
            k \in 1 .. Len(top_bases) \/ k = Len(top_bases) + 1
      BY <1>6
    <3> QED BY <1>5, <1>6, <3>1, <3>2, <3>3 DEF IsInjective
  <2>2. Range(top_bases') \subseteq DOMAIN base_count'
    BY <1>0, <1>1, <1>3, <1>7 DEF Chosen, Working
  <2>3. Len(top_bases') <= NumBases
    <3>1. Cardinality(DOMAIN base_count) \in Nat
      BY <1>1, <1>8, CountedAll, FS_CardinalityType
    <3>2. effective_num_bases \in Nat /\ effective_num_bases <= NumBases
      BY <3>1, SizeFacts DEF effective_num_bases
    <3> QED BY <1>0, <1>5, <1>6, <3>2, SizeFacts
  <2>4. ASSUME NEW a \in Range(top_bases'), NEW c \in Untaken'
        PROVE  base_count'[c] <= base_count'[a]
    <3>1. c \in Untaken
      BY <1>0, <1>7, <2>4 DEF Untaken
    <3>2. CASE a = b
      BY <1>0, <1>3, <3>1, <3>2
    <3>3. CASE a \in Range(top_bases)
      BY <1>0, <1>1, <3>1, <3>3 DEF Chosen, Working
    <3> QED BY <1>7, <3>2, <3>3
  <2>5. compressed_count' = Cardinality(WordsOf(Range(top_bases))')
    <3>1. WordsOf(Range(top_bases))' = WordsOf(Range(top_bases'))
      BY <1>0 DEF WordsOf, Range
    <3> QED BY <1>9, <3>1
  <2>6. pc' = "choose"
    BY <1>0, <1>1
  <2> QED BY <2>1, <2>2, <2>3, <2>4, <2>5, <2>6 DEF Chosen
<1> QED BY <1>10, <1>11, <1>12, <1>13 DEF Compressing

-----------------------------------------------------------------------------
(* Sizes and codes *)

LEMMA BitsFacts ==
  ASSUME NEW v \in Nat, NEW w \in Nat
  PROVE  Bits(v, w) \in [1 .. w -> Bit] /\ Bits(v, w) \in Seq(Bit) /\ Len(Bits(v, w)) = w
<1>1. ASSUME NEW k \in 1 .. w PROVE (v \div 2 ^ (w - k)) % 2 \in Bit
  <2> DEFINE p == 2 ^ (w - k)
             q == v \div p
  <2>1. w - k \in Nat
    OBVIOUS
  <2>2. p \in Nat \ {0}
    BY <2>1, PowerNat
  <2> HIDE DEF p
  <2>3. q \in Nat
    BY <2>2, DivMod
  <2> HIDE DEF q
  <2>4. q % 2 \in 0 .. 1
    BY <2>3
  <2> QED BY <2>4 DEF p, q, Bit
<1>2. Bits(v, w) \in [1 .. w -> Bit]
  BY <1>1 DEF Bits
<1> QED BY <1>2

LEMMA SizesNat ==
  ASSUME DeltaTypeOK
  PROVE  /\ CodeBits \in Nat /\ data_bits \in Nat /\ total_bits \in Nat
         /\ data_bits = BitsOf(Len(data), compressed_count)
         /\ PagesNeeded \in 0 .. InputPages
         /\ CeilDiv(data_bits, ByteBits) \in Nat
<1> USE SizeFacts
<1>1. /\ Len(data) \in Nat /\ compressed_count \in Nat /\ Len(data) - compressed_count \in Nat
  BY Lengths DEF DeltaTypeOK
<1>2. CodeBits \in Nat
  <2>1. (LowBits + LogBases) * compressed_count \in Nat
    BY <1>1
  <2>2. (Len(data) - compressed_count) * WordBits \in Nat
    BY <1>1
  <2> QED BY <2>1, <2>2 DEF CodeBits
<1>3. data_bits \in Nat
  BY <1>1, <1>2 DEF data_bits
<1>4. total_bits \in Nat
  <2>1. BaseBits * NumBases \in Nat
    OBVIOUS
  <2> QED BY <1>3, <2>1 DEF total_bits
<1>5. data_bits = BitsOf(Len(data), compressed_count)
  <2>1. (LowBits + LogBases) * compressed_count \in Nat
    BY <1>1
  <2>2. (Len(data) - compressed_count) * WordBits \in Nat
    BY <1>1
  <2> QED BY <1>1, <2>1, <2>2 DEF data_bits, CodeBits, BitsOf
<1>6. compressed_buffer_size \in Nat
  BY <1>4, CeilDivBounds DEF compressed_buffer_size
<1>7. CeilDiv(compressed_buffer_size, PageBytes) \in Nat
  BY <1>6, CeilDivBounds
<1>8. PagesNeeded \in 0 .. InputPages
  BY <1>7 DEF PagesNeeded
<1>9. CeilDiv(data_bits, ByteBits) \in Nat
  BY <1>3, CeilDivBounds
<1> QED BY <1>2, <1>3, <1>4, <1>5, <1>8, <1>9

(* What a word is written as, and in how many bits. *)
LEMMA CodeFacts ==
  ASSUME DeltaTypeOK, NEW w \in Word
  PROVE  /\ Code(w) \in Seq(Bit)
         /\ BaseOf(w) \in Range(top_bases) => Len(Code(w)) = 1 + LogBases + LowBits
         /\ BaseOf(w) \notin Range(top_bases) => Len(Code(w)) = 1 + WordBits
<1> USE SizeFacts
<1>1. w \in Nat
  BY PowerNat DEF Word
<1>2. CASE BaseOf(w) \in Range(top_bases)
  <2> DEFINE i == BaseIndex(BaseOf(w))
             a == Bits(i, LogBases)
             b == Bits(LowOf(w), LowBits)
  <2>1. \E k \in DOMAIN top_bases : top_bases[k] = BaseOf(w)
    BY <1>2 DEF Range
  <2>2. i \in Nat
    <3>1. PICK k \in DOMAIN top_bases : i = k - 1
      BY <2>1 DEF BaseIndex
    <3> QED BY <3>1, Lengths
  <2> HIDE DEF i
  <2>3. LowOf(w) \in Nat
    BY <1>1, DivMod DEF LowOf
  <2>4. a \in Seq(Bit) /\ Len(a) = LogBases /\ b \in Seq(Bit) /\ Len(b) = LowBits
    BY <2>2, <2>3, BitsFacts
  <2> HIDE DEF a, b
  <2>5. <<1>> \in Seq(Bit) /\ Len(<<1>>) = 1
    BY DEF Bit
  <2>6. (<<1>> \o a) \o b \in Seq(Bit) /\ Len((<<1>> \o a) \o b) = 1 + LogBases + LowBits
    <3>1. <<1>> \o a \in Seq(Bit) /\ Len(<<1>> \o a) = 1 + LogBases
      BY <2>4, <2>5, ConcatProperties
    <3> QED BY <2>4, <3>1, ConcatProperties
  <2> QED BY <1>2, <2>6 DEF Code, a, b, i
<1>3. CASE BaseOf(w) \notin Range(top_bases)
  <2> DEFINE b == Bits(w, WordBits)
  <2>1. b \in Seq(Bit) /\ Len(b) = WordBits
    BY <1>1, BitsFacts
  <2> HIDE DEF b
  <2>2. <<0>> \in Seq(Bit) /\ Len(<<0>>) = 1
    BY DEF Bit
  <2>3. <<0>> \o b \in Seq(Bit) /\ Len(<<0>> \o b) = 1 + WordBits
    BY <2>1, <2>2, ConcatProperties
  <2> QED BY <1>3, <2>3 DEF Code, b
<1> QED BY <1>2, <1>3

LEMMA SizeUpStep == Compressing /\ SizeUp => Compressing'
<1> SUFFICES ASSUME Compressing, SizeUp PROVE Compressing'
  OBVIOUS
<1> DEFINE buf == [k \in 1 .. CeilDiv(data_bits, ByteBits) |-> Bits(0, ByteBits)]
<1>0. /\ pc = "choose" /\ Len(top_bases) >= effective_num_bases
      /\ num_pages_needed' = PagesNeeded
      /\ \/ /\ PagesNeeded = InputPages /\ pc' = "returned" /\ n' = n
            /\ data_buffer' = data_buffer
         \/ /\ PagesNeeded # InputPages /\ pc' = "bases" /\ n' = 1 /\ data_buffer' = buf
      /\ UNCHANGED <<outerVars, data, scanVars, rankVars, base_buffer, byte_count,
                     stream_val, written>>
  BY DEF SizeUp
<1>1. DeltaTypeOK /\ Grouped /\ Scanned /\ Chosen /\ Streamed
  BY DEF Compressing
<1>2. PagesNeeded \in 0 .. InputPages /\ CeilDiv(data_bits, ByteBits) \in Nat
  BY <1>1, SizesNat
<1>3. byte_count = 0 /\ stream_val = <<>> /\ written = <<>>
  BY <1>0, <1>1 DEF Streamed
<1>4. buf \in Seq(Byte) /\ Len(buf) = CeilDiv(data_bits, ByteBits)
  <2>1. Bits(0, ByteBits) \in Byte
    BY SizeFacts, BitsFacts DEF Byte
  <2> QED BY <1>2, <2>1
<1> HIDE DEF buf
<1> USE DEF outerVars, scanVars, rankVars
<1>5. DeltaTypeOK'
  <2>1. data_buffer' \in Seq(Byte) /\ n' \in Nat \ {0}
    BY SMTT(30), <1>0, <1>1, <1>4 DEF DeltaTypeOK
  <2>2. byte_count' \in 0 .. Len(data_buffer')
    BY <1>0, <1>3, <2>1
  <2>3. pc' \in {"returned", "bases"}
    BY <1>0
  <2> QED BY <1>0, <1>1, <1>2, <2>1, <2>2, <2>3 DEF DeltaTypeOK, num_iters
<1>6. Grouped'
  BY <1>0, <1>1 DEF Grouped, Working, num_iters
<1>7. Scanned'
  BY <1>0, <1>1 DEF Scanned, ScanFaithful, Seen, Working
<1>8. Chosen'
  BY <1>0, <1>1 DEF Chosen, Working, WordsOf, Untaken, effective_num_bases
<1>9. Streamed'
  <2>1. /\ PagesNeeded' = PagesNeeded
        /\ CeilDiv(data_bits, ByteBits)' = CeilDiv(data_bits, ByteBits)
    BY <1>0 DEF PagesNeeded, compressed_buffer_size, total_bits, data_bits, CodeBits
  <2>2. CASE pc' = "returned"
    BY <2>2 DEF Streamed
  <2>3. CASE pc' = "bases"
    <3>1. num_pages_needed' < InputPages /\ n' = 1 /\ data_buffer' = buf
      BY <1>0, <1>2, <2>3, SizeFacts
    <3>2. n' <= NumBases
      BY <3>1, SizeFacts
    <3> QED BY <1>0, <1>3, <1>4, <2>1, <2>3, <3>1, <3>2 DEF Streamed
  <2> QED BY <1>0, <2>2, <2>3
<1> QED BY <1>5, <1>6, <1>7, <1>8, <1>9 DEF Compressing

LEMMA CopyBaseStep == Compressing /\ CopyBase => Compressing'
<1> SUFFICES ASSUME Compressing, CopyBase PROVE Compressing'
  OBVIOUS
<1> DEFINE e == IF n <= Len(top_bases) THEN top_bases[n] ELSE Garbage
<1>0. /\ pc = "bases" /\ base_buffer' = Append(base_buffer, e)
      /\ \/ n < NumBases /\ n' = n + 1 /\ pc' = "bases"
         \/ n' = 1 /\ pc' = "encode"
      /\ UNCHANGED <<outerVars, data, scanVars, rankVars, num_pages_needed, streamVars>>
  BY DEF CopyBase
<1>1. DeltaTypeOK /\ Grouped /\ Scanned /\ Chosen /\ Streamed
  BY DEF Compressing
<1>2. base_buffer' \in Seq(Base \cup {Garbage})
  <2>1. e \in Base \cup {Garbage}
    <3>1. CASE n <= Len(top_bases)
      <4>1. n \in 1 .. Len(top_bases) /\ top_bases \in Seq(Base)
        BY <1>1, <3>1, Lengths DEF DeltaTypeOK
      <4> QED BY <3>1, <4>1
    <3>2. CASE ~ (n <= Len(top_bases))
      BY <3>2
    <3> QED BY <3>1, <3>2
  <2> HIDE DEF e
  <2> QED BY <1>0, <1>1, <2>1 DEF DeltaTypeOK
<1> HIDE DEF e
<1>3. n' \in Nat \ {0} /\ pc' \in {"bases", "encode"}
  BY SMTT(30), <1>0, <1>1 DEF DeltaTypeOK
<1> USE DEF outerVars, scanVars, rankVars, streamVars
<1>4. DeltaTypeOK'
  BY <1>0, <1>1, <1>2, <1>3 DEF DeltaTypeOK, num_iters
<1>5. Grouped'
  BY <1>0, <1>1 DEF Grouped, Working, num_iters
<1>6. Scanned'
  BY <1>0, <1>1 DEF Scanned, ScanFaithful, Seen, Working
<1>7. Chosen'
  BY <1>0, <1>1 DEF Chosen, Working, WordsOf, Untaken, effective_num_bases
<1>8. Streamed'
  <2>1. /\ PagesNeeded' = PagesNeeded
        /\ CeilDiv(data_bits, ByteBits)' = CeilDiv(data_bits, ByteBits)
    BY <1>0 DEF PagesNeeded, compressed_buffer_size, total_bits, data_bits, CodeBits
  <2>2. byte_count = 0 /\ stream_val = <<>> /\ written = <<>>
    BY <1>0, <1>1 DEF Streamed
  <2>3. /\ num_pages_needed' = PagesNeeded' /\ num_pages_needed' < InputPages
        /\ Len(data_buffer') = CeilDiv(data_bits, ByteBits)'
    BY <1>0, <1>1, <2>1 DEF Streamed
  <2>4. CASE pc' = "bases"
    <3>1. n' <= NumBases
      BY <1>0, <1>1, <2>4, SizeFacts DEF DeltaTypeOK
    <3> QED BY <1>0, <2>2, <2>3, <2>4, <3>1 DEF Streamed
  <2>5. CASE pc' = "encode"
    <3>1. n' = 1
      BY <1>0, <2>5
    <3>2. Packed'
      BY <1>0, <2>2, EmptyFacts, SizeFacts DEF Packed
    <3>3. Coded' = {}
      BY <3>1 DEF Coded
    <3>4. BitsOf(1 - 1, 0) = 0
      BY SizeFacts DEF BitsOf
    <3>5. Len(written') = BitsOf(n' - 1, Cardinality(Coded'))
      BY <1>0, <2>2, <3>1, <3>3, <3>4, FS_EmptySet, EmptyFacts
    <3>6. n' <= Len(data') + 1
      BY <1>0, <1>1, <3>1, Lengths
    <3> QED BY <2>3, <2>5, <3>2, <3>5, <3>6 DEF Streamed
  <2> QED BY <1>3, <2>4, <2>5
<1> QED BY <1>4, <1>5, <1>6, <1>7, <1>8 DEF Compressing

-----------------------------------------------------------------------------
(* Writing words *)

LEMMA ConcatParts ==
  ASSUME NEW S, NEW a \in Seq(S), NEW b \in Seq(S)
  PROVE  /\ Len(a) \in Nat /\ Len(b) \in Nat
         /\ a \o b \in Seq(S) /\ Len(a \o b) = Len(a) + Len(b)
         /\ \A k \in 1 .. Len(a) : (a \o b)[k] = a[k]
         /\ \A k \in 1 .. Len(b) : (a \o b)[Len(a) + k] = b[k]
  OBVIOUS

(* len elements after the first m of a sequence. *)
LEMMA PartOf ==
  ASSUME NEW S, NEW s \in Seq(S), NEW m \in Nat, NEW len \in Nat, m + len <= Len(s)
  PROVE  /\ SubSeq(s, m + 1, m + len) \in Seq(S)
         /\ Len(SubSeq(s, m + 1, m + len)) = len
         /\ \A j \in 1 .. len : SubSeq(s, m + 1, m + len)[j] = s[m + j]
<1> DEFINE u == SubSeq(s, m + 1, m + len)
<1>1. \A i \in m + 1 .. m + len : s[i] \in S
  BY ElementOfSeq
<1>2. m + 1 \in Int /\ m + len \in Int
  OBVIOUS
<1>3. /\ u \in Seq(S)
      /\ Len(u) = IF m + 1 <= m + len THEN (m + len) - (m + 1) + 1 ELSE 0
      /\ \A i \in 1 .. (m + len) - (m + 1) + 1 : u[i] = s[(m + 1) + i - 1]
  BY <1>1, <1>2, SubSeqProperties
<1> HIDE DEF u
<1>4. Len(u) = len
  BY <1>3
<1>5. \A j \in 1 .. len : u[j] = s[m + j]
  <2>1. (m + len) - (m + 1) + 1 = len /\ \A j \in 1 .. len : (m + 1) + j - 1 = m + j
    OBVIOUS
  <2> QED BY <1>3, <2>1
<1> QED BY <1>3, <1>4, <1>5 DEF u

(* Emit keeps every bit in its place, as long as the bits have room.       *)
LEMMA EmitPacks ==
  ASSUME DeltaTypeOK, Packed, NEW bits \in Seq(Bit), Emit(bits),
         Len(written) + Len(bits) <= Len(data_buffer) * ByteBits
  PROVE  /\ data_buffer' \in Seq(Byte) /\ Len(data_buffer') = Len(data_buffer)
         /\ byte_count' \in 0 .. Len(data_buffer')
         /\ stream_val' \in Seq(Bit) /\ Len(stream_val') < ByteBits
         /\ written' \in Seq(Bit) /\ Len(written') = Len(written) + Len(bits)
         /\ Packed'
<1> USE SizeFacts
<1> DEFINE stream == stream_val \o bits
           L == Len(stream)
           t == L \div ByteBits
           r == L % ByteBits
           at(k) == byte_count * ByteBits + k
<1>0. /\ data_buffer' = [k \in DOMAIN data_buffer |->
                          IF k \in byte_count + 1 .. byte_count + t
                            THEN ByteOf(stream, k - byte_count - 1)
                            ELSE data_buffer[k]]
      /\ byte_count' = byte_count + t
      /\ stream_val' = SubSeq(stream, t * ByteBits + 1, L)
      /\ written' = written \o bits
  BY DEF Emit, Rest
<1>1. /\ Len(data_buffer) \in Nat /\ DOMAIN data_buffer = 1 .. Len(data_buffer)
      /\ Len(written) \in Nat /\ Len(stream_val) \in Nat /\ byte_count \in Nat
      /\ data_buffer \in Seq(Byte) /\ written \in Seq(Bit) /\ stream_val \in Seq(Bit)
  BY Lengths DEF DeltaTypeOK
<1>2. /\ Len(bits) \in Nat
      /\ stream \in Seq(Bit) /\ L = Len(stream_val) + Len(bits) /\ L \in Nat
      /\ \A k \in 1 .. Len(stream_val) : stream[k] = stream_val[k]
      /\ \A k \in 1 .. Len(bits) : stream[Len(stream_val) + k] = bits[k]
  <2>1. /\ Len(bits) \in Nat
        /\ stream \in Seq(Bit) /\ L = Len(stream_val) + Len(bits)
        /\ \A k \in 1 .. Len(stream_val) : stream[k] = stream_val[k]
        /\ \A k \in 1 .. Len(bits) : stream[Len(stream_val) + k] = bits[k]
    BY <1>1, ConcatParts
  <2> QED BY <1>1, <2>1
<1>3. /\ written' \in Seq(Bit) /\ Len(written') = Len(written) + Len(bits)
      /\ \A k \in 1 .. Len(written) : written'[k] = written[k]
      /\ \A k \in 1 .. Len(bits) : written'[Len(written) + k] = bits[k]
  BY <1>0, <1>1, ConcatParts
<1>4. t \in Nat /\ r \in 0 .. ByteBits - 1 /\ L = (ByteBits * t) + r
  BY <1>2, DivMod
<1> HIDE DEF stream, L, t, r
<1> DEFINE B == byte_count * ByteBits
           T == ByteBits * t
<1>5. /\ B \in Nat /\ T \in Nat /\ T = t * ByteBits
      /\ Len(written) = B + Len(stream_val) /\ Len(written') = B + T + r
      /\ (byte_count + t) * ByteBits = B + T
  <2>1. B \in Nat /\ T \in Nat /\ T = t * ByteBits /\ (byte_count + t) * ByteBits = B + T
    BY <1>1, <1>4
  <2>2. Len(written) = B + Len(stream_val)
    BY DEF Packed
  <2> HIDE DEF B
  <2>4. Len(written') = B + T + r
    <3>1. L = T + r
      BY <1>4
    <3>2. /\ L = Len(stream_val) + Len(bits) /\ Len(written') = Len(written) + Len(bits)
          /\ Len(stream_val) \in Nat /\ Len(bits) \in Nat
      BY <1>1, <1>2, <1>3
    <3> HIDE SizeFacts DEF T
    <3> QED BY SMTT(30), <1>4, <2>1, <2>2, <3>1, <3>2
  <2> QED BY <2>1, <2>2, <2>4
(* Where the stream lies in all that is written. *)
<1>6. ASSUME NEW k \in 1 .. L PROVE written'[at(k)] = stream[k]
  <2>1. at(k) = B + k
    OBVIOUS
  <2> HIDE DEF B, at
  <2>2. CASE k <= Len(stream_val)
    <3>1. k \in 1 .. Len(stream_val) /\ B + k \in 1 .. Len(written)
      BY <1>1, <1>2, <1>5, <2>2
    <3>2. written[B + k] = stream_val[k]
      BY <3>1 DEF Packed, B
    <3> QED BY <1>2, <1>3, <2>1, <3>1, <3>2
  <2>3. CASE k > Len(stream_val)
    <3>1. PICK i \in 1 .. Len(bits) : k = Len(stream_val) + i
      <4>1. k - Len(stream_val) \in 1 .. Len(bits) /\ k = Len(stream_val) + (k - Len(stream_val))
        BY <1>1, <1>2, <2>3
      <4> QED BY <4>1
    <3>2. Len(written) + i = B + k
      BY <1>1, <1>2, <1>5, <3>1
    <3> QED BY <1>2, <1>3, <2>1, <3>1, <3>2
  <2> QED BY <1>1, <1>2, <2>2, <2>3
<1>7. Len(data_buffer') = Len(data_buffer) /\ byte_count' \in 0 .. Len(data_buffer')
  <2>1. Len(data_buffer') = Len(data_buffer)
    BY <1>0, <1>1
  <2>2. ASSUME byte_count + t > Len(data_buffer) PROVE FALSE
    <3>1. (Len(data_buffer) + 1) * ByteBits <= (byte_count + t) * ByteBits
      <4> DEFINE x == Len(data_buffer) + 1
                 y == byte_count + t
      <4>1. x \in Nat /\ y \in Nat /\ x <= y
        BY <1>1, <1>4, <2>2
      <4> HIDE DEF x, y
      <4>2. x * ByteBits <= y * ByteBits
        BY <4>1
      <4> QED BY <4>2 DEF x, y
    <3>2. (Len(data_buffer) + 1) * ByteBits = Len(data_buffer) * ByteBits + ByteBits
      BY <1>1
    <3>3. Len(data_buffer) * ByteBits \in Nat /\ B + T + r <= Len(data_buffer) * ByteBits
      BY <1>1, <1>3, <1>5
    <3> DEFINE D == Len(data_buffer) * ByteBits
    <3> HIDE DEF D, B, T
    <3>4. D + ByteBits <= B + T
      BY <1>5, <3>1, <3>2 DEF D
    <3>5. D \in Nat /\ B + T + r <= D
      BY <3>3 DEF D
    <3> QED BY <1>4, <1>5, <3>4, <3>5
  <2> QED BY <1>0, <1>1, <1>4, <2>1, <2>2
(* The bytes that are filled. *)
<1>8. ASSUME NEW b \in byte_count + 1 .. byte_count + t
      PROVE  LET k == b - byte_count - 1
             IN  /\ k \in 0 .. t - 1
                 /\ k * ByteBits \in Nat /\ (k + 1) * ByteBits = k * ByteBits + ByteBits
                 /\ k * ByteBits + ByteBits <= T
                 /\ data_buffer'[b] \in Byte
                 /\ \A j \in 1 .. ByteBits : data_buffer'[b][j] = stream[k * ByteBits + j]
  <2> DEFINE k == b - byte_count - 1
             K == k * ByteBits
  <2>1. k \in 0 .. t - 1
    BY <1>1, <1>4
  <2> HIDE DEF k
  <2>2. K \in Nat /\ (k + 1) * ByteBits = K + ByteBits
    BY <1>4, <2>1
  <2>3. K + ByteBits <= T
    <3>1. k + 1 <= t /\ k + 1 \in Nat
      BY <1>4, <2>1
    <3>2. ByteBits * (k + 1) <= ByteBits * t
      BY <1>4, <3>1
    <3>3. ByteBits * (k + 1) = (k + 1) * ByteBits
      BY <3>1
    <3> QED BY <2>2, <3>2, <3>3
  <2> HIDE DEF K, T
  <2>4. K + ByteBits <= L
    BY <1>2, <1>4, <1>5, <2>2, <2>3 DEF T
  <2>5. /\ SubSeq(stream, K + 1, K + ByteBits) \in Seq(Bit)
        /\ Len(SubSeq(stream, K + 1, K + ByteBits)) = ByteBits
        /\ \A j \in 1 .. ByteBits : SubSeq(stream, K + 1, K + ByteBits)[j] = stream[K + j]
    <3>1. /\ K \in Nat /\ ByteBits \in Nat /\ stream \in Seq(Bit)
          /\ K + ByteBits <= Len(stream)
      BY <1>2, <2>2, <2>4 DEF L
    <3> HIDE SizeFacts
    <3> QED BY <3>1, PartOf
  <2>6. ByteOf(stream, k) = SubSeq(stream, K + 1, K + ByteBits)
    BY <2>2 DEF ByteOf, K
  <2>7. data_buffer'[b] = ByteOf(stream, k)
    <3>1. b \in DOMAIN data_buffer
      BY <1>0, <1>1, <1>4, <1>7
    <3> QED BY <1>0, <3>1 DEF k
  <2>8. data_buffer'[b] \in Byte
    <3> DEFINE u == SubSeq(stream, K + 1, K + ByteBits)
    <3>1. u \in Seq(Bit) /\ Len(u) = ByteBits /\ data_buffer'[b] = u
      BY <2>5, <2>6, <2>7
    <3> HIDE DEF u
    <3>2. u \in [1 .. Len(u) -> Bit]
      BY <3>1
    <3> QED BY <3>1, <3>2 DEF Byte
  <2> QED BY <2>1, <2>2, <2>3, <2>5, <2>6, <2>7, <2>8 DEF k, K
<1>9. data_buffer' \in Seq(Byte)
  <2>1. ASSUME NEW b \in DOMAIN data_buffer PROVE data_buffer'[b] \in Byte
    <3>1. CASE b \in byte_count + 1 .. byte_count + t
      BY <1>8, <3>1
    <3>2. CASE b \notin byte_count + 1 .. byte_count + t
      <4>1. data_buffer'[b] = data_buffer[b]
        BY <1>0, <3>2
      <4> QED BY <1>1, <2>1, <4>1, ElementOfSeq
    <3> QED BY <3>1, <3>2
  <2>2. data_buffer' \in [1 .. Len(data_buffer) -> Byte]
    BY <1>0, <1>1, <2>1
  <2> QED BY SMTT(30), <1>1, <2>2
(* The bits that are left. *)
<1>10. /\ stream_val' \in Seq(Bit) /\ Len(stream_val') = r
       /\ \A j \in 1 .. r : T + j \in 1 .. L /\ stream_val'[j] = stream[T + j]
  <2>0. T \in Nat /\ L = T + r /\ stream_val' = SubSeq(stream, T + 1, L)
    BY <1>0, <1>4, <1>5
  <2> HIDE DEF T
  <2>1. r \in Nat /\ T + r <= L
    BY <1>4, <2>0
  <2>2. /\ stream_val' \in Seq(Bit) /\ Len(stream_val') = r
        /\ \A j \in 1 .. r : stream_val'[j] = stream[T + j]
    <3>1. /\ stream \in Seq(Bit) /\ T \in Nat /\ r \in Nat /\ T + r <= Len(stream)
          /\ stream_val' = SubSeq(stream, T + 1, T + r)
      BY <1>2, <2>0, <2>1 DEF L
    <3> QED BY ONLY <3>1, PartOf
  <2>3. \A j \in 1 .. r : T + j \in 1 .. L
    BY <1>4, <2>0
  <2> QED BY <2>2, <2>3
<1>11. Packed'
  <2>1. Len(written') = byte_count' * ByteBits + Len(stream_val')
    BY <1>0, <1>4, <1>5, <1>10
  <2>2. ASSUME NEW b \in 1 .. byte_count', NEW j \in 1 .. ByteBits
        PROVE  written'[(b - 1) * ByteBits + j] = data_buffer'[b][j]
    <3>1. CASE b <= byte_count
      <4>1. b \in 1 .. byte_count /\ b \notin byte_count + 1 .. byte_count + t
            /\ b \in DOMAIN data_buffer
        BY <1>0, <1>1, <1>4, <1>7, <3>1
      <4>2. data_buffer'[b] = data_buffer[b]
        BY <1>0, <4>1
      <4>3. (b - 1) * ByteBits + j \in 1 .. Len(written)
        <5> DEFINE x == (b - 1) * ByteBits
        <5>1. x \in Nat /\ x + ByteBits <= B
          <6>1. b * ByteBits <= byte_count * ByteBits
            BY <1>1, <3>1
          <6>2. b * ByteBits = (b - 1) * ByteBits + ByteBits /\ (b - 1) * ByteBits \in Nat
            OBVIOUS
          <6> QED BY <6>1, <6>2
        <5> HIDE DEF x, B
        <5>2. x + j \in 1 .. Len(written)
          BY <1>1, <1>5, <5>1
        <5> QED BY <5>2 DEF x
      <4>4. written[(b - 1) * ByteBits + j] = data_buffer[b][j]
        BY <4>1 DEF Packed
      <4> QED BY <1>3, <4>2, <4>3, <4>4
    <3>2. CASE b > byte_count
      <4> DEFINE k == b - byte_count - 1
                 K == k * ByteBits
      <4>1. b \in byte_count + 1 .. byte_count + t
        BY <1>0, <1>1, <1>4, <3>2
      <4>2. /\ k \in 0 .. t - 1 /\ K \in Nat /\ K + ByteBits <= T
            /\ data_buffer'[b][j] = stream[K + j]
        BY <1>8, <4>1
      <4>3. (b - 1) * ByteBits = B + K
        <5>1. b - 1 = byte_count + k
          BY <1>1
        <5> HIDE DEF k
        <5> QED BY <1>1, <4>2, <5>1
      <4> HIDE DEF K, B, T
      <4>4. K + j \in 1 .. L
        BY <1>2, <1>4, <1>5, <4>2 DEF T
      <4>5. at(K + j) = (b - 1) * ByteBits + j
        <5>1. at(K + j) = B + (K + j)
          BY DEF B
        <5>2. B + (K + j) = (B + K) + j
          BY <1>5, <4>2
        <5> QED BY <4>3, <5>1, <5>2
      <4>6. written'[at(K + j)] = stream[K + j]
        BY <1>6, <4>4
      <4> QED BY <4>2, <4>5, <4>6
    <3> QED BY <1>1, <3>1, <3>2
  <2>3. ASSUME NEW j \in 1 .. Len(stream_val')
        PROVE  written'[byte_count' * ByteBits + j] = stream_val'[j]
    <3>1. byte_count' * ByteBits + j = at(T + j)
      <4>1. byte_count' * ByteBits = B + T
        BY <1>0, <1>5
      <4>2. at(T + j) = B + (T + j)
        OBVIOUS
      <4> HIDE DEF B, T, at
      <4> QED BY <1>4, <1>5, <1>10, <4>1, <4>2
    <3> HIDE DEF at, T
    <3>2. T + j \in 1 .. L /\ stream_val'[j] = stream[T + j]
      BY <1>10, <2>3
    <3>3. written'[at(T + j)] = stream[T + j]
      BY <1>6, <3>2
    <3> QED BY <3>1, <3>2, <3>3
  <2> QED BY <2>1, <2>2, <2>3 DEF Packed
<1> QED BY <1>3, <1>4, <1>7, <1>9, <1>10, <1>11

LEMMA BitsOfFacts ==
  ASSUME NEW m \in Nat, NEW c \in 0 .. m
  PROVE  /\ BitsOf(m, c) \in Nat
         /\ BitsOf(m + 1, c + 1) = BitsOf(m, c) + (1 + LogBases + LowBits)
         /\ BitsOf(m + 1, c) = BitsOf(m, c) + (1 + WordBits)
         /\ \A M \in Nat, C \in Nat :
              c <= C /\ C <= M /\ m - c <= M - C => BitsOf(m, c) <= BitsOf(M, C)
<1> DEFINE h == LowBits + LogBases
           d == m - c
<1>0. h \in Nat /\ WordBits \in Nat /\ LowBits \in Nat /\ LogBases \in Nat
  BY SizeFacts
<1>1. d \in Nat /\ c \in Nat /\ m = c + d /\ (m + 1) - (c + 1) = d /\ (m + 1) - c = d + 1
  OBVIOUS
<1>2. h * c \in Nat /\ d * WordBits \in Nat
  BY <1>0, <1>1
<1>3. BitsOf(m, c) = h * c + d * WordBits + m
  BY DEF BitsOf
<1>4. BitsOf(m + 1, c + 1) = h * (c + 1) + d * WordBits + (m + 1)
  BY <1>1 DEF BitsOf
<1>5. BitsOf(m + 1, c) = h * c + (d + 1) * WordBits + (m + 1)
  BY <1>1 DEF BitsOf
<1>6. h * (c + 1) = h * c + h /\ (d + 1) * WordBits = d * WordBits + WordBits
  BY <1>0, <1>1
<1>7. ASSUME NEW M \in Nat, NEW C \in Nat, c <= C, C <= M, m - c <= M - C
      PROVE  BitsOf(m, c) <= BitsOf(M, C)
  <2> DEFINE D == M - C
  <2>1. D \in Nat /\ d <= D /\ m <= M
    BY <1>1, <1>7
  <2>2. BitsOf(M, C) = h * C + D * WordBits + M
    BY DEF BitsOf
  <2> HIDE DEF h, d, D
  <2>3. h * c <= h * C /\ h * C \in Nat
    BY <1>0, <1>1, <1>7
  <2>4. d * WordBits <= D * WordBits /\ D * WordBits \in Nat
    BY <1>0, <1>1, <2>1
  <2> QED BY <1>2, <1>3, <2>1, <2>2, <2>3, <2>4
<1>8. BitsOf(m, c) \in Nat
  BY <1>2, <1>3
<1> DEFINE x == h * c
           y == d * WordBits
<1>9. x \in Nat /\ y \in Nat /\ h = LowBits + LogBases
  BY <1>2
<1> HIDE DEF x, y, d
<1>10. BitsOf(m + 1, c + 1) = BitsOf(m, c) + (1 + LogBases + LowBits)
  <2>1. BitsOf(m + 1, c + 1) = (x + h) + y + (m + 1) /\ BitsOf(m, c) = x + y + m
    BY <1>3, <1>4, <1>6 DEF x, y
  <2> HIDE DEF h
  <2> QED BY <1>0, <1>9, <2>1
<1>11. BitsOf(m + 1, c) = BitsOf(m, c) + (1 + WordBits)
  <2>1. BitsOf(m + 1, c) = x + (y + WordBits) + (m + 1) /\ BitsOf(m, c) = x + y + m
    BY <1>3, <1>5, <1>6 DEF x, y
  <2> HIDE DEF h
  <2> QED BY <1>0, <1>9, <2>1
<1> QED BY <1>7, <1>8, <1>10, <1>11

(* The words up to n, and those of them with a chosen base, against all.   *)
LEMMA CodedFacts ==
  ASSUME DeltaTypeOK, NEW m \in 0 .. Len(data), NEW B
  PROVE  LET C == {k \in 1 .. m : BaseOf(data[k]) \in B}
         IN  /\ IsFiniteSet(C) /\ Cardinality(C) \in 0 .. m
             /\ Cardinality(C) <= Cardinality(WordsOf(B))
             /\ m - Cardinality(C) <= Len(data) - Cardinality(WordsOf(B))
             /\ m = Len(data) => C = WordsOf(B)
<1> DEFINE C == {k \in 1 .. m : BaseOf(data[k]) \in B}
           L == Len(data)
           W == WordsOf(B)
<1>1. L \in Nat /\ m \in Nat /\ m <= L
  BY Lengths
<1>2. /\ C \subseteq 1 .. m /\ W \subseteq 1 .. L /\ C \subseteq W
      /\ ((1 .. m) \ C) \subseteq ((1 .. L) \ W)
      /\ m = L => C = W
  BY <1>1 DEF WordsOf
<1> HIDE DEF C, L, W
<1>3. /\ IsFiniteSet(1 .. m) /\ Cardinality(1 .. m) = m
      /\ IsFiniteSet(1 .. L) /\ Cardinality(1 .. L) = L
  <2>1. \A a, b \in Int : /\ IsFiniteSet(a .. b)
                         /\ Cardinality(a .. b) = IF a > b THEN 0 ELSE b - a + 1
    BY FS_Interval
  <2>2. \A l \in Nat : IsFiniteSet(1 .. l) /\ Cardinality(1 .. l) = l
    BY <2>1
  <2> QED BY <1>1, <2>2
<1>4. IsFiniteSet(C) /\ IsFiniteSet(W) /\ Cardinality(C) \in Nat /\ Cardinality(W) \in Nat
      /\ Cardinality(C) <= Cardinality(W) /\ Cardinality(C) <= m
  <2>1. IsFiniteSet(C) /\ IsFiniteSet(W) /\ Cardinality(C) <= m
    <3>1. C \in SUBSET (1 .. m) /\ W \in SUBSET (1 .. L)
      BY <1>2
    <3>2. \A S : IsFiniteSet(S) =>
            \A T \in SUBSET S : IsFiniteSet(T) /\ Cardinality(T) <= Cardinality(S)
      BY FS_Subset
    <3>3. /\ IsFiniteSet(C) /\ Cardinality(C) <= Cardinality(1 .. m)
          /\ IsFiniteSet(W)
      BY <1>3, <3>1, <3>2
    <3> QED BY <1>3, <3>3
  <2> QED BY <1>2, <2>1, FS_Subset, FS_CardinalityType
<1>5. Cardinality((1 .. m) \ C) = m - Cardinality(C) /\ IsFiniteSet((1 .. m) \ C)
  <2>1. (1 .. m) \cap C = C
    BY <1>2
  <2>2. \A S, T : IsFiniteSet(S) =>
          IsFiniteSet(S \ T) /\ Cardinality(S \ T) = Cardinality(S) - Cardinality(S \cap T)
    BY FS_Difference
  <2>3. /\ IsFiniteSet((1 .. m) \ C)
        /\ Cardinality((1 .. m) \ C) = Cardinality(1 .. m) - Cardinality((1 .. m) \cap C)
    BY <1>3, <2>2
  <2> QED BY <1>3, <2>1, <2>3
<1>6. Cardinality((1 .. L) \ W) = L - Cardinality(W) /\ IsFiniteSet((1 .. L) \ W)
  <2>1. (1 .. L) \cap W = W
    BY <1>2
  <2>2. \A S, T : IsFiniteSet(S) =>
          IsFiniteSet(S \ T) /\ Cardinality(S \ T) = Cardinality(S) - Cardinality(S \cap T)
    BY FS_Difference
  <2>3. /\ IsFiniteSet((1 .. L) \ W)
        /\ Cardinality((1 .. L) \ W) = Cardinality(1 .. L) - Cardinality((1 .. L) \cap W)
    BY <1>3, <2>2
  <2> QED BY <1>3, <2>1, <2>3
<1>7. m - Cardinality(C) <= L - Cardinality(W)
  BY <1>2, <1>5, <1>6, FS_Subset
<1> QED BY <1>1, <1>2, <1>4, <1>7 DEF C, L, W

LEMMA WordWritten ==
  ASSUME Compressing, pc = "encode", n <= Len(data), Emit(Code(data[n])), n' = n + 1,
         UNCHANGED <<pc, outerVars, data, scanVars, rankVars, num_pages_needed, base_buffer>>
  PROVE  Compressing'
<1> USE DEF outerVars, scanVars, rankVars
<1> DEFINE R == Range(top_bases)
           code == Code(data[n])
           c == Cardinality(Coded)
<1>1. DeltaTypeOK /\ Grouped /\ Scanned /\ Chosen /\ Streamed
  BY DEF Compressing
<1>2. n \in 1 .. Len(data) /\ data[n] \in Word /\ Len(data) \in Nat /\ n' - 1 = n
  BY <1>1, AtWord, Lengths
<1>3. /\ code \in Seq(Bit)
      /\ ThisBase \in R => Len(code) = 1 + LogBases + LowBits
      /\ ThisBase \notin R => Len(code) = 1 + WordBits
  BY <1>1, <1>2, CodeFacts DEF ThisBase
<1> HIDE DEF code
<1>4. n - 1 \in 0 .. Len(data) /\ n \in 0 .. Len(data) /\ (n - 1) + 1 = n
  BY <1>2
<1>5. /\ IsFiniteSet(Coded) /\ c \in 0 .. n - 1
  BY <1>1, <1>4, CodedFacts DEF Coded
<1>6. /\ Coded' = {k \in 1 .. n : BaseOf(data[k]) \in R}
      /\ Cardinality(Coded') \in 0 .. n
      /\ Cardinality(Coded') <= compressed_count
      /\ n - Cardinality(Coded') <= Len(data) - compressed_count
  <2>1. Coded' = {k \in 1 .. n : BaseOf(data[k]) \in R}
    BY <1>2 DEF Coded
  <2>2. compressed_count = Cardinality(WordsOf(R))
    BY <1>1 DEF Chosen, Working
  <2> QED BY <1>1, <1>4, <2>1, <2>2, CodedFacts
<1>7. n \notin Coded /\ Coded' = IF ThisBase \in R THEN Coded \cup {n} ELSE Coded
  <2>1. \A k \in 1 .. n : k \in 1 .. n - 1 \/ k = n
    BY <1>2
  <2>2. \A k \in 1 .. n - 1 : k \in 1 .. n /\ k # n
    BY <1>2
  <2> HIDE DEF R
  <2>3. n \in 1 .. n
    BY <1>2
  <2>4. Coded = {k \in 1 .. n - 1 : BaseOf(data[k]) \in R}
    BY DEF Coded, R
  <2> QED BY <1>6, <2>1, <2>2, <2>3, <2>4 DEF ThisBase
<1>8. Len(written) + Len(code) = BitsOf(n, Cardinality(Coded'))
  <2>1. Len(written) = BitsOf(n - 1, c)
    BY <1>1 DEF Streamed
  <2>2. n - 1 \in Nat
    BY <1>4
  <2>3. /\ BitsOf(n, c + 1) = BitsOf(n - 1, c) + (1 + LogBases + LowBits)
        /\ BitsOf(n, c) = BitsOf(n - 1, c) + (1 + WordBits)
    BY <1>4, <1>5, <2>2, BitsOfFacts
  <2>4. CASE ThisBase \in R
    <3>1. Cardinality(Coded') = c + 1
      BY <1>5, <1>7, <2>4, FS_AddElement
    <3> QED BY <1>3, <2>1, <2>3, <2>4, <3>1
  <2>5. CASE ThisBase \notin R
    <3>1. Cardinality(Coded') = c
      BY <1>7, <2>5
    <3> QED BY <1>3, <2>1, <2>3, <2>5, <3>1
  <2> QED BY <2>4, <2>5
<1>9. Len(written) + Len(code) <= Len(data_buffer) * ByteBits
  <2>1. /\ data_bits = BitsOf(Len(data), compressed_count) /\ data_bits \in Nat
        /\ Len(data_buffer) = CeilDiv(data_bits, ByteBits)
    BY <1>1, SizesNat DEF Streamed
  <2>2. data_bits <= Len(data_buffer) * ByteBits
    BY <2>1, SizeFacts, CeilDivBounds
  <2>3. compressed_count \in Nat /\ compressed_count <= Len(data)
    BY <1>1, <1>2 DEF DeltaTypeOK
  <2>4. BitsOf(n, Cardinality(Coded')) <= data_bits
    <3> DEFINE d == Cardinality(Coded')
    <3>1. n \in Nat /\ d \in 0 .. n /\ d <= compressed_count
          /\ n - d <= Len(data) - compressed_count
      BY <1>2, <1>6
    <3> HIDE DEF d
    <3>2. BitsOf(n, d) <= BitsOf(Len(data), compressed_count)
      BY <1>2, <2>3, <3>1, BitsOfFacts
    <3> QED BY <2>1, <3>2 DEF d
  <2>5. Len(written) + Len(code) \in Nat /\ Len(data_buffer) * ByteBits \in Nat
    BY <1>1, <1>3, Lengths, SizeFacts
  <2>6. \A x, y, z \in Nat : x <= y /\ y <= z => x <= z
    OBVIOUS
  <2> QED BY <1>8, <2>1, <2>2, <2>4, <2>5, <2>6
<1>10. Packed /\ Emit(code)
  BY <1>1 DEF Streamed, code
<1>11. /\ data_buffer' \in Seq(Byte) /\ Len(data_buffer') = Len(data_buffer)
       /\ byte_count' \in 0 .. Len(data_buffer')
       /\ stream_val' \in Seq(Bit) /\ Len(stream_val') < ByteBits
       /\ written' \in Seq(Bit) /\ Len(written') = Len(written) + Len(code)
       /\ Packed'
  BY <1>1, <1>3, <1>9, <1>10, EmitPacks
<1>12. DeltaTypeOK'
  <2>1. n' \in Nat \ {0}
    BY <1>2
  <2> QED BY <1>1, <1>11, <2>1 DEF DeltaTypeOK, num_iters
<1>13. Grouped'
  BY <1>1 DEF Grouped, Working, num_iters
<1>14. Scanned'
  BY <1>1 DEF Scanned, ScanFaithful, Seen, Working
<1>15. Chosen'
  BY <1>1 DEF Chosen, Working, WordsOf, Untaken, effective_num_bases
<1>16. Streamed'
  <2>1. /\ PagesNeeded' = PagesNeeded
        /\ CeilDiv(data_bits, ByteBits)' = CeilDiv(data_bits, ByteBits)
    BY DEF PagesNeeded, compressed_buffer_size, total_bits, data_bits, CodeBits
  <2>2. n' <= Len(data') + 1
    BY <1>2
  <2>3. Len(written') = BitsOf(n' - 1, Cardinality(Coded'))
    BY <1>2, <1>8, <1>11
  <2>4. /\ num_pages_needed' = PagesNeeded' /\ num_pages_needed' < InputPages
        /\ Len(data_buffer') = CeilDiv(data_bits, ByteBits)'
    BY <1>1, <1>11, <2>1 DEF Streamed
  <2>5. pc' = "encode"
    OBVIOUS
  <2> QED BY <1>11, <2>2, <2>3, <2>4, <2>5 DEF Streamed
<1> QED BY <1>12, <1>13, <1>14, <1>15, <1>16 DEF Compressing

LEMMA FlushStep == Compressing /\ Flush => Compressing'
<1> SUFFICES ASSUME Compressing, Flush PROVE Compressing'
  OBVIOUS
<1> USE DEF outerVars, scanVars, rankVars
<1>0. /\ pc = "encode" /\ pc' = "returned"
      /\ data_buffer' = IF stream_val = <<>> THEN data_buffer
                          ELSE [data_buffer EXCEPT ![Len(data_buffer)] = LastByte]
      /\ UNCHANGED <<outerVars, data, n, scanVars, rankVars, num_pages_needed, base_buffer,
                     byte_count, stream_val, written>>
  BY DEF Flush
<1>1. DeltaTypeOK /\ Grouped /\ Scanned /\ Chosen
  BY DEF Compressing
<1>2. data_buffer' \in Seq(Byte) /\ Len(data_buffer') = Len(data_buffer)
  <2>1. LastByte \in Byte
    BY DEF LastByte, Byte, Bit
  <2>2. data_buffer \in Seq(Byte)
    BY <1>1 DEF DeltaTypeOK
  <2>3. CASE stream_val = <<>>
    BY <1>0, <2>2, <2>3
  <2>4. CASE stream_val # <<>>
    <3>1. data_buffer' = [data_buffer EXCEPT ![Len(data_buffer)] = LastByte]
      BY <1>0, <2>4
    <3> HIDE DEF LastByte, Byte
    <3>2. Len(data_buffer) \in Nat /\ data_buffer \in [1 .. Len(data_buffer) -> Byte]
      BY <2>2
    <3>3. data_buffer' \in [1 .. Len(data_buffer) -> Byte]
      BY <2>1, <3>1, <3>2
    <3> QED BY <3>2, <3>3
  <2> QED BY <2>3, <2>4
<1>3. DeltaTypeOK'
  BY <1>0, <1>1, <1>2 DEF DeltaTypeOK, num_iters
<1>4. Grouped' /\ Streamed'
  BY <1>0, <1>1 DEF Grouped, Streamed, Working, num_iters
<1>5. Scanned'
  BY <1>0, <1>1 DEF Scanned, ScanFaithful, Seen, Working
<1>6. Chosen'
  BY <1>0, <1>1 DEF Chosen, Working, WordsOf, Untaken, effective_num_bases
<1> QED BY <1>3, <1>4, <1>5, <1>6 DEF Compressing

-----------------------------------------------------------------------------
(* The invariant holds *)

LEMMA EncodeStep == Compressing /\ (EncodeCompressed \/ EncodeRaw) => Compressing'
<1>1. ASSUME Compressing, EncodeCompressed PROVE Compressing'
  BY <1>1, WordWritten DEF EncodeCompressed
<1>2. ASSUME Compressing, EncodeRaw PROVE Compressing'
  BY <1>2, WordWritten DEF EncodeRaw
<1> QED BY <1>1, <1>2

LEMMA CompressingNext == Compressing /\ [Next]_vars => Compressing'
<1> SUFFICES ASSUME Compressing, [Next]_vars PROVE Compressing'
  OBVIOUS
<1>1. CASE UNCHANGED vars
  <2> USE <1>1 DEF vars, outerVars, scanVars, rankVars, streamVars
  <2>1. DeltaTypeOK /\ Grouped /\ Scanned /\ Chosen /\ Streamed
    BY DEF Compressing
  <2>2. DeltaTypeOK'
    BY <2>1 DEF DeltaTypeOK, num_iters
  <2>3. Grouped'
    BY <2>1 DEF Grouped, Working, num_iters
  <2>4. Scanned'
    BY <2>1 DEF Scanned, ScanFaithful, Seen, Working
  <2>5. Chosen'
    BY <2>1 DEF Chosen, Working, WordsOf, Untaken, effective_num_bases
  <2>6. Streamed'
    BY <2>1 DEF Streamed, Packed, Coded, PagesNeeded, compressed_buffer_size, total_bits,
                data_bits, CodeBits
  <2> QED BY <2>2, <2>3, <2>4, <2>5, <2>6 DEF Compressing
<1> QED BY <1>1, PrepareStep, CopyPagesStep, ScanKnownStep, ScanNewStep, SortBasesStep,
           ChooseBaseStep, SizeUpStep, CopyBaseStep, EncodeStep, FlushStep, AddSlotsStep,
           FinishStep DEF Next

(* At any time the steps taken so far on a group of pages are the right    *)
(* ones: the trace is cut into whole groups, base_count counts the words   *)
(* scanned, the chosen bases are the commonest, the stream has room.       *)
THEOREM CompressingAlways == Spec => []Compressing
BY CompressingInit, CompressingNext, PTL DEF Spec

(* Every variable keeps its type; in particular no byte is written past    *)
(* the end of data_buffer and stream_val never holds a whole byte back.    *)
THEOREM DeltaTypesCorrect == Spec => []DeltaTypeOK
<1>1. Compressing => DeltaTypeOK
  BY DEF Compressing
<1> QED BY <1>1, CompressingAlways, PTL

(* base_array and baseid_array are a dictionary encoding of the words      *)
(* scanned: the loop of BaseDeltaComp over base_to_id.                     *)
THEOREM ScanFaithfulAlways == Spec => []ScanFaithful
<1>1. Compressing => ScanFaithful
  BY DEF Compressing, Scanned
<1> QED BY <1>1, CompressingAlways, PTL

-----------------------------------------------------------------------------
(* The stream and its size *)

(* Shifting and masking stream_val loses no bit: the bytes of data_buffer  *)
(* and the bits left over are all that was written, in order.              *)
THEOREM StreamExactAlways == Spec => []StreamExact
<1>1. Compressing => StreamExact
  <2> SUFFICES ASSUME Compressing, pc = "encode"
               PROVE  written = [k \in 1 .. byte_count * ByteBits |-> OutputBit(k)] \o stream_val
    BY DEF StreamExact
  <2> USE SizeFacts
  <2> DEFINE B == byte_count * ByteBits
             out == [k \in 1 .. B |-> OutputBit(k)]
  <2>1. DeltaTypeOK /\ Packed
    BY DEF Compressing, Streamed
  <2>2. /\ byte_count \in Nat /\ stream_val \in Seq(Bit) /\ Len(stream_val) \in Nat
        /\ written \in Seq(Bit) /\ Len(written) \in Nat
    BY <2>1, Lengths DEF DeltaTypeOK
  <2>3. B \in Nat /\ Len(written) = B + Len(stream_val)
    BY <2>1, <2>2 DEF Packed
  <2>4. ASSUME NEW k \in 1 .. B PROVE OutputBit(k) = written[k]
    <3> DEFINE q == (k - 1) \div ByteBits
               r == (k - 1) % ByteBits
               Q == q * ByteBits
    <3>1. k - 1 \in Nat /\ k - 1 < B
      BY <2>3
    <3>2. q \in Nat /\ r \in 0 .. ByteBits - 1 /\ k - 1 = (ByteBits * q) + r
      BY <3>1, DivMod
    <3> HIDE DEF q, r
    <3>3. Q \in Nat /\ k - 1 = Q + r
      BY <3>2
    <3>4. q < byte_count
      <4>1. ASSUME byte_count <= q PROVE FALSE
        <5>1. B <= Q
          BY <2>2, <3>2, <4>1
        <5> HIDE DEF B, Q
        <5> QED BY <2>3, <3>1, <3>2, <3>3, <5>1
      <4> QED BY <2>2, <3>2, <4>1
    <3>5. q + 1 \in 1 .. byte_count /\ r + 1 \in 1 .. ByteBits /\ (q + 1) - 1 = q
      BY <2>2, <3>2, <3>4
    <3>6. written[((q + 1) - 1) * ByteBits + (r + 1)] = data_buffer[q + 1][r + 1]
      BY <2>1, <3>5 DEF Packed
    <3>7. ((q + 1) - 1) * ByteBits + (r + 1) = k
      <4>1. ((q + 1) - 1) * ByteBits = Q
        BY <3>5
      <4> HIDE DEF Q
      <4> QED BY <3>2, <3>3, <4>1
    <3>8. OutputBit(k) = data_buffer[q + 1][r + 1]
      BY DEF OutputBit, q, r
    <3> QED BY <3>6, <3>7, <3>8
  <2>5. \A k \in 1 .. B : written[k] \in Bit
    <3> HIDE DEF B
    <3>1. \A k \in 1 .. B : k \in 1 .. Len(written)
      BY <2>2, <2>3
    <3> QED BY <2>2, <3>1, ElementOfSeq
  <2>6. out \in Seq(Bit) /\ Len(out) = B /\ \A k \in 1 .. B : out[k] = written[k]
    <3>1. out \in [1 .. B -> Bit]
      BY <2>4, <2>5
    <3> QED BY <2>3, <2>4, <3>1
  <2>7. \A j \in 1 .. Len(stream_val) : written[B + j] = stream_val[j]
    BY <2>1 DEF Packed
  <2> HIDE DEF B, out
  <2>8. /\ out \o stream_val \in Seq(Bit) /\ Len(out \o stream_val) = B + Len(stream_val)
        /\ \A k \in 1 .. B : (out \o stream_val)[k] = written[k]
        /\ \A j \in 1 .. Len(stream_val) : (out \o stream_val)[B + j] = written[B + j]
    <3>1. stream_val \in Seq(Bit) /\ out \in Seq(Bit) /\ Len(out) = B
      BY <2>2, <2>6
    <3>2. /\ out \o stream_val \in Seq(Bit) /\ Len(out \o stream_val) = B + Len(stream_val)
          /\ \A k \in 1 .. B : (out \o stream_val)[k] = out[k]
          /\ \A j \in 1 .. Len(stream_val) : (out \o stream_val)[B + j] = stream_val[j]
      <4> HIDE SizeFacts
      <4>1. /\ out \o stream_val \in Seq(Bit)
            /\ Len(out \o stream_val) = Len(out) + Len(stream_val)
            /\ \A k \in 1 .. Len(out) : (out \o stream_val)[k] = out[k]
            /\ \A j \in 1 .. Len(stream_val) : (out \o stream_val)[Len(out) + j] = stream_val[j]
        <5>1. stream_val \in Seq(Bit) /\ out \in Seq(Bit)
          BY <3>1
        <5> QED BY <5>1, ConcatParts
      <4> QED BY <3>1, <4>1
    <3> QED BY <2>6, <2>7, <3>2
  <2>9. ASSUME NEW k \in 1 .. Len(written) PROVE written[k] = (out \o stream_val)[k]
    <3>1. CASE k <= B
      BY <2>2, <2>3, <2>8, <3>1
    <3>2. CASE k > B
      <4>1. k - B \in 1 .. Len(stream_val) /\ k = B + (k - B)
        BY <2>2, <2>3, <3>2
      <4> QED BY <2>8, <4>1
    <3>3. k <= B \/ k > B
      BY <2>3
    <3> QED BY <3>1, <3>2, <3>3
  <2>10. written = out \o stream_val
    BY <2>2, <2>3, <2>8, <2>9, SeqEqual
  <2> QED BY <2>10 DEF out, B
<1> QED BY <1>1, CompressingAlways, PTL

(* The size of data_buffer, worked out before a word is encoded, is the    *)
(* size of what is encoded.                                                *)
THEOREM SizeExactAlways == Spec => []SizeExact
<1>1. Compressing => SizeExact
  <2> SUFFICES ASSUME Compressing, pc = "encode", n > Len(data)
               PROVE  /\ Len(written) = data_bits
                      /\ Len(data_buffer) = IF stream_val = <<>> THEN byte_count
                                                                ELSE byte_count + 1
    BY DEF SizeExact
  <2> USE SizeFacts
  <2>1. /\ DeltaTypeOK /\ Packed /\ n <= Len(data) + 1
        /\ Len(written) = BitsOf(n - 1, Cardinality(Coded))
        /\ Len(data_buffer) = CeilDiv(data_bits, ByteBits)
        /\ compressed_count = Cardinality(WordsOf(Range(top_bases)))
    BY DEF Compressing, Streamed, Chosen, Working
  <2>2. Len(data) \in Nat /\ n \in Nat /\ n - 1 = Len(data)
    <3>1. Len(data) \in Nat /\ n \in Nat
      BY <2>1, Lengths DEF DeltaTypeOK
    <3> HIDE SizeFacts
    <3> QED BY <2>1, <3>1
  <2>3. Coded = WordsOf(Range(top_bases))
    BY <2>2 DEF Coded, WordsOf
  <2>4. Len(written) = data_bits
    BY <2>1, <2>2, <2>3, SizesNat
  <2> DEFINE s == Len(stream_val)
             c == CeilDiv(data_bits, ByteBits)
             B == byte_count * ByteBits
             C == c * ByteBits
  <2>5. s \in Nat /\ s < ByteBits /\ byte_count \in Nat /\ data_bits = B + s /\ B \in Nat
    <3>1. s \in Nat /\ s < ByteBits /\ byte_count \in Nat
      BY <2>1, Lengths DEF DeltaTypeOK
    <3>2. data_bits = B + s
      BY <2>1, <2>4 DEF Packed
    <3> QED BY <3>1, <3>2
  <2>6. c \in Nat /\ data_bits <= C /\ C < data_bits + ByteBits /\ C \in Nat
    <3>1. data_bits \in Nat
      BY <2>1, SizesNat
    <3>2. c \in Nat /\ data_bits <= C /\ C < data_bits + ByteBits
      BY <3>1, CeilDivBounds
    <3> HIDE DEF c
    <3> QED BY <3>2
  <2> HIDE DEF s, c
  <2>7. CASE s = 0
    <3>1. ASSUME c < byte_count PROVE FALSE
      <4>1. (c + 1) * ByteBits <= byte_count * ByteBits /\ (c + 1) * ByteBits = C + ByteBits
        BY <2>5, <2>6, <3>1
      <4> HIDE DEF B, C
      <4> QED BY <2>5, <2>6, <2>7, <4>1 DEF B
    <3>2. ASSUME c > byte_count PROVE FALSE
      <4>1. (byte_count + 1) * ByteBits <= c * ByteBits
            /\ (byte_count + 1) * ByteBits = B + ByteBits
        BY <2>5, <2>6, <3>2
      <4> HIDE DEF B, C
      <4> QED BY <2>5, <2>6, <2>7, <4>1 DEF C
    <3>3. stream_val = <<>>
      BY <2>1, <2>7, EmptySeq DEF s, DeltaTypeOK
    <3> QED BY <2>1, <2>4, <2>5, <2>6, <3>1, <3>2, <3>3 DEF c
  <2>8. CASE s # 0
    <3>1. ASSUME c < byte_count + 1 PROVE FALSE
      <4>1. c <= byte_count
        BY <2>5, <2>6, <3>1
      <4>2. C <= B
        BY <2>5, <2>6, <4>1
      <4> HIDE DEF B, C
      <4> QED BY <2>5, <2>6, <2>8, <4>2
    <3>2. ASSUME c > byte_count + 1 PROVE FALSE
      <4>1. byte_count + 2 <= c
        BY <2>5, <2>6, <3>2
      <4>2. (byte_count + 2) * ByteBits <= C
        BY <2>5, <2>6, <4>1
      <4>3. (byte_count + 2) * ByteBits = B + ByteBits + ByteBits
        BY <2>5
      <4> HIDE DEF B, C
      <4> QED BY <2>5, <2>6, <4>2, <4>3
    <3>3. stream_val # <<>>
      BY <2>8, EmptyFacts DEF s
    <3> QED BY <2>1, <2>4, <2>5, <2>6, <3>1, <3>2, <3>3 DEF c
  <2> QED BY <2>7, <2>8
<1> QED BY <1>1, CompressingAlways, PTL

(* When BaseDeltaComp goes on to encode, its output fits in the pages it   *)
(* returns, which are fewer than it was given.                             *)
THEOREM PagesSufficeAlways == Spec => []PagesSuffice
<1>1. Compressing => PagesSuffice
  <2> SUFFICES ASSUME Compressing, pc \in {"bases", "encode"}
               PROVE  /\ num_pages_needed < InputPages
                      /\ NumBases * BaseBits + CountBits + Len(data_buffer) * ByteBits
                           <= num_pages_needed * PageBytes * ByteBits
    BY DEF PagesSuffice
  <2> USE SizeFacts
  <2>1. /\ DeltaTypeOK /\ num_pages_needed = PagesNeeded /\ num_pages_needed < InputPages
        /\ Len(data_buffer) = CeilDiv(data_bits, ByteBits)
    BY DEF Compressing, Streamed
  <2> DEFINE q == CeilDiv(data_bits, ByteBits)
             s == compressed_buffer_size
             p == CeilDiv(s, PageBytes)
             u == BaseBits \div ByteBits
             v == CountBits \div ByteBits
             x == (NumBases * u) + v
             X == NumBases * BaseBits + CountBits
  <2>2. /\ data_bits \in Nat /\ total_bits \in Nat /\ PagesNeeded \in 0 .. InputPages
        /\ q \in Nat
    BY <2>1, SizesNat
  <2>3. q * ByteBits < data_bits + ByteBits
    BY <2>2, CeilDivBounds
  <2>4. s \in Nat /\ total_bits <= s * ByteBits
    BY <2>2, CeilDivBounds DEF compressed_buffer_size
  <2> HIDE DEF s, q
  <2>5. p \in Nat /\ s <= p * PageBytes
    BY <2>4, CeilDivBounds
  <2> HIDE DEF p
  <2>6. PagesNeeded = p
    <3>1. PagesNeeded = IF p >= InputPages THEN InputPages ELSE p
      BY DEF PagesNeeded, p, s
    <3> QED BY <2>1, <2>5, <3>1
  <2>7. /\ u \in Nat /\ v \in Nat /\ BaseBits = ByteBits * u /\ CountBits = ByteBits * v
    <3>1. BaseBits % ByteBits = 0 /\ CountBits % ByteBits = 0
      BY SizeAssumption
    <3>2. /\ u \in Nat /\ BaseBits = (ByteBits * u) + (BaseBits % ByteBits)
          /\ v \in Nat /\ CountBits = (ByteBits * v) + (CountBits % ByteBits)
      BY DivMod
    <3>3. ByteBits * u \in Nat /\ ByteBits * v \in Nat
      BY <3>2
    <3> QED BY <3>1, <3>2, <3>3
  <2> HIDE DEF u, v
  <2>8. /\ x \in Nat /\ X \in Nat /\ X = x * ByteBits
    <3>1. NumBases * (ByteBits * u) = (NumBases * u) * ByteBits /\ NumBases * u \in Nat
      BY <2>7
    <3>2. ByteBits * v = v * ByteBits
      BY <2>7
    <3>3. x * ByteBits = (NumBases * u) * ByteBits + v * ByteBits
      BY <2>7, <3>1
    <3>4. x \in Nat /\ X \in Nat
      BY <2>7, <3>1
    <3> QED BY <2>7, <3>1, <3>2, <3>3, <3>4
  <2>9. total_bits = data_bits + X
    BY <2>2 DEF total_bits
  <2> HIDE DEF x, X
  <2>10. s >= q + x
    <3>1. ASSUME s < q + x PROVE FALSE
      <4>1. s + 1 <= q + x /\ s + 1 \in Nat /\ q + x \in Nat
        BY <2>2, <2>4, <2>8, <3>1
      <4>2. (s + 1) * ByteBits <= (q + x) * ByteBits
        BY <4>1
      <4>3. /\ (s + 1) * ByteBits = s * ByteBits + ByteBits
            /\ (q + x) * ByteBits = q * ByteBits + x * ByteBits
            /\ s * ByteBits \in Nat /\ q * ByteBits \in Nat
        BY <2>2, <2>4, <2>8
      <4> DEFINE S == s * ByteBits
                 Q == q * ByteBits
      <4>4. /\ S \in Nat /\ Q \in Nat /\ S + ByteBits <= Q + X /\ Q < data_bits + ByteBits
            /\ data_bits + X <= S
        BY <2>3, <2>4, <2>8, <2>9, <4>2, <4>3
      <4> HIDE DEF S, Q
      <4> QED BY <2>2, <2>8, <4>4
    <3> QED BY <2>2, <2>4, <2>8, <3>1
  <2>11. q * ByteBits + X <= p * PageBytes * ByteBits
    <3> DEFINE P == p * PageBytes
               y == q + x
    <3>1. P \in Nat /\ y \in Nat /\ y <= P
      <4>1. P \in Nat
        BY <2>5
      <4> HIDE DEF P
      <4>2. y \in Nat /\ y <= s
        BY <2>2, <2>8, <2>10
      <4>3. s <= P
        BY <2>5 DEF P
      <4> HIDE DEF y
      <4> QED BY <2>4, <4>1, <4>2, <4>3
    <3> HIDE DEF P, y
    <3>2. y * ByteBits <= P * ByteBits
      BY <3>1
    <3>3. y * ByteBits = q * ByteBits + X
      BY <2>2, <2>8 DEF y
    <3> QED BY <3>2, <3>3 DEF P
  <2>12. NumBases * BaseBits + CountBits + Len(data_buffer) * ByteBits = q * ByteBits + X
    <3> DEFINE Q == q * ByteBits
               N == NumBases * BaseBits
    <3>1. Q \in Nat /\ N \in Nat
      BY <2>2
    <3>2. Len(data_buffer) * ByteBits = Q /\ X = N + CountBits
      BY <2>1 DEF q, X
    <3> HIDE DEF Q, N
    <3>3. N + CountBits + Q = Q + X
      BY <2>8, <3>1, <3>2
    <3> QED BY <3>2, <3>3 DEF Q, N
  <2> QED BY <2>1, <2>6, <2>11, <2>12
<1> QED BY <1>1, CompressingAlways, PTL

-----------------------------------------------------------------------------
(* No other choice of bases compresses more words *)

LEMMA InjectionBySize ==
  ASSUME NEW S, NEW T, IsFiniteSet(S), IsFiniteSet(T), Cardinality(S) <= Cardinality(T)
  PROVE  \E f \in [S -> T] : \A x, y \in S : f[x] = f[y] => x = y
<1>1. /\ Cardinality(S) \in Nat /\ ExistsBijection(1 .. Cardinality(S), S)
      /\ Cardinality(T) \in Nat /\ ExistsBijection(1 .. Cardinality(T), T)
  BY FS_CardinalityType
<1>2. PICK g \in Bijection(1 .. Cardinality(S), S) : TRUE
  BY <1>1, Fun_ExistsBij
<1>3. PICK h \in Bijection(1 .. Cardinality(T), T) : TRUE
  BY <1>1, Fun_ExistsBij
<1>4. /\ g \in [1 .. Cardinality(S) -> S]
      /\ \A x \in S : \E k \in 1 .. Cardinality(S) : g[k] = x
  <2> DEFINE I == 1 .. Cardinality(S)
  <2>1. g \in Bijection(I, S)
    BY <1>2
  <2> HIDE DEF I
  <2>2. g \in [I -> S] /\ \A x \in S : \E k \in I : g[k] = x
    <3>1. \A U, V : \A e \in Bijection(U, V) :
            e \in [U -> V] /\ \A x \in V : \E k \in U : e[k] = x
      BY Fun_BijectionProperties
    <3> QED BY <2>1, <3>1
  <2> QED BY <2>2 DEF I
<1>5. /\ h \in [1 .. Cardinality(T) -> T]
      /\ \A k, l \in 1 .. Cardinality(T) : h[k] = h[l] => k = l
  BY <1>3, Fun_BijectionProperties
<1> DEFINE place(x) == CHOOSE k \in 1 .. Cardinality(S) : g[k] = x
           f == [x \in S |-> h[place(x)]]
<1>6. \A x \in S : place(x) \in 1 .. Cardinality(S) /\ g[place(x)] = x
  BY <1>4
<1> HIDE DEF place
<1>7. \A x \in S : place(x) \in 1 .. Cardinality(T)
  BY <1>1, <1>6
<1>8. f \in [S -> T]
  BY <1>5, <1>7
<1>9. \A x, y \in S : f[x] = f[y] => x = y
  BY <1>5, <1>6, <1>7
<1> HIDE DEF f
<1> QED BY <1>8, <1>9

LEMMA ChosenCount ==
  ASSUME Compressing, pc \in {"bases", "encode", "returned"}
  PROVE  /\ IsFiniteSet(Range(top_bases)) /\ Cardinality(Range(top_bases)) = Len(top_bases)
         /\ Len(top_bases) \in Nat
         /\ Len(top_bases) = NumBases \/ Range(top_bases) = DOMAIN base_count
<1> DEFINE top == Range(top_bases)
<1>1. /\ DeltaTypeOK /\ Scanned /\ Len(baseid_array) = Len(data)
      /\ IsInjective(top_bases) /\ top \subseteq DOMAIN base_count
      /\ Len(top_bases) <= NumBases /\ Len(top_bases) >= effective_num_bases
  BY DEF Compressing, Scanned, Chosen, Working
<1>2. IsFiniteSet(DOMAIN base_count) /\ IsFiniteSet(top)
  <2>1. IsFiniteSet(DOMAIN base_count)
    BY <1>1, CountedAll
  <2> QED BY <1>1, <2>1, FS_Subset
<1>3. Len(top_bases) \in Nat /\ DOMAIN top_bases = 1 .. Len(top_bases)
  BY <1>1, Lengths
<1>4. Cardinality(top) = Len(top_bases)
  <2>1. top_bases \in [1 .. Len(top_bases) -> top]
    BY <1>1, <1>3 DEF Range, DeltaTypeOK
  <2>2. top_bases \in Injection(1 .. Len(top_bases), top)
    BY <1>1, <1>3, <2>1, Fun_IsInj DEF IsInjective
  <2>3. top_bases \in Surjection(1 .. Len(top_bases), top)
    <3>1. \A b \in top : \E k \in 1 .. Len(top_bases) : top_bases[k] = b
      BY <1>3 DEF Range
    <3> QED BY <2>1, <3>1, Fun_IsSurj
  <2>4. top_bases \in Bijection(1 .. Len(top_bases), top)
    BY <2>2, <2>3, Fun_IsBij
  <2>5. ExistsBijection(1 .. Len(top_bases), top)
    BY <2>4, Fun_ExistsBij
  <2> QED BY <1>3, <2>5, FS_CountingElements
<1>5. CASE Cardinality(DOMAIN base_count) < NumBases
  <2>1. Len(top_bases) >= Cardinality(DOMAIN base_count)
    BY <1>1, <1>5 DEF effective_num_bases
  <2>2. Cardinality(top) <= Cardinality(DOMAIN base_count)
        /\ (Cardinality(top) = Cardinality(DOMAIN base_count) => DOMAIN base_count = top)
    BY <1>1, <1>2, FS_Subset
  <2>3. Cardinality(DOMAIN base_count) \in Nat
    BY <1>2, FS_CardinalityType
  <2> QED BY <1>2, <1>3, <1>4, <2>1, <2>2, <2>3
<1>6. CASE ~ (Cardinality(DOMAIN base_count) < NumBases)
  <2>1. Len(top_bases) >= NumBases
    BY <1>1, <1>6 DEF effective_num_bases
  <2>2. Len(top_bases) = NumBases
    <3>1. NumBases \in Nat
      BY SizeFacts
    <3>2. Len(top_bases) <= NumBases
      BY <1>1
    <3>3. \A a, b \in Nat : a <= b /\ a >= b => a = b
      OBVIOUS
    <3> QED BY <1>3, <2>1, <3>1, <3>2, <3>3
  <2> QED BY <1>2, <1>3, <1>4, <2>2
<1> QED BY <1>5, <1>6

LEMMA NoBetterChoice ==
  ASSUME Compressing, pc \in {"bases", "encode", "returned"},
         NEW other \in SUBSET {BaseOf(data[k]) : k \in 1 .. Len(data)},
         Cardinality(other) <= NumBases
  PROVE  Cardinality(WordsOf(other)) <= Cardinality(WordsOf(Range(top_bases)))
<1> DEFINE top == Range(top_bases)
           A == other \ top
           T == top \ other
           W(b) == WordsOf({b})
           of(k) == BaseOf(data[k])
<1>1. /\ DeltaTypeOK /\ Scanned /\ Len(baseid_array) = Len(data)
      /\ \A b \in top, c \in Untaken : base_count[c] <= base_count[b]
      /\ top \subseteq DOMAIN base_count
  BY DEF Compressing, Scanned, Chosen, Working
<1>2. /\ other \subseteq DOMAIN base_count
      /\ \A b \in DOMAIN base_count : base_count[b] = Cardinality(W(b))
      /\ IsFiniteSet(DOMAIN base_count)
  BY <1>1, CountedAll
<1>3. IsFiniteSet(other) /\ IsFiniteSet(top)
  BY <1>1, <1>2, FS_Subset
(* A base of the other choice can be paired with one of the bases chosen.  *)
<1>4. \E g \in [A -> T] : \A x, y \in A : g[x] = g[y] => x = y
  <2>1. CASE top = DOMAIN base_count
    <3>1. A = {}
      BY <1>2, <2>1
    <3>2. \A x, y \in A : [z \in A |-> z][x] = [z \in A |-> z][y] => x = y
      BY <3>1
    <3>3. [z \in A |-> z] \in [A -> T]
      BY <3>1
    <3> QED BY <3>2, <3>3
  <2>2. CASE top # DOMAIN base_count
    <3>1. Cardinality(top) = NumBases
      BY <2>2, ChosenCount
    <3> HIDE DEF top
    <3>2. /\ IsFiniteSet(A) /\ Cardinality(A) = Cardinality(other) - Cardinality(other \cap top)
          /\ IsFiniteSet(T) /\ Cardinality(T) = Cardinality(top) - Cardinality(top \cap other)
      BY <1>3, FS_Difference
    <3>3. other \cap top = top \cap other /\ IsFiniteSet(other \cap top)
      BY <1>3, FS_Intersection
    <3>4. /\ Cardinality(other) \in Nat /\ Cardinality(top) \in Nat
          /\ Cardinality(other \cap top) \in Nat
      BY <1>3, <3>3, FS_CardinalityType
    <3>5. Cardinality(A) <= Cardinality(T)
      <4> DEFINE a == Cardinality(A)
                 t == Cardinality(T)
                 o == Cardinality(other)
                 c == Cardinality(other \cap top)
      <4>1. o \in Nat /\ c \in Nat /\ NumBases \in Nat /\ o <= NumBases
            /\ a = o - c /\ t = NumBases - c
        BY <3>1, <3>2, <3>3, <3>4, SizeFacts
      <4> HIDE DEF a, t, o, c
      <4>2. a <= t
        BY <4>1
      <4> QED BY <4>2 DEF a, t
    <3> HIDE DEF A, T
    <3> QED BY <3>2, <3>5, InjectionBySize
  <2> QED BY <2>1, <2>2
<1>5. PICK g \in [A -> T] : \A x, y \in A : g[x] = g[y] => x = y
  BY <1>4
(* Its words can be paired with words of that base.                        *)
<1>6. ASSUME NEW a \in A
      PROVE  \E f \in [W(a) -> W(g[a])] : \A x, y \in W(a) : f[x] = f[y] => x = y
  <2>1. g[a] \in top /\ g[a] \in DOMAIN base_count /\ a \in Untaken /\ a \in DOMAIN base_count
    BY <1>1, <1>2, <1>5 DEF Untaken
  <2>2. Cardinality(W(a)) <= Cardinality(W(g[a]))
    BY <1>1, <1>2, <2>1
  <2>3. IsFiniteSet(W(a)) /\ IsFiniteSet(W(g[a]))
    BY <1>1, WordsFinite
  <2> HIDE DEF W
  <2> QED BY <2>2, <2>3, InjectionBySize
<1> DEFINE good(f, a) == f \in [W(a) -> W(g[a])] /\ \A x, y \in W(a) : f[x] = f[y] => x = y
           pair(a) == CHOOSE f : good(f, a)
           F == [k \in WordsOf(other) |-> IF of(k) \in top THEN k ELSE pair(of(k))[k]]
<1>7. \A a \in A : good(pair(a), a)
  BY <1>6
<1> HIDE DEF pair
<1>8. \A b : \A k \in W(b) : k \in 1 .. Len(data) /\ of(k) = b
  BY DEF WordsOf
<1>9. \A k \in WordsOf(other) : k \in 1 .. Len(data) /\ of(k) \in other /\ k \in W(of(k))
  BY DEF WordsOf
<1>10. ASSUME NEW k \in WordsOf(other), of(k) \notin top
       PROVE  /\ of(k) \in A /\ F[k] = pair(of(k))[k] /\ F[k] \in W(g[of(k)])
              /\ of(F[k]) = g[of(k)] /\ of(F[k]) \in T /\ F[k] \in 1 .. Len(data)
  <2>1. of(k) \in A /\ k \in W(of(k))
    BY <1>9, <1>10
  <2> HIDE DEF A, T, W, of
  <2>2. good(pair(of(k)), of(k))
    BY <1>7, <2>1
  <2>3. F[k] = pair(of(k))[k]
    BY <1>10
  <2> HIDE DEF F
  <2>4. F[k] \in W(g[of(k)])
    BY <2>1, <2>2, <2>3
  <2>5. g[of(k)] \in T
    BY <1>5, <2>1
  <2> QED BY <1>8, <2>1, <2>3, <2>4, <2>5
<1>11. ASSUME NEW k \in WordsOf(other), of(k) \in top
       PROVE  F[k] = k /\ of(F[k]) \in other
  BY <1>9, <1>11
<1> HIDE DEF F
<1>12. F \in [WordsOf(other) -> WordsOf(top)]
  <2>1. ASSUME NEW k \in WordsOf(other) PROVE F[k] \in WordsOf(top)
    <3>1. CASE of(k) \in top
      BY <1>9, <1>11, <3>1 DEF WordsOf
    <3>2. CASE of(k) \notin top
      <4>1. F[k] \in 1 .. Len(data) /\ of(F[k]) \in top
        BY <1>10, <3>2
      <4> QED BY <4>1 DEF WordsOf
    <3> QED BY <3>1, <3>2
  <2> QED BY <2>1 DEF F
<1>13. ASSUME NEW k \in WordsOf(other), NEW l \in WordsOf(other), F[k] = F[l]
       PROVE  k = l
  <2> HIDE DEF top, W, of
  <2>1. CASE of(k) \in top /\ of(l) \in top
    BY <1>11, <1>13, <2>1
  <2>2. CASE of(k) \in top /\ of(l) \notin top
    <3>1. of(F[k]) \in other /\ of(F[l]) \notin other
      BY <1>10, <1>11, <2>2
    <3> QED BY <1>13, <3>1
  <2>3. CASE of(k) \notin top /\ of(l) \in top
    <3>1. of(F[k]) \notin other /\ of(F[l]) \in other
      BY <1>10, <1>11, <2>3
    <3> QED BY <1>13, <3>1
  <2>4. CASE of(k) \notin top /\ of(l) \notin top
    <3>1. of(k) \in A /\ of(l) \in A /\ g[of(k)] = g[of(l)]
      BY <1>10, <1>13, <2>4
    <3>2. of(k) = of(l)
      BY <1>5, <3>1
    <3>3. pair(of(k))[k] = pair(of(k))[l]
      BY <1>10, <1>13, <2>4, <3>2
    <3>4. k \in W(of(k)) /\ l \in W(of(k))
      BY <1>9, <3>2
    <3>5. good(pair(of(k)), of(k))
      BY <1>7, <3>1
    <3> QED BY <3>3, <3>4, <3>5
  <2> QED BY <2>1, <2>2, <2>3, <2>4
<1>14. F \in Injection(WordsOf(other), WordsOf(top))
  BY <1>12, <1>13, Fun_IsInj
<1> QED BY <1>1, <1>14, WordsFinite, FS_Injection

(* BaseDeltaComp's choice is the best: no other choice of as many bases    *)
(* occurs in more words, and compressed_count is how many words the chosen *)
(* ones occur in.                                                          *)
THEOREM TopBasesBestAlways == Spec => []TopBasesBest
<1>1. Compressing => TopBasesBest
  <2> SUFFICES ASSUME Compressing, pc \in {"bases", "encode", "returned"}
               PROVE  /\ compressed_count = Cardinality(WordsOf(Range(top_bases)))
                      /\ \A other \in SUBSET {BaseOf(data[k]) : k \in 1 .. Len(data)} :
                           Cardinality(other) <= NumBases =>
                             Cardinality(WordsOf(other)) <= compressed_count
    BY DEF TopBasesBest
  <2>1. compressed_count = Cardinality(WordsOf(Range(top_bases)))
    BY DEF Compressing, Chosen, Working
  <2> QED BY <2>1, NoBetterChoice
<1> QED BY <1>1, CompressingAlways, PTL

-----------------------------------------------------------------------------
(* Reading the stream *)

LEMMA HalfOf ==
  ASSUME NEW v \in Nat, NEW p \in Nat \ {0}
  PROVE  v \div p = (2 * (v \div (2 * p))) + ((v \div p) % 2)
<1> DEFINE d == v \div p
           r == v % p
           e == d \div 2
           f == d % 2
<1>1. d \in Nat /\ r \in 0 .. p - 1 /\ v = (p * d) + r
  BY DivMod
<1> HIDE DEF d, r
<1>2. e \in Nat /\ f \in {0, 1} /\ d = (2 * e) + f
  BY <1>1
<1> HIDE DEF e, f
<1>3. e * (2 * p) \in Nat /\ p * f \in {0, p} /\ p * d = e * (2 * p) + p * f
  BY <1>1, <1>2
<1> DEFINE b == 2 * p
           s == p * f + r
<1>4. b \in Nat \ {0} /\ s \in 0 .. b - 1
  BY <1>1, <1>3
<1>5. v = e * b + s
  <2> DEFINE x == p * d
             y == e * b
             z == p * f
  <2>1. x \in Nat /\ y \in Nat /\ z \in Nat /\ x = y + z /\ v = x + r
    BY <1>1, <1>3
  <2> HIDE DEF x, y, z
  <2>2. v = y + (z + r)
    BY <1>1, <2>1
  <2> QED BY <2>2 DEF y, z
<1> HIDE DEF s, b
<1>6. v \div b = e
  BY <1>2, <1>4, <1>5, Quotient
<1> QED BY <1>2, <1>6 DEF b, d, f

(* The bits of a number stand for it.                                      *)
LEMMA ValueBits ==
  ASSUME NEW w \in Nat, NEW v \in Nat, v < 2 ^ w, NEW from,
         \A k \in 1 .. w : written[from + k - 1] = Bits(v, w)[k]
  PROVE  ValueAt(from, w) = v
<1> DEFINE body(f) == [k \in 0 .. w |-> IF k = 0 THEN 0
                                        ELSE (2 * f[k - 1]) + written[from + k - 1]]
           g == [k \in 0 .. w |-> v \div 2 ^ (w - k)]
           value == CHOOSE f : f = body(f)
<1>1. ValueAt(from, w) = value[w]
  BY DEF ValueAt
<1>2. v \div 2 ^ w = 0 /\ 2 ^ 0 = 1 /\ v \div 1 = v
  <2> DEFINE p == 2 ^ w
  <2>1. p \in Nat \ {0} /\ v < p
    BY PowerNat
  <2> HIDE DEF p
  <2>2. v \div p = 0
    <3>1. 0 \in Nat /\ v \in 0 .. p - 1 /\ 0 * p + v = v
      BY <2>1
    <3> QED BY <2>1, <3>1, Quotient
  <2> QED BY <2>2 DEF p
<1>3. ASSUME NEW k \in 1 .. w
      PROVE  v \div 2 ^ (w - k) = (2 * (v \div 2 ^ (w - (k - 1)))) + written[from + k - 1]
  <2> DEFINE p == 2 ^ (w - k)
  <2>1. w - k \in Nat /\ (w - k) + 1 = w - (k - 1)
    OBVIOUS
  <2>2. p \in Nat \ {0} /\ 2 ^ (w - (k - 1)) = 2 * p
    <3>1. 2 ^ ((w - k) + 1) = 2 ^ (w - k) * 2 ^ 1
      BY <2>1, PowerSum
    <3>2. 2 ^ 1 = 2 /\ p \in Nat \ {0}
      BY <2>1, PowerNat
    <3> HIDE DEF p
    <3>3. 2 ^ ((w - k) + 1) = p * 2
      BY <3>1, <3>2 DEF p
    <3> QED BY <2>1, <3>2, <3>3
  <2>3. written[from + k - 1] = (v \div p) % 2
    BY DEF Bits
  <2> HIDE DEF p
  <2>4. v \div p = (2 * (v \div (2 * p))) + ((v \div p) % 2)
    BY <2>2, HalfOf
  <2> QED BY <2>2, <2>3, <2>4 DEF p
<1>4. g = body(g)
  <2>1. ASSUME NEW k \in 0 .. w PROVE g[k] = body(g)[k]
    <3>1. CASE k = 0
      <4>1. w - k = w
        BY <3>1
      <4> QED BY <1>2, <3>1, <4>1
    <3>2. CASE k # 0
      <4>1. k \in 1 .. w /\ k - 1 \in 0 .. w
        BY <3>2
      <4>2. g[k] = (2 * g[k - 1]) + written[from + k - 1]
        BY <1>3, <4>1
      <4> HIDE DEF g
      <4> QED BY <3>2, <4>2
    <3> QED BY <3>1, <3>2
  <2> QED BY <2>1
<1>5. value = body(value)
  <2> HIDE DEF g, body
  <2> QED BY <1>4
<1> HIDE DEF value
<1>6. ASSUME NEW k \in 0 .. w PROVE value[k] = g[k]
  <2> DEFINE S == {m \in Nat : m <= w /\ value[m] # g[m]}
  <2>1. ASSUME S # {} PROVE FALSE
    <3>1. PICK m \in S : \A y \in S : ~ (<<y, m>> \in OpToRel(<, Nat))
      BY <2>1, NatLessThanWellFounded, WFMin
    <3>2. m \in 0 .. w /\ value[m] # g[m]
      OBVIOUS
    <3>3. value[m] = body(value)[m] /\ g[m] = body(g)[m]
      BY <1>4, <1>5
    <3>4. m # 0
      <4> HIDE DEF g
      <4> QED BY <3>2, <3>3
    <3>5. m - 1 \in Nat /\ m - 1 <= w /\ m - 1 < m
      BY <3>2, <3>4
    <3>6. value[m - 1] = g[m - 1]
      <4>1. m - 1 \notin S
        BY <3>1, <3>5 DEF OpToRel
      <4> QED BY <3>5, <4>1
    <3> HIDE DEF g
    <3> QED BY <3>2, <3>3, <3>4, <3>6
  <2> QED BY <2>1
<1>7. g[w] = v
  <2>1. w \in 0 .. w /\ w - w = 0
    OBVIOUS
  <2> QED BY <1>2, <2>1
<1> HIDE DEF g
<1> QED BY <1>1, <1>6, <1>7

(* at tells where the code of every word begins that is in the stream.     *)
Laid(at) ==
  /\ at \in [0 .. n - 1 -> Nat] /\ at[0] = 1 /\ at[n - 1] = Len(written) + 1
  /\ \A k \in 1 .. n - 1 :
       /\ at[k] = at[k - 1] + Len(Code(data[k]))
       /\ \A j \in 1 .. Len(Code(data[k])) : written[at[k - 1] + j - 1] = Code(data[k])[j]

Readable == pc = "encode" => \E at : Laid(at)

(* One word more is behind the others, which stay where they are.          *)
LEMMA LaidMore ==
  ASSUME Compressing, pc = "encode", n <= Len(data), Emit(Code(data[n])), n' = n + 1,
         UNCHANGED <<data, top_bases>>, NEW at, Laid(at)
  PROVE  \E at2 : Laid(at2)'
<1> DEFINE code == Code(data[n])
           L    == Len(written)
           next == at[n - 1] + Len(code)
           at2  == [k \in 0 .. n |-> IF k = n THEN next ELSE at[k]]
<1>1. n \in Nat \ {0} /\ n \in 1 .. Len(data) /\ n' - 1 = n
  BY DEF Compressing, DeltaTypeOK
<1>2. \A k \in 1 .. n : data[k] \in Word
  BY <1>1, Lengths DEF Compressing
<1>3. \A k \in 1 .. n : Code(data[k]) \in Seq(Bit) /\ Len(Code(data[k])) \in Nat
  BY <1>2, CodeFacts DEF Compressing
<1>4. \A w : Code(w)' = Code(w)
  BY DEF Code, BaseIndex, Range
<1>5. written \in Seq(Bit) /\ written' = written \o code
  BY DEF Compressing, DeltaTypeOK, Emit
<1>6. code \in Seq(Bit)
  BY <1>1, <1>3
<1>7. /\ L \in Nat /\ Len(code) \in Nat /\ Len(written') = L + Len(code)
      /\ \A k \in 1 .. L : written'[k] = written[k]
      /\ \A k \in 1 .. Len(code) : written'[L + k] = code[k]
  <2> HIDE DEF code
  <2> QED BY <1>5, <1>6, ConcatParts
<1>8. /\ at \in [0 .. n - 1 -> Nat] /\ at[0] = 1 /\ at[n - 1] = L + 1
      /\ \A k \in 1 .. n - 1 :
           /\ at[k] = at[k - 1] + Len(Code(data[k]))
           /\ \A j \in 1 .. Len(Code(data[k])) : written[at[k - 1] + j - 1] = Code(data[k])[j]
  BY DEF Laid
<1>9. next = L + Len(code) + 1 /\ next \in Nat
  BY <1>7, <1>8
(* No word laid before reaches beyond the stream. *)
<1>10. \A k \in 0 .. n - 1 : at[k] <= L + 1 /\ at[k] >= 1
  <2> DEFINE S == {m \in Nat : m <= n - 1 /\ ~ (at[n - 1 - m] <= L + 1)}
             T == {m \in Nat : m <= n - 1 /\ ~ (at[m] >= 1)}
  <2>1. ASSUME S # {} PROVE FALSE
    <3>1. PICK m \in S : \A y \in S : ~ (<<y, m>> \in OpToRel(<, Nat))
      BY <2>1, NatLessThanWellFounded, WFMin
    <3>2. m \in Nat /\ m <= n - 1 /\ ~ (at[n - 1 - m] <= L + 1)
      OBVIOUS
    <3>3. m # 0
      <4>1. ASSUME m = 0 PROVE FALSE
        <5>1. n - 1 - m = n - 1
          BY <1>1, <4>1
        <5> QED BY <1>7, <1>8, <3>2, <5>1
      <4> QED BY <4>1
    <3>4. m - 1 \in Nat /\ m - 1 <= n - 1 /\ m - 1 < m
      BY <1>1, <3>2, <3>3
    <3> DEFINE k == n - (m - 1) - 1
    <3>5. k \in 1 .. n - 1 /\ k = n - 1 - (m - 1) /\ k - 1 = n - 1 - m
      BY <1>1, <3>2, <3>3
    <3>6. at[k] <= L + 1
      <4>1. m - 1 \notin S
        BY <3>1, <3>4 DEF OpToRel
      <4> QED BY <3>4, <3>5, <4>1
    <3> HIDE DEF k
    <3>7. at[k] = at[k - 1] + Len(Code(data[k])) /\ at[k - 1] \in Nat /\ Len(Code(data[k])) \in Nat
      BY <1>1, <1>3, <1>8, <3>5
    <3>8. at[k - 1] <= L + 1
      BY <1>7, <3>6, <3>7
    <3> QED BY <3>2, <3>5, <3>8
  <2>2. ASSUME T # {} PROVE FALSE
    <3>1. PICK m \in T : \A y \in T : ~ (<<y, m>> \in OpToRel(<, Nat))
      BY <2>2, NatLessThanWellFounded, WFMin
    <3>2. m \in Nat /\ m <= n - 1 /\ ~ (at[m] >= 1) /\ m # 0
      BY <1>8
    <3>3. m - 1 \in Nat /\ m - 1 <= n - 1 /\ m - 1 < m /\ m \in 1 .. n - 1
      BY <1>1, <3>2
    <3>4. at[m - 1] >= 1
      <4>1. m - 1 \notin T
        BY <3>1, <3>3 DEF OpToRel
      <4> QED BY <3>3, <4>1
    <3>5. at[m] = at[m - 1] + Len(Code(data[m])) /\ at[m - 1] \in Nat /\ Len(Code(data[m])) \in Nat
      BY <1>1, <1>3, <1>8, <3>3
    <3> QED BY <3>2, <3>4, <3>5
  <2> SUFFICES ASSUME NEW k \in 0 .. n - 1 PROVE at[k] <= L + 1 /\ at[k] >= 1
    OBVIOUS
  <2>3. k \in Nat /\ k <= n - 1 /\ n - 1 - k \in Nat /\ n - 1 - k <= n - 1 /\ n - 1 - (n - 1 - k) = k
    BY <1>1
  <2>4. k \notin T /\ n - 1 - k \notin S
    BY <2>1, <2>2
  <2> QED BY <2>3, <2>4
<1> HIDE DEF code, next, L
<1>11. at2 \in [0 .. n -> Nat] /\ at2[0] = 1 /\ at2[n] = Len(written') + 1
  BY <1>1, <1>7, <1>8, <1>9
<1>12. ASSUME NEW k \in 1 .. n
       PROVE  /\ at2[k] = at2[k - 1] + Len(Code(data[k]))
              /\ \A j \in 1 .. Len(Code(data[k])) : written'[at2[k - 1] + j - 1] = Code(data[k])[j]
  <2>1. CASE k = n
    <3>1. /\ at2[k] = next /\ k - 1 \in 0 .. n /\ k - 1 # n /\ at2[k - 1] = at[n - 1]
          /\ Code(data[k]) = code
      BY <1>1, <2>1 DEF code
    <3>2. at2[k - 1] = L + 1 /\ at2[k] = at2[k - 1] + Len(code)
      BY <1>8, <3>1 DEF L, next
    <3>3. \A j \in 1 .. Len(code) : at2[k - 1] + j - 1 = L + j
      BY <1>7, <3>2
    <3> HIDE DEF at2
    <3> QED BY <1>7, <3>1, <3>2, <3>3
  <2>2. CASE k # n
    <3>1. k \in 1 .. n - 1 /\ k - 1 \in 0 .. n - 1 /\ k \in 0 .. n - 1
      BY <1>1, <2>2
    <3>2. at2[k] = at[k] /\ at2[k - 1] = at[k - 1]
      BY <1>1, <2>2, <3>1
    <3>3. /\ at[k] = at[k - 1] + Len(Code(data[k]))
          /\ \A j \in 1 .. Len(Code(data[k])) : written[at[k - 1] + j - 1] = Code(data[k])[j]
      BY <1>8, <3>1
    <3>4. /\ at[k - 1] \in Nat /\ at[k - 1] >= 1 /\ at[k] <= L + 1 /\ Len(Code(data[k])) \in Nat
      BY <1>3, <1>8, <1>10, <3>1
    <3>5. \A j \in 1 .. Len(Code(data[k])) : at[k - 1] + j - 1 \in 1 .. L
      <4> DEFINE c == Len(Code(data[k]))
      <4>1. c \in Nat /\ at[k - 1] \in Nat /\ at[k - 1] >= 1 /\ at[k - 1] + c <= L + 1 /\ L \in Nat
        BY <1>7, <3>3, <3>4
      <4> HIDE DEF c, at2
      <4>2. \A j \in 1 .. c : at[k - 1] + j - 1 \in 1 .. L
        BY ONLY <4>1
      <4> QED BY <4>2 DEF c
    <3> HIDE DEF at2
    <3> QED BY <1>7, <3>2, <3>3, <3>5
  <2> QED BY <2>1, <2>2
<1> HIDE DEF at2
<1>13. PICK f : f = at2
  OBVIOUS
<1>14. Laid(f)'
  <2>1. f \in [0 .. n' - 1 -> Nat] /\ f[0] = 1 /\ f[n' - 1] = Len(written') + 1
    BY <1>1, <1>11, <1>13
  <2>2. ASSUME NEW k \in 1 .. n' - 1
        PROVE  /\ f[k] = f[k - 1] + Len(Code(data[k])')
               /\ \A j \in 1 .. Len(Code(data[k])') :
                    written'[f[k - 1] + j - 1] = Code(data[k])'[j]
    <3>1. Code(data[k])' = Code(data[k])
      BY DEF Code, BaseIndex, Range
    <3> QED BY <1>1, <1>12, <1>13, <3>1
  <2> QED BY <2>1, <2>2 DEF Laid
<1> QED BY <1>14

LEMMA ReadableStep == Compressing /\ Readable /\ [Next]_vars => Readable'
<1> SUFFICES ASSUME Compressing, Readable, [Next]_vars, pc' = "encode" PROVE \E at : Laid(at)'
  BY DEF Readable
<1>1. CASE EncodeCompressed \/ EncodeRaw
  <2>1. /\ pc = "encode" /\ n <= Len(data) /\ Emit(Code(data[n])) /\ n' = n + 1
        /\ UNCHANGED <<data, top_bases>>
    BY <1>1 DEF EncodeCompressed, EncodeRaw, rankVars
  <2>2. PICK at : Laid(at)
    BY <2>1 DEF Readable
  <2> QED BY <2>1, <2>2, LaidMore
<1>2. CASE CopyBase
  <2>1. n' = 1 /\ written' = <<>>
    <3>1. pc = "bases" /\ n' = 1 /\ written' = written
      BY <1>2 DEF CopyBase, streamVars
    <3> QED BY <3>1 DEF Compressing, Streamed
  <2> DEFINE at == [k \in 0 .. 0 |-> 1]
  <2>2. at \in [0 .. 0 -> Nat] /\ at[0] = 1 /\ Len(<<>>) = 0 /\ n' - 1 = 0
    BY <2>1
  <2> HIDE DEF at
  <2>3. Laid(at)'
    BY <2>1, <2>2 DEF Laid
  <2> QED BY <2>3
<1>3. CASE UNCHANGED vars
  <2>1. pc = "encode" /\ UNCHANGED <<n, written, data, top_bases>>
    BY <1>3 DEF vars, streamVars, rankVars
  <2>2. PICK at : Laid(at)
    BY <2>1 DEF Readable
  <2>3. PICK f : f = at
    OBVIOUS
  <2>4. /\ f \in [0 .. n - 1 -> Nat] /\ f[0] = 1 /\ f[n - 1] = Len(written) + 1
        /\ \A k \in 1 .. n - 1 :
             /\ f[k] = f[k - 1] + Len(Code(data[k]))
             /\ \A j \in 1 .. Len(Code(data[k])) : written[f[k - 1] + j - 1] = Code(data[k])[j]
    BY <2>2, <2>3 DEF Laid
  <2>5. f \in [0 .. n' - 1 -> Nat] /\ f[0] = 1 /\ f[n' - 1] = Len(written') + 1
    BY <2>1, <2>4
  <2>6. ASSUME NEW k \in 1 .. n' - 1
        PROVE  /\ f[k] = f[k - 1] + Len(Code(data[k])')
               /\ \A j \in 1 .. Len(Code(data[k])') :
                    written'[f[k - 1] + j - 1] = Code(data[k])'[j]
    <3>1. Code(data[k])' = Code(data[k])
      BY <2>1 DEF Code, BaseIndex, Range
    <3> QED BY <2>1, <2>4, <3>1
  <2>7. Laid(f)'
    BY <2>5, <2>6 DEF Laid
  <2> QED BY <2>7
<1>4. ~ (Prepare \/ CopyPages \/ ScanKnown \/ ScanNew \/ SortBases \/ ChooseBase \/ SizeUp
         \/ Flush \/ AddSlots \/ Finish)
  BY DEF Prepare, CopyPages, ScanKnown, ScanNew, SortBases, ChooseBase, SizeUp, Flush,
         AddSlots, Finish
<1> QED BY <1>1, <1>2, <1>3, <1>4 DEF Next

(* A word whose code begins at from is read there. *)
LEMMA WordRead ==
  ASSUME Compressing, pc = "encode", NEW w \in Word, NEW from \in Nat,
         \A j \in 1 .. Len(Code(w)) : written[from + j - 1] = Code(w)[j]
  PROVE  WidthAt(from) = Len(Code(w)) /\ WordAt(from) = w
<1> USE SizeFacts
<1>0. w \in Nat /\ w < 2 ^ WordBits /\ Code(w) \in Seq(Bit)
  BY PowerNat, CodeFacts DEF Word, Compressing
<1>1. CASE BaseOf(w) \in Range(top_bases)
  <2> DEFINE i == BaseIndex(BaseOf(w))
             a == Bits(i, LogBases)
             b == Bits(LowOf(w), LowBits)
  <2>1. i \in Nat /\ i < NumBases /\ top_bases[i + 1] = BaseOf(w)
    <3>1. \E k \in DOMAIN top_bases : top_bases[k] = BaseOf(w)
      BY <1>1 DEF Range
    <3>2. PICK k \in DOMAIN top_bases : i = k - 1 /\ top_bases[k] = BaseOf(w)
      BY <3>1 DEF BaseIndex
    <3>3. Len(top_bases) \in Nat /\ Len(top_bases) <= NumBases /\ k \in 1 .. Len(top_bases)
      BY <3>2, Lengths DEF Compressing, Chosen, Working
    <3>4. i + 1 = k
      BY <3>2, <3>3
    <3> HIDE DEF i
    <3> QED BY <3>2, <3>3, <3>4
  <2> HIDE DEF i
  <2>2. LowOf(w) \in Nat /\ LowOf(w) < 2 ^ LowBits /\ w = (2 ^ LowBits * BaseOf(w)) + LowOf(w)
        /\ BaseOf(w) \in Nat
    <3> DEFINE p == 2 ^ LowBits
    <3>1. p \in Nat \ {0}
      OBVIOUS
    <3> HIDE DEF p
    <3>2. w \div p \in Nat /\ w % p \in 0 .. p - 1 /\ w = (p * (w \div p)) + (w % p)
      BY <1>0, <3>1, DivMod
    <3> QED BY <3>1, <3>2 DEF LowOf, BaseOf, p
  <2>3. a \in Seq(Bit) /\ Len(a) = LogBases /\ b \in Seq(Bit) /\ Len(b) = LowBits
    BY <2>1, <2>2, BitsFacts
  <2>4. Code(w) = <<1>> \o a \o b
    BY <1>1 DEF Code, i
  <2> HIDE DEF a, b
  <2>5. /\ Len(Code(w)) = 1 + LogBases + LowBits /\ Code(w)[1] = 1
        /\ \A k \in 1 .. LogBases : Code(w)[1 + k] = a[k]
        /\ \A k \in 1 .. LowBits : Code(w)[1 + LogBases + k] = b[k]
    <3>1. <<1>> \in Seq(Bit) /\ Len(<<1>>) = 1 /\ <<1>>[1] = 1
      BY DEF Bit
    <3> DEFINE u == <<1>> \o a
    <3>2. /\ u \in Seq(Bit) /\ Len(u) = 1 + LogBases /\ u[1] = 1
          /\ \A k \in 1 .. LogBases : u[1 + k] = a[k]
      <4> DEFINE z == <<1>>
      <4>1. z \in Seq(Bit) /\ Len(z) = 1 /\ z[1] = 1 /\ 1 \in 1 .. Len(z)
        BY <3>1
      <4> HIDE DEF z
      <4>2. /\ z \o a \in Seq(Bit) /\ Len(z \o a) = Len(z) + Len(a)
            /\ \A k \in 1 .. Len(z) : (z \o a)[k] = z[k]
            /\ \A k \in 1 .. Len(a) : (z \o a)[Len(z) + k] = a[k]
        <5>1. z \in Seq(Bit) /\ a \in Seq(Bit)
          BY ONLY <2>3, <4>1
        <5> QED BY ONLY <5>1, ConcatParts
      <4> QED BY <2>3, <4>1, <4>2 DEF z
    <3> HIDE DEF u
    <3>3. /\ u \o b \in Seq(Bit) /\ Len(u \o b) = Len(u) + Len(b)
          /\ \A k \in 1 .. Len(u) : (u \o b)[k] = u[k]
          /\ \A k \in 1 .. Len(b) : (u \o b)[Len(u) + k] = b[k]
      <4>1. u \in Seq(Bit) /\ b \in Seq(Bit)
        BY ONLY <2>3, <3>2
      <4> QED BY ONLY <4>1, ConcatParts
    <3>4. Code(w) = u \o b
      BY <2>4 DEF u
    <3>5. 1 \in 1 .. Len(u) /\ \A k \in 1 .. LogBases : 1 + k \in 1 .. Len(u)
      BY <3>2
    <3> QED BY <2>3, <3>2, <3>3, <3>4, <3>5
  <2>6. \A j \in 1 .. 1 + LogBases + LowBits : written[from + j - 1] = Code(w)[j]
    BY <2>5
  <2>7. written[from] = 1
    <3>1. 1 \in 1 .. 1 + LogBases + LowBits /\ from + 1 - 1 = from
      OBVIOUS
    <3>2. written[from + 1 - 1] = Code(w)[1]
      BY <2>6, <3>1
    <3> QED BY <2>5, <3>1, <3>2
  <2>8. ValueAt(from + 1, LogBases) = i
    <3>1. \A k \in 1 .. LogBases : written[(from + 1) + k - 1] = Bits(i, LogBases)[k]
      <4> SUFFICES ASSUME NEW k \in 1 .. LogBases
                   PROVE  written[(from + 1) + k - 1] = Bits(i, LogBases)[k]
        OBVIOUS
      <4>1. 1 + k \in 1 .. 1 + LogBases + LowBits /\ from + (1 + k) - 1 = (from + 1) + k - 1
        OBVIOUS
      <4>2. written[from + (1 + k) - 1] = Code(w)[1 + k]
        BY <2>6, <4>1
      <4> QED BY <2>5, <4>1, <4>2 DEF a
    <3>2. i \in Nat /\ i < 2 ^ LogBases /\ LogBases \in Nat
      BY <2>1, SizeAssumption DEF NumBases
    <3> QED BY ONLY <3>1, <3>2, ValueBits
  <2>9. ValueAt(from + 1 + LogBases, LowBits) = LowOf(w)
    <3>1. \A k \in 1 .. LowBits :
            written[(from + 1 + LogBases) + k - 1] = Bits(LowOf(w), LowBits)[k]
      <4> SUFFICES ASSUME NEW k \in 1 .. LowBits
                   PROVE  written[(from + 1 + LogBases) + k - 1] = Bits(LowOf(w), LowBits)[k]
        OBVIOUS
      <4>1. /\ 1 + LogBases + k \in 1 .. 1 + LogBases + LowBits
            /\ from + (1 + LogBases + k) - 1 = (from + 1 + LogBases) + k - 1
        OBVIOUS
      <4>2. written[from + (1 + LogBases + k) - 1] = Code(w)[1 + LogBases + k]
        BY <2>6, <4>1
      <4> QED BY <2>5, <4>1, <4>2 DEF b
    <3>2. LowOf(w) \in Nat /\ LowOf(w) < 2 ^ LowBits /\ LowBits \in Nat
      BY <2>2, SizeAssumption
    <3> QED BY ONLY <3>1, <3>2, ValueBits
  <2>10. WordAt(from) = w
    <3>1. WordAt(from) = BaseOf(w) * 2 ^ LowBits + LowOf(w)
      BY <2>1, <2>7, <2>8, <2>9 DEF WordAt
    <3> DEFINE p == 2 ^ LowBits
    <3>2. p \in Nat
      OBVIOUS
    <3> HIDE DEF p
    <3>3. BaseOf(w) * p = p * BaseOf(w)
      BY <2>2, <3>2
    <3> QED BY <2>2, <3>1, <3>3 DEF p
  <2> QED BY <2>5, <2>7, <2>10 DEF WidthAt
<1>2. CASE BaseOf(w) \notin Range(top_bases)
  <2> DEFINE b == Bits(w, WordBits)
  <2>1. b \in Seq(Bit) /\ Len(b) = WordBits
    BY <1>0, BitsFacts
  <2>2. Code(w) = <<0>> \o b
    BY <1>2 DEF Code
  <2> HIDE DEF b
  <2>3. /\ Len(Code(w)) = 1 + WordBits /\ Code(w)[1] = 0
        /\ \A k \in 1 .. WordBits : Code(w)[1 + k] = b[k]
    <3> DEFINE z == <<0>>
    <3>1. z \in Seq(Bit) /\ Len(z) = 1 /\ z[1] = 0 /\ 1 \in 1 .. Len(z)
      BY DEF Bit
    <3> HIDE DEF z
    <3>2. /\ z \o b \in Seq(Bit) /\ Len(z \o b) = Len(z) + Len(b)
          /\ \A k \in 1 .. Len(z) : (z \o b)[k] = z[k]
          /\ \A k \in 1 .. Len(b) : (z \o b)[Len(z) + k] = b[k]
      <4>1. z \in Seq(Bit) /\ b \in Seq(Bit)
        BY ONLY <2>1, <3>1
      <4> QED BY ONLY <4>1, ConcatParts
    <3> QED BY <2>1, <2>2, <3>1, <3>2 DEF z
  <2>4. written[from] = 0
    <3>1. 1 \in 1 .. Len(Code(w)) /\ from + 1 - 1 = from
      BY <2>3
    <3>2. written[from + 1 - 1] = Code(w)[1]
      BY <3>1
    <3> QED BY <2>3, <3>1, <3>2
  <2>5. ValueAt(from + 1, WordBits) = w
    <3>1. \A k \in 1 .. WordBits : written[(from + 1) + k - 1] = Bits(w, WordBits)[k]
      <4> SUFFICES ASSUME NEW k \in 1 .. WordBits
                   PROVE  written[(from + 1) + k - 1] = Bits(w, WordBits)[k]
        OBVIOUS
      <4>1. 1 + k \in 1 .. Len(Code(w)) /\ from + (1 + k) - 1 = (from + 1) + k - 1
        BY <2>3
      <4>2. written[from + (1 + k) - 1] = Code(w)[1 + k]
        BY <4>1
      <4> QED BY <2>3, <4>1, <4>2 DEF b
    <3> QED BY <1>0, <3>1, ValueBits
  <2> QED BY <2>3, <2>4, <2>5 DEF WidthAt, WordAt
<1> QED BY <1>1, <1>2

(* The reader is where the words were written.                             *)
LEMMA BehindIs ==
  ASSUME Compressing, pc = "encode", NEW at, Laid(at)
  PROVE  \A k \in 0 .. n - 1 : Behind[k] = at[k]
<1> DEFINE body(f) == [k \in 0 .. n - 1 |-> IF k = 0 THEN 1 ELSE f[k - 1] + WidthAt(f[k - 1])]
<1>0. n \in Nat \ {0} /\ n - 1 \in Nat /\ n <= Len(data) + 1 /\ Len(data) \in Nat
  BY Lengths DEF Compressing, DeltaTypeOK, Streamed
<1>1. Behind = CHOOSE f : f = body(f)
  BY DEF Behind
<1>2. at = body(at)
  <2>1. at = [k \in 0 .. n - 1 |-> at[k]] /\ at[0] = 1
    BY DEF Laid
  <2>2. ASSUME NEW k \in 1 .. n - 1 PROVE at[k] = at[k - 1] + WidthAt(at[k - 1])
    <3>1. at[k - 1] \in Nat
      <4>1. k - 1 \in 0 .. n - 1
        BY <1>0
      <4> QED BY <4>1 DEF Laid
    <3>2. /\ at[k] = at[k - 1] + Len(Code(data[k]))
          /\ \A j \in 1 .. Len(Code(data[k])) : written[at[k - 1] + j - 1] = Code(data[k])[j]
      BY DEF Laid
    <3>3. data[k] \in Word
      BY <1>0, Lengths DEF Compressing
    <3> QED BY <3>1, <3>2, <3>3, WordRead
  <2>3. \A k \in 0 .. n - 1 : k = 0 \/ k \in 1 .. n - 1
    BY <1>0
  <2>4. \A k \in 0 .. n - 1 : at[k] = IF k = 0 THEN 1 ELSE at[k - 1] + WidthAt(at[k - 1])
    BY <2>1, <2>2, <2>3
  <2> QED BY <2>1, <2>4
<1>3. Behind = body(Behind)
  <2> HIDE DEF body
  <2> QED BY <1>1, <1>2
<1> DEFINE S == {m \in Nat : m <= n - 1 /\ Behind[m] # at[m]}
<1>4. ASSUME S # {} PROVE FALSE
  <2>1. PICK m \in S : \A y \in S : ~ (<<y, m>> \in OpToRel(<, Nat))
    BY <1>4, NatLessThanWellFounded, WFMin
  <2>2. m \in 0 .. n - 1 /\ Behind[m] # at[m]
    BY <1>0
  <2>3. Behind[m] = body(Behind)[m] /\ at[m] = body(at)[m]
    BY <1>2, <1>3
  <2>4. m # 0
    BY <2>2, <2>3
  <2>5. m - 1 \in Nat /\ m - 1 <= n - 1 /\ m - 1 < m
    BY <1>0, <2>2, <2>4
  <2>6. Behind[m - 1] = at[m - 1]
    <3>1. m - 1 \notin S
      BY <2>1, <2>5 DEF OpToRel
    <3> QED BY <2>5, <3>1
  <2> QED BY <2>2, <2>3, <2>4, <2>6
<1> QED BY <1>0, <1>4

(* The stream decodes, at any time, to the words encoded so far: from the  *)
(* flags alone a reader finds where every word begins, and from the chosen *)
(* bases what it is.                                                       *)
THEOREM StreamDecodesAlways == Spec => []StreamDecodes
<1>1. Init => Readable
  BY DEF Init, Readable
<1>2. Compressing /\ Readable => StreamDecodes
  <2> SUFFICES ASSUME Compressing, Readable, pc = "encode"
               PROVE  /\ Behind[n - 1] = Len(written) + 1
                      /\ \A k \in 1 .. n - 1 : WordAt(Behind[k - 1]) = data[k]
    BY DEF StreamDecodes
  <2>0. n \in Nat \ {0} /\ n <= Len(data) + 1 /\ Len(data) \in Nat
    BY Lengths DEF Compressing, DeltaTypeOK, Streamed
  <2>1. PICK at : Laid(at)
    BY DEF Readable
  <2>2. \A k \in 0 .. n - 1 : Behind[k] = at[k]
    BY <2>1, BehindIs
  <2>3. Behind[n - 1] = Len(written) + 1
    BY <2>0, <2>1, <2>2 DEF Laid
  <2>4. ASSUME NEW k \in 1 .. n - 1 PROVE WordAt(Behind[k - 1]) = data[k]
    <3>1. k - 1 \in 0 .. n - 1 /\ Behind[k - 1] = at[k - 1] /\ at[k - 1] \in Nat
      BY <2>0, <2>1, <2>2 DEF Laid
    <3>2. \A j \in 1 .. Len(Code(data[k])) : written[at[k - 1] + j - 1] = Code(data[k])[j]
      BY <2>1 DEF Laid
    <3>3. data[k] \in Word
      BY <2>0, Lengths DEF Compressing
    <3> QED BY <3>1, <3>2, <3>3, WordRead
  <2> QED BY <2>3, <2>4
<1> QED BY <1>1, <1>2, CompressingAlways, CompressingInit, ReadableStep, PTL DEF Spec
=============================================================================

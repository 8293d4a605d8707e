----------------------------- MODULE LZOProofs -----------------------------
(***************************************************************************)
(* Proofs, for every page, hash function and limits of the format, of what *)
(* module LZODecompress claims of both halves of the LZO codec.            *)
(*                                                                         *)
(* Positions is where the compressor is in the page.  Tape is the block as *)
(* it is written: Written reads it as a list of instructions, each Sound,  *)
(* that is one for this page, and Stored, that is in the block byte by     *)
(* byte.  Literals that go into an earlier instruction change the last     *)
(* element of the list.  Decoding is the decoder, which is always at an    *)
(* instruction of that list, with the part of the page before it decoded.  *)
(* So the block never has to be read by a recursive definition.            *)
(***************************************************************************)
EXTENDS LZODecompress, FiniteSetTheorems, SequenceTheorems, WellFoundedInduction, TLAPS

-----------------------------------------------------------------------------
(* Numbers *)

(* A set of natural numbers that is not empty has a least one.             *)
LEMMA MinOf ==
  ASSUME NEW S, S \subseteq Nat, S # {}
  PROVE  Min(S) \in S /\ \A y \in S : Min(S) <= y
<1>1. PICK x \in S : \A y \in S : ~ (<<y, x>> \in OpToRel(<, Nat))
  BY NatLessThanWellFounded, WFMin
<1>2. \A y \in S : x <= y
  <2>1. \A y \in S : ~ (y < x)
    BY <1>1 DEF OpToRel
  <2> QED BY <2>1
<1> QED BY <1>2 DEF Min

LEMMA MinOfTwo ==
  ASSUME NEW a \in Nat, NEW b \in Nat
  PROVE  Min({a, b}) = IF a <= b THEN a ELSE b
<1>1. Min({a, b}) \in {a, b} /\ \A y \in {a, b} : Min({a, b}) <= y
  BY MinOf
<1> QED BY <1>1

LEMMA MaxOfTwo ==
  ASSUME NEW a \in Int, NEW b \in Int
  PROVE  Max({a, b}) = IF a >= b THEN a ELSE b
<1>1. CASE a >= b
  <2>1. Max({a, b}) \in {a, b} /\ \A y \in {a, b} : Max({a, b}) >= y
    BY <1>1 DEF Max
  <2> QED BY <1>1, <2>1
<1>2. CASE ~ (a >= b)
  <2>1. Max({a, b}) \in {a, b} /\ \A y \in {a, b} : Max({a, b}) >= y
    BY <1>2 DEF Max
  <2> QED BY <1>2, <2>1
<1> QED BY <1>1, <1>2

(* FirstFailure is where the comparison stops: nothing fails before.       *)
LEMMA FirstFailureIs ==
  ASSUME NEW limit \in Nat, NEW F, F \subseteq 0 .. limit - 1
  PROVE  /\ FirstFailure(limit, F) \in 0 .. limit
         /\ FirstFailure(limit, F) \in F \cup {limit}
         /\ \A n \in 0 .. FirstFailure(limit, F) - 1 : n \notin F
<1> DEFINE S == F \cup {limit}
<1>1. S \subseteq Nat /\ S # {} /\ S \subseteq 0 .. limit
  OBVIOUS
<1> HIDE DEF S
<1>2. Min(S) \in S /\ \A y \in S : Min(S) <= y
  BY <1>1, MinOf
<1>3. FirstFailure(limit, F) = Min(S)
  BY DEF FirstFailure, S, Min
<1>4. \A n \in 0 .. Min(S) - 1 : n \notin S
  <2> DEFINE m == Min(S)
  <2>1. m \in Nat /\ \A y \in S : m <= y
    BY <1>1, <1>2
  <2> HIDE DEF m
  <2>2. \A n \in 0 .. m - 1 : n \notin S
    BY <1>1, <2>1
  <2> QED BY <2>2 DEF m
<1> QED BY <1>1, <1>2, <1>3, <1>4 DEF S

LEMMA PowerNat == ASSUME NEW k \in Nat PROVE 2 ^ k \in Nat \ {0}
<1>1. IsFiniteSet(1 .. k) /\ Cardinality(1 .. k) = k
  BY FS_Interval
<1>2. IsFiniteSet(SUBSET (1 .. k)) /\ Cardinality(SUBSET (1 .. k)) = 2 ^ k
  BY <1>1, FS_SUBSET
<1>3. SUBSET (1 .. k) # {}
  OBVIOUS
<1> QED BY <1>2, <1>3, FS_CardinalityType, FS_EmptySet

LEMMA DivMod ==
  ASSUME NEW x \in Nat, NEW d \in Nat \ {0}
  PROVE  /\ x \div d \in Nat /\ x % d \in 0 .. d - 1
         /\ x = (d * (x \div d)) + (x % d)
  OBVIOUS

LEMMA BytesAreNumbers == \A x \in Bytes : x \in Nat /\ x <= 255
  BY DEF Bytes

LEMMA LowByte ==
  \A x \in 0 .. 252 : x + 0 = x /\ \A t \in 1 .. 3 : x + t \in Bytes
  BY DEF Bytes

LEMMA SameInterval ==
  ASSUME NEW a \in Nat, NEW b \in Nat, 1 .. a = 1 .. b
  PROVE  a = b
<1>1. CASE a < b
  <2>1. b \in 1 .. b /\ b \notin 1 .. a
    BY <1>1
  <2> QED BY <2>1
<1>2. CASE b < a
  <2>1. a \in 1 .. a /\ a \notin 1 .. b
    BY <1>2
  <2> QED BY <2>1
<1> QED BY <1>1, <1>2

-----------------------------------------------------------------------------
(* Sequences *)

(* What a concatenation is.                                                *)
LEMMA ConcatIs ==
  ASSUME NEW S, NEW a \in Seq(S), NEW b \in Seq(S)
  PROVE  /\ Len(a) \in Nat /\ Len(b) \in Nat
         /\ a \o b \in Seq(S) /\ Len(a \o b) = Len(a) + Len(b)
         /\ \A k \in 1 .. Len(a) : (a \o b)[k] = a[k]
         /\ \A k \in 1 .. Len(b) : (a \o b)[Len(a) + k] = b[k]
  BY ConcatProperties

(* len elements after the first m of a sequence.                           *)
LEMMA PartOf ==
  ASSUME NEW S, NEW s \in Seq(S), NEW m \in Nat, NEW len \in Nat, m + len <= Len(s)
  PROVE  /\ SubSeq(s, m + 1, m + len) \in Seq(S)
         /\ Len(SubSeq(s, m + 1, m + len)) = len
         /\ \A j \in 1 .. len : SubSeq(s, m + 1, m + len)[j] = s[m + j]
<1> DEFINE u == SubSeq(s, m + 1, m + len)
<1>1. \A i \in m + 1 .. m + len : s[i] \in S
  BY ElementOfSeq
<1>2. m + 1 \in Int /\ m + len \in Int
  OBVIOUS
<1>3. /\ u \in Seq(S)
      /\ Len(u) = IF m + 1 <= m + len THEN (m + len) - (m + 1) + 1 ELSE 0
      /\ \A i \in 1 .. (m + len) - (m + 1) + 1 : u[i] = s[(m + 1) + i - 1]
  BY <1>1, <1>2, SubSeqProperties
<1> HIDE DEF u
<1>4. Len(u) = len
  BY <1>3
<1>5. \A j \in 1 .. len : u[j] = s[m + j]
  <2>1. (m + len) - (m + 1) + 1 = len /\ \A j \in 1 .. len : (m + 1) + j - 1 = m + j
    OBVIOUS
  <2> QED BY <1>3, <2>1
<1> QED BY <1>3, <1>4, <1>5 DEF u

-----------------------------------------------------------------------------
(* Where the compressor is in the page *)

LEMMA FormatFacts ==
  /\ M2_MAX_OFFSET \in Nat /\ M3_MAX_OFFSET \in Nat
  /\ M2_MAX_OFFSET >= 1 /\ M2_MAX_OFFSET <= 2048
  /\ M2_MAX_OFFSET <= M3_MAX_OFFSET /\ M3_MAX_OFFSET <= 16384
  /\ M3_MAX_LEN \in Nat /\ M4_MAX_LEN \in Nat
  /\ M2_MAX_LEN = 8 /\ M3_MAX_LEN \in 8 .. 33 /\ M4_MAX_LEN \in 8 .. 9
  /\ M3_MARKER = 32 /\ M4_MARKER = 16 /\ Margin = 20
  /\ RunByte \in 16 .. 255 /\ FirstRunMax \in 4 .. 238
  /\ ChunkSize \in Nat /\ ChunkSize >= 21 /\ ChunkSize <= M3_MAX_OFFSET + 32768
  /\ SkipShift \in Nat
  BY LZOAssumption DEF M2_MAX_LEN, M3_MARKER, M4_MARKER, Margin

(* The search runs ahead of the first byte that is not encoded yet, within *)
(* a chunk, and has seen positions of this chunk only.  The first match of *)
(* a page is preceded by literals.                                         *)
Positions ==
  /\ src \in Seq(Bytes) /\ in_len > 0
  /\ pc \in {"chunk", "search", "literals", "match", "compressed"}
  /\ in \in 0 .. in_len /\ in_end \in in .. in_len /\ m_pos \in 0 .. in_len
  /\ ip \in Nat /\ ii \in 0 .. in_len /\ ti \in 0 .. in_len
  /\ \A h \in DOMAIN dict : dict[h] \in 0 .. in_len
  /\ pc = "chunk" => ti <= in
  /\ pc \in {"search", "literals", "match"} =>
       /\ in_end - in \in 1 .. ChunkSize
       /\ ii \in in .. in_end /\ ti <= ii /\ ii <= ip /\ in < ip
       /\ \A h \in DOMAIN dict : /\ in <= dict[h] /\ dict[h] <= ip
                                 /\ pc = "search" => dict[h] < ip
  /\ pc \in {"literals", "match"} =>
       m_pos \in in .. ip - 1 /\ ip < ip_end /\ dv(m_pos) = dv(ip)
  /\ pc = "match" => ti = 0

LEMMA SkippedIs ==
  ASSUME NEW p \in Nat, NEW start \in Nat, start <= p
  PROVE  Skipped(p, start) \in Nat /\ Skipped(p, start) > p
<1>1. p - start \in Nat /\ 2 ^ SkipShift \in Nat \ {0}
  BY PowerNat, FormatFacts
<1>2. (p - start) \div 2 ^ SkipShift \in Nat
  BY <1>1, DivMod
<1> QED BY <1>2 DEF Skipped

LEMMA PositionsInit == CompressInit => Positions
<1> SUFFICES ASSUME CompressInit PROVE Positions
  OBVIOUS
<1>1. src \in Seq(Bytes) /\ Len(src) > 0 /\ Len(src) \in Nat
  <2>1. src \in Seq(Bytes) /\ src # <<>>
    BY LZOPageAssumption DEF CompressInit
  <2> QED BY <2>1
<1> QED BY <1>1 DEF CompressInit, Positions, in_len

LEMMA NextChunkPositions == Positions /\ NextChunk => Positions'
<1> SUFFICES ASSUME Positions, NextChunk PROVE Positions'
  OBVIOUS
<1>1. /\ in_len \in Nat /\ in \in Nat /\ ti \in Nat /\ in_len - in > 20 /\ in_len - in \in Nat
      /\ ChunkSize \in Nat /\ ChunkSize >= 21
  BY FormatFacts DEF Positions, NextChunk, ChunkAhead, in_len
<1>2. ll \in 21 .. in_len - in /\ ll <= ChunkSize
  BY <1>1, MinOfTwo DEF ll
<1>3. /\ in_end' \in in .. in_len /\ in_end' - in \in 1 .. ChunkSize
  BY <1>1, <1>2 DEF NextChunk
<1>4. FirstPosition(in) \in Nat /\ FirstPosition(in) >= in
  BY <1>1, MaxOfTwo DEF FirstPosition
<1>5. ip' \in Nat /\ ip' > in
  BY <1>1, <1>4, SkippedIs DEF NextChunk
<1>6. in_len' = in_len /\ dict' = [h \in {} |-> 0] /\ pc' = "search" /\ in' = in /\ ii' = in
      /\ ti' = ti /\ m_pos' = m_pos /\ src' = src
  BY DEF NextChunk, in_len
<1> QED BY <1>1, <1>3, <1>5, <1>6 DEF Positions, NextChunk

LEMMA FindMatchPositions == Positions /\ FindMatch => Positions'
<1> SUFFICES ASSUME Positions, FindMatch PROVE Positions'
  OBVIOUS
<1> DEFINE h == Hash(dv(ip))
           candidate == IF h \in DOMAIN dict THEN dict[h] ELSE in
<1>0. /\ pc = "search" /\ in_len' = in_len /\ src' = src /\ in_end' = in_end /\ ii' = ii
      /\ in_len \in Nat /\ in_len > 0 /\ in \in Nat /\ in_end \in in .. in_len /\ ii \in in .. in_end
      /\ ti \in 0 .. in_len /\ ti <= ii /\ ii <= ip /\ in < ip /\ ip \in Nat
      /\ in_end - in \in 1 .. ChunkSize
      /\ m_pos \in 0 .. in_len
      /\ \A k \in DOMAIN dict : dict[k] \in in .. ip - 1 /\ dict[k] \in 0 .. in_len
  BY DEF Positions, FindMatch, in_len
<1>1. CASE ip >= ip_end
  <2>1. /\ ti' = in_end - (ii - ti) /\ in' = in_end /\ pc' = "chunk"
        /\ ip' = ip /\ m_pos' = m_pos /\ dict' = dict
    BY <1>1 DEF FindMatch
  <2>2. ti' \in 0 .. in_len /\ ti' <= in'
    BY <1>0, <2>1
  <2> QED BY <1>0, <2>1, <2>2 DEF Positions
<1>2. CASE ~ (ip >= ip_end)
  <2>1. ip < ip_end /\ ip + 20 < in_end
    BY <1>0, <1>2, FormatFacts DEF ip_end
  <2>2. /\ dict' = [k \in DOMAIN dict \cup {h} |-> IF k = h THEN ip ELSE dict[k]]
        /\ m_pos' = candidate /\ in' = in /\ ti' = ti
        /\ IF dv(candidate) = dv(ip)
             THEN pc' = "literals" /\ ip' = ip
             ELSE ip' = Skipped(ip, ii) /\ pc' = pc
    BY <1>2 DEF FindMatch
  <2>3. candidate \in in .. ip - 1
    BY <1>0
  <2> HIDE DEF candidate, h
  <2>4. \A k \in DOMAIN dict' : /\ dict'[k] \in 0 .. in_len
                                /\ in <= dict'[k] /\ dict'[k] <= ip
    BY <1>0, <2>1, <2>2
  <2>5. m_pos' \in in .. ip - 1 /\ m_pos' \in 0 .. in_len
    BY <1>0, <2>1, <2>2, <2>3
  <2>6. CASE dv(candidate) = dv(ip)
    <3>1. pc' = "literals" /\ ip' = ip /\ dv(m_pos)' = dv(ip)'
      BY <1>0, <2>2, <2>6 DEF dv
    <3>2. (ip < ip_end)'
      BY <1>0, <2>1, <3>1 DEF ip_end
    <3> QED BY <1>0, <2>2, <2>4, <2>5, <3>1, <3>2 DEF Positions
  <2>7. CASE dv(candidate) # dv(ip)
    <3>1. pc' = "search" /\ ip' \in Nat /\ ip' > ip
      BY <1>0, <2>2, <2>7, SkippedIs
    <3>2. \A k \in DOMAIN dict' : in <= dict'[k] /\ dict'[k] < ip' /\ dict'[k] <= ip'
      BY <1>0, <2>4, <3>1
    <3>3. /\ \A k \in DOMAIN dict' : dict'[k] \in 0 .. in_len
          /\ in' = in /\ ti' = ti /\ m_pos' \in 0 .. in_len
      BY <1>0, <2>2, <2>4, <2>5
    <3>4. ii' <= ip' /\ in' < ip'
      BY <1>0, <3>1, <3>3
    <3> QED BY <1>0, <3>1, <3>2, <3>3, <3>4 DEF Positions
  <2> QED BY <2>6, <2>7
<1> QED BY <1>1, <1>2

LEMMA EncodeLiteralsPositions == Positions /\ EncodeLiterals => Positions'
  BY DEF Positions, EncodeLiterals, in_len, ip_end, dv


-----------------------------------------------------------------------------
(* The length of a match *)

(* n bytes from p and from q on are the same.                              *)
SameBytes(p, q, n) == \A k \in 1 .. n : src[p + k] = src[q + k]

(* Comparing four bytes at once is comparing them.                         *)
LEMMA SameWords ==
  ASSUME src \in Seq(Bytes), NEW p \in Nat, NEW q \in Nat,
         p + 4 <= in_len, q + 4 <= in_len, dv(p) = dv(q)
  PROVE  SameBytes(p, q, 4)
<1>1. \A k \in 1 .. 4 : dv(p)[k] = src[p + k] /\ dv(q)[k] = src[q + k]
  BY PartOf DEF dv, in_len
<1> QED BY <1>1 DEF SameBytes

(* The match found is as long as m_len says, it stays within the chunk,    *)
(* and so does the last word compared.                                     *)
LEMMA MatchLengthIs ==
  ASSUME Positions, pc \in {"literals", "match"}
  PROVE  /\ m_len \in Nat /\ m_len >= 4 /\ ip + m_len <= in_end
         /\ SameBytes(ip, m_pos, m_len)
         /\ ComparedTo <= in_len
<1>0. /\ src \in Seq(Bytes) /\ in_len \in Nat /\ in \in Nat /\ in_end \in in .. in_len
      /\ ip \in Nat /\ m_pos \in Nat /\ m_pos < ip /\ ip < ip_end /\ ip_end = in_end - 20
      /\ dv(m_pos) = dv(ip)
  BY FormatFacts DEF Positions, ip_end, in_len
<1> DEFINE limit == in_end - ip - 4
           F == {n \in 0 .. in_end - ip - 5 : At(ip + 4 + n) # At(m_pos + 4 + n)}
<1>1. limit \in Nat /\ F \subseteq 0 .. limit - 1 /\ limit > 16
  BY <1>0
<1>2. EqualBytes = FirstFailure(limit, F)
  BY DEF EqualBytes
<1>3. EqualBytes \in 0 .. limit /\ \A n \in 0 .. EqualBytes - 1 : n \notin F
  BY <1>1, <1>2, FirstFailureIs
<1> DEFINE e == EqualBytes
           w == e \div 8
           G == {n \in 1 .. w - 1 : ip + 4 + (8 * n) >= ip_end}
<1>4. e \in Nat /\ w \in Nat /\ 8 * w <= e
  BY <1>3
<1>5. EqualWords = FirstFailure(w, G)
  BY DEF EqualWords
<1>6. G \subseteq 0 .. w - 1
  BY <1>4
<1>7. EqualWords \in 0 .. w /\ \A n \in 0 .. EqualWords - 1 : n \notin G
  BY <1>4, <1>5, <1>6, FirstFailureIs
<1>8. \A n \in 0 .. e - 1 : At(ip + 4 + n) = At(m_pos + 4 + n)
  <2>1. \A n \in 0 .. e - 1 : n \in 0 .. in_end - ip - 5
    BY <1>0, <1>3
  <2> QED BY <1>3, <2>1
<1>9. SameBytes(ip, m_pos, e + 4)
  <2> SUFFICES ASSUME NEW k \in 1 .. e + 4 PROVE src[ip + k] = src[m_pos + k]
    BY DEF SameBytes
  <2>1. CASE k <= 4
    <3>1. SameBytes(m_pos, ip, 4)
      BY <1>0, SameWords
    <3> QED BY <2>1, <3>1, <1>4 DEF SameBytes
  <2>2. CASE k > 4
    <3>1. k - 5 \in 0 .. e - 1
      BY <2>2, <1>4
    <3>2. At(ip + 4 + (k - 5)) = At(m_pos + 4 + (k - 5))
      BY <1>8, <3>1
    <3>3. ip + 4 + (k - 5) + 1 = ip + k /\ m_pos + 4 + (k - 5) + 1 = m_pos + k
      BY <1>0, <1>4
    <3> QED BY <3>2, <3>3 DEF At
  <2> QED BY <1>4, <2>1, <2>2
<1> DEFINE q == EqualWords
<1>10. q \in Nat /\ q <= w /\ \A n \in 1 .. q - 1 : ip + 4 + (8 * n) < ip_end
  <2>1. \A n \in 1 .. q - 1 : n \in 0 .. q - 1 /\ n \in 1 .. w - 1
    BY <1>4, <1>7
  <2>2. \A n \in 1 .. q - 1 : ~ (ip + 4 + (8 * n) >= ip_end)
    BY <1>7, <2>1
  <2> QED BY <1>0, <1>4, <1>7, <2>2
<1>11. m_len = 4 + (IF StoppedByEnd THEN 8 * q ELSE e)
  BY DEF m_len
<1>12. ComparedTo = ip + 4 + (8 * q) + 8
  BY DEF ComparedTo
<1>13. m_len \in 4 .. e + 4
  <2> HIDE DEF e, w, q
  <2> QED BY <1>4, <1>10, <1>11
<1>14. ComparedTo <= in_len
  <2>1. q >= 2 => ip + 4 + (8 * (q - 1)) < ip_end
    <3> HIDE DEF q
    <3> QED BY <1>10
  <2> HIDE DEF e, w, q
  <2> QED BY <1>0, <1>10, <1>12, <2>1
<1>15. SameBytes(ip, m_pos, m_len)
  <2> HIDE DEF e
  <2> QED BY <1>4, <1>9, <1>13 DEF SameBytes
<1> HIDE DEF e
<1> QED BY <1>0, <1>3, <1>4, <1>13, <1>14, <1>15 DEF e

LEMMA EncodeMatchPositions == Positions /\ EncodeMatch => Positions'
<1> SUFFICES ASSUME Positions, EncodeMatch PROVE Positions'
  OBVIOUS
<1>1. m_len \in Nat /\ m_len >= 4 /\ ip + m_len <= in_end
  BY MatchLengthIs DEF EncodeMatch
<1>2. /\ pc = "match" /\ pc' = "search" /\ ip' = ip + m_len /\ ii' = ip + m_len
      /\ src' = src /\ in' = in /\ in_end' = in_end /\ ti' = ti /\ m_pos' = m_pos /\ dict' = dict
      /\ in_len' = in_len
  BY DEF EncodeMatch, in_len
<1> HIDE DEF m_len
<1>3. /\ in_len \in Nat /\ in \in Nat /\ in_end \in in .. in_len /\ ip \in Nat
      /\ ti = 0 /\ in < ip
      /\ \A h \in DOMAIN dict : in <= dict[h] /\ dict[h] <= ip /\ dict[h] \in 0 .. in_len
  BY <1>2 DEF Positions, in_len
<1>4. ip' \in Nat /\ ii' \in in .. in_end /\ ii' \in 0 .. in_len /\ ti' <= ii' /\ ii' <= ip' /\ in < ip'
  BY <1>1, <1>2, <1>3
<1>5. \A h \in DOMAIN dict' : in <= dict'[h] /\ dict'[h] <= ip' /\ dict'[h] < ip' /\ dict'[h] \in 0 .. in_len
  BY <1>1, <1>2, <1>3
<1> QED BY <1>2, <1>4, <1>5 DEF Positions

LEMMA FinishPositions == Positions /\ Finish => Positions'
  BY DEF Positions, Finish, in_len

LEMMA PositionsStep == Positions /\ CompressNext => Positions'
  BY NextChunkPositions, FindMatchPositions, EncodeLiteralsPositions, EncodeMatchPositions,
     FinishPositions DEF CompressNext

-----------------------------------------------------------------------------
(* The bytes of an instruction *)

(* A length beyond what fits: zeros, then a byte that is not zero.         *)
LEMMA LengthBytesIs ==
  ASSUME NEW rest \in Nat \ {0}
  PROVE  /\ LengthBytes(rest) \in Seq(Bytes)
         /\ Len(LengthBytes(rest)) = ((rest - 1) \div RunByte) + 1
         /\ \A k \in 1 .. (rest - 1) \div RunByte : LengthBytes(rest)[k] = 0
         /\ LengthBytes(rest)[((rest - 1) \div RunByte) + 1] = ((rest - 1) % RunByte) + 1
         /\ (rest - 1) \div RunByte \in Nat
         /\ (rest - 1) % RunByte \in 0 .. RunByte - 1
         /\ rest - 1 = (RunByte * ((rest - 1) \div RunByte)) + ((rest - 1) % RunByte)
<1> DEFINE q == (rest - 1) \div RunByte
           r == (rest - 1) % RunByte
           zeros == [k \in 1 .. q |-> 0]
<1>1. rest - 1 \in Nat /\ RunByte \in Nat \ {0} /\ RunByte <= 255
  BY FormatFacts
<1>2. q \in Nat /\ r \in 0 .. RunByte - 1 /\ rest - 1 = (RunByte * q) + r
  BY <1>1, DivMod
<1>3. LengthBytes(rest) = zeros \o <<r + 1>>
  BY DEF LengthBytes
<1> HIDE DEF q, r
<1>4. zeros \in Seq(Bytes) /\ Len(zeros) = q /\ \A k \in 1 .. q : zeros[k] = 0
  BY <1>2 DEF Bytes
<1>5. r + 1 \in Bytes /\ <<r + 1>> \in Seq(Bytes) /\ Len(<<r + 1>>) = 1 /\ <<r + 1>>[1] = r + 1
  BY <1>1, <1>2 DEF Bytes
<1> HIDE DEF zeros
<1> DEFINE u == <<r + 1>>
<1> HIDE DEF u
<1>6. /\ zeros \o u \in Seq(Bytes) /\ Len(zeros \o u) = q + 1
      /\ \A k \in 1 .. q : (zeros \o u)[k] = 0
      /\ (zeros \o u)[q + 1] = r + 1
  <2>1. u \in Seq(Bytes) /\ Len(u) = 1 /\ u[1] = r + 1
    BY <1>5 DEF u
  <2>2. /\ zeros \o u \in Seq(Bytes) /\ Len(zeros \o u) = q + 1
        /\ \A k \in 1 .. q : (zeros \o u)[k] = zeros[k]
        /\ \A k \in 1 .. 1 : (zeros \o u)[q + k] = u[k]
    BY <1>4, <2>1, ConcatIs
  <2> QED BY <1>4, <2>1, <2>2
<1> QED BY <1>2, <1>3, <1>6 DEF q, r, u

(* One byte, then further ones of a length.                                *)
LEMMA ByteAndLength ==
  ASSUME NEW byte \in Bytes, NEW rest \in Nat \ {0}
  PROVE  /\ <<byte>> \o LengthBytes(rest) \in Seq(Bytes)
         /\ Len(<<byte>> \o LengthBytes(rest)) = 1 + Len(LengthBytes(rest))
         /\ (<<byte>> \o LengthBytes(rest))[1] = byte
         /\ \A k \in 1 .. Len(LengthBytes(rest)) :
              (<<byte>> \o LengthBytes(rest))[1 + k] = LengthBytes(rest)[k]
<1> DEFINE u == <<byte>>
           v == LengthBytes(rest)
<1>1. u \in Seq(Bytes) /\ Len(u) = 1 /\ u[1] = byte
  OBVIOUS
<1>2. v \in Seq(Bytes)
  BY LengthBytesIs
<1> HIDE DEF u, v
<1>3. /\ u \o v \in Seq(Bytes) /\ Len(u \o v) = Len(u) + Len(v)
      /\ \A k \in 1 .. Len(u) : (u \o v)[k] = u[k]
      /\ \A k \in 1 .. Len(v) : (u \o v)[Len(u) + k] = v[k]
  BY <1>1, <1>2, ConcatIs
<1>4. (u \o v)[1] = byte
  BY <1>1, <1>3
<1> QED BY <1>1, <1>3, <1>4 DEF u, v

LEMMA LiteralHeadIs ==
  ASSUME NEW t \in Nat, t >= 4
  PROVE  /\ LiteralHead(t) \in Seq(Bytes)
         /\ Len(LiteralHead(t)) \in Nat \ {0}
         /\ t <= 18 => Len(LiteralHead(t)) = 1 /\ LiteralHead(t)[1] = t - 3
         /\ t > 18  => /\ Len(LiteralHead(t)) = 1 + Len(LengthBytes(t - 18))
                       /\ LiteralHead(t)[1] = 0
                       /\ \A k \in 1 .. Len(LengthBytes(t - 18)) :
                            LiteralHead(t)[1 + k] = LengthBytes(t - 18)[k]
<1>1. CASE t <= 18
  <2>1. LiteralHead(t) = <<t - 3>> /\ t - 3 \in Bytes
    BY <1>1 DEF LiteralHead, Bytes
  <2> QED BY <1>1, <2>1
<1>2. CASE t > 18
  <2>1. LiteralHead(t) = <<0>> \o LengthBytes(t - 18) /\ 0 \in Bytes /\ t - 18 \in Nat \ {0}
    BY <1>2 DEF LiteralHead, Bytes
  <2>2. Len(LengthBytes(t - 18)) \in Nat
    BY <2>1, LengthBytesIs
  <2> QED BY <1>2, <2>1, <2>2, ByteAndLength
<1> QED BY <1>1, <1>2

(* The head of a long match, without its offset.                           *)
LEMMA LongMatchIs ==
  ASSUME NEW marker \in 0 .. 200, NEW length \in Nat, length >= 4,
         NEW max \in 8 .. 33
  PROVE  /\ LongMatch(marker, length, max) \in Seq(Bytes)
         /\ Len(LongMatch(marker, length, max)) \in Nat \ {0}
         /\ length <= max => /\ Len(LongMatch(marker, length, max)) = 1
                             /\ LongMatch(marker, length, max)[1] = marker + length - 2
         /\ length > max => /\ Len(LongMatch(marker, length, max)) = 1 + Len(LengthBytes(length - max))
                            /\ LongMatch(marker, length, max)[1] = marker
                            /\ \A k \in 1 .. Len(LengthBytes(length - max)) :
                                 LongMatch(marker, length, max)[1 + k] = LengthBytes(length - max)[k]
<1>1. CASE length <= max
  <2>1. LongMatch(marker, length, max) = <<marker + length - 2>> /\ marker + length - 2 \in Bytes
    BY <1>1 DEF LongMatch, Bytes
  <2> QED BY <1>1, <2>1
<1>2. CASE length > max
  <2>1. /\ LongMatch(marker, length, max) = <<marker>> \o LengthBytes(length - max)
        /\ marker \in Bytes /\ length - max \in Nat \ {0}
    BY <1>2 DEF LongMatch, Bytes
  <2>2. Len(LengthBytes(length - max)) \in Nat
    BY <2>1, LengthBytesIs
  <2> QED BY <1>2, <2>1, <2>2, ByteAndLength
<1> QED BY <1>1, <1>2

(* Behind it, the offset.                                                  *)
OffsetLow(v)  == (v % 64) * 4
OffsetHigh(v) == (v \div 64) % 256

LEMMA WithOffset ==
  ASSUME NEW u \in Seq(Bytes), NEW v \in Nat
  PROVE  /\ u \o OffsetBytes(v) \in Seq(Bytes)
         /\ Len(u \o OffsetBytes(v)) = Len(u) + 2
         /\ \A k \in 1 .. Len(u) : (u \o OffsetBytes(v))[k] = u[k]
         /\ (u \o OffsetBytes(v))[Len(u) + 1] = OffsetLow(v)
         /\ (u \o OffsetBytes(v))[Len(u) + 2] = OffsetHigh(v)
<1> DEFINE w == OffsetBytes(v)
<1>1. OffsetLow(v) \in Bytes /\ OffsetHigh(v) \in Bytes
  BY DEF Bytes, OffsetLow, OffsetHigh
<1>2. w \in Seq(Bytes) /\ Len(w) = 2 /\ w[1] = OffsetLow(v) /\ w[2] = OffsetHigh(v)
  <2>1. w = <<OffsetLow(v), OffsetHigh(v)>>
    BY DEF OffsetBytes, OffsetLow, OffsetHigh
  <2> QED BY <1>1, <2>1
<1>a. w \in Seq(Bytes)
  BY <1>2
<1> HIDE DEF w
<1>3. /\ u \o w \in Seq(Bytes) /\ Len(u \o w) = Len(u) + Len(w)
      /\ \A k \in 1 .. Len(u) : (u \o w)[k] = u[k]
      /\ \A k \in 1 .. Len(w) : (u \o w)[Len(u) + k] = w[k]
  BY <1>a, ConcatIs
<1>4. (u \o w)[Len(u) + 1] = w[1] /\ (u \o w)[Len(u) + 2] = w[2]
  BY <1>2, <1>3
<1> QED BY <1>2, <1>3, <1>4 DEF w

(* Four times the lower six bits of a number.                              *)
LEMMA LowerSix ==
  ASSUME NEW v \in Nat
  PROVE  (v % 64) * 4 \in 0 .. 252 /\ ((v % 64) * 4) % 4 = 0
<1> DEFINE q == v % 64
<1>1. q \in 0 .. 63
  OBVIOUS
<1> HIDE DEF q
<1>2. 4 * q \in 0 .. 252 /\ (4 * q) % 4 = 0 /\ q * 4 = 4 * q
  BY ONLY <1>1
<1> QED BY ONLY <1>2 DEF q

(* The last byte but one has room for a number of literals.                *)
HasRoom(s) ==
  /\ s \in Seq(Bytes) /\ Len(s) \in Nat /\ Len(s) >= 2
  /\ s[Len(s) - 1] \in 0 .. 252 /\ s[Len(s) - 1] % 4 = 0

(* So the last byte but one has its low bits free.                         *)
LEMMA OffsetLast ==
  ASSUME NEW u \in Seq(Bytes), NEW v \in Nat, NEW s, s = u \o OffsetBytes(v), Len(u) \in Nat \ {0}
  PROVE  HasRoom(s)
<1>1. s \in Seq(Bytes) /\ Len(s) = Len(u) + 2 /\ s[Len(u) + 1] = OffsetLow(v)
  BY WithOffset
<1>2. Len(s) - 1 = Len(u) + 1
  BY <1>1
<1>3. OffsetLow(v) \in 0 .. 252 /\ OffsetLow(v) % 4 = 0
  BY LowerSix DEF OffsetLow
<1>4. s[Len(s) - 1] \in 0 .. 252 /\ s[Len(s) - 1] % 4 = 0
  BY ONLY <1>1, <1>2, <1>3
<1> QED BY <1>1, <1>4 DEF HasRoom

FarMarker(offset) == M4_MARKER + (8 * ((offset - M3_MAX_OFFSET) \div 16384))

LEMMA FarMarkerIs ==
  ASSUME NEW offset \in Nat, offset < ChunkSize, offset > M3_MAX_OFFSET
  PROVE  /\ offset - M3_MAX_OFFSET \in Nat
         /\ 1 <= offset - M3_MAX_OFFSET /\ offset - M3_MAX_OFFSET <= 32767
         /\ FarMarker(offset) \in {16, 24}
         /\ (FarMarker(offset) = 24 <=> offset - M3_MAX_OFFSET >= 16384)
<1> DEFINE v == offset - M3_MAX_OFFSET
<1>1. v \in Nat /\ 1 <= v /\ v <= 32767
  BY FormatFacts
<1>2. FarMarker(offset) = 16 + (8 * (v \div 16384))
  BY FormatFacts DEF FarMarker
<1> HIDE DEF v
<1>3. v \div 16384 \in {0, 1} /\ (v \div 16384 = 1 <=> v >= 16384)
  BY <1>1
<1>4. FarMarker(offset) \in {16, 24} /\ (FarMarker(offset) = 24 <=> v >= 16384)
  BY <1>2, <1>3
<1>5. v = offset - M3_MAX_OFFSET
  BY DEF v
<1> QED BY ONLY <1>1, <1>4, <1>5

(* The last byte but one of a match has room for a number of literals, and *)
(* the instruction is shorter than the match.                              *)
LEMMA MatchInstructionIs ==
  ASSUME NEW length \in Nat, length >= 4, NEW offset \in Nat, 1 <= offset, offset < ChunkSize
  PROVE  /\ MatchInstruction(length, offset) \in Seq(Bytes)
         /\ Len(MatchInstruction(length, offset)) \in Nat
         /\ Len(MatchInstruction(length, offset)) >= 2
         /\ LET byte == MatchInstruction(length, offset)[Len(MatchInstruction(length, offset)) - 1]
            IN  byte \in 0 .. 252 /\ byte % 4 = 0
<1>0. offset \in Nat /\ offset >= 1
  OBVIOUS
<1>a. SUFFICES HasRoom(MatchInstruction(length, offset))
  BY DEF HasRoom
<1>1. CASE IsM2(length, offset)
  <2>1. length \in 4 .. 8 /\ offset <= 2048
    BY <1>1, FormatFacts DEF IsM2
  <2> DEFINE a == ((length - 1) * 32) + (((offset - 1) % 8) * 4)
             b == (offset - 1) \div 8
  <2>2. MatchInstruction(length, offset) = <<a, b>>
    BY <1>1 DEF MatchInstruction, M2Match
  <2>3. a \in 0 .. 252 /\ a % 4 = 0 /\ a \in Bytes
    <3> DEFINE q == ((length - 1) * 8) + ((offset - 1) % 8)
    <3>1. (offset - 1) % 8 \in 0 .. 7
      BY <1>0
    <3>2. q \in 0 .. 63 /\ a = 4 * q
      BY <2>1, <3>1
    <3> HIDE DEF a, q
    <3>3. a \in 0 .. 252 /\ a % 4 = 0
      BY ONLY <3>2
    <3> QED BY <3>3 DEF Bytes
  <2>4. b \in Bytes
    BY <1>0, <2>1 DEF Bytes
  <2> HIDE DEF a, b
  <2> QED BY ONLY <2>2, <2>3, <2>4 DEF HasRoom
<1>2. CASE ~ IsM2(length, offset) /\ offset <= M3_MAX_OFFSET
  <2> DEFINE u == LongMatch(M3_MARKER, length, M3_MAX_LEN)
             v == offset - 1
  <2>1. MatchInstruction(length, offset) = u \o OffsetBytes(v)
    BY <1>2 DEF MatchInstruction
  <2>2. u \in Seq(Bytes) /\ Len(u) \in Nat \ {0}
    <3>1. M3_MARKER \in 0 .. 200 /\ M3_MAX_LEN \in 8 .. 33
      BY FormatFacts
    <3> QED BY Zenon, <3>1, LongMatchIs
  <2>a. v \in Nat
    BY <1>0
  <2> HIDE DEF u, v
  <2> QED BY ONLY <2>1, <2>2, <2>a, OffsetLast
<1>3. CASE ~ IsM2(length, offset) /\ ~ (offset <= M3_MAX_OFFSET)
  <2> DEFINE u == LongMatch(FarMarker(offset), length, M4_MAX_LEN)
             v == offset - M3_MAX_OFFSET
  <2>1. MatchInstruction(length, offset) = u \o OffsetBytes(v)
    BY <1>3 DEF MatchInstruction, FarMarker
  <2>2. offset > M3_MAX_OFFSET
    BY <1>0, <1>3, FormatFacts
  <2>3. u \in Seq(Bytes) /\ Len(u) \in Nat \ {0}
    <3>1. FarMarker(offset) \in {16, 24}
      BY <2>2, FarMarkerIs
    <3>2. FarMarker(offset) \in 0 .. 200 /\ M4_MAX_LEN \in 8 .. 33
      BY <3>1, FormatFacts
    <3> QED BY Zenon, <3>2, LongMatchIs
  <2>a. v \in Nat
    BY <2>2, FarMarkerIs
  <2> HIDE DEF u, v
  <2> QED BY ONLY <2>1, <2>3, <2>a, OffsetLast
<1> QED BY <1>1, <1>2, <1>3

-----------------------------------------------------------------------------
(* The size of an instruction *)

(* A length needs a further byte for sixteen more of it, at most.          *)
LEMMA LengthBytesShort ==
  ASSUME NEW rest \in Nat \ {0}
  PROVE  /\ Len(LengthBytes(rest)) \in Nat \ {0}
         /\ 16 * (Len(LengthBytes(rest)) - 1) <= rest - 1
<1> DEFINE q == (rest - 1) \div RunByte
           r == (rest - 1) % RunByte
           m == RunByte
<1>1. /\ Len(LengthBytes(rest)) = q + 1 /\ q \in Nat /\ r \in 0 .. m - 1 /\ r \in Nat
      /\ rest - 1 = (m * q) + r
  BY LengthBytesIs, FormatFacts
<1>2. m \in Nat /\ m >= 16
  BY FormatFacts
<1> HIDE DEF q, r, m
<1>3. 16 * q <= m * q
  BY <1>1, <1>2
<1>4. m * q \in Nat
  BY <1>1, <1>2
<1> QED BY <1>1, <1>3, <1>4

(* The instruction for a run adds a byte, and one for sixteen literals.    *)
LEMMA LiteralHeadShort ==
  ASSUME NEW t \in Nat, t >= 4
  PROVE  16 * (Len(LiteralHead(t)) - 1) <= t
<1>1. CASE t <= 18
  <2>1. Len(LiteralHead(t)) = 1
    BY <1>1, LiteralHeadIs
  <2> QED BY <2>1
<1>2. CASE t > 18
  <2>1. /\ Len(LengthBytes(t - 18)) \in Nat \ {0}
        /\ 16 * (Len(LengthBytes(t - 18)) - 1) <= t - 19
    BY <1>2, LengthBytesShort
  <2>2. Len(LiteralHead(t)) = 1 + Len(LengthBytes(t - 18))
    BY <1>2, LiteralHeadIs
  <2> QED BY <1>2, <2>1, <2>2
<1> QED BY <1>1, <1>2

LEMMA LongMatchShort ==
  ASSUME NEW marker \in 0 .. 200, NEW length \in Nat, length >= 4, NEW max \in 8 .. 33
  PROVE  Len(LongMatch(marker, length, max)) + 2 < length
<1>1. CASE length <= max
  <2>1. LongMatch(marker, length, max) = <<marker + length - 2>>
    BY <1>1 DEF LongMatch
  <2> QED BY <2>1
<1>2. CASE length > max
  <2>1. /\ Len(LengthBytes(length - max)) \in Nat \ {0}
        /\ 16 * (Len(LengthBytes(length - max)) - 1) <= length - max - 1
    BY <1>2, LengthBytesShort
  <2>2. Len(LongMatch(marker, length, max)) = 1 + Len(LengthBytes(length - max))
    <3>1. LongMatch(marker, length, max) = <<marker>> \o LengthBytes(length - max)
      BY <1>2 DEF LongMatch
    <3>2. marker \in Bytes /\ length - max \in Nat \ {0}
      BY <1>2 DEF Bytes
    <3> QED BY <3>1, <3>2, ByteAndLength
  <2> QED BY <1>2, <2>1, <2>2
<1> QED BY <1>1, <1>2

(* The instruction of a match is shorter than the match.                   *)
LEMMA MatchInstructionShort ==
  ASSUME NEW length \in Nat, length >= 4, NEW offset \in Nat, 1 <= offset, offset < ChunkSize
  PROVE  Len(MatchInstruction(length, offset)) < length
<1>1. CASE IsM2(length, offset)
  <2>1. Len(MatchInstruction(length, offset)) = 2
    BY <1>1 DEF MatchInstruction, M2Match
  <2> QED BY <2>1
<1>2. CASE ~ IsM2(length, offset) /\ offset <= M3_MAX_OFFSET
  <2>1. M3_MARKER \in 0 .. 200 /\ M3_MAX_LEN \in 8 .. 33
    BY FormatFacts
  <2> DEFINE u == LongMatch(M3_MARKER, length, M3_MAX_LEN)
  <2>2. MatchInstruction(length, offset) = u \o OffsetBytes(offset - 1)
    BY <1>2 DEF MatchInstruction
  <2>3. u \in Seq(Bytes) /\ Len(u) \in Nat /\ Len(u) + 2 < length
    BY <2>1, LongMatchIs, LongMatchShort
  <2>4. offset - 1 \in Nat
    OBVIOUS
  <2> HIDE DEF u
  <2>5. Len(u \o OffsetBytes(offset - 1)) = Len(u) + 2
    BY <2>3, <2>4, WithOffset
  <2> QED BY <2>2, <2>3, <2>5
<1>3. CASE ~ IsM2(length, offset) /\ ~ (offset <= M3_MAX_OFFSET)
  <2> DEFINE u == LongMatch(FarMarker(offset), length, M4_MAX_LEN)
             v == offset - M3_MAX_OFFSET
  <2>1. MatchInstruction(length, offset) = u \o OffsetBytes(v)
    BY <1>3 DEF MatchInstruction, FarMarker
  <2>2. offset > M3_MAX_OFFSET
    BY <1>3, FormatFacts
  <2>3. FarMarker(offset) \in {16, 24} /\ v \in Nat
    BY <2>2, FarMarkerIs
  <2>4. FarMarker(offset) \in 0 .. 200 /\ M4_MAX_LEN \in 8 .. 33
    BY <2>3, FormatFacts
  <2>5. u \in Seq(Bytes) /\ Len(u) \in Nat /\ Len(u) + 2 < length
    BY <2>4, LongMatchIs, LongMatchShort
  <2> HIDE DEF u, v
  <2>6. Len(u \o OffsetBytes(v)) = Len(u) + 2
    BY <2>3, <2>5, WithOffset
  <2> QED BY <2>1, <2>5, <2>6
<1> QED BY <1>1, <1>2, <1>3

-----------------------------------------------------------------------------
(* The block as a list of instructions                                     *)
(*                                                                         *)
(* The proofs follow the instructions written so far: mark[b] is the one   *)
(* at b, a run of literals when its length is 0 and a match otherwise,     *)
(* with t literals behind it; out is the number of bytes that are encoded  *)
(* before it.                                                              *)

Node == [out : Nat, length : Nat, offset : Nat, t : Nat]

Instr(n)   == IF n.length = 0 THEN LiteralHead(n.t) ELSE MatchInstruction(n.length, n.offset)
Low(n)     == IF n.length = 0 THEN 0 ELSE n.t
Ends(b, n) == b + Len(Instr(n)) + n.t
Reach(n)   == n.out + n.length + n.t

(* What makes an instruction one for the page s.                           *)
Sound(s, n) ==
  /\ n \in Node
  /\ n.length = 0 => n.t >= 4
  /\ n.length # 0 => /\ n.length >= 4 /\ n.t <= 3
                     /\ 1 <= n.offset /\ n.offset < ChunkSize /\ n.offset <= n.out
                     /\ \A k \in 1 .. n.length : s[n.out + k] = s[n.out - n.offset + k]
  /\ Reach(n) <= Len(s)

(* It is in the block d at b.                                              *)
Stored(s, d, b, n) ==
  /\ Ends(b, n) <= Len(d)
  /\ \A k \in 1 .. Len(Instr(n)) :
       d[b + k] = IF k = Len(Instr(n)) - 1 THEN Instr(n)[k] + Low(n) ELSE Instr(n)[k]
  /\ \A k \in 1 .. n.t : d[b + Len(Instr(n)) + k] = s[n.out + n.length + k]

(* The instruction after a run, or after literals, is a match.             *)
Follows(mark, b) ==
  /\ Ends(b, mark[b]) \in DOMAIN mark
  /\ mark[Ends(b, mark[b])].out = Reach(mark[b])
  /\ mark[b].length = 0 \/ mark[b].t > 0 => mark[Ends(b, mark[b])].length # 0

(* The instructions in mark fill the block up to end and encode the first  *)
(* bytes of the page, up to reach.                                         *)
Written(s, d, mark, last, end, reach) ==
  /\ 0 \in DOMAIN mark /\ last \in DOMAIN mark
  /\ mark[0].out = 0 /\ mark[0].length = 0
  /\ \A b \in DOMAIN mark : b \in Nat /\ b <= last
  /\ \A b \in DOMAIN mark : Sound(s, mark[b])
  /\ \A b \in DOMAIN mark : Stored(s, d, b, mark[b])
  /\ \A b \in DOMAIN mark : b # last => Follows(mark, b)
  /\ Ends(last, mark[last]) = end /\ Reach(mark[last]) = reach

LEMMA InstrIs ==
  ASSUME NEW s, NEW n, Sound(s, n)
  PROVE  /\ n.out \in Nat /\ n.length \in Nat /\ n.offset \in Nat /\ n.t \in Nat
         /\ Instr(n) \in Seq(Bytes) /\ Len(Instr(n)) \in Nat /\ Len(Instr(n)) >= 1
         /\ Low(n) \in Nat
         /\ n.length # 0 => /\ Low(n) = n.t /\ n.t <= 3 /\ Len(Instr(n)) >= 2
                            /\ Instr(n)[Len(Instr(n)) - 1] \in 0 .. 252
                            /\ Instr(n)[Len(Instr(n)) - 1] % 4 = 0
<1>1. n.out \in Nat /\ n.length \in Nat /\ n.offset \in Nat /\ n.t \in Nat
  BY DEF Sound, Node
<1>2. CASE n.length = 0
  <2>1. Instr(n) = LiteralHead(n.t) /\ Low(n) = 0 /\ n.t >= 4
    BY <1>2 DEF Instr, Low, Sound
  <2>2. LiteralHead(n.t) \in Seq(Bytes) /\ Len(LiteralHead(n.t)) \in Nat \ {0}
    BY <1>1, <2>1, LiteralHeadIs
  <2> QED BY <1>1, <1>2, <2>1, <2>2
<1>3. CASE n.length # 0
  <2>1. /\ Instr(n) = MatchInstruction(n.length, n.offset) /\ Low(n) = n.t
        /\ n.length >= 4 /\ n.t <= 3 /\ 1 <= n.offset /\ n.offset < ChunkSize
    BY <1>3 DEF Instr, Low, Sound
  <2> DEFINE m == MatchInstruction(n.length, n.offset)
  <2>a. m \in Seq(Bytes) /\ Len(m) \in Nat /\ Len(m) >= 2
    BY <1>1, <2>1, MatchInstructionIs
  <2>b. m[Len(m) - 1] \in 0 .. 252 /\ m[Len(m) - 1] % 4 = 0
    BY <1>1, <2>1, MatchInstructionIs
  <2>c. Instr(n) = m
    BY <2>1
  <2> HIDE DEF m
  <2>2. /\ Instr(n) \in Seq(Bytes) /\ Len(Instr(n)) \in Nat /\ Len(Instr(n)) >= 2
        /\ Instr(n)[Len(Instr(n)) - 1] \in 0 .. 252 /\ Instr(n)[Len(Instr(n)) - 1] % 4 = 0
    BY ONLY <2>a, <2>b, <2>c, Zenon
  <2>3. Low(n) = n.t /\ n.t \in Nat /\ n.length # 0
    BY <1>1, <1>3, <2>1
  <2> QED BY <1>1, <2>1, <2>2, <2>3
<1> QED BY <1>2, <1>3

LEMMA EndsAfter ==
  ASSUME NEW s, NEW n, Sound(s, n), NEW b \in Nat
  PROVE  Ends(b, n) \in Nat /\ Ends(b, n) > b /\ Ends(b, n) = b + Len(Instr(n)) + n.t
  BY InstrIs DEF Ends

(* An instruction is in every block that is the same up to its end.        *)
LEMMA StoredSame ==
  ASSUME NEW s, NEW d, NEW d2, NEW b \in Nat, NEW n, Sound(s, n), Stored(s, d, b, n),
         Ends(b, n) <= Len(d2), \A k \in 1 .. Ends(b, n) : d2[k] = d[k]
  PROVE  Stored(s, d2, b, n)
<1> DEFINE h == Len(Instr(n))
<1>1. h \in Nat /\ n.t \in Nat /\ Ends(b, n) = b + h + n.t
  BY InstrIs, EndsAfter
<1>2. \A k \in 1 .. h : b + k \in 1 .. Ends(b, n)
  BY <1>1
<1>3. \A k \in 1 .. n.t : b + h + k \in 1 .. Ends(b, n)
  BY <1>1
<1> HIDE DEF h
<1>4. \A k \in 1 .. h : d2[b + k] = d[b + k]
  BY <1>2
<1>5. \A k \in 1 .. n.t : d2[b + h + k] = d[b + h + k]
  BY <1>3
<1> QED BY <1>4, <1>5 DEF Stored, h

(* The block may go on.                                                    *)
LEMMA WrittenLonger ==
  ASSUME NEW s, NEW d, NEW d2, NEW mark, NEW last, NEW end, NEW reach,
         Written(s, d, mark, last, end, reach), Len(d) \in Nat, Len(d2) \in Nat,
         Len(d) <= Len(d2), \A k \in 1 .. Len(d) : d2[k] = d[k]
  PROVE  Written(s, d2, mark, last, end, reach)
<1>1. \A b \in DOMAIN mark : Stored(s, d2, b, mark[b])
  <2> SUFFICES ASSUME NEW b \in DOMAIN mark PROVE Stored(s, d2, b, mark[b])
    OBVIOUS
  <2> DEFINE n == mark[b]
  <2>1. b \in Nat /\ Sound(s, n) /\ Stored(s, d, b, n)
    BY DEF Written
  <2> HIDE DEF n
  <2>2. Ends(b, n) \in Nat /\ Ends(b, n) <= Len(d)
    BY <2>1, EndsAfter DEF Stored
  <2>3. Ends(b, n) <= Len(d2) /\ \A k \in 1 .. Ends(b, n) : d2[k] = d[k]
    BY <2>2
  <2>4. Stored(s, d2, b, n)
    BY <2>1, <2>3, StoredSame
  <2> QED BY <2>4 DEF n
<1> QED BY <1>1 DEF Written

(* A first run of literals.                                                *)
LEMMA WrittenFirst ==
  ASSUME NEW s, NEW d, NEW n, Sound(s, n), Stored(s, d, 0, n), n.out = 0, n.length = 0
  PROVE  \E mark, last : Written(s, d, mark, last, Ends(0, n), Reach(n)) /\ mark[last] = n
<1> DEFINE mark == [b \in {0} |-> n]
<1>1. DOMAIN mark = {0} /\ mark[0] = n
  OBVIOUS
<1> HIDE DEF mark
<1>2. Written(s, d, mark, 0, Ends(0, n), Reach(n))
  BY <1>1 DEF Written
<1> QED BY <1>1, <1>2

(* A further instruction.                                                  *)
LEMMA WrittenNext ==
  ASSUME NEW s, NEW d, NEW mark, NEW last, NEW end, NEW reach,
         Written(s, d, mark, last, end, reach),
         NEW n, Sound(s, n), Stored(s, d, end, n), n.out = reach,
         mark[last].length = 0 \/ mark[last].t > 0 => n.length # 0
  PROVE  \E mark2, last2 : Written(s, d, mark2, last2, Ends(end, n), Reach(n)) /\ mark2[last2] = n
<1> DEFINE m2 == [b \in DOMAIN mark \cup {end} |-> IF b = end THEN n ELSE mark[b]]
<1>1. /\ 0 \in DOMAIN mark /\ last \in DOMAIN mark
      /\ mark[0].out = 0 /\ mark[0].length = 0
      /\ \A b \in DOMAIN mark : b \in Nat /\ b <= last
      /\ \A b \in DOMAIN mark : Sound(s, mark[b])
      /\ \A b \in DOMAIN mark : Stored(s, d, b, mark[b])
      /\ \A b \in DOMAIN mark : b # last => Follows(mark, b)
      /\ Ends(last, mark[last]) = end /\ Reach(mark[last]) = reach
  BY DEF Written
<1>2. last \in Nat /\ Sound(s, mark[last])
  BY <1>1
<1>3. end \in Nat /\ end > last
  BY <1>1, <1>2, EndsAfter
<1>4. end \notin DOMAIN mark
  BY <1>1, <1>2, <1>3
<1>5. /\ DOMAIN m2 = DOMAIN mark \cup {end} /\ m2[end] = n
      /\ \A b \in DOMAIN mark : m2[b] = mark[b]
  BY <1>4
<1> HIDE DEF m2
<1>6. \A b \in DOMAIN m2 : b \in Nat /\ b <= end
  BY <1>1, <1>2, <1>3, <1>5
<1>7. \A b \in DOMAIN m2 : Sound(s, m2[b]) /\ Stored(s, d, b, m2[b])
  BY <1>1, <1>5
<1>8. \A b \in DOMAIN m2 : b # end => Follows(m2, b)
  <2> SUFFICES ASSUME NEW b \in DOMAIN mark PROVE Follows(m2, b)
    BY <1>5
  <2>1. m2[b] = mark[b]
    BY <1>5
  <2>2. CASE b = last
    BY <1>1, <1>5, <2>1, <2>2 DEF Follows
  <2>3. CASE b # last
    <3>1. Follows(mark, b)
      BY <1>1, <2>3
    <3>2. Ends(b, mark[b]) \in DOMAIN mark
      BY <3>1 DEF Follows
    <3>3. m2[Ends(b, mark[b])] = mark[Ends(b, mark[b])] /\ Ends(b, mark[b]) \in DOMAIN m2
      BY <1>5, <3>2
    <3> QED BY <2>1, <3>1, <3>2, <3>3 DEF Follows
  <2> QED BY <2>2, <2>3
<1>9. m2[0].out = 0 /\ m2[0].length = 0 /\ 0 \in DOMAIN m2
  BY <1>1, <1>5
<1>10. Written(s, d, m2, end, Ends(end, n), Reach(n))
  BY <1>5, <1>6, <1>7, <1>8, <1>9 DEF Written
<1> QED BY <1>5, <1>10

(* Literals in the low bits of the last match.                             *)
LEMMA WrittenLowBits ==
  ASSUME NEW s, NEW d \in Seq(Bytes), NEW mark, NEW last, NEW reach,
         Written(s, d, mark, last, Len(d), reach),
         mark[last].length # 0, mark[last].t = 0,
         NEW t \in 1 .. 3, reach + t <= Len(s),
         NEW d2, Len(d2) = Len(d) + t,
         \A k \in 1 .. Len(d) : d2[k] = IF k = Len(d) - 1 THEN d[k] + t ELSE d[k],
         \A k \in 1 .. t : d2[Len(d) + k] = s[reach + k]
  PROVE  \E mark2 : /\ Written(s, d2, mark2, last, Len(d2), reach + t)
                    /\ mark2[last].length # 0
<1> DEFINE n  == mark[last]
           n2 == [out |-> n.out, length |-> n.length, offset |-> n.offset, t |-> t]
           m2 == [b \in DOMAIN mark |-> IF b = last THEN n2 ELSE mark[b]]
           h  == Len(Instr(n))
           e  == Len(d)
<1>1. /\ 0 \in DOMAIN mark /\ last \in DOMAIN mark
      /\ mark[0].out = 0 /\ mark[0].length = 0
      /\ \A b \in DOMAIN mark : b \in Nat /\ b <= last
      /\ \A b \in DOMAIN mark : Sound(s, mark[b])
      /\ \A b \in DOMAIN mark : Stored(s, d, b, mark[b])
      /\ \A b \in DOMAIN mark : b # last => Follows(mark, b)
      /\ Ends(last, n) = e /\ Reach(n) = reach
  BY DEF Written
<1>2. last \in Nat /\ Sound(s, n) /\ Stored(s, d, last, n) /\ n.length # 0 /\ n.t = 0
  BY <1>1
<1>3. /\ n.out \in Nat /\ n.length \in Nat /\ n.offset \in Nat
      /\ h \in Nat /\ h >= 2 /\ Instr(n) \in Seq(Bytes)
  BY <1>2, InstrIs
<1>4. e = last + h /\ e \in Nat /\ reach = n.out + n.length
  BY <1>1, <1>2, <1>3 DEF Ends, Reach
<1>5. /\ n2.out = n.out /\ n2.length = n.length /\ n2.offset = n.offset /\ n2.t = t
      /\ n2 \in Node
  BY <1>3 DEF Node
<1>6. Instr(n2) = Instr(n) /\ Low(n2) = t /\ Low(n) = 0
  BY <1>2, <1>5 DEF Instr, Low
<1>7. Reach(n2) = reach + t /\ Ends(last, n2) = e + t
  BY <1>3, <1>4, <1>5, <1>6 DEF Reach, Ends
<1>a. DOMAIN m2 = DOMAIN mark /\ m2[last] = n2 /\ \A b \in DOMAIN mark : b # last => m2[b] = mark[b]
  BY <1>1
<1> HIDE DEF n2, m2, h, e
<1>8. Sound(s, n2)
  <2>1. Reach(n2) <= Len(s)
    BY <1>7
  <2> QED BY <1>2, <1>5, <2>1 DEF Sound
<1>9. Stored(s, d2, last, n2)
  <2>1. Ends(last, n2) <= Len(d2)
    BY <1>4, <1>7 DEF e
  <2>2. ASSUME NEW k \in 1 .. h
        PROVE  d2[last + k] = IF k = h - 1 THEN Instr(n)[k] + t ELSE Instr(n)[k]
    <3>1. d[last + k] = IF k = h - 1 THEN Instr(n)[k] + 0 ELSE Instr(n)[k]
      BY <1>2, <1>6 DEF Stored, h
    <3>2. last + k \in 1 .. e /\ (last + k = e - 1 <=> k = h - 1)
      <4>1. last \in Nat /\ h \in Nat /\ h >= 2 /\ e = last + h
        BY <1>2, <1>3, <1>4
      <4> QED BY ONLY <4>1, k \in 1 .. h
    <3>3. d2[last + k] = IF last + k = e - 1 THEN d[last + k] + t ELSE d[last + k]
      BY <3>2 DEF e
    <3>4. CASE k = h - 1
      <4>1. Instr(n)[k] \in Bytes
        BY <1>3, ElementOfSeq DEF h
      <4>2. Instr(n)[k] \in Nat
        BY Zenon, <4>1, BytesAreNumbers
      <4> QED BY <3>1, <3>2, <3>3, <3>4, <4>2
    <3>5. CASE k # h - 1
      BY <3>1, <3>2, <3>3, <3>5
    <3> QED BY <3>4, <3>5
  <2>3. ASSUME NEW k \in 1 .. t
        PROVE  d2[last + h + k] = s[n.out + n.length + k]
    BY <1>4 DEF e
  <2> QED BY <1>5, <1>6, <2>1, <2>2, <2>3 DEF Stored, h
<1>10. ASSUME NEW b \in DOMAIN mark, b # last
       PROVE  /\ b \in Nat /\ b <= last
              /\ Sound(s, mark[b]) /\ Stored(s, d2, b, mark[b]) /\ Follows(m2, b)
  <2> DEFINE w == mark[b]
  <2>1. b \in Nat /\ b <= last /\ Sound(s, w) /\ Stored(s, d, b, w) /\ Follows(mark, b)
    BY <1>1, <1>10
  <2>2. Ends(b, w) \in DOMAIN mark /\ Ends(b, w) <= last
    BY <1>1, <2>1 DEF Follows
  <2>3. Ends(b, w) \in Nat
    BY <2>1, EndsAfter
  <2>4. Ends(b, w) <= Len(d2) /\ \A k \in 1 .. Ends(b, w) : d2[k] = d[k]
    <3>1. Len(d2) = e + t /\ e \in Nat /\ last <= e - 2
      BY <1>2, <1>3, <1>4 DEF e
    <3>2. \A k \in 1 .. Ends(b, w) : k \in 1 .. e /\ k # e - 1
      BY <1>2, <2>2, <2>3, <3>1
    <3> QED BY <1>2, <2>2, <2>3, <3>1, <3>2 DEF e
  <2>5. Stored(s, d2, b, w)
    <3> HIDE DEF w
    <3> QED BY <2>1, <2>4, StoredSame
  <2>6. m2[b] = mark[b]
    BY <1>10, <1>a
  <2>7. m2[Ends(b, w)].out = mark[Ends(b, w)].out /\ m2[Ends(b, w)].length = mark[Ends(b, w)].length
    <3>1. CASE Ends(b, w) = last
      BY <1>a, <1>5, <3>1
    <3>2. CASE Ends(b, w) # last
      BY <1>a, <2>2, <3>2
    <3> QED BY <3>1, <3>2
  <2>8. Follows(m2, b)
    BY <1>a, <2>1, <2>2, <2>6, <2>7 DEF Follows
  <2> QED BY <2>1, <2>5, <2>8
<1>11. m2[0].out = 0 /\ m2[0].length = 0
  BY <1>1, <1>5, <1>a
<1>12. Written(s, d2, m2, last, Len(d2), reach + t)
  <2>1. Ends(last, m2[last]) = Len(d2) /\ Reach(m2[last]) = reach + t
    BY <1>7, <1>a DEF e
  <2>2. \A b \in DOMAIN m2 : b \in Nat /\ b <= last /\ Sound(s, m2[b]) /\ Stored(s, d2, b, m2[b])
    BY <1>2, <1>8, <1>9, <1>10, <1>a
  <2>3. \A b \in DOMAIN m2 : b # last => Follows(m2, b)
    BY <1>10, <1>a
  <2> QED BY <1>1, <1>11, <1>a, <2>1, <2>2, <2>3 DEF Written
<1> QED BY <1>2, <1>5, <1>12, <1>a

-----------------------------------------------------------------------------
(* Writing the block *)

LEMMA ThreeParts ==
  ASSUME NEW S, NEW a \in Seq(S), NEW b \in Seq(S), NEW c \in Seq(S), NEW d, d = (a \o b) \o c
  PROVE  /\ d \in Seq(S) /\ Len(d) = Len(a) + Len(b) + Len(c)
         /\ \A k \in 1 .. Len(a) : d[k] = a[k]
         /\ \A k \in 1 .. Len(b) : d[Len(a) + k] = b[k]
         /\ \A k \in 1 .. Len(c) : d[Len(a) + Len(b) + k] = c[k]
<1> DEFINE e == a \o b
           m == Len(a)
           n == Len(b)
<1>1. /\ m \in Nat /\ n \in Nat /\ e \in Seq(S) /\ Len(e) = m + n
      /\ \A k \in 1 .. m : e[k] = a[k]
      /\ \A k \in 1 .. n : e[m + k] = b[k]
  BY ConcatIs
<1>2. d = e \o c
  OBVIOUS
<1> HIDE DEF e
<1>3. /\ d \in Seq(S) /\ Len(d) = Len(e) + Len(c) /\ Len(c) \in Nat
      /\ \A k \in 1 .. Len(e) : d[k] = e[k]
      /\ \A k \in 1 .. Len(c) : d[Len(e) + k] = c[k]
  <2>1. e \in Seq(S)
    BY <1>1
  <2>2. /\ e \o c \in Seq(S) /\ Len(e \o c) = Len(e) + Len(c) /\ Len(c) \in Nat
        /\ \A k \in 1 .. Len(e) : (e \o c)[k] = e[k]
        /\ \A k \in 1 .. Len(c) : (e \o c)[Len(e) + k] = c[k]
    BY ONLY <2>1, c \in Seq(S), ConcatIs
  <2> QED BY ONLY <1>2, <2>2
<1> HIDE DEF m, n
<1>4. \A k \in 1 .. m : k \in 1 .. Len(e)
  BY <1>1
<1>5. \A k \in 1 .. n : m + k \in 1 .. Len(e)
  BY <1>1
<1>6. \A k \in 1 .. m : d[k] = a[k]
  BY <1>1, <1>3, <1>4
<1>7. \A k \in 1 .. n : d[m + k] = b[k]
  BY <1>1, <1>3, <1>5
<1>8. \A k \in 1 .. Len(c) : d[m + n + k] = c[k]
  BY <1>1, <1>3
<1> QED BY <1>1, <1>3, <1>6, <1>7, <1>8 DEF m, n

LEMMA ConcatNothing ==
  ASSUME NEW S, NEW a \in Seq(S), NEW b \in Seq(S), Len(b) = 0
  PROVE  a \o b = a
<1>1. b = <<>>
  BY EmptySeq
<1> QED BY <1>1, ConcatEmptySeq

(* t bytes of the page. *)
Part(s, start, t) == SubSeq(s, start + 1, start + t)

WithRun(s, d, start, t) == (d \o LiteralHead(t)) \o Part(s, start, t)
WithMatch(d, length, offset) == d \o MatchInstruction(length, offset)

RunAt(s, d, b, start, t, n) ==
  /\ Sound(s, n) /\ Stored(s, d, b, n)
  /\ n.out = start /\ n.length = 0
  /\ Ends(b, n) = Len(d) /\ Reach(n) = start + t

MatchAt(s, d, b, out, length, n) ==
  /\ Sound(s, n) /\ Stored(s, d, b, n)
  /\ n.out = out /\ n.length # 0 /\ n.t = 0
  /\ Ends(b, n) = Len(d) /\ Reach(n) = out + length

(* A run of literals is an instruction at the end of the block.            *)
LEMMA RunStored ==
  ASSUME NEW s \in Seq(Bytes), NEW d \in Seq(Bytes), NEW start \in Nat, NEW t \in Nat, t >= 4,
         start + t <= Len(s)
  PROVE  /\ WithRun(s, d, start, t) \in Seq(Bytes)
         /\ Len(WithRun(s, d, start, t)) = Len(d) + Len(LiteralHead(t)) + t
         /\ \A k \in 1 .. Len(d) : WithRun(s, d, start, t)[k] = d[k]
         /\ \E n : RunAt(s, WithRun(s, d, start, t), Len(d), start, t, n)
<1> DEFINE h == LiteralHead(t)
           d2 == WithRun(s, d, start, t)
           l == Part(s, start, t)
           n == [out |-> start, length |-> 0, offset |-> 0, t |-> t]
<1>1. h \in Seq(Bytes) /\ Len(h) \in Nat
  BY LiteralHeadIs
<1>2. l \in Seq(Bytes) /\ Len(l) = t /\ \A j \in 1 .. t : l[j] = s[start + j]
  BY PartOf DEF Part
<1>3. d2 = (d \o h) \o l
  BY DEF WithRun
<1>4. n.out = start /\ n.length = 0 /\ n.offset = 0 /\ n.t = t /\ n \in Node
  BY DEF Node
<1>5. Instr(n) = h /\ Low(n) = 0
  BY <1>4 DEF Instr, Low
<1> HIDE DEF h, l, n, d2
<1>6. /\ d2 \in Seq(Bytes) /\ Len(d2) = Len(d) + Len(h) + Len(l) /\ Len(d) \in Nat
      /\ \A k \in 1 .. Len(d) : d2[k] = d[k]
      /\ \A k \in 1 .. Len(h) : d2[Len(d) + k] = h[k]
      /\ \A k \in 1 .. Len(l) : d2[Len(d) + Len(h) + k] = l[k]
  <2>1. h \in Seq(Bytes) /\ l \in Seq(Bytes)
    BY <1>1, <1>2
  <2>2. Len(d) \in Nat
    BY LenProperties
  <2> QED BY ONLY <1>3, <2>1, <2>2, d \in Seq(Bytes), ThreeParts
<1>7. Ends(Len(d), n) = Len(d2) /\ Reach(n) = start + t
  BY <1>2, <1>4, <1>5, <1>6 DEF Ends, Reach
<1>8. Sound(s, n)
  BY <1>4, <1>7 DEF Sound
<1>9. Stored(s, d2, Len(d), n)
  <2>1. \A k \in 1 .. Len(h) : h[k] + 0 = h[k]
    <3>1. \A k \in 1 .. Len(h) : h[k] \in Bytes
      BY <1>1, ElementOfSeq
    <3> QED BY <3>1, BytesAreNumbers
  <2>2. \A k \in 1 .. t : d2[Len(d) + Len(h) + k] = s[start + 0 + k]
    <3>1. \A k \in 1 .. t : d2[Len(d) + Len(h) + k] = s[start + k]
      BY <1>2, <1>6
    <3>2. start + 0 = start
      OBVIOUS
    <3> QED BY <3>1, <3>2
  <2>3. \A k \in 1 .. Len(h) : d2[Len(d) + k] = IF k = Len(h) - 1 THEN h[k] + 0 ELSE h[k]
    BY <1>6, <2>1
  <2>4. Ends(Len(d), n) <= Len(d2)
    BY <1>1, <1>2, <1>6, <1>7
  <2> QED BY <1>4, <1>5, <2>2, <2>3, <2>4 DEF Stored
<1>10. RunAt(s, d2, Len(d), start, t, n)
  BY <1>4, <1>7, <1>8, <1>9 DEF RunAt
<1>11. d2 \in Seq(Bytes) /\ Len(d2) = Len(d) + Len(h) + t /\ \A k \in 1 .. Len(d) : d2[k] = d[k]
  BY <1>2, <1>6
<1> QED BY <1>10, <1>11 DEF h, d2

(* So is a match, without literals as yet.                                 *)
LEMMA MatchStored ==
  ASSUME NEW s \in Seq(Bytes), NEW d \in Seq(Bytes), NEW out \in Nat,
         NEW length \in Nat, length >= 4, NEW offset \in Nat, 1 <= offset, offset < ChunkSize,
         offset <= out, out + length <= Len(s),
         \A k \in 1 .. length : s[out + k] = s[out - offset + k]
  PROVE  /\ WithMatch(d, length, offset) \in Seq(Bytes)
         /\ Len(WithMatch(d, length, offset)) = Len(d) + Len(MatchInstruction(length, offset))
         /\ \A k \in 1 .. Len(d) : WithMatch(d, length, offset)[k] = d[k]
         /\ \E n : MatchAt(s, WithMatch(d, length, offset), Len(d), out, length, n)
<1> DEFINE h == MatchInstruction(length, offset)
           d2 == WithMatch(d, length, offset)
           n == [out |-> out, length |-> length, offset |-> offset, t |-> 0]
<1>1. h \in Seq(Bytes) /\ Len(h) \in Nat
  BY MatchInstructionIs
<1>2. d2 = d \o h
  BY DEF WithMatch
<1>3. n.out = out /\ n.length = length /\ n.offset = offset /\ n.t = 0 /\ n \in Node
  BY DEF Node
<1>4. Instr(n) = h /\ Low(n) = 0
  BY <1>3 DEF Instr, Low
<1> HIDE DEF h, n, d2
<1>5. /\ d2 \in Seq(Bytes) /\ Len(d2) = Len(d) + Len(h) /\ Len(d) \in Nat
      /\ \A k \in 1 .. Len(d) : d2[k] = d[k]
      /\ \A k \in 1 .. Len(h) : d2[Len(d) + k] = h[k]
  BY <1>1, <1>2, ConcatIs
<1>6. Ends(Len(d), n) = Len(d2) /\ Reach(n) = out + length
  BY <1>1, <1>3, <1>4, <1>5 DEF Ends, Reach
<1>7. Sound(s, n)
  BY <1>3, <1>6 DEF Sound
<1>8. Stored(s, d2, Len(d), n)
  <2>1. \A k \in 1 .. Len(h) : h[k] + 0 = h[k]
    <3>1. \A k \in 1 .. Len(h) : h[k] \in Bytes
      BY <1>1, ElementOfSeq
    <3> QED BY <3>1, BytesAreNumbers
  <2>2. \A k \in 1 .. Len(h) : d2[Len(d) + k] = IF k = Len(h) - 1 THEN h[k] + 0 ELSE h[k]
    BY <1>5, <2>1
  <2>3. Ends(Len(d), n) <= Len(d2)
    BY <1>1, <1>5, <1>6
  <2>4. \A k \in 1 .. 0 : d2[Len(d) + Len(h) + k] = s[out + length + k]
    OBVIOUS
  <2> QED BY <1>3, <1>4, <2>2, <2>3, <2>4 DEF Stored
<1>9. MatchAt(s, d2, Len(d), out, length, n)
  BY <1>3, <1>6, <1>7, <1>8 DEF MatchAt
<1> QED BY <1>5, <1>9 DEF h, d2

(* A block that ends in a match without literals, or an empty one; it      *)
(* encodes the first bytes of the page, up to reach.                       *)
MatchLast(s, d, reach) ==
  \E mark, last : /\ Written(s, d, mark, last, Len(d), reach)
                  /\ mark[last].length # 0 /\ mark[last].t = 0

Encoded(s, d, reach) == \E mark, last : Written(s, d, mark, last, Len(d), reach)

(* Its last byte but one can take the number of literals.                  *)
LEMMA MatchLastIs ==
  ASSUME NEW s, NEW d \in Seq(Bytes), NEW reach, MatchLast(s, d, reach)
  PROVE  /\ Len(d) \in Nat /\ Len(d) >= 2
         /\ d[Len(d) - 1] \in 0 .. 252 /\ d[Len(d) - 1] % 4 = 0
<1>1. PICK mark, last : /\ Written(s, d, mark, last, Len(d), reach)
                        /\ mark[last].length # 0 /\ mark[last].t = 0
  BY DEF MatchLast
<1> DEFINE n == mark[last]
           h == Len(Instr(n))
<1>2. last \in Nat /\ Sound(s, n) /\ Stored(s, d, last, n) /\ Ends(last, n) = Len(d)
  BY <1>1 DEF Written
<1>3. /\ h \in Nat /\ h >= 2 /\ n.t = 0 /\ Low(n) = 0
      /\ Instr(n)[h - 1] \in 0 .. 252 /\ Instr(n)[h - 1] % 4 = 0
  BY <1>1, <1>2, InstrIs
<1>4. Len(d) = last + h /\ Len(d) \in Nat /\ Len(d) >= 2
  BY <1>2, <1>3 DEF Ends
<1>5. d[last + (h - 1)] = Instr(n)[h - 1] + 0
  <2>1. h - 1 \in 1 .. h
    BY <1>3
  <2> QED BY <1>2, <1>3, <2>1 DEF Stored
<1> HIDE DEF n, h
<1>6. last + (h - 1) = Len(d) - 1
  BY <1>2, <1>3, <1>4
<1>7. Instr(n)[h - 1] + 0 = Instr(n)[h - 1]
  BY <1>3, LowByte
<1> QED BY <1>3, <1>4, <1>5, <1>6, <1>7

(* One to three literals after a match.                                    *)
WithFew(s, d, reach, t) == WithLowBits(d, t) \o Part(s, reach, t)

LEMMA LowBitsStored ==
  ASSUME NEW s \in Seq(Bytes), NEW d \in Seq(Bytes), NEW reach \in Nat, MatchLast(s, d, reach),
         NEW t \in 1 .. 3, reach + t <= Len(s)
  PROVE  /\ WithFew(s, d, reach, t) \in Seq(Bytes)
         /\ Len(WithFew(s, d, reach, t)) = Len(d) + t
         /\ Len(WithLowBits(d, t)) = Len(d)
         /\ Encoded(s, WithFew(s, d, reach, t), reach + t)
<1> DEFINE w == WithLowBits(d, t)
           l == SubSeq(s, reach + 1, reach + t)
           e == Len(d)
           d2 == WithFew(s, d, reach, t)
<1>9. d2 = w \o l
  BY DEF WithFew, Part
<1>1. e \in Nat /\ e >= 2 /\ d[e - 1] \in 0 .. 252
  BY MatchLastIs
<1>2. t \in Nat /\ l \in Seq(Bytes) /\ Len(l) = t /\ \A j \in 1 .. t : l[j] = s[reach + j]
  BY PartOf
<1>3. d \in [1 .. e -> Bytes] /\ DOMAIN d = 1 .. e
  BY LenProperties
<1>4. w = [d EXCEPT ![e - 1] = d[e - 1] + t]
  BY DEF WithLowBits
<1>5. d[e - 1] + t \in Bytes
  BY <1>1, LowByte
<1>6. w \in [1 .. e -> Bytes]
  BY <1>3, <1>4, <1>5
<1>7. \A k \in 1 .. e : w[k] = IF k = e - 1 THEN d[k] + t ELSE d[k]
  BY <1>3, <1>4
<1> HIDE DEF w, l, e, d2
<1>8. w \in Seq(Bytes) /\ Len(w) = e
  <2>1. w \in Seq(Bytes)
    BY <1>1, <1>6
  <2>2. DOMAIN w = 1 .. Len(w) /\ Len(w) \in Nat
    BY <2>1, LenProperties
  <2>3. DOMAIN w = 1 .. e
    BY <1>6
  <2>4. Len(w) = e
    <3>1. 1 .. Len(w) = 1 .. e
      BY <2>2, <2>3
    <3> QED BY <1>1, <2>2, <3>1, SameInterval
  <2> QED BY <2>1, <2>4

<1>10. /\ w \o l \in Seq(Bytes) /\ Len(w \o l) = Len(w) + Len(l)
       /\ \A k \in 1 .. Len(w) : (w \o l)[k] = w[k]
       /\ \A k \in 1 .. Len(l) : (w \o l)[Len(w) + k] = l[k]
  <2>1. w \in Seq(Bytes) /\ l \in Seq(Bytes)
    BY <1>2, <1>8
  <2> QED BY ONLY <2>1, ConcatIs
<1>11. /\ d2 \in Seq(Bytes) /\ Len(d2) = e + t
       /\ \A k \in 1 .. e : d2[k] = IF k = e - 1 THEN d[k] + t ELSE d[k]
       /\ \A k \in 1 .. t : d2[e + k] = s[reach + k]
  <2>1. \A k \in 1 .. e : d2[k] = IF k = e - 1 THEN d[k] + t ELSE d[k]
    BY <1>7, <1>8, <1>9, <1>10
  <2>2. \A k \in 1 .. t : d2[e + k] = s[reach + k]
    BY <1>2, <1>8, <1>9, <1>10
  <2> QED BY <1>2, <1>8, <1>9, <1>10, <2>1, <2>2
<1>12. PICK mark, last : /\ Written(s, d, mark, last, Len(d), reach)
                         /\ mark[last].length # 0 /\ mark[last].t = 0
  BY DEF MatchLast
<1>13. \E mark2 : Written(s, d2, mark2, last, Len(d2), reach + t)
  <2>1. /\ Len(d2) = Len(d) + t
        /\ \A k \in 1 .. Len(d) : d2[k] = IF k = Len(d) - 1 THEN d[k] + t ELSE d[k]
        /\ \A k \in 1 .. t : d2[Len(d) + k] = s[reach + k]
    BY <1>11 DEF e
  <2>2. t \in 1 .. 3 /\ reach + t <= Len(s) /\ d \in Seq(Bytes)
    OBVIOUS
  <2> QED BY ONLY <2>1, <2>2, <1>12, WrittenLowBits
<1>14. Encoded(s, d2, reach + t)
  BY <1>13 DEF Encoded
<1> QED BY <1>8, <1>11, <1>14 DEF e, w, d2

(* Literals after a match, or at the beginning of the block.               *)
BlockFor(d, t) == IF t = 0 THEN d
                  ELSE IF t <= 3 THEN WithLowBits(d, t)
                  ELSE d \o LiteralHead(t)

WithLiterals(s, d, reach, t) == BlockFor(d, t) \o Part(s, reach, t)

LEMMA LiteralsStored ==
  ASSUME NEW s \in Seq(Bytes), NEW d \in Seq(Bytes), NEW reach \in Nat,
         d # <<>> => MatchLast(s, d, reach),
         NEW t \in Nat, reach + t <= Len(s), d = <<>> => reach = 0 /\ t >= 4
  PROVE  /\ WithLiterals(s, d, reach, t) \in Seq(Bytes) /\ WithLiterals(s, d, reach, t) # <<>>
         /\ Len(BlockFor(d, t)) \in Nat
         /\ Len(WithLiterals(s, d, reach, t)) = Len(BlockFor(d, t)) + t
         /\ t = 0 => WithLiterals(s, d, reach, t) = d
         /\ t <= 3 => Len(BlockFor(d, t)) = Len(d)
         /\ 16 * (Len(BlockFor(d, t)) - Len(d) - 1) <= t
         /\ Encoded(s, WithLiterals(s, d, reach, t), reach + t)
<1> DEFINE block == BlockFor(d, t)
           d2    == WithLiterals(s, d, reach, t)
<1>a. block = IF t = 0 THEN d
              ELSE IF t <= 3 THEN WithLowBits(d, t)
              ELSE d \o LiteralHead(t)
  BY DEF BlockFor
<1>b. d2 = block \o SubSeq(s, reach + 1, reach + t)
  BY DEF WithLiterals, Part
<1> SUFFICES /\ d2 \in Seq(Bytes) /\ d2 # <<>>
             /\ Len(block) \in Nat /\ Len(d2) = Len(block) + t
             /\ t = 0 => d2 = d
             /\ t <= 3 => Len(block) = Len(d)
             /\ 16 * (Len(block) - Len(d) - 1) <= t
             /\ Encoded(s, d2, reach + t)
  OBVIOUS
<1> HIDE DEF block, d2
<1>1. Len(d) \in Nat
  BY LenProperties
<1>2. CASE t = 0
  <2>1. d # <<>>
    BY <1>2
  <2> DEFINE l == SubSeq(s, reach + 1, reach + t)
  <2>2. l \in Seq(Bytes) /\ Len(l) = 0
    BY <1>2, PartOf
  <2>3. d2 = d \o l /\ block = d
    BY <1>2, <1>a, <1>b
  <2> HIDE DEF l
  <2>4. d2 = d
    BY <2>2, <2>3, ConcatNothing
  <2>5. Encoded(s, d, reach)
    BY <2>1 DEF MatchLast, Encoded
  <2>6. reach + t = reach
    BY <1>2
  <2>7. Len(d2) = Len(block) + t /\ 16 * (Len(block) - Len(d) - 1) <= t /\ Len(block) = Len(d)
    BY ONLY <1>1, <1>2, <2>3, <2>4
  <2> QED BY <1>1, <1>2, <2>1, <2>4, <2>5, <2>6, <2>7
<1>3. CASE t \in 1 .. 3
  <2>1. block = WithLowBits(d, t) /\ MatchLast(s, d, reach)
    BY <1>3, <1>a
  <2>2. d2 = WithFew(s, d, reach, t)
    BY <2>1, <1>b DEF WithFew, Part
  <2>3. /\ d2 \in Seq(Bytes) /\ Len(d2) = Len(d) + t
        /\ Len(WithLowBits(d, t)) = Len(d)
        /\ Encoded(s, d2, reach + t)
    BY <1>3, <2>1, <2>2, LowBitsStored
  <2>4. d2 # <<>>
    BY <1>1, <1>3, <2>3
  <2>5. Len(d2) = Len(block) + t /\ 16 * (Len(block) - Len(d) - 1) <= t /\ Len(block) = Len(d) /\ t # 0
    BY ONLY <1>1, <1>3, <2>1, <2>3
  <2> QED BY <1>1, <2>3, <2>4, <2>5
<1>4. CASE t >= 4
  <2> DEFINE h == LiteralHead(t)
  <2>1. h \in Seq(Bytes) /\ Len(h) \in Nat \ {0} /\ 16 * (Len(h) - 1) <= t
    BY <1>4, LiteralHeadIs, LiteralHeadShort
  <2>2. block = d \o h
    BY <1>4, <1>a
  <2>3. d2 = (d \o LiteralHead(t)) \o SubSeq(s, reach + 1, reach + t)
    BY <2>2, <1>b
  <2>a. s \in Seq(Bytes) /\ d \in Seq(Bytes) /\ reach \in Nat /\ t \in Nat /\ reach + t <= Len(s)
    OBVIOUS
  <2>4. /\ d2 \in Seq(Bytes) /\ Len(d2) = Len(d) + Len(h) + t
        /\ \A k \in 1 .. Len(d) : d2[k] = d[k]
        /\ \E n : RunAt(s, d2, Len(d), reach, t, n)
    <3>1. d2 = (d \o LiteralHead(t)) \o Part(s, reach, t)
      BY <2>3 DEF Part
    <3> DEFINE e == WithRun(s, d, reach, t)
    <3>2. e \in Seq(Bytes) /\ Len(e) = Len(d) + Len(LiteralHead(t)) + t /\ \A k \in 1 .. Len(d) : e[k] = d[k]
      BY <1>4, RunStored
    <3>3. \E n : RunAt(s, e, Len(d), reach, t, n)
      BY <1>4, RunStored, Zenon
    <3>4. e = d2
      BY <3>1 DEF WithRun
    <3> QED BY ONLY <3>2, <3>3, <3>4
  <2>5. PICK n : /\ Sound(s, n) /\ Stored(s, d2, Len(d), n)
                 /\ n.out = reach /\ n.length = 0
                 /\ Ends(Len(d), n) = Len(d2) /\ Reach(n) = reach + t
    BY <2>4 DEF RunAt
  <2> HIDE DEF h
  <2>6. Len(block) = Len(d) + Len(h)
    BY <2>1, <2>2, ConcatIs
  <2>b. Len(d2) \in Nat /\ Len(d2) > 0 /\ Len(d) <= Len(d2)
    BY ONLY <1>1, <1>4, <2>1, <2>4, <2>a
  <2>7. d2 # <<>>
    BY <2>b
  <2>8. Encoded(s, d2, reach + t)
    <3>1. CASE d = <<>>
      <4>1. Len(d) = 0 /\ reach = 0
        BY <3>1
      <4>2. \E mark, last : Written(s, d2, mark, last, Ends(0, n), Reach(n))
        BY <2>5, <4>1, WrittenFirst
      <4> QED BY <2>5, <4>1, <4>2 DEF Encoded
    <3>2. CASE d # <<>>
      <4>1. PICK mark, last : /\ Written(s, d, mark, last, Len(d), reach)
                              /\ mark[last].length # 0 /\ mark[last].t = 0
        BY <3>2 DEF MatchLast
      <4>3. Written(s, d2, mark, last, Len(d), reach)
        BY <1>1, <2>4, <2>b, <4>1, WrittenLonger
      <4>4. ~ (mark[last].length = 0 \/ mark[last].t > 0)
        BY <4>1
      <4>5. \E mark2, last2 : Written(s, d2, mark2, last2, Ends(Len(d), n), Reach(n))
        BY <2>5, <4>3, <4>4, WrittenNext
      <4> QED BY <2>5, <4>5 DEF Encoded
    <3> QED BY <3>1, <3>2
  <2>9. /\ Len(block) \in Nat /\ Len(d2) = Len(block) + t /\ 16 * (Len(block) - Len(d) - 1) <= t
        /\ ~ (t <= 3) /\ t # 0
    BY ONLY <1>1, <1>4, <2>1, <2>4, <2>6, <2>a
  <2> QED BY <2>4, <2>7, <2>8, <2>9
<1>5. t = 0 \/ t \in 1 .. 3 \/ t >= 4
  OBVIOUS
<1> QED BY ONLY <1>2, <1>3, <1>4, <1>5

-----------------------------------------------------------------------------
(* What has been written, and how much of it there is                      *)

(* A page without a match, encoded in one instruction.                     *)
ShortBlock(s, d) ==
  /\ Len(s) <= FirstRunMax /\ Len(d) = Len(s) + 4
  /\ d[1] = 17 + Len(s)
  /\ \A k \in 1 .. Len(s) : d[1 + k] = s[k]

Terminated(d) == Len(d) >= 3 /\ d[Len(d) - 2] = 17 /\ d[Len(d) - 1] = 0 /\ d[Len(d)] = 0

(* A block for the whole page.                                             *)
Complete(s, d) ==
  /\ Terminated(d)
  /\ \/ ShortBlock(s, d)
     \/ \E mark, last : Written(s, d, mark, last, Len(d) - 3, Len(s))

(* Before the next literals: what comes before reach is in the block, with *)
(* a byte more for sixteen of it, and ends with a match.                   *)
Ready(reach) ==
  /\ dest = <<>> => reach = 0
  /\ dest # <<>> => MatchLast(src, dest, reach) /\ op = matched
  /\ op <= reach + (reach \div 16)

Tape ==
  /\ dest \in Seq(Bytes)
  /\ touched \in Nat /\ touched <= max_compr_len(in_len)
  /\ pc = "chunk" => Ready(in - ti)
  /\ pc \in {"search", "literals"} => Ready(ii - ti) /\ (dest = <<>> => ip >= 4)
  /\ pc = "match" => Encoded(src, dest, ip) /\ op <= ip + (ip \div 16) + 1
  /\ pc = "compressed" => Complete(src, dest) /\ op <= max_compr_len(in_len)

LEMMA MaxComprLenIs ==
  ASSUME NEW n \in Nat
  PROVE  max_compr_len(n) \in Nat /\ max_compr_len(n) = n + (n \div 16) + 67
  BY DEF max_compr_len

(* Sixteenths add up.                                                      *)
LEMMA Sixteenths ==
  ASSUME NEW a \in Nat, NEW b \in Nat, NEW e \in Int, 16 * e <= b
  PROVE  /\ a \div 16 \in Nat /\ (a + b) \div 16 \in Nat
         /\ (a \div 16) + e <= (a + b) \div 16
  OBVIOUS

LEMMA TapeInit == CompressInit => Tape
<1> SUFFICES ASSUME CompressInit PROVE Tape
  OBVIOUS
<1>1. Positions
  BY PositionsInit
<1>2. in_len \in Nat /\ max_compr_len(in_len) \in Nat
  BY <1>1, MaxComprLenIs DEF Positions, in_len
<1>3. dest = <<>> /\ op = 0 /\ in - ti = 0 /\ pc = "chunk" /\ touched = 0
  BY DEF CompressInit, op
<1>4. Ready(in - ti)
  BY <1>3 DEF Ready
<1>5. dest \in Seq(Bytes)
  BY <1>3
<1> QED BY <1>2, <1>3, <1>4, <1>5 DEF Tape

LEMMA NextChunkTape == Positions /\ Tape /\ NextChunk => Tape'
<1> SUFFICES ASSUME Positions, Tape, NextChunk PROVE Tape'
  OBVIOUS
<1>1. /\ pc = "chunk" /\ pc' = "search" /\ dest' = dest /\ src' = src /\ touched' = touched
      /\ ii' = in /\ ti' = ti /\ ip' = Skipped(FirstPosition(in), in)
      /\ in_len' = in_len /\ matched' = matched
  BY DEF NextChunk, in_len
<1>2. Ready(in - ti)
  BY <1>1 DEF Tape
<1>3. Ready(ii - ti)'
  BY <1>1, <1>2 DEF Ready, op
<1>4. in \in Nat /\ ti \in Nat /\ ti <= in
  BY <1>1 DEF Positions, in_len
<1>5. FirstPosition(in) \in Nat /\ FirstPosition(in) >= in
      /\ FirstPosition(in) >= in + 4 - ti
  BY <1>4, MaxOfTwo DEF FirstPosition
<1>6. ip' > FirstPosition(in) /\ ip' \in Nat
  BY <1>1, <1>4, <1>5, SkippedIs
<1>7. dest = <<>> => in - ti = 0
  BY <1>2 DEF Ready
<1>8. dest' = <<>> => ip' >= 4
  BY <1>1, <1>4, <1>5, <1>6, <1>7
<1> QED BY <1>1, <1>3, <1>8 DEF Tape

LEMMA FindMatchTape == Positions /\ Tape /\ FindMatch => Tape'
<1> SUFFICES ASSUME Positions, Tape, FindMatch PROVE Tape'
  OBVIOUS
<1>1. /\ pc = "search" /\ dest' = dest /\ src' = src /\ touched' = touched /\ ii' = ii
      /\ in_end' = in_end /\ in_len' = in_len /\ op' = op /\ matched' = matched
  BY DEF FindMatch, in_len, op
<1>2. Ready(ii - ti) /\ (dest = <<>> => ip >= 4)
  BY <1>1 DEF Tape
<1>3. ii \in Nat /\ ti \in Nat /\ in_end \in Nat /\ ti <= ii /\ ip \in Nat /\ ii <= ip
  BY <1>1 DEF Positions, in_len
<1>4. CASE ip >= ip_end
  <2>1. pc' = "chunk" /\ in' - ti' = ii - ti
    BY <1>3, <1>4 DEF FindMatch
  <2>2. Ready(in - ti)'
    BY <1>1, <1>2, <2>1 DEF Ready, op
  <2> QED BY <1>1, <2>1, <2>2 DEF Tape
<1>5. CASE ~ (ip >= ip_end)
  <2>1. ti' = ti /\ pc' \in {"search", "literals"} /\ (ip' = ip \/ ip' = Skipped(ip, ii))
    BY <1>1, <1>5 DEF FindMatch
  <2>2. ip' \in Nat /\ ip' >= ip
    BY <1>3, <2>1, SkippedIs
  <2>3. Ready(ii - ti)'
    BY <1>1, <1>2, <2>1 DEF Ready, op
  <2>4. dest' = <<>> => ip' >= 4
    BY <1>1, <1>2, <1>3, <2>2
  <2> QED BY <1>1, <2>1, <2>3, <2>4 DEF Tape
<1> QED BY <1>4, <1>5

LEMMA EncodeLiteralsTape == Positions /\ Tape /\ EncodeLiterals => Tape'
<1> SUFFICES ASSUME Positions, Tape, EncodeLiterals PROVE Tape'
  OBVIOUS
<1> DEFINE start == ii - ti
           t     == ip - start
           room  == IF t <= 3 THEN 4 ELSE IF t <= 16 THEN 16 ELSE t
           block == BlockFor(dest, t)
<1>1. /\ pc = "literals" /\ pc' = "match" /\ src' = src /\ ip' = ip /\ in_len' = in_len
      /\ dest' = WithLiterals(src, dest, start, t)
      /\ touched' = Max({touched, IF t = 0 THEN op ELSE Len(block) + room})
  BY DEF EncodeLiterals, BlockFor, WithLiterals, Part, Literals, in_len
<1>2. /\ src \in Seq(Bytes) /\ in_len \in Nat
      /\ start \in Nat /\ t \in Nat /\ start + t = ip /\ ip \in Nat /\ ip <= in_len
  BY <1>1, FormatFacts DEF Positions, in_len, ip_end
<1>3. /\ dest \in Seq(Bytes) /\ touched \in Nat /\ touched <= max_compr_len(in_len)
      /\ Ready(start) /\ (dest = <<>> => ip >= 4)
  BY <1>1 DEF Tape
<1>4. /\ op \in Nat /\ op <= start + (start \div 16)
      /\ dest = <<>> => start = 0
      /\ dest # <<>> => MatchLast(src, dest, start)
  BY <1>3, LenProperties DEF Ready, op
<1> HIDE DEF start, t, block
<1>5. dest = <<>> => start = 0 /\ t >= 4
  BY <1>2, <1>3, <1>4
<1>6. /\ dest' \in Seq(Bytes) /\ Len(block) \in Nat /\ Len(dest') = Len(block) + t
      /\ t = 0 => dest' = dest
      /\ 16 * (Len(block) - op - 1) <= t
      /\ Encoded(src, dest', ip)
  <2> DEFINE d2 == WithLiterals(src, dest, start, t)
  <2>1. start + t <= Len(src)
    BY <1>2 DEF in_len
  <2>2. /\ d2 \in Seq(Bytes)
        /\ Len(BlockFor(dest, t)) \in Nat
        /\ Len(d2) = Len(BlockFor(dest, t)) + t
        /\ t = 0 => d2 = dest
        /\ 16 * (Len(BlockFor(dest, t)) - Len(dest) - 1) <= t
        /\ Encoded(src, d2, start + t)
    <3>1. /\ src \in Seq(Bytes) /\ dest \in Seq(Bytes) /\ start \in Nat /\ t \in Nat
          /\ dest # <<>> => MatchLast(src, dest, start)
          /\ dest = <<>> => start = 0 /\ t >= 4
      BY <1>2, <1>3, <1>4, <1>5
    <3>2. Encoded(src, d2, start + t)
      BY ONLY <2>1, <3>1, LiteralsStored, Zenon
    <3>3. /\ d2 \in Seq(Bytes)
          /\ Len(BlockFor(dest, t)) \in Nat
          /\ Len(d2) = Len(BlockFor(dest, t)) + t
          /\ t = 0 => d2 = dest
          /\ 16 * (Len(BlockFor(dest, t)) - Len(dest) - 1) <= t
      BY ONLY <2>1, <3>1, LiteralsStored
    <3> QED BY <3>2, <3>3
  <2>3. start + t = ip /\ dest' = d2
    BY <1>1, <1>2
  <2> HIDE DEF d2
  <2> QED BY <2>2, <2>3 DEF op, block
<1> DEFINE size == Len(dest')
           b    == Len(block)
           q    == ip \div 16
           n    == in_len
<1>7. (start \div 16) + (b - op - 1) <= q /\ q \in Nat /\ start \div 16 \in Nat
  <2>1. b - op - 1 \in Int /\ 16 * (b - op - 1) <= t
    BY <1>4, <1>6
  <2>2. ip = start + t
    BY <1>2
  <2> QED BY <1>2, <2>1, <2>2, Sixteenths
<1>b. start \div 16 <= q
  <2>1. 0 \in Int /\ 16 * 0 <= t /\ ip = start + t
    BY <1>2
  <2>2. (start \div 16) + 0 <= q
    BY <1>2, <2>1, Sixteenths
  <2> QED BY <1>7, <2>2
<1>8. q <= n \div 16 /\ n \div 16 \in Nat
  BY <1>2
<1>9. max_compr_len(n) \in Nat /\ max_compr_len(n) = n + (n \div 16) + 67
  BY <1>2, MaxComprLenIs
<1>a. size = b + t /\ b \in Nat
  BY <1>6
<1> HIDE DEF size, b, q, n, room
<1>10. size <= ip + q + 1
  BY <1>2, <1>4, <1>7, <1>a
<1>11. b + 16 <= n + (n \div 16) + 67 /\ b + t <= n + (n \div 16) + 67
  BY <1>2, <1>4, <1>7, <1>8, <1>a DEF n
<1>12. room \in Nat /\ (room <= 16 \/ room = t)
  BY <1>2 DEF room
<1>13. touched' \in Nat /\ touched' <= max_compr_len(n)
  <2> DEFINE last == IF t = 0 THEN op ELSE b + room
  <2>1. op <= max_compr_len(n)
    BY <1>2, <1>4, <1>7, <1>8, <1>9, <1>b DEF n
  <2>2. last \in Nat /\ last <= max_compr_len(n)
    BY <1>4, <1>9, <1>11, <1>12, <1>a, <2>1
  <2>3. touched' = Max({touched, last})
    BY <1>1 DEF b
  <2> HIDE DEF last
  <2> QED BY <1>3, <2>2, <2>3, MaxOfTwo DEF n
<1>14. (op <= ip + (ip \div 16) + 1)'
  BY <1>1, <1>10 DEF size, q, op
<1> QED BY <1>1, <1>6, <1>13, <1>14 DEF Tape, n

(* A match after the literals before it.                                   *)
LEMMA MatchAdded ==
  ASSUME NEW s \in Seq(Bytes), NEW d \in Seq(Bytes), NEW out \in Nat,
         NEW length \in Nat, length >= 4, NEW offset \in Nat, 1 <= offset, offset < ChunkSize,
         offset <= out, out + length <= Len(s),
         \A k \in 1 .. length : s[out + k] = s[out - offset + k],
         Encoded(s, d, out)
  PROVE  MatchLast(s, WithMatch(d, length, offset), out + length)
<1> DEFINE d2 == WithMatch(d, length, offset)
<1>1. /\ d2 \in Seq(Bytes) /\ Len(d2) = Len(d) + Len(MatchInstruction(length, offset))
      /\ \A k \in 1 .. Len(d) : d2[k] = d[k]
  <2>1. MatchInstruction(length, offset) \in Seq(Bytes)
    BY MatchInstructionIs
  <2> QED BY <2>1, ConcatIs DEF WithMatch
<1>2. \E n : MatchAt(s, d2, Len(d), out, length, n)
  BY MatchStored, Zenon
<1>3. Len(d2) \in Nat /\ Len(d) \in Nat /\ Len(d) <= Len(d2)
  BY <1>1, LenProperties, MatchInstructionIs
<1> HIDE DEF d2
<1>4. PICK mark, last : Written(s, d, mark, last, Len(d), out)
  BY DEF Encoded
<1>5. Written(s, d2, mark, last, Len(d), out)
  BY <1>1, <1>3, <1>4, WrittenLonger
<1>6. PICK n : MatchAt(s, d2, Len(d), out, length, n)
  BY <1>2
<1>7. /\ Sound(s, n) /\ Stored(s, d2, Len(d), n) /\ n.out = out /\ n.length # 0 /\ n.t = 0
      /\ Ends(Len(d), n) = Len(d2) /\ Reach(n) = out + length
  BY <1>6 DEF MatchAt
<1>8. \E mark2, last2 : /\ Written(s, d2, mark2, last2, Ends(Len(d), n), Reach(n))
                        /\ mark2[last2] = n
  BY <1>5, <1>7, WrittenNext
<1>9. PICK mark2, last2 : /\ Written(s, d2, mark2, last2, Ends(Len(d), n), Reach(n))
                          /\ mark2[last2] = n
  BY <1>8
<1>10. MatchLast(s, d2, out + length)
  BY <1>7, <1>9 DEF MatchLast
<1> QED BY <1>10 DEF d2

LEMMA EncodeMatchTape == Positions /\ Tape /\ EncodeMatch => Tape'
<1> SUFFICES ASSUME Positions, Tape, EncodeMatch PROVE Tape'
  OBVIOUS
<1> DEFINE length == m_len
           offset == ip - m_pos
           d2     == WithMatch(dest, length, offset)
<1>1. /\ pc = "match" /\ pc' = "search" /\ src' = src /\ in_len' = in_len
      /\ dest' = d2 /\ touched' = Max({touched, Len(dest')})
      /\ matched' = Len(dest') /\ ii' = ip + length /\ ti' = ti
  BY DEF EncodeMatch, WithMatch, in_len
<1>2. /\ length \in Nat /\ length >= 4 /\ ip + length <= in_end
      /\ SameBytes(ip, m_pos, length)
  BY <1>1, MatchLengthIs
<1>3. /\ src \in Seq(Bytes) /\ in_len \in Nat /\ ip \in Nat /\ m_pos \in Nat
      /\ in_end \in Nat /\ in_end <= in_len /\ ti = 0
      /\ m_pos < ip /\ ip - m_pos < ChunkSize
  BY <1>1, FormatFacts DEF Positions, in_len, ip_end
<1>4. /\ offset \in Nat /\ 1 <= offset /\ offset < ChunkSize /\ offset <= ip /\ ip - offset = m_pos
  BY <1>3
<1>5. /\ dest \in Seq(Bytes) /\ touched \in Nat /\ touched <= max_compr_len(in_len)
      /\ Encoded(src, dest, ip) /\ op <= ip + (ip \div 16) + 1
  BY <1>1 DEF Tape
<1> HIDE DEF length, offset
<1>6. \A k \in 1 .. length : src[ip + k] = src[ip - offset + k]
  BY <1>2, <1>4 DEF SameBytes
<1>7. ip + length <= Len(src)
  BY <1>2, <1>3 DEF in_len
<1>8. MatchLast(src, d2, ip + length)
  BY <1>2, <1>3, <1>4, <1>5, <1>6, <1>7, MatchAdded
<1> DEFINE head == MatchInstruction(length, offset)
<1>9. /\ head \in Seq(Bytes) /\ Len(head) \in Nat /\ Len(head) < length
  BY <1>2, <1>4, MatchInstructionIs, MatchInstructionShort
<1> HIDE DEF head
<1>10. d2 \in Seq(Bytes) /\ Len(d2) = op + Len(head) /\ op \in Nat
  <2>1. d2 = dest \o head
    BY DEF WithMatch, head
  <2> QED BY <1>5, <1>9, <2>1, ConcatIs DEF op
<1> DEFINE size == Len(d2)
           reach == ip + length
<1>11. ip \div 16 <= reach \div 16 /\ ip \div 16 \in Nat /\ reach \div 16 \in Nat
  BY <1>2, <1>3
<1>12. size <= reach + (reach \div 16) /\ size \in Nat
  <2> DEFINE a == ip \div 16
             b == reach \div 16
  <2> HIDE DEF a, b
  <2> QED BY <1>2, <1>3, <1>5, <1>9, <1>10, <1>11 DEF a, b
<1>13. size <= max_compr_len(in_len) /\ max_compr_len(in_len) \in Nat
  <2>1. reach <= in_len /\ reach \in Nat /\ reach \div 16 <= in_len \div 16
    BY <1>2, <1>3
  <2>2. max_compr_len(in_len) \in Nat /\ max_compr_len(in_len) = in_len + (in_len \div 16) + 67
    BY <1>3, MaxComprLenIs
  <2> QED BY <1>3, <1>11, <1>12, <2>1, <2>2
<1> HIDE DEF size, reach, d2
<1>14. touched' \in Nat /\ touched' <= max_compr_len(in_len)
  <2>1. touched' = Max({touched, size})
    BY <1>1 DEF size
  <2> QED BY <1>5, <1>12, <1>13, <2>1, MaxOfTwo
<1>15. (ii - ti)' = reach
  BY <1>1, <1>2, <1>3 DEF reach
<1>17. dest' # <<>>
  <2>1. Len(dest') # 0
    BY <1>1, <1>10, MatchInstructionIs, <1>2, <1>4 DEF head
  <2> QED BY <2>1
<1>16. Ready(ii - ti)'
  <2>1. op' = size /\ matched' = size
    BY <1>1 DEF op, size
  <2>2. MatchLast(src, dest, ii - ti)'
    BY <1>1, <1>8, <1>15 DEF reach
  <2> QED BY <1>12, <1>15, <1>17, <2>1, <2>2 DEF Ready
<1> QED BY <1>1, <1>10, <1>14, <1>16, <1>17 DEF Tape

LEMMA EndAdded ==
  ASSUME NEW a \in Seq(Bytes)
  PROVE  /\ a \o EndOfBlock \in Seq(Bytes) /\ Len(a \o EndOfBlock) = Len(a) + 3
         /\ Len(a) \in Nat
         /\ \A k \in 1 .. Len(a) : (a \o EndOfBlock)[k] = a[k]
         /\ Terminated(a \o EndOfBlock)
<1> DEFINE z == EndOfBlock
           d == a \o z
           m == Len(a)
<1>1. z \in Seq(Bytes) /\ Len(z) = 3 /\ z[1] = 17 /\ z[2] = 0 /\ z[3] = 0
  <2>1. z = <<17, 0, 0>> /\ 17 \in Bytes /\ 0 \in Bytes
    BY FormatFacts DEF EndOfBlock, Bytes
  <2> QED BY <2>1
<1>a. z \in Seq(Bytes)
  BY <1>1
<1> HIDE DEF z
<1>2. /\ m \in Nat /\ d \in Seq(Bytes) /\ Len(d) = m + Len(z)
      /\ \A k \in 1 .. m : d[k] = a[k]
      /\ \A k \in 1 .. Len(z) : d[m + k] = z[k]
  BY ONLY <1>a, a \in Seq(Bytes), ConcatIs
<1> HIDE DEF d, m
<1>3. d[m + 1] = 17 /\ d[m + 2] = 0 /\ d[m + 3] = 0
  BY <1>1, <1>2
<1>4. Len(d) = m + 3 /\ Len(d) - 2 = m + 1 /\ Len(d) - 1 = m + 2 /\ Len(d) >= 3
  BY <1>1, <1>2
<1>5. Terminated(d)
  BY <1>3, <1>4 DEF Terminated
<1> QED BY <1>2, <1>4, <1>5 DEF d, m, z

(* A page without a match.                                                 *)
LEMMA ShortStored ==
  ASSUME NEW s \in Seq(Bytes), Len(s) <= FirstRunMax,
         NEW d, d = (<<17 + Len(s)>> \o Part(s, 0, Len(s))) \o EndOfBlock
  PROVE  d \in Seq(Bytes) /\ Terminated(d) /\ ShortBlock(s, d)
<1> DEFINE u == <<17 + Len(s)>>
           l == Part(s, 0, Len(s))
           a == u \o l
<1>1. Len(s) \in Nat /\ FirstRunMax <= 238 /\ FirstRunMax \in Nat
  BY LenProperties, FormatFacts
<1>2. u \in Seq(Bytes) /\ Len(u) = 1 /\ u[1] = 17 + Len(s)
  <2> DEFINE x == 17 + Len(s)
  <2>1. x \in Bytes
    <3> DEFINE m == Len(s)
    <3>1. m \in Nat /\ m <= 238
      BY <1>1
    <3> HIDE DEF m
    <3>2. 17 + m \in 0 .. 255
      BY <3>1
    <3> QED BY <3>2 DEF m, Bytes
  <2> HIDE DEF x
  <2>2. <<x>> \in Seq(Bytes) /\ Len(<<x>>) = 1 /\ <<x>>[1] = x
    BY <2>1
  <2> QED BY <2>2 DEF x
<1>3. l \in Seq(Bytes) /\ Len(l) = Len(s) /\ \A j \in 1 .. Len(s) : l[j] = s[j]
  <2>1. /\ SubSeq(s, 0 + 1, 0 + Len(s)) \in Seq(Bytes)
        /\ Len(SubSeq(s, 0 + 1, 0 + Len(s))) = Len(s)
        /\ \A j \in 1 .. Len(s) : SubSeq(s, 0 + 1, 0 + Len(s))[j] = s[0 + j]
    BY <1>1, PartOf
  <2>2. \A j \in 1 .. Len(s) : 0 + j = j
    OBVIOUS
  <2> QED BY <2>1, <2>2 DEF Part
<1>a. u \in Seq(Bytes) /\ l \in Seq(Bytes)
  BY <1>2, <1>3
<1> HIDE DEF u, l
<1>4. /\ a \in Seq(Bytes) /\ Len(a) = Len(u) + Len(l)
      /\ \A k \in 1 .. Len(u) : a[k] = u[k]
      /\ \A k \in 1 .. Len(l) : a[Len(u) + k] = l[k]
  BY ONLY <1>a, ConcatIs
<1>5. d = a \o EndOfBlock
  BY DEF u, l
<1>b. a \in Seq(Bytes)
  BY <1>4
<1> HIDE DEF a
<1>6. /\ a \o EndOfBlock \in Seq(Bytes) /\ Len(a \o EndOfBlock) = Len(a) + 3
      /\ \A k \in 1 .. Len(a) : (a \o EndOfBlock)[k] = a[k]
      /\ Terminated(a \o EndOfBlock)
  BY ONLY <1>b, EndAdded
<1>7. /\ d \in Seq(Bytes) /\ Len(d) = Len(a) + 3
      /\ \A k \in 1 .. Len(a) : d[k] = a[k]
      /\ Terminated(d)
  BY ONLY <1>5, <1>6
<1>8. Len(a) = Len(s) + 1 /\ a[1] = 17 + Len(s) /\ \A k \in 1 .. Len(s) : a[1 + k] = s[k]
  BY <1>1, <1>2, <1>3, <1>4
<1>9. d[1] = a[1] /\ \A k \in 1 .. Len(s) : d[1 + k] = a[1 + k]
  <2> DEFINE m == Len(a)
  <2>1. 1 \in 1 .. m /\ \A k \in 1 .. Len(s) : 1 + k \in 1 .. m
    BY <1>1, <1>8
  <2>2. \A k \in 1 .. m : d[k] = a[k]
    BY <1>7
  <2> HIDE DEF m
  <2> QED BY ONLY <2>1, <2>2
<1>10. Len(d) = Len(s) + 4
  BY <1>1, <1>7, <1>8
<1>11. ShortBlock(s, d)
  BY <1>8, <1>9, <1>10 DEF ShortBlock
<1> QED BY <1>7, <1>11

LEMMA FinishTape == Positions /\ Tape /\ Finish => Tape'
<1> SUFFICES ASSUME Positions, Tape, Finish PROVE Tape'
  OBVIOUS
<1> DEFINE t     == LeftBehind
           start == in - ti
           n     == in_len
<1>1. /\ pc = "chunk" /\ pc' = "compressed" /\ src' = src /\ in_len' = in_len
      /\ touched' = Max({touched, Len(dest')})
  BY DEF Finish, in_len
<1>2. /\ src \in Seq(Bytes) /\ n \in Nat /\ n > 0 /\ n = Len(src)
      /\ start \in Nat /\ t \in Nat /\ start + t = n /\ n - t = start
  BY <1>1 DEF Positions, LeftBehind, in_len
<1>3. /\ dest \in Seq(Bytes) /\ touched \in Nat /\ touched <= max_compr_len(in_len)
      /\ Ready(start)
  BY <1>1 DEF Tape
<1>4. /\ op \in Nat /\ op <= start + (start \div 16)
      /\ dest = <<>> => start = 0
      /\ dest # <<>> => MatchLast(src, dest, start)
  BY <1>3, LenProperties DEF Ready, op
<1>5. dest' = (IF t = 0 THEN dest
               ELSE IF dest = <<>> /\ t <= FirstRunMax THEN <<17 + t>>
               ELSE IF t <= 3 THEN WithLowBits(dest, t)
               ELSE dest \o LiteralHead(t)) \o Literals(in_len - t, t) \o EndOfBlock
  BY DEF Finish
<1>6. Literals(in_len - t, t) = Part(src, start, t)
  BY <1>2 DEF Literals, Part
<1> HIDE DEF t, start, n
<1>7. /\ dest' \in Seq(Bytes) /\ Complete(src, dest')
      /\ Len(dest') \in Nat /\ Len(dest') <= n + (n \div 16) + 67
  <2>1. CASE dest = <<>> /\ t <= FirstRunMax
    <3>1. start = 0 /\ t = n /\ t # 0
      BY <1>2, <1>4, <2>1
    <3>2. dest' = <<17 + t>> \o Part(src, start, t) \o EndOfBlock
      BY <1>5, <1>6, <2>1, <3>1
    <3>3. dest' = (<<17 + Len(src)>> \o Part(src, 0, Len(src))) \o EndOfBlock
      BY <1>2, <3>1, <3>2
    <3>4. dest' \in Seq(Bytes) /\ Terminated(dest') /\ ShortBlock(src, dest')
      <4> DEFINE d == dest'
      <4>1. d = (<<17 + Len(src)>> \o Part(src, 0, Len(src))) \o EndOfBlock
        BY <3>3
      <4>2. src \in Seq(Bytes) /\ Len(src) <= FirstRunMax
        BY <1>2, <2>1, <3>1
      <4> HIDE DEF d
      <4>3. d \in Seq(Bytes) /\ Terminated(d) /\ ShortBlock(src, d)
        BY <4>1, <4>2, ShortStored
      <4> QED BY <4>3 DEF d
    <3>5. Len(dest') = n + 4
      BY <1>2, <3>4 DEF ShortBlock
    <3> QED BY <1>2, <3>4, <3>5 DEF Complete
  <2>2. CASE ~ (dest = <<>> /\ t <= FirstRunMax)
    <3> DEFINE block == BlockFor(dest, t)
               a     == WithLiterals(src, dest, start, t)
               d     == dest'
               h     == n \div 16
    <3>1. d = a \o EndOfBlock
      <4>1. d = block \o Part(src, start, t) \o EndOfBlock
        BY <1>5, <1>6, <2>2 DEF BlockFor
      <4> QED BY <4>1 DEF WithLiterals
    <3>2. dest = <<>> => start = 0 /\ t >= 4
      BY <1>2, <1>4, <2>2, FormatFacts
    <3>3. /\ src \in Seq(Bytes) /\ dest \in Seq(Bytes) /\ start \in Nat /\ t \in Nat
          /\ dest # <<>> => MatchLast(src, dest, start)
          /\ dest = <<>> => start = 0 /\ t >= 4
          /\ start + t <= Len(src)
      BY <1>2, <1>3, <1>4, <3>2
    <3>4. Encoded(src, a, start + t)
      BY ONLY <3>3, LiteralsStored, Zenon
    <3>5. /\ a \in Seq(Bytes) /\ Len(block) \in Nat /\ Len(a) = Len(block) + t
          /\ 16 * (Len(block) - Len(dest) - 1) <= t
      BY ONLY <3>3, LiteralsStored
    <3>6. Encoded(src, a, n) /\ a \in Seq(Bytes)
      BY <1>2, <3>4, <3>5
    <3> HIDE DEF block, a, d
    <3>7. /\ a \o EndOfBlock \in Seq(Bytes) /\ Len(a \o EndOfBlock) = Len(a) + 3
          /\ Len(a) \in Nat
          /\ \A k \in 1 .. Len(a) : (a \o EndOfBlock)[k] = a[k]
          /\ Terminated(a \o EndOfBlock)
      BY <3>6, EndAdded
    <3>8. /\ d \in Seq(Bytes) /\ Len(d) = Len(a) + 3
          /\ Len(a) \in Nat
          /\ \A k \in 1 .. Len(a) : d[k] = a[k]
          /\ Terminated(d)
      BY ONLY <3>1, <3>7
    <3>9. PICK mark, last : Written(src, a, mark, last, Len(a), n)
      BY <3>6 DEF Encoded
    <3>10. Len(d) \in Nat /\ Len(a) <= Len(d) /\ Len(d) - 3 = Len(a)
      BY <3>8
    <3>11. Written(src, d, mark, last, Len(a), n)
      BY <3>8, <3>9, <3>10, WrittenLonger
    <3>12. Complete(src, d)
      BY <1>2, <3>8, <3>10, <3>11 DEF Complete
    <3>13. (start \div 16) + (Len(block) - op - 1) <= h /\ h \in Nat /\ start \div 16 \in Nat
      <4>1. Len(block) - op - 1 \in Int /\ 16 * (Len(block) - op - 1) <= t
        BY <1>4, <3>5 DEF op
      <4>2. n = start + t
        BY <1>2
      <4> QED BY <1>2, <4>1, <4>2, Sixteenths
    <3> DEFINE size == Len(d)
               b    == Len(block)
               g    == start \div 16
    <3>14. size = b + t + 3 /\ b \in Nat
      BY <3>5, <3>8
    <3> HIDE DEF size, b, g, h
    <3>15. size \in Nat /\ size <= n + h + 67
      BY <1>2, <1>4, <3>13, <3>14 DEF b, g
    <3> QED BY <3>8, <3>12, <3>15 DEF d, size, h
  <2> QED BY <2>1, <2>2
<1>8. max_compr_len(n) \in Nat /\ Len(dest') <= max_compr_len(n)
  BY <1>2, <1>7, MaxComprLenIs
<1>9. touched' \in Nat /\ touched' <= max_compr_len(n)
  <2> DEFINE size == Len(dest')
  <2>1. touched' = Max({touched, size}) /\ size \in Nat /\ size <= max_compr_len(n)
    BY <1>1, <1>7, <1>8
  <2> HIDE DEF size
  <2> QED BY <1>3, <1>8, <2>1, MaxOfTwo DEF n
<1>10. (op <= max_compr_len(in_len))'
  BY <1>1, <1>8 DEF op, n
<1> QED BY <1>1, <1>7, <1>9, <1>10 DEF Tape, n

LEMMA TapeStep == Positions /\ Tape /\ CompressNext => Tape'
  BY NextChunkTape, FindMatchTape, EncodeLiteralsTape, EncodeMatchTape, FinishTape DEF CompressNext

-----------------------------------------------------------------------------
(* What the decoder reads *)

(* It gets the length back from its bytes.                                 *)
LEMMA ExtendedIs ==
  ASSUME NEW rest \in Nat \ {0}, NEW p \in Nat, NEW base \in Nat,
         p + Len(LengthBytes(rest)) <= Len(dest), Len(dest) \in Nat,
         \A k \in 1 .. Len(LengthBytes(rest)) : dest[p + k] = LengthBytes(rest)[k]
  PROVE  Extended(0, base, p) = [value |-> base + rest, next |-> p + Len(LengthBytes(rest))]
<1> DEFINE u == LengthBytes(rest)
           m == (rest - 1) \div RunByte
           r == (rest - 1) % RunByte
           z == RunByte
<1>1. /\ Len(u) = m + 1 /\ m \in Nat /\ r \in Nat
      /\ \A k \in 1 .. m : u[k] = 0
      /\ u[m + 1] = r + 1
      /\ rest - 1 = (z * m) + r
  <2>1. r \in 0 .. z - 1 /\ z \in Nat
    BY LengthBytesIs, FormatFacts
  <2> QED BY <2>1, LengthBytesIs
<1>2. \A k \in 1 .. m + 1 : dest[p + k] = u[k]
  BY <1>1
<1>3. p + m + 1 <= Len(dest)
  BY <1>1
<1>z. z \in Nat
  BY FormatFacts
<1> HIDE DEF u, m, r, z
<1> DEFINE P(q) == InBlock(q) # 0 /\ \A j \in p .. q - 1 : InBlock(j) = 0
           here == p + m
<1>4. here \in Nat /\ here \in p .. Len(dest) - 1
  BY <1>1, <1>3
<1>5. InBlock(here) = r + 1 /\ InBlock(here) # 0
  <2>1. m + 1 \in 1 .. m + 1 /\ here + 1 = p + (m + 1)
    BY <1>1
  <2>2. dest[here + 1] = r + 1
    BY <1>1, <1>2, <2>1
  <2> QED BY <1>1, <2>2 DEF InBlock
<1>6. \A j \in p .. here - 1 : InBlock(j) = 0
  <2> SUFFICES ASSUME NEW j \in p .. here - 1 PROVE InBlock(j) = 0
    OBVIOUS
  <2> DEFINE k == j - p + 1
  <2>1. k \in 1 .. m /\ k \in 1 .. m + 1 /\ p + k = j + 1
    BY <1>1, <1>4
  <2> HIDE DEF k
  <2>2. dest[p + k] = 0
    BY <1>1, <1>2, <2>1
  <2> QED BY <2>1, <2>2 DEF InBlock
<1> HIDE DEF here
<1>7. P(here)
  BY <1>5, <1>6
<1>8. \A q \in p .. Len(dest) - 1 : P(q) => q = here
  <2> SUFFICES ASSUME NEW q \in p .. Len(dest) - 1, P(q), q # here PROVE FALSE
    OBVIOUS
  <2>1. CASE q < here
    <3>1. q \in p .. here - 1
      BY <1>4, <2>1
    <3> QED BY <1>6, <3>1
  <2>2. CASE q > here
    <3>1. here \in p .. q - 1
      BY <1>4, <2>2
    <3> QED BY <1>5, <3>1
  <2> QED BY <1>4, <2>1, <2>2
<1>9. FirstNonZero(p) = here
  <2>1. FirstNonZero(p) = CHOOSE q \in p .. Len(dest) - 1 : P(q)
    BY DEF FirstNonZero
  <2> HIDE DEF P
  <2> QED BY <1>4, <1>7, <1>8, <2>1
<1>10. Extended(0, base, p) = [value |-> base + (RunByte * (here - p)) + InBlock(here), next |-> here + 1]
  BY <1>9 DEF Extended
<1>11. RunByte * (here - p) = z * m
  BY <1>1, <1>4 DEF z, here
<1>12. base + (z * m) + (r + 1) = base + rest
  <2> DEFINE y == z * m
  <2>1. rest - 1 = y + r /\ y \in Nat
    BY <1>1, <1>z
  <2> HIDE DEF y
  <2>2. base + y + (r + 1) = base + rest
    BY <1>1, <2>1
  <2> QED BY <2>2 DEF y
<1>13. here + 1 = p + Len(u)
  BY <1>1 DEF here
<1> QED BY <1>5, <1>10, <1>11, <1>12, <1>13 DEF u

(* A run of literals.                                                      *)
LEMMA RunRead ==
  ASSUME dest \in Seq(Bytes), NEW s, NEW b \in Nat, NEW n, Sound(s, n), Stored(s, dest, b, n),
         n.length = 0
  PROVE  /\ InBlock(b) \in 0 .. 15
         /\ Extended(InBlock(b), 15, b + 1).value + 3 = n.t
         /\ Extended(InBlock(b), 15, b + 1).next = b + Len(Instr(n))
<1> DEFINE t == n.t
           h == LiteralHead(t)
<1>1. t \in Nat /\ t >= 4 /\ Instr(n) = h /\ Low(n) = 0 /\ Len(dest) \in Nat
  BY InstrIs, LenProperties DEF Sound, Instr, Low
<1>2. /\ h \in Seq(Bytes) /\ Len(h) \in Nat \ {0}
      /\ b + Len(h) + t <= Len(dest)
  BY <1>1, LiteralHeadIs DEF Stored, Ends
<1>3. \A k \in 1 .. Len(h) : dest[b + k] = h[k]
  <2> SUFFICES ASSUME NEW k \in 1 .. Len(h) PROVE dest[b + k] = h[k]
    OBVIOUS
  <2>1. dest[b + k] = IF k = Len(h) - 1 THEN h[k] + 0 ELSE h[k]
    BY <1>1 DEF Stored
  <2>2. h[k] \in Bytes
    BY <1>2, ElementOfSeq
  <2>3. h[k] \in Nat
    BY <2>2, BytesAreNumbers, Zenon
  <2> QED BY <2>1, <2>3
<1>a. n.t = t /\ Instr(n) = h
  BY <1>1
<1> HIDE DEF t, h
<1>4. CASE t <= 18
  <2>1. Len(h) = 1 /\ h[1] = t - 3
    BY <1>1, <1>4, LiteralHeadIs DEF h
  <2>2. InBlock(b) = t - 3
    BY <1>3, <2>1 DEF InBlock
  <2>3. Extended(InBlock(b), 15, b + 1) = [value |-> t - 3, next |-> b + 1]
    BY <1>1, <2>2 DEF Extended
  <2>4. Extended(InBlock(b), 15, b + 1).value = t - 3 /\ Extended(InBlock(b), 15, b + 1).next = b + 1
    BY <2>3
  <2>5. InBlock(b) \in 0 .. 15
    BY <1>1, <1>4, <2>2
  <2>6. (t - 3) + 3 = t /\ b + 1 = b + Len(h)
    BY <1>1, <2>1
  <2> QED BY <2>4, <2>5, <2>6, <1>a
<1>5. CASE t > 18
  <2> DEFINE u == LengthBytes(t - 18)
  <2>1. Len(h) = 1 + Len(u) /\ h[1] = 0 /\ \A k \in 1 .. Len(u) : h[1 + k] = u[k]
    BY <1>1, <1>5, LiteralHeadIs DEF h
  <2>2. t - 18 \in Nat \ {0} /\ Len(u) \in Nat \ {0}
    BY <1>1, <1>5, LengthBytesShort
  <2>3. InBlock(b) = 0
    <3>1. 1 \in 1 .. Len(h)
      BY <1>2
    <3> QED BY <1>3, <2>1, <3>1 DEF InBlock
  <2> HIDE DEF u
  <2>4. \A k \in 1 .. Len(u) : dest[b + 1 + k] = u[k]
    <3> SUFFICES ASSUME NEW k \in 1 .. Len(u) PROVE dest[b + 1 + k] = u[k]
      OBVIOUS
    <3>1. 1 + k \in 1 .. Len(h) /\ b + 1 + k = b + (1 + k)
      BY <2>1, <2>2
    <3> QED BY <1>3, <2>1, <3>1
  <2>5. b + 1 + Len(u) <= Len(dest)
    BY <1>1, <1>2, <2>1, <2>2
  <2>6. Extended(0, 15, b + 1) = [value |-> 15 + (t - 18), next |-> b + 1 + Len(u)]
    <3> DEFINE rest == t - 18
               p    == b + 1
    <3>1. /\ rest \in Nat \ {0} /\ p \in Nat /\ 15 \in Nat /\ Len(dest) \in Nat
          /\ p + Len(LengthBytes(rest)) <= Len(dest)
          /\ \A k \in 1 .. Len(LengthBytes(rest)) : dest[p + k] = LengthBytes(rest)[k]
      BY <1>1, <2>2, <2>4, <2>5 DEF u
    <3> HIDE DEF rest, p
    <3>2. Extended(0, 15, p) = [value |-> 15 + rest, next |-> p + Len(LengthBytes(rest))]
      BY ONLY <3>1, ExtendedIs
    <3> QED BY <3>2 DEF u, rest, p
  <2>7. Extended(0, 15, b + 1).value = 15 + (t - 18) /\ Extended(0, 15, b + 1).next = b + 1 + Len(u)
    BY <2>6
  <2>8. (15 + (t - 18)) + 3 = t /\ b + 1 + Len(u) = b + Len(h)
    BY <1>1, <2>1, <2>2
  <2>9. InBlock(b) \in 0 .. 15
    BY <2>3
  <2> QED BY <2>3, <2>7, <2>8, <2>9, <1>a
<1> QED BY <1>1, <1>4, <1>5

(* The bytes of a short match, with t literals in the low bits.            *)
ShortByte(length, offset) == ((length - 1) * 32) + (((offset - 1) % 8) * 4)
ShortNext(offset)         == (offset - 1) \div 8

ShortParameters(length, offset, t) == length \in 4 .. 8 /\ offset \in 1 .. 2048 /\ t \in 0 .. 3

ShortBytesBack(x, y, length, offset, t) ==
  /\ x \in 96 .. 255 /\ (x \div 32) + 1 = length
  /\ 1 + ((x \div 4) % 8) + (8 * y) = offset
  /\ x % 4 = t

LEMMA ShortMatchBytes ==
  ASSUME NEW length, NEW offset, NEW t, ShortParameters(length, offset, t),
         NEW b, b = ShortByte(length, offset) + t
  PROVE  ShortBytesBack(b, ShortNext(offset), length, offset, t)
<1>p. length \in 4 .. 8 /\ offset \in 1 .. 2048 /\ t \in 0 .. 3
  BY DEF ShortParameters
<1> DEFINE o == offset - 1
           a == o % 8
           x == ShortByte(length, offset) + t
           y == ShortNext(offset)
<1>0. o \in Nat
  BY <1>p
<1>1. a \in 0 .. 7 /\ offset - 1 = (8 * y) + a /\ y \in Nat
  <2>1. y = o \div 8 /\ offset - 1 = o
    BY DEF ShortNext
  <2> HIDE DEF o
  <2>2. o = (8 * (o \div 8)) + (o % 8) /\ o \div 8 \in Nat /\ o % 8 \in 0 .. 7
    BY <1>0
  <2> QED BY <2>1, <2>2
<1>2. x = ((length - 1) * 32) + (a * 4) + t
  BY DEF ShortByte
<1> HIDE DEF a, x, y
<1>3. x \in 96 .. 255 /\ x \div 32 = length - 1
  BY ONLY <1>p, <1>1, <1>2
<1> DEFINE m == length - 1
           z == (m * 8) + a
<1>a. m \in Int /\ z \in Int /\ a \in 0 .. 7 /\ x = (4 * z) + t /\ t \in 0 .. 3
  BY ONLY <1>p, <1>1, <1>2
<1> HIDE DEF m
<1>b. z % 8 = a
  BY ONLY <1>a
<1> HIDE DEF z
<1>c. x \div 4 = z /\ x % 4 = t
  BY ONLY <1>a
<1>4. x \div 4 = ((length - 1) * 8) + a
  BY ONLY <1>c DEF z, m
<1>5. (((length - 1) * 8) + a) % 8 = a
  BY ONLY <1>b DEF z, m
<1>6. x % 4 = t
  BY ONLY <1>c
<1>7. /\ x \in 96 .. 255 /\ (x \div 32) + 1 = length
      /\ 1 + ((x \div 4) % 8) + (8 * y) = offset
      /\ x % 4 = t
  BY ONLY <1>p, <1>1, <1>3, <1>4, <1>5, <1>6
<1>8. b = x
  BY DEF x
<1> QED BY <1>7, <1>8 DEF y, ShortBytesBack

(* The two bytes of an offset.                                             *)
LEMMA OffsetBytesBack ==
  ASSUME NEW v \in Nat, v < 32768, NEW t \in 0 .. 3
  PROVE  /\ (OffsetLow(v) + t) % 4 = t
         /\ ((OffsetLow(v) + t) \div 4) + (64 * OffsetHigh(v)) = IF v < 16384 THEN v ELSE v - 16384
<1> DEFINE a == v % 64
           q == v \div 64
<1>1. a \in 0 .. 63 /\ q \in 0 .. 511 /\ v = (64 * q) + a
  OBVIOUS
<1>2. OffsetLow(v) = a * 4 /\ OffsetHigh(v) = q % 256
  BY DEF OffsetLow, OffsetHigh
<1> HIDE DEF a, q
<1>3. ((a * 4) + t) % 4 = t /\ ((a * 4) + t) \div 4 = a
  BY <1>1
<1>4. q % 256 = IF q < 256 THEN q ELSE q - 256
  BY <1>1
<1>5. q < 256 <=> v < 16384
  BY <1>1
<1> QED BY <1>1, <1>2, <1>3, <1>4, <1>5

(* What the instruction itself has of a length.                            *)
LengthCode(length, max) == IF length <= max THEN length - 2 ELSE 0

HeadRead(marker, length, max, b) ==
  /\ InBlock(b) = marker + LengthCode(length, max)
  /\ Extended(LengthCode(length, max), max - 2, b + 1).value = length - 2
  /\ Extended(LengthCode(length, max), max - 2, b + 1).next = b + Len(LongMatch(marker, length, max))

(* The head of a long match.                                               *)
LEMMA LongMatchRead ==
  ASSUME NEW marker \in {16, 24, 32}, NEW length \in Nat, length >= 4, NEW max \in 8 .. 33,
         NEW b \in Nat, Len(dest) \in Nat,
         b + Len(LongMatch(marker, length, max)) <= Len(dest),
         \A k \in 1 .. Len(LongMatch(marker, length, max)) :
           dest[b + k] = LongMatch(marker, length, max)[k]
  PROVE  HeadRead(marker, length, max, b)
<1> SUFFICES /\ InBlock(b) = marker + LengthCode(length, max)
             /\ Extended(LengthCode(length, max), max - 2, b + 1).value = length - 2
             /\ Extended(LengthCode(length, max), max - 2, b + 1).next
                  = b + Len(LongMatch(marker, length, max))
  BY DEF HeadRead
<1> DEFINE u    == LongMatch(marker, length, max)
           code == LengthCode(length, max)
<1>1. marker \in 0 .. 200
  OBVIOUS
<1>2. u \in Seq(Bytes) /\ Len(u) \in Nat \ {0}
  BY <1>1, LongMatchIs
<1>3. InBlock(b) = u[1]
  <2>1. 1 \in 1 .. Len(u)
    BY <1>2
  <2> QED BY <2>1 DEF InBlock
<1>4. CASE length <= max
  <2>1. Len(u) = 1 /\ u[1] = marker + length - 2
    <3>1. u = <<marker + length - 2>>
      BY <1>4 DEF LongMatch
    <3> QED BY <3>1
  <2>2. code = length - 2 /\ code # 0 /\ marker + code = marker + length - 2
    BY <1>4 DEF LengthCode
  <2>3. Extended(code, max - 2, b + 1) = [value |-> code, next |-> b + 1]
    BY <2>2 DEF Extended
  <2> HIDE DEF u
  <2>4. Extended(code, max - 2, b + 1).value = length - 2 /\ Extended(code, max - 2, b + 1).next = b + Len(u)
    BY <2>1, <2>2, <2>3
  <2> QED BY <1>3, <2>1, <2>2, <2>4 DEF u
<1>5. CASE length > max
  <2> DEFINE w == LengthBytes(length - max)
  <2>1. Len(u) = 1 + Len(w) /\ u[1] = marker /\ \A k \in 1 .. Len(w) : u[1 + k] = w[k]
    <3>1. u = <<marker>> \o LengthBytes(length - max)
      BY <1>5 DEF LongMatch
    <3>2. marker \in Bytes /\ length - max \in Nat \ {0}
      BY <1>1, <1>5 DEF Bytes
    <3> QED BY <3>1, <3>2, ByteAndLength
  <2>2. length - max \in Nat \ {0} /\ Len(w) \in Nat \ {0}
    <3>1. length - max \in Nat \ {0}
      BY <1>5
    <3> QED BY <3>1, LengthBytesShort
  <2>3. \A k \in 1 .. Len(u) : dest[b + k] = u[k]
    OBVIOUS
  <2>4. b + Len(u) <= Len(dest)
    OBVIOUS
  <2>5. code = 0
    <3>1. LengthCode(length, max) = 0
      BY ONLY <1>5, length \in Nat, max \in 8 .. 33 DEF LengthCode
    <3> QED BY <3>1
  <2> HIDE DEF u, w, code
  <2>6. \A k \in 1 .. Len(w) : dest[b + 1 + k] = w[k]
    <3> SUFFICES ASSUME NEW k \in 1 .. Len(w) PROVE dest[b + 1 + k] = w[k]
      OBVIOUS
    <3>1. 1 + k \in 1 .. Len(u) /\ b + 1 + k = b + (1 + k)
      BY <2>1, <2>2
    <3> QED BY <2>1, <2>3, <3>1
  <2>7. b + 1 + Len(w) <= Len(dest) /\ b + 1 + Len(w) = b + Len(u) /\ b + 1 \in Nat /\ max - 2 \in Nat
    BY <2>1, <2>2, <2>4
  <2>8. Extended(0, max - 2, b + 1) = [value |-> (max - 2) + (length - max), next |-> b + 1 + Len(w)]
    <3> DEFINE rest == length - max
               base == max - 2
               p    == b + 1
    <3>1. /\ rest \in Nat \ {0} /\ p \in Nat /\ base \in Nat /\ Len(dest) \in Nat
          /\ p + Len(LengthBytes(rest)) <= Len(dest)
          /\ \A k \in 1 .. Len(LengthBytes(rest)) : dest[p + k] = LengthBytes(rest)[k]
      BY <2>2, <2>6, <2>7 DEF w
    <3> HIDE DEF rest, base, p
    <3>2. Extended(0, base, p) = [value |-> base + rest, next |-> p + Len(LengthBytes(rest))]
      BY ONLY <3>1, ExtendedIs
    <3> QED BY <3>2 DEF w, rest, base, p
  <2>9. Extended(0, max - 2, b + 1).value = length - 2 /\ Extended(0, max - 2, b + 1).next = b + Len(u)
    <3>1. /\ Extended(0, max - 2, b + 1).value = (max - 2) + (length - max)
          /\ Extended(0, max - 2, b + 1).next = b + 1 + Len(w)
      <4> DEFINE e  == Extended(0, max - 2, b + 1)
                 v  == (max - 2) + (length - max)
                 nx == b + 1 + Len(w)
      <4>1. e = [value |-> v, next |-> nx]
        BY <2>8
      <4> HIDE DEF e, v, nx
      <4>2. e.value = v /\ e.next = nx
        BY <4>1
      <4> QED BY <4>2 DEF e, v, nx
    <3>2. (max - 2) + (length - max) = length - 2
      OBVIOUS
    <3> QED BY <2>7, <3>1, <3>2
  <2>10. InBlock(b) = marker + 0
    BY <1>3, <2>1
  <2> QED BY <2>5, <2>9, <2>10 DEF u, code
<1> QED BY <1>4, <1>5

LongRead(marker, length, max, v, t, b, nx, size) ==
  /\ InBlock(b) = marker + LengthCode(length, max)
  /\ Extended(LengthCode(length, max), max - 2, b + 1).value = length - 2
  /\ Extended(LengthCode(length, max), max - 2, b + 1).next = nx
  /\ nx + 2 = b + size
  /\ OffsetAt(nx) = (IF v < 16384 THEN v ELSE v - 16384)
  /\ InBlock(nx) % 4 = t

(* A match with its offset in two bytes, and t literals in the low bits.   *)
StoredAt(b, i, t) ==
  /\ b + Len(i) <= Len(dest)
  /\ \A k \in 1 .. Len(i) : dest[b + k] = IF k = Len(i) - 1 THEN i[k] + t ELSE i[k]

LongParameters(marker, length, max, v, t) ==
  /\ marker \in {16, 24, 32} /\ length \in Nat /\ length >= 4 /\ max \in 8 .. 33
  /\ v \in Nat /\ v < 32768 /\ t \in 0 .. 3

LongIsRead(marker, length, max, v, t, b) ==
  \E nx \in Nat : LongRead(marker, length, max, v, t, b, nx,
                           Len(LongMatch(marker, length, max) \o OffsetBytes(v)))

LEMMA LongInstructionRead ==
  ASSUME NEW marker, NEW length, NEW max, NEW v, NEW t, LongParameters(marker, length, max, v, t),
         NEW b, b \in Nat, Len(dest) \in Nat,
         StoredAt(b, LongMatch(marker, length, max) \o OffsetBytes(v), t)
  PROVE  LongIsRead(marker, length, max, v, t, b)
<1>p. /\ marker \in {16, 24, 32} /\ length \in Nat /\ length >= 4 /\ max \in 8 .. 33
      /\ v \in Nat /\ v < 32768 /\ t \in 0 .. 3
  BY DEF LongParameters
<1> USE <1>p
<1> DEFINE i  == LongMatch(marker, length, max) \o OffsetBytes(v)
           u  == LongMatch(marker, length, max)
           m  == Len(u)
           e  == Len(i)
           nx == b + m
           code == LengthCode(length, max)
<1>1. u \in Seq(Bytes) /\ m \in Nat \ {0}
  <2>1. marker \in 0 .. 200 /\ length \in Nat /\ length >= 4 /\ max \in 8 .. 33
    OBVIOUS
  <2> QED BY ONLY <2>1, LongMatchIs
<1>2. /\ e = m + 2
      /\ \A k \in 1 .. m : i[k] = u[k]
      /\ i[m + 1] = OffsetLow(v) /\ i[m + 2] = OffsetHigh(v)
  <2>1. u \in Seq(Bytes) /\ i = u \o OffsetBytes(v) /\ v \in Nat
    BY <1>1
  <2> HIDE DEF u
  <2>2. /\ Len(u \o OffsetBytes(v)) = Len(u) + 2
        /\ \A k \in 1 .. Len(u) : (u \o OffsetBytes(v))[k] = u[k]
        /\ (u \o OffsetBytes(v))[Len(u) + 1] = OffsetLow(v)
        /\ (u \o OffsetBytes(v))[Len(u) + 2] = OffsetHigh(v)
    BY ONLY <2>1, WithOffset
  <2> QED BY ONLY <2>1, <2>2
<1>3. \A k \in 1 .. e : dest[b + k] = IF k = e - 1 THEN i[k] + t ELSE i[k]
  BY DEF StoredAt
<1>4. b + e <= Len(dest) /\ b \in Nat /\ Len(dest) \in Nat
  BY DEF StoredAt
<1> HIDE DEF i
<1>5. \A k \in 1 .. Len(LongMatch(marker, length, max)) :
        dest[b + k] = LongMatch(marker, length, max)[k]
  <2> HIDE DEF e
  <2> SUFFICES ASSUME NEW k \in 1 .. m PROVE dest[b + k] = u[k]
    OBVIOUS
  <2> HIDE DEF u, m
  <2>1. k \in 1 .. e /\ k # e - 1
    BY ONLY <1>1, <1>2, k \in 1 .. m
  <2>2. dest[b + k] = i[k]
    BY ONLY <1>3, <2>1
  <2>3. i[k] = u[k]
    BY ONLY <1>2, k \in 1 .. m
  <2> QED BY ONLY <2>2, <2>3
<1> HIDE DEF u, m, e, code
<1>6. dest[nx + 1] = OffsetLow(v) + t /\ dest[nx + 2] = OffsetHigh(v)
  <2>1. /\ m + 1 \in 1 .. e /\ m + 1 = e - 1 /\ b + (m + 1) = nx + 1
        /\ m + 2 \in 1 .. e /\ m + 2 # e - 1 /\ b + (m + 2) = nx + 2
    BY ONLY <1>1, <1>2, <1>4
  <2>2. dest[b + (m + 1)] = i[m + 1] + t
    BY ONLY <1>3, <2>1
  <2>3. dest[b + (m + 2)] = i[m + 2]
    BY ONLY <1>3, <2>1
  <2> QED BY ONLY <1>2, <2>1, <2>2, <2>3
<1>7. nx \in Nat /\ nx + 2 = b + e
  BY ONLY <1>1, <1>2, <1>4
<1>8. /\ InBlock(b) = marker + code
      /\ Extended(code, max - 2, b + 1).value = length - 2
      /\ Extended(code, max - 2, b + 1).next = nx
  <2>1. b + Len(LongMatch(marker, length, max)) <= Len(dest)
    BY <1>1, <1>2, <1>4 DEF m, u
  <2>2. /\ marker \in {16, 24, 32} /\ length \in Nat /\ length >= 4 /\ max \in 8 .. 33
    OBVIOUS
  <2>3. /\ InBlock(b) = marker + code
        /\ Extended(code, max - 2, b + 1).value = length - 2
        /\ Extended(code, max - 2, b + 1).next = b + Len(LongMatch(marker, length, max))
    <3>1. HeadRead(marker, length, max, b)
      BY ONLY <1>4, <1>5, <2>1, <2>2, LongMatchRead, Zenon
    <3> QED BY ONLY <3>1 DEF code, HeadRead
  <2> QED BY <2>3 DEF m, u
<1> HIDE DEF nx
<1>9. InBlock(nx) = OffsetLow(v) + t /\ InBlock(nx + 1) = OffsetHigh(v)
  <2>1. (nx + 1) + 1 = nx + 2
    BY ONLY <1>7
  <2> QED BY ONLY <1>6, <2>1 DEF InBlock
<1>10. OffsetAt(nx) = (IF v < 16384 THEN v ELSE v - 16384) /\ InBlock(nx) % 4 = t
  <2>1. OffsetAt(nx) = ((OffsetLow(v) + t) \div 4) + (64 * OffsetHigh(v))
    BY ONLY <1>9 DEF OffsetAt
  <2>2. v \in Nat /\ v < 32768 /\ t \in 0 .. 3
    OBVIOUS
  <2>3. /\ (OffsetLow(v) + t) % 4 = t
        /\ ((OffsetLow(v) + t) \div 4) + (64 * OffsetHigh(v)) = IF v < 16384 THEN v ELSE v - 16384
    BY ONLY <2>2, OffsetBytesBack
  <2> QED BY ONLY <1>9, <2>1, <2>3
<1>11. /\ InBlock(b) = marker + code
       /\ Extended(code, max - 2, b + 1).value = length - 2
       /\ Extended(code, max - 2, b + 1).next = nx
       /\ nx \in Nat /\ nx + 2 = b + Len(i)
       /\ OffsetAt(nx) = (IF v < 16384 THEN v ELSE v - 16384)
       /\ InBlock(nx) % 4 = t
  BY ONLY <1>7, <1>8, <1>10 DEF e
<1>12. LongRead(marker, length, max, v, t, b, nx, Len(i))
  BY <1>11 DEF code, LongRead
<1> QED BY <1>7, <1>12 DEF i, LongIsRead

(* What match and match_done do with an instruction of the compressor.     *)
MatchReads(length, offset, t, end) ==
  /\ InBlock(dip) \in Nat /\ InBlock(dip) >= 16
  /\ MatchFound.length = length /\ MatchFound.offset = offset /\ MatchFound.next = end
  /\ InBlock(MatchFound.next - 2) % 4 = t

LEMMA NearRead ==
  ASSUME NEW length \in Nat, NEW v \in Nat, v < 16384, NEW t, length >= 4,
         NEW nx \in Nat, NEW size \in Nat, dip \in Nat,
         LongRead(32, length, M3_MAX_LEN, v, t, dip, nx, size)
  PROVE  MatchReads(length, v + 1, t, dip + size)
<1> DEFINE code == LengthCode(length, M3_MAX_LEN)
           x    == InBlock(dip)
<1>1. code \in 0 .. 31
  BY FormatFacts DEF LengthCode
<1>2. /\ x = 32 + code
      /\ Extended(code, M3_MAX_LEN - 2, dip + 1).value = length - 2
      /\ Extended(code, M3_MAX_LEN - 2, dip + 1).next = nx
      /\ nx + 2 = dip + size /\ OffsetAt(nx) = v /\ InBlock(nx) % 4 = t
  BY DEF LongRead
<1> HIDE DEF code, x
<1>3. x \in 32 .. 63 /\ x % 32 = code
  BY ONLY <1>1, <1>2
<1>4. M3_MARKER = 32
  BY FormatFacts
<1>5. MatchFound = [length |-> Extended(x % 32, M3_MAX_LEN - 2, dip + 1).value + 2,
                    next   |-> Extended(x % 32, M3_MAX_LEN - 2, dip + 1).next + 2,
                    offset |-> 1 + OffsetAt(Extended(x % 32, M3_MAX_LEN - 2, dip + 1).next)]
  <2>1. ~ (x >= 64) /\ x >= M3_MARKER
    BY ONLY <1>3, <1>4
  <2> QED BY <2>1 DEF MatchFound, x
<1>6. MatchFound = [length |-> length - 2 + 2, next |-> nx + 2, offset |-> 1 + v]
  BY ONLY <1>2, <1>3, <1>5
<1>7. MatchFound.length = length - 2 + 2 /\ MatchFound.next = nx + 2 /\ MatchFound.offset = 1 + v
  BY ONLY <1>6
<1>8. length - 2 + 2 = length /\ 1 + v = v + 1 /\ (nx + 2) - 2 = nx
  OBVIOUS
<1>9. x \in Nat /\ x >= 16
  BY ONLY <1>3
<1> QED BY <1>2, <1>7, <1>8, <1>9 DEF MatchReads, x

MarkerOf(v) == IF v < 16384 THEN 16 ELSE 24

FarParameters(length, v) == length \in Nat /\ length >= 4 /\ v \in Nat /\ v < 32768 /\ v > 0

LEMMA FarRead ==
  ASSUME NEW length, NEW v, NEW t, FarParameters(length, v),
         NEW nx, NEW size, nx \in Nat, size \in Nat, dip \in Nat,
         LongRead(MarkerOf(v), length, M4_MAX_LEN, v, t, dip, nx, size)
  PROVE  MatchReads(length, v + M3_MAX_OFFSET, t, dip + size)
<1>p. length \in Nat /\ length >= 4 /\ v \in Nat /\ v < 32768 /\ v > 0
  BY DEF FarParameters
<1> USE <1>p
<1> DEFINE code == LengthCode(length, M4_MAX_LEN)
           x    == InBlock(dip)
           far  == (16384 * ((x \div 8) % 2)) + OffsetAt(nx)
<1>1. code \in 0 .. 7
  BY FormatFacts DEF LengthCode
<1>2. /\ x = (IF v < 16384 THEN 16 ELSE 24) + code
      /\ Extended(code, M4_MAX_LEN - 2, dip + 1).value = length - 2
      /\ Extended(code, M4_MAX_LEN - 2, dip + 1).next = nx
      /\ nx + 2 = dip + size /\ OffsetAt(nx) = (IF v < 16384 THEN v ELSE v - 16384)
      /\ InBlock(nx) % 4 = t
  BY DEF LongRead, MarkerOf
<1> HIDE DEF code, x
<1>3. /\ x \in 16 .. 31 /\ x % 8 = code
      /\ (x \div 8) % 2 = IF v < 16384 THEN 0 ELSE 1
  <2>1. CASE v < 16384
    BY ONLY <1>1, <1>2, <2>1
  <2>2. CASE ~ (v < 16384)
    BY ONLY <1>1, <1>2, <2>2
  <2> QED BY <2>1, <2>2
<1>4. far = v
  <2> DEFINE bit == (x \div 8) % 2
             o   == OffsetAt(nx)
  <2>1. bit = (IF v < 16384 THEN 0 ELSE 1) /\ o = IF v < 16384 THEN v ELSE v - 16384
    BY <1>2, <1>3
  <2> HIDE DEF bit, o
  <2>2. (16384 * bit) + o = v
    BY <2>1
  <2> QED BY <2>2 DEF bit, o
<1>5. M3_MARKER = 32 /\ M4_MARKER = 16
  BY FormatFacts
<1>6. MatchFound = [length |-> Extended(x % 8, M4_MAX_LEN - 2, dip + 1).value + 2,
                    next   |-> Extended(x % 8, M4_MAX_LEN - 2, dip + 1).next + 2,
                    offset |-> LET f == (16384 * ((x \div 8) % 2))
                                          + OffsetAt(Extended(x % 8, M4_MAX_LEN - 2, dip + 1).next)
                               IN  IF f = 0 THEN 0 ELSE f + M3_MAX_OFFSET]
  <2>1. ~ (x >= 64) /\ ~ (x >= M3_MARKER) /\ x >= M4_MARKER
    BY ONLY <1>3, <1>5
  <2> QED BY <2>1 DEF MatchFound, x
<1>7. MatchFound = [length |-> length - 2 + 2, next |-> nx + 2,
                    offset |-> IF far = 0 THEN 0 ELSE far + M3_MAX_OFFSET]
  <2>1. /\ Extended(x % 8, M4_MAX_LEN - 2, dip + 1).value = length - 2
        /\ Extended(x % 8, M4_MAX_LEN - 2, dip + 1).next = nx
    BY ONLY <1>2, <1>3
  <2> QED BY <1>6, <2>1
<1> HIDE DEF far
<1>8. /\ MatchFound.length = length - 2 + 2 /\ MatchFound.next = nx + 2
      /\ MatchFound.offset = IF far = 0 THEN 0 ELSE far + M3_MAX_OFFSET
  BY ONLY <1>7
<1>9. length - 2 + 2 = length /\ (nx + 2) - 2 = nx /\ v # 0
  OBVIOUS
<1>10. x \in Nat /\ x >= 16
  BY ONLY <1>3
<1> QED BY <1>2, <1>4, <1>8, <1>9, <1>10 DEF MatchReads, x

ShortStoredAt(length, offset, t) ==
  dest[dip + 1] = ShortByte(length, offset) + t /\ dest[dip + 2] = ShortNext(offset)

LEMMA ShortRead ==
  ASSUME NEW length, NEW offset, NEW t, ShortParameters(length, offset, t), dip \in Nat,
         ShortStoredAt(length, offset, t), NEW end, end = dip + 2
  PROVE  MatchReads(length, offset, t, end)
<1> DEFINE x == InBlock(dip)
           y == InBlock(dip + 1)
<1>1. x = ShortByte(length, offset) + t /\ y = ShortNext(offset)
  <2>1. (dip + 1) + 1 = dip + 2
    OBVIOUS
  <2> QED BY <2>1 DEF InBlock, ShortStoredAt
<1> HIDE DEF x, y
<1>2. /\ x \in 96 .. 255 /\ (x \div 32) + 1 = length
      /\ 1 + ((x \div 4) % 8) + (8 * y) = offset
      /\ x % 4 = t
  <2>1. ShortBytesBack(x, ShortNext(offset), length, offset, t)
    BY <1>1, ShortMatchBytes
  <2> QED BY <1>1, <2>1 DEF ShortBytesBack
<1>3. MatchFound = [length |-> (x \div 32) + 1, next |-> dip + 2,
                    offset |-> 1 + ((x \div 4) % 8) + (8 * y)]
  <2>1. x >= 64
    BY ONLY <1>2
  <2> QED BY <2>1 DEF MatchFound, x, y
<1>4. MatchFound = [length |-> length, next |-> dip + 2, offset |-> offset]
  BY ONLY <1>2, <1>3
<1>5. MatchFound.length = length /\ MatchFound.next = dip + 2 /\ MatchFound.offset = offset
  BY ONLY <1>4
<1>6. (dip + 2) - 2 = dip
  OBVIOUS
<1>7. x \in Nat /\ x >= 16
  BY ONLY <1>2
<1> QED BY <1>2, <1>5, <1>6, <1>7 DEF MatchReads, x

(* A match, whatever instruction it has.                                   *)
LEMMA MatchRead ==
  ASSUME dest \in Seq(Bytes), dip \in Nat,
         NEW s, NEW n, Sound(s, n), Stored(s, dest, dip, n), n.length # 0
  PROVE  MatchReads(n.length, n.offset, n.t, dip + Len(Instr(n)))
<1> DEFINE length == n.length
           offset == n.offset
           t      == n.t
           i      == Instr(n)
<1>1. /\ length \in Nat /\ length >= 4 /\ offset \in Nat /\ 1 <= offset /\ offset < ChunkSize
      /\ t \in 0 .. 3
  <2>1. length \in Nat /\ offset \in Nat /\ t \in Nat
    BY InstrIs
  <2>2. length >= 4 /\ 1 <= offset /\ offset < ChunkSize /\ t <= 3
    BY DEF Sound
  <2> HIDE DEF length, offset, t
  <2> QED BY <2>1, <2>2
<1>2. i = MatchInstruction(length, offset) /\ Low(n) = t
  BY DEF Instr, Low
<1>3. i \in Seq(Bytes) /\ Len(i) \in Nat /\ Len(dest) \in Nat /\ dip \in Nat
  BY InstrIs, LenProperties
<1>4. dip + Len(i) <= Len(dest)
  BY <1>1, <1>3 DEF Stored, Ends
<1>5. \A k \in 1 .. Len(i) : dest[dip + k] = IF k = Len(i) - 1 THEN i[k] + t ELSE i[k]
  BY <1>2 DEF Stored
<1> HIDE DEF length, offset, t, i
<1>a. StoredAt(dip, i, t)
  BY <1>4, <1>5 DEF StoredAt
<1>6. MatchReads(length, offset, t, dip + Len(i))
  <2>1. CASE IsM2(length, offset)
    <3> DEFINE a == ShortByte(length, offset)
               b == ShortNext(offset)
    <3>1. length \in 4 .. 8 /\ offset \in 1 .. 2048
      BY <1>1, <2>1, FormatFacts DEF IsM2
    <3>2. i = <<a, b>>
      BY <1>2, <2>1 DEF MatchInstruction, M2Match, ShortByte, ShortNext
    <3> HIDE DEF a, b
    <3>3. Len(i) = 2 /\ i[1] = a /\ i[2] = b
      BY <3>2
    <3>4. dest[dip + 1] = a + t /\ dest[dip + 2] = b
      BY ONLY <1>5, <3>3
    <3>5. dest[dip + 1] = ShortByte(length, offset) + t
      BY <3>4 DEF a
    <3>6. dest[dip + 2] = ShortNext(offset)
      BY <3>4 DEF b
    <3>7. ShortStoredAt(length, offset, t)
      BY <3>5, <3>6 DEF ShortStoredAt
    <3>8. dip + Len(i) = dip + 2
      BY <3>3
    <3>9. ShortParameters(length, offset, t)
      BY ONLY <1>1, <3>1 DEF ShortParameters
    <3>10. dip \in Nat
      BY <1>3
    <3> QED BY ONLY <3>7, <3>8, <3>9, <3>10, ShortRead
  <2>2. CASE ~ IsM2(length, offset) /\ offset <= M3_MAX_OFFSET
    <3> DEFINE v == offset - 1
    <3>1. v \in Nat /\ v < 16384 /\ v < 32768 /\ v + 1 = offset
      BY <1>1, <2>2, FormatFacts
    <3>2. i = LongMatch(32, length, M3_MAX_LEN) \o OffsetBytes(v)
      <4>1. M3_MARKER = 32
        BY FormatFacts
      <4> QED BY <1>2, <2>2, <4>1 DEF MatchInstruction
    <3>3. M3_MAX_LEN \in 8 .. 33 /\ 32 \in {16, 24, 32}
      BY FormatFacts
    <3> HIDE DEF v
    <3>4. \E nx \in Nat : LongRead(32, length, M3_MAX_LEN, v, t, dip, nx, Len(i))
      <4>1. StoredAt(dip, LongMatch(32, length, M3_MAX_LEN) \o OffsetBytes(v), t)
        BY <1>a, <3>2
      <4>2. 32 \in {16, 24, 32} /\ length \in Nat /\ length >= 4 /\ M3_MAX_LEN \in 8 .. 33
            /\ v \in Nat /\ v < 32768 /\ t \in 0 .. 3 /\ dip \in Nat /\ Len(dest) \in Nat
        BY <1>1, <1>3, <3>1, <3>3
      <4>3. LongParameters(32, length, M3_MAX_LEN, v, t)
        BY ONLY <4>2 DEF LongParameters
      <4>4. LongIsRead(32, length, M3_MAX_LEN, v, t, dip)
        BY ONLY <4>1, <4>2, <4>3, LongInstructionRead
      <4> QED BY <3>2, <4>4 DEF LongIsRead
    <3>5. PICK nx \in Nat : LongRead(32, length, M3_MAX_LEN, v, t, dip, nx, Len(i))
      BY <3>4
    <3>6. MatchReads(length, v + 1, t, dip + Len(i))
      BY <1>1, <1>3, <3>1, <3>5, NearRead
    <3> QED BY <3>1, <3>6
  <2>3. CASE ~ IsM2(length, offset) /\ ~ (offset <= M3_MAX_OFFSET)
    <3> DEFINE v      == offset - M3_MAX_OFFSET
               marker == IF v < 16384 THEN 16 ELSE 24
    <3>1. offset > M3_MAX_OFFSET /\ M3_MAX_OFFSET \in Nat
      BY <1>1, <2>3, FormatFacts
    <3>2. v \in Nat /\ 1 <= v /\ v <= 32767 /\ FarMarker(offset) = marker
      <4>1. /\ offset - M3_MAX_OFFSET \in Nat
            /\ 1 <= offset - M3_MAX_OFFSET /\ offset - M3_MAX_OFFSET <= 32767
            /\ FarMarker(offset) \in {16, 24}
            /\ (FarMarker(offset) = 24 <=> offset - M3_MAX_OFFSET >= 16384)
        BY <1>1, <3>1, FarMarkerIs
      <4>2. CASE v < 16384
        BY <4>1, <4>2
      <4>3. CASE ~ (v < 16384)
        BY <4>1, <4>3
      <4> QED BY <4>2, <4>3
    <3>3. i = LongMatch(marker, length, M4_MAX_LEN) \o OffsetBytes(v)
      <4>1. i = LongMatch(FarMarker(offset), length, M4_MAX_LEN) \o OffsetBytes(v)
        BY <1>2, <2>3 DEF MatchInstruction, FarMarker
      <4> QED BY <3>2, <4>1
    <3>4. M4_MAX_LEN \in 8 .. 33 /\ marker \in {16, 24, 32} /\ v < 32768
      BY <3>2, FormatFacts
    <3>5. v + M3_MAX_OFFSET = offset
      BY <1>1, <3>1
    <3> HIDE DEF v, marker
    <3>6. \E nx \in Nat : LongRead(marker, length, M4_MAX_LEN, v, t, dip, nx, Len(i))
      <4>1. StoredAt(dip, LongMatch(marker, length, M4_MAX_LEN) \o OffsetBytes(v), t)
        BY <1>a, <3>3
      <4>2. marker \in {16, 24, 32} /\ length \in Nat /\ length >= 4 /\ M4_MAX_LEN \in 8 .. 33
            /\ v \in Nat /\ v < 32768 /\ t \in 0 .. 3 /\ dip \in Nat /\ Len(dest) \in Nat
        BY <1>1, <1>3, <3>2, <3>4
      <4>3. LongParameters(marker, length, M4_MAX_LEN, v, t)
        BY ONLY <4>2 DEF LongParameters
      <4>4. LongIsRead(marker, length, M4_MAX_LEN, v, t, dip)
        BY ONLY <4>1, <4>2, <4>3, LongInstructionRead
      <4> QED BY <3>3, <4>4 DEF LongIsRead
    <3>7. PICK nx \in Nat : LongRead(marker, length, M4_MAX_LEN, v, t, dip, nx, Len(i))
      BY <3>6
    <3>8. LongRead(MarkerOf(v), length, M4_MAX_LEN, v, t, dip, nx, Len(i))
      BY <3>7 DEF marker, MarkerOf
    <3>9. v > 0
      BY <3>2
    <3>10. MatchReads(length, v + M3_MAX_OFFSET, t, dip + Len(i))
      <4>1. /\ length \in Nat /\ v \in Nat /\ v < 32768 /\ v > 0 /\ length >= 4
            /\ nx \in Nat /\ Len(i) \in Nat /\ dip \in Nat
        BY <1>1, <1>3, <3>2, <3>4, <3>7, <3>9
      <4>2. FarParameters(length, v)
        BY ONLY <4>1 DEF FarParameters
      <4> QED BY ONLY <4>1, <4>2, <3>8, FarRead
    <3> QED BY <3>5, <3>10
  <2> QED BY <2>1, <2>2, <2>3
<1> QED BY <1>6 DEF length, offset, t, i

(* The end of the block.                                                   *)
LEMMA EndRead ==
  ASSUME dest \in Seq(Bytes), Terminated(dest), dip = Len(dest) - 3
  PROVE  /\ dip \in Nat /\ InBlock(dip) >= 16
         /\ MatchFound.offset = 0 /\ MatchFound.next = Len(dest)
<1> DEFINE e  == Len(dest)
           x  == InBlock(dip)
           nx == dip + 1
<1>1. e \in Nat /\ e >= 3 /\ dip \in Nat /\ dip + 1 = e - 2 /\ nx + 1 = e - 1 /\ nx + 2 = e
      /\ (nx + 1) + 1 = e
  BY LenProperties DEF Terminated
<1>2. x = 17 /\ InBlock(nx) = 0 /\ InBlock(nx + 1) = 0
  BY <1>1 DEF Terminated, InBlock
<1> HIDE DEF e, x, nx
<1>3. M3_MARKER = 32 /\ M4_MARKER = 16
  BY FormatFacts
<1>4. MatchFound = [length |-> Extended(x % 8, M4_MAX_LEN - 2, nx).value + 2,
                    next   |-> Extended(x % 8, M4_MAX_LEN - 2, nx).next + 2,
                    offset |-> LET f == (16384 * ((x \div 8) % 2))
                                          + OffsetAt(Extended(x % 8, M4_MAX_LEN - 2, nx).next)
                               IN  IF f = 0 THEN 0 ELSE f + M3_MAX_OFFSET]
  <2>1. ~ (x >= 64) /\ ~ (x >= M3_MARKER) /\ x >= M4_MARKER
    BY ONLY <1>2, <1>3
  <2> QED BY <2>1 DEF MatchFound, x, nx
<1>5. x % 8 = 1 /\ (x \div 8) % 2 = 0
  BY ONLY <1>2
<1>6. Extended(1, M4_MAX_LEN - 2, nx) = [value |-> 1, next |-> nx]
  BY DEF Extended
<1>7. Extended(1, M4_MAX_LEN - 2, nx).next = nx
  BY <1>6
<1>8. OffsetAt(nx) = 0
  BY <1>2 DEF OffsetAt
<1>9. MatchFound = [length |-> Extended(1, M4_MAX_LEN - 2, nx).value + 2, next |-> nx + 2,
                    offset |-> LET f == (16384 * 0) + 0
                               IN  IF f = 0 THEN 0 ELSE f + M3_MAX_OFFSET]
  BY ONLY <1>4, <1>5, <1>7, <1>8
<1>10. MatchFound.next = nx + 2 /\ MatchFound.offset = 0
  BY ONLY <1>9
<1> QED BY <1>1, <1>2, <1>10 DEF e, x

-----------------------------------------------------------------------------
(* What the decoder makes of it *)

(* The decoded bytes are the first of the page.                            *)
Decoded(u, s) == /\ u \in Seq(Bytes) /\ Len(u) <= Len(s)
                 /\ \A k \in 1 .. Len(u) : u[k] = s[k]

LEMMA DecodedMore ==
  ASSUME NEW s \in Seq(Bytes), NEW u, Decoded(u, s), NEW v \in Seq(Bytes),
         Len(u) + Len(v) <= Len(s), \A k \in 1 .. Len(v) : v[k] = s[Len(u) + k]
  PROVE  Decoded(u \o v, s) /\ Len(u \o v) = Len(u) + Len(v)
<1> DEFINE w == u \o v
           m == Len(u)
           n == Len(v)
<1>1. u \in Seq(Bytes) /\ \A k \in 1 .. m : u[k] = s[k]
  BY DEF Decoded
<1>2. /\ m \in Nat /\ n \in Nat /\ w \in Seq(Bytes) /\ Len(w) = m + n
      /\ \A k \in 1 .. m : w[k] = u[k]
      /\ \A k \in 1 .. n : w[m + k] = v[k]
  BY <1>1, ConcatIs
<1> HIDE DEF w
<1>3. ASSUME NEW k \in 1 .. Len(w) PROVE w[k] = s[k]
  <2>1. CASE k <= m
    <3>1. k \in 1 .. m
      BY <1>2, <2>1
    <3> QED BY <1>1, <1>2, <3>1
  <2>2. CASE k > m
    <3>1. k - m \in 1 .. n /\ m + (k - m) = k
      BY <1>2, <2>2
    <3> QED BY <1>2, <3>1
  <2> QED BY <1>2, <2>1, <2>2
<1> QED BY <1>2, <1>3 DEF Decoded, w

LEMMA ModBack ==
  ASSUME NEW x \in Nat, NEW d \in Nat \ {0}, x >= d
  PROVE  (x - d) % d = x % d
<1> DEFINE q  == x \div d
           r  == x % d
           q1 == (x - d) \div d
           r1 == (x - d) % d
           g  == q - q1 - 1
<1>1. x - d \in Nat
  OBVIOUS
<1>2. /\ q \in Nat /\ r \in 0 .. d - 1 /\ x = (d * q) + r
      /\ q1 \in Nat /\ r1 \in 0 .. d - 1 /\ x - d = (d * q1) + r1
  BY <1>1, DivMod
<1> HIDE DEF q, r, q1, r1
<1>3. g \in Int /\ d * g = (d * q) - (d * q1) - d
  BY <1>2
<1>4. d * g = r1 - r
  <2> DEFINE a == d * q
             b == d * q1
  <2>1. a \in Nat /\ b \in Nat /\ x = a + r /\ x - d = b + r1 /\ d * g = a - b - d
    BY <1>2, <1>3
  <2> HIDE DEF a, b, g
  <2> QED BY <1>2, <2>1
<1> HIDE DEF g
<1>5. g = 0
  <2>1. CASE g >= 1
    <3>1. d * g >= d
      BY <1>3, <2>1
    <3> DEFINE p == d * g
    <3>2. p >= d /\ p = r1 - r
      BY <1>4, <3>1
    <3> HIDE DEF p
    <3> QED BY <1>2, <3>2
  <2>2. CASE g <= -1
    <3>1. d * g <= -d
      BY <1>3, <2>2
    <3> DEFINE p == d * g
    <3>2. p <= -d /\ p = r1 - r
      BY <1>4, <3>1
    <3> HIDE DEF p
    <3> QED BY <1>2, <3>2
  <2> QED BY <1>3, <2>1, <2>2
<1>6. r1 = r
  <2>1. d * 0 = 0
    OBVIOUS
  <2> QED BY <1>2, <1>4, <1>5, <2>1
<1> QED BY <1>6 DEF r, r1

(* A page that is the same offset bytes further on is so periodically.     *)
SameBefore(s, out, offset, length) ==
  \A k \in 1 .. length : s[out + k] = s[out - offset + k]

PeriodicFrom(s, out, offset, length) ==
  \A k \in 1 .. length : s[out + k] = s[out - offset + 1 + ((k - 1) % offset)]

LEMMA PeriodicIs ==
  ASSUME NEW s, NEW out, NEW offset, NEW length,
         out \in Nat, offset \in Nat \ {0}, length \in Nat, offset <= out,
         SameBefore(s, out, offset, length)
  PROVE  PeriodicFrom(s, out, offset, length)
<1> DEFINE P(k) == s[out + k] = s[out - offset + 1 + ((k - 1) % offset)]
           S    == {k \in 1 .. length : ~ P(k)}
<1> SUFFICES ASSUME S # {} PROVE FALSE
  BY DEF PeriodicFrom
<1> USE DEF SameBefore
<1>1. S \subseteq Nat
  OBVIOUS
<1> DEFINE m == Min(S)
<1>2. m \in S /\ \A y \in S : m <= y
  <2> HIDE DEF S
  <2> QED BY <1>1, MinOf
<1> HIDE DEF m
<1>3. m \in 1 .. length /\ ~ P(m)
  BY <1>2
<1>4. \A k \in 1 .. length : k < m => P(k)
  BY <1>2, <1>3
<1> HIDE DEF S
<1>5. s[out + m] = s[out - offset + m]
  BY <1>3
<1>6. CASE m <= offset
  <2>1. m - 1 \in 0 .. offset - 1
    BY <1>3, <1>6
  <2>2. (m - 1) % offset = m - 1
    BY <2>1
  <2>3. out - offset + 1 + (m - 1) = out - offset + m
    BY <1>3
  <2> QED BY <1>3, <1>5, <2>2, <2>3
<1>7. CASE m > offset
  <2> DEFINE j == m - offset
  <2>1. j \in 1 .. length /\ j < m /\ out + j = out - offset + m
    BY <1>3, <1>7
  <2>2. (m - 1) \in Nat /\ m - 1 >= offset /\ (m - 1) - offset = j - 1
    BY <1>3, <1>7
  <2> DEFINE y == m - 1
  <2>3. (y - offset) % offset = y % offset
    <3> HIDE DEF y
    <3> QED BY <2>2, ModBack DEF y
  <2>4. (j - 1) % offset = (m - 1) % offset
    BY <2>2, <2>3
  <2>5. P(j)
    BY <1>4, <2>1
  <2> HIDE DEF j, y
  <2>6. s[out + j] = s[out - offset + 1 + ((m - 1) % offset)]
    BY ONLY <2>4, <2>5
  <2> QED BY <1>3, <1>5, <2>1, <2>6
<1> QED BY <1>3, <1>6, <1>7

(* The copy of a match, from bytes already decoded.                        *)
LEMMA MatchDecoded ==
  ASSUME NEW s \in Seq(Bytes), NEW u, Decoded(u, s), NEW n, Sound(s, n), n.length # 0,
         Len(u) = n.out
  PROVE  /\ Decoded(u \o Repeated(u, n.offset, n.length), s)
         /\ Len(u \o Repeated(u, n.offset, n.length)) = n.out + n.length
<1> DEFINE out    == n.out
           offset == n.offset
           length == n.length
           v      == Repeated(u, offset, length)
<1>1. /\ out \in Nat /\ length \in Nat /\ offset \in Nat \ {0} /\ n.t \in Nat /\ offset <= out
      /\ \A k \in 1 .. length : s[out + k] = s[out - offset + k]
  <2>1. out \in Nat /\ length \in Nat /\ offset \in Nat /\ n.t \in Nat
    BY InstrIs
  <2>2. 1 <= offset /\ offset <= out /\ \A k \in 1 .. length : s[out + k] = s[out - offset + k]
    BY DEF Sound
  <2> QED BY <2>1, <2>2
<1>2. out + length <= Len(s)
  <2>1. out + length + n.t <= Len(s) /\ Len(s) \in Nat
    BY LenProperties DEF Sound, Reach
  <2> QED BY <1>1, <2>1
<1>3. u \in Seq(Bytes) /\ Len(u) = out /\ \A k \in 1 .. out : u[k] = s[k]
  BY DEF Decoded
<1>4. v = [k \in 1 .. length |-> u[Len(u) - offset + 1 + ((k - 1) % offset)]]
  BY DEF Repeated
<1> HIDE DEF out, offset, length, v
<1>5. \A k \in 1 .. length : s[out + k] = s[out - offset + 1 + ((k - 1) % offset)]
  <2>1. SameBefore(s, out, offset, length)
    BY <1>1 DEF SameBefore
  <2>2. PeriodicFrom(s, out, offset, length)
    BY ONLY <1>1, <2>1, PeriodicIs
  <2> QED BY <2>2 DEF PeriodicFrom
<1>6. ASSUME NEW k \in 1 .. length
      PROVE  /\ u[Len(u) - offset + 1 + ((k - 1) % offset)] \in Bytes
             /\ u[Len(u) - offset + 1 + ((k - 1) % offset)] = s[out + k]
  <2> DEFINE r == (k - 1) % offset
             i == Len(u) - offset + 1 + r
  <2>1. k - 1 \in Nat
    BY <1>1
  <2>2. r \in 0 .. offset - 1
    <3> DEFINE y == k - 1
    <3>1. y \in Nat
      BY <2>1
    <3> HIDE DEF y
    <3>2. y % offset \in 0 .. offset - 1
      BY <1>1, <3>1, DivMod
    <3> QED BY <3>2 DEF y
  <2>3. s[out + k] = s[out - offset + 1 + r]
    BY <1>5
  <2> HIDE DEF r
  <2>4. i \in 1 .. out /\ i = out - offset + 1 + r
    BY <1>1, <1>3, <2>2
  <2> HIDE DEF i
  <2>5. u[i] = s[i] /\ u[i] \in Bytes
    BY <1>3, <2>4, ElementOfSeq
  <2>6. u[i] = s[out + k]
    BY ONLY <2>3, <2>4, <2>5
  <2> QED BY <2>5, <2>6 DEF i, r
<1>7. v \in [1 .. length -> Bytes] /\ \A k \in 1 .. length : v[k] = s[out + k]
  BY <1>4, <1>6
<1>8. v \in Seq(Bytes) /\ Len(v) = length
  <2>1. v \in Seq(Bytes)
    BY <1>1, <1>7
  <2>2. DOMAIN v = 1 .. Len(v) /\ Len(v) \in Nat
    BY <2>1, LenProperties
  <2>3. 1 .. Len(v) = 1 .. length
    BY <1>7, <2>2
  <2> QED BY <1>1, <2>1, <2>2, <2>3, SameInterval
<1>9. Len(u) + Len(v) <= Len(s) /\ \A k \in 1 .. Len(v) : v[k] = s[Len(u) + k]
  BY <1>2, <1>3, <1>7, <1>8
<1>10. Decoded(u \o v, s) /\ Len(u \o v) = Len(u) + Len(v)
  BY <1>8, <1>9, DecodedMore
<1>11. Decoded(u \o v, s) /\ Len(u \o v) = out + length
  BY <1>3, <1>8, <1>10
<1> QED BY <1>11 DEF out, length, v, offset

(* The literals of an instruction, from the block.                         *)
LiteralsOf(n, b)   == b + Len(Instr(n))
LiteralsEncode(n) == n.out + n.length

LiteralsAdded(s, u, p, b, n) ==
  /\ Decoded(u \o LiteralsAt(p, n.t), s)
  /\ Len(u \o LiteralsAt(p, n.t)) = Reach(n)
  /\ p + n.t = Ends(b, n)

LEMMA LiteralsDecoded ==
  ASSUME NEW s, NEW u, NEW b, NEW n, NEW p, s \in Seq(Bytes), dest \in Seq(Bytes), Decoded(u, s),
         b \in Nat, Sound(s, n), Stored(s, dest, b, n), Len(u) = LiteralsEncode(n),
         p = LiteralsOf(n, b)
  PROVE  LiteralsAdded(s, u, p, b, n)
<1> DEFINE h == Len(Instr(n))
           t == n.t
           v == LiteralsAt(p, t)
           base == n.out + n.length
<1>1. h \in Nat /\ t \in Nat /\ n.out \in Nat /\ n.length \in Nat /\ Len(dest) \in Nat /\ Len(s) \in Nat
  BY InstrIs, LenProperties
<1>2. b + h + t <= Len(dest) /\ \A k \in 1 .. t : dest[b + h + k] = s[base + k]
  BY DEF Stored, Ends
<1>3. base + t <= Len(s) /\ Reach(n) = base + t /\ Ends(b, n) = b + h + t
  BY DEF Sound, Reach, Ends
<1>4. base \in Nat /\ p = b + h /\ p \in Nat
  <2>1. p = b + h
    BY DEF LiteralsOf
  <2>2. b \in Nat
    OBVIOUS
  <2>3. base \in Nat
    BY ONLY <1>1
  <2> HIDE DEF h, base
  <2> QED BY ONLY <1>1, <2>1, <2>2, <2>3
<1> HIDE DEF h, t, base, v
<1>5. p + t <= Len(dest) /\ \A k \in 1 .. t : dest[p + k] = s[base + k]
  BY ONLY <1>2, <1>4
<1>6. v \in Seq(Bytes) /\ Len(v) = t /\ \A k \in 1 .. t : v[k] = dest[p + k]
  <2>1. p \in Nat /\ t \in Nat /\ p + t <= Len(dest) /\ dest \in Seq(Bytes)
    BY <1>1, <1>4, <1>5
  <2> DEFINE w == SubSeq(dest, p + 1, p + t)
  <2>2. w \in Seq(Bytes) /\ Len(w) = t /\ \A k \in 1 .. t : w[k] = dest[p + k]
    BY ONLY <2>1, PartOf
  <2>3. v = w
    BY DEF v, LiteralsAt
  <2> HIDE DEF w
  <2> QED BY <2>2, <2>3
<1>7. Len(u) = base
  BY DEF base, LiteralsEncode
<1>8. Len(u) + Len(v) <= Len(s) /\ \A k \in 1 .. Len(v) : v[k] = s[Len(u) + k]
  BY ONLY <1>3, <1>5, <1>6, <1>7
<1>9. Decoded(u \o v, s) /\ Len(u \o v) = Len(u) + Len(v)
  BY <1>6, <1>8, DecodedMore
<1>10. Len(u \o v) = Reach(n) /\ p + t = Ends(b, n)
  BY ONLY <1>3, <1>4, <1>6, <1>7, <1>9
<1> QED BY <1>9, <1>10 DEF v, t, LiteralsAdded

(* Before the end of the block d for the page s, which is all decoded.     *)
AtEnd(s, d, i, u) == i = Len(d) - 3 /\ Len(u) = Len(s)

(* Before an instruction, which is a match except at the head of the loop. *)
BeforeNode(s, d, label, i, u, mark, last) ==
  /\ Written(s, d, mark, last, Len(d) - 3, Len(s))
  /\ i \in DOMAIN mark /\ Len(u) = mark[i].out
  /\ label # "loop" => mark[i].length # 0

AtInstruction(s, d, label, i, u) ==
  \E mark, last : BeforeNode(s, d, label, i, u, mark, last)

(* The decoder is at an instruction of the compressor or at the end, and   *)
(* has decoded what comes before.                                          *)
Decoding ==
  /\ dpc \in {"idle", "loop", "first_literal_run", "match", "eof_found"}
  /\ dpc = "idle" => dip = 0 /\ text = <<>>
  /\ dpc # "idle" => pc = "compressed"
  /\ Decoded(text, src)
  /\ dpc \in {"loop", "first_literal_run", "match"} =>
       AtEnd(src, dest, dip, text) \/ AtInstruction(src, dest, dpc, dip, text)
  /\ dpc = "eof_found" => dip = Len(dest) /\ Len(text) = Len(src)

LEMMA NodeIs ==
  ASSUME NEW s, NEW d, NEW mark, NEW last, NEW end, NEW reach,
         Written(s, d, mark, last, end, reach), NEW b, b \in DOMAIN mark
  PROVE  b \in Nat /\ Sound(s, mark[b]) /\ Stored(s, d, b, mark[b])
  BY DEF Written

(* Behind an instruction there is another one, or the end.                 *)
LEMMA AfterNode ==
  ASSUME NEW s, NEW d, NEW label, NEW i, NEW u, NEW mark, NEW last,
         BeforeNode(s, d, label, i, u, mark, last),
         NEW label2, NEW i2, NEW u2, i2 = Ends(i, mark[i]), Len(u2) = Reach(mark[i]),
         label2 # "loop" => mark[i].length = 0 \/ mark[i].t > 0
  PROVE  AtEnd(s, d, i2, u2) \/ AtInstruction(s, d, label2, i2, u2)
<1>1. Written(s, d, mark, last, Len(d) - 3, Len(s)) /\ i \in DOMAIN mark
  BY DEF BeforeNode
<1>2. CASE i = last
  BY <1>1, <1>2 DEF Written, AtEnd
<1>3. CASE i # last
  <2>1. Follows(mark, i)
    BY <1>1, <1>3 DEF Written
  <2>2. BeforeNode(s, d, label2, i2, u2, mark, last)
    BY <1>1, <2>1 DEF BeforeNode, Follows
  <2> QED BY <2>2 DEF AtInstruction
<1> QED BY <1>2, <1>3

LEMMA DecompressDecodes == Positions /\ Tape /\ Decoding /\ Decompress => Decoding'
<1> SUFFICES ASSUME Positions, Tape, Decoding, Decompress PROVE Decoding'
  OBVIOUS
<1>1. /\ pc = "compressed" /\ pc' = pc /\ src' = src /\ dest' = dest
      /\ dip = 0 /\ text = <<>> /\ dpc = "idle"
  BY DEF Decompress, Decoding, compressVars
<1>2. /\ src \in Seq(Bytes) /\ Len(src) \in Nat /\ Len(src) > 0
      /\ dest \in Seq(Bytes) /\ Len(dest) \in Nat /\ Complete(src, dest) /\ Decoded(text, src)
  BY <1>1, LenProperties DEF Positions, Tape, Decoding, in_len
<1> DEFINE t == InBlock(0) - 17
<1>3. IF t > 0
        THEN /\ text' = text \o LiteralsAt(1, t) /\ dip' = 1 + t
             /\ dpc' = IF t < 4 THEN "match" ELSE "first_literal_run"
        ELSE dpc' = "loop" /\ dip' = dip /\ text' = text
  BY DEF Decompress, CopyLiterals
<1>4. CASE ShortBlock(src, dest)
  <2> DEFINE n == Len(src)
             v == LiteralsAt(1, t)
  <2>1. /\ Len(dest) = n + 4 /\ dest[1] = 17 + n
        /\ \A k \in 1 .. n : dest[1 + k] = src[k]
    BY <1>4 DEF ShortBlock
  <2>2. t = n
    <3>1. InBlock(0) = 17 + n
      BY <2>1 DEF InBlock
    <3> QED BY <1>2, <3>1
  <2> HIDE DEF n
  <2>3. v \in Seq(Bytes) /\ Len(v) = n /\ \A k \in 1 .. n : v[k] = dest[1 + k]
    <3>1. 1 \in Nat /\ n \in Nat /\ 1 + n <= Len(dest) /\ dest \in Seq(Bytes)
      BY <1>2, <2>1 DEF n
    <3> DEFINE w == SubSeq(dest, 1 + 1, 1 + n)
    <3>2. w \in Seq(Bytes) /\ Len(w) = n /\ \A k \in 1 .. n : w[k] = dest[1 + k]
      BY ONLY <3>1, PartOf
    <3>3. v = w
      BY <2>2 DEF LiteralsAt
    <3> HIDE DEF w, v
    <3> QED BY <3>2, <3>3
  <2> HIDE DEF v, t
  <2>4. Len(text) = 0
    BY <1>1
  <2>5. Len(text) + Len(v) <= Len(src) /\ \A k \in 1 .. Len(v) : v[k] = src[Len(text) + k]
    <3>1. \A k \in 1 .. n : v[k] = src[0 + k]
      BY <2>1, <2>3
    <3> QED BY <1>2, <2>3, <2>4, <3>1 DEF n
  <2>6. Decoded(text \o v, src) /\ Len(text \o v) = Len(text) + Len(v)
    BY <1>2, <2>3, <2>5, DecodedMore
  <2>7. t > 0
    BY <1>2, <2>2 DEF n
  <2>8. text' = text \o v /\ dip' = 1 + t /\ dpc' \in {"match", "first_literal_run"}
    BY <1>3, <2>7 DEF v
  <2>9. AtEnd(src, dest, dip', text')
    <3>1. Len(text') = n /\ dip' = Len(dest) - 3
      BY <1>2, <2>1, <2>2, <2>3, <2>4, <2>6, <2>8 DEF n
    <3> QED BY <3>1 DEF AtEnd, n
  <2> QED BY <1>1, <2>6, <2>8, <2>9 DEF Decoding
<1>5. CASE ~ ShortBlock(src, dest)
  <2>1. PICK mark, last : Written(src, dest, mark, last, Len(dest) - 3, Len(src))
    BY <1>2, <1>5 DEF Complete
  <2>2. 0 \in DOMAIN mark /\ mark[0].out = 0 /\ mark[0].length = 0
    BY <2>1 DEF Written
  <2>3. 0 \in Nat /\ Sound(src, mark[0]) /\ Stored(src, dest, 0, mark[0])
    BY <2>1, <2>2, NodeIs
  <2>4. InBlock(0) \in 0 .. 15
    BY <1>2, <2>2, <2>3, RunRead
  <2>5. ~ (t > 0)
    BY <2>4
  <2>6. dpc' = "loop" /\ dip' = 0 /\ text' = text /\ Len(text) = 0
    BY <1>1, <1>3, <2>5
  <2>7. BeforeNode(src, dest, "loop", 0, text, mark, last)
    BY <2>1, <2>2, <2>6 DEF BeforeNode
  <2>8. AtInstruction(src, dest, "loop", 0, text)
    BY <2>7 DEF AtInstruction
  <2> QED BY <1>1, <1>2, <2>6, <2>8 DEF Decoding
<1> QED BY <1>4, <1>5

LEMMA LiteralRunDecodes == Positions /\ Tape /\ Decoding /\ LiteralRun => Decoding'
<1> SUFFICES ASSUME Positions, Tape, Decoding, LiteralRun PROVE Decoding'
  OBVIOUS
<1> DEFINE run == Extended(InBlock(dip), 15, dip + 1)
<1>1. /\ dpc = "loop" /\ pc = "compressed" /\ pc' = pc /\ src' = src /\ dest' = dest
      /\ Decoded(text, src)
      /\ AtEnd(src, dest, dip, text) \/ AtInstruction(src, dest, dpc, dip, text)
  BY DEF LiteralRun, Decoding, compressVars
<1>2. /\ src \in Seq(Bytes) /\ dest \in Seq(Bytes) /\ Terminated(dest)
  BY <1>1 DEF Positions, Tape, Complete
<1>3. /\ InBlock(dip) >= 16 => dpc' = "match" /\ dip' = dip /\ text' = text
      /\ ~ (InBlock(dip) >= 16) =>
           /\ text' = text \o LiteralsAt(run.next, run.value + 3)
           /\ dip' = run.next + (run.value + 3)
           /\ dpc' = "first_literal_run"
  BY DEF LiteralRun, CopyLiterals
<1> HIDE DEF run
<1>4. CASE AtEnd(src, dest, dip, text)
  <2>1. InBlock(dip) >= 16
    BY <1>2, <1>4, EndRead DEF AtEnd
  <2>2. dpc' = "match" /\ dip' = dip /\ text' = text
    BY <1>3, <2>1
  <2> QED BY <1>1, <1>4, <2>2 DEF Decoding
<1>5. CASE AtInstruction(src, dest, dpc, dip, text)
  <2>1. PICK mark, last : BeforeNode(src, dest, dpc, dip, text, mark, last)
    BY <1>5 DEF AtInstruction
  <2> DEFINE n == mark[dip]
  <2>2. /\ Written(src, dest, mark, last, Len(dest) - 3, Len(src))
        /\ dip \in DOMAIN mark /\ Len(text) = n.out
    BY <2>1 DEF BeforeNode
  <2>3. dip \in Nat /\ Sound(src, n) /\ Stored(src, dest, dip, n)
    BY <2>2, NodeIs
  <2> HIDE DEF n
  <2>4. CASE n.length # 0
    <3>1. MatchReads(n.length, n.offset, n.t, dip + Len(Instr(n)))
      BY <1>2, <2>3, <2>4, MatchRead
    <3>2. InBlock(dip) >= 16
      BY <3>1 DEF MatchReads
    <3>3. dpc' = "match" /\ dip' = dip /\ text' = text
      BY <1>3, <3>2
    <3>4. BeforeNode(src, dest, "match", dip, text, mark, last)
      BY <2>2, <2>4 DEF BeforeNode, n
    <3>5. AtInstruction(src, dest, "match", dip, text)
      BY <3>4 DEF AtInstruction
    <3> QED BY <1>1, <3>3, <3>5 DEF Decoding
  <2>5. CASE n.length = 0
    <3>1. /\ InBlock(dip) \in 0 .. 15 /\ run.value + 3 = n.t
          /\ run.next = dip + Len(Instr(n))
      BY <1>2, <2>3, <2>5, RunRead DEF run
    <3> DEFINE p == run.next
    <3>2. p = dip + Len(Instr(n)) /\ ~ (InBlock(dip) >= 16)
      BY <3>1
    <3>3. Len(text) = n.out + n.length
      <4>1. n.out \in Nat
        BY <2>3, InstrIs
      <4> QED BY <2>2, <2>5, <4>1
    <3> HIDE DEF p
    <3>4. /\ Decoded(text \o LiteralsAt(p, n.t), src)
          /\ Len(text \o LiteralsAt(p, n.t)) = Reach(n)
          /\ p + n.t = Ends(dip, n)
      <4>1. Len(text) = LiteralsEncode(n) /\ p = LiteralsOf(n, dip)
        BY <3>2, <3>3 DEF LiteralsEncode, LiteralsOf
      <4>2. LiteralsAdded(src, text, p, dip, n)
        BY ONLY <1>1, <1>2, <2>3, <4>1, LiteralsDecoded
      <4> QED BY <4>2 DEF LiteralsAdded
    <3>5. /\ text' = text \o LiteralsAt(p, n.t) /\ dip' = p + n.t /\ dpc' = "first_literal_run"
      BY <1>3, <3>1, <3>2 DEF p
    <3>6. dip' = Ends(dip, n) /\ Len(text') = Reach(n) /\ Decoded(text', src)
      BY <3>4, <3>5
    <3>7. AtEnd(src, dest, dip', text') \/ AtInstruction(src, dest, "first_literal_run", dip', text')
      BY <2>1, <2>5, <3>6, AfterNode DEF n
    <3> QED BY <1>1, <3>5, <3>6, <3>7 DEF Decoding
  <2> QED BY <2>4, <2>5
<1> QED BY <1>1, <1>4, <1>5

LEMMA CopyMatchDecodes == Positions /\ Tape /\ Decoding /\ CopyMatch => Decoding'
<1> SUFFICES ASSUME Positions, Tape, Decoding, CopyMatch PROVE Decoding'
  OBVIOUS
<1> DEFINE m == MatchFound
           t == InBlock(m.next - 2) % 4
<1>1. /\ dpc \in {"first_literal_run", "match"} /\ dpc # "loop" /\ pc = "compressed"
      /\ pc' = pc /\ src' = src /\ dest' = dest
      /\ Decoded(text, src)
      /\ AtEnd(src, dest, dip, text) \/ AtInstruction(src, dest, dpc, dip, text)
  BY DEF CopyMatch, Decoding, compressVars
<1>2. /\ src \in Seq(Bytes) /\ dest \in Seq(Bytes) /\ Terminated(dest)
  BY <1>1 DEF Positions, Tape, Complete
<1>3. /\ m.offset = 0 => dpc' = "eof_found" /\ dip' = m.next /\ text' = text
      /\ m.offset # 0 =>
           /\ text' = text \o Repeated(text, m.offset, m.length) \o LiteralsAt(m.next, t)
           /\ dip' = m.next + t
           /\ dpc' = AfterMatch(t)
  BY DEF CopyMatch
<1> HIDE DEF m, t
<1>4. CASE AtEnd(src, dest, dip, text)
  <2>1. m.offset = 0 /\ m.next = Len(dest)
    BY <1>2, <1>4, EndRead DEF AtEnd, m
  <2>2. dpc' = "eof_found" /\ dip' = Len(dest) /\ text' = text
    BY <1>3, <2>1
  <2>3. Len(text) = Len(src)
    BY <1>4 DEF AtEnd
  <2> QED BY <1>1, <2>2, <2>3 DEF Decoding
<1>5. CASE AtInstruction(src, dest, dpc, dip, text)
  <2>1. PICK mark, last : BeforeNode(src, dest, dpc, dip, text, mark, last)
    BY <1>5 DEF AtInstruction
  <2> DEFINE n == mark[dip]
             p == dip + Len(Instr(n))
             u == text \o Repeated(text, n.offset, n.length)
  <2>2. /\ Written(src, dest, mark, last, Len(dest) - 3, Len(src))
        /\ dip \in DOMAIN mark /\ Len(text) = n.out /\ n.length # 0
    BY <1>1, <2>1 DEF BeforeNode
  <2>3. dip \in Nat /\ Sound(src, n) /\ Stored(src, dest, dip, n)
    BY <2>2, NodeIs
  <2> HIDE DEF n
  <2>4. MatchReads(n.length, n.offset, n.t, p)
    BY <1>2, <2>2, <2>3, MatchRead
  <2> HIDE DEF p
  <2>5. m.length = n.length /\ m.offset = n.offset /\ m.next = p /\ t = n.t
    BY <2>4 DEF MatchReads, m, t
  <2>6. m.offset # 0 /\ n.t \in Nat
    <3>1. n.offset \in Nat /\ n.t \in Nat
      BY <2>3, InstrIs
    <3>2. 1 <= n.offset
      BY <2>2, <2>3 DEF Sound
    <3> QED BY <2>5, <3>1, <3>2
  <2>7. /\ text' = u \o LiteralsAt(p, n.t)
        /\ dip' = p + n.t /\ dpc' = AfterMatch(n.t)
    BY <1>3, <2>5, <2>6
  <2>8. Decoded(u, src) /\ Len(u) = n.out + n.length
    BY <1>1, <1>2, <2>2, <2>3, MatchDecoded
  <2> HIDE DEF u
  <2>9. p = dip + Len(Instr(n))
    BY DEF p
  <2>10. /\ Decoded(u \o LiteralsAt(p, n.t), src)
         /\ Len(u \o LiteralsAt(p, n.t)) = Reach(n)
         /\ p + n.t = Ends(dip, n)
    <3>1. Len(u) = LiteralsEncode(n) /\ p = LiteralsOf(n, dip)
      BY <2>8, <2>9 DEF LiteralsEncode, LiteralsOf
    <3>2. LiteralsAdded(src, u, p, dip, n)
      BY ONLY <1>2, <2>3, <2>8, <3>1, LiteralsDecoded
    <3> QED BY <3>2 DEF LiteralsAdded
  <2>11. dip' = Ends(dip, n) /\ Len(text') = Reach(n) /\ Decoded(text', src)
    BY <2>7, <2>10
  <2>12. dpc' \in {"loop", "match"} /\ (dpc' # "loop" => n.t > 0)
    BY <2>6, <2>7 DEF AfterMatch
  <2>13. AtEnd(src, dest, dip', text') \/ AtInstruction(src, dest, dpc', dip', text')
    BY <2>1, <2>11, <2>12, AfterNode DEF n
  <2> QED BY <1>1, <2>11, <2>12, <2>13 DEF Decoding
<1> QED BY <1>1, <1>4, <1>5

LEMMA DecodingInit == LZOInit => Decoding
<1> SUFFICES ASSUME LZOInit PROVE Decoding
  OBVIOUS
<1>1. dpc = "idle" /\ dip = 0 /\ text = <<>> /\ Positions
  BY PositionsInit DEF LZOInit
<1>2. Len(text) = 0 /\ text \in Seq(Bytes) /\ Len(src) \in Nat
  BY <1>1, LenProperties DEF Positions
<1>3. Decoded(text, src)
  BY <1>2 DEF Decoded
<1> QED BY <1>1, <1>3 DEF Decoding

LEMMA CompressingDecodes == Decoding /\ Compressing => Decoding'
<1> SUFFICES ASSUME Decoding, Compressing PROVE Decoding'
  OBVIOUS
<1>1. dpc' = dpc /\ dip' = dip /\ text' = text /\ src' = src /\ pc # "compressed"
  BY DEF Compressing, decompressVars, CompressNext, NextChunk, FindMatch, EncodeLiterals,
         EncodeMatch, Finish
<1>2. dpc = "idle"
  BY <1>1 DEF Decoding
<1> QED BY <1>1, <1>2 DEF Decoding

-----------------------------------------------------------------------------
(* The invariant, and what follows from it *)

LZOInv == Positions /\ Tape /\ Decoding

LEMMA LZOInvInit == LZOInit => LZOInv
  BY PositionsInit, TapeInit, DecodingInit DEF LZOInit, LZOInv

LEMMA LZOInvStep == LZOInv /\ [LZONext]_lzoVars => LZOInv'
<1> SUFFICES ASSUME LZOInv, [LZONext]_lzoVars PROVE LZOInv'
  OBVIOUS
<1> USE DEF LZOInv
<1>1. CASE Compressing
  <2>1. CompressNext
    BY <1>1 DEF Compressing
  <2> QED BY <1>1, <2>1, PositionsStep, TapeStep, CompressingDecodes
<1>2. ASSUME UNCHANGED compressVars PROVE Positions' /\ Tape'
  BY <1>2 DEF compressVars, Positions, Tape, Ready, in_len, op, ip_end, dv
<1>3. CASE Decompress
  <2>1. UNCHANGED compressVars
    BY <1>3 DEF Decompress
  <2> QED BY <1>2, <1>3, <2>1, DecompressDecodes
<1>4. CASE LiteralRun
  <2>1. UNCHANGED compressVars
    BY <1>4 DEF LiteralRun
  <2> QED BY <1>2, <1>4, <2>1, LiteralRunDecodes
<1>5. CASE CopyMatch
  <2>1. UNCHANGED compressVars
    BY <1>5 DEF CopyMatch
  <2> QED BY <1>2, <1>5, <2>1, CopyMatchDecodes
<1>6. CASE UNCHANGED lzoVars
  <2>1. UNCHANGED compressVars /\ UNCHANGED decompressVars
    BY <1>6 DEF lzoVars
  <2>2. Decoding'
    BY <2>1 DEF compressVars, decompressVars, Decoding
  <2> QED BY <1>2, <2>1, <2>2
<1> QED BY <1>1, <1>3, <1>4, <1>5, <1>6 DEF LZONext

(* Of every reachable state the invariant holds: the block written so far  *)
(* is a list of instructions that encode the first bytes of the page, and  *)
(* the decoder is at one of them.                                          *)
THEOREM LZOInvariant == LZOSpec => []LZOInv
<1>1. LZOInit => LZOInv
  BY LZOInvInit
<1>2. LZOInv /\ [LZONext]_lzoVars => LZOInv'
  BY LZOInvStep
<1> QED BY <1>1, <1>2, PTL DEF LZOSpec

LEMMA NothingInLowBits ==
  ASSUME dest \in Seq(Bytes), dest # <<>>, NEW reach, Ready(reach)
  PROVE  op >= 2 /\ op = matched /\ dest[op - 1] % 4 = 0
<1>1. MatchLast(src, dest, reach) /\ op = matched
  BY DEF Ready
<1> QED BY <1>1, MatchLastIs DEF op

(* One to three literals are put into bits that no instruction uses: where *)
(* EncodeLiterals puts them between two matches, and where Finish puts     *)
(* them at the end of the block, the last that was written is a match, and *)
(* its last byte but one counts no literals yet.                           *)
THEOREM LowBitsAlwaysFree == LZOSpec => []LowBitsFree
<1>1. LZOInv => LowBitsFree
  <2> SUFFICES ASSUME Positions, Tape, FewLiterals
               PROVE  op >= 2 /\ op = matched /\ dest[op - 1] % 4 = 0
    BY DEF LZOInv, LowBitsFree
  <2>1. CASE pc = "literals" /\ ip - (ii - ti) \in 1 .. 3
    <3> DEFINE reach == ii - ti
    <3>1. reach \in Nat /\ ip \in Nat
      BY <2>1 DEF Positions, in_len
    <3>2. dest \in Seq(Bytes) /\ Ready(reach) /\ (dest = <<>> => ip >= 4)
      BY <2>1 DEF Tape
    <3>3. ip - reach <= 3
      BY <2>1
    <3> HIDE DEF reach
    <3>4. dest # <<>>
      <4>1. dest = <<>> => reach = 0
        BY <3>2 DEF Ready
      <4> QED BY ONLY <3>1, <3>2, <3>3, <4>1
    <3> QED BY <3>2, <3>4, NothingInLowBits
  <2>2. CASE pc = "chunk" /\ dest # <<>>
    <3>1. dest \in Seq(Bytes) /\ Ready(in - ti)
      BY <2>2 DEF Tape
    <3> QED BY <2>2, <3>1, NothingInLowBits
  <2> QED BY <2>1, <2>2 DEF FewLiterals
<1> QED BY <1>1, LZOInvariant, PTL

LEMMA CompressTypes == Positions /\ Tape => LZOCompressTypeOK
<1> SUFFICES ASSUME Positions, Tape PROVE LZOCompressTypeOK
  OBVIOUS
<1>1. /\ src \in Seq(Bytes) /\ in_len \in Nat /\ in \in Nat /\ in <= in_len
      /\ in_end \in Nat /\ in_end <= in_len
  BY LenProperties DEF Positions, in_len
<1>2. touched \in 0 .. max_compr_len(in_len) /\ dest \in Seq(Bytes)
  BY <1>1, MaxComprLenIs DEF Tape
<1>3. pc \in {"literals", "match"} => ip - m_pos \in 1 .. ChunkSize - 1
  <2> SUFFICES ASSUME pc \in {"literals", "match"} PROVE ip - m_pos \in 1 .. ChunkSize - 1
    OBVIOUS
  <2>1. /\ in_end - in \in 1 .. ChunkSize /\ m_pos \in in .. ip - 1
        /\ ip < ip_end /\ ip_end = in_end - 20 /\ ip \in Nat
    BY FormatFacts DEF Positions, ip_end
  <2> QED BY <1>1, <2>1, FormatFacts
<1>4. pc = "match" => ComparedTo <= in_len
  BY MatchLengthIs
<1>5. in \in 0 .. in_len /\ in_end \in 0 .. in_len
  BY <1>1
<1> QED BY <1>2, <1>3, <1>4, <1>5 DEF Positions, LZOCompressTypeOK

LEMMA TypesFollow == LZOInv => LZOTypeOK
<1> SUFFICES ASSUME LZOInv PROVE LZOTypeOK
  OBVIOUS
<1> USE DEF LZOInv
<1>1. LZOCompressTypeOK
  BY CompressTypes
<1>2. text \in Seq(Bytes) /\ Len(text) <= in_len
  BY DEF Decoding, Decoded, in_len
<1>3. dest \in Seq(Bytes) /\ Len(dest) \in Nat
  BY LenProperties DEF Tape
<1>4. dip \in 0 .. Len(dest)
  <2>1. CASE dpc = "idle"
    BY <1>3, <2>1 DEF Decoding
  <2>2. CASE dpc = "eof_found"
    BY <1>3, <2>2 DEF Decoding
  <2>3. CASE dpc \in {"loop", "first_literal_run", "match"}
    <3>1. Terminated(dest)
      BY <2>3 DEF Decoding, Tape, Complete
    <3>2. CASE AtEnd(src, dest, dip, text)
      <4>1. dip = Len(dest) - 3 /\ Len(dest) >= 3
        BY <3>1, <3>2 DEF AtEnd, Terminated
      <4> QED BY <1>3, <4>1
    <3>3. CASE AtInstruction(src, dest, dpc, dip, text)
      <4>1. PICK mark, last : BeforeNode(src, dest, dpc, dip, text, mark, last)
        BY <3>3 DEF AtInstruction
      <4> DEFINE n == mark[dip]
      <4>2. dip \in Nat /\ Sound(src, n) /\ Stored(src, dest, dip, n)
        BY <4>1, NodeIs DEF BeforeNode
      <4> HIDE DEF n
      <4>3. Ends(dip, n) \in Nat /\ Ends(dip, n) > dip /\ Ends(dip, n) <= Len(dest)
        BY <4>2, EndsAfter DEF Stored
      <4> QED BY <1>3, <4>2, <4>3
    <3> QED BY <2>3, <3>2, <3>3 DEF Decoding
  <2> QED BY <2>1, <2>2, <2>3 DEF Decoding
<1>5. dpc \in {"idle", "loop", "first_literal_run", "match", "eof_found"}
  BY DEF Decoding
<1> QED BY <1>1, <1>2, <1>4, <1>5 DEF LZOTypeOK

(* The types with their bounds: the block and what is written in advance   *)
(* fit what LZOCompressionAlgorithm allocates, a candidate is before its   *)
(* position and near enough for an instruction, no word compared is beyond *)
(* the page, and the decoder stays within block and page without a check.  *)
THEOREM LZOTypesCorrect == LZOSpec => []LZOTypeOK
<1>1. LZOInv => LZOTypeOK
  BY TypesFollow
<1> QED BY <1>1, LZOInvariant, PTL

(* A page that has been decoded.                                           *)
PageReturned == dpc = "eof_found" => text = src /\ dip = Len(dest)

LEMMA SamePage ==
  ASSUME NEW s, NEW u, s \in Seq(Bytes), Decoded(u, s), Len(u) = Len(s)
  PROVE  u = s
<1>1. u \in Seq(Bytes) /\ \A k \in 1 .. Len(u) : u[k] = s[k]
  BY DEF Decoded
<1> QED BY <1>1, SeqEqual

LEMMA ReturnedFollows == LZOInv => PageReturned
<1> SUFFICES ASSUME LZOInv, dpc = "eof_found" PROVE text = src /\ dip = Len(dest)
  BY DEF PageReturned
<1>1. src \in Seq(Bytes) /\ Decoded(text, src) /\ Len(text) = Len(src) /\ dip = Len(dest)
  BY DEF LZOInv, Positions, Decoding
<1> QED BY <1>1, SamePage

(* When lzo1x_decompress ends it has decoded the page that was compressed, *)
(* and it ends exactly where the block does, so that it returns LZO_E_OK.  *)
THEOREM LZORoundTrip == LZOSpec => []PageReturned
<1>1. LZOInv => PageReturned
  BY ReturnedFollows
<1> QED BY <1>1, LZOInvariant, PTL

(* Every step of the codec is one Codec allows, or a step that Codec does  *)
(* not see: the safety half of LZOImplementsCodec.                         *)
THEOREM LZOImplementsCodecSafely ==
  LZOSpec => LZOAlgorithm!Init /\ [][LZOAlgorithm!Next]_(LZOAlgorithm!vars)
<1>1. LZOInit => LZOAlgorithm!Init
  BY LZOPageAssumption DEF LZOInit, CompressInit, LZOAlgorithm!Init
<1>2. LZOInv /\ LZOInv' /\ [LZONext]_lzoVars => [LZOAlgorithm!Next]_(LZOAlgorithm!vars)
  <2> SUFFICES ASSUME LZOInv, LZOInv', [LZONext]_lzoVars
               PROVE  LZOAlgorithm!Next \/ UNCHANGED LZOAlgorithm!vars
    BY DEF LZOAlgorithm!vars
  <2> USE DEF LZOAlgorithm!Next, LZOAlgorithm!vars
  <2>1. CASE Compressing
    <3>1. /\ dpc = "idle" /\ dpc' = "idle" /\ pc # "compressed" /\ src' = src
      BY <2>1 DEF Compressing, decompressVars, LZOInv, Decoding, CompressNext, NextChunk, FindMatch,
                  EncodeLiterals, EncodeMatch, Finish
    <3>2. CASE pc' # "compressed"
      BY <3>1, <3>2
    <3>3. CASE pc' = "compressed"
      <4> DEFINE e == Len(dest')
      <4>1. e \in Nat /\ e >= 1 /\ e <= max_compr_len(Len(src))
        <5>1. dest' \in Seq(Bytes) /\ Terminated(dest') /\ Len(dest') <= max_compr_len(Len(src))
          BY <3>1, <3>3 DEF LZOInv, Tape, Complete, op, in_len
        <5>2. Len(dest') \in Nat /\ Len(dest') >= 3
          BY <5>1, LenProperties DEF Terminated
        <5> QED BY <5>1, <5>2
      <4>2. max_compr_len(Len(src)) \in Nat
        <5>1. Len(src) \in Nat
          BY LenProperties DEF LZOInv, Positions
        <5> QED BY <5>1, MaxComprLenIs
      <4> HIDE DEF e
      <4>3. e \in 1 .. max_compr_len(Len(src))
        BY <4>1, <4>2
      <4> QED BY <3>1, <3>3, <4>3 DEF e, LZOAlgorithm!CompressDataPage
    <3> QED BY <3>2, <3>3
  <2>2. CASE /\ Decompress \/ LiteralRun \/ CopyMatch
             /\ dpc' # "eof_found"
    <3>1. pc' = pc /\ src' = src /\ dest' = dest /\ dpc # "eof_found"
      BY <2>2 DEF Decompress, LiteralRun, CopyMatch, compressVars
    <3> QED BY <2>2, <3>1
  <2>3. CASE /\ Decompress \/ LiteralRun \/ CopyMatch
             /\ dpc' = "eof_found"
    <3>1. pc' = pc /\ src' = src /\ dest' = dest /\ dpc # "eof_found" /\ pc = "compressed"
      BY <2>3 DEF Decompress, LiteralRun, CopyMatch, compressVars, LZOInv, Decoding
    <3>2. text' = src' /\ dip' = Len(dest')
      <4>1. (LZOInv => PageReturned)'
        BY ReturnedFollows, PTL
      <4> QED BY <2>3, <4>1 DEF PageReturned
    <3>3. Len(dest) # 0
      BY <3>1 DEF LZOInv, Tape, Complete, Terminated
    <3> QED BY <2>3, <3>1, <3>2, <3>3 DEF LZOAlgorithm!DecompressDataPage
  <2>4. CASE UNCHANGED lzoVars
    BY <2>4 DEF lzoVars, compressVars, decompressVars
  <2> QED BY <2>1, <2>2, <2>3, <2>4 DEF LZONext
<1> QED BY <1>1, <1>2, LZOInvariant, PTL DEF LZOSpec
=============================================================================

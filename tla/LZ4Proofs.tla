----------------------------- MODULE LZ4Proofs -----------------------------
(***************************************************************************)
(* Theorems about the LZ4 codec, for every page, hash function and format: *)
(* the assertions of the compressor hold, what it writes are bytes, and    *)
(* they fit the buffer that CompressDataPage allocates; the decoder gives  *)
(* back the page, and its copies stay inside page and block.               *)
(*                                                                         *)
(* AssertionsHold speaks of single positions and is not inductive: where   *)
(* the search may be at each block of the loop is Positions, that the hash *)
(* table holds only positions already passed is Recorded.  That the block  *)
(* stays within its bound is Fits: it is never longer than the part of the *)
(* page it stands for by more than that part has whole ByteMax.            *)
(*                                                                         *)
(* What a block means is said by a list of sequences that the block is the *)
(* encoding of (Written, Whole): Tape says that the compressor makes such  *)
(* a list as it writes, Reading that the decoder is at an element of it    *)
(* and has decoded the bytes of the page before that.  A reader who knows  *)
(* the format only (Meaning) is at an element of it after every sequence,  *)
(* and at least a byte further on: PrefixEncoded.                          *)
(***************************************************************************)
EXTENDS LZ4Decompress, FiniteSetTheorems, SequenceTheorems, WellFoundedInduction, TLAPS

-----------------------------------------------------------------------------
(* Operators *)

(* A set of natural numbers that is not empty has a least one.             *)
LEMMA MinOf ==
  ASSUME NEW S, S \subseteq Nat, S # {}
  PROVE  Min(S) \in S /\ \A y \in S : Min(S) <= y
<1>1. PICK x \in S : \A y \in S : ~ (<<y, x>> \in OpToRel(<, Nat))
  BY NatLessThanWellFounded, WFMin
<1>2. \A y \in S : x <= y
  <2>1. \A y \in S : ~ (y < x)
    BY <1>1 DEF OpToRel
  <2> QED BY <2>1
<1> QED BY <1>2 DEF Min

LEMMA MinOfTwo ==
  ASSUME NEW a \in Nat, NEW b \in Nat
  PROVE  Min({a, b}) = IF a <= b THEN a ELSE b
<1>1. Min({a, b}) \in {a, b} /\ \A y \in {a, b} : Min({a, b}) <= y
  BY MinOf
<1> QED BY <1>1

(* FirstFailure is where the comparison stops: nothing fails before.       *)
LEMMA FirstFailureIs ==
  ASSUME NEW limit \in Nat, NEW F, F \subseteq 0 .. limit - 1
  PROVE  /\ FirstFailure(limit, F) \in 0 .. limit
         /\ FirstFailure(limit, F) \in F \cup {limit}
         /\ \A n \in 0 .. FirstFailure(limit, F) - 1 : n \notin F
<1> DEFINE S == F \cup {limit}
<1>1. S \subseteq Nat /\ S # {} /\ S \subseteq 0 .. limit
  OBVIOUS
<1> HIDE DEF S
<1>2. Min(S) \in S /\ \A y \in S : Min(S) <= y
  BY <1>1, MinOf
<1>3. FirstFailure(limit, F) = Min(S)
  BY DEF FirstFailure, S, Min
<1>4. \A n \in 0 .. Min(S) - 1 : n \notin S
  <2> DEFINE m == Min(S)
  <2>1. m \in Nat /\ \A y \in S : m <= y
    BY <1>1, <1>2
  <2> HIDE DEF m
  <2>2. \A n \in 0 .. m - 1 : n \notin S
    BY <1>1, <2>1
  <2> QED BY <2>2 DEF m
<1> QED BY <1>1, <1>2, <1>3, <1>4 DEF S

(* The code's two powers are positive, and a quotient of something no less *)
(* than the divisor is.                                                    *)
LEMMA PowerNat == ASSUME NEW k \in Nat PROVE 2 ^ k \in Nat \ {0}
<1>1. IsFiniteSet(1 .. k) /\ Cardinality(1 .. k) = k
  BY FS_Interval
<1>2. IsFiniteSet(SUBSET (1 .. k)) /\ Cardinality(SUBSET (1 .. k)) = 2 ^ k
  BY <1>1, FS_SUBSET
<1>3. SUBSET (1 .. k) # {}
  OBVIOUS
<1> QED BY <1>2, <1>3, FS_CardinalityType, FS_EmptySet

LEMMA QuotientPositive ==
  ASSUME NEW x \in Nat, NEW d \in Nat \ {0}, x >= d
  PROVE  x \div d \in Nat \ {0}
<1> DEFINE q == x \div d
<1>1. q \in Int /\ x = (d * q) + (x % d) /\ x % d \in 0 .. d - 1
  OBVIOUS
<1>2. q < 1 => d * q <= 0
  BY <1>1
<1> QED BY <1>1, <1>2

-----------------------------------------------------------------------------
LEMMA FormatFacts ==
  /\ {MINMATCH, LASTLITERALS, ML_MASK, RUN_MASK, WILDCOPYLENGTH} \subseteq Nat \ {0}
  /\ LASTLITERALS <= WILDCOPYLENGTH
  /\ MFLIMIT = WILDCOPYLENGTH + MINMATCH /\ MFLIMIT \in Nat
  /\ Base \in Nat /\ ByteMax = Base - 1 /\ ByteMax \in Nat \ {0}
<1>1. {MINMATCH, LASTLITERALS, ML_MASK, RUN_MASK, WILDCOPYLENGTH} \subseteq Nat \ {0}
  BY FormatAssumption
<1>2. Base \in Nat /\ Base >= 2
  BY <1>1 DEF Base
<1> HIDE DEF Base
<1> QED BY <1>1, <1>2, FormatAssumption DEF MFLIMIT, ByteMax

(* len elements after the first m of a sequence.                           *)
LEMMA PartOf ==
  ASSUME NEW S, NEW s \in Seq(S), NEW m \in Nat, NEW len \in Nat, m + len <= Len(s)
  PROVE  /\ SubSeq(s, m + 1, m + len) \in Seq(S)
         /\ Len(SubSeq(s, m + 1, m + len)) = len
         /\ \A j \in 1 .. len : SubSeq(s, m + 1, m + len)[j] = s[m + j]
<1> DEFINE u == SubSeq(s, m + 1, m + len)
<1>1. \A i \in m + 1 .. m + len : s[i] \in S
  BY ElementOfSeq
<1>2. m + 1 \in Int /\ m + len \in Int
  OBVIOUS
<1>3. /\ u \in Seq(S)
      /\ Len(u) = IF m + 1 <= m + len THEN (m + len) - (m + 1) + 1 ELSE 0
      /\ \A i \in 1 .. (m + len) - (m + 1) + 1 : u[i] = s[(m + 1) + i - 1]
  BY <1>1, <1>2, SubSeqProperties
<1> HIDE DEF u
<1>4. Len(u) = len
  BY <1>3
<1>5. \A j \in 1 .. len : u[j] = s[m + j]
  <2>1. (m + len) - (m + 1) + 1 = len /\ \A j \in 1 .. len : (m + 1) + j - 1 = m + j
    OBVIOUS
  <2> QED BY <1>3, <2>1
<1> QED BY <1>3, <1>4, <1>5 DEF u

(* The bytes from p and from q on are the same, for n of them.             *)
SameBytes(p, q, n) == \A k \in 1 .. n : src[p + k] = src[q + k]

(* Comparing two words is comparing their bytes.                           *)
LEMMA SameWords ==
  ASSUME NEW S, src \in Seq(S), NEW p \in Nat, NEW q \in Nat,
         p + MINMATCH <= inputSize, q + MINMATCH <= inputSize
  PROVE  read32(p) = read32(q) <=> SameBytes(p, q, MINMATCH)
<1>0. MINMATCH \in Nat
  BY FormatFacts
<1>1. /\ read32(p) \in Seq(S) /\ Len(read32(p)) = MINMATCH
      /\ \A k \in 1 .. MINMATCH : read32(p)[k] = src[p + k]
  BY <1>0, PartOf DEF read32, inputSize
<1>2. /\ read32(q) \in Seq(S) /\ Len(read32(q)) = MINMATCH
      /\ \A k \in 1 .. MINMATCH : read32(q)[k] = src[q + k]
  BY <1>0, PartOf DEF read32, inputSize
<1>3. SameBytes(p, q, MINMATCH) => read32(p) = read32(q)
  BY <1>1, <1>2, SeqEqual DEF SameBytes
<1> QED BY <1>1, <1>2, <1>3 DEF SameBytes

(* The bytes counted agree, and counting does not stop before n of them    *)
(* that do.                                                                *)
LEMMA CountReaches ==
  ASSUME NEW p \in Nat, NEW q \in Nat, NEW limit \in Nat, p <= limit,
         NEW n \in Nat, p + n <= limit, SameBytes(p, q, n)
  PROVE  count(p, q, limit) \in n .. limit - p
<1> DEFINE F == {k \in 0 .. limit - p - 1 : At(p + k) # At(q + k)}
           c == FirstFailure(limit - p, F)
<1>1. limit - p \in Nat /\ F \subseteq 0 .. (limit - p) - 1
  OBVIOUS
<1>2. \A k \in F : k >= n
  <2>1. ASSUME NEW k \in F, k < n PROVE FALSE
    <3>1. k \in Nat /\ k + 1 \in 1 .. n /\ At(p + k) # At(q + k)
      BY <2>1
    <3>2. src[p + (k + 1)] = src[q + (k + 1)]
      BY <3>1 DEF SameBytes
    <3>3. p + (k + 1) = p + k + 1 /\ q + (k + 1) = q + k + 1
      BY <3>1
    <3> QED BY <3>1, <3>2, <3>3 DEF At
  <2> QED BY <1>1, <2>1
<1> HIDE DEF F
<1>3. c \in 0 .. limit - p /\ c \in F \cup {limit - p}
  BY <1>1, FirstFailureIs
<1>4. c >= n
  <2> HIDE DEF c
  <2> QED BY <1>1, <1>2, <1>3
<1>5. count(p, q, limit) = c
  BY DEF count, c, F
<1> QED BY <1>3, <1>4, <1>5

(* Entries of the table stay below a bound that the new one is below, too. *)
LEMMA PutBelow ==
  ASSUME NEW table, NEW p \in Nat, NEW b \in Nat, p < b,
         \A h \in DOMAIN table : table[h] \in Nat /\ table[h] < b
  PROVE  \A h \in DOMAIN PutIndex(table, p) :
           PutIndex(table, p)[h] \in Nat /\ PutIndex(table, p)[h] < b
BY DEF PutIndex

-----------------------------------------------------------------------------
(* The inductive invariant *)

(* Where the compressor is in the page.                                    *)
Positions ==
  /\ src \in Seq(Bytes) /\ inputSize > 0 /\ inputSize < Base * Base
  /\ pc \in {"first", "search", "literals", "match", "next", "last", "compressed"}
  /\ ip \in 0 .. inputSize /\ anchor \in 0 .. ip
  /\ match \in Nat /\ forwardIp \in Nat
  /\ anchor = 0 \/ anchor + LASTLITERALS <= inputSize
  /\ step \in Nat \ {0} /\ searchMatchNb \in Nat /\ searchMatchNb >= 2 ^ SkipTrigger
  /\ pc = "first"  => ip = 0 /\ hashTable = [h \in {} |-> 0]
  /\ pc = "search" => ip < forwardIp /\ forwardIp <= mflimitPlusOne
  /\ pc \in {"literals", "match"} =>
       match < ip /\ ip + MFLIMIT <= inputSize /\ read32(match) = read32(ip)
  /\ pc = "next" => ip >= 2 /\ ip = anchor /\ ip < mflimitPlusOne

(* No entry of the table is at or behind what is compared with it next. At *)
(* the start of a match the search may have been further on: by no more    *)
(* than the match is long.                                                 *)
Recorded ==
  \A h \in DOMAIN hashTable :
    /\ hashTable[h] \in Nat
    /\ pc = "search"   => hashTable[h] < forwardIp
    /\ pc = "literals" => hashTable[h] <= ip
    /\ pc = "match"    => hashTable[h] < ip + MINMATCH + MatchCode
    /\ pc = "next"     => hashTable[h] < ip

Searching == Positions /\ Recorded

LEMMA SearchingInit == CompressInit => Searching
<1> SUFFICES ASSUME CompressInit PROVE Searching
  OBVIOUS
<1>1. src \in Seq(Bytes) /\ Len(src) > 0 /\ Len(src) < Base * Base
  <2>1. src \in Seq(Bytes) /\ src # <<>> /\ Len(src) < Base * Base
    BY PageAssumption DEF CompressInit
  <2>2. Len(src) > 0
    BY <2>1
  <2> QED BY <2>1, <2>2
<1>2. 2 ^ SkipTrigger \in Nat
  BY FormatAssumption, PowerNat
<1>3. Positions
  BY <1>1, <1>2 DEF CompressInit, Positions, inputSize
<1> QED BY <1>3 DEF CompressInit, Searching, Recorded

LEMMA PositionFacts ==
  ASSUME Positions
  PROVE  /\ inputSize \in Nat /\ src \in Seq(Bytes) /\ Len(src) = inputSize
         /\ ip \in Nat /\ anchor \in Nat /\ anchor <= ip /\ ip <= inputSize
         /\ 2 ^ SkipTrigger \in Nat \ {0}
         /\ mflimitPlusOne = inputSize - MFLIMIT + 1 /\ matchlimit = inputSize - LASTLITERALS
  BY FormatAssumption, PowerNat DEF Positions, inputSize, mflimitPlusOne, matchlimit

(* The search starts over at p. *)
LEMMA SearchFromStep ==
  ASSUME Positions, NEW p \in Nat, SearchFrom(p), p <= mflimitPlusOne,
         UNCHANGED <<src, ip, anchor, match>>, ip < p
  PROVE  Positions'
<1>1. 2 ^ SkipTrigger \in Nat \ {0}
  BY PositionFacts
<1>2. mflimitPlusOne' = mflimitPlusOne /\ inputSize' = inputSize
  BY DEF mflimitPlusOne, inputSize
<1> QED BY <1>1, <1>2 DEF Positions, SearchFrom

LEMMA FirstByteStep == Searching /\ FirstByte => Searching'
<1> SUFFICES ASSUME Searching, FirstByte PROVE Searching'
  OBVIOUS
<1>0. Positions /\ pc = "first" /\ UNCHANGED <<src, ip, anchor, match>> /\ ip = 0
      /\ hashTable = [h \in {} |-> 0]
  BY DEF FirstByte, Searching, Positions
<1>1. CASE pc' = "last" /\ UNCHANGED <<hashTable, forwardIp, step, searchMatchNb>>
  <2>1. Positions'
    BY <1>0, <1>1 DEF Positions, inputSize
  <2>2. Recorded'
    BY <1>0, <1>1 DEF Recorded
  <2> QED BY <2>1, <2>2 DEF Searching
<1>2. CASE hashTable' = PutIndex(hashTable, 0) /\ SearchFrom(1) /\ ~ (inputSize < MFLIMIT + 1)
  <2>1. 1 <= mflimitPlusOne
    BY SMTT(30), <1>0, <1>2, PositionFacts, FormatFacts
  <2>2. Positions'
    BY <1>0, <1>2, <2>1, SearchFromStep
  <2>3. Recorded'
    BY <1>0, <1>2, PutBelow DEF Recorded, SearchFrom
  <2> QED BY <2>2, <2>3 DEF Searching
<1> QED BY <1>1, <1>2 DEF FirstByte

LEMMA FindMatchStep == Searching /\ FindMatch => Searching'
<1> SUFFICES ASSUME Searching, FindMatch PROVE Searching'
  OBVIOUS
<1> DEFINE P == 2 ^ SkipTrigger
           candidate == GetIndex(hashPosition(forwardIp))
<1>0. /\ Positions /\ Recorded /\ pc = "search" /\ UNCHANGED <<src, anchor>>
      /\ ip' = forwardIp /\ forwardIp' = forwardIp + step
      /\ step' = searchMatchNb \div P /\ searchMatchNb' = searchMatchNb + 1
  BY DEF FindMatch, Searching
<1>1. /\ ip < forwardIp /\ forwardIp \in Nat /\ forwardIp <= mflimitPlusOne
      /\ step \in Nat \ {0} /\ searchMatchNb \in Nat /\ searchMatchNb >= P
      /\ match \in Nat
  BY <1>0 DEF Positions
<1>2. P \in Nat \ {0} /\ inputSize \in Nat /\ mflimitPlusOne = inputSize - MFLIMIT + 1
      /\ ip \in Nat /\ anchor \in Nat /\ anchor <= ip /\ Len(src) = inputSize
      /\ src \in Seq(Bytes)
  BY <1>0, PositionFacts
<1>3. step' \in Nat \ {0} /\ searchMatchNb' \in Nat /\ searchMatchNb' >= P
  <2> HIDE DEF P
  <2> QED BY <1>0, <1>1, <1>2, QuotientPositive
<1>4. inputSize' = inputSize /\ mflimitPlusOne' = mflimitPlusOne
  BY <1>0 DEF inputSize, mflimitPlusOne
<1>5. MFLIMIT \in Nat /\ MFLIMIT >= 1 /\ MFLIMIT >= MINMATCH /\ MINMATCH \in Nat
  BY FormatFacts
<1>6. /\ src' \in Seq(Bytes) /\ inputSize' > 0 /\ inputSize' < Base * Base
      /\ ip' \in 0 .. inputSize' /\ anchor' \in 0 .. ip' /\ forwardIp' \in Nat
      /\ anchor' = 0 \/ anchor' + LASTLITERALS <= inputSize'
  <2>1. ip' \in 0 .. inputSize /\ anchor \in 0 .. ip' /\ forwardIp' \in Nat
    BY <1>0, <1>1, <1>2, <1>5
  <2> QED BY <1>0, <1>4, <2>1 DEF Positions
<1>7. CASE SearchEnds /\ pc' = "last" /\ UNCHANGED <<hashTable, match>>
  <2>1. Positions'
    BY <1>1, <1>3, <1>6, <1>7 DEF Positions
  <2>2. Recorded'
    BY <1>0, <1>7 DEF Recorded
  <2> QED BY <2>1, <2>2 DEF Searching
<1>8. CASE /\ ~ SearchEnds /\ hashTable' = PutIndex(hashTable, forwardIp) /\ match' = candidate
           /\ pc' = IF read32(candidate) = read32(forwardIp) THEN "literals" ELSE "search"
  <2>1. forwardIp + step <= mflimitPlusOne
    BY <1>1, <1>2, <1>5, <1>8 DEF SearchEnds
  <2>2. candidate \in Nat /\ candidate < forwardIp
    BY <1>0, <1>1, <1>2 DEF GetIndex, Recorded
  <2>3. pc' = "search" => ip' < forwardIp' /\ forwardIp' <= mflimitPlusOne'
    BY <1>0, <1>1, <1>4, <2>1
  <2>4. pc' = "literals" => match' < ip' /\ ip' + MFLIMIT <= inputSize'
    BY <1>0, <1>1, <1>2, <1>4, <1>5, <1>8, <2>1, <2>2
  <2>5. pc' = "literals" => (read32(match) = read32(ip))'
    <3>1. pc' = "literals" => read32(candidate) = read32(forwardIp)
      BY <1>8
    <3> HIDE DEF candidate
    <3> QED BY <1>0, <1>8, <3>1 DEF read32
  <2>6. pc' \in {"search", "literals"} /\ match' \in Nat
    BY <1>8, <2>2
  <2>7. Positions'
    <3> HIDE DEF candidate
    <3> QED BY <1>3, <1>6, <2>3, <2>4, <2>5, <2>6 DEF Positions
  <2>8. Recorded'
    <3>1. \A h \in DOMAIN hashTable : hashTable[h] \in Nat /\ hashTable[h] < forwardIp + 1
      BY <1>0, <1>1 DEF Recorded
    <3>2. \A h \in DOMAIN hashTable' : hashTable'[h] \in Nat /\ hashTable'[h] < forwardIp + 1
      BY <1>1, <1>8, <3>1, PutBelow
    <3>3. \A h \in DOMAIN hashTable' :
            hashTable'[h] \in Nat /\ hashTable'[h] <= ip' /\ hashTable'[h] < forwardIp'
      BY <1>0, <1>1, <3>2
    <3> QED BY <2>6, <3>3 DEF Recorded
  <2> QED BY <2>7, <2>8 DEF Searching
<1> QED BY <1>7, <1>8 DEF FindMatch

(* Catching up backwards keeps match and position in step, stops at the    *)
(* anchor and at the start of the page, and what is caught up agrees.      *)
LEMMA CatchUpExact ==
  ASSUME Searching, pc = "literals"
  PROVE  /\ CatchUp \in 0 .. ip - anchor /\ CatchUp <= match
         /\ SameBytes(match - CatchUp, ip - CatchUp, CatchUp + MINMATCH)
<1> DEFINE limit == Min({ip - anchor, match})
           F == {n \in 0 .. limit - 1 : At(ip - n - 1) # At(match - n - 1)}
           c == FirstFailure(limit, F)
<1>1. /\ ip \in Nat /\ match \in Nat /\ anchor \in Nat /\ ip - anchor \in Nat
      /\ match < ip /\ ip + MFLIMIT <= inputSize /\ read32(match) = read32(ip)
      /\ src \in Seq(Bytes) /\ inputSize \in Nat
  BY PositionFacts DEF Searching, Positions
<1>2. limit = IF ip - anchor <= match THEN ip - anchor ELSE match
  BY <1>1, MinOfTwo
<1> HIDE DEF limit
<1>3. limit \in Nat /\ F \subseteq 0 .. limit - 1 /\ limit <= ip - anchor /\ limit <= match
  BY <1>1, <1>2
<1>4. CatchUp = c
  BY DEF CatchUp, limit
<1>5. c \in 0 .. limit /\ \A n \in 0 .. c - 1 : n \notin F
  <2> HIDE DEF F
  <2> QED BY <1>3, FirstFailureIs
<1>6. \A n \in 0 .. c - 1 : At(ip - n - 1) = At(match - n - 1)
  <2> HIDE DEF c
  <2> QED BY <1>3, <1>5
<1> HIDE DEF c
<1>7. MINMATCH \in Nat \ {0} /\ MFLIMIT >= MINMATCH
  BY FormatFacts
<1>8. SameBytes(match, ip, MINMATCH)
  <2>1. match + MINMATCH <= inputSize /\ ip + MINMATCH <= inputSize
    BY <1>1, <1>7, FormatFacts
  <2> QED BY <1>1, <2>1, SameWords
<1>9. SameBytes(match - c, ip - c, c + MINMATCH)
  <2>0. c \in Nat /\ c <= match /\ c <= ip
    BY <1>1, <1>3, <1>5
  <2> SUFFICES ASSUME NEW k \in 1 .. c + MINMATCH
               PROVE  src[match - c + k] = src[ip - c + k]
    BY DEF SameBytes
  <2>1. CASE k <= c
    <3>1. c - k \in 0 .. c - 1
      BY <2>0, <2>1
    <3>2. At(ip - (c - k) - 1) = At(match - (c - k) - 1)
      BY <1>6, <3>1
    <3>3. ip - (c - k) - 1 + 1 = ip - c + k /\ match - (c - k) - 1 + 1 = match - c + k
      BY <1>1, <2>0
    <3> QED BY <3>2, <3>3 DEF At
  <2>2. CASE k > c
    <3>1. k - c \in 1 .. MINMATCH
      BY <1>7, <2>0, <2>2
    <3>2. src[match + (k - c)] = src[ip + (k - c)]
      BY <1>8, <3>1 DEF SameBytes
    <3>3. match + (k - c) = match - c + k /\ ip + (k - c) = ip - c + k
      BY <1>1, <2>0
    <3> QED BY <3>2, <3>3
  <2> QED BY <2>0, <2>1, <2>2
<1> QED BY <1>1, <1>3, <1>4, <1>5, <1>9

LEMMA EncodeLiteralsStep == Searching /\ EncodeLiterals => Searching'
<1> SUFFICES ASSUME Searching, EncodeLiterals PROVE Searching'
  OBVIOUS
<1>0. /\ Positions /\ Recorded /\ pc = "literals" /\ pc' = "match"
      /\ UNCHANGED <<src, anchor, forwardIp, step, searchMatchNb, hashTable>>
      /\ ip' = ip - CatchUp /\ match' = match - CatchUp
  BY DEF EncodeLiterals, Searching
<1> DEFINE c == CatchUp
<1>1. /\ c \in 0 .. ip - anchor /\ c <= match
      /\ SameBytes(match - c, ip - c, c + MINMATCH)
  BY <1>0, CatchUpExact
<1> HIDE DEF c
<1>2. /\ ip \in Nat /\ match \in Nat /\ anchor \in Nat /\ ip - anchor \in Nat
      /\ match < ip /\ ip + MFLIMIT <= inputSize
      /\ src \in Seq(Bytes) /\ inputSize \in Nat
      /\ matchlimit = inputSize - LASTLITERALS
  BY <1>0, PositionFacts DEF Positions
<1>3. MINMATCH \in Nat \ {0} /\ LASTLITERALS \in Nat /\ MFLIMIT \in Nat
      /\ LASTLITERALS + MINMATCH <= MFLIMIT
  BY FormatFacts
<1>4. inputSize' = inputSize /\ matchlimit' = matchlimit
  BY <1>0 DEF inputSize, matchlimit
<1>5. ip' = ip - c /\ match' = match - c
  BY <1>0 DEF c
<1>6. /\ ip' \in Nat /\ match' \in Nat /\ ip' \in 0 .. inputSize' /\ anchor' \in 0 .. ip'
      /\ match' < ip' /\ ip' + MFLIMIT <= inputSize'
  BY <1>0, <1>1, <1>2, <1>3, <1>4, <1>5
<1>7. SameBytes(match', ip', c + MINMATCH)
  BY <1>1, <1>5
<1>8. SameBytes(match', ip', MINMATCH)
  BY <1>1, <1>3, <1>7 DEF SameBytes
<1>9. read32(match') = read32(ip')
  <2>1. match - c + MINMATCH <= inputSize /\ ip - c + MINMATCH <= inputSize
        /\ match - c \in Nat /\ ip - c \in Nat
    BY <1>1, <1>2, <1>3
  <2> QED BY <1>2, <1>5, <1>8, <2>1, SameWords
<1>10. (read32(match) = read32(ip))'
  BY <1>0, <1>9 DEF read32
<1>11. Positions'
  BY <1>0, <1>4, <1>6, <1>10 DEF Positions
(* The match is at least as long as what was caught up.                    *)
<1>12. MatchCode' >= c /\ MatchCode' \in Nat
  <2> DEFINE p == ip' + MINMATCH
             q == match' + MINMATCH
  <2>1. /\ p \in Nat /\ q \in Nat /\ matchlimit \in Nat /\ p <= matchlimit
        /\ c \in Nat /\ p + c <= matchlimit
    BY <1>1, <1>2, <1>3, <1>5, <1>6
  <2>2. SameBytes(q, p, c)
    <3> SUFFICES ASSUME NEW k \in 1 .. c PROVE src[q + k] = src[p + k]
      BY DEF SameBytes
    <3>1. MINMATCH + k \in 1 .. c + MINMATCH
      BY <1>3, <2>1
    <3>2. src[match' + (MINMATCH + k)] = src[ip' + (MINMATCH + k)]
      BY <1>7, <3>1 DEF SameBytes
    <3>3. match' + (MINMATCH + k) = q + k /\ ip' + (MINMATCH + k) = p + k
      BY <1>3, <1>6
    <3> QED BY <3>2, <3>3
  <2> HIDE DEF p, q
  <2>3. SameBytes(p, q, c)
    BY <2>2 DEF SameBytes
  <2>4. count(p, q, matchlimit) \in c .. matchlimit - p
    BY <2>1, <2>3, CountReaches
  <2>5. MatchCode' = count(p, q, matchlimit)
    BY <1>0, <1>4 DEF MatchCode, count, At, p, q
  <2> QED BY <2>1, <2>4, <2>5
<1>13. Recorded'
  <2>1. ASSUME NEW h \in DOMAIN hashTable
        PROVE  hashTable[h] \in Nat /\ hashTable[h] < ip' + MINMATCH + MatchCode'
    <3>1. hashTable[h] \in Nat /\ hashTable[h] <= ip
      BY <1>0 DEF Recorded
    <3> QED BY <1>1, <1>2, <1>3, <1>5, <1>12, <3>1
  <2> QED BY <1>0, <2>1 DEF Recorded
<1> QED BY <1>11, <1>13 DEF Searching

(* A match ends before the last LASTLITERALS bytes.                        *)
LEMMA MatchCodeRange ==
  Positions /\ pc = "match" => MatchCode \in 0 .. inputSize - LASTLITERALS - ip - MINMATCH
<1> SUFFICES ASSUME Positions, pc = "match"
             PROVE  MatchCode \in 0 .. inputSize - LASTLITERALS - ip - MINMATCH
  OBVIOUS
<1>1. /\ ip \in Nat /\ match \in Nat /\ ip + MFLIMIT <= inputSize /\ inputSize \in Nat
      /\ matchlimit = inputSize - LASTLITERALS
  BY PositionFacts DEF Positions
<1>2. /\ MINMATCH \in Nat \ {0} /\ LASTLITERALS \in Nat /\ MFLIMIT \in Nat
      /\ LASTLITERALS + MINMATCH <= MFLIMIT
  BY FormatFacts
<1>3. /\ ip + MINMATCH \in Nat /\ match + MINMATCH \in Nat /\ matchlimit \in Nat
      /\ ip + MINMATCH <= matchlimit /\ ip + MINMATCH + 0 <= matchlimit
  BY <1>1, <1>2
<1>4. SameBytes(ip + MINMATCH, match + MINMATCH, 0)
  BY DEF SameBytes
<1>5. MatchCode \in 0 .. matchlimit - (ip + MINMATCH)
  BY <1>3, <1>4, CountReaches DEF MatchCode
<1> QED BY <1>1, <1>2, <1>3, <1>5

LEMMA EncodeMatchStep == Searching /\ EncodeMatch => Searching'
<1> SUFFICES ASSUME Searching, EncodeMatch PROVE Searching'
  OBVIOUS
<1> DEFINE m == MatchCode
           after == ip + m + MINMATCH
<1>0. /\ Positions /\ Recorded /\ pc = "match" /\ ip' = after /\ anchor' = after
      /\ pc' = IF after >= mflimitPlusOne THEN "last" ELSE "next"
      /\ UNCHANGED <<src, forwardIp, step, searchMatchNb, match, hashTable>>
  BY DEF EncodeMatch, Searching
<1>1. /\ ip \in Nat /\ match \in Nat /\ match < ip /\ inputSize \in Nat
      /\ mflimitPlusOne = inputSize - MFLIMIT + 1
  BY <1>0, PositionFacts DEF Positions
<1>2. MINMATCH \in Nat \ {0} /\ LASTLITERALS \in Nat /\ MFLIMIT \in Nat
  BY FormatFacts
<1>3. m \in Nat /\ m <= inputSize - LASTLITERALS - ip - MINMATCH
  BY <1>0, <1>1, <1>2, MatchCodeRange
<1>4. inputSize' = inputSize /\ mflimitPlusOne' = mflimitPlusOne
  BY <1>0 DEF inputSize, mflimitPlusOne
<1>5. /\ after \in Nat /\ after >= 2 /\ after + LASTLITERALS <= inputSize
      /\ after \in 0 .. inputSize /\ after \in 0 .. after
      /\ ~ (after >= mflimitPlusOne) => after < mflimitPlusOne
  <2> HIDE DEF m
  <2> QED BY <1>1, <1>2, <1>3
<1>6. Positions'
  <2> HIDE DEF after
  <2>1. /\ ip' \in 0 .. inputSize' /\ anchor' \in 0 .. ip'
        /\ anchor' + LASTLITERALS <= inputSize'
        /\ pc' \in {"last", "next"}
        /\ pc' = "next" => ip' >= 2 /\ ip' = anchor' /\ ip' < mflimitPlusOne'
    BY <1>0, <1>4, <1>5
  <2> QED BY <1>0, <1>4, <2>1 DEF Positions
<1>7. Recorded'
  <2>1. \A h \in DOMAIN hashTable : hashTable[h] \in Nat /\ hashTable[h] < after
    <3> HIDE DEF m
    <3>1. \A h \in DOMAIN hashTable : hashTable[h] \in Nat /\ hashTable[h] < ip + MINMATCH + m
      BY <1>0 DEF Recorded, m
    <3> QED BY <1>1, <1>2, <1>3, <3>1
  <2> HIDE DEF after
  <2> QED BY <1>0, <2>1 DEF Recorded
<1> QED BY <1>6, <1>7 DEF Searching

LEMMA TestNextPositionStep == Searching /\ TestNextPosition => Searching'
<1> SUFFICES ASSUME Searching, TestNextPosition PROVE Searching'
  OBVIOUS
<1> DEFINE filled    == PutIndex(hashTable, ip - 2)
           h         == hashPosition(ip)
           candidate == IF h \in DOMAIN filled THEN filled[h] ELSE 0
<1>0. /\ Positions /\ Recorded /\ pc = "next" /\ UNCHANGED <<src, ip, anchor>>
      /\ hashTable' = PutIndex(filled, ip)
  BY DEF TestNextPosition, Searching
<1>1. /\ ip \in Nat /\ ip >= 2 /\ ip = anchor /\ ip < mflimitPlusOne /\ inputSize \in Nat
      /\ mflimitPlusOne = inputSize - MFLIMIT + 1 /\ match \in Nat
  BY <1>0, PositionFacts DEF Positions
<1>2. MINMATCH \in Nat \ {0} /\ MFLIMIT \in Nat
  BY FormatFacts
<1>3. \A k \in DOMAIN filled : filled[k] \in Nat /\ filled[k] < ip
  <2>1. ip - 2 \in Nat /\ ip - 2 < ip
    BY <1>1
  <2>2. \A k \in DOMAIN hashTable : hashTable[k] \in Nat /\ hashTable[k] < ip
    BY <1>0 DEF Recorded
  <2> QED BY <1>1, <2>1, <2>2, PutBelow
<1>4. candidate \in Nat /\ candidate < ip
  <2> HIDE DEF filled, h
  <2> QED BY <1>1, <1>3
<1>5. \A k \in DOMAIN hashTable' : hashTable'[k] \in Nat /\ hashTable'[k] < ip + 1
  <2> HIDE DEF filled
  <2>1. \A k \in DOMAIN filled : filled[k] \in Nat /\ filled[k] < ip + 1
    BY <1>1, <1>3
  <2> QED BY <1>0, <1>1, <2>1, PutBelow
<1>6. inputSize' = inputSize
  BY <1>0 DEF inputSize
<1>7. CASE /\ read32(candidate) = read32(ip) /\ match' = candidate /\ pc' = "match"
           /\ UNCHANGED <<forwardIp, step, searchMatchNb>>
  <2> HIDE DEF candidate
  <2>1. (read32(match) = read32(ip))'
    BY <1>0, <1>7 DEF read32
  <2>2. ip + MFLIMIT <= inputSize
    BY <1>1, <1>2
  <2>3. Positions'
    BY <1>0, <1>4, <1>6, <1>7, <2>1, <2>2 DEF Positions
  <2>4. MatchCode' \in Nat
    <3>1. (Positions /\ pc = "match"
             => MatchCode \in 0 .. inputSize - LASTLITERALS - ip - MINMATCH)'
      BY MatchCodeRange, PTL
    <3> QED BY <1>7, <2>3, <3>1
  <2>5. \A k \in DOMAIN hashTable' :
          hashTable'[k] \in Nat /\ hashTable'[k] < ip + MINMATCH + MatchCode'
    <3> DEFINE code == MatchCode'
    <3>1. code \in Nat
      BY <2>4
    <3> HIDE DEF code
    <3>2. ASSUME NEW x \in Nat, x < ip + 1 PROVE x < ip + MINMATCH + code
      BY <1>1, <1>2, <3>1, <3>2
    <3> QED BY <1>5, <3>2 DEF code
  <2>6. Recorded'
    BY <1>0, <1>7, <2>5 DEF Recorded
  <2> QED BY <2>3, <2>6 DEF Searching
<1>8. CASE SearchFrom(ip + 1) /\ UNCHANGED match
  <2>1. ip + 1 \in Nat /\ ip < ip + 1 /\ ip + 1 <= mflimitPlusOne
    BY <1>1, <1>2
  <2>2. Positions'
    BY <1>0, <1>8, <2>1, SearchFromStep
  <2>3. Recorded'
    BY <1>5, <1>8 DEF Recorded, SearchFrom
  <2> QED BY <2>2, <2>3 DEF Searching
<1> QED BY <1>7, <1>8 DEF TestNextPosition

LEMMA LastLiteralsStep == Searching /\ LastLiterals => Searching'
<1> SUFFICES ASSUME Searching, LastLiterals PROVE Searching'
  OBVIOUS
<1>0. /\ Positions /\ Recorded /\ pc = "last" /\ pc' = "compressed" /\ ip' = inputSize
      /\ UNCHANGED <<src, anchor, forwardIp, step, searchMatchNb, match, hashTable>>
  BY DEF LastLiterals, Searching
<1>1. inputSize' = inputSize /\ inputSize \in Nat /\ anchor \in 0 .. inputSize
  BY <1>0, PositionFacts DEF inputSize
<1>2. Positions'
  BY <1>0, <1>1 DEF Positions
<1>3. Recorded'
  BY <1>0 DEF Recorded
<1> QED BY <1>2, <1>3 DEF Searching

-----------------------------------------------------------------------------
(* The block *)

(* What a concatenation is.                                                *)
LEMMA ConcatIs ==
  ASSUME NEW a \in Seq(Bytes), NEW b \in Seq(Bytes)
  PROVE  /\ Len(a) \in Nat /\ Len(b) \in Nat
         /\ a \o b \in Seq(Bytes) /\ Len(a \o b) = Len(a) + Len(b)
         /\ \A k \in 1 .. Len(a) : (a \o b)[k] = a[k]
         /\ \A k \in 1 .. Len(b) : (a \o b)[Len(a) + k] = b[k]
  BY ConcatProperties

LEMMA DivMod ==
  ASSUME NEW x \in Nat, NEW d \in Nat \ {0}
  PROVE  /\ x \div d \in Nat /\ x % d \in 0 .. d - 1
         /\ x = (d * (x \div d)) + (x % d)
  OBVIOUS

(* A token holds two codes in one byte.                                    *)
LEMMA TokenIsByte ==
  ASSUME NEW n \in 0 .. RUN_MASK, NEW k \in 0 .. ML_MASK
  PROVE  n * (ML_MASK + 1) + k \in Bytes
<1> DEFINE b == ML_MASK + 1
<1>1. b \in Nat \ {0} /\ k \in 0 .. b - 1 /\ RUN_MASK \in Nat
  BY FormatFacts
<1>2. Base = b * (RUN_MASK + 1)
  BY DEF Base
<1> HIDE DEF b
<1>3. b * (RUN_MASK + 1) = RUN_MASK * b + b
  BY <1>1
<1>4. n * b <= RUN_MASK * b /\ n * b \in Nat /\ RUN_MASK * b \in Nat
  BY <1>1
<1> DEFINE x == n * b
           y == RUN_MASK * b
<1> HIDE DEF x, y
<1>5. x \in Nat /\ y \in Nat /\ x <= y /\ Base = y + b
  BY <1>2, <1>3, <1>4 DEF x, y
<1>6. x + k \in 0 .. (y + b) - 1
  BY <1>1, <1>5
<1> QED BY <1>5, <1>6 DEF Bytes, ByteMax, x, b

(* How many bytes behind a token a length takes.                           *)
MoreBytes(length, mask) == IF length < mask THEN 0 ELSE ((length - mask) \div ByteMax) + 1

LEMMA MoreLengthIs ==
  ASSUME NEW length \in Nat, NEW mask \in Nat
  PROVE  /\ MoreLength(length, mask) \in Seq(Bytes)
         /\ Len(MoreLength(length, mask)) = MoreBytes(length, mask)
         /\ MoreBytes(length, mask) \in Nat
<1>0. ByteMax \in Nat \ {0}
  BY FormatFacts
<1>1. CASE length < mask
  BY <1>1 DEF MoreLength, MoreBytes
<1>2. CASE ~ (length < mask)
  <2> DEFINE q    == (length - mask) \div ByteMax
             r    == (length - mask) % ByteMax
             full == [k \in 1 .. q |-> ByteMax]
  <2>1. length - mask \in Nat
    BY <1>2
  <2>2. q \in Nat /\ r \in 0 .. ByteMax - 1
    BY <1>0, <2>1, DivMod
  <2>3. MoreLength(length, mask) = full \o <<r>> /\ MoreBytes(length, mask) = q + 1
    BY <1>2 DEF MoreLength, MoreBytes
  <2> HIDE DEF q, r
  <2>4. ByteMax \in Bytes /\ r \in Bytes
    BY <1>0, <2>2 DEF Bytes
  <2>5. full \in Seq(Bytes) /\ Len(full) = q
    BY <2>2, <2>4
  <2> HIDE DEF full
  <2>6. <<r>> \in Seq(Bytes) /\ Len(<<r>>) = 1
    BY <2>4
  <2> QED BY <2>2, <2>3, <2>5, <2>6
<1> QED BY <1>1, <1>2

LEMMA LiteralsAre ==
  ASSUME src \in Seq(Bytes), NEW from \in Nat, NEW to \in Nat, from <= to, to <= inputSize
  PROVE  Literals(from, to) \in Seq(Bytes) /\ Len(Literals(from, to)) = to - from
<1>1. to - from \in Nat /\ from + (to - from) = to
  OBVIOUS
<1>2. Literals(from, to) = SubSeq(src, from + 1, from + (to - from))
  BY <1>1 DEF Literals
<1> QED BY <1>1, <1>2, PartOf DEF inputSize

LEMMA LiteralTokenIs ==
  ASSUME NEW length \in Nat
  PROVE  /\ LiteralToken(length) \in Bytes
         /\ \E n \in 0 .. RUN_MASK : LiteralToken(length) = n * (ML_MASK + 1)
<1>1. RUN_MASK \in Nat /\ ML_MASK \in Nat
  BY FormatFacts
<1>2. PICK n \in 0 .. RUN_MASK : n = Min({length, RUN_MASK})
  BY <1>1, MinOfTwo
<1>3. LiteralToken(length) = n * (ML_MASK + 1)
  BY <1>2 DEF LiteralToken
<1>4. n * (ML_MASK + 1) + 0 \in Bytes
  BY <1>1, TokenIsByte
<1>5. n * (ML_MASK + 1) + 0 = n * (ML_MASK + 1)
  BY <1>1
<1> QED BY <1>3, <1>4, <1>5

LEMMA LE16Is ==
  ASSUME NEW v \in Nat, v < Base * Base
  PROVE  LE16(v) \in Seq(Bytes) /\ Len(LE16(v)) = 2
<1>1. Base \in Nat \ {0} /\ Bytes = 0 .. Base - 1
  BY FormatFacts DEF Bytes, ByteMax
<1> DEFINE q == v \div Base
<1>2. q \in Nat /\ v % Base \in 0 .. Base - 1 /\ v = (Base * q) + (v % Base)
  BY <1>1, DivMod
<1>3. q < Base
  <2> SUFFICES ASSUME q >= Base PROVE FALSE
    BY <1>1, <1>2
  <2> HIDE DEF q
  <2>1. Base * q >= Base * Base
    BY <1>1, <1>2
  <2> QED BY <1>1, <1>2, <2>1
<1>4. v % Base \in Bytes /\ v \div Base \in Bytes
  BY <1>1, <1>2, <1>3
<1> QED BY <1>4 DEF LE16

(* What is written is a sequence of bytes, and the token that is completed *)
(* next has nothing in its lower half.                                     *)
BlockTyped ==
  /\ dest \in Seq(Bytes) /\ token \in 0 .. op
  /\ pc = "match" => token >= 1 /\ \E n \in 0 .. RUN_MASK : dest[token] = n * (ML_MASK + 1)
  /\ pc = "compressed" => op > 0

(* A run of literals: its head, and the bytes themselves.                  *)
LEMMA LiteralRunIs ==
  ASSUME src \in Seq(Bytes), dest \in Seq(Bytes),
         NEW from \in Nat, NEW to \in Nat, from <= to, to <= inputSize
  PROVE  LET run == dest \o (<<LiteralToken(to - from)>> \o MoreLength(to - from, RUN_MASK))
                         \o Literals(from, to)
         IN  /\ run \in Seq(Bytes)
             /\ Len(run) = op + 1 + MoreBytes(to - from, RUN_MASK) + (to - from)
             /\ run[op + 1] = LiteralToken(to - from)
<1> DEFINE L    == to - from
           t    == <<LiteralToken(L)>>
           more == MoreLength(L, RUN_MASK)
           lits == Literals(from, to)
<1>1. L \in Nat /\ RUN_MASK \in Nat
  BY FormatFacts
<1>2. t \in Seq(Bytes) /\ Len(t) = 1 /\ t[1] = LiteralToken(L)
  <2> HIDE DEF L
  <2> QED BY <1>1, LiteralTokenIs
<1>3. more \in Seq(Bytes) /\ Len(more) = MoreBytes(L, RUN_MASK) /\ Len(more) \in Nat
  <2> HIDE DEF L
  <2> QED BY <1>1, MoreLengthIs
<1>4. lits \in Seq(Bytes) /\ Len(lits) = L
  BY LiteralsAre
<1> HIDE DEF L, t, more, lits
<1>5. /\ t \o more \in Seq(Bytes) /\ Len(t \o more) = 1 + Len(more)
      /\ (t \o more)[1] = t[1]
  <2>1. t \o more \in Seq(Bytes) /\ Len(t \o more) = Len(t) + Len(more)
        /\ \A k \in 1 .. Len(t) : (t \o more)[k] = t[k]
    BY ONLY <1>2, <1>3, ConcatIs
  <2>2. 1 \in 1 .. Len(t)
    BY <1>2
  <2> QED BY ONLY <1>2, <2>1, <2>2
<1>6. /\ dest \o (t \o more) \in Seq(Bytes) /\ Len(dest \o (t \o more)) = op + (1 + Len(more))
      /\ (dest \o (t \o more))[op + 1] = t[1]
  <2> DEFINE u == t \o more
  <2>1. u \in Seq(Bytes) /\ Len(u) = 1 + Len(more) /\ u[1] = t[1]
    BY <1>5
  <2> HIDE DEF u
  <2>2. 1 \in 1 .. Len(u)
    BY <1>3, <2>1
  <2>3. dest \o u \in Seq(Bytes) /\ Len(dest \o u) = op + Len(u) /\ (dest \o u)[op + 1] = u[1]
    <3>1. dest \o u \in Seq(Bytes) /\ Len(dest \o u) = Len(dest) + Len(u)
          /\ \A k \in 1 .. Len(u) : (dest \o u)[Len(dest) + k] = u[k]
      BY <2>1, ConcatIs
    <3> QED BY ONLY <2>2, <3>1 DEF op
  <2> QED BY <2>1, <2>3 DEF u
<1>7. /\ (dest \o (t \o more)) \o lits \in Seq(Bytes)
      /\ Len((dest \o (t \o more)) \o lits) = op + 1 + Len(more) + L
      /\ ((dest \o (t \o more)) \o lits)[op + 1] = t[1]
  <2> DEFINE u == dest \o (t \o more)
  <2>1. u \in Seq(Bytes) /\ Len(u) = op + (1 + Len(more)) /\ u[op + 1] = t[1]
    BY <1>6
  <2> HIDE DEF u
  <2>2. op \in Nat /\ op + 1 \in 1 .. Len(u) + Len(lits) /\ op + 1 <= Len(u)
    BY <1>3, <1>4, <2>1 DEF op
  <2>3. u \o lits \in Seq(Bytes) /\ Len(u \o lits) = Len(u) + Len(lits)
        /\ (u \o lits)[op + 1] = u[op + 1]
    <3>1. u \o lits \in Seq(Bytes) /\ Len(u \o lits) = Len(u) + Len(lits)
          /\ \A k \in 1 .. Len(u) : (u \o lits)[k] = u[k]
      BY <1>4, <2>1, ConcatIs
    <3>2. op + 1 \in 1 .. Len(u)
      BY <1>3, <2>1, <2>2
    <3> QED BY ONLY <3>1, <3>2
  <2> QED BY <1>1, <1>3, <1>4, <2>1, <2>2, <2>3 DEF u
<1> QED BY <1>2, <1>3, <1>7 DEF L, t, more, lits

LEMMA EncodeLiteralsBlock ==
  ASSUME Searching, BlockTyped, EncodeLiterals
  PROVE  /\ BlockTyped' /\ ip' \in anchor .. ip
         /\ Len(dest') = op + 1 + MoreBytes(ip' - anchor, RUN_MASK) + (ip' - anchor)
<1> DEFINE L == ip' - anchor
<1>1. /\ src \in Seq(Bytes) /\ anchor \in Nat /\ ip \in Nat /\ ip <= inputSize /\ anchor <= ip
      /\ inputSize \in Nat
  BY PositionFacts DEF Searching
<1>2. ip' \in anchor .. ip
  <2>1. CatchUp \in 0 .. ip - anchor /\ ip' = ip - CatchUp
    BY CatchUpExact DEF EncodeLiterals
  <2> DEFINE c == CatchUp
  <2>2. ip - c \in anchor .. ip
    <3> HIDE DEF c
    <3>1. c \in 0 .. ip - anchor
      BY <2>1 DEF c
    <3> QED BY <1>1, <3>1
  <2> QED BY <2>1, <2>2
<1>3. PICK to \in Nat : to = ip'
  BY <1>1, <1>2
<1>4. anchor <= to /\ to <= inputSize
  BY <1>1, <1>2, <1>3
<1>5. dest' = dest \o (<<LiteralToken(to - anchor)>> \o MoreLength(to - anchor, RUN_MASK))
                   \o Literals(anchor, to)
  BY <1>3 DEF EncodeLiterals
<1>6. dest \in Seq(Bytes)
  BY DEF BlockTyped
<1>7. /\ dest' \in Seq(Bytes)
      /\ Len(dest') = op + 1 + MoreBytes(to - anchor, RUN_MASK) + (to - anchor)
      /\ dest'[op + 1] = LiteralToken(to - anchor)
  BY <1>1, <1>4, <1>5, <1>6, LiteralRunIs
<1>8. /\ to - anchor \in Nat /\ op \in Nat /\ RUN_MASK \in Nat
      /\ MoreBytes(to - anchor, RUN_MASK) \in Nat
  <2>1. to - anchor \in Nat /\ RUN_MASK \in Nat /\ op \in Nat
    BY <1>1, <1>4, <1>6, FormatFacts DEF op
  <2> QED BY <2>1, MoreLengthIs
<1>9. op + 1 \in 1 .. Len(dest')
  BY <1>7, <1>8
<1>10. token' = op + 1 /\ pc' = "match"
  BY DEF EncodeLiterals
<1>11. \E n \in 0 .. RUN_MASK : dest'[op + 1] = n * (ML_MASK + 1)
  BY <1>7, <1>8, LiteralTokenIs
<1>12. BlockTyped'
  BY <1>7, <1>9, <1>10, <1>11 DEF BlockTyped, op
<1> QED BY <1>2, <1>3, <1>7, <1>12

LEMMA EncodeMatchBlock ==
  ASSUME Searching, BlockTyped, EncodeMatch
  PROVE  /\ BlockTyped'
         /\ Len(dest') = op + 2 + MoreBytes(MatchCode, ML_MASK)
<1> DEFINE code  == MatchCode
           filled == [dest EXCEPT ![token] = @ + Min({code, ML_MASK})]
           offset == LE16(ip - match)
           more   == MoreLength(code, ML_MASK)
<1>0. /\ pc = "match" /\ dest' = filled \o offset \o more
      /\ pc' \in {"last", "next"} /\ token' = token
  BY DEF EncodeMatch
<1>1. /\ ip \in Nat /\ match \in Nat /\ match < ip /\ ip <= inputSize /\ inputSize < Base * Base
      /\ inputSize \in Nat
  BY <1>0, PositionFacts DEF Searching, Positions
<1>2. /\ dest \in Seq(Bytes) /\ token \in 1 .. Len(dest) /\ op = Len(dest)
      /\ \E n \in 0 .. RUN_MASK : dest[token] = n * (ML_MASK + 1)
  <2>1. dest \in Seq(Bytes) /\ token \in 0 .. Len(dest) /\ token >= 1
    BY <1>0 DEF BlockTyped, op
  <2> QED BY <1>0, <2>1 DEF BlockTyped, op
<1>3. code \in Nat /\ ML_MASK \in Nat
  BY <1>0, MatchCodeRange, FormatFacts DEF Searching
<1>4. filled \in Seq(Bytes) /\ Len(filled) = op
  <2> HIDE DEF code
  <2>1. PICK n \in 0 .. RUN_MASK : dest[token] = n * (ML_MASK + 1)
    BY <1>2
  <2>2. Min({code, ML_MASK}) \in 0 .. ML_MASK
    BY <1>3, MinOfTwo
  <2>3. dest[token] + Min({code, ML_MASK}) \in Bytes
    BY <2>1, <2>2, TokenIsByte
  <2>4. filled = [dest EXCEPT ![token] = dest[token] + Min({code, ML_MASK})]
    OBVIOUS
  <2> QED BY <1>2, <2>3, <2>4, ExceptSeq
<1>5. offset \in Seq(Bytes) /\ Len(offset) = 2
  <2>1. Base * Base \in Nat
    BY FormatFacts
  <2> DEFINE v == ip - match
             bb == Base * Base
  <2>2. v \in Nat /\ v < bb
    <3>1. bb \in Nat /\ inputSize < bb
      BY <1>1, <2>1
    <3> HIDE DEF bb
    <3> QED BY <1>1, <3>1
  <2> HIDE DEF v
  <2> QED BY <2>2, LE16Is DEF v
<1>6. more \in Seq(Bytes) /\ Len(more) = MoreBytes(code, ML_MASK) /\ Len(more) \in Nat
  <2> HIDE DEF code
  <2> QED BY <1>3, MoreLengthIs
<1> HIDE DEF filled, offset, more, code
<1>7. /\ dest' \in Seq(Bytes) /\ Len(dest') = op + 2 + Len(more)
  <2>0. op \in Nat
    BY <1>2
  <2>1. filled \o offset \in Seq(Bytes) /\ Len(filled \o offset) = op + 2
    <3>1. Len(filled \o offset) = Len(filled) + Len(offset) /\ filled \o offset \in Seq(Bytes)
      BY ONLY <1>4, <1>5, ConcatIs
    <3> QED BY ONLY <1>4, <1>5, <3>1
  <2>2. (filled \o offset) \o more \in Seq(Bytes)
        /\ Len((filled \o offset) \o more) = (op + 2) + Len(more)
    <3> DEFINE u == filled \o offset
    <3>1. u \in Seq(Bytes) /\ Len(u) = op + 2
      BY <2>1
    <3> HIDE DEF u
    <3>2. u \o more \in Seq(Bytes) /\ Len(u \o more) = Len(u) + Len(more)
      BY ONLY <1>6, <3>1, ConcatIs
    <3> QED BY ONLY <3>1, <3>2 DEF u
  <2> QED BY <1>0, <1>6, <2>0, <2>2
<1>8. token' \in 0 .. Len(dest')
  <2> DEFINE len == Len(dest')
  <2>1. len = op + 2 + Len(more)
    BY <1>7
  <2> HIDE DEF len
  <2>2. token \in 0 .. len
    BY <1>2, <1>6, <2>1
  <2> QED BY <1>0, <2>2 DEF len
<1>9. BlockTyped'
  BY <1>0, <1>7, <1>8 DEF BlockTyped, op
<1> QED BY <1>6, <1>7, <1>9 DEF code

LEMMA TestNextPositionBlock ==
  ASSUME Searching, BlockTyped, TestNextPosition
  PROVE  /\ BlockTyped'
         /\ \/ pc' = "match" /\ Len(dest') = op + 1 /\ touched' = Max({touched, op + 1})
            \/ pc' = "search" /\ UNCHANGED <<dest, touched>>
<1>0. dest \in Seq(Bytes) /\ token \in 0 .. op /\ op = Len(dest) /\ op \in Nat
  BY DEF BlockTyped, op
<1>1. CASE /\ token' = op + 1 /\ dest' = Append(dest, 0) /\ pc' = "match"
           /\ touched' = Max({touched, Len(dest')})
  <2>1. 0 \in Bytes /\ 0 \in 0 .. RUN_MASK /\ 0 = 0 * (ML_MASK + 1)
    BY FormatFacts DEF Bytes
  <2>2. dest' \in Seq(Bytes) /\ Len(dest') = op + 1 /\ dest'[op + 1] = 0
    BY <1>0, <1>1, <2>1, AppendProperties
  <2>3. op + 1 \in 0 .. op + 1 /\ op + 1 >= 1
    BY <1>0
  <2>4. \E n \in 0 .. RUN_MASK : dest'[op + 1] = n * (ML_MASK + 1)
    BY <2>1, <2>2
  <2> HIDE DEF op
  <2>5. op' = op + 1
    BY <2>2 DEF op
  <2> QED BY <1>1, <2>2, <2>3, <2>4, <2>5 DEF BlockTyped
<1>2. CASE SearchFrom(ip + 1) /\ UNCHANGED <<match, token, dest, touched>>
  BY <1>0, <1>2 DEF SearchFrom, BlockTyped, op
<1> QED BY <1>1, <1>2 DEF TestNextPosition

LEMMA LastLiteralsBlock ==
  ASSUME Searching, BlockTyped, LastLiterals
  PROVE  /\ BlockTyped'
         /\ Len(dest') = op + 1 + MoreBytes(inputSize - anchor, RUN_MASK) + (inputSize - anchor)
<1> DEFINE L == inputSize - anchor
<1>1. /\ src \in Seq(Bytes) /\ anchor \in Nat /\ inputSize \in Nat /\ anchor <= inputSize
  BY PositionFacts DEF Searching
<1>2. dest \in Seq(Bytes) /\ token \in 0 .. Len(dest) /\ op = Len(dest) /\ op \in Nat
  BY DEF BlockTyped, op
<1>3. LiteralToken(L) \in Bytes /\ MoreLength(L, RUN_MASK) \in Seq(Bytes)
      /\ MoreBytes(L, RUN_MASK) \in Nat /\ Literals(anchor, inputSize) \in Seq(Bytes)
  <2>1. L \in Nat /\ RUN_MASK \in Nat
    BY <1>1, FormatFacts
  <2>2. Literals(anchor, inputSize) \in Seq(Bytes)
    BY <1>1, LiteralsAre
  <2> HIDE DEF L
  <2> QED BY <2>1, <2>2, LiteralTokenIs, MoreLengthIs
<1>4. dest' = dest \o (<<LiteralToken(L)>> \o MoreLength(L, RUN_MASK))
                   \o Literals(anchor, inputSize)
  <2>1. dest' = dest \o <<LiteralToken(L)>> \o MoreLength(L, RUN_MASK)
                     \o Literals(anchor, inputSize)
    BY DEF LastLiterals
  <2> DEFINE t    == <<LiteralToken(L)>>
             more == MoreLength(L, RUN_MASK)
  <2>2. t \in Seq(Bytes) /\ more \in Seq(Bytes)
    BY <1>3
  <2> HIDE DEF t, more
  <2>3. (dest \o t) \o more = dest \o (t \o more)
    <3>1. dest \in Seq(Bytes)
      BY <1>2
    <3> QED BY ONLY <2>2, <3>1, ConcatAssociative
  <2> QED BY <2>1, <2>3 DEF t, more
<1>5. /\ dest' \in Seq(Bytes)
      /\ Len(dest') = op + 1 + MoreBytes(L, RUN_MASK) + L
  BY <1>1, <1>2, <1>4, LiteralRunIs
<1>6. Len(dest') > 0 /\ Len(dest') >= op
  <2> DEFINE len == Len(dest')
             b == MoreBytes(L, RUN_MASK)
             k == L
  <2>1. len = op + 1 + b + k /\ b \in Nat /\ k \in Nat
    BY <1>1, <1>3, <1>5
  <2> HIDE DEF len, b, k
  <2>2. len > 0 /\ len >= op
    BY <1>2, <2>1
  <2> QED BY <2>2 DEF len
<1>7. token' \in 0 .. Len(dest')
  <2> DEFINE len == Len(dest')
  <2>1. len >= op /\ len \in Nat
    BY <1>5, <1>6
  <2> HIDE DEF len
  <2>2. token \in 0 .. len
    BY <1>2, <2>1
  <2> QED BY <2>2 DEF len, LastLiterals
<1>8. pc' = "compressed"
  BY DEF LastLiterals
<1>9. BlockTyped'
  BY <1>5, <1>6, <1>7, <1>8 DEF BlockTyped, op
<1> QED BY <1>5, <1>9

-----------------------------------------------------------------------------
(* The theorems *)

Compressor == Searching /\ BlockTyped

LEMMA CompressorInit == CompressInit => Compressor
<1>1. CompressInit => BlockTyped
  BY EmptySeq DEF CompressInit, BlockTyped, op
<1> QED BY <1>1, SearchingInit DEF Compressor

LEMMA CompressorStill == Compressor /\ UNCHANGED compressVars => Compressor'
<1> SUFFICES ASSUME Compressor, UNCHANGED compressVars PROVE Compressor'
  OBVIOUS
<1> USE DEF compressVars
<1>1. Positions'
  BY DEF Compressor, Searching, Positions, inputSize, mflimitPlusOne, read32
<1>2. MatchCode' = MatchCode
  BY DEF MatchCode, count, At, matchlimit, inputSize
<1>3. Recorded'
  BY <1>2 DEF Compressor, Searching, Recorded
<1>4. BlockTyped'
  BY DEF Compressor, BlockTyped, op
<1> QED BY <1>1, <1>3, <1>4 DEF Compressor, Searching

LEMMA CompressorStep == Compressor /\ CompressNext => Compressor'
<1> SUFFICES ASSUME Compressor, CompressNext PROVE Compressor'
  OBVIOUS
<1>0. Searching /\ BlockTyped
  BY DEF Compressor
<1>1. CASE FirstByte
  <2>1. UNCHANGED <<dest, token>> /\ pc' \in {"last", "search"}
    BY <1>1 DEF FirstByte, SearchFrom
  <2>2. BlockTyped'
    BY <1>0, <2>1 DEF BlockTyped, op
  <2> QED BY <1>0, <1>1, <2>2, FirstByteStep DEF Compressor
<1>2. CASE FindMatch
  <2>1. UNCHANGED <<dest, token>> /\ pc' \in {"last", "search", "literals"}
    BY <1>2 DEF FindMatch
  <2>2. BlockTyped'
    BY <1>0, <2>1 DEF BlockTyped, op
  <2> QED BY <1>0, <1>2, <2>2, FindMatchStep DEF Compressor
<1>3. CASE EncodeLiterals
  BY <1>0, <1>3, EncodeLiteralsStep, EncodeLiteralsBlock DEF Compressor
<1>4. CASE EncodeMatch
  BY <1>0, <1>4, EncodeMatchStep, EncodeMatchBlock DEF Compressor
<1>5. CASE TestNextPosition
  BY <1>0, <1>5, TestNextPositionStep, TestNextPositionBlock DEF Compressor
<1>6. CASE LastLiterals
  BY <1>0, <1>6, LastLiteralsStep, LastLiteralsBlock DEF Compressor
<1> QED BY <1>1, <1>2, <1>3, <1>4, <1>5, <1>6 DEF CompressNext

(* The decoder touches nothing of the compressor.                          *)
LEMMA DecoderOnly == Decompress \/ Decoding => UNCHANGED compressVars
  BY DEF Decompress, Decoding, FastLiterals, FastMatch, SafeSequence, SafeLiteralCopy,
         SafeMatchCopy

LEMMA CompressorAlways == LZ4Spec => []Compressor
<1>1. DecompressInit => Compressor
  BY CompressorInit DEF DecompressInit
<1>2. Compressor /\ [LZ4Next]_lz4Vars => Compressor'
  <2>1. LZ4Next => CompressNext \/ UNCHANGED compressVars
    BY DecoderOnly DEF LZ4Next, Compressing
  <2>2. UNCHANGED lz4Vars => UNCHANGED compressVars
    BY DEF lz4Vars
  <2> QED BY <2>1, <2>2, CompressorStep, CompressorStill
<1> QED BY <1>1, <1>2, PTL DEF LZ4Spec

(* For every page, hash function and format, the assertions of the loop    *)
(* hold: a candidate is always before the position it is compared with,    *)
(* an offset fits its two bytes, and matches stay away from the end as the *)
(* decoder relies on.                                                      *)
THEOREM AssertionsHoldAlways == LZ4Spec => []AssertionsHold
<1>1. Compressor => AssertionsHold
  <2> SUFFICES ASSUME Compressor PROVE AssertionsHold
    OBVIOUS
  <2>0. Positions /\ Recorded /\ BlockTyped
    BY DEF Compressor, Searching
  <2>1. /\ ip \in Nat /\ inputSize \in Nat /\ mflimitPlusOne = inputSize - MFLIMIT + 1
        /\ MFLIMIT \in Nat /\ ip <= inputSize /\ Base * Base \in Nat
        /\ inputSize < Base * Base /\ match \in Nat /\ forwardIp \in Nat
    BY <2>0, PositionFacts, FormatFacts DEF Positions
  <2>2. pc = "search" => GetIndex(hashPosition(forwardIp)) < forwardIp
    <3> SUFFICES ASSUME pc = "search" PROVE GetIndex(hashPosition(forwardIp)) < forwardIp
      OBVIOUS
    <3>1. 0 < forwardIp
      BY <2>0, <2>1 DEF Positions
    <3> QED BY <2>0, <3>1 DEF GetIndex, Recorded
  <2>3. pc = "next" => GetIndex(hashPosition(ip)) < ip
    <3> SUFFICES ASSUME pc = "next" PROVE GetIndex(hashPosition(ip)) < ip
      OBVIOUS
    <3>1. 0 < ip
      BY <2>0, <2>1 DEF Positions
    <3> QED BY <2>0, <3>1 DEF GetIndex, Recorded
  <2>4. pc \in {"literals", "match"} => /\ ip - match \in 1 .. (Base * Base) - 1
                                        /\ ip < mflimitPlusOne
                                        /\ read32(match) = read32(ip)
                                        /\ ip + MFLIMIT <= inputSize
    <3> SUFFICES ASSUME pc \in {"literals", "match"}
                 PROVE  /\ ip - match \in 1 .. (Base * Base) - 1
                        /\ ip < mflimitPlusOne
                        /\ read32(match) = read32(ip)
                        /\ ip + MFLIMIT <= inputSize
      OBVIOUS
    <3>1. match < ip /\ ip + MFLIMIT <= inputSize /\ read32(match) = read32(ip)
      BY <2>0 DEF Positions
    <3> DEFINE b == Base * Base
    <3>2. b \in Nat /\ inputSize < b
      BY <2>1
    <3> HIDE DEF b
    <3>3. ip - match \in 1 .. b - 1 /\ ip < mflimitPlusOne
      BY <2>1, <3>1, <3>2
    <3> QED BY <3>1, <3>3 DEF b
  <2>5. pc = "compressed" => op > 0
    BY <2>0 DEF BlockTyped
  <2>6. pc \in {"next", "last"} => anchor = 0 \/ anchor + LASTLITERALS <= inputSize
    BY <2>0 DEF Positions
  <2> QED BY <2>2, <2>3, <2>4, <2>5, <2>6 DEF AssertionsHold
<1> QED BY <1>1, CompressorAlways, PTL

(* For every page, hash function and format, everything written is a byte: *)
(* no token, length or half of an offset is cut off.                       *)
THEOREM BlockIsBytes == LZ4Spec => []BlockTyped
<1>1. Compressor => BlockTyped
  BY DEF Compressor
<1> QED BY <1>1, CompressorAlways, PTL

-----------------------------------------------------------------------------
(* The size of the block *)

(* The greatest number of a bounded set of them.                           *)
LEMMA MaxOf ==
  ASSUME NEW L \in Nat, NEW S, S \subseteq 0 .. L, S # {}
  PROVE  Max(S) \in S /\ \A y \in S : Max(S) >= y
<1> DEFINE T == {L - y : y \in S}
<1>0. \A y \in S : y \in Int /\ L - y \in T /\ L - y \in Nat
  OBVIOUS
<1>1. T \subseteq Nat /\ T # {}
  <2>1. PICK y \in S : TRUE
    OBVIOUS
  <2> QED BY <1>0, <2>1
<1>2. Min(T) \in T /\ \A y \in T : Min(T) <= y
  <2> HIDE DEF T
  <2> QED BY <1>1, MinOf
<1>3. PICK x \in S : Min(T) = L - x
  BY <1>2
<1>4. ASSUME NEW y \in S PROVE x >= y
  <2>1. L - x <= L - y
    BY <1>0, <1>2, <1>3
  <2> QED BY <1>0, <2>1
<1> HIDE DEF T
<1>5. \E z \in S : \A y \in S : z >= y
  BY <1>4
<1> QED BY <1>5 DEF Max

(* Of both entries of the table and the match there is a whole word left.  *)
Ranges ==
  /\ match \in 0 .. inputSize
  /\ \A h \in DOMAIN hashTable : hashTable[h] \in Nat /\ hashTable[h] < inputSize - MINMATCH + 1

(* A length takes at most one byte more than it has whole ByteMax.         *)
LEMMA MoreBytesBound ==
  ASSUME NEW length \in Nat, NEW mask \in Nat \ {0}
  PROVE  \E k \in Nat : /\ ByteMax * k <= length /\ MoreBytes(length, mask) <= k + 1
                        /\ MoreBytes(length, mask) <= length
<1>0. ByteMax \in Nat \ {0}
  BY FormatFacts
<1>1. CASE length < mask
  <2>1. MoreBytes(length, mask) = 0 /\ ByteMax * 0 = 0
    BY <1>0, <1>1 DEF MoreBytes
  <2> QED BY <2>1
<1>2. CASE ~ (length < mask)
  <2> DEFINE q == (length - mask) \div ByteMax
             r == (length - mask) % ByteMax
  <2>1. length - mask \in Nat
    BY <1>2
  <2>2. q \in Nat /\ r \in Nat /\ length - mask = (ByteMax * q) + r
    BY <1>0, <2>1, DivMod
  <2>3. MoreBytes(length, mask) = q + 1
    BY <1>2 DEF MoreBytes
  <2> HIDE DEF q, r
  <2>4. ByteMax * q >= q
    BY <1>0, <2>2
  <2> DEFINE p == ByteMax * q
  <2>5. p \in Nat /\ p >= q /\ length - mask = p + r
    BY <1>0, <2>2, <2>4
  <2> HIDE DEF p
  <2>6. p <= length /\ q + 1 <= length
    BY <2>1, <2>2, <2>5
  <2> QED BY <2>2, <2>3, <2>6 DEF p
<1> QED BY <1>1, <1>2

(* Whole chunks reach less than a chunk too far, or exactly one.           *)
LEMMA WholeChunksBound ==
  ASSUME NEW length \in Nat, NEW chunk \in Nat \ {0}
  PROVE  WholeChunks(length, chunk) \in Nat /\ WholeChunks(length, chunk) <= length + chunk
<1> DEFINE q == (length + chunk - 1) \div chunk
           r == (length + chunk - 1) % chunk
<1>1. length + chunk - 1 \in Nat
  OBVIOUS
<1>2. q \in Nat /\ r \in Nat /\ length + chunk - 1 = (chunk * q) + r
  BY <1>1, DivMod
<1>3. WholeChunks(length, chunk) = chunk * Max({1, q})
  BY DEF WholeChunks
<1> HIDE DEF q, r
<1>4. Max({1, q}) \in {1, q}
  <2>1. q + 1 \in Nat /\ {1, q} \subseteq 0 .. q + 1
    BY <1>2
  <2> QED BY <2>1, MaxOf
<1>5. chunk * q \in Nat /\ chunk * q <= length + chunk /\ chunk * 1 = chunk
  <2> DEFINE p == chunk * q
  <2>1. p \in Nat /\ length + chunk - 1 = p + r
    BY <1>2
  <2> HIDE DEF p
  <2>2. p <= length + chunk
    BY <1>2, <2>1
  <2> QED BY <2>1, <2>2 DEF p
<1> QED BY <1>3, <1>4, <1>5

(* What compressBound allows for: as many bytes more than the page has as  *)
(* it has whole ByteMax, and a little.                                     *)
LEMMA WithinBound ==
  ASSUME NEW n \in Nat, NEW e \in Nat, ByteMax * e <= n, NEW x \in Nat,
         x <= n + e + WILDCOPYLENGTH + 2, BlockSlack >= WILDCOPYLENGTH + 2
  PROVE  x \in 0 .. compressBound(n)
<1>0. ByteMax \in Nat \ {0} /\ WILDCOPYLENGTH \in Nat /\ BlockSlack \in Nat
  BY FormatFacts, FormatAssumption
<1> DEFINE q == n \div ByteMax
           r == n % ByteMax
<1>1. q \in Nat /\ r \in 0 .. ByteMax - 1 /\ n = (ByteMax * q) + r
  BY <1>0, DivMod
<1>2. compressBound(n) = n + q + BlockSlack
  BY DEF compressBound
<1> HIDE DEF q, r
<1>3. e <= q
  <2> SUFFICES ASSUME e >= q + 1 PROVE FALSE
    BY <1>1
  <2>1. ByteMax * e >= ByteMax * (q + 1) /\ ByteMax * (q + 1) = ByteMax * q + ByteMax
    BY <1>0, <1>1
  <2> DEFINE a == ByteMax * e
             b == ByteMax * q
  <2>2. a \in Nat /\ b \in Nat /\ a >= b + ByteMax /\ a <= n /\ n = b + r
    BY <1>0, <1>1, <2>1
  <2> HIDE DEF a, b
  <2> QED BY <1>0, <1>1, <2>2
<1> QED BY <1>0, <1>1, <1>2, <1>3

LEMMA RangesInit == CompressInit /\ Positions => Ranges
  BY PositionFacts DEF CompressInit, Ranges

LEMMA RangesStep == Searching /\ Ranges /\ CompressNext => Ranges'
<1> SUFFICES ASSUME Searching, Ranges, CompressNext PROVE Ranges'
  OBVIOUS
<1> DEFINE b == inputSize - MINMATCH + 1
<1>0. /\ Positions /\ Recorded /\ inputSize \in Nat /\ ip \in Nat /\ ip <= inputSize
      /\ mflimitPlusOne = inputSize - MFLIMIT + 1
      /\ MFLIMIT \in Nat /\ MINMATCH \in Nat /\ MINMATCH < MFLIMIT
  BY SMTT(30), PositionFacts, FormatFacts DEF Searching
<1>1. src' = src
  BY DEF CompressNext, FirstByte, FindMatch, EncodeLiterals, EncodeMatch, TestNextPosition,
         LastLiterals
<1>2. inputSize' = inputSize
  BY <1>1 DEF inputSize
<1>3. ASSUME UNCHANGED <<match, hashTable>> PROVE Ranges'
  BY <1>2, <1>3 DEF Ranges
<1>4. \A h \in DOMAIN hashTable : hashTable[h] \in Nat /\ hashTable[h] < b
  BY DEF Ranges
<1>5. ASSUME b \in Nat, \A h \in DOMAIN hashTable' : hashTable'[h] \in Nat /\ hashTable'[h] < b,
             match' \in 0 .. inputSize
      PROVE  Ranges'
  BY <1>2, <1>5 DEF Ranges
<1>6. CASE FirstByte
  <2>1. CASE UNCHANGED hashTable
    BY <1>3, <1>6, <2>1 DEF FirstByte
  <2>2. CASE hashTable' = PutIndex(hashTable, 0) /\ ~ (inputSize < MFLIMIT + 1)
    <3>1. b \in Nat /\ 0 < b
      BY <1>0, <2>2
    <3> HIDE DEF b
    <3>2. \A h \in DOMAIN hashTable' : hashTable'[h] \in Nat /\ hashTable'[h] < b
      BY <1>4, <2>2, <3>1, PutBelow
    <3>3. match' \in 0 .. inputSize
      BY <1>6 DEF FirstByte, Ranges
    <3> QED BY <1>5, <3>1, <3>2, <3>3
  <2> QED BY <1>6, <2>1, <2>2 DEF FirstByte
<1>7. CASE FindMatch
  <2> DEFINE candidate == GetIndex(hashPosition(forwardIp))
  <2>0. /\ pc = "search" /\ forwardIp \in Nat /\ ip < forwardIp /\ step \in Nat \ {0}
    BY <1>0, <1>7 DEF FindMatch, Positions
  <2>1. CASE SearchEnds /\ UNCHANGED <<hashTable, match>>
    BY <1>3, <2>1
  <2>2. CASE ~ SearchEnds /\ hashTable' = PutIndex(hashTable, forwardIp) /\ match' = candidate
    <3>1. forwardIp + step <= mflimitPlusOne
      BY <1>0, <2>0, <2>2 DEF SearchEnds
    <3>2. b \in Nat /\ forwardIp < b /\ forwardIp <= inputSize
      BY <1>0, <2>0, <3>1
    <3> HIDE DEF b
    <3>3. \A h \in DOMAIN hashTable' : hashTable'[h] \in Nat /\ hashTable'[h] < b
      BY <1>4, <2>0, <2>2, <3>2, PutBelow
    <3>4. candidate \in Nat /\ candidate < forwardIp
      BY <1>0, <2>0 DEF GetIndex, Recorded
    <3>5. match' \in 0 .. inputSize
      <4> HIDE DEF candidate
      <4>1. candidate \in 0 .. inputSize
        BY <1>0, <2>0, <3>2, <3>4
      <4> QED BY <2>2, <4>1
    <3> QED BY <1>5, <3>2, <3>3, <3>5
  <2> QED BY <1>7, <2>1, <2>2 DEF FindMatch
<1>8. CASE EncodeLiterals
  <2> DEFINE c == CatchUp
  <2>1. pc = "literals" /\ hashTable' = hashTable /\ match' = match - c
    BY <1>8 DEF EncodeLiterals
  <2>2. c \in 0 .. ip - anchor /\ c <= match
    BY <2>1, CatchUpExact
  <2> HIDE DEF c
  <2>3. match - c \in 0 .. inputSize
    BY <1>0, <2>2, PositionFacts DEF Ranges
  <2> QED BY <1>2, <2>1, <2>3 DEF Ranges
<1>9. CASE EncodeMatch
  BY <1>3, <1>9 DEF EncodeMatch
<1>10. CASE TestNextPosition
  <2> DEFINE filled    == PutIndex(hashTable, ip - 2)
             h0        == hashPosition(ip)
             candidate == IF h0 \in DOMAIN filled THEN filled[h0] ELSE 0
  <2>0. pc = "next" /\ ip >= 2 /\ ip < mflimitPlusOne
    BY <1>0, <1>10 DEF TestNextPosition, Positions
  <2>1. b \in Nat /\ ip - 2 \in Nat /\ ip - 2 < b /\ ip < b /\ b <= inputSize + 1
    BY <1>0, <2>0
  <2> HIDE DEF b
  <2>2. \A h \in DOMAIN filled : filled[h] \in Nat /\ filled[h] < b
    BY <1>4, <2>1, PutBelow
  <2>3. hashTable' = PutIndex(filled, ip)
    BY <1>10 DEF TestNextPosition
  <2> HIDE DEF filled
  <2>4. \A h \in DOMAIN hashTable' : hashTable'[h] \in Nat /\ hashTable'[h] < b
    BY <1>0, <2>1, <2>2, <2>3, PutBelow
  <2>5. candidate \in 0 .. inputSize
    BY <1>0, <2>1, <2>2
  <2>6. match' = candidate \/ match' = match
    BY <1>10 DEF TestNextPosition, filled
  <2>7. match' \in 0 .. inputSize
    BY <2>5, <2>6 DEF Ranges
  <2> QED BY <1>5, <2>1, <2>4, <2>7
<1>11. CASE LastLiterals
  BY <1>3, <1>11 DEF LastLiterals
<1> QED BY <1>6, <1>7, <1>8, <1>9, <1>10, <1>11 DEF CompressNext

(* What the size of the block needs of the format: a match saves at least  *)
(* the token and the offset it costs and a byte for the literals before;   *)
(* and there is room for the last run and a wild copy (4; 16 and 8).       *)
RoomyFormat == MINMATCH >= 4 /\ BlockSlack >= WILDCOPYLENGTH + 2

(* The part of the page that the block so far stands for, but for the      *)
(* length of an open match.                                                *)
Covered == IF pc = "match" THEN ip ELSE anchor

(* The block is longer than what it stands for by no more bytes than that  *)
(* has whole ByteMax, and two for an open match.                           *)
Fits ==
  /\ touched \in 0 .. compressBound(inputSize)
  /\ pc # "compressed" =>
       \E e \in Nat : /\ ByteMax * e <= Covered
                      /\ op <= Covered + e + (IF pc = "match" THEN 2 ELSE 0)

LEMMA Accrues ==
  ASSUME NEW a \in Nat, NEW e \in Nat, NEW b \in Nat, NEW k \in Nat,
         ByteMax * e <= a, ByteMax * k <= b
  PROVE  ByteMax * (e + k) <= a + b
<1>0. ByteMax \in Nat
  BY FormatFacts
<1>1. ByteMax * (e + k) = ByteMax * e + ByteMax * k
  BY <1>0
<1> DEFINE x == ByteMax * e
           y == ByteMax * k
<1>2. x \in Nat /\ y \in Nat /\ x <= a /\ y <= b /\ ByteMax * (e + k) = x + y
  BY <1>0, <1>1
<1> HIDE DEF x, y
<1> QED BY <1>2

LEMMA TouchedStep ==
  ASSUME inputSize \in Nat, NEW S, S \subseteq 0 .. compressBound(inputSize), S # {}
  PROVE  Max(S) \in 0 .. compressBound(inputSize)
<1> DEFINE b == compressBound(inputSize)
<1>1. b \in Nat
  <2>1. inputSize \div ByteMax \in Nat /\ BlockSlack \in Nat
    BY FormatFacts, FormatAssumption, DivMod
  <2> DEFINE q == inputSize \div ByteMax
  <2>2. b = inputSize + q + BlockSlack
    BY DEF compressBound
  <2> HIDE DEF q, b
  <2> QED BY <2>1, <2>2 DEF q
<1> HIDE DEF b
<1>2. S \subseteq 0 .. b
  BY DEF b
<1>3. Max(S) \in S
  BY <1>1, <1>2, MaxOf
<1> QED BY <1>2, <1>3 DEF b

LEMMA FitsInit == CompressInit /\ Positions /\ RoomyFormat => Fits
<1> SUFFICES ASSUME CompressInit, Positions, RoomyFormat PROVE Fits
  OBVIOUS
<1>1. inputSize \in Nat /\ ByteMax \in Nat /\ WILDCOPYLENGTH \in Nat
  BY PositionFacts, FormatFacts
<1>2. ByteMax * 0 = 0
  BY <1>1
<1>3. 0 \in 0 .. compressBound(inputSize)
  <2>1. 0 <= inputSize + 0 + WILDCOPYLENGTH + 2 /\ ByteMax * 0 <= inputSize
    BY <1>1, <1>2
  <2> QED BY <1>1, <2>1, WithinBound DEF RoomyFormat
<1>4. op = 0 /\ Covered = 0 /\ touched = 0 /\ pc = "first"
  BY EmptySeq DEF CompressInit, op, Covered
<1> QED BY <1>2, <1>3, <1>4 DEF Fits

LEMMA FitsLiterals ==
  ASSUME Searching, BlockTyped, Fits, RoomyFormat, EncodeLiterals
  PROVE  Fits'
<1> DEFINE L    == ip' - anchor
           more == MoreBytes(L, RUN_MASK)
           head == <<LiteralToken(L)>> \o MoreLength(L, RUN_MASK)
           wild == WholeChunks(L, WILDCOPYLENGTH)
<1>0. /\ pc = "literals" /\ pc' = "match" /\ UNCHANGED <<src, anchor>>
      /\ touched' = Max({touched, op + Len(head) + wild})
  BY DEF EncodeLiterals
<1>1. /\ anchor \in Nat /\ ip \in Nat /\ inputSize \in Nat /\ ip <= inputSize
      /\ op \in Nat
  BY PositionFacts DEF Searching, BlockTyped, op
<1>2. ip' \in anchor .. ip /\ Len(dest') = op + 1 + more + L
  BY EncodeLiteralsBlock
<1>3. L \in Nat /\ L <= inputSize /\ anchor + L = ip' /\ anchor + L <= inputSize
  <2>1. PICK to \in Nat : to = ip'
    BY <1>1, <1>2
  <2>2. to >= anchor /\ to <= ip
    BY <1>1, <1>2, <2>1
  <2>3. to - anchor \in Nat /\ to - anchor <= inputSize /\ anchor + (to - anchor) = to
        /\ to <= inputSize
    BY <1>1, <2>2
  <2> QED BY <2>1, <2>3
<1>4. RUN_MASK \in Nat \ {0} /\ WILDCOPYLENGTH \in Nat \ {0} /\ ByteMax \in Nat \ {0}
  BY FormatFacts
<1> HIDE DEF L
<1>5. Len(head) = 1 + more /\ more \in Nat
  <2>1. LiteralToken(L) \in Bytes /\ MoreLength(L, RUN_MASK) \in Seq(Bytes)
        /\ Len(MoreLength(L, RUN_MASK)) = more /\ more \in Nat
    BY <1>3, <1>4, LiteralTokenIs, MoreLengthIs
  <2> DEFINE t == <<LiteralToken(L)>>
             m == MoreLength(L, RUN_MASK)
  <2>2. t \in Seq(Bytes) /\ Len(t) = 1 /\ m \in Seq(Bytes)
    BY <2>1
  <2> HIDE DEF t, m
  <2>3. Len(t \o m) = Len(t) + Len(m)
    BY <2>2, ConcatIs
  <2> QED BY <2>1, <2>2, <2>3 DEF t, m
<1>6. wild \in Nat /\ wild <= L + WILDCOPYLENGTH
  BY <1>3, <1>4, WholeChunksBound
<1>7. PICK e \in Nat : ByteMax * e <= anchor /\ op <= anchor + e
  <2>1. Covered = anchor /\ pc # "match" /\ pc # "compressed"
    BY <1>0 DEF Covered
  <2>2. PICK e \in Nat : ByteMax * e <= anchor /\ op <= anchor + e + 0
    BY <2>1 DEF Fits
  <2> QED BY <1>1, <2>2
<1>8. PICK k \in Nat : ByteMax * k <= L /\ more <= k + 1
  BY <1>3, <1>4, MoreBytesBound
<1> HIDE DEF more, head, wild
<1>9. ByteMax * (e + k) <= anchor + L /\ e + k \in Nat
  BY <1>1, <1>3, <1>7, <1>8, Accrues
<1>10. op + 1 + more + L <= (anchor + L) + (e + k) + 2
  BY <1>1, <1>3, <1>5, <1>7, <1>8
<1>11. /\ op + Len(head) + wild \in Nat
       /\ op + Len(head) + wild <= inputSize + (e + k) + WILDCOPYLENGTH + 2
  BY <1>1, <1>3, <1>4, <1>5, <1>6, <1>7, <1>8
<1>12. ByteMax * (e + k) <= inputSize
  <2> DEFINE x == ByteMax * (e + k)
  <2>1. x \in Nat /\ x <= anchor + L
    BY <1>4, <1>9
  <2> HIDE DEF x
  <2>2. x <= inputSize
    BY <1>1, <1>3, <2>1
  <2> QED BY <2>2 DEF x
<1>13. op + Len(head) + wild \in 0 .. compressBound(inputSize)
  <2> DEFINE x == op + Len(head) + wild
             d == e + k
  <2>1. /\ x \in Nat /\ d \in Nat /\ ByteMax * d <= inputSize
        /\ x <= inputSize + d + WILDCOPYLENGTH + 2 /\ BlockSlack >= WILDCOPYLENGTH + 2
    BY <1>9, <1>11, <1>12 DEF RoomyFormat
  <2> HIDE DEF x, d
  <2>2. x \in 0 .. compressBound(inputSize)
    BY <1>1, <2>1, WithinBound
  <2> QED BY <2>2 DEF x
<1>14. touched' \in 0 .. compressBound(inputSize)
  <2> DEFINE S == {touched, op + Len(head) + wild}
  <2>1. S \subseteq 0 .. compressBound(inputSize) /\ S # {} /\ touched' = Max(S)
    BY <1>0, <1>13 DEF Fits
  <2> HIDE DEF S
  <2> QED BY <1>1, <2>1, TouchedStep
<1>15. compressBound(inputSize)' = compressBound(inputSize)
  BY <1>0 DEF compressBound, inputSize
<1>16. /\ Covered' = anchor + L /\ op' = op + 1 + more + L
  BY <1>0, <1>2, <1>3 DEF Covered, op, more, L
<1>17. op' <= Covered' + (e + k) + 2
  BY <1>10, <1>16
<1> QED BY <1>0, <1>9, <1>14, <1>15, <1>16, <1>17 DEF Fits

LEMMA FitsMatch ==
  ASSUME Searching, BlockTyped, Fits, RoomyFormat, EncodeMatch
  PROVE  Fits'
<1> DEFINE code  == MatchCode
           more  == MoreBytes(code, ML_MASK)
           words == WordsEnd(op + 2, code)
           after == ip + code + MINMATCH
<1>0. /\ pc = "match" /\ pc' \in {"last", "next"} /\ UNCHANGED src
      /\ anchor' = after /\ touched' = Max({touched, Len(dest'), words})
  BY DEF EncodeMatch
<1>1. /\ ip \in Nat /\ inputSize \in Nat /\ op \in Nat
  BY PositionFacts DEF Searching, BlockTyped, op
<1>2. Len(dest') = op + 2 + more
  BY EncodeMatchBlock
<1>3. /\ MINMATCH \in Nat /\ MINMATCH >= 4 /\ ML_MASK \in Nat \ {0} /\ LASTLITERALS \in Nat
      /\ ByteMax \in Nat \ {0} /\ WILDCOPYLENGTH \in Nat \ {0}
      /\ BlockSlack >= WILDCOPYLENGTH + 2
  BY FormatFacts DEF RoomyFormat
<1>4. code \in Nat /\ code <= inputSize - LASTLITERALS - ip - MINMATCH
  <2>1. code \in 0 .. inputSize - LASTLITERALS - ip - MINMATCH
    BY <1>0, MatchCodeRange DEF Searching
  <2> HIDE DEF code
  <2> QED BY <1>1, <1>3, <2>1
<1> HIDE DEF code
<1>5. after \in Nat /\ after <= inputSize
  BY <1>1, <1>3, <1>4
<1>6. more \in Nat /\ more <= code
  BY <1>3, <1>4, MoreLengthIs, MoreBytesBound
<1>7. PICK e \in Nat : ByteMax * e <= ip /\ op <= ip + e + 2
  <2>1. Covered = ip /\ pc # "compressed"
    BY <1>0 DEF Covered
  <2> QED BY <1>0, <2>1 DEF Fits
<1> HIDE DEF more, words
<1>8. ByteMax * e <= after /\ ByteMax * e <= inputSize
  <2> DEFINE x == ByteMax * e
  <2>1. x \in Nat /\ x <= ip
    BY <1>3, <1>7
  <2> HIDE DEF x
  <2>2. x <= after /\ x <= inputSize
    BY <1>1, <1>3, <1>4, <1>5, <2>1
  <2> QED BY <2>2 DEF x
<1>9. op + 2 + more \in Nat /\ op + 2 + more <= after + e
  BY <1>1, <1>3, <1>4, <1>6, <1>7
(* Four bytes at a time reach three too far.                               *)
<1>10. words \in Nat /\ words <= after + e + 3
  <2>1. CASE code < ML_MASK
    <3>1. words = op + 2
      BY <2>1 DEF words, WordsEnd
    <3> QED BY <1>1, <1>3, <1>4, <1>7, <3>1
  <2>2. CASE ~ (code < ML_MASK)
    <3> DEFINE d == 4 * ByteMax
               y == code - ML_MASK
               q == y \div d
               r == y % d
    <3>1. d \in Nat \ {0} /\ code - ML_MASK \in Nat
      BY <1>3, <1>4, <2>2
    <3>2. q \in Nat /\ r \in Nat /\ code - ML_MASK = (d * q) + r
      <4>1. y \in Nat
        BY <3>1
      <4> HIDE DEF d, y
      <4>2. q \in Nat /\ r \in Nat /\ y = (d * q) + r
        BY <3>1, <4>1, DivMod
      <4> QED BY <4>2 DEF y
    <3>3. words = op + 2 + 4 * q + 4
      BY <2>2 DEF words, WordsEnd
    <3> HIDE DEF q, r
    <3>4. d * q = 4 * (ByteMax * q) /\ ByteMax * q \in Nat /\ ByteMax * q >= q
      BY <1>3, <3>2
    <3> DEFINE x == ByteMax * q
    <3>5. x \in Nat /\ x >= q /\ code - ML_MASK = (4 * x) + r
      BY <3>2, <3>4
    <3> HIDE DEF x, d
    <3>6. 4 * q <= code - ML_MASK
      BY <3>2, <3>5
    <3> QED BY <1>1, <1>3, <1>4, <1>7, <3>2, <3>3, <3>6
  <2> QED BY <2>1, <2>2
<1>11. op + 2 + more \in 0 .. compressBound(inputSize) /\ words \in 0 .. compressBound(inputSize)
  <2> DEFINE len == op + 2 + more
  <2>1. /\ len \in Nat /\ len <= inputSize + e + WILDCOPYLENGTH + 2
        /\ words \in Nat /\ words <= inputSize + e + WILDCOPYLENGTH + 2
    BY <1>1, <1>3, <1>5, <1>9, <1>10
  <2> HIDE DEF len
  <2>2. /\ len \in 0 .. compressBound(inputSize)
        /\ words \in 0 .. compressBound(inputSize)
    BY <1>1, <1>3, <1>8, <2>1, WithinBound
  <2> QED BY <2>2 DEF len
<1>12. touched' \in 0 .. compressBound(inputSize)
  <2> DEFINE S == {touched, op + 2 + more, words}
  <2>1. S \subseteq 0 .. compressBound(inputSize) /\ S # {}
    BY <1>11 DEF Fits
  <2>2. touched' = Max(S)
    BY <1>0, <1>2 DEF more, words
  <2> HIDE DEF S
  <2> QED BY <1>1, <2>1, <2>2, TouchedStep
<1>13. compressBound(inputSize)' = compressBound(inputSize)
  BY <1>0 DEF compressBound, inputSize
<1>14. Covered' = after /\ op' = op + 2 + more /\ pc' # "match" /\ pc' # "compressed"
  BY <1>0, <1>2 DEF Covered, op, more
<1>15. op' <= Covered' + e + 0
  <2> DEFINE x == op + 2 + more
             y == after
  <2>1. x \in Nat /\ y \in Nat /\ x <= y + e
    BY <1>5, <1>9
  <2> HIDE DEF x, y
  <2>2. x <= y + e + 0
    BY <2>1
  <2> QED BY <1>14, <2>2 DEF x, y
<1> QED BY <1>8, <1>12, <1>13, <1>14, <1>15 DEF Fits

LEMMA FitsNextPosition ==
  ASSUME Searching, BlockTyped, Fits, RoomyFormat, TestNextPosition
  PROVE  Fits'
<1>0. /\ pc = "next" /\ UNCHANGED <<src, ip, anchor>>
  BY DEF TestNextPosition
<1>1. /\ ip \in Nat /\ inputSize \in Nat /\ op \in Nat /\ ip = anchor /\ ip <= inputSize
  BY <1>0, PositionFacts DEF Searching, Positions, BlockTyped, op
<1>2. PICK e \in Nat : ByteMax * e <= ip /\ op <= ip + e
  <2>1. Covered = ip /\ pc # "match" /\ pc # "compressed"
    BY <1>0, <1>1 DEF Covered
  <2>2. PICK e \in Nat : ByteMax * e <= ip /\ op <= ip + e + 0
    BY <2>1 DEF Fits
  <2> QED BY <1>1, <2>2
<1>3. compressBound(inputSize)' = compressBound(inputSize)
  BY <1>0 DEF compressBound, inputSize
<1>4. CASE pc' = "match" /\ Len(dest') = op + 1 /\ touched' = Max({touched, op + 1})
  <2>1. op + 1 \in 0 .. compressBound(inputSize)
    <3>1. ByteMax * e <= inputSize
      <4> DEFINE x == ByteMax * e
      <4>1. x \in Nat /\ x <= ip
        BY <1>2, FormatFacts
      <4> HIDE DEF x
      <4>2. x <= inputSize
        BY <1>1, <4>1
      <4> QED BY <4>2 DEF x
    <3>2. WILDCOPYLENGTH \in Nat
      BY FormatFacts
    <3>3. op + 1 \in Nat /\ op + 1 <= inputSize + e + WILDCOPYLENGTH + 2
      BY <1>1, <1>2, <3>2
    <3> QED BY <1>1, <1>2, <3>1, <3>3, WithinBound DEF RoomyFormat
  <2>2. touched' \in 0 .. compressBound(inputSize)
    <3> DEFINE S == {touched, op + 1}
    <3>1. S \subseteq 0 .. compressBound(inputSize) /\ S # {} /\ touched' = Max(S)
      BY <1>4, <2>1 DEF Fits
    <3> HIDE DEF S
    <3> QED BY <1>1, <3>1, TouchedStep
  <2>3. Covered' = ip /\ op' = op + 1
    BY <1>0, <1>4 DEF Covered, op
  <2>4. op + 1 <= ip + e + 2
    BY <1>1, <1>2
  <2>5. op' <= Covered' + e + 2
    BY <2>3, <2>4
  <2> QED BY <1>2, <1>3, <1>4, <2>2, <2>3, <2>5 DEF Fits
<1>5. CASE pc' = "search" /\ UNCHANGED <<dest, touched>>
  <2>1. Covered' = ip /\ op' = op
    BY <1>0, <1>1, <1>5 DEF Covered, op
  <2>2. op <= ip + e + 0
    BY <1>1, <1>2
  <2>3. op' <= Covered' + e + 0
    BY <2>1, <2>2
  <2> QED BY <1>2, <1>3, <1>5, <2>1, <2>3 DEF Fits
<1> QED BY <1>4, <1>5, TestNextPositionBlock

LEMMA FitsLast ==
  ASSUME Searching, BlockTyped, Fits, RoomyFormat, LastLiterals
  PROVE  Fits'
<1> DEFINE L    == inputSize - anchor
           more == MoreBytes(L, RUN_MASK)
<1>0. /\ pc = "last" /\ pc' = "compressed" /\ UNCHANGED src
      /\ touched' = Max({touched, Len(dest')})
  BY DEF LastLiterals
<1>1. /\ anchor \in Nat /\ inputSize \in Nat /\ op \in Nat /\ anchor <= inputSize
  BY PositionFacts DEF Searching, BlockTyped, op
<1>2. Len(dest') = op + 1 + more + L
  BY LastLiteralsBlock
<1>3. L \in Nat /\ anchor + L = inputSize
  BY <1>1
<1>4. RUN_MASK \in Nat \ {0} /\ WILDCOPYLENGTH \in Nat \ {0} /\ ByteMax \in Nat \ {0}
  BY FormatFacts
<1> HIDE DEF L
<1>5. PICK e \in Nat : ByteMax * e <= anchor /\ op <= anchor + e
  <2>1. Covered = anchor /\ pc # "match" /\ pc # "compressed"
    BY <1>0 DEF Covered
  <2>2. PICK e \in Nat : ByteMax * e <= anchor /\ op <= anchor + e + 0
    BY <2>1 DEF Fits
  <2> QED BY <1>1, <2>2
<1>6. more \in Nat /\ \E k \in Nat : ByteMax * k <= L /\ more <= k + 1
  BY <1>3, <1>4, MoreLengthIs, MoreBytesBound
<1>7. PICK k \in Nat : ByteMax * k <= L /\ more <= k + 1
  BY <1>6
<1> HIDE DEF more
<1>8. ByteMax * (e + k) <= inputSize /\ e + k \in Nat
  <2>1. ByteMax * (e + k) <= anchor + L
    BY <1>1, <1>3, <1>5, <1>7, Accrues
  <2> QED BY <1>3, <2>1
<1>9. op + 1 + more + L \in 0 .. compressBound(inputSize)
  <2> DEFINE x == op + 1 + more + L
             d == e + k
  <2>1. /\ x \in Nat /\ d \in Nat /\ ByteMax * d <= inputSize
        /\ x <= inputSize + d + WILDCOPYLENGTH + 2 /\ BlockSlack >= WILDCOPYLENGTH + 2
    BY <1>1, <1>3, <1>4, <1>5, <1>6, <1>7, <1>8 DEF RoomyFormat
  <2> HIDE DEF x, d
  <2>2. x \in 0 .. compressBound(inputSize)
    BY <1>1, <2>1, WithinBound
  <2> QED BY <2>2 DEF x
<1>10. touched' \in 0 .. compressBound(inputSize)
  <2> DEFINE S == {touched, op + 1 + more + L}
  <2>1. S \subseteq 0 .. compressBound(inputSize) /\ S # {} /\ touched' = Max(S)
    BY <1>0, <1>2, <1>9 DEF Fits, more, L
  <2> HIDE DEF S
  <2> QED BY <1>1, <2>1, TouchedStep
<1>11. compressBound(inputSize)' = compressBound(inputSize)
  BY <1>0 DEF compressBound, inputSize
<1> QED BY <1>0, <1>10, <1>11 DEF Fits

(* Everything in the type of the compressor.                               *)
Bounded == Compressor /\ Ranges /\ Fits

LEMMA BoundedStill == Bounded /\ UNCHANGED compressVars => Bounded'
<1> SUFFICES ASSUME Bounded, UNCHANGED compressVars PROVE Bounded'
  OBVIOUS
<1>1. Compressor'
  BY CompressorStill DEF Bounded
<1> USE DEF compressVars
<1>2. Ranges'
  BY DEF Bounded, Ranges, inputSize
<1>3. Fits'
  BY DEF Bounded, Fits, Covered, op, inputSize
<1> QED BY <1>1, <1>2, <1>3 DEF Bounded

LEMMA BoundedStep == Bounded /\ RoomyFormat /\ CompressNext => Bounded'
<1> SUFFICES ASSUME Bounded, RoomyFormat, CompressNext PROVE Bounded'
  OBVIOUS
<1>0. Searching /\ BlockTyped /\ Ranges /\ Fits /\ Compressor
  BY DEF Bounded, Compressor
<1>1. Compressor' /\ Ranges'
  BY <1>0, CompressorStep, RangesStep
<1>2. ASSUME UNCHANGED <<src, dest, anchor, touched>>, pc \notin {"match", "compressed"},
             pc' \notin {"match", "compressed"}
      PROVE  Fits'
  <2>1. Covered = anchor /\ Covered' = anchor /\ op' = op /\ inputSize' = inputSize
    BY <1>2 DEF Covered, op, inputSize
  <2> QED BY <1>0, <1>2, <2>1 DEF Fits
<1>3. CASE FirstByte
  BY <1>1, <1>2, <1>3 DEF FirstByte, SearchFrom, Bounded
<1>4. CASE FindMatch
  BY <1>1, <1>2, <1>4 DEF FindMatch, Bounded
<1>5. CASE EncodeLiterals
  BY <1>0, <1>1, <1>5, FitsLiterals DEF Bounded
<1>6. CASE EncodeMatch
  BY <1>0, <1>1, <1>6, FitsMatch DEF Bounded
<1>7. CASE TestNextPosition
  BY <1>0, <1>1, <1>7, FitsNextPosition DEF Bounded
<1>8. CASE LastLiterals
  BY <1>0, <1>1, <1>8, FitsLast DEF Bounded
<1> QED BY <1>1, <1>3, <1>4, <1>5, <1>6, <1>7, <1>8 DEF CompressNext, Bounded

(* For every page and hash function, all that the compressor writes, and   *)
(* all that its wild copies and four-byte writes reach in advance, is      *)
(* within the LZ4_compressBound bytes CompressDataPage allocates (Z:88):   *)
(* the compressor is not told that size.                                   *)
THEOREM BufferSuffices == ASSUME RoomyFormat PROVE LZ4Spec => []CompressTypeOK
<1>1. DecompressInit => Bounded
  <2>1. CompressInit => Positions
    BY SearchingInit DEF Searching
  <2> QED BY <2>1, CompressorInit, RangesInit, FitsInit DEF DecompressInit, Bounded
<1>2. Bounded /\ [LZ4Next]_lz4Vars => Bounded'
  <2>1. LZ4Next => CompressNext \/ UNCHANGED compressVars
    BY DecoderOnly DEF LZ4Next, Compressing
  <2>2. UNCHANGED lz4Vars => UNCHANGED compressVars
    BY DEF lz4Vars
  <2> QED BY <2>1, <2>2, BoundedStep, BoundedStill
<1>3. Bounded => CompressTypeOK
  <2> SUFFICES ASSUME Bounded PROVE CompressTypeOK
    OBVIOUS
  <2>0. Positions /\ BlockTyped /\ Ranges /\ Fits
    BY DEF Bounded, Compressor, Searching
  <2>1. /\ inputSize \in Nat /\ anchor \in 0 .. inputSize /\ ip \in 0 .. inputSize
        /\ MINMATCH \in Nat
    BY <2>0, PositionFacts, FormatFacts
  <2>2. \A h \in DOMAIN hashTable : hashTable[h] \in 0 .. inputSize - MINMATCH
    BY <2>0, <2>1 DEF Ranges
  <2> QED BY <2>0, <2>1, <2>2 DEF CompressTypeOK, Positions, BlockTyped, Ranges, Fits, op
<1> QED BY <1>1, <1>2, <1>3, PTL DEF LZ4Spec

-----------------------------------------------------------------------------
(* The block as a list of sequences *)

(* A sequence of the block, that stands for the lits bytes of the page     *)
(* from out on, and for the length bytes behind them by a match.  The last *)
(* one has none, and a length of 0.                                        *)
Node == [out : Nat, lits : Nat, length : Nat, offset : Nat]

LitsAt(b, lits)  == b + 1 + MoreBytes(lits, RUN_MASK)
LitsEnd(b, lits) == LitsAt(b, lits) + lits
SeqEnd(b, n)     == IF n.length = 0 THEN LitsEnd(b, n.lits)
                    ELSE LitsEnd(b, n.lits) + 2 + MoreBytes(n.length - MINMATCH, ML_MASK)
Covers(n)        == n.out + n.lits
Reach(n)         == n.out + n.lits + n.length
Code(n)          == IF n.length = 0 THEN 0 ELSE Min({n.length - MINMATCH, ML_MASK})

(* The bytes that start at p are those of u. *)
Holds(d, p, u) == p + Len(u) <= Len(d) /\ \A k \in 1 .. Len(u) : d[p + k] = u[k]

(* What makes a sequence one for the page s. *)
Repeats(s, out, offset, length) == \A k \in 1 .. length : s[out + k] = s[out - offset + k]

SoundMatch(s, n) ==
  /\ n.length >= MINMATCH /\ n.offset < Base * Base
  /\ 1 <= n.offset /\ n.offset <= Covers(n)
  /\ Repeats(s, Covers(n), n.offset, n.length)
  /\ Covers(n) + MFLIMIT <= Len(s) /\ Reach(n) + LASTLITERALS <= Len(s)

Sound(s, n) == n \in Node /\ Reach(n) <= Len(s) /\ (n.length # 0 => SoundMatch(s, n))

(* A run of literals is in the block d at b. *)
StoredRun(s, d, b, out, lits) ==
  /\ LitsEnd(b, lits) <= Len(d)
  /\ Holds(d, b + 1, MoreLength(lits, RUN_MASK))
  /\ \A k \in 1 .. lits : d[LitsAt(b, lits) + k] = s[out + k]

StoredMatch(d, p, n) ==
  Holds(d, p, LE16(n.offset)) /\ Holds(d, p + 2, MoreLength(n.length - MINMATCH, ML_MASK))

Stored(s, d, b, n) ==
  /\ d[b + 1] = LiteralToken(n.lits) + Code(n)
  /\ StoredRun(s, d, b, n.out, n.lits)
  /\ n.length # 0 => StoredMatch(d, LitsEnd(b, n.lits), n)

(* What follows at b: a sequence that starts at out, or the end. *)
Continues(mark, end, reach, b, out) ==
  IF b = end THEN out = reach ELSE b \in DOMAIN mark /\ mark[b].out = out

(* The sequences in mark fill the block up to end and stand for the first  *)
(* bytes of the page, up to reach.  All have a match.                      *)
Written(s, d, mark, end, reach) ==
  /\ end > 0 => reach > 0
  /\ \A b \in DOMAIN mark : b \in Nat /\ mark[b].length # 0 /\ SeqEnd(b, mark[b]) <= end
  /\ \A b \in DOMAIN mark : Sound(s, mark[b])
  /\ \A b \in DOMAIN mark : Stored(s, d, b, mark[b])
  /\ \A b \in DOMAIN mark : Continues(mark, end, reach, SeqEnd(b, mark[b]), Reach(mark[b]))
  /\ Continues(mark, end, reach, 0, 0)

LEMMA SequenceIs ==
  ASSUME NEW s, NEW n, Sound(s, n), NEW b \in Nat
  PROVE  /\ n.out \in Nat /\ n.lits \in Nat /\ n.length \in Nat /\ n.offset \in Nat
         /\ Covers(n) \in Nat /\ Reach(n) \in Nat /\ Reach(n) = Covers(n) + n.length
         /\ LitsAt(b, n.lits) \in Nat /\ LitsAt(b, n.lits) > b
         /\ LitsEnd(b, n.lits) \in Nat /\ LitsEnd(b, n.lits) = LitsAt(b, n.lits) + n.lits
         /\ SeqEnd(b, n) \in Nat /\ SeqEnd(b, n) >= LitsEnd(b, n.lits)
         /\ n.length # 0 => /\ n.length - MINMATCH \in Nat
                            /\ SeqEnd(b, n) >= LitsEnd(b, n.lits) + 2
<1>1. n.out \in Nat /\ n.lits \in Nat /\ n.length \in Nat /\ n.offset \in Nat
  BY DEF Sound, Node
<1>2. RUN_MASK \in Nat /\ ML_MASK \in Nat /\ MINMATCH \in Nat
  BY FormatFacts
<1>3. MoreBytes(n.lits, RUN_MASK) \in Nat
  BY <1>1, <1>2, MoreLengthIs
<1>4. n.length # 0 => n.length - MINMATCH \in Nat
  BY <1>1, <1>2 DEF Sound, SoundMatch
<1>5. n.length # 0 => MoreBytes(n.length - MINMATCH, ML_MASK) \in Nat
  BY <1>2, <1>4, MoreLengthIs
<1> DEFINE m == MoreBytes(n.lits, RUN_MASK)
           k == MoreBytes(n.length - MINMATCH, ML_MASK)
<1>6. /\ LitsAt(b, n.lits) = b + 1 + m /\ LitsEnd(b, n.lits) = b + 1 + m + n.lits
      /\ SeqEnd(b, n) = IF n.length = 0 THEN b + 1 + m + n.lits ELSE b + 1 + m + n.lits + 2 + k
  BY DEF LitsAt, LitsEnd, SeqEnd
<1>7. m \in Nat /\ (n.length # 0 => k \in Nat)
  BY <1>3, <1>5
<1> HIDE DEF m, k
<1>8. Covers(n) = n.out + n.lits /\ Reach(n) = n.out + n.lits + n.length
  BY DEF Covers, Reach
<1> QED BY <1>1, <1>4, <1>6, <1>7, <1>8

LEMMA SequenceAfter ==
  ASSUME NEW s, NEW n, Sound(s, n), NEW b \in Nat
  PROVE  SeqEnd(b, n) \in Nat /\ SeqEnd(b, n) > b
<1>1. /\ LitsAt(b, n.lits) \in Nat /\ LitsAt(b, n.lits) > b /\ n.lits \in Nat
      /\ LitsEnd(b, n.lits) \in Nat /\ LitsEnd(b, n.lits) = LitsAt(b, n.lits) + n.lits
      /\ SeqEnd(b, n) \in Nat /\ SeqEnd(b, n) >= LitsEnd(b, n.lits)
  BY SequenceIs
<1> DEFINE x == SeqEnd(b, n)
           y == LitsEnd(b, n.lits)
           z == LitsAt(b, n.lits)
           l == n.lits
<1> HIDE DEF x, y, z, l
<1>2. x \in Nat /\ y \in Nat /\ z \in Nat /\ l \in Nat /\ x >= y /\ y = z + l /\ z > b
  BY <1>1 DEF x, y, z, l
<1>3. x > b
  BY <1>2
<1> QED BY <1>2, <1>3 DEF x

(* A run, and a sequence, is in every block that is the same so far.       *)
SameBetween(d, d2, f, e) == e <= Len(d2) /\ \A k \in f + 1 .. e : d2[k] = d[k]
SameUpTo(d, d2, e) == e <= Len(d2) /\ \A k \in 1 .. e : d2[k] = d[k]

LEMMA SameInside ==
  ASSUME NEW d, NEW d2, NEW f \in Nat, NEW e \in Nat, SameUpTo(d, d2, e)
  PROVE  SameBetween(d, d2, f, e)
<1>1. \A k \in f + 1 .. e : k \in 1 .. e
  OBVIOUS
<1> QED BY <1>1 DEF SameUpTo, SameBetween

LEMMA HoldsSame ==
  ASSUME NEW d, NEW d2, NEW f \in Nat, NEW e \in Nat, SameBetween(d, d2, f, e), Len(d2) \in Nat,
         NEW p \in Nat, NEW u, Len(u) \in Nat, Holds(d, p, u), f <= p, p + Len(u) <= e
  PROVE  Holds(d2, p, u)
<1>1. \A k \in 1 .. Len(u) : p + k \in f + 1 .. e
  OBVIOUS
<1>2. \A k \in 1 .. Len(u) : d2[p + k] = u[k]
  BY <1>1 DEF SameBetween, Holds
<1>3. p + Len(u) <= Len(d2)
  BY DEF SameBetween
<1> QED BY <1>2, <1>3 DEF Holds

LEMMA RunSame ==
  ASSUME NEW s, NEW d, NEW d2, NEW b \in Nat, NEW e \in Nat, SameBetween(d, d2, b + 1, e),
         Len(d2) \in Nat, NEW out \in Nat, NEW lits \in Nat, StoredRun(s, d, b, out, lits),
         LitsEnd(b, lits) <= e
  PROVE  StoredRun(s, d2, b, out, lits)
<1> DEFINE more == MoreLength(lits, RUN_MASK)
           a    == LitsAt(b, lits)
<1>1. Len(more) \in Nat /\ Len(more) = MoreBytes(lits, RUN_MASK)
  <2>1. RUN_MASK \in Nat
    BY FormatFacts
  <2> QED BY <2>1, MoreLengthIs
<1>2. a = b + 1 + Len(more) /\ a \in Nat /\ LitsEnd(b, lits) = a + lits
  BY <1>1 DEF LitsAt, LitsEnd
<1>3. Holds(d, b + 1, more) /\ \A k \in 1 .. lits : d[a + k] = s[out + k]
  BY DEF StoredRun
<1> HIDE DEF more, a
<1>4. b + 1 + Len(more) <= e /\ \A k \in 1 .. lits : a + k \in b + 2 .. e
  <2> DEFINE m == Len(more)
  <2>1. m \in Nat /\ a \in Nat /\ a = b + 1 + m /\ a + lits <= e
    BY <1>1, <1>2
  <2> HIDE DEF m
  <2>2. b + 1 + m <= e
    BY ONLY <2>1, b \in Nat, e \in Nat, lits \in Nat
  <2>3. \A k \in 1 .. lits : a + k \in b + 2 .. e
    BY ONLY <2>1, b \in Nat, e \in Nat, lits \in Nat
  <2> QED BY <2>2, <2>3 DEF m
<1>5. Holds(d2, b + 1, more)
  <2> DEFINE p == b + 1
  <2>1. /\ p \in Nat /\ p <= p /\ Len(more) \in Nat /\ p + Len(more) <= e /\ Len(d2) \in Nat
        /\ Holds(d, p, more) /\ SameBetween(d, d2, p, e) /\ e \in Nat
    BY <1>1, <1>3, <1>4
  <2> HIDE DEF p
  <2>2. Holds(d2, p, more)
    BY ONLY <2>1, HoldsSame
  <2> QED BY <2>2 DEF p
<1>6. \A k \in 1 .. lits : d2[a + k] = s[out + k]
  <2>1. \A k \in b + 2 .. e : d2[k] = d[k]
    BY DEF SameBetween
  <2> QED BY <1>3, <1>4, <2>1
<1>7. LitsEnd(b, lits) <= Len(d2)
  BY <1>2 DEF SameBetween
<1> QED BY <1>5, <1>6, <1>7 DEF StoredRun, more, a

LEMMA StoredSame ==
  ASSUME NEW s, NEW d, NEW d2, NEW e \in Nat, SameUpTo(d, d2, e), Len(d2) \in Nat,
         NEW b \in Nat, NEW n, Sound(s, n), Stored(s, d, b, n), SeqEnd(b, n) <= e
  PROVE  Stored(s, d2, b, n)
<1>1. /\ n.out \in Nat /\ n.lits \in Nat /\ n.length \in Nat /\ n.offset \in Nat
      /\ LitsAt(b, n.lits) \in Nat /\ LitsAt(b, n.lits) > b
      /\ LitsEnd(b, n.lits) \in Nat /\ LitsEnd(b, n.lits) = LitsAt(b, n.lits) + n.lits
      /\ SeqEnd(b, n) >= LitsEnd(b, n.lits) /\ SeqEnd(b, n) \in Nat
  BY SequenceIs
<1>2. StoredRun(s, d2, b, n.out, n.lits)
  <2>1. SameBetween(d, d2, b + 1, e)
    BY SameInside
  <2>2. LitsEnd(b, n.lits) <= e
    BY <1>1
  <2> QED BY <1>1, <2>1, <2>2, RunSame DEF Stored
<1>3. d2[b + 1] = d[b + 1]
  <2>1. b + 1 \in 1 .. e
    BY <1>1
  <2> QED BY <2>1 DEF SameUpTo
<1>4. ASSUME n.length # 0 PROVE StoredMatch(d2, LitsEnd(b, n.lits), n)
  <2> DEFINE p    == LitsEnd(b, n.lits)
             u    == LE16(n.offset)
             more == MoreLength(n.length - MINMATCH, ML_MASK)
  <2>0. SameBetween(d, d2, 0, e)
    BY SameInside
  <2>1. Len(more) \in Nat /\ Len(more) = MoreBytes(n.length - MINMATCH, ML_MASK)
    <3>1. n.length - MINMATCH \in Nat
      BY <1>4, SequenceIs
    <3>2. ML_MASK \in Nat
      BY FormatFacts
    <3> QED BY <3>1, <3>2, MoreLengthIs
  <2>2. Len(u) = 2
    BY DEF LE16
  <2>3. SeqEnd(b, n) = p + 2 + Len(more) /\ p \in Nat
    BY <1>1, <1>4, <2>1 DEF SeqEnd
  <2>4. Holds(d, p, u) /\ Holds(d, p + 2, more)
    BY <1>4 DEF Stored, StoredMatch
  <2> HIDE DEF p, u, more
  <2>5. p + Len(u) <= e /\ p + 2 + Len(more) <= e /\ p + 2 \in Nat
    BY <2>1, <2>2, <2>3
  <2>6. Holds(d2, p, u)
    <3>1. Len(u) \in Nat /\ p \in Nat /\ p + Len(u) <= e /\ Holds(d, p, u)
      BY <2>2, <2>3, <2>4, <2>5
    <3> QED BY <2>0, <3>1, HoldsSame
  <2>7. Holds(d2, p + 2, more)
    <3>1. Len(more) \in Nat /\ p + 2 \in Nat /\ p + 2 + Len(more) <= e /\ Holds(d, p + 2, more)
      BY <2>1, <2>3, <2>4, <2>5
    <3> QED BY <2>0, <3>1, HoldsSame
  <2> QED BY <2>6, <2>7 DEF StoredMatch, p, u, more
<1> QED BY <1>2, <1>3, <1>4 DEF Stored

(* The block may go on.                                                    *)
LEMMA WrittenLonger ==
  ASSUME NEW s, NEW d, NEW d2, NEW mark, NEW end \in Nat, NEW reach,
         Written(s, d, mark, end, reach), Len(d2) \in Nat, SameUpTo(d, d2, end)
  PROVE  Written(s, d2, mark, end, reach)
<1>1. \A b \in DOMAIN mark : Stored(s, d2, b, mark[b])
  <2> SUFFICES ASSUME NEW b \in DOMAIN mark PROVE Stored(s, d2, b, mark[b])
    OBVIOUS
  <2>1. b \in Nat /\ Sound(s, mark[b]) /\ Stored(s, d, b, mark[b]) /\ SeqEnd(b, mark[b]) <= end
    BY DEF Written
  <2> QED BY <2>1, StoredSame
<1> QED BY <1>1 DEF Written

(* Nothing is written yet.                                                 *)
LEMMA WrittenNothing ==
  ASSUME NEW s, NEW d
  PROVE  Written(s, d, [b \in {} |-> 0], 0, 0)
  BY DEF Written, Continues

(* A sequence with a match is written next.                                *)
LEMMA WrittenNext ==
  ASSUME NEW s, NEW d, NEW mark, NEW end \in Nat, NEW reach,
         Written(s, d, mark, end, reach), NEW n, Sound(s, n), Stored(s, d, end, n),
         n.length # 0, n.out = reach
  PROVE  \E more : Written(s, d, more, SeqEnd(end, n), Reach(n))
<1> DEFINE more == [b \in DOMAIN mark \cup {end} |-> IF b = end THEN n ELSE mark[b]]
           end2 == SeqEnd(end, n)
<1>1. end2 \in Nat /\ end2 > end
  BY SequenceIs
<1>2. /\ DOMAIN more = DOMAIN mark \cup {end} /\ more[end] = n
      /\ \A b \in DOMAIN mark : b # end => more[b] = mark[b]
  OBVIOUS
<1>3. \A b \in DOMAIN mark : /\ b \in Nat /\ mark[b].length # 0 /\ SeqEnd(b, mark[b]) <= end
                             /\ Sound(s, mark[b]) /\ Stored(s, d, b, mark[b])
                             /\ Continues(mark, end, reach, SeqEnd(b, mark[b]), Reach(mark[b]))
  BY DEF Written
<1>4. \A b \in DOMAIN mark : b < end /\ b # end /\ b # end2
  <2> SUFFICES ASSUME NEW b \in DOMAIN mark PROVE b < end
    BY <1>1, <1>3
  <2>1. SeqEnd(b, mark[b]) \in Nat /\ SeqEnd(b, mark[b]) > b
    <3> DEFINE x == mark[b]
    <3>1. b \in Nat /\ Sound(s, x)
      BY <1>3
    <3> HIDE DEF x
    <3>2. SeqEnd(b, x) \in Nat /\ SeqEnd(b, x) > b
      BY <3>1, SequenceAfter
    <3> QED BY <3>2 DEF x
  <2> QED BY <1>3, <2>1
<1> HIDE DEF more, end2
<1>5. ASSUME NEW b, NEW out, Continues(mark, end, reach, b, out)
      PROVE  Continues(more, end2, Reach(n), b, out)
  <2>1. CASE b = end
    BY <1>1, <1>2, <1>5, <2>1 DEF Continues
  <2>2. CASE b # end
    <3>1. b \in DOMAIN mark /\ mark[b].out = out
      BY <1>5, <2>2 DEF Continues
    <3> QED BY <1>2, <1>4, <3>1 DEF Continues
  <2> QED BY <2>1, <2>2
<1>6. ASSUME NEW b \in DOMAIN more
      PROVE  /\ b \in Nat /\ more[b].length # 0 /\ SeqEnd(b, more[b]) <= end2
             /\ Sound(s, more[b]) /\ Stored(s, d, b, more[b])
             /\ Continues(more, end2, Reach(n), SeqEnd(b, more[b]), Reach(more[b]))
  <2>1. CASE b = end
    <3>1. Continues(more, end2, Reach(n), end2, Reach(n))
      BY DEF Continues
    <3> QED BY <1>1, <1>2, <2>1, <3>1 DEF end2
  <2>2. CASE b # end
    <3>1. b \in DOMAIN mark /\ more[b] = mark[b]
      BY <1>2, <1>6, <2>2
    <3>2. SeqEnd(b, mark[b]) \in Nat
      BY <1>3, <3>1, SequenceIs
    <3>3. Continues(more, end2, Reach(n), SeqEnd(b, mark[b]), Reach(mark[b]))
      BY <1>3, <1>5, <3>1
    <3> QED BY <1>1, <1>3, <3>1, <3>2, <3>3
  <2> QED BY <2>1, <2>2
<1>7. Continues(more, end2, Reach(n), 0, 0)
  <2>1. Continues(mark, end, reach, 0, 0)
    BY DEF Written
  <2> QED BY <1>5, <2>1
<1>8. Reach(n) > 0
  <2>1. /\ n.length \in Nat /\ n.out \in Nat /\ n.lits \in Nat
        /\ Reach(n) = Covers(n) + n.length /\ Covers(n) \in Nat
    BY SequenceIs
  <2> QED BY <2>1
<1>9. Written(s, d, more, end2, Reach(n))
  BY <1>6, <1>7, <1>8 DEF Written
<1> QED BY <1>9 DEF end2

-----------------------------------------------------------------------------
(* Writing a sequence *)

LEMMA ThreeParts ==
  ASSUME NEW a \in Seq(Bytes), NEW b \in Seq(Bytes), NEW c \in Seq(Bytes), NEW d, d = (a \o b) \o c
  PROVE  /\ d \in Seq(Bytes) /\ Len(d) = Len(a) + Len(b) + Len(c)
         /\ \A k \in 1 .. Len(a) : d[k] = a[k]
         /\ \A k \in 1 .. Len(b) : d[Len(a) + k] = b[k]
         /\ \A k \in 1 .. Len(c) : d[Len(a) + Len(b) + k] = c[k]
<1> DEFINE e == a \o b
           m == Len(a)
           n == Len(b)
<1>1. /\ m \in Nat /\ n \in Nat /\ e \in Seq(Bytes) /\ Len(e) = m + n
      /\ \A k \in 1 .. m : e[k] = a[k]
      /\ \A k \in 1 .. n : e[m + k] = b[k]
  BY ConcatIs
<1>2. d = e \o c
  OBVIOUS
<1> HIDE DEF e
<1>3. /\ d \in Seq(Bytes) /\ Len(d) = Len(e) + Len(c) /\ Len(c) \in Nat
      /\ \A k \in 1 .. Len(e) : d[k] = e[k]
      /\ \A k \in 1 .. Len(c) : d[Len(e) + k] = c[k]
  <2>1. e \in Seq(Bytes)
    BY <1>1
  <2>2. /\ e \o c \in Seq(Bytes) /\ Len(e \o c) = Len(e) + Len(c) /\ Len(c) \in Nat
        /\ \A k \in 1 .. Len(e) : (e \o c)[k] = e[k]
        /\ \A k \in 1 .. Len(c) : (e \o c)[Len(e) + k] = c[k]
    BY ONLY <2>1, c \in Seq(Bytes), ConcatIs
  <2> QED BY ONLY <1>2, <2>2
<1> HIDE DEF m, n
<1>4. \A k \in 1 .. m : k \in 1 .. Len(e)
  BY <1>1
<1>5. \A k \in 1 .. n : m + k \in 1 .. Len(e)
  BY <1>1
<1>6. \A k \in 1 .. m : d[k] = a[k]
  BY <1>1, <1>3, <1>4
<1>7. \A k \in 1 .. n : d[m + k] = b[k]
  BY <1>1, <1>3, <1>5
<1>8. \A k \in 1 .. Len(c) : d[m + n + k] = c[k]
  BY <1>1, <1>3
<1> QED BY <1>1, <1>3, <1>6, <1>7, <1>8 DEF m, n

(* The token and the bytes behind it. *)
LiteralHead(lits) == <<LiteralToken(lits)>> \o MoreLength(lits, RUN_MASK)

LEMMA LiteralHeadIs ==
  ASSUME NEW lits \in Nat
  PROVE  /\ LiteralHead(lits) \in Seq(Bytes)
         /\ Len(MoreLength(lits, RUN_MASK)) \in Nat
         /\ Len(MoreLength(lits, RUN_MASK)) = MoreBytes(lits, RUN_MASK)
         /\ Len(LiteralHead(lits)) = 1 + Len(MoreLength(lits, RUN_MASK))
         /\ LiteralHead(lits)[1] = LiteralToken(lits)
         /\ \A k \in 1 .. Len(MoreLength(lits, RUN_MASK)) :
              LiteralHead(lits)[1 + k] = MoreLength(lits, RUN_MASK)[k]
<1> DEFINE t    == <<LiteralToken(lits)>>
           more == MoreLength(lits, RUN_MASK)
           head == LiteralHead(lits)
<1>1. RUN_MASK \in Nat
  BY FormatFacts
<1>2. more \in Seq(Bytes) /\ Len(more) \in Nat /\ Len(more) = MoreBytes(lits, RUN_MASK)
  BY <1>1, MoreLengthIs
<1>3. t \in Seq(Bytes) /\ Len(t) = 1 /\ t[1] = LiteralToken(lits)
  BY LiteralTokenIs
<1>4. head = t \o more
  BY DEF LiteralHead
<1> HIDE DEF t, more, head
<1>5. /\ head \in Seq(Bytes) /\ Len(head) = Len(t) + Len(more)
      /\ \A k \in 1 .. Len(t) : head[k] = t[k]
      /\ \A k \in 1 .. Len(more) : head[Len(t) + k] = more[k]
  BY ONLY <1>2, <1>3, <1>4, ConcatIs
<1>6. 1 \in 1 .. Len(t)
  BY <1>3
<1>7. head[1] = LiteralToken(lits) /\ \A k \in 1 .. Len(more) : head[1 + k] = more[k]
  BY <1>3, <1>5, <1>6
<1> QED BY <1>2, <1>3, <1>5, <1>7 DEF more, head

(* A run of literals at the end of the block.                              *)
WithRun(s, d, out, lits) == (d \o LiteralHead(lits)) \o SubSeq(s, out + 1, out + lits)

RunAdded(s, d, out, lits, d2) ==
  /\ d2 \in Seq(Bytes) /\ Len(d2) = LitsEnd(Len(d), lits) /\ Len(d) + 1 \in 1 .. Len(d2)
  /\ \A k \in 1 .. Len(d) : d2[k] = d[k]
  /\ d2[Len(d) + 1] = LiteralToken(lits)
  /\ StoredRun(s, d2, Len(d), out, lits)

LEMMA RunStored ==
  ASSUME NEW s \in Seq(Bytes), NEW d \in Seq(Bytes), NEW out \in Nat, NEW lits \in Nat,
         out + lits <= Len(s), NEW d2, d2 = WithRun(s, d, out, lits)
  PROVE  RunAdded(s, d, out, lits, d2)
<1> DEFINE head == LiteralHead(lits)
           part == SubSeq(s, out + 1, out + lits)
           more == MoreLength(lits, RUN_MASK)
           b    == Len(d)
<1>1. /\ head \in Seq(Bytes) /\ Len(more) \in Nat /\ Len(more) = MoreBytes(lits, RUN_MASK)
      /\ Len(head) = 1 + Len(more) /\ head[1] = LiteralToken(lits)
      /\ \A k \in 1 .. Len(more) : head[1 + k] = more[k]
  BY LiteralHeadIs
<1>2. part \in Seq(Bytes) /\ Len(part) = lits /\ \A k \in 1 .. lits : part[k] = s[out + k]
  BY PartOf
<1>3. d2 = (d \o head) \o part
  BY DEF WithRun
<1>4. b \in Nat
  OBVIOUS
<1>5. LitsAt(b, lits) = b + 1 + Len(more) /\ LitsEnd(b, lits) = b + 1 + Len(more) + lits
  BY <1>1 DEF LitsAt, LitsEnd
<1> HIDE DEF head, part, more
<1>6. /\ d2 \in Seq(Bytes) /\ Len(d2) = Len(d) + Len(head) + Len(part)
      /\ \A k \in 1 .. Len(d) : d2[k] = d[k]
      /\ \A k \in 1 .. Len(head) : d2[Len(d) + k] = head[k]
      /\ \A k \in 1 .. Len(part) : d2[Len(d) + Len(head) + k] = part[k]
  <2>1. head \in Seq(Bytes) /\ part \in Seq(Bytes)
    BY <1>1, <1>2
  <2> QED BY ONLY <1>3, <2>1, d \in Seq(Bytes), ThreeParts
<1> HIDE DEF b
<1>7. /\ d2 \in Seq(Bytes) /\ Len(d2) = b + (1 + Len(more)) + lits
      /\ \A k \in 1 .. b : d2[k] = d[k]
      /\ \A k \in 1 .. 1 + Len(more) : d2[b + k] = head[k]
      /\ \A k \in 1 .. lits : d2[b + (1 + Len(more)) + k] = s[out + k]
  <2>1. Len(head) = 1 + Len(more) /\ Len(part) = lits /\ Len(d) = b
    BY <1>1, <1>2 DEF b
  <2>2. /\ d2 \in Seq(Bytes) /\ Len(d2) = b + (1 + Len(more)) + lits
        /\ \A k \in 1 .. b : d2[k] = d[k]
        /\ \A k \in 1 .. 1 + Len(more) : d2[b + k] = head[k]
        /\ \A k \in 1 .. lits : d2[b + (1 + Len(more)) + k] = part[k]
    BY ONLY <1>6, <2>1
  <2> QED BY ONLY <1>2, <2>2
<1>8. Len(d2) = LitsEnd(b, lits) /\ b + 1 \in 1 .. Len(d2)
  BY <1>1, <1>4, <1>5, <1>7
<1>9. d2[b + 1] = LiteralToken(lits)
  <2>1. 1 \in 1 .. 1 + Len(more)
    BY <1>1
  <2> QED BY <1>1, <1>7, <2>1
<1>10. Holds(d2, b + 1, more)
  <2>1. b + 1 + Len(more) <= Len(d2)
    BY <1>1, <1>4, <1>7
  <2>2. ASSUME NEW k \in 1 .. Len(more) PROVE d2[b + 1 + k] = more[k]
    <3>1. 1 + k \in 1 .. 1 + Len(more) /\ b + 1 + k = b + (1 + k)
      BY <1>1, <1>4
    <3> QED BY <1>1, <1>7, <3>1
  <2> QED BY <2>1, <2>2 DEF Holds
<1>11. \A k \in 1 .. lits : d2[LitsAt(b, lits) + k] = s[out + k]
  <2>1. LitsAt(b, lits) = b + (1 + Len(more))
    BY <1>1, <1>4, <1>5
  <2> QED BY <1>7, <2>1
<1>12. LitsEnd(b, lits) <= Len(d2)
  <2>1. Len(d2) \in Nat
    BY <1>1, <1>4, <1>7
  <2> QED BY <1>8, <2>1
<1>13. StoredRun(s, d2, b, out, lits)
  BY <1>10, <1>11, <1>12 DEF StoredRun, more
<1> QED BY <1>7, <1>8, <1>9, <1>13 DEF b, RunAdded

(* A match completes the token of its sequence and follows its literals.   *)
WithMatch(d, b, offset, code) ==
  ([d EXCEPT ![b + 1] = @ + Min({code, ML_MASK})] \o LE16(offset)) \o MoreLength(code, ML_MASK)

MatchAdded(s, d, b, n, d2) ==
  /\ d2 \in Seq(Bytes) /\ Len(d2) = SeqEnd(b, n)
  /\ SameUpTo(d, d2, b)
  /\ Stored(s, d2, b, n)

LEMMA TokenFilled ==
  ASSUME NEW d \in Seq(Bytes), NEW b \in Nat, b + 1 <= Len(d), NEW lits \in Nat,
         d[b + 1] = LiteralToken(lits), NEW code \in Nat
  PROVE  LET filled == [d EXCEPT ![b + 1] = @ + Min({code, ML_MASK})]
         IN  /\ filled \in Seq(Bytes) /\ Len(filled) = Len(d)
             /\ filled[b + 1] = LiteralToken(lits) + Min({code, ML_MASK})
             /\ \A k \in 1 .. Len(d) : k # b + 1 => filled[k] = d[k]
<1> DEFINE x      == d[b + 1] + Min({code, ML_MASK})
           filled == [d EXCEPT ![b + 1] = @ + Min({code, ML_MASK})]
<1>1. ML_MASK \in Nat
  BY FormatFacts
<1>2. PICK n \in 0 .. RUN_MASK : d[b + 1] = n * (ML_MASK + 1)
  BY LiteralTokenIs
<1>3. Min({code, ML_MASK}) \in 0 .. ML_MASK
  BY <1>1, MinOfTwo
<1>4. x \in Bytes
  BY <1>2, <1>3, TokenIsByte
<1>5. b + 1 \in 1 .. Len(d)
  OBVIOUS
<1>6. filled = [d EXCEPT ![b + 1] = x]
  OBVIOUS
<1>7. x = LiteralToken(lits) + Min({code, ML_MASK})
  OBVIOUS
<1> HIDE DEF x, filled
<1>8. filled \in Seq(Bytes) /\ Len(filled) = Len(d)
      /\ \A k \in 1 .. Len(d) : filled[k] = IF k = b + 1 THEN x ELSE d[k]
  <2> HIDE <1>2
  <2> QED BY <1>4, <1>5, <1>6, ExceptSeq
<1>9. filled[b + 1] = x /\ \A k \in 1 .. Len(d) : k # b + 1 => filled[k] = d[k]
  BY <1>5, <1>8
<1> QED BY <1>7, <1>8, <1>9 DEF filled

LEMMA MatchStored ==
  ASSUME NEW s, NEW d \in Seq(Bytes), NEW b \in Nat, NEW n, Sound(s, n), n.length # 0,
         d[b + 1] = LiteralToken(n.lits), StoredRun(s, d, b, n.out, n.lits),
         LitsEnd(b, n.lits) = Len(d), NEW code, code = n.length - MINMATCH,
         NEW d2, d2 = WithMatch(d, b, n.offset, code)
  PROVE  MatchAdded(s, d, b, n, d2)
<1> DEFINE filled == [d EXCEPT ![b + 1] = @ + Min({code, ML_MASK})]
           u      == LE16(n.offset)
           more   == MoreLength(code, ML_MASK)
           e      == Len(d)
<1>1. /\ n.out \in Nat /\ n.lits \in Nat /\ n.length \in Nat /\ n.offset \in Nat
      /\ LitsAt(b, n.lits) \in Nat /\ LitsAt(b, n.lits) > b
      /\ LitsEnd(b, n.lits) \in Nat /\ LitsEnd(b, n.lits) = LitsAt(b, n.lits) + n.lits
      /\ n.length # 0 => n.length - MINMATCH \in Nat
  BY SequenceIs
<1>2. code \in Nat /\ ML_MASK \in Nat /\ e \in Nat
  BY <1>1, FormatFacts
<1>3. b + 1 <= e
  <2> DEFINE x == LitsAt(b, n.lits)
             l == n.lits
  <2>1. x \in Nat /\ x > b /\ e = x + l /\ l \in Nat
    BY <1>1
  <2> HIDE DEF x, l, e
  <2> QED BY <1>2, <2>1
<1>4. /\ filled \in Seq(Bytes) /\ Len(filled) = e
      /\ filled[b + 1] = LiteralToken(n.lits) + Min({code, ML_MASK})
      /\ \A k \in 1 .. e : k # b + 1 => filled[k] = d[k]
  <2> DEFINE l == n.lits
  <2>1. l \in Nat /\ code \in Nat /\ d[b + 1] = LiteralToken(l) /\ b + 1 <= Len(d)
    BY <1>1, <1>2, <1>3
  <2> HIDE DEF l
  <2>2. LET full == [d EXCEPT ![b + 1] = @ + Min({code, ML_MASK})]
        IN  /\ full \in Seq(Bytes) /\ Len(full) = Len(d)
            /\ full[b + 1] = LiteralToken(l) + Min({code, ML_MASK})
            /\ \A k \in 1 .. Len(d) : k # b + 1 => full[k] = d[k]
    BY ONLY <2>1, d \in Seq(Bytes), b \in Nat, TokenFilled
  <2> QED BY <2>2 DEF l
<1>5. u \in Seq(Bytes) /\ Len(u) = 2
  <2>1. n.offset < Base * Base
    BY DEF Sound, SoundMatch
  <2> QED BY <1>1, <2>1, LE16Is
<1>6. more \in Seq(Bytes) /\ Len(more) = MoreBytes(code, ML_MASK) /\ Len(more) \in Nat
  BY <1>2, MoreLengthIs
<1>7. d2 = (filled \o u) \o more
  BY DEF WithMatch
<1>8. SeqEnd(b, n) = e + 2 + Len(more)
  BY <1>6 DEF SeqEnd
<1>9. Code(n) = Min({code, ML_MASK})
  BY DEF Code
<1> HIDE DEF filled, u, more, e
<1>10. /\ d2 \in Seq(Bytes) /\ Len(d2) = Len(filled) + Len(u) + Len(more)
       /\ \A k \in 1 .. Len(filled) : d2[k] = filled[k]
       /\ \A k \in 1 .. Len(u) : d2[Len(filled) + k] = u[k]
       /\ \A k \in 1 .. Len(more) : d2[Len(filled) + Len(u) + k] = more[k]
  <2>1. filled \in Seq(Bytes) /\ u \in Seq(Bytes) /\ more \in Seq(Bytes)
    BY <1>4, <1>5, <1>6
  <2> QED BY ONLY <1>7, <2>1, ThreeParts
<1>11. /\ d2 \in Seq(Bytes) /\ Len(d2) = e + 2 + Len(more)
       /\ \A k \in 1 .. e : d2[k] = filled[k]
       /\ \A k \in 1 .. 2 : d2[e + k] = u[k]
       /\ \A k \in 1 .. Len(more) : d2[e + 2 + k] = more[k]
  BY ONLY <1>4, <1>5, <1>10
<1>12. Len(d2) = SeqEnd(b, n)
  BY <1>8, <1>11
<1>13. \A k \in 1 .. e : k # b + 1 => d2[k] = d[k]
  BY <1>4, <1>11
<1>14. e <= Len(d2)
  BY <1>2, <1>6, <1>11
<1>15. SameUpTo(d, d2, b)
  <2>1. \A k \in 1 .. b : k \in 1 .. e /\ k # b + 1
    BY <1>2, <1>3
  <2>2. b <= Len(d2)
    BY <1>2, <1>3, <1>6, <1>11
  <2> QED BY <1>13, <2>1, <2>2 DEF SameUpTo
<1>16. StoredRun(s, d2, b, n.out, n.lits)
  <2>1. SameBetween(d, d2, b + 1, e)
    <3>1. \A k \in b + 1 + 1 .. e : k \in 1 .. e /\ k # b + 1
      BY <1>2
    <3> QED BY <1>13, <1>14, <3>1 DEF SameBetween
  <2>2. Len(d2) \in Nat /\ LitsEnd(b, n.lits) <= e
    BY <1>2, <1>6, <1>11 DEF e
  <2> QED BY <1>1, <1>2, <2>1, <2>2, RunSame
<1>17. d2[b + 1] = LiteralToken(n.lits) + Code(n)
  <2>1. b + 1 \in 1 .. e
    BY <1>2, <1>3
  <2> QED BY <1>4, <1>9, <1>11, <2>1
<1>18. StoredMatch(d2, LitsEnd(b, n.lits), n)
  <2>1. Holds(d2, e, u)
    <3>1. e + Len(u) <= Len(d2)
      BY <1>2, <1>5, <1>6, <1>11
    <3> QED BY <1>5, <1>11, <3>1 DEF Holds
  <2>2. Holds(d2, e + 2, more)
    <3>1. e + 2 + Len(more) <= Len(d2)
      BY <1>2, <1>6, <1>11
    <3> QED BY <1>11, <3>1 DEF Holds
  <2>3. LitsEnd(b, n.lits) = e
    BY DEF e
  <2> QED BY <2>1, <2>2, <2>3 DEF StoredMatch, u, more
<1> QED BY <1>11, <1>12, <1>15, <1>16, <1>17, <1>18 DEF MatchAdded, Stored

-----------------------------------------------------------------------------
(* What has been written *)

(* The bytes counted agree.                                                *)
LEMMA CountAgrees ==
  ASSUME NEW p \in Nat, NEW q \in Nat, NEW limit \in Nat, p <= limit
  PROVE  count(p, q, limit) \in 0 .. limit - p /\ SameBytes(p, q, count(p, q, limit))
<1> DEFINE F == {k \in 0 .. limit - p - 1 : At(p + k) # At(q + k)}
           c == FirstFailure(limit - p, F)
<1>1. limit - p \in Nat /\ F \subseteq 0 .. (limit - p) - 1
  OBVIOUS
<1>2. c \in 0 .. limit - p /\ \A k \in 0 .. c - 1 : k \notin F
  <2> HIDE DEF F
  <2> QED BY <1>1, FirstFailureIs
<1>3. count(p, q, limit) = c
  BY DEF count
<1> HIDE DEF c
<1>4. ASSUME NEW k \in 1 .. c PROVE src[p + k] = src[q + k]
  <2>1. k - 1 \in 0 .. c - 1 /\ k - 1 \in 0 .. limit - p - 1
    BY <1>2
  <2>2. At(p + (k - 1)) = At(q + (k - 1))
    BY <1>2, <2>1
  <2>3. p + (k - 1) + 1 = p + k /\ q + (k - 1) + 1 = q + k
    OBVIOUS
  <2> QED BY <2>2, <2>3 DEF At
<1> QED BY <1>2, <1>3, <1>4 DEF SameBytes

(* A match agrees over all its length.                                     *)
LEMMA MatchAgrees ==
  ASSUME Positions, pc = "match"
  PROVE  SameBytes(ip, match, MatchCode + MINMATCH)
<1>1. /\ ip \in Nat /\ match \in Nat /\ match < ip /\ ip + MFLIMIT <= inputSize
      /\ read32(match) = read32(ip) /\ inputSize \in Nat /\ src \in Seq(Bytes)
      /\ matchlimit = inputSize - LASTLITERALS
  BY PositionFacts DEF Positions
<1>2. /\ MINMATCH \in Nat \ {0} /\ LASTLITERALS \in Nat /\ MFLIMIT \in Nat
      /\ LASTLITERALS + MINMATCH <= MFLIMIT
  BY FormatFacts
<1>3. SameBytes(match, ip, MINMATCH)
  <2>1. match + MINMATCH <= inputSize /\ ip + MINMATCH <= inputSize
    BY <1>1, <1>2
  <2> QED BY <1>1, <2>1, SameWords
<1> DEFINE p == ip + MINMATCH
           q == match + MINMATCH
           c == MatchCode
<1>4. p \in Nat /\ q \in Nat /\ matchlimit \in Nat /\ p <= matchlimit
  BY <1>1, <1>2
<1>5. c = count(p, q, matchlimit)
  BY DEF MatchCode
<1> HIDE DEF c
<1>6. c \in Nat /\ SameBytes(p, q, c)
  <2> HIDE DEF p, q
  <2>1. count(p, q, matchlimit) \in 0 .. matchlimit - p /\ SameBytes(p, q, count(p, q, matchlimit))
    BY <1>4, CountAgrees
  <2> QED BY <1>4, <1>5, <2>1
<1>7. ASSUME NEW k \in 1 .. c + MINMATCH PROVE src[ip + k] = src[match + k]
  <2>1. CASE k <= MINMATCH
    <3>1. k \in 1 .. MINMATCH
      BY <1>2, <1>6, <2>1
    <3> QED BY <1>3, <3>1 DEF SameBytes
  <2>2. CASE k > MINMATCH
    <3>1. k - MINMATCH \in 1 .. c
      BY <1>2, <1>6, <2>2
    <3>2. src[p + (k - MINMATCH)] = src[q + (k - MINMATCH)]
      BY <1>6, <3>1 DEF SameBytes
    <3>3. p + (k - MINMATCH) = ip + k /\ q + (k - MINMATCH) = match + k
      BY <1>1, <1>2, <1>6
    <3> QED BY <3>2, <3>3
  <2> QED BY <1>2, <1>6, <2>1, <2>2
<1> QED BY <1>7 DEF SameBytes, c

(* The block stands for what comes before reach.                           *)
Prefix(s, d, reach) == \E mark : Written(s, d, mark, Len(d), reach)

(* The last sequence, at b, has its literals and lacks a match.            *)
Open(s, d, b, out, lits) ==
  /\ b \in Nat
  /\ \E mark : Written(s, d, mark, b, out)
  /\ d[b + 1] = LiteralToken(lits) /\ StoredRun(s, d, b, out, lits)
  /\ LitsEnd(b, lits) = Len(d)

(* A block for the whole page, whose last sequence n at last is literals.  *)
Whole(s, d, mark, last, n) ==
  /\ Written(s, d, mark, last, n.out)
  /\ last \in Nat /\ Sound(s, n) /\ Stored(s, d, last, n) /\ n.length = 0
  /\ SeqEnd(last, n) = Len(d) /\ Reach(n) = Len(s)
  /\ last = 0 \/ n.lits >= LASTLITERALS

Complete(s, d) == \E mark, last, n : Whole(s, d, mark, last, n)

Tape ==
  /\ pc \in {"first", "search", "literals", "next", "last"} => Prefix(src, dest, anchor)
  /\ pc = "match" => Open(src, dest, token - 1, anchor, ip - anchor)
  /\ pc = "compressed" => Complete(src, dest)

LEMMA TapeInit == CompressInit => Tape
<1> SUFFICES ASSUME CompressInit PROVE Tape
  OBVIOUS
<1>1. dest = <<>> /\ anchor = 0 /\ pc = "first"
  BY DEF CompressInit
<1>2. Len(dest) = 0
  BY <1>1
<1>3. Prefix(src, dest, anchor)
  BY <1>1, <1>2, WrittenNothing DEF Prefix
<1> QED BY <1>1, <1>3 DEF Tape

(* A run of literals is written behind what there is.                      *)
LEMMA RunFollows ==
  ASSUME NEW s \in Seq(Bytes), NEW d \in Seq(Bytes), NEW out \in Nat, NEW lits \in Nat,
         Prefix(s, d, out), NEW d2, RunAdded(s, d, out, lits, d2)
  PROVE  Open(s, d2, Len(d), out, lits)
<1>1. PICK mark : Written(s, d, mark, Len(d), out)
  BY DEF Prefix
<1>2. /\ d2 \in Seq(Bytes) /\ Len(d2) = LitsEnd(Len(d), lits) /\ Len(d) + 1 \in 1 .. Len(d2)
      /\ \A k \in 1 .. Len(d) : d2[k] = d[k]
      /\ d2[Len(d) + 1] = LiteralToken(lits)
      /\ StoredRun(s, d2, Len(d), out, lits)
  BY DEF RunAdded
<1>3. Len(d) \in Nat /\ Len(d2) \in Nat
  BY <1>2, LenProperties
<1>4. SameUpTo(d, d2, Len(d))
  BY <1>2, <1>3 DEF SameUpTo
<1>5. Written(s, d2, mark, Len(d), out)
  BY <1>1, <1>3, <1>4, WrittenLonger
<1> QED BY <1>2, <1>3, <1>5 DEF Open

LEMMA EncodeLiteralsTape == Compressor /\ Tape /\ EncodeLiterals => Tape'
<1> SUFFICES ASSUME Compressor, Tape, EncodeLiterals PROVE Tape'
  OBVIOUS
<1>0. Searching /\ BlockTyped /\ pc = "literals"
  BY DEF Compressor, EncodeLiterals
<1>1. /\ src \in Seq(Bytes) /\ anchor \in Nat /\ ip \in Nat /\ ip <= inputSize
      /\ inputSize \in Nat /\ inputSize = Len(src)
  BY <1>0, PositionFacts DEF Searching
<1>2. PICK to \in anchor .. ip : to = ip'
  BY <1>0, EncodeLiteralsBlock
<1> DEFINE lits == to - anchor
<1>3. lits \in Nat /\ anchor + lits = to /\ anchor + lits <= Len(src)
  <2>1. to \in anchor .. ip
    BY <1>2
  <2> DEFINE size == Len(src)
  <2>2. size \in Nat /\ ip <= size
    BY <1>1
  <2> HIDE DEF size
  <2>3. to - anchor \in Nat /\ anchor + (to - anchor) = to /\ to <= size
    BY ONLY <1>1, <2>1, <2>2
  <2> QED BY ONLY <2>3 DEF size
<1>4. dest' = dest \o (<<LiteralToken(lits)>> \o MoreLength(lits, RUN_MASK)) \o Literals(anchor, to)
  BY <1>2 DEF EncodeLiterals
<1>5. dest' = WithRun(src, dest, anchor, lits)
  <2>1. Literals(anchor, to) = SubSeq(src, anchor + 1, anchor + lits)
    BY <1>3 DEF Literals
  <2> HIDE DEF lits
  <2> QED BY <1>4, <2>1 DEF WithRun, LiteralHead
<1>6. dest \in Seq(Bytes) /\ Prefix(src, dest, anchor)
  BY <1>0 DEF BlockTyped, Tape
<1> HIDE DEF lits
<1>7. RunAdded(src, dest, anchor, lits, dest')
  BY <1>1, <1>3, <1>5, <1>6, RunStored
<1>8. Open(src, dest', Len(dest), anchor, lits)
  BY <1>1, <1>3, <1>6, <1>7, RunFollows
<1>9. /\ pc' = "match" /\ src' = src /\ anchor' = anchor /\ token' - 1 = Len(dest)
      /\ ip' - anchor' = lits
  <2>1. pc' = "match" /\ src' = src /\ anchor' = anchor /\ token' = Len(dest) + 1
    BY DEF EncodeLiterals, op
  <2>2. Len(dest) \in Nat
    BY <1>6
  <2>3. Len(dest) + 1 - 1 = Len(dest)
    BY <2>2
  <2> QED BY <1>2, <2>1, <2>3 DEF lits
<1> QED BY <1>8, <1>9 DEF Tape

LEMMA EncodeMatchTape == Compressor /\ Tape /\ EncodeMatch => Tape'
<1> SUFFICES ASSUME Compressor, Tape, EncodeMatch PROVE Tape'
  OBVIOUS
<1>0. Searching /\ Positions /\ BlockTyped /\ pc = "match"
  BY DEF Compressor, Searching, EncodeMatch
<1> DEFINE code == MatchCode
           b    == token - 1
           n    == [out |-> anchor, lits |-> ip - anchor, length |-> code + MINMATCH,
                    offset |-> ip - match]
<1>1. /\ ip \in Nat /\ match \in Nat /\ match < ip /\ ip + MFLIMIT <= inputSize
      /\ inputSize \in Nat /\ src \in Seq(Bytes) /\ inputSize = Len(src)
      /\ anchor \in Nat /\ anchor <= ip /\ inputSize < Base * Base
  BY <1>0, PositionFacts DEF Positions
<1>2. /\ MINMATCH \in Nat \ {0} /\ LASTLITERALS \in Nat /\ MFLIMIT \in Nat /\ Base \in Nat
  BY FormatFacts
<1>3. code \in Nat /\ code <= inputSize - LASTLITERALS - ip - MINMATCH
  <2>1. code \in 0 .. inputSize - LASTLITERALS - ip - MINMATCH
    BY <1>0, MatchCodeRange
  <2> HIDE DEF code
  <2> QED BY <1>1, <1>2, <2>1
<1>4. SameBytes(ip, match, code + MINMATCH)
  BY <1>0, MatchAgrees
<1>5. /\ pc' \in {"last", "next"} /\ src' = src /\ anchor' = ip + code + MINMATCH
      /\ dest' = [dest EXCEPT ![token] = @ + Min({code, ML_MASK})]
                   \o LE16(ip - match) \o MoreLength(code, ML_MASK)
  BY DEF EncodeMatch
<1> HIDE DEF code
<1>6. /\ n.out = anchor /\ n.lits = ip - anchor /\ n.length = code + MINMATCH
      /\ n.offset = ip - match /\ n \in Node
  BY <1>1, <1>2, <1>3 DEF Node
<1> HIDE DEF n
<1>7. Covers(n) = ip /\ Reach(n) = ip + code + MINMATCH
  BY <1>1, <1>2, <1>3, <1>6 DEF Covers, Reach
<1>8. /\ n.length >= MINMATCH /\ n.length # 0 /\ 1 <= n.offset /\ n.offset <= Covers(n)
      /\ Covers(n) + MFLIMIT <= Len(src) /\ Reach(n) + LASTLITERALS <= Len(src)
      /\ Reach(n) <= Len(src)
  BY <1>1, <1>2, <1>3, <1>6, <1>7
<1>9. n.offset < Base * Base
  <2> DEFINE x == Base * Base
  <2>1. x \in Nat /\ inputSize < x
    BY <1>1, <1>2
  <2> HIDE DEF x
  <2>2. n.offset < x
    <3> DEFINE o == n.offset
    <3>1. o = ip - match /\ ip \in Nat /\ match \in Nat /\ ip <= inputSize /\ inputSize \in Nat
      BY <1>1, <1>6, PositionFacts, <1>0
    <3> HIDE DEF o
    <3>2. o < x
      BY ONLY <2>1, <3>1
    <3> QED BY <3>2 DEF o
  <2> QED BY <2>2 DEF x
<1>10. Repeats(src, Covers(n), n.offset, n.length)
  <2>1. \A k \in 1 .. n.length : src[ip + k] = src[match + k]
    BY <1>4, <1>6 DEF SameBytes
  <2>2. Covers(n) - n.offset = match
    BY <1>1, <1>6, <1>7
  <2> QED BY <1>7, <2>1, <2>2 DEF Repeats
<1>11. Sound(src, n)
  BY <1>6, <1>8, <1>9, <1>10 DEF Sound, SoundMatch
<1>12. /\ dest \in Seq(Bytes) /\ token \in Nat
       /\ Open(src, dest, b, anchor, ip - anchor)
  BY <1>0 DEF BlockTyped, Tape, op
<1>13. b + 1 = token
  BY <1>12
<1> HIDE DEF b
<1>14. PICK mark : Written(src, dest, mark, b, anchor)
  BY <1>12 DEF Open
<1>15. /\ b \in Nat /\ dest[b + 1] = LiteralToken(n.lits) /\ StoredRun(src, dest, b, n.out, n.lits)
       /\ LitsEnd(b, n.lits) = Len(dest)
  BY <1>6, <1>12 DEF Open
<1>16. code = n.length - MINMATCH
  BY <1>2, <1>3, <1>6
<1>17. dest' = WithMatch(dest, b, n.offset, code)
  BY <1>5, <1>6, <1>13 DEF WithMatch
<1>18. MatchAdded(src, dest, b, n, dest')
  BY <1>8, <1>11, <1>12, <1>15, <1>16, <1>17, MatchStored
<1>19. /\ dest' \in Seq(Bytes) /\ Len(dest') = SeqEnd(b, n)
       /\ SameUpTo(dest, dest', b) /\ Stored(src, dest', b, n)
  BY <1>18 DEF MatchAdded
<1>20. Written(src, dest', mark, b, anchor)
  BY <1>14, <1>15, <1>19, LenProperties, WrittenLonger
<1>21. \E more : Written(src, dest', more, SeqEnd(b, n), Reach(n))
  BY <1>6, <1>8, <1>11, <1>15, <1>19, <1>20, WrittenNext
<1>22. Prefix(src, dest', Reach(n))
  BY <1>19, <1>21 DEF Prefix
<1> QED BY <1>5, <1>7, <1>22 DEF Tape

(* A sequence without literals.                                            *)
LEMMA NoLiterals ==
  ASSUME NEW s, NEW d \in Seq(Bytes), NEW out \in Nat
  PROVE  RunAdded(s, d, out, 0, Append(d, 0))
<1> DEFINE b  == Len(d)
           d2 == Append(d, 0)
<1>1. RUN_MASK \in Nat \ {0} /\ ML_MASK \in Nat /\ 0 \in Bytes
  BY FormatFacts DEF Bytes
<1>2. d2 \in Seq(Bytes) /\ Len(d2) = b + 1 /\ d2[b + 1] = 0 /\ b \in Nat
      /\ \A k \in 1 .. b : d2[k] = d[k]
  BY <1>1, AppendProperties
<1>3. MoreLength(0, RUN_MASK) = <<>> /\ MoreBytes(0, RUN_MASK) = 0
  BY <1>1 DEF MoreLength, MoreBytes
<1>4. LitsAt(b, 0) = b + 1 /\ LitsEnd(b, 0) = b + 1
  BY <1>2, <1>3 DEF LitsAt, LitsEnd
<1>5. LiteralToken(0) = 0
  <2>1. Min({0, RUN_MASK}) = 0
    BY <1>1, MinOfTwo
  <2> QED BY <1>1, <2>1 DEF LiteralToken
<1> HIDE DEF b, d2
<1>6. Holds(d2, b + 1, <<>>)
  BY <1>2 DEF Holds
<1>7. StoredRun(s, d2, b, out, 0)
  BY <1>2, <1>3, <1>4, <1>6 DEF StoredRun
<1>8. b + 1 \in 1 .. Len(d2)
  BY <1>2
<1> QED BY <1>2, <1>4, <1>5, <1>7, <1>8 DEF RunAdded, b, d2

LEMMA TestNextPositionTape == Compressor /\ Tape /\ TestNextPosition => Tape'
<1> SUFFICES ASSUME Compressor, Tape, TestNextPosition PROVE Tape'
  OBVIOUS
<1>0. Searching /\ Positions /\ BlockTyped /\ pc = "next" /\ UNCHANGED <<src, ip, anchor>>
  BY DEF Compressor, Searching, TestNextPosition
<1>1. src \in Seq(Bytes) /\ anchor \in Nat /\ ip = anchor /\ dest \in Seq(Bytes)
      /\ Prefix(src, dest, anchor)
  BY <1>0, PositionFacts DEF Positions, BlockTyped, Tape
<1>2. CASE token' = op + 1 /\ dest' = Append(dest, 0) /\ pc' = "match"
  <2>1. RunAdded(src, dest, anchor, 0, dest')
    BY <1>1, <1>2, NoLiterals
  <2>2. Open(src, dest', Len(dest), anchor, 0)
    BY <1>1, <2>1, RunFollows
  <2>3. token' - 1 = Len(dest) /\ ip' - anchor' = 0
    BY <1>0, <1>1, <1>2 DEF op
  <2> QED BY <1>0, <1>2, <2>2, <2>3 DEF Tape
<1>3. CASE SearchFrom(ip + 1) /\ UNCHANGED <<match, token, dest, touched>>
  BY <1>0, <1>1, <1>3 DEF SearchFrom, Tape
<1> QED BY <1>2, <1>3 DEF TestNextPosition

LEMMA LastLiteralsTape == Compressor /\ Tape /\ LastLiterals => Tape'
<1> SUFFICES ASSUME Compressor, Tape, LastLiterals PROVE Tape'
  OBVIOUS
<1>0. Searching /\ Positions /\ BlockTyped /\ pc = "last" /\ pc' = "compressed" /\ src' = src
  BY DEF Compressor, Searching, LastLiterals
<1> DEFINE lits == inputSize - anchor
           n    == [out |-> anchor, lits |-> lits, length |-> 0, offset |-> 0]
           b    == Len(dest)
<1>1. /\ src \in Seq(Bytes) /\ anchor \in Nat /\ inputSize \in Nat /\ inputSize = Len(src)
      /\ anchor <= inputSize /\ (anchor = 0 \/ anchor + LASTLITERALS <= inputSize)
      /\ LASTLITERALS \in Nat
  <2>1. /\ src \in Seq(Bytes) /\ anchor \in Nat /\ inputSize \in Nat /\ Len(src) = inputSize
        /\ ip \in Nat /\ anchor <= ip /\ ip <= inputSize
    BY <1>0, PositionFacts
  <2>2. anchor <= inputSize
    BY <2>1
  <2>3. anchor = 0 \/ anchor + LASTLITERALS <= inputSize
    BY <1>0 DEF Positions
  <2> QED BY <2>1, <2>2, <2>3, FormatFacts
<1>2. dest \in Seq(Bytes) /\ b \in Nat /\ Prefix(src, dest, anchor)
  BY <1>0, LenProperties DEF BlockTyped, Tape
<1>3. lits \in Nat /\ anchor + lits = Len(src) /\ anchor + lits <= Len(src)
      /\ (anchor = 0 \/ lits >= LASTLITERALS)
  BY <1>1
<1>4. dest' = WithRun(src, dest, anchor, lits)
  <2> DEFINE t    == <<LiteralToken(lits)>>
             more == MoreLength(lits, RUN_MASK)
             part == Literals(anchor, inputSize)
  <2>1. dest' = ((dest \o t) \o more) \o part
    BY DEF LastLiterals
  <2>2. part = SubSeq(src, anchor + 1, anchor + lits)
    BY <1>1, <1>3 DEF Literals
  <2>3. t \in Seq(Bytes) /\ more \in Seq(Bytes)
    <3>1. RUN_MASK \in Nat
      BY FormatFacts
    <3> HIDE DEF lits
    <3> QED BY <1>3, <3>1, LiteralTokenIs, MoreLengthIs
  <2>4. LiteralHead(lits) = t \o more
    BY DEF LiteralHead
  <2> HIDE DEF t, more, part, lits
  <2>5. (dest \o t) \o more = dest \o (t \o more)
    <3>1. dest \in Seq(Bytes)
      BY <1>2
    <3> QED BY ONLY <2>3, <3>1, ConcatAssociative
  <2>6. dest' = (dest \o LiteralHead(lits)) \o part
    BY ONLY <2>1, <2>4, <2>5
  <2>7. dest' = (dest \o LiteralHead(lits)) \o SubSeq(src, anchor + 1, anchor + lits)
    BY ONLY <2>2, <2>6
  <2> QED BY ONLY <2>7 DEF WithRun
<1>5. n.out = anchor /\ n.lits = lits /\ n.length = 0 /\ n \in Node
  BY <1>1, <1>3 DEF Node
<1> HIDE DEF lits, n, b
<1>6. RunAdded(src, dest, anchor, lits, dest')
  BY <1>1, <1>2, <1>3, <1>4, RunStored
<1>7. Open(src, dest', b, anchor, lits)
  BY <1>1, <1>2, <1>3, <1>6, RunFollows DEF b
<1>8. PICK mark : Written(src, dest', mark, b, anchor)
  BY <1>7 DEF Open
<1>9. /\ dest'[b + 1] = LiteralToken(lits) /\ StoredRun(src, dest', b, anchor, lits)
      /\ LitsEnd(b, lits) = Len(dest')
  BY <1>7 DEF Open
<1>10. Reach(n) = Len(src) /\ SeqEnd(b, n) = Len(dest')
  BY <1>1, <1>3, <1>5, <1>9 DEF Reach, SeqEnd
<1>11. Sound(src, n)
  BY <1>1, <1>5, <1>10 DEF Sound
<1>12. Stored(src, dest', b, n)
  <2>1. LiteralToken(lits) \in Nat
    <3>1. LiteralToken(lits) \in Bytes /\ Bytes \subseteq Nat
      BY <1>3, LiteralTokenIs, FormatFacts DEF Bytes
    <3> QED BY <3>1
  <2>2. dest'[b + 1] = LiteralToken(lits) + 0
    BY <1>9, <2>1
  <2> QED BY <1>5, <1>9, <2>2 DEF Stored, Code
<1>13. b = 0 \/ n.lits >= LASTLITERALS
  <2>1. b > 0 => anchor > 0
    BY <1>8 DEF Written
  <2> QED BY <1>1, <1>2, <1>3, <1>5, <2>1
<1>14. Whole(src, dest', mark, b, n)
  BY <1>2, <1>5, <1>8, <1>10, <1>11, <1>12, <1>13 DEF Whole
<1>15. Complete(src, dest')
  BY <1>14 DEF Complete
<1> QED BY <1>0, <1>15 DEF Tape

LEMMA TapeStep == Compressor /\ Tape /\ CompressNext => Tape'
<1> SUFFICES ASSUME Compressor, Tape, CompressNext PROVE Tape'
  OBVIOUS
<1>1. CASE FirstByte
  BY <1>1 DEF FirstByte, SearchFrom, Tape
<1>2. CASE FindMatch
  BY <1>2 DEF FindMatch, Tape
<1>3. CASE EncodeLiterals
  BY <1>3, EncodeLiteralsTape
<1>4. CASE EncodeMatch
  BY <1>4, EncodeMatchTape
<1>5. CASE TestNextPosition
  BY <1>5, TestNextPositionTape
<1>6. CASE LastLiterals
  BY <1>6, LastLiteralsTape
<1> QED BY <1>1, <1>2, <1>3, <1>4, <1>5, <1>6 DEF CompressNext

-----------------------------------------------------------------------------
(* Reading a sequence *)

LEMMA Quotient ==
  ASSUME NEW a \in Nat, NEW d \in Nat \ {0}, NEW r \in 0 .. d - 1, NEW x, x = a * d + r
  PROVE  x \div d = a /\ x % d = r
<1> DEFINE q  == x \div d
           r1 == x % d
           g  == q - a
<1>1. x \in Nat
  OBVIOUS
<1>2. q \in Nat /\ r1 \in 0 .. d - 1 /\ x = (d * q) + r1
  BY <1>1, DivMod
<1> HIDE DEF q, r1
<1>3. g \in Int /\ d * g = (d * q) - (d * a) /\ a * d = d * a
  BY <1>2
<1>4. d * g = r - r1
  <2> DEFINE y == d * q
             z == d * a
  <2>1. y \in Nat /\ z \in Nat /\ x = y + r1 /\ x = z + r /\ d * g = y - z
    BY <1>2, <1>3
  <2> HIDE DEF y, z, g
  <2> QED BY <1>2, <2>1
<1> HIDE DEF g
<1>5. g = 0
  <2>1. CASE g >= 1
    <3>1. d * g >= d
      BY <1>3, <2>1
    <3> DEFINE p == d * g
    <3>2. p >= d /\ p = r - r1
      BY <1>4, <3>1
    <3> HIDE DEF p
    <3> QED BY <1>2, <3>2
  <2>2. CASE g <= -1
    <3>1. d * g <= -d
      BY <1>3, <2>2
    <3> DEFINE p == d * g
    <3>2. p <= -d /\ p = r - r1
      BY <1>4, <3>1
    <3> HIDE DEF p
    <3> QED BY <1>2, <3>2
  <2> QED BY <1>3, <2>1, <2>2
<1>6. r1 = r
  <2>1. d * 0 = 0
    OBVIOUS
  <2> QED BY <1>2, <1>4, <1>5, <2>1
<1>7. q = a
  BY <1>2, <1>5 DEF g
<1> QED BY <1>6, <1>7 DEF q, r1

(* The bytes behind a token, one by one.                                   *)
LEMMA MoreLengthBytes ==
  ASSUME NEW length \in Nat, NEW mask \in Nat, length >= mask
  PROVE  LET q == (length - mask) \div ByteMax
             r == (length - mask) % ByteMax
         IN  /\ q \in Nat /\ r \in 0 .. ByteMax - 1 /\ length - mask = (ByteMax * q) + r
             /\ Len(MoreLength(length, mask)) = q + 1
             /\ \A k \in 1 .. q : MoreLength(length, mask)[k] = ByteMax
             /\ MoreLength(length, mask)[q + 1] = r
<1> DEFINE q    == (length - mask) \div ByteMax
           r    == (length - mask) % ByteMax
           full == [k \in 1 .. q |-> ByteMax]
           more == MoreLength(length, mask)
<1>0. ByteMax \in Nat \ {0}
  BY FormatFacts
<1>1. length - mask \in Nat
  OBVIOUS
<1>2. q \in Nat /\ r \in 0 .. ByteMax - 1 /\ length - mask = (ByteMax * q) + r
  BY <1>0, <1>1, DivMod
<1>3. more = full \o <<r>>
  <2>1. ~ (length < mask)
    OBVIOUS
  <2> QED BY <2>1 DEF MoreLength
<1> HIDE DEF q, r, more
<1>4. ByteMax \in Bytes /\ r \in Bytes
  BY <1>0, <1>2 DEF Bytes
<1>5. full \in Seq(Bytes) /\ Len(full) = q /\ \A k \in 1 .. q : full[k] = ByteMax
  BY <1>2, <1>4
<1>6. <<r>> \in Seq(Bytes) /\ Len(<<r>>) = 1 /\ <<r>>[1] = r
  BY <1>4
<1> DEFINE w == <<r>>
<1>7. w \in Seq(Bytes) /\ Len(w) = 1 /\ w[1] = r
  BY <1>6
<1> HIDE DEF full, w
<1>8. /\ Len(full \o w) = Len(full) + Len(w)
      /\ \A k \in 1 .. Len(full) : (full \o w)[k] = full[k]
      /\ \A k \in 1 .. Len(w) : (full \o w)[Len(full) + k] = w[k]
  BY <1>5, <1>7, ConcatIs
<1>9. more = full \o w
  BY <1>3 DEF w
<1>10. 1 \in 1 .. Len(w)
  BY <1>7
<1>11. Len(more) = q + 1 /\ more[q + 1] = r /\ \A k \in 1 .. q : more[k] = ByteMax
  BY <1>5, <1>7, <1>8, <1>9, <1>10
<1> QED BY <1>2, <1>11 DEF more, q, r

(* read_variable_length gives back what MoreLength was made of.            *)
LengthReads(length, mask, p, ilimit, check) ==
  read_variable_length(Min({length, mask}), mask, p, ilimit, check)
    = [ok |-> TRUE, length |-> length, next |-> p + MoreBytes(length, mask)]

LEMMA LengthRead ==
  ASSUME dest \in Seq(Bytes), NEW length \in Nat, NEW mask \in Nat, NEW p \in Nat,
         Holds(dest, p, MoreLength(length, mask)), NEW ilimit \in Int, NEW check,
         length >= mask => p + MoreBytes(length, mask) <= ilimit
  PROVE  LengthReads(length, mask, p, ilimit, check)
<1>0. Min({length, mask}) = IF length <= mask THEN length ELSE mask
  BY MinOfTwo
<1>1. CASE length < mask
  <2>1. Min({length, mask}) = length /\ MoreBytes(length, mask) = 0 /\ p + 0 = p
    BY <1>0, <1>1 DEF MoreBytes
  <2> QED BY <1>1, <2>1 DEF read_variable_length, LengthReads
<1>2. CASE ~ (length < mask)
  <2> DEFINE q    == (length - mask) \div ByteMax
             r    == (length - mask) % ByteMax
             more == MoreLength(length, mask)
             ends == {i \in p .. iend - 1 : InBlock(i) # ByteMax}
             last == p + q
  <2>1. Min({length, mask}) = mask /\ ~ (mask < mask)
    BY <1>0, <1>2
  <2>2. /\ q \in Nat /\ r \in 0 .. ByteMax - 1 /\ length - mask = (ByteMax * q) + r
        /\ Len(more) = q + 1 /\ more[q + 1] = r
        /\ \A k \in 1 .. q : more[k] = ByteMax
    <3>1. length >= mask
      BY <1>2
    <3> QED BY <3>1, MoreLengthBytes
  <2>3. MoreBytes(length, mask) = q + 1
    BY <1>2 DEF MoreBytes
  <2>4. iend \in Nat /\ iend = Len(dest) /\ ByteMax \in Nat \ {0}
    BY FormatFacts DEF iend
  <2>5. p + Len(more) <= iend /\ \A k \in 1 .. Len(more) : dest[p + k] = more[k]
    BY <2>4 DEF Holds
  <2> HIDE DEF q, r, more
  <2>6. last \in Nat /\ last \in p .. iend - 1
    BY <2>2, <2>4, <2>5
  <2>7. InBlock(last) = r /\ InBlock(last) # ByteMax
    <3>1. q + 1 \in 1 .. Len(more) /\ p + (q + 1) = last + 1
      BY <2>2
    <3>2. dest[last + 1] = r
      BY <2>2, <2>5, <3>1
    <3> QED BY <2>2, <2>4, <3>2 DEF InBlock
  <2>8. \A i \in p .. last - 1 : InBlock(i) = ByteMax
    <3> SUFFICES ASSUME NEW i \in p .. last - 1 PROVE InBlock(i) = ByteMax
      OBVIOUS
    <3> DEFINE k == i - p + 1
    <3>1. k \in 1 .. q /\ k \in 1 .. Len(more) /\ p + k = i + 1
      BY <2>2, <2>6
    <3> HIDE DEF k
    <3>2. dest[p + k] = ByteMax
      BY <2>2, <2>5, <3>1
    <3> QED BY <3>1, <3>2 DEF InBlock
  <2>9. Min(ends) = last /\ ends # {}
    <3>1. last \in ends /\ ends \subseteq Nat
      BY <2>6, <2>7
    <3>2. \A i \in ends : last <= i
      <4> SUFFICES ASSUME NEW i \in ends, i < last PROVE FALSE
        BY <2>6
      <4>1. i \in p .. last - 1 /\ InBlock(i) # ByteMax
        BY <2>6
      <4> QED BY <2>8, <4>1
    <3> HIDE DEF ends, last
    <3> DEFINE x == Min(ends)
    <3>3. x \in ends /\ \A i \in ends : x <= i
      BY <3>1, MinOf
    <3> HIDE DEF x
    <3>4. x \in Nat /\ last \in Nat /\ last <= x /\ x <= last
      BY <2>6, <3>1, <3>2, <3>3
    <3>5. x = last
      BY <3>4
    <3> QED BY <3>1, <3>5 DEF x
  <2>10. ~ (check /\ p >= ilimit) /\ ~ (last + 1 > ilimit)
    <3>1. p + (q + 1) <= ilimit
      BY <1>2, <2>3
    <3> QED BY <2>2, <3>1
  <2>11. read_variable_length(mask, mask, p, ilimit, check)
           = [ok |-> TRUE, length |-> mask + (ByteMax * (last - p)) + InBlock(last),
              next |-> last + 1]
    <3> HIDE DEF last
    <3> QED BY <2>1, <2>9, <2>10 DEF read_variable_length
  <2>12. mask + (ByteMax * (last - p)) + InBlock(last) = length
    <3>1. last - p = q
      BY <2>2
    <3> DEFINE y == ByteMax * q
    <3>2. length - mask = y + r /\ y \in Nat
      BY <2>2, <2>4
    <3> HIDE DEF y
    <3>3. mask + y + r = length
      BY <2>2, <3>2
    <3> QED BY <2>7, <3>1, <3>3 DEF y
  <2>13. last + 1 = p + MoreBytes(length, mask)
    BY <2>2, <2>3
  <2> QED BY <2>1, <2>11, <2>12, <2>13 DEF LengthReads
<1> QED BY <1>1, <1>2

(* The two halves of a token, wherever it is.                              *)
LEMMA TokenHalves ==
  ASSUME NEW s, NEW n, Sound(s, n), NEW b, Stored(s, dest, b, n)
  PROVE  /\ dest[b + 1] \div (ML_MASK + 1) = Min({n.lits, RUN_MASK})
         /\ Min({n.lits, RUN_MASK}) \in 0 .. RUN_MASK
         /\ dest[b + 1] % (ML_MASK + 1) = Code(n) /\ Code(n) \in 0 .. ML_MASK
<1> DEFINE a == Min({n.lits, RUN_MASK})
           d == ML_MASK + 1
           r == Code(n)
           x == dest[b + 1]
<1>1. /\ n.lits \in Nat /\ n.length \in Nat /\ RUN_MASK \in Nat /\ ML_MASK \in Nat
      /\ MINMATCH \in Nat /\ (n.length # 0 => n.length - MINMATCH \in Nat)
  BY FormatFacts DEF Sound, SoundMatch, Node
<1>2. a \in 0 .. RUN_MASK
  <2> DEFINE l == n.lits
  <2>1. l \in Nat
    BY <1>1
  <2> HIDE DEF l
  <2>2. Min({l, RUN_MASK}) \in 0 .. RUN_MASK
    BY <1>1, <2>1, MinOfTwo
  <2> QED BY <2>2 DEF l
<1>3. r \in 0 .. ML_MASK
  <2>1. CASE n.length = 0
    BY <1>1, <2>1 DEF Code
  <2>2. CASE n.length # 0
    <3> DEFINE l == n.length - MINMATCH
    <3>1. l \in Nat /\ r = Min({l, ML_MASK})
      BY <1>1, <2>2 DEF Code
    <3> HIDE DEF l, r
    <3>2. Min({l, ML_MASK}) \in 0 .. ML_MASK
      BY <1>1, <3>1, MinOfTwo
    <3> QED BY <3>1, <3>2
  <2> QED BY <2>1, <2>2
<1>4. x = a * d + r
  BY DEF Stored, LiteralToken
<1>5. d \in Nat \ {0} /\ d - 1 = ML_MASK
  BY <1>1
<1> HIDE DEF a, d, r, x
<1>6. a \in Nat /\ r \in 0 .. d - 1
  BY <1>1, <1>2, <1>3, <1>5
<1>7. x \div d = a /\ x % d = r
  BY <1>4, <1>5, <1>6, Quotient
<1> QED BY <1>2, <1>3, <1>7 DEF a, d, r, x

LEMMA TokenRead ==
  ASSUME NEW s, NEW n, Sound(s, n), Stored(s, dest, sequence, n)
  PROVE  /\ LiteralCode = Min({n.lits, RUN_MASK}) /\ LiteralCode \in 0 .. RUN_MASK
         /\ MatchCodeOf = Code(n) /\ MatchCodeOf \in 0 .. ML_MASK
<1>1. /\ LiteralCode = dest[sequence + 1] \div (ML_MASK + 1)
      /\ MatchCodeOf = dest[sequence + 1] % (ML_MASK + 1)
  BY DEF LiteralCode, MatchCodeOf, InBlock
<1> QED BY <1>1, TokenHalves

LEMMA RunRead ==
  ASSUME dest \in Seq(Bytes), NEW s, NEW n, Sound(s, n), sequence \in Nat,
         Stored(s, dest, sequence, n)
  PROVE  LiteralRun = [ok |-> TRUE, length |-> n.lits, next |-> LitsAt(sequence, n.lits)]
<1> DEFINE lits   == n.lits
           p      == sequence + 1
           ilimit == iend - RUN_MASK
<1>1. /\ lits \in Nat /\ LitsAt(sequence, lits) \in Nat /\ LitsEnd(sequence, lits) \in Nat
      /\ LitsEnd(sequence, lits) = LitsAt(sequence, lits) + lits
  BY SequenceIs
<1>2. RUN_MASK \in Nat /\ iend \in Nat /\ iend = Len(dest) /\ p \in Nat
  BY FormatFacts DEF iend
<1>3. StoredRun(s, dest, sequence, n.out, lits)
  BY DEF Stored
<1>4. Holds(dest, p, MoreLength(lits, RUN_MASK)) /\ LitsEnd(sequence, lits) <= iend
  BY <1>2, <1>3 DEF StoredRun
<1>5. LitsAt(sequence, lits) = p + MoreBytes(lits, RUN_MASK)
  BY DEF LitsAt
<1>6. LiteralCode = Min({lits, RUN_MASK})
  BY TokenRead
<1> HIDE DEF lits, p
<1> DEFINE x == LitsAt(sequence, lits)
           y == LitsEnd(sequence, lits)
<1>7. lits >= RUN_MASK => p + MoreBytes(lits, RUN_MASK) <= ilimit
  <2>1. x \in Nat /\ y \in Nat /\ y = x + lits /\ y <= iend /\ x = p + MoreBytes(lits, RUN_MASK)
    BY <1>1, <1>4, <1>5
  <2> HIDE DEF x, y
  <2>2. lits >= RUN_MASK => x <= ilimit
    BY <1>1, <1>2, <2>1
  <2> QED BY <2>1, <2>2
<1>8. ilimit \in Int
  BY <1>2
<1> HIDE DEF x, y, ilimit
<1>9. LengthReads(lits, RUN_MASK, p, ilimit, TRUE)
  BY <1>1, <1>2, <1>4, <1>7, <1>8, LengthRead
<1>10. LiteralRun = read_variable_length(LiteralCode, RUN_MASK, p, ilimit, TRUE)
  BY DEF LiteralRun, p, ilimit
<1> QED BY <1>5, <1>6, <1>9, <1>10 DEF LengthReads, lits

LEMMA LiteralsRead ==
  ASSUME dest \in Seq(Bytes), NEW s, NEW b, NEW out, NEW lits, LitsAt(b, lits) \in Nat,
         lits \in Nat, LitsEnd(b, lits) = LitsAt(b, lits) + lits, StoredRun(s, dest, b, out, lits)
  PROVE  /\ LiteralsAt(LitsAt(b, lits), lits) \in Seq(Bytes)
         /\ Len(LiteralsAt(LitsAt(b, lits), lits)) = lits
         /\ \A k \in 1 .. lits : LiteralsAt(LitsAt(b, lits), lits)[k] = s[out + k]
<1> DEFINE p == LitsAt(b, lits)
           v == LiteralsAt(p, lits)
<1>1. p \in Nat /\ p + lits <= Len(dest) /\ \A k \in 1 .. lits : dest[p + k] = s[out + k]
  BY DEF StoredRun
<1>2. v = SubSeq(dest, p + 1, p + lits)
  BY DEF LiteralsAt
<1> HIDE DEF p, v
<1>3. v \in Seq(Bytes) /\ Len(v) = lits /\ \A k \in 1 .. lits : v[k] = dest[p + k]
  BY <1>1, <1>2, PartOf
<1>4. \A k \in 1 .. lits : v[k] = s[out + k]
  BY <1>1, <1>3
<1> QED BY <1>3, <1>4 DEF p, v

LEMMA LE16Back ==
  ASSUME NEW v \in Nat
  PROVE  LE16(v)[1] + (Base * LE16(v)[2]) = v
<1>1. Base \in Nat \ {0}
  BY FormatFacts DEF ByteMax
<1> DEFINE q == v \div Base
           r == v % Base
<1>2. q \in Nat /\ r \in Nat /\ v = (Base * q) + r
  BY <1>1, DivMod
<1>3. LE16(v)[1] = r /\ LE16(v)[2] = q
  BY DEF LE16
<1> HIDE DEF q, r
<1> DEFINE y == Base * q
<1>4. y \in Nat /\ v = y + r
  BY <1>1, <1>2
<1> HIDE DEF y
<1>5. r + y = v
  BY <1>2, <1>4
<1> QED BY <1>3, <1>5 DEF y

LEMMA MatchRead ==
  ASSUME dest \in Seq(Bytes), NEW s, NEW n, Sound(s, n), n.length # 0, sequence \in Nat,
         Stored(s, dest, sequence, n), SeqEnd(sequence, n) + 1 + LASTLITERALS <= iend
  PROVE  MatchAt(LitsEnd(sequence, n.lits)) = [ok |-> TRUE, next |-> SeqEnd(sequence, n),
                                               length |-> n.length, offset |-> n.offset]
<1> DEFINE p      == LitsEnd(sequence, n.lits)
           code   == n.length - MINMATCH
           e      == SeqEnd(sequence, n)
           ilimit == iend - LASTLITERALS + 1
           run    == read_variable_length(MatchCodeOf, ML_MASK, p + 2, ilimit, FALSE)
           offset == n.offset
           u      == LE16(offset)
<1>1. /\ p \in Nat /\ e \in Nat /\ code \in Nat /\ offset \in Nat /\ n.length \in Nat
  BY SequenceIs
<1>2. ML_MASK \in Nat /\ iend \in Nat /\ iend = Len(dest) /\ LASTLITERALS \in Nat /\ MINMATCH \in Nat
  BY FormatFacts DEF iend
<1>3. Holds(dest, p, u) /\ Holds(dest, p + 2, MoreLength(code, ML_MASK))
  BY DEF Stored, StoredMatch
<1>4. e = p + 2 + MoreBytes(code, ML_MASK)
  BY DEF SeqEnd
<1>5. MatchCodeOf = Min({code, ML_MASK})
  BY TokenRead DEF Code
<1>6. code + MINMATCH = n.length
  BY <1>1, <1>2
<1>7. /\ MatchAt(p) = [ok |-> run.ok, next |-> run.next, length |-> run.length + MINMATCH,
                       offset |-> InBlock(p) + (Base * InBlock(p + 1))]
  BY DEF MatchAt
<1> HIDE DEF p, code, e, u, offset
<1>8. p + 2 \in Nat /\ ilimit \in Int /\ e <= ilimit
  <2>1. e + 1 + LASTLITERALS <= iend
    BY DEF e
  <2> QED BY <1>1, <1>2, <2>1
<1> HIDE DEF ilimit
<1>9. LengthReads(code, ML_MASK, p + 2, ilimit, FALSE)
  BY <1>1, <1>2, <1>3, <1>4, <1>8, LengthRead
<1>10. run.ok = TRUE /\ run.length = code /\ run.next = e
  <2> DEFINE c == Min({code, ML_MASK})
             v == read_variable_length(c, ML_MASK, p + 2, ilimit, FALSE)
             m == p + 2 + MoreBytes(code, ML_MASK)
  <2>1. run = v
    BY <1>5
  <2>2. v = [ok |-> TRUE, length |-> code, next |-> m]
    BY <1>9 DEF LengthReads
  <2>3. e = m
    BY <1>4
  <2> HIDE DEF run, v, m
  <2>4. run.ok = TRUE /\ run.length = code /\ run.next = m
    BY <2>1, <2>2
  <2> QED BY <2>3, <2>4
<1> HIDE DEF run
<1>11. InBlock(p) + (Base * InBlock(p + 1)) = offset
  <2>1. Len(u) = 2
    BY DEF u, LE16
  <2>2. \A k \in 1 .. 2 : dest[p + k] = u[k]
    BY <1>3, <2>1 DEF Holds
  <2>3. dest[p + 1] = u[1] /\ dest[p + 1 + 1] = u[2]
    <3>1. 1 \in 1 .. 2 /\ 2 \in 1 .. 2 /\ p + 2 = p + 1 + 1
      BY <1>1
    <3> QED BY <2>2, <3>1
  <2>4. u[1] + (Base * u[2]) = offset
    BY <1>1, LE16Back DEF u
  <2> QED BY <2>3, <2>4 DEF InBlock
<1>12. MatchAt(p) = [ok |-> TRUE, next |-> e, length |-> n.length, offset |-> offset]
  BY <1>6, <1>7, <1>10, <1>11
<1> QED BY <1>12 DEF p, e, offset

-----------------------------------------------------------------------------
(* Copying *)

LEMMA ModShift ==
  ASSUME NEW x \in Nat, NEW d \in Nat \ {0}, NEW c \in Nat
  PROVE  (x + (d * c)) % d = x % d
<1> DEFINE q == x \div d
           r == x % d
           y == x + (d * c)
<1>1. q \in Nat /\ r \in 0 .. d - 1 /\ x = (d * q) + r
  BY DivMod
<1> HIDE DEF q, r
<1>2. q + c \in Nat /\ (q + c) * d = (d * q) + (d * c) /\ d * q \in Nat /\ d * c \in Nat
  BY <1>1
<1>3. y = (q + c) * d + r
  <2> DEFINE a == d * q
             b == d * c
             e == (q + c) * d
  <2>1. a \in Nat /\ b \in Nat /\ e = a + b /\ x = a + r /\ y = x + b
    BY <1>1, <1>2
  <2> HIDE DEF a, b, e, y
  <2>2. y = e + r
    BY <1>1, <2>1
  <2> QED BY <2>2 DEF e
<1> HIDE DEF y
<1> DEFINE p == q + c
<1>4. p \in Nat /\ y = p * d + r
  BY <1>2, <1>3
<1> HIDE DEF p
<1>5. y % d = r
  BY <1>1, <1>4, Quotient
<1> QED BY <1>5 DEF y, r

(* Two positions a multiple of the offset apart.                           *)
LEMMA ModBack ==
  ASSUME NEW x \in Nat, NEW d \in Nat \ {0}, x >= d
  PROVE  (x - d) % d = x % d
<1> DEFINE y == x - d
<1>1. y \in Nat /\ d * 1 = d /\ y + d = x
  OBVIOUS
<1> HIDE DEF y
<1>2. (y + (d * 1)) % d = y % d
  BY <1>1, ModShift
<1>3. y + (d * 1) = x
  BY <1>1
<1>4. x % d = y % d
  BY ONLY <1>2, <1>3
<1> QED BY <1>4 DEF y

(* Whole chunks are one, or reach less than a chunk too far.               *)
LEMMA ChunksTight ==
  ASSUME NEW length \in Int, NEW chunk \in Nat \ {0}, length + chunk - 1 \in Nat
  PROVE  /\ WholeChunks(length, chunk) \in Nat
         /\ \/ WholeChunks(length, chunk) = chunk
            \/ length > chunk /\ WholeChunks(length, chunk) <= length + chunk - 1
<1> DEFINE x == length + chunk - 1
           q == x \div chunk
           r == x % chunk
<1>1. x \in Nat
  OBVIOUS
<1>2. q \in Nat /\ r \in 0 .. chunk - 1 /\ x = (chunk * q) + r
  <2> HIDE DEF x
  <2> QED BY <1>1, DivMod
<1>3. WholeChunks(length, chunk) = chunk * Max({1, q})
  BY DEF WholeChunks
<1>4. x = length + chunk - 1
  OBVIOUS
<1> HIDE DEF x, q, r
<1>5. Max({1, q}) \in {1, q} /\ Max({1, q}) >= 1 /\ Max({1, q}) >= q
  <2>1. q + 1 \in Nat /\ {1, q} \subseteq 0 .. q + 1
    BY <1>2
  <2> QED BY <2>1, MaxOf
<1>6. CASE q <= 1
  <2>1. Max({1, q}) = 1
    BY <1>2, <1>5, <1>6
  <2>2. chunk * 1 = chunk
    OBVIOUS
  <2> QED BY <1>3, <2>1, <2>2
<1>7. CASE q >= 2
  <2>1. Max({1, q}) = q
    BY <1>2, <1>5, <1>7
  <2>2. chunk * q >= chunk * 2 /\ chunk * q \in Nat /\ chunk * 2 = chunk + chunk
    BY <1>2, <1>7
  <2> DEFINE y == chunk * q
  <2>3. y \in Nat /\ y >= chunk + chunk /\ x = y + r
    BY <1>2, <2>2
  <2> HIDE DEF y
  <2>4. y <= length + chunk - 1 /\ length > chunk
    BY <1>2, <1>4, <2>3
  <2> QED BY <1>3, <2>1, <2>3, <2>4 DEF y
<1> QED BY <1>2, <1>6, <1>7

(* The least multiple of the offset that is no smaller than a chunk.       *)
LEMMA WidenedMultiple ==
  ASSUME NEW offset \in Nat \ {0}, offset < WILDCOPYLENGTH
  PROVE  \E q \in Nat : /\ q >= 1 /\ Widened(offset) = offset * q
                        /\ Widened(offset) \in Nat
                        /\ Widened(offset) >= WILDCOPYLENGTH
                        /\ Widened(offset) <= WILDCOPYLENGTH + offset - 1
<1> DEFINE x == WILDCOPYLENGTH + offset - 1
           q == x \div offset
           r == x % offset
<1>1. WILDCOPYLENGTH \in Nat /\ x \in Nat
  BY FormatFacts
<1>2. x = WILDCOPYLENGTH + offset - 1
  OBVIOUS
<1>3. Widened(offset) = offset * q
  BY DEF Widened
<1> HIDE DEF x
<1>4. q \in Nat /\ r \in 0 .. offset - 1 /\ x = (offset * q) + r
  BY <1>1, DivMod
<1> HIDE DEF q, r
<1> DEFINE y == offset * q
<1>5. y \in Nat /\ x = y + r /\ (q = 0 => y = 0)
  BY <1>4
<1> HIDE DEF y
<1>6. y >= WILDCOPYLENGTH /\ y <= WILDCOPYLENGTH + offset - 1 /\ q >= 1
  BY <1>1, <1>2, <1>4, <1>5
<1>7. Widened(offset) = y
  BY <1>3 DEF y
<1> QED BY <1>3, <1>4, <1>5, <1>6, <1>7

LEMMA RepeatedIs ==
  ASSUME NEW t \in Seq(Bytes), NEW offset \in Nat \ {0}, offset <= Len(t), NEW length \in Nat
  PROVE  /\ Repeated(t, offset, length) \in Seq(Bytes)
         /\ Len(Repeated(t, offset, length)) = length
         /\ \A k \in 1 .. length :
              Repeated(t, offset, length)[k] = t[Len(t) - offset + 1 + ((k - 1) % offset)]
<1> DEFINE i(k) == Len(t) - offset + 1 + ((k - 1) % offset)
           v    == Repeated(t, offset, length)
<1>1. v = [k \in 1 .. length |-> t[i(k)]]
  BY DEF Repeated
<1>2. ASSUME NEW k \in 1 .. length PROVE t[i(k)] \in Bytes
  <2> DEFINE y == k - 1
             r == y % offset
  <2>1. y \in Nat
    OBVIOUS
  <2>2. r \in 0 .. offset - 1
    <3> HIDE DEF y
    <3> QED BY <2>1, DivMod
  <2>3. i(k) = Len(t) - offset + 1 + r
    OBVIOUS
  <2> HIDE DEF r, y, i
  <2>4. i(k) \in 1 .. Len(t)
    BY <2>2, <2>3
  <2> QED BY <2>4, ElementOfSeq
<1> HIDE DEF i, v
<1>3. v \in [1 .. length -> Bytes] /\ \A k \in 1 .. length : v[k] = t[i(k)]
  BY <1>1, <1>2
<1>4. v \in Seq(Bytes)
  BY <1>3
<1>5. DOMAIN v = 1 .. Len(v) /\ Len(v) \in Nat
  BY <1>4, LenProperties
<1>6. Len(v) = length
  <2>1. 1 .. Len(v) = 1 .. length
    BY <1>3, <1>5
  <2> DEFINE a == Len(v)
  <2>2. a \in Nat /\ 1 .. a = 1 .. length
    BY <1>5, <2>1
  <2> HIDE DEF a
  <2>3. a = length
    <3>1. CASE a < length
      <4>1. length \in 1 .. length /\ length \notin 1 .. a
        BY <2>2, <3>1
      <4> QED BY <2>2, <4>1
    <3>2. CASE length < a
      <4>1. a \in 1 .. a /\ a \notin 1 .. length
        BY <2>2, <3>2
      <4> QED BY <2>2, <4>1
    <3> QED BY <2>2, <3>1, <3>2
  <2> QED BY <2>3 DEF a
<1> QED BY <1>3, <1>4, <1>6 DEF v, i

-----------------------------------------------------------------------------
(* A text that goes on with the bytes offset before it, looked at from     *)
(* offset before its end on.                                               *)
LEMMA Continued ==
  ASSUME NEW t \in Seq(Bytes), NEW offset \in Nat \ {0}, offset <= Len(t), NEW more \in Nat,
         NEW g \in Int, g + offset \in Nat, g < more
  PROVE  (t \o Repeated(t, offset, more))[Len(t) + 1 + g]
           = t[Len(t) - offset + 1 + ((g + offset) % offset)]
<1> DEFINE L == Len(t)
           v == Repeated(t, offset, more)
<1>1. v \in Seq(Bytes) /\ Len(v) = more
      /\ \A k \in 1 .. more : v[k] = t[L - offset + 1 + ((k - 1) % offset)]
  BY RepeatedIs
<1> HIDE DEF v
<1>2. /\ L \in Nat /\ Len(t \o v) = L + more
      /\ \A k \in 1 .. L : (t \o v)[k] = t[k]
      /\ \A k \in 1 .. more : (t \o v)[L + k] = v[k]
  BY <1>1, ConcatIs
<1>3. offset <= L
  OBVIOUS
<1> HIDE DEF L
<1>4. CASE g >= 0
  <2>1. g + 1 \in 1 .. more /\ L + 1 + g = L + (g + 1) /\ (g + 1) - 1 = g
    BY <1>2, <1>4
  <2>2. (t \o v)[L + 1 + g] = t[L - offset + 1 + (((g + 1) - 1) % offset)]
    BY <1>1, <1>2, <2>1
  <2>3. (g + offset) % offset = g % offset
    <3> DEFINE x == g + offset
    <3>1. x \in Nat /\ x >= offset /\ x - offset = g
      BY <1>4
    <3> HIDE DEF x
    <3>2. (x - offset) % offset = x % offset
      BY <3>1, ModBack
    <3> QED BY <3>1, <3>2 DEF x
  <2> QED BY <2>1, <2>2, <2>3 DEF L, v
<1>5. CASE g < 0
  <2> DEFINE x == g + offset
  <2>1. x \in 0 .. offset - 1 /\ L + 1 + g \in 1 .. L /\ L + 1 + g = L - offset + 1 + x
    BY <1>2, <1>3, <1>5
  <2>2. x % offset = x
    <3> HIDE DEF x
    <3> QED BY <2>1
  <2> HIDE DEF x
  <2>3. (t \o v)[L + 1 + g] = t[L - offset + 1 + (x % offset)]
    BY <1>2, <2>1, <2>2
  <2> QED BY <2>3 DEF x, L, v
<1>6. g >= 0 \/ g < 0
  OBVIOUS
<1> QED BY ONLY <1>4, <1>5, <1>6

(* Copying in chunks from the widened distance continues the repetition.   *)
LEMMA WidenedPlace ==
  ASSUME NEW t \in Seq(Bytes), NEW offset \in Nat \ {0}, offset <= Len(t),
         offset < WILDCOPYLENGTH, NEW k \in Nat, k > WILDCOPYLENGTH
  PROVE  LET first == t \o Repeated(t, offset, WILDCOPYLENGTH)
             z     == (k - WILDCOPYLENGTH - 1) % Widened(offset)
         IN  first[Len(t) + WILDCOPYLENGTH - Widened(offset) + 1 + z]
               = t[Len(t) - offset + 1 + ((k - 1) % offset)]
<1> DEFINE W     == WILDCOPYLENGTH
           D     == Widened(offset)
           y     == k - W - 1
           z     == y % D
           c     == y \div D
           g     == W - D + z
           first == t \o Repeated(t, offset, W)
<1>1. W \in Nat /\ y \in Nat /\ y = k - W - 1
  BY FormatFacts
<1>2. PICK q \in Nat : /\ q >= 1 /\ D = offset * q /\ D \in Nat
                       /\ D >= W /\ D <= W + offset - 1
  BY WidenedMultiple
<1>3. offset < W
  OBVIOUS
<1> HIDE DEF W, D, y
<1>4. D \in Nat \ {0}
  BY <1>1, <1>2, <1>3
<1>5. c \in Nat /\ z \in 0 .. D - 1 /\ y = (D * c) + z
  BY <1>1, <1>4, DivMod
<1>6. g = W - D + z
  OBVIOUS
<1> HIDE DEF z, c, g
<1>7. g \in Int /\ g + offset \in Nat /\ g < W
  BY <1>1, <1>2, <1>5, <1>6
<1>8. first[Len(t) + 1 + g] = t[Len(t) - offset + 1 + ((g + offset) % offset)]
  BY <1>1, <1>7, Continued
<1>9. k - 1 = (g + offset) + (offset * ((q - 1) + (q * c))) /\ (q - 1) + (q * c) \in Nat
  <2>1. D * c = offset * (q * c) /\ q * c \in Nat
    BY <1>2, <1>5
  <2> DEFINE a == q * c
  <2>2. a \in Nat /\ D * c = offset * a
    BY <2>1
  <2> HIDE DEF a
  <2>3. (q - 1) + a \in Nat /\ offset * ((q - 1) + a) = (offset * q) - offset + (offset * a)
    BY <1>2, <2>2
  <2> DEFINE b == offset * a
             e == offset * ((q - 1) + a)
             f == offset * q
  <2>4. b \in Nat /\ f \in Nat /\ y = b + z /\ e = f - offset + b /\ D = f /\ e \in Int
    BY <1>2, <1>5, <2>2, <2>3
  <2> HIDE DEF b, e, f
  <2>5. k - 1 = (g + offset) + e
    BY <1>1, <1>5, <1>6, <2>4
  <2> QED BY <2>3, <2>5 DEF a, e
<1>10. (k - 1) % offset = (g + offset) % offset
  <2> DEFINE x == g + offset
             m == (q - 1) + (q * c)
  <2>1. x \in Nat /\ m \in Nat /\ k - 1 = x + (offset * m)
    BY <1>7, <1>9
  <2> HIDE DEF x, m
  <2>2. (x + (offset * m)) % offset = x % offset
    BY <2>1, ModShift
  <2>3. (k - 1) % offset = x % offset
    BY ONLY <2>1, <2>2
  <2> QED BY <2>3 DEF x
<1>11. Len(t) + W - D + 1 + z = Len(t) + 1 + g
  <2>1. Len(t) \in Nat
    OBVIOUS
  <2> QED BY <1>1, <1>2, <1>5, <1>6, <2>1
<1>12. first[Len(t) + W - D + 1 + z] = t[Len(t) - offset + 1 + ((k - 1) % offset)]
  <2> HIDE DEF first
  <2> QED BY ONLY <1>8, <1>10, <1>11
<1> QED BY <1>12 DEF W, D, y, z

(* A match copied in chunks is the match meant, whatever its offset.       *)
LEMMA WidenedIs ==
  ASSUME NEW t \in Seq(Bytes), NEW offset \in Nat \ {0}, offset <= Len(t), NEW length \in Nat
  PROVE  WidenedMatch(t, offset, length) = Repeated(t, offset, length)
<1>1. CASE offset >= WILDCOPYLENGTH
  BY <1>1 DEF WidenedMatch, Copied
<1>2. CASE ~ (offset >= WILDCOPYLENGTH)
  <2> DEFINE W     == WILDCOPYLENGTH
             D     == Widened(offset)
             L     == Len(t)
             v     == Repeated(t, offset, W)
             first == t \o v
             rest  == Repeated(first, D, length)
             all   == first \o rest
             u     == SubSeq(all, L + 1, L + length)
             r     == Repeated(t, offset, length)
  <2>0. W \in Nat /\ L \in Nat /\ offset <= L /\ offset < W
    BY <1>2, FormatFacts
  <2>1. D \in Nat \ {0} /\ D >= W /\ D <= W + offset - 1
    <3>1. D \in Nat /\ D >= W /\ D <= W + offset - 1
      BY <2>0, WidenedMultiple
    <3> QED BY <2>0, <3>1
  <2>2. v \in Seq(Bytes) /\ Len(v) = W
        /\ \A k \in 1 .. W : v[k] = t[L - offset + 1 + ((k - 1) % offset)]
    BY <2>0, RepeatedIs
  <2>3. r \in Seq(Bytes) /\ Len(r) = length
        /\ \A k \in 1 .. length : r[k] = t[L - offset + 1 + ((k - 1) % offset)]
    BY RepeatedIs
  <2>4. WidenedMatch(t, offset, length) = u
    BY <1>2, <2>1 DEF WidenedMatch, Copied
  <2>5. \A k \in Nat : k > W =>
          first[L + W - D + 1 + ((k - W - 1) % D)] = t[L - offset + 1 + ((k - 1) % offset)]
    BY <2>0, WidenedPlace
  <2> HIDE DEF v, D, L, W, r
  <2>6. /\ first \in Seq(Bytes) /\ Len(first) = L + W
        /\ \A k \in 1 .. L : first[k] = t[k]
        /\ \A k \in 1 .. W : first[L + k] = v[k]
    BY <2>2, ConcatIs DEF L
  <2> HIDE DEF first
  <2>7. rest \in Seq(Bytes) /\ Len(rest) = length
        /\ \A k \in 1 .. length : rest[k] = first[Len(first) - D + 1 + ((k - 1) % D)]
    <3>1. D <= Len(first)
      BY <2>0, <2>1, <2>6
    <3> QED BY <2>1, <2>6, <3>1, RepeatedIs
  <2> HIDE DEF rest
  <2>8. /\ all \in Seq(Bytes) /\ Len(all) = Len(first) + length
        /\ \A k \in 1 .. Len(first) : all[k] = first[k]
        /\ \A k \in 1 .. length : all[Len(first) + k] = rest[k]
    BY <2>6, <2>7, ConcatIs
  <2> HIDE DEF all
  <2>9. u \in Seq(Bytes) /\ Len(u) = length /\ \A k \in 1 .. length : u[k] = all[L + k]
    <3>1. L + length <= Len(all)
      BY <2>0, <2>6, <2>8
    <3> QED BY <2>0, <2>8, <3>1, PartOf
  <2> HIDE DEF u
  <2>10. ASSUME NEW k \in 1 .. length PROVE u[k] = r[k]
    <3>1. CASE k <= W
      <4>1. k \in 1 .. W /\ L + k \in 1 .. Len(first)
        BY <2>0, <2>6, <3>1
      <4>2. u[k] = all[L + k]
        BY <2>9
      <4>3. all[L + k] = first[L + k]
        BY <2>8, <4>1
      <4>4. first[L + k] = v[k]
        BY <2>6, <4>1
      <4>5. v[k] = t[L - offset + 1 + ((k - 1) % offset)]
        BY <2>2, <4>1
      <4> QED BY <2>3, <4>2, <4>3, <4>4, <4>5
    <3>2. CASE k > W
      <4> DEFINE j == k - W
      <4>1. j \in 1 .. length /\ L + k = Len(first) + j /\ j - 1 = k - W - 1 /\ k \in Nat
        BY <2>0, <2>6, <3>2
      <4> HIDE DEF j
      <4>2. u[k] = rest[j]
        <5>1. u[k] = all[L + k]
          BY <2>9
        <5>2. all[Len(first) + j] = rest[j]
          BY <2>8, <4>1
        <5> QED BY <4>1, <5>1, <5>2
      <4>3. rest[j] = first[Len(first) - D + 1 + ((k - W - 1) % D)]
        BY <2>7, <4>1
      <4>4. Len(first) - D = L + W - D
        BY <2>0, <2>1, <2>6
      <4>5. u[k] = t[L - offset + 1 + ((k - 1) % offset)]
        BY <2>5, <3>2, <4>1, <4>2, <4>3, <4>4
      <4> QED BY <2>3, <4>5
    <3> QED BY <2>0, <3>1, <3>2
  <2>11. u = r
    BY <2>3, <2>9, <2>10, SeqEqual
  <2> QED BY <2>4, <2>11 DEF r
<1> QED BY <1>1, <1>2

LEMMA CopiedIs ==
  ASSUME NEW t, NEW distance, NEW length, NEW chunk, distance >= chunk
  PROVE  Copied(t, distance, length, chunk) = Repeated(t, distance, length)
  BY DEF Copied

-----------------------------------------------------------------------------
(* What the decoder makes of a sequence *)

(* The decoded bytes are the first of the page.                            *)
Decoded(u, s) == /\ u \in Seq(Bytes) /\ Len(u) <= Len(s)
                 /\ \A k \in 1 .. Len(u) : u[k] = s[k]

LEMMA DecodedMore ==
  ASSUME NEW s \in Seq(Bytes), NEW u, Decoded(u, s), NEW v \in Seq(Bytes),
         Len(u) + Len(v) <= Len(s), \A k \in 1 .. Len(v) : v[k] = s[Len(u) + k]
  PROVE  Decoded(u \o v, s) /\ Len(u \o v) = Len(u) + Len(v)
<1> DEFINE w == u \o v
           m == Len(u)
           n == Len(v)
<1>1. u \in Seq(Bytes) /\ \A k \in 1 .. m : u[k] = s[k]
  BY DEF Decoded
<1>2. /\ m \in Nat /\ n \in Nat /\ w \in Seq(Bytes) /\ Len(w) = m + n
      /\ \A k \in 1 .. m : w[k] = u[k]
      /\ \A k \in 1 .. n : w[m + k] = v[k]
  BY <1>1, ConcatIs
<1> HIDE DEF w
<1>3. ASSUME NEW k \in 1 .. Len(w) PROVE w[k] = s[k]
  <2>1. CASE k <= m
    <3>1. k \in 1 .. m
      BY <1>2, <2>1
    <3> QED BY <1>1, <1>2, <3>1
  <2>2. CASE k > m
    <3>1. k - m \in 1 .. n /\ m + (k - m) = k
      BY <1>2, <2>2
    <3> QED BY <1>2, <3>1
  <2> QED BY <1>2, <2>1, <2>2
<1> QED BY <1>2, <1>3 DEF Decoded, w

(* A page that repeats itself offset bytes further on does so periodically. *)
Periodic(s, out, offset, length) ==
  \A k \in 1 .. length : s[out + k] = s[out - offset + 1 + ((k - 1) % offset)]

LEMMA PeriodicIs ==
  ASSUME NEW s, NEW out, NEW offset, NEW length,
         out \in Nat, offset \in Nat \ {0}, length \in Nat, offset <= out,
         Repeats(s, out, offset, length)
  PROVE  Periodic(s, out, offset, length)
<1> DEFINE P(k) == s[out + k] = s[out - offset + 1 + ((k - 1) % offset)]
           S    == {k \in 1 .. length : ~ P(k)}
<1> SUFFICES ASSUME S # {} PROVE FALSE
  BY DEF Periodic
<1> USE DEF Repeats
<1>1. S \subseteq Nat
  OBVIOUS
<1> DEFINE m == Min(S)
<1>2. m \in S /\ \A y \in S : m <= y
  <2> HIDE DEF S
  <2> QED BY <1>1, MinOf
<1> HIDE DEF m
<1>3. m \in 1 .. length /\ ~ P(m)
  BY <1>2
<1>4. \A k \in 1 .. length : k < m => P(k)
  BY <1>2, <1>3
<1> HIDE DEF S
<1>5. s[out + m] = s[out - offset + m]
  BY <1>3
<1>6. CASE m <= offset
  <2>1. m - 1 \in 0 .. offset - 1
    BY <1>3, <1>6
  <2>2. (m - 1) % offset = m - 1
    BY <2>1
  <2>3. out - offset + 1 + (m - 1) = out - offset + m
    BY <1>3
  <2> QED BY <1>3, <1>5, <2>2, <2>3
<1>7. CASE m > offset
  <2> DEFINE j == m - offset
  <2>1. j \in 1 .. length /\ j < m /\ out + j = out - offset + m
    BY <1>3, <1>7
  <2>2. (m - 1) \in Nat /\ m - 1 >= offset /\ (m - 1) - offset = j - 1
    BY <1>3, <1>7
  <2> DEFINE y == m - 1
  <2>3. (y - offset) % offset = y % offset
    <3> HIDE DEF y
    <3> QED BY <2>2, ModBack DEF y
  <2>4. (j - 1) % offset = (m - 1) % offset
    BY <2>2, <2>3
  <2>5. P(j)
    BY <1>4, <2>1
  <2> HIDE DEF j, y
  <2>6. s[out + j] = s[out - offset + 1 + ((m - 1) % offset)]
    BY ONLY <2>4, <2>5
  <2> QED BY <1>3, <1>5, <2>1, <2>6
<1> QED BY <1>3, <1>6, <1>7

(* The literals of a sequence.                                             *)
LEMMA LiteralsDecoded ==
  ASSUME dest \in Seq(Bytes), NEW s \in Seq(Bytes), NEW u, Decoded(u, s), NEW b \in Nat,
         NEW n, Sound(s, n), Stored(s, dest, b, n), Len(u) = n.out
  PROVE  LET v == LiteralsAt(LitsAt(b, n.lits), n.lits)
         IN  v \in Seq(Bytes) /\ Decoded(u \o v, s) /\ Len(u \o v) = Covers(n)
<1> DEFINE v == LiteralsAt(LitsAt(b, n.lits), n.lits)
           l == n.lits
           o == n.out
<1>1. /\ o \in Nat /\ l \in Nat /\ Covers(n) \in Nat /\ Reach(n) = Covers(n) + n.length
      /\ n.length \in Nat /\ LitsAt(b, l) \in Nat /\ LitsEnd(b, l) = LitsAt(b, l) + l
  BY SequenceIs
<1>2. v \in Seq(Bytes) /\ Len(v) = l /\ \A k \in 1 .. l : v[k] = s[o + k]
  <2>1. StoredRun(s, dest, b, o, l)
    BY DEF Stored
  <2> HIDE DEF l, o
  <2>2. /\ LiteralsAt(LitsAt(b, l), l) \in Seq(Bytes) /\ Len(LiteralsAt(LitsAt(b, l), l)) = l
        /\ \A k \in 1 .. l : LiteralsAt(LitsAt(b, l), l)[k] = s[o + k]
    <3>1. l \in Nat /\ LitsAt(b, l) \in Nat /\ LitsEnd(b, l) = LitsAt(b, l) + l
      BY <1>1
    <3> QED BY ONLY dest \in Seq(Bytes), <2>1, <3>1, LiteralsRead
  <2> QED BY <2>2 DEF l
<1>3. Reach(n) <= Len(s) /\ Len(s) \in Nat /\ Len(u) = o /\ Covers(n) = o + l
  BY LenProperties DEF Sound, Covers
<1> HIDE DEF v, l, o
<1>4. Len(u) + Len(v) <= Len(s) /\ \A k \in 1 .. Len(v) : v[k] = s[Len(u) + k]
  <2> DEFINE c == Covers(n)
             e == n.length
             r == Reach(n)
  <2>1. c \in Nat /\ e \in Nat /\ r = c + e /\ r <= Len(s) /\ c = o + l
    BY <1>1, <1>3
  <2> HIDE DEF c, e, r
  <2>2. o + l <= Len(s)
    BY <1>3, <2>1
  <2> QED BY <1>2, <1>3, <2>2
<1>5. Decoded(u \o v, s) /\ Len(u \o v) = Len(u) + Len(v)
  BY <1>2, <1>4, DecodedMore
<1>6. Len(u \o v) = Covers(n)
  BY <1>2, <1>3, <1>5
<1> QED BY <1>2, <1>5, <1>6 DEF v

(* The match of a sequence, from bytes already decoded.                    *)
LEMMA MatchDecoded ==
  ASSUME NEW s \in Seq(Bytes), NEW u, Decoded(u, s), NEW n, Sound(s, n), n.length # 0,
         Len(u) = Covers(n)
  PROVE  LET v == Repeated(u, n.offset, n.length)
         IN  v \in Seq(Bytes) /\ Decoded(u \o v, s) /\ Len(u \o v) = Reach(n)
<1> DEFINE out    == Covers(n)
           offset == n.offset
           length == n.length
           v      == Repeated(u, offset, length)
<1>1. /\ out \in Nat /\ length \in Nat /\ offset \in Nat \ {0} /\ offset <= out
      /\ Repeats(s, out, offset, length)
  <2>1. out \in Nat /\ length \in Nat /\ offset \in Nat
    BY SequenceIs
  <2>2. 1 <= offset /\ offset <= out /\ Repeats(s, out, offset, length)
    BY DEF Sound, SoundMatch
  <2> QED BY <2>1, <2>2
<1>2. Reach(n) = out + length /\ Reach(n) <= Len(s)
  BY SequenceIs DEF Sound
<1>3. u \in Seq(Bytes) /\ Len(u) = out /\ \A k \in 1 .. out : u[k] = s[k]
  BY DEF Decoded
<1> HIDE DEF out, offset, length, v
<1>4. /\ v \in Seq(Bytes) /\ Len(v) = length
      /\ \A k \in 1 .. length : v[k] = u[Len(u) - offset + 1 + ((k - 1) % offset)]
  <2>1. offset <= Len(u)
    BY <1>1, <1>3
  <2> QED BY <1>1, <1>3, <2>1, RepeatedIs DEF v
<1>5. \A k \in 1 .. length : s[out + k] = s[out - offset + 1 + ((k - 1) % offset)]
  <2>1. Periodic(s, out, offset, length)
    BY ONLY <1>1, PeriodicIs
  <2> QED BY <2>1 DEF Periodic
<1>6. ASSUME NEW k \in 1 .. length PROVE v[k] = s[out + k]
  <2> DEFINE r == (k - 1) % offset
             i == out - offset + 1 + r
  <2>1. k - 1 \in Nat
    BY <1>1
  <2>2. r \in 0 .. offset - 1
    <3> DEFINE y == k - 1
    <3>1. y \in Nat
      BY <2>1
    <3> HIDE DEF y
    <3>2. y % offset \in 0 .. offset - 1
      BY <1>1, <3>1, DivMod
    <3> QED BY <3>2 DEF y
  <2>3. s[out + k] = s[i]
    BY <1>5
  <2>4. v[k] = u[i]
    BY <1>3, <1>4
  <2> HIDE DEF r
  <2>5. i \in 1 .. out
    BY <1>1, <2>2
  <2> HIDE DEF i
  <2> QED BY <1>3, <2>3, <2>4, <2>5
<1>7. Len(u) + Len(v) <= Len(s) /\ \A k \in 1 .. Len(v) : v[k] = s[Len(u) + k]
  BY <1>2, <1>3, <1>4, <1>6
<1>8. Decoded(u \o v, s) /\ Len(u \o v) = Len(u) + Len(v)
  BY <1>4, <1>7, DecodedMore
<1>9. Len(u \o v) = Reach(n)
  BY <1>2, <1>3, <1>4, <1>8
<1> QED BY <1>4, <1>8, <1>9 DEF v, offset, length

LEMMA SamePage ==
  ASSUME NEW s, NEW u, s \in Seq(Bytes), Decoded(u, s), Len(u) = Len(s)
  PROVE  u = s
<1>1. u \in Seq(Bytes) /\ \A k \in 1 .. Len(u) : u[k] = s[k]
  BY DEF Decoded
<1> QED BY <1>1, SeqEqual

-----------------------------------------------------------------------------
(* Where the decoder is *)

(* At i a sequence x of a block for the page s, that goes on at o.         *)
SequenceAt(s, d, i, o, x) ==
  \E mark, last, n : /\ Whole(s, d, mark, last, n)
                     /\ Continues(mark, last, n.out, i, o)
                     /\ x = IF i = last THEN n ELSE mark[i]

AnySequence(s, d, i, x) ==
  /\ i \in Nat /\ Sound(s, x) /\ Stored(s, d, i, x)
  /\ LitsEnd(i, x.lits) <= Len(d)

LastSequence(s, d, i, x) ==
  LitsEnd(i, x.lits) = Len(d) /\ Covers(x) = Len(s) /\ Reach(x) = Len(s)

(* Behind a match there is a sequence, and room for the copies in chunks.  *)
MatchSequence(s, d, i, x) ==
  /\ SeqEnd(i, x) + 1 + LASTLITERALS <= Len(d)
  /\ LitsEnd(i, x.lits) + 3 + LASTLITERALS <= Len(d)
  /\ Covers(x) + MFLIMIT <= Len(s) /\ Reach(x) + LASTLITERALS <= Len(s)
  /\ x.offset \in Nat \ {0} /\ x.offset <= Covers(x)
  /\ \E y : SequenceAt(s, d, SeqEnd(i, x), Reach(x), y)

LEMMA LastAt ==
  ASSUME NEW s, NEW d \in Seq(Bytes), NEW mark, NEW last, NEW n, Whole(s, d, mark, last, n)
  PROVE  AnySequence(s, d, last, n) /\ LastSequence(s, d, last, n)
<1>1. /\ last \in Nat /\ Sound(s, n) /\ Stored(s, d, last, n) /\ n.length = 0
      /\ SeqEnd(last, n) = Len(d) /\ Reach(n) = Len(s)
  BY DEF Whole
<1>2. Len(d) \in Nat /\ LitsEnd(last, n.lits) = SeqEnd(last, n)
  BY <1>1, LenProperties DEF SeqEnd
<1>3. Covers(n) \in Nat /\ Reach(n) = Covers(n) + n.length
  BY <1>1, SequenceIs
<1>4. Covers(n) = Reach(n)
  BY <1>1, <1>3
<1> QED BY <1>1, <1>2, <1>4 DEF AnySequence, LastSequence

LEMMA EarlierAt ==
  ASSUME NEW s, NEW d \in Seq(Bytes), NEW mark, NEW last, NEW n, Whole(s, d, mark, last, n),
         NEW i \in DOMAIN mark
  PROVE  /\ AnySequence(s, d, i, mark[i]) /\ mark[i].length # 0
         /\ MatchSequence(s, d, i, mark[i])
<1> DEFINE x == mark[i]
<1>1. /\ last \in Nat /\ Sound(s, n) /\ Stored(s, d, last, n) /\ n.length = 0
      /\ SeqEnd(last, n) = Len(d) /\ (last = 0 \/ n.lits >= LASTLITERALS)
      /\ Written(s, d, mark, last, n.out)
  BY DEF Whole
<1>2. /\ i \in Nat /\ x.length # 0 /\ SeqEnd(i, x) <= last /\ Sound(s, x) /\ Stored(s, d, i, x)
      /\ Continues(mark, last, n.out, SeqEnd(i, x), Reach(x))
  BY <1>1 DEF Written
<1> HIDE DEF x
<1>3. /\ SeqEnd(i, x) \in Nat /\ SeqEnd(i, x) >= LitsEnd(i, x.lits) + 2 /\ SeqEnd(i, x) > i
      /\ LitsEnd(i, x.lits) \in Nat
  BY <1>2, SequenceIs, SequenceAfter
<1>4. /\ LitsEnd(last, n.lits) = LitsAt(last, n.lits) + n.lits
      /\ LitsAt(last, n.lits) \in Nat /\ LitsAt(last, n.lits) > last /\ n.lits \in Nat
      /\ LitsEnd(last, n.lits) = Len(d)
  BY <1>1, SequenceIs DEF SeqEnd
<1>5. LASTLITERALS \in Nat
  BY FormatFacts
<1>6. /\ SeqEnd(i, x) + 1 + LASTLITERALS <= Len(d)
      /\ LitsEnd(i, x.lits) + 3 + LASTLITERALS <= Len(d)
      /\ LitsEnd(i, x.lits) <= Len(d)
  <2> DEFINE a == SeqEnd(i, x)
             b == LitsEnd(i, x.lits)
             c == LitsAt(last, n.lits)
             l == n.lits
             e == Len(d)
  <2>1. /\ a \in Nat /\ b \in Nat /\ c \in Nat /\ l \in Nat /\ a >= b + 2 /\ a > i /\ a <= last
        /\ c > last /\ e = c + l /\ (last = 0 \/ l >= LASTLITERALS) /\ last \in Nat /\ i \in Nat
    BY <1>1, <1>2, <1>3, <1>4
  <2> HIDE DEF a, b, c, l, e
  <2>2. a + 1 + LASTLITERALS <= e /\ b + 3 + LASTLITERALS <= e /\ b <= e
    BY <1>5, <2>1
  <2> QED BY <2>2 DEF a, b, e
<1>7. /\ Covers(x) + MFLIMIT <= Len(s) /\ Reach(x) + LASTLITERALS <= Len(s)
      /\ x.offset \in Nat \ {0} /\ x.offset <= Covers(x)
  <2>1. x.offset \in Nat /\ 1 <= x.offset
    BY <1>2, SequenceIs DEF Sound, SoundMatch
  <2>2. x.offset # 0
    BY <2>1
  <2> QED BY <1>2, <2>1, <2>2 DEF Sound, SoundMatch
<1>8. \E y : SequenceAt(s, d, SeqEnd(i, x), Reach(x), y)
  BY <1>2 DEF SequenceAt
<1>9. AnySequence(s, d, i, x) /\ MatchSequence(s, d, i, x)
  BY <1>2, <1>6, <1>7, <1>8 DEF AnySequence, MatchSequence
<1> QED BY <1>2, <1>9 DEF x

LEMMA SequenceAtIs ==
  ASSUME NEW s, NEW d \in Seq(Bytes), NEW i, NEW o, NEW x, SequenceAt(s, d, i, o, x)
  PROVE  /\ AnySequence(s, d, i, x) /\ x.out = o
         /\ x.length = 0 => LastSequence(s, d, i, x)
         /\ x.length # 0 => MatchSequence(s, d, i, x)
<1>1. PICK mark, last, n : /\ Whole(s, d, mark, last, n)
                           /\ Continues(mark, last, n.out, i, o)
                           /\ x = IF i = last THEN n ELSE mark[i]
  BY DEF SequenceAt
<1>2. CASE i = last
  <2>1. x = n /\ o = n.out /\ n.length = 0
    BY <1>1, <1>2 DEF Continues, Whole
  <2> QED BY <1>1, <1>2, <2>1, LastAt
<1>3. CASE i # last
  <2>1. x = mark[i] /\ i \in DOMAIN mark /\ mark[i].out = o
    BY <1>1, <1>3 DEF Continues
  <2> QED BY <1>1, <2>1, EarlierAt
<1> QED BY <1>2, <1>3

(* The first sequence of a complete block.                                 *)
LEMMA FirstSequence ==
  ASSUME NEW s, NEW d, Complete(s, d)
  PROVE  \E x : SequenceAt(s, d, 0, 0, x)
<1>1. PICK mark, last, n : Whole(s, d, mark, last, n)
  BY DEF Complete
<1>2. Continues(mark, last, n.out, 0, 0)
  BY <1>1 DEF Whole, Written
<1> QED BY <1>1, <1>2 DEF SequenceAt

(* What the format promises the decoder: that a chunk written or read too  *)
(* far by one copy is still inside page and block (15, 15; 4, 8, 5).       *)
SafeDistances == /\ ML_MASK <= RUN_MASK
                 /\ 2 <= MINMATCH /\ MINMATCH <= WILDCOPYLENGTH
                 /\ WILDCOPYLENGTH <= LASTLITERALS + 3

(* The decoder is at a sequence, or behind the literals of one.            *)
AtToken == \E x : SequenceAt(src, dest, sequence, opOut, x)

AtMatch == \E o, x : /\ SequenceAt(src, dest, sequence, o, x) /\ x.length # 0
                     /\ dip = LitsEnd(sequence, x.lits) /\ opOut = Covers(x)

(* Where the decoder is, and that what it has decoded is the page.         *)
Reading ==
  /\ dpc \in {"idle", "fast", "fastmatch", "safe", "literals", "match", "decoded"}
  /\ dpc = "idle" => sequence = 0 /\ dip = 0 /\ text = <<>>
  /\ dpc # "idle" => pc = "compressed"
  /\ Decoded(text, src)
  /\ sequence \in 0 .. iend /\ dip \in 0 .. iend
  /\ dpc \in {"fast", "safe", "literals"} => AtToken
  /\ dpc \in {"fastmatch", "match"} => AtMatch
  /\ dpc = "decoded" => Len(text) = Len(src)

(* What has been written and read, with what copies do in advance.         *)
Extents ==
  /\ wrote \in 0 .. oend /\ fetched \in 0 .. iend
  /\ dpc = "idle" => fetched = 0
  /\ dpc = "fast" => opOut + FASTLOOP_SAFE_DISTANCE <= oend

LEMMA ReadingFacts ==
  ASSUME Compressor, Tape, Reading
  PROVE  /\ src \in Seq(Bytes) /\ dest \in Seq(Bytes)
         /\ Len(src) \in Nat /\ Len(dest) \in Nat
         /\ oend = Len(src) /\ iend = Len(dest) /\ oend \in Nat /\ iend \in Nat
         /\ text \in Seq(Bytes) /\ opOut = Len(text) /\ opOut \in Nat /\ opOut <= oend
         /\ sequence \in Nat /\ dip \in Nat
         /\ pc = "compressed" => Complete(src, dest)
<1>1. src \in Seq(Bytes) /\ dest \in Seq(Bytes)
  BY DEF Compressor, Searching, Positions, BlockTyped
<1>2. text \in Seq(Bytes) /\ Len(text) <= Len(src)
  BY DEF Reading, Decoded
<1>3. Len(src) \in Nat /\ Len(dest) \in Nat /\ Len(text) \in Nat
  BY <1>1, <1>2, LenProperties
<1>4. oend = Len(src) /\ iend = Len(dest) /\ opOut = Len(text)
  BY DEF oend, inputSize, iend, opOut
<1>5. sequence \in Nat /\ dip \in Nat
  BY DEF Reading
<1> QED BY <1>1, <1>2, <1>3, <1>4, <1>5 DEF Tape

(* What a step of the decoder leaves alone.                                *)
LEMMA BlockStays ==
  ASSUME UNCHANGED compressVars
  PROVE  /\ src' = src /\ dest' = dest /\ pc' = pc /\ oend' = oend /\ iend' = iend
         /\ FASTLOOP_SAFE_DISTANCE' = FASTLOOP_SAFE_DISTANCE
  BY DEF compressVars, oend, inputSize, iend, FASTLOOP_SAFE_DISTANCE

(* A copy that stays inside. *)
LEMMA Produced ==
  ASSUME NEW bytes, NEW w, NEW r, Produce(bytes, w, r), NEW m \in Nat, NEW n \in Nat,
         wrote \in 0 .. m, fetched \in 0 .. n, w \in 0 .. m, r \in 0 .. n
  PROVE  wrote' \in 0 .. m /\ fetched' \in 0 .. n
<1>1. wrote' = Max({wrote, w}) /\ fetched' = Max({fetched, r})
  BY DEF Produce
<1>2. Max({wrote, w}) \in {wrote, w} /\ Max({fetched, r}) \in {fetched, r}
  BY MaxOf
<1> QED BY <1>1, <1>2

LEMMA DecompressReads ==
  ASSUME Compressor, Tape, Reading, Decompress
  PROVE  Reading' /\ (Extents => Extents')
<1>1. /\ pc = "compressed" /\ dpc = "idle" /\ dpc' \in {"fast", "safe"}
      /\ dpc' = "fast" => ~ (oend < FASTLOOP_SAFE_DISTANCE)
      /\ sequence' = sequence /\ dip' = dip /\ text' = text /\ wrote' = wrote
      /\ fetched' = fetched /\ UNCHANGED compressVars
  BY DEF Decompress
<1>2. /\ src' = src /\ dest' = dest /\ pc' = pc /\ oend' = oend /\ iend' = iend
      /\ FASTLOOP_SAFE_DISTANCE' = FASTLOOP_SAFE_DISTANCE
  BY <1>1, BlockStays
<1>3. /\ src \in Seq(Bytes) /\ dest \in Seq(Bytes) /\ oend \in Nat /\ opOut = Len(text)
      /\ Complete(src, dest)
  BY <1>1, ReadingFacts
<1>4. sequence = 0 /\ dip = 0 /\ text = <<>>
  BY <1>1 DEF Reading
<1>5. opOut = 0 /\ opOut' = opOut
  BY <1>1, <1>3, <1>4 DEF opOut
<1>6. AtToken'
  <2>1. \E x : SequenceAt(src, dest, 0, 0, x)
    BY <1>3, FirstSequence
  <2> QED BY <1>1, <1>2, <1>4, <1>5, <2>1 DEF AtToken
<1>7. Decoded(text, src)' /\ sequence' \in 0 .. iend' /\ dip' \in 0 .. iend'
  BY <1>1, <1>2 DEF Reading, Decoded
<1>8. Reading'
  BY <1>1, <1>2, <1>6, <1>7 DEF Reading
<1>9. Extents => Extents'
  <2> SUFFICES ASSUME Extents PROVE Extents'
    OBVIOUS
  <2>1. WILDCOPYLENGTH \in Nat
    BY FormatFacts
  <2>2. FASTLOOP_SAFE_DISTANCE \in Nat
    BY <2>1 DEF FASTLOOP_SAFE_DISTANCE
  <2>3. dpc' = "fast" => opOut + FASTLOOP_SAFE_DISTANCE <= oend
    BY <1>1, <1>3, <1>5, <2>2
  <2> QED BY <1>1, <1>2, <1>5, <2>3 DEF Extents
<1> QED BY <1>8, <1>9

(* The literals of a sequence have been decoded.                           *)
LEMMA ReadingLiterals ==
  ASSUME Compressor, Tape, Reading, pc = "compressed", UNCHANGED compressVars,
         NEW x, SequenceAt(src, dest, sequence, opOut, x),
         text' = text \o LiteralsAt(LitsAt(sequence, x.lits), x.lits),
         dip' = LitsEnd(sequence, x.lits), sequence' = sequence,
         \/ x.length # 0 /\ dpc' \in {"fastmatch", "match"}
         \/ x.length = 0 /\ dpc' = "decoded"
  PROVE  Reading' /\ Len(text') = Covers(x)
<1>1. /\ src' = src /\ dest' = dest /\ pc' = pc /\ oend' = oend /\ iend' = iend
  BY BlockStays
<1>2. /\ src \in Seq(Bytes) /\ dest \in Seq(Bytes) /\ Len(dest) \in Nat /\ iend = Len(dest)
      /\ opOut = Len(text) /\ sequence \in Nat
  BY ReadingFacts
<1>3. /\ AnySequence(src, dest, sequence, x) /\ x.out = opOut
      /\ x.length = 0 => LastSequence(src, dest, sequence, x)
  BY <1>2, SequenceAtIs
<1>4. /\ Sound(src, x) /\ Stored(src, dest, sequence, x)
      /\ LitsEnd(sequence, x.lits) <= Len(dest)
  BY <1>3 DEF AnySequence
<1>5. Decoded(text', src) /\ Len(text') = Covers(x)
  <2> DEFINE v == LiteralsAt(LitsAt(sequence, x.lits), x.lits)
  <2>1. Decoded(text, src) /\ Len(text) = x.out
    BY <1>2, <1>3 DEF Reading
  <2>2. Decoded(text \o v, src) /\ Len(text \o v) = Covers(x)
    BY <1>2, <1>4, <2>1, LiteralsDecoded
  <2> QED BY <2>2
<1>6. dip' \in 0 .. iend' /\ sequence' \in 0 .. iend'
  <2>1. LitsEnd(sequence, x.lits) \in Nat
    BY <1>2, <1>4, SequenceIs
  <2>2. dip' \in 0 .. iend
    BY <1>2, <1>4, <2>1
  <2> QED BY <1>1, <2>2 DEF Reading
<1>7. opOut' = Covers(x)
  BY <1>5 DEF opOut
<1>8. dpc' \in {"fastmatch", "match"} => AtMatch'
  <2> SUFFICES ASSUME dpc' \in {"fastmatch", "match"} PROVE AtMatch'
    OBVIOUS
  <2>1. SequenceAt(src', dest', sequence', opOut, x) /\ x.length # 0
        /\ dip' = LitsEnd(sequence', x.lits)
    BY <1>1
  <2> QED BY <1>7, <2>1 DEF AtMatch
<1>9. dpc' = "decoded" => Len(text') = Len(src')
  BY <1>1, <1>3, <1>5 DEF LastSequence
<1>10. Decoded(text, src)'
  BY <1>1, <1>5 DEF Decoded
<1>11. /\ dpc' \in {"fastmatch", "match", "decoded"} /\ pc' = "compressed"
  BY <1>1
<1>12. Reading'
  BY <1>6, <1>8, <1>9, <1>10, <1>11 DEF Reading
<1> QED BY <1>5, <1>12

(* A match, too: the decoder is at the sequence behind it.                 *)
LEMMA ReadingMatch ==
  ASSUME Compressor, Tape, Reading, pc = "compressed", UNCHANGED compressVars,
         NEW o, NEW x, SequenceAt(src, dest, sequence, o, x), x.length # 0,
         NEW u, Decoded(u, src), Len(u) = Covers(x),
         text' = u \o Repeated(u, x.offset, x.length),
         sequence' = SeqEnd(sequence, x), dip' \in {dip, SeqEnd(sequence, x)},
         dpc' \in {"fast", "safe"}
  PROVE  Reading' /\ Len(text') = Reach(x)
<1>1. /\ src' = src /\ dest' = dest /\ pc' = pc /\ oend' = oend /\ iend' = iend
  BY BlockStays
<1>2. /\ src \in Seq(Bytes) /\ dest \in Seq(Bytes) /\ Len(dest) \in Nat /\ iend = Len(dest)
      /\ opOut = Len(text) /\ sequence \in Nat
  BY ReadingFacts
<1>3. AnySequence(src, dest, sequence, x) /\ MatchSequence(src, dest, sequence, x)
  BY <1>2, SequenceAtIs
<1>4. Sound(src, x)
  BY <1>3 DEF AnySequence
<1>5. Decoded(text', src) /\ Len(text') = Reach(x)
  <2> DEFINE v == Repeated(u, x.offset, x.length)
  <2>1. Decoded(u \o v, src) /\ Len(u \o v) = Reach(x)
    BY <1>2, <1>4, MatchDecoded
  <2> QED BY <2>1
<1>6. SeqEnd(sequence, x) \in 0 .. iend
  <2>1. SeqEnd(sequence, x) \in Nat
    BY <1>2, <1>4, SequenceIs
  <2>2. LASTLITERALS \in Nat /\ SeqEnd(sequence, x) + 1 + LASTLITERALS <= iend
    BY <1>2, <1>3, FormatFacts DEF MatchSequence
  <2> DEFINE e == SeqEnd(sequence, x)
  <2>3. e \in Nat /\ e + 1 + LASTLITERALS <= iend /\ iend \in Nat
    BY <1>2, <2>1, <2>2
  <2> HIDE DEF e
  <2>4. e \in 0 .. iend
    BY <2>2, <2>3
  <2> QED BY <2>4 DEF e
<1>7. sequence' \in 0 .. iend' /\ dip' \in 0 .. iend'
  <2>1. dip \in 0 .. iend
    BY DEF Reading
  <2> QED BY <1>1, <1>6, <2>1
<1>8. AtToken'
  <2>1. \E y : SequenceAt(src, dest, SeqEnd(sequence, x), Reach(x), y)
    BY <1>3 DEF MatchSequence
  <2>2. opOut' = Reach(x)
    BY <1>5 DEF opOut
  <2> QED BY <1>1, <2>1, <2>2 DEF AtToken
<1>9. Decoded(text, src)'
  BY <1>1, <1>5 DEF Decoded
<1>10. Reading'
  BY <1>1, <1>7, <1>8, <1>9 DEF Reading
<1> QED BY <1>5, <1>10

(* A sequence the decoder is at, as numbers.                               *)
LEMMA AtTokenIs ==
  ASSUME Compressor, Tape, Reading, pc = "compressed",
         NEW x, SequenceAt(src, dest, sequence, opOut, x)
  PROVE  /\ x.lits \in Nat /\ x.length \in Nat /\ x.out = opOut
         /\ LitsAt(sequence, x.lits) \in Nat /\ LitsAt(sequence, x.lits) > sequence
         /\ LitsEnd(sequence, x.lits) = LitsAt(sequence, x.lits) + x.lits
         /\ LitsEnd(sequence, x.lits) <= iend
         /\ Covers(x) \in Nat /\ Covers(x) = opOut + x.lits
         /\ Reach(x) = Covers(x) + x.length
         /\ LiteralRun = [ok |-> TRUE, length |-> x.lits, next |-> LitsAt(sequence, x.lits)]
         /\ LiteralCode = Min({x.lits, RUN_MASK})
         /\ MatchCodeOf = Code(x) /\ MatchCodeOf \in 0 .. ML_MASK
         /\ Sound(src, x) /\ Stored(src, dest, sequence, x)
         /\ x.length = 0 => LitsEnd(sequence, x.lits) = iend /\ Covers(x) = oend
         /\ x.length # 0 => MatchSequence(src, dest, sequence, x)
<1>1. /\ src \in Seq(Bytes) /\ dest \in Seq(Bytes) /\ iend = Len(dest) /\ oend = Len(src)
      /\ sequence \in Nat
  BY ReadingFacts
<1>2. /\ AnySequence(src, dest, sequence, x) /\ x.out = opOut
      /\ x.length = 0 => LastSequence(src, dest, sequence, x)
      /\ x.length # 0 => MatchSequence(src, dest, sequence, x)
  BY <1>1, SequenceAtIs
<1>3. /\ Sound(src, x) /\ Stored(src, dest, sequence, x)
      /\ LitsEnd(sequence, x.lits) <= iend
  BY <1>1, <1>2 DEF AnySequence
<1>4. /\ x.lits \in Nat /\ x.length \in Nat
      /\ LitsAt(sequence, x.lits) \in Nat /\ LitsAt(sequence, x.lits) > sequence
      /\ LitsEnd(sequence, x.lits) = LitsAt(sequence, x.lits) + x.lits
      /\ Covers(x) \in Nat /\ Reach(x) = Covers(x) + x.length
  BY <1>1, <1>3, SequenceIs
<1>5. Covers(x) = opOut + x.lits
  BY <1>2 DEF Covers
<1>6. LiteralRun = [ok |-> TRUE, length |-> x.lits, next |-> LitsAt(sequence, x.lits)]
  BY <1>1, <1>3, RunRead
<1>7. LiteralCode = Min({x.lits, RUN_MASK}) /\ MatchCodeOf = Code(x) /\ MatchCodeOf \in 0 .. ML_MASK
  BY <1>3, TokenRead
<1>8. x.length = 0 => LitsEnd(sequence, x.lits) = iend /\ Covers(x) = oend
  BY <1>1, <1>2 DEF LastSequence
<1> QED BY <1>2, <1>3, <1>4, <1>5, <1>6, <1>7, <1>8

(* The chunks of the fast loop. *)
LEMMA FastExtent ==
  ASSUME NEW lits \in Nat, NEW o \in Nat, NEW e \in Nat, NEW oe \in Nat, NEW ie \in Nat,
         NEW W \in Nat \ {0}, NEW stripe, stripe \in {4 * W, 2 * W},
         o + (8 * W) <= oe,
         \/ o + lits <= oe - stripe /\ e + lits <= ie - stripe
         \/ e <= ie - (stripe + 1) /\ lits <= stripe
  PROVE  o + WholeChunks(lits, stripe) \in 0 .. oe /\ e + WholeChunks(lits, stripe) \in 0 .. ie
<1> DEFINE c == WholeChunks(lits, stripe)
<1>1. stripe \in Nat \ {0} /\ stripe <= 4 * W
  OBVIOUS
<1>2. c \in Nat /\ (c = stripe \/ (lits > stripe /\ c <= lits + stripe - 1))
  <2>1. lits \in Int /\ lits + stripe - 1 \in Nat
    BY <1>1
  <2> QED BY <1>1, <2>1, ChunksTight
<1> HIDE DEF c
<1>3. o + c \in 0 .. oe /\ e + c \in 0 .. ie
  BY <1>1, <1>2
<1> QED BY <1>3 DEF c

LEMMA FastLiteralsReads ==
  ASSUME Compressor, Tape, Reading, FastLiterals
  PROVE  Reading' /\ (Extents => Extents')
<1>0. dpc = "fast" /\ UNCHANGED compressVars /\ sequence' = sequence /\ pc = "compressed"
  BY DEF FastLiterals, Reading
<1>1. PICK x : SequenceAt(src, dest, sequence, opOut, x)
  BY <1>0 DEF Reading, AtToken
<1> DEFINE lits   == x.lits
           at     == LitsAt(sequence, lits)
           end    == LitsEnd(sequence, lits)
           many   == LiteralCode = RUN_MASK
           stripe == (IF many THEN 4 ELSE 2) * WILDCOPYLENGTH
           extent == WholeChunks(lits, stripe)
           room   == IF many THEN opOut + lits <= oend - stripe /\ at + lits <= iend - stripe
                             ELSE at <= iend - (stripe + 1)
<1>2. /\ lits \in Nat /\ at \in Nat /\ end = at + lits /\ end <= iend /\ at > sequence
      /\ LiteralRun = [ok |-> TRUE, length |-> lits, next |-> at]
      /\ LiteralCode = Min({lits, RUN_MASK})
      /\ x.length = 0 => end = iend
  BY <1>0, <1>1, AtTokenIs
<1>3. opOut \in Nat /\ oend \in Nat /\ iend \in Nat /\ sequence \in Nat
  BY ReadingFacts
<1>4. WILDCOPYLENGTH \in Nat \ {0} /\ RUN_MASK \in Nat /\ RUN_MASK = (2 * WILDCOPYLENGTH) - 1
  BY FormatAssumption
<1>5. /\ many => stripe = 4 * WILDCOPYLENGTH /\ lits >= RUN_MASK
      /\ ~ many => stripe = 2 * WILDCOPYLENGTH /\ lits < RUN_MASK
      /\ stripe \in {4 * WILDCOPYLENGTH, 2 * WILDCOPYLENGTH} /\ stripe \in Nat
  <2> HIDE DEF lits, at, end
  <2>1. Min({lits, RUN_MASK}) = IF lits <= RUN_MASK THEN lits ELSE RUN_MASK
    BY <1>2, <1>4, MinOfTwo
  <2> QED BY <1>2, <1>4, <2>1
<1>6. \/ /\ room
         /\ Produce(LiteralsAt(at, lits), opOut + extent, at + extent)
         /\ dip' = at + lits /\ dpc' = "fastmatch"
      \/ ~ room /\ dpc' = "literals" /\ UNCHANGED <<dip, text, wrote, fetched>>
  <2> HIDE DEF lits, at
  <2>1. LiteralRun.ok = TRUE /\ LiteralRun.length = lits /\ LiteralRun.next = at
    BY <1>2
  <2> HIDE <1>2
  <2> QED BY <2>1 DEF FastLiterals
<1> HIDE DEF many, stripe, extent
<1>7. CASE /\ room
           /\ Produce(LiteralsAt(at, lits), opOut + extent, at + extent)
           /\ dip' = at + lits /\ dpc' = "fastmatch"
  <2>1. x.length # 0
    <3> DEFINE l == x.length
    <3> HIDE DEF lits, at, end, l
    <3>1. end # iend
      BY <1>2, <1>3, <1>4, <1>5, <1>7
    <3> QED BY <1>2, <3>1 DEF l
  <2>2. text' = text \o LiteralsAt(at, lits)
    BY <1>7 DEF Produce
  <2>3. dip' = end
    BY <1>2, <1>7
  <2>4. Reading' /\ Len(text') = Covers(x)
    <3>1. x.length # 0 /\ dpc' \in {"fastmatch", "match"}
      BY <1>7, <2>1
    <3> QED BY <1>0, <1>1, <2>2, <2>3, <3>1, ReadingLiterals
  <2>5. ASSUME Extents PROVE Extents'
    <3> HIDE DEF lits, at, end
    <3>1. wrote \in 0 .. oend /\ fetched \in 0 .. iend /\ opOut + (8 * WILDCOPYLENGTH) <= oend
      BY <1>0, <2>5 DEF Extents, FASTLOOP_SAFE_DISTANCE
    <3>2. \/ opOut + lits <= oend - stripe /\ at + lits <= iend - stripe
          \/ at <= iend - (stripe + 1) /\ lits <= stripe
      BY <1>2, <1>3, <1>4, <1>5, <1>7
    <3>3. opOut + extent \in 0 .. oend /\ at + extent \in 0 .. iend
      <4> DEFINE o  == opOut
                 oe == oend
                 ie == iend
                 W  == WILDCOPYLENGTH
      <4>1. /\ lits \in Nat /\ at \in Nat /\ o \in Nat /\ oe \in Nat /\ ie \in Nat
            /\ W \in Nat \ {0} /\ stripe \in {4 * W, 2 * W} /\ o + (8 * W) <= oe
        <5>1. lits \in Nat /\ at \in Nat
          BY <1>2
        <5>2. o \in Nat /\ oe \in Nat /\ ie \in Nat
          BY <1>3
        <5>3. W \in Nat \ {0} /\ stripe \in {4 * W, 2 * W}
          BY ONLY <1>4, <1>5
        <5>4. o + (8 * W) <= oe
          BY ONLY <3>1
        <5> QED BY <5>1, <5>2, <5>3, <5>4
      <4>2. \/ o + lits <= oe - stripe /\ at + lits <= ie - stripe
            \/ at <= ie - (stripe + 1) /\ lits <= stripe
        BY <3>2
      <4> HIDE DEF o, oe, ie, W
      <4>3. o + WholeChunks(lits, stripe) \in 0 .. oe /\ at + WholeChunks(lits, stripe) \in 0 .. ie
        BY ONLY <4>1, <4>2, FastExtent
      <4> QED BY <4>3 DEF o, oe, ie, extent
    <3>4. wrote' \in 0 .. oend /\ fetched' \in 0 .. iend
      BY <1>3, <1>7, <3>1, <3>3, Produced
    <3>5. oend' = oend /\ iend' = iend
      BY <1>0, BlockStays
    <3> QED BY <1>7, <3>4, <3>5 DEF Extents
  <2> QED BY <2>4, <2>5
<1>8. CASE ~ room /\ dpc' = "literals" /\ UNCHANGED <<dip, text, wrote, fetched>>
  <2>1. /\ src' = src /\ dest' = dest /\ pc' = pc /\ oend' = oend /\ iend' = iend
        /\ opOut' = opOut
    BY <1>0, <1>8, BlockStays DEF opOut
  <2>2. AtToken'
    BY <1>0, <1>1, <2>1 DEF AtToken
  <2>3. Decoded(text, src)'
    BY <1>8, <2>1 DEF Reading, Decoded
  <2>4. sequence' \in 0 .. iend' /\ dip' \in 0 .. iend' /\ pc' = "compressed" /\ dpc' = "literals"
    BY <1>0, <1>8, <2>1 DEF Reading
  <2>5. Reading'
    BY <2>2, <2>3, <2>4 DEF Reading
  <2>6. Extents => Extents'
    BY <1>0, <1>8, <2>1 DEF Extents
  <2> QED BY <2>5, <2>6
<1> QED BY <1>6, <1>7, <1>8

(* A match the decoder comes to, as numbers.                               *)
LEMMA AtMatchIs ==
  ASSUME Compressor, Tape, Reading, pc = "compressed",
         NEW o, NEW x, SequenceAt(src, dest, sequence, o, x), x.length # 0
  PROVE  /\ MatchAt(LitsEnd(sequence, x.lits)) = [ok |-> TRUE, next |-> SeqEnd(sequence, x),
                                                  length |-> x.length, offset |-> x.offset]
         /\ x.offset \in Nat \ {0} /\ x.offset <= Covers(x) /\ Covers(x) \in Nat
         /\ x.length \in Nat /\ x.length >= MINMATCH /\ Reach(x) = Covers(x) + x.length
         /\ Covers(x) + MFLIMIT <= oend /\ Reach(x) + LASTLITERALS <= oend
         /\ SeqEnd(sequence, x) \in 0 .. iend
         /\ LitsEnd(sequence, x.lits) \in Nat
         /\ LitsEnd(sequence, x.lits) + 3 + LASTLITERALS <= iend
<1>1. /\ src \in Seq(Bytes) /\ dest \in Seq(Bytes) /\ iend = Len(dest) /\ oend = Len(src)
      /\ sequence \in Nat /\ iend \in Nat
  BY ReadingFacts
<1>2. AnySequence(src, dest, sequence, x) /\ MatchSequence(src, dest, sequence, x)
  BY <1>1, SequenceAtIs
<1>3. Sound(src, x) /\ Stored(src, dest, sequence, x)
  BY <1>2 DEF AnySequence
<1>4. /\ SeqEnd(sequence, x) + 1 + LASTLITERALS <= iend
      /\ LitsEnd(sequence, x.lits) + 3 + LASTLITERALS <= iend
      /\ Covers(x) + MFLIMIT <= oend /\ Reach(x) + LASTLITERALS <= oend
      /\ x.offset \in Nat \ {0} /\ x.offset <= Covers(x)
  BY <1>1, <1>2 DEF MatchSequence
<1>5. MatchAt(LitsEnd(sequence, x.lits)) = [ok |-> TRUE, next |-> SeqEnd(sequence, x),
                                            length |-> x.length, offset |-> x.offset]
  BY <1>1, <1>3, <1>4, MatchRead
<1>6. /\ Covers(x) \in Nat /\ Reach(x) = Covers(x) + x.length /\ x.length \in Nat
      /\ SeqEnd(sequence, x) \in Nat /\ LitsEnd(sequence, x.lits) \in Nat
  BY <1>1, <1>3, SequenceIs
<1>7. SeqEnd(sequence, x) \in 0 .. iend
  <2> DEFINE e == SeqEnd(sequence, x)
  <2>1. e \in Nat /\ e + 1 + LASTLITERALS <= iend /\ LASTLITERALS \in Nat
    BY <1>4, <1>6, FormatFacts
  <2> HIDE DEF e
  <2>2. e \in 0 .. iend
    BY <1>1, <2>1
  <2> QED BY <2>2 DEF e
<1>8. x.length >= MINMATCH
  BY <1>3 DEF Sound, SoundMatch
<1> QED BY <1>4, <1>5, <1>6, <1>7, <1>8

(* The copies of the fast loop.                                            *)
LEMMA FastMatchExtent ==
  ASSUME NEW o \in Nat, NEW length \in Nat \ {0}, NEW oe \in Nat,
         o + length < oe - (8 * WILDCOPYLENGTH)
  PROVE  /\ SafeDistances => o + MaxShortMatch \in 0 .. oe
         /\ o + WholeChunks(length, WILDCOPYLENGTH) \in 0 .. oe
         /\ o + (WILDCOPYLENGTH + WholeChunks(length - WILDCOPYLENGTH, WILDCOPYLENGTH)) \in 0 .. oe
         /\ o + WholeChunks(length, 2 * (2 * WILDCOPYLENGTH)) \in 0 .. oe
<1> DEFINE W == WILDCOPYLENGTH
           a == WholeChunks(length, W)
           b == WholeChunks(length - W, W)
           c == WholeChunks(length, 2 * (2 * W))
<1>1. /\ W \in Nat \ {0} /\ ML_MASK \in Nat \ {0} /\ MINMATCH \in Nat \ {0}
      /\ RUN_MASK \in Nat /\ 2 * W = RUN_MASK + 1
  BY FormatAssumption
<1>2. o + length < oe - (8 * W)
  OBVIOUS
<1> HIDE DEF W
<1>3. a \in Nat /\ (a = W \/ (length > W /\ a <= length + W - 1))
  <2>1. length \in Int /\ length + W - 1 \in Nat
    BY <1>1
  <2> QED BY <1>1, <2>1, ChunksTight
<1>4. b \in Nat /\ (b = W \/ (length - W > W /\ b <= (length - W) + W - 1))
  <2>1. length - W \in Int /\ (length - W) + W - 1 \in Nat
    BY <1>1
  <2> QED BY <1>1, <2>1, ChunksTight
<1>5. c \in Nat /\ (c = 2 * (2 * W) \/ (length > 2 * (2 * W) /\ c <= length + 2 * (2 * W) - 1))
  <2> DEFINE V == 2 * (2 * W)
  <2>1. length \in Int /\ length + V - 1 \in Nat /\ V \in Nat \ {0}
    BY <1>1
  <2> HIDE DEF V
  <2>2. /\ WholeChunks(length, V) \in Nat
        /\ \/ WholeChunks(length, V) = V
           \/ length > V /\ WholeChunks(length, V) <= length + V - 1
    BY <2>1, ChunksTight
  <2> QED BY <2>2 DEF V
<1> HIDE DEF a, b, c
<1>6. o + a \in 0 .. oe /\ o + (W + b) \in 0 .. oe /\ o + c \in 0 .. oe
  BY <1>1, <1>2, <1>3, <1>4, <1>5
<1>7. SafeDistances => o + MaxShortMatch \in 0 .. oe
  BY <1>1, <1>2 DEF SafeDistances, MaxShortMatch, W
<1> QED BY <1>6, <1>7 DEF a, b, c, W

LEMMA FastMatchReads ==
  ASSUME Compressor, Tape, Reading, FastMatch
  PROVE  Reading' /\ (SafeDistances /\ Extents => Extents')
<1>0. dpc = "fastmatch" /\ UNCHANGED compressVars /\ pc = "compressed"
  BY DEF FastMatch, Reading
<1>1. PICK o, x : /\ SequenceAt(src, dest, sequence, o, x) /\ x.length # 0
                  /\ dip = LitsEnd(sequence, x.lits) /\ opOut = Covers(x)
  BY <1>0 DEF Reading, AtMatch
<1> DEFINE length == x.length
           offset == x.offset
           next   == SeqEnd(sequence, x)
           cpy    == opOut + length
           short  == MatchCodeOf < ML_MASK /\ offset >= WILDCOPYLENGTH
           chunk  == 2 * WILDCOPYLENGTH
           near   == opOut + (IF offset \in {1, 2, 4}
                                THEN WholeChunks(length, WILDCOPYLENGTH)
                                ELSE WILDCOPYLENGTH + WholeChunks(length - WILDCOPYLENGTH,
                                                                  WILDCOPYLENGTH))
           rep    == Repeated(text, offset, length)
           SD     == FASTLOOP_SAFE_DISTANCE
<1>2. /\ MatchAt(dip) = [ok |-> TRUE, next |-> next, length |-> length, offset |-> offset]
      /\ offset \in Nat \ {0} /\ offset <= opOut /\ opOut \in Nat /\ length \in Nat \ {0}
      /\ Reach(x) = cpy /\ next \in 0 .. iend
  BY <1>0, <1>1, AtMatchIs
<1>3. /\ opOut = Len(text) /\ oend \in Nat /\ iend \in Nat /\ text \in Seq(Bytes)
      /\ WILDCOPYLENGTH \in Nat \ {0} /\ SD = 8 * WILDCOPYLENGTH
  BY ReadingFacts, FormatFacts DEF FASTLOOP_SAFE_DISTANCE
<1>4. /\ src' = src /\ dest' = dest /\ pc' = pc /\ oend' = oend /\ iend' = iend /\ SD' = SD
  BY <1>0, BlockStays
<1> HIDE DEF length, offset, next
<1>5. \/ cpy >= oend - SD /\ dpc' = "match" /\ UNCHANGED <<sequence, dip, text, wrote, fetched>>
      \/ /\ ~ (cpy >= oend - SD)
         /\ dpc' = "fast" /\ sequence' = next /\ dip' = next
         /\ \/ short /\ Produce(Copied(text, offset, length, WILDCOPYLENGTH),
                                opOut + MaxShortMatch, next)
            \/ ~ short /\ offset < chunk /\ Produce(WidenedMatch(text, offset, length), near, next)
            \/ ~ short /\ offset >= chunk /\ Produce(Copied(text, offset, length, chunk),
                                                     opOut + WholeChunks(length, 2 * chunk), next)
  <2>1. MatchAt(dip).ok = TRUE /\ MatchAt(dip).next = next /\ MatchAt(dip).length = length
        /\ MatchAt(dip).offset = offset
    BY <1>2
  <2>2. ~ (offset > opOut)
    BY <1>2
  <2>3. offset < chunk \/ offset >= chunk
    BY <1>2, <1>3
  <2> HIDE <1>2
  <2> HIDE DEF SD
  <2> QED BY <2>1, <2>2, <2>3 DEF FastMatch, SD
<1> HIDE DEF SD, short, near
<1>6. CASE cpy >= oend - SD /\ dpc' = "match" /\ UNCHANGED <<sequence, dip, text, wrote, fetched>>
  <2>1. opOut' = opOut
    BY <1>6 DEF opOut
  <2>2. AtMatch'
    BY <1>1, <1>4, <1>6, <2>1 DEF AtMatch
  <2>3. Decoded(text, src)'
    BY <1>4, <1>6 DEF Reading, Decoded
  <2>4. sequence' \in 0 .. iend' /\ dip' \in 0 .. iend' /\ pc' = "compressed"
    BY <1>0, <1>4, <1>6 DEF Reading
  <2>5. Reading'
    BY <1>6, <2>2, <2>3, <2>4 DEF Reading
  <2>6. Extents => Extents'
    BY <1>4, <1>6 DEF Extents
  <2> QED BY <2>5, <2>6
<1>7. ASSUME NEW bytes, NEW w, ~ (cpy >= oend - SD), dpc' = "fast", sequence' = next, dip' = next,
             Produce(bytes, w, next), bytes = rep, SafeDistances => w \in 0 .. oend
      PROVE  Reading' /\ (SafeDistances /\ Extents => Extents')
  <2>1. text' = text \o Repeated(text, x.offset, x.length)
    BY <1>7 DEF Produce, length, offset
  <2>2. Reading' /\ Len(text') = Reach(x)
    <3>1. Decoded(text, src) /\ Len(text) = Covers(x)
      BY <1>1, <1>3 DEF Reading
    <3>2. sequence' = SeqEnd(sequence, x) /\ dip' \in {dip, SeqEnd(sequence, x)}
          /\ dpc' \in {"fast", "safe"}
      BY <1>7 DEF next
    <3> QED BY <1>0, <1>1, <2>1, <3>1, <3>2, ReadingMatch
  <2>3. opOut' = cpy
    BY <1>2, <2>2 DEF opOut
  <2>4. ASSUME SafeDistances, Extents PROVE Extents'
    <3>1. wrote \in 0 .. oend /\ fetched \in 0 .. iend /\ w \in 0 .. oend
      BY <1>7, <2>4 DEF Extents
    <3>2. wrote' \in 0 .. oend /\ fetched' \in 0 .. iend
      BY <1>2, <1>3, <1>7, <3>1, Produced
    <3>3. cpy + SD <= oend
      BY <1>2, <1>3, <1>7
    <3> QED BY <1>4, <1>7, <2>3, <3>2, <3>3 DEF Extents, SD
  <2> QED BY <2>2, <2>4
<1>8. CASE /\ ~ (cpy >= oend - SD)
           /\ dpc' = "fast" /\ sequence' = next /\ dip' = next
           /\ \/ short /\ Produce(Copied(text, offset, length, WILDCOPYLENGTH),
                                  opOut + MaxShortMatch, next)
              \/ ~ short /\ offset < chunk /\ Produce(WidenedMatch(text, offset, length), near, next)
              \/ ~ short /\ offset >= chunk /\ Produce(Copied(text, offset, length, chunk),
                                                       opOut + WholeChunks(length, 2 * chunk), next)
  <2>1. /\ SafeDistances => opOut + MaxShortMatch \in 0 .. oend
        /\ near \in 0 .. oend
        /\ opOut + WholeChunks(length, 2 * chunk) \in 0 .. oend
    <3>1. cpy < oend - (8 * WILDCOPYLENGTH)
      BY <1>2, <1>3, <1>8
    <3> DEFINE p == opOut
               e == oend
    <3>2. p \in Nat /\ e \in Nat /\ length \in Nat \ {0} /\ p + length < e - (8 * WILDCOPYLENGTH)
      BY <1>2, <1>3, <3>1
    <3> HIDE DEF p, e
    <3>3. /\ SafeDistances => p + MaxShortMatch \in 0 .. e
          /\ p + WholeChunks(length, WILDCOPYLENGTH) \in 0 .. e
          /\ p + (WILDCOPYLENGTH + WholeChunks(length - WILDCOPYLENGTH, WILDCOPYLENGTH)) \in 0 .. e
          /\ p + WholeChunks(length, 2 * (2 * WILDCOPYLENGTH)) \in 0 .. e
      BY <3>2, FastMatchExtent
    <3> QED BY <3>3 DEF p, e, near
  <2>2. CASE short /\ Produce(Copied(text, offset, length, WILDCOPYLENGTH),
                              opOut + MaxShortMatch, next)
    <3>1. Copied(text, offset, length, WILDCOPYLENGTH) = rep
      BY <2>2, CopiedIs DEF short
    <3> QED BY <1>7, <1>8, <2>1, <2>2, <3>1
  <2>3. CASE ~ short /\ offset < chunk /\ Produce(WidenedMatch(text, offset, length), near, next)
    <3>1. WidenedMatch(text, offset, length) = rep
      BY <1>2, <1>3, WidenedIs
    <3> QED BY <1>7, <1>8, <2>1, <2>3, <3>1
  <2>4. CASE ~ short /\ offset >= chunk
             /\ Produce(Copied(text, offset, length, chunk),
                        opOut + WholeChunks(length, 2 * chunk), next)
    <3>1. Copied(text, offset, length, chunk) = rep
      BY <2>4, CopiedIs
    <3> QED BY <1>7, <1>8, <2>1, <2>4, <3>1
  <2> QED BY <1>8, <2>2, <2>3, <2>4
<1> QED BY <1>5, <1>6, <1>8

(* The safe loop: the shortcut, or on to safe_literal_copy.                *)
LEMMA SafeSequenceReads ==
  ASSUME Compressor, Tape, Reading, SafeSequence
  PROVE  Reading' /\ (SafeDistances /\ Extents => Extents')
<1>0. dpc = "safe" /\ UNCHANGED compressVars /\ pc = "compressed"
  BY DEF SafeSequence, Reading
<1>1. PICK x : SequenceAt(src, dest, sequence, opOut, x)
  BY <1>0 DEF Reading, AtToken
<1> DEFINE lits  == x.lits
           at    == LitsAt(sequence, lits)
           end   == LitsEnd(sequence, lits)
           code  == LiteralCode
           v     == LiteralsAt(sequence + 1, code)
           m     == MatchAt(sequence + 1 + code)
           o     == opOut + code
           readTo == sequence + 1 + 2 * WILDCOPYLENGTH
           fits  == MatchCodeOf < ML_MASK /\ m.offset >= WILDCOPYLENGTH /\ m.offset <= o
           bytes == v \o Copied(text \o v, m.offset, m.length, WILDCOPYLENGTH)
<1>2. /\ lits \in Nat /\ at \in Nat /\ end = at + lits /\ end <= iend
      /\ LiteralRun = [ok |-> TRUE, length |-> lits, next |-> at]
      /\ code = Min({lits, RUN_MASK})
      /\ x.length = 0 => end = iend
      /\ Covers(x) = opOut + lits
  BY <1>0, <1>1, AtTokenIs
<1>3. /\ opOut \in Nat /\ oend \in Nat /\ iend \in Nat /\ sequence \in Nat /\ opOut = Len(text)
      /\ src \in Seq(Bytes) /\ dest \in Seq(Bytes) /\ text \in Seq(Bytes)
  BY ReadingFacts
<1>4. /\ WILDCOPYLENGTH \in Nat \ {0} /\ RUN_MASK \in Nat /\ RUN_MASK = (2 * WILDCOPYLENGTH) - 1
      /\ ML_MASK \in Nat \ {0} /\ MINMATCH \in Nat \ {0}
  BY FormatAssumption
<1>5. /\ src' = src /\ dest' = dest /\ pc' = pc /\ oend' = oend /\ iend' = iend
  BY <1>0, BlockStays
<1>6. \/ /\ Shortcut /\ fits /\ Produce(bytes, o + MaxShortMatch, readTo)
         /\ sequence' = m.next /\ dip' = dip /\ dpc' = dpc
      \/ /\ Shortcut /\ Produce(v, opOut + 2 * WILDCOPYLENGTH, readTo)
         /\ dip' = sequence + 1 + code /\ dpc' = "match" /\ sequence' = sequence
      \/ dpc' = "literals" /\ UNCHANGED <<sequence, dip, text, wrote, fetched>>
  <2>1. LiteralRun.ok = TRUE
    BY <1>2
  <2> HIDE <1>2
  <2> HIDE DEF code
  <2> QED BY <2>1 DEF SafeSequence, code
<1> HIDE DEF m, v, bytes, readTo
<1>7. ASSUME Shortcut
      PROVE  /\ code = lits /\ at = sequence + 1 /\ end = sequence + 1 + code /\ x.length # 0
             /\ readTo \in 0 .. iend
             /\ SafeDistances => /\ o + MaxShortMatch \in 0 .. oend
                                 /\ opOut + 2 * WILDCOPYLENGTH \in 0 .. oend
  <2>1. /\ code < RUN_MASK /\ sequence + 1 < iend - (RUN_MASK - 1) - 2
        /\ opOut <= oend - (RUN_MASK - 1) - MaxShortMatch
    BY <1>7 DEF Shortcut, shortiend, shortoend
  <2>2. code = lits /\ lits < RUN_MASK
    <3> HIDE DEF lits, code
    <3>1. Min({lits, RUN_MASK}) = IF lits <= RUN_MASK THEN lits ELSE RUN_MASK
      BY <1>2, <1>4, MinOfTwo
    <3> QED BY <1>2, <1>4, <2>1, <3>1
  <2>3. at = sequence + 1
    <3>1. MoreBytes(lits, RUN_MASK) = 0
      BY <2>2 DEF MoreBytes
    <3> QED BY <1>3, <3>1 DEF LitsAt
  <2> DEFINE l == x.length
  <2> HIDE DEF lits, code, at, end, l
  <2>4. end = sequence + 1 + code /\ end # iend
    BY <1>2, <1>3, <1>4, <2>1, <2>2, <2>3
  <2>5. l # 0
    BY <1>2, <2>4 DEF l
  <2>6. readTo \in 0 .. iend
    BY <1>3, <1>4, <2>1 DEF readTo
  <2>7. SafeDistances => o + MaxShortMatch \in 0 .. oend /\ opOut + 2 * WILDCOPYLENGTH \in 0 .. oend
    <3> SUFFICES ASSUME SafeDistances
                 PROVE  o + MaxShortMatch \in 0 .. oend /\ opOut + 2 * WILDCOPYLENGTH \in 0 .. oend
      OBVIOUS
    <3>1. MaxShortMatch = ML_MASK - 1 + MINMATCH /\ MINMATCH >= 2
      BY DEF MaxShortMatch, SafeDistances
    <3> QED BY <1>2, <1>3, <1>4, <2>1, <2>2, <3>1
  <2> QED BY <2>2, <2>3, <2>4, <2>5, <2>6, <2>7 DEF l
<1>8. ASSUME Shortcut
      PROVE  /\ v = LiteralsAt(at, lits) /\ v \in Seq(Bytes)
             /\ Decoded(text \o v, src) /\ Len(text \o v) = Covers(x)
             /\ o = Covers(x)
             /\ m = [ok |-> TRUE, next |-> SeqEnd(sequence, x), length |-> x.length,
                     offset |-> x.offset]
  <2>1. code = lits /\ at = sequence + 1 /\ end = sequence + 1 + code /\ x.length # 0
    BY <1>7, <1>8
  <2>2. v = LiteralsAt(at, lits) /\ o = Covers(x)
    BY <1>2, <2>1 DEF v
  <2>3. m = MatchAt(end)
    BY <2>1 DEF m
  <2>4. Sound(src, x) /\ Stored(src, dest, sequence, x) /\ x.out = opOut
    BY <1>0, <1>1, AtTokenIs
  <2>5. LET w == LiteralsAt(LitsAt(sequence, x.lits), x.lits)
        IN  w \in Seq(Bytes) /\ Decoded(text \o w, src) /\ Len(text \o w) = Covers(x)
    <3>1. Decoded(text, src) /\ Len(text) = x.out
      BY <1>3, <2>4 DEF Reading
    <3> QED BY <1>3, <2>4, <3>1, LiteralsDecoded
  <2>6. MatchAt(LitsEnd(sequence, x.lits)) = [ok |-> TRUE, next |-> SeqEnd(sequence, x),
                                              length |-> x.length, offset |-> x.offset]
    BY <1>0, <1>1, <2>1, AtMatchIs
  <2> QED BY <2>2, <2>3, <2>5, <2>6
<1>9. CASE /\ Shortcut /\ fits /\ Produce(bytes, o + MaxShortMatch, readTo)
           /\ sequence' = m.next /\ dip' = dip /\ dpc' = dpc
  <2>1. m.next = SeqEnd(sequence, x) /\ m.length = x.length /\ m.offset = x.offset
    BY <1>8, <1>9
  <2>2. x.length # 0 /\ SeqEnd(sequence, x) \in 0 .. iend
        /\ x.offset \in Nat \ {0} /\ x.offset <= Covers(x) /\ x.length \in Nat
    BY <1>0, <1>1, <1>7, <1>9, AtMatchIs
  <2> DEFINE rep == Repeated(text \o v, x.offset, x.length)
             u   == text \o v
  <2>3. bytes = v \o rep
    <3>1. x.offset >= WILDCOPYLENGTH
      BY <1>9, <2>1
    <3>2. Copied(u, x.offset, x.length, WILDCOPYLENGTH) = rep
      BY <3>1, CopiedIs
    <3> QED BY <2>1, <3>2 DEF bytes
  <2>4. /\ v \in Seq(Bytes) /\ Decoded(u, src) /\ Len(u) = Covers(x)
    BY <1>8, <1>9
  <2>5. rep \in Seq(Bytes)
    <3>1. u \in Seq(Bytes)
      BY <2>4 DEF Decoded
    <3> DEFINE f == x.offset
               l == x.length
    <3>2. f \in Nat \ {0} /\ f <= Len(u) /\ l \in Nat
      BY <2>2, <2>4
    <3> HIDE DEF u, f, l
    <3>3. Repeated(u, f, l) \in Seq(Bytes)
      BY <3>1, <3>2, RepeatedIs
    <3> QED BY <3>3 DEF u, f, l
  <2>6. text' = u \o rep
    <3>1. text' = text \o (v \o rep)
      BY <1>9, <2>3 DEF Produce
    <3> HIDE DEF rep
    <3>2. (text \o v) \o rep = text \o (v \o rep)
      <4>1. text \in Seq(Bytes) /\ v \in Seq(Bytes) /\ rep \in Seq(Bytes)
        BY <1>3, <2>4, <2>5
      <4> HIDE DEF u
      <4> QED BY ONLY <4>1, ConcatAssociative
    <3> QED BY <3>1, <3>2
  <2>7. Reading' /\ Len(text') = Reach(x)
    <3>1. sequence' = SeqEnd(sequence, x) /\ dip' \in {dip, SeqEnd(sequence, x)}
          /\ dpc' \in {"fast", "safe"}
      BY <1>0, <1>9, <2>1
    <3> HIDE DEF u
    <3>2. text' = u \o Repeated(u, x.offset, x.length)
      BY <2>6 DEF u
    <3> QED BY <1>0, <1>1, <2>2, <2>4, <3>1, <3>2, ReadingMatch
  <2>8. ASSUME SafeDistances, Extents PROVE Extents'
    <3>1. wrote \in 0 .. oend /\ fetched \in 0 .. iend
      BY <2>8 DEF Extents
    <3>2. o + MaxShortMatch \in 0 .. oend /\ readTo \in 0 .. iend
      BY <1>7, <1>9, <2>8
    <3>3. wrote' \in 0 .. oend /\ fetched' \in 0 .. iend
      BY <1>3, <1>9, <3>1, <3>2, Produced
    <3> QED BY <1>0, <1>5, <1>9, <3>3 DEF Extents
  <2> QED BY <2>7, <2>8
<1>10. CASE /\ Shortcut /\ Produce(v, opOut + 2 * WILDCOPYLENGTH, readTo)
            /\ dip' = sequence + 1 + code /\ dpc' = "match" /\ sequence' = sequence
  <2>1. x.length # 0 /\ dip' = end /\ v = LiteralsAt(at, lits)
    BY <1>7, <1>8, <1>10
  <2>2. Reading' /\ Len(text') = Covers(x)
    <3>1. text' = text \o LiteralsAt(LitsAt(sequence, x.lits), x.lits)
      BY <1>10, <2>1 DEF Produce
    <3>2. x.length # 0 /\ dpc' \in {"fastmatch", "match"} /\ sequence' = sequence
      BY <1>10, <2>1
    <3> QED BY <1>0, <1>1, <2>1, <3>1, <3>2, ReadingLiterals
  <2>3. ASSUME SafeDistances, Extents PROVE Extents'
    <3>1. wrote \in 0 .. oend /\ fetched \in 0 .. iend
      BY <2>3 DEF Extents
    <3>2. opOut + 2 * WILDCOPYLENGTH \in 0 .. oend /\ readTo \in 0 .. iend
      BY <1>7, <1>10, <2>3
    <3>3. wrote' \in 0 .. oend /\ fetched' \in 0 .. iend
      BY <1>3, <1>10, <3>1, <3>2, Produced
    <3> QED BY <1>5, <1>10, <3>3 DEF Extents
  <2> QED BY <2>2, <2>3
<1>11. CASE dpc' = "literals" /\ UNCHANGED <<sequence, dip, text, wrote, fetched>>
  <2>1. opOut' = opOut
    BY <1>11 DEF opOut
  <2>2. AtToken'
    BY <1>1, <1>5, <1>11, <2>1 DEF AtToken
  <2>3. Decoded(text, src)'
    BY <1>5, <1>11 DEF Reading, Decoded
  <2>4. sequence' \in 0 .. iend' /\ dip' \in 0 .. iend' /\ pc' = "compressed" /\ dpc' = "literals"
    BY <1>0, <1>5, <1>11 DEF Reading
  <2>5. Reading'
    BY <2>2, <2>3, <2>4 DEF Reading
  <2>6. Extents => Extents'
    BY <1>5, <1>11 DEF Extents
  <2> QED BY <2>5, <2>6
<1> QED BY <1>6, <1>9, <1>10, <1>11

LEMMA SafeLiteralCopyReads ==
  ASSUME Compressor, Tape, Reading, SafeLiteralCopy
  PROVE  Reading' /\ (SafeDistances /\ Extents => Extents')
<1>0. dpc = "literals" /\ UNCHANGED compressVars /\ pc = "compressed" /\ sequence' = sequence
  BY DEF SafeLiteralCopy, Reading
<1>1. PICK x : SequenceAt(src, dest, sequence, opOut, x)
  BY <1>0 DEF Reading, AtToken
<1> DEFINE lits   == x.lits
           at     == LitsAt(sequence, lits)
           after  == at + lits
           cpy    == opOut + lits
           extent == WholeChunks(lits, WILDCOPYLENGTH)
           v      == LiteralsAt(at, lits)
<1>2. /\ lits \in Nat /\ at \in Nat /\ LitsEnd(sequence, lits) = after /\ after <= iend
      /\ LiteralRun = [ok |-> TRUE, length |-> lits, next |-> at]
      /\ x.length = 0 => after = iend /\ cpy = oend
      /\ Covers(x) = cpy
  BY <1>0, <1>1, AtTokenIs
<1>3. /\ opOut \in Nat /\ oend \in Nat /\ iend \in Nat
  BY ReadingFacts
<1>4. /\ WILDCOPYLENGTH \in Nat \ {0} /\ LASTLITERALS \in Nat /\ MINMATCH \in Nat
      /\ MFLIMIT = WILDCOPYLENGTH + MINMATCH
  BY FormatFacts
<1>5. oend' = oend /\ iend' = iend
  BY <1>0, BlockStays
<1>6. x.length # 0 => cpy + MFLIMIT <= oend /\ after + 3 + LASTLITERALS <= iend
  <2> SUFFICES ASSUME x.length # 0
               PROVE  cpy + MFLIMIT <= oend /\ after + 3 + LASTLITERALS <= iend
    OBVIOUS
  <2>1. Covers(x) + MFLIMIT <= oend /\ LitsEnd(sequence, x.lits) + 3 + LASTLITERALS <= iend
    BY <1>0, <1>1, AtMatchIs
  <2> QED BY <1>2, <2>1
<1>7. dip' = after
      /\ \/ /\ CloseToEnd(cpy, after) /\ (after # iend \/ cpy > oend)
         \/ /\ CloseToEnd(cpy, after) /\ ~ (after # iend \/ cpy > oend)
            /\ dpc' = "decoded" /\ Produce(v, cpy, after)
         \/ /\ ~ CloseToEnd(cpy, after)
            /\ dpc' = "match" /\ Produce(v, opOut + extent, at + extent)
  <2> HIDE DEF lits, at
  <2>1. LiteralRun.length = lits /\ LiteralRun.next = at
    BY <1>2
  <2> HIDE <1>2
  <2> QED BY <2>1 DEF SafeLiteralCopy
<1>8. x.length = 0 <=> CloseToEnd(cpy, after)
  <2> DEFINE l == x.length
  <2> HIDE DEF lits, at, l
  <2>1. l = 0 => CloseToEnd(cpy, after)
    BY <1>2, <1>3, <1>4 DEF CloseToEnd, l
  <2>2. l # 0 => ~ CloseToEnd(cpy, after)
    BY <1>2, <1>3, <1>4, <1>6 DEF CloseToEnd, l
  <2> QED BY <2>1, <2>2 DEF l
<1>9. \/ x.length = 0 /\ dpc' = "decoded" /\ Produce(v, cpy, after)
      \/ x.length # 0 /\ dpc' = "match" /\ Produce(v, opOut + extent, at + extent)
  <2>1. x.length = 0 => ~ (after # iend \/ cpy > oend)
    BY <1>2, <1>3
  <2> HIDE DEF v, cpy, after, extent
  <2> QED BY <1>7, <1>8, <2>1
<1>10. Reading' /\ Len(text') = Covers(x)
  <2>1. text' = text \o LiteralsAt(LitsAt(sequence, x.lits), x.lits)
    BY <1>9 DEF Produce
  <2>2. dip' = LitsEnd(sequence, x.lits)
    BY <1>2, <1>7
  <2>3. \/ x.length # 0 /\ dpc' \in {"fastmatch", "match"}
        \/ x.length = 0 /\ dpc' = "decoded"
    BY <1>9
  <2> QED BY <1>0, <1>1, <2>1, <2>2, <2>3, ReadingLiterals
<1>11. ASSUME SafeDistances, Extents PROVE Extents'
  <2>1. wrote \in 0 .. oend /\ fetched \in 0 .. iend /\ WILDCOPYLENGTH <= LASTLITERALS + 3
    BY <1>11 DEF Extents, SafeDistances
  <2>2. CASE x.length = 0 /\ dpc' = "decoded" /\ Produce(v, cpy, after)
    <3>1. cpy \in 0 .. oend /\ after \in 0 .. iend
      BY <1>2, <1>3, <2>2
    <3>2. wrote' \in 0 .. oend /\ fetched' \in 0 .. iend
      BY <1>3, <2>1, <2>2, <3>1, Produced
    <3> QED BY <1>5, <2>2, <3>2 DEF Extents
  <2>3. CASE x.length # 0 /\ dpc' = "match" /\ Produce(v, opOut + extent, at + extent)
    <3>1. cpy + MFLIMIT <= oend /\ after + 3 + LASTLITERALS <= iend
      BY <1>6, <2>3
    <3>2. /\ extent \in Nat
          /\ extent = WILDCOPYLENGTH
             \/ (lits > WILDCOPYLENGTH /\ extent <= lits + WILDCOPYLENGTH - 1)
      <4> HIDE DEF lits
      <4>1. lits \in Int /\ lits + WILDCOPYLENGTH - 1 \in Nat
        BY <1>2, <1>4
      <4> QED BY <1>4, <4>1, ChunksTight
    <3> HIDE DEF extent, lits, at
    <3>3. opOut + extent \in 0 .. oend /\ at + extent \in 0 .. iend
      BY <1>2, <1>3, <1>4, <2>1, <3>1, <3>2
    <3>4. wrote' \in 0 .. oend /\ fetched' \in 0 .. iend
      BY <1>3, <2>1, <2>3, <3>3, Produced
    <3> QED BY <1>5, <2>3, <3>4 DEF Extents
  <2> QED BY <1>9, <2>2, <2>3
<1> QED BY <1>10, <1>11

(* The copies of the safe loop, which near the end stop at oCopyLimit.     *)
LEMMA SafeMatchExtent ==
  ASSUME SafeDistances, NEW o \in Nat, NEW length \in Nat, NEW oe \in Nat, length >= MINMATCH,
         o + MFLIMIT <= oe, o + length + LASTLITERALS <= oe, NEW limit, NEW first, NEW second,
         limit = oe - (WILDCOPYLENGTH - 1), first = o + WILDCOPYLENGTH,
         second = first + WILDCOPYLENGTH
  PROVE  /\ Max({first, o + length, IF first < limit
                                    THEN first + WholeChunks(limit - first, WILDCOPYLENGTH)
                                    ELSE 0}) \in 0 .. oe
         /\ o + length <= oe - MATCH_SAFEGUARD_DISTANCE =>
              (IF length > 2 * WILDCOPYLENGTH
                 THEN second + WholeChunks((o + length) - second, WILDCOPYLENGTH)
                 ELSE second) \in 0 .. oe
<1> DEFINE W == WILDCOPYLENGTH
<1>1. /\ W \in Nat \ {0} /\ LASTLITERALS \in Nat /\ MINMATCH \in Nat \ {0} /\ MINMATCH <= W
      /\ MFLIMIT = W + MINMATCH /\ MATCH_SAFEGUARD_DISTANCE = (2 * W) - MINMATCH
  BY FormatFacts DEF SafeDistances, MATCH_SAFEGUARD_DISTANCE
<1>2. limit = oe - (W - 1) /\ first = o + W /\ second = first + W
  OBVIOUS
<1> HIDE DEF W
<1>3. first \in 0 .. oe /\ o + length \in 0 .. oe /\ second \in Nat /\ limit \in Int
  BY <1>1, <1>2
<1> DEFINE a == WholeChunks(limit - first, W)
           b == WholeChunks((o + length) - second, W)
           y == IF first < limit THEN first + a ELSE 0
<1>4. y \in 0 .. oe
  <2>1. CASE first < limit
    <3>1. a \in Nat /\ (a = W \/ (limit - first > W /\ a <= (limit - first) + W - 1))
      <4> DEFINE r == limit - first
      <4>1. r \in Int /\ r + W - 1 \in Nat
        BY <1>1, <1>3, <2>1
      <4> HIDE DEF r
      <4>2. /\ WholeChunks(r, W) \in Nat
            /\ WholeChunks(r, W) = W \/ (r > W /\ WholeChunks(r, W) <= r + W - 1)
        BY <1>1, <4>1, ChunksTight
      <4> QED BY <4>2 DEF r
    <3> HIDE DEF a
    <3> QED BY <1>1, <1>2, <1>3, <2>1, <3>1
  <2>2. CASE ~ (first < limit)
    BY <2>2
  <2> QED BY <2>1, <2>2
<1>5. Max({first, o + length, y}) \in 0 .. oe
  <2> HIDE DEF y
  <2> DEFINE S == {first, o + length, y}
  <2>1. S \subseteq 0 .. oe /\ S # {}
    BY <1>3, <1>4
  <2> HIDE DEF S
  <2>2. Max(S) \in S
    BY <2>1, MaxOf
  <2>3. Max(S) \in 0 .. oe
    BY <2>1, <2>2
  <2> QED BY <2>3 DEF S
<1>6. ASSUME o + length <= oe - MATCH_SAFEGUARD_DISTANCE
      PROVE  (IF length > 2 * W THEN second + b ELSE second) \in 0 .. oe
  <2>1. CASE length > 2 * W
    <3>1. b \in Nat /\ (b = W \/ ((o + length) - second > W /\ b <= ((o + length) - second) + W - 1))
      <4> DEFINE r == (o + length) - second
      <4>1. r \in Int /\ r + W - 1 \in Nat
        BY <1>1, <1>2, <1>3, <2>1
      <4> HIDE DEF r
      <4>2. /\ WholeChunks(r, W) \in Nat
            /\ WholeChunks(r, W) = W \/ (r > W /\ WholeChunks(r, W) <= r + W - 1)
        BY <1>1, <4>1, ChunksTight
      <4> QED BY <4>2 DEF r
    <3> HIDE DEF b
    <3>2. second + b \in 0 .. oe
      BY <1>1, <1>2, <1>3, <1>6, <2>1, <3>1
    <3> QED BY <2>1, <3>2
  <2>2. CASE ~ (length > 2 * W)
    <3>1. second \in 0 .. oe
      BY <1>1, <1>2, <1>3, <1>6, <2>2
    <3> QED BY <2>2, <3>1
  <2> QED BY <2>1, <2>2
<1> QED BY <1>5, <1>6 DEF W

LEMMA SafeMatchCopyReads ==
  ASSUME Compressor, Tape, Reading, SafeMatchCopy
  PROVE  Reading' /\ (SafeDistances /\ Extents => Extents')
<1>0. dpc = "match" /\ UNCHANGED compressVars /\ pc = "compressed" /\ dip' = dip
  BY DEF SafeMatchCopy, Reading
<1>1. PICK o, x : /\ SequenceAt(src, dest, sequence, o, x) /\ x.length # 0
                  /\ dip = LitsEnd(sequence, x.lits) /\ opOut = Covers(x)
  BY <1>0 DEF Reading, AtMatch
<1> DEFINE length == x.length
           offset == x.offset
           next   == SeqEnd(sequence, x)
           cpy    == opOut + length
           nearEnd == cpy > oend - MATCH_SAFEGUARD_DISTANCE
           limit  == oend - (WILDCOPYLENGTH - 1)
           first  == opOut + WILDCOPYLENGTH
           second == first + WILDCOPYLENGTH
           w      == IF nearEnd
                       THEN Max({first, cpy, IF first < limit
                                  THEN first + WholeChunks(limit - first, WILDCOPYLENGTH)
                                  ELSE 0})
                       ELSE IF length > 2 * WILDCOPYLENGTH
                         THEN second + WholeChunks(cpy - second, WILDCOPYLENGTH)
                         ELSE second
<1>2. /\ MatchAt(dip) = [ok |-> TRUE, next |-> next, length |-> length, offset |-> offset]
      /\ offset \in Nat \ {0} /\ offset <= opOut /\ opOut \in Nat
      /\ length \in Nat /\ length >= MINMATCH
      /\ Reach(x) = cpy /\ next \in 0 .. iend
      /\ opOut + MFLIMIT <= oend /\ cpy + LASTLITERALS <= oend
  BY <1>0, <1>1, AtMatchIs
<1>3. /\ opOut = Len(text) /\ oend \in Nat /\ iend \in Nat /\ text \in Seq(Bytes)
      /\ LASTLITERALS \in Nat
  BY ReadingFacts, FormatFacts
<1>4. oend' = oend /\ iend' = iend
  BY <1>0, BlockStays
<1> HIDE DEF length, offset, next
<1>5. /\ Produce(WidenedMatch(text, offset, length), w, next)
      /\ sequence' = next /\ dpc' = "safe"
  <2>1. MatchAt(dip).ok = TRUE /\ MatchAt(dip).next = next /\ MatchAt(dip).length = length
        /\ MatchAt(dip).offset = offset
    BY <1>2
  <2>2. ~ (offset > opOut) /\ ~ (cpy > oend - LASTLITERALS)
    BY <1>2, <1>3
  <2> HIDE <1>2
  <2> QED BY <2>1, <2>2 DEF SafeMatchCopy
<1> HIDE DEF w
<1>6. text' = text \o Repeated(text, x.offset, x.length)
  <2>1. WidenedMatch(text, offset, length) = Repeated(text, offset, length)
    BY <1>2, <1>3, WidenedIs
  <2> QED BY <1>5, <2>1 DEF Produce, offset, length
<1>7. Reading' /\ Len(text') = Reach(x)
  <2>1. Decoded(text, src) /\ Len(text) = Covers(x)
    BY <1>1, <1>3 DEF Reading
  <2>2. sequence' = SeqEnd(sequence, x) /\ dip' \in {dip, SeqEnd(sequence, x)}
        /\ dpc' \in {"fast", "safe"}
    BY <1>0, <1>5 DEF next
  <2> QED BY <1>0, <1>1, <1>6, <2>1, <2>2, ReadingMatch
<1>8. ASSUME SafeDistances, Extents PROVE Extents'
  <2>1. wrote \in 0 .. oend /\ fetched \in 0 .. iend
    BY <1>8 DEF Extents
  <2>2. w \in 0 .. oend
    <3> DEFINE p == opOut
               e == oend
    <3>1. /\ p \in Nat /\ e \in Nat /\ length \in Nat /\ length >= MINMATCH
          /\ p + MFLIMIT <= e /\ p + length + LASTLITERALS <= e
      BY <1>2, <1>3
    <3> HIDE DEF p, e
    <3> DEFINE lim == e - (WILDCOPYLENGTH - 1)
               f   == p + WILDCOPYLENGTH
               g   == f + WILDCOPYLENGTH
    <3>2. /\ Max({f, p + length, IF f < lim
                                 THEN f + WholeChunks(lim - f, WILDCOPYLENGTH)
                                 ELSE 0}) \in 0 .. e
          /\ p + length <= e - MATCH_SAFEGUARD_DISTANCE =>
               (IF length > 2 * WILDCOPYLENGTH
                  THEN g + WholeChunks((p + length) - g, WILDCOPYLENGTH)
                  ELSE g) \in 0 .. e
      BY <1>8, <3>1, SafeMatchExtent
    <3>3. nearEnd \/ cpy <= oend - MATCH_SAFEGUARD_DISTANCE
      <4>1. MATCH_SAFEGUARD_DISTANCE \in Int
        BY FormatFacts DEF MATCH_SAFEGUARD_DISTANCE
      <4> QED BY <1>2, <1>3, <4>1
    <3>4. CASE nearEnd
      BY <3>2, <3>4 DEF p, e, w
    <3>5. CASE ~ nearEnd
      BY <3>2, <3>3, <3>5 DEF p, e, w
    <3> QED BY <3>4, <3>5
  <2>3. wrote' \in 0 .. oend /\ fetched' \in 0 .. iend
    BY <1>2, <1>3, <1>5, <2>1, <2>2, Produced
  <2> QED BY <1>4, <1>5, <2>3 DEF Extents
<1> QED BY <1>7, <1>8

-----------------------------------------------------------------------------
(* The invariant of the codec, and what follows from it *)

CodecInv == Compressor /\ Tape /\ Reading

LEMMA CodecInvInit == DecompressInit => CodecInv /\ Extents
<1> SUFFICES ASSUME DecompressInit PROVE CodecInv /\ Extents
  OBVIOUS
<1>1. Compressor /\ Tape
  BY CompressorInit, TapeInit DEF DecompressInit
<1>2. /\ dpc = "idle" /\ sequence = 0 /\ dip = 0 /\ text = <<>> /\ wrote = 0 /\ fetched = 0
  BY DEF DecompressInit
<1>3. src \in Seq(Bytes) /\ dest \in Seq(Bytes)
  BY <1>1 DEF Compressor, Searching, Positions, BlockTyped
<1>4. oend \in Nat /\ iend \in Nat
  BY <1>3, LenProperties DEF oend, inputSize, iend
<1>5. Len(text) = 0 /\ text \in Seq(Bytes) /\ Len(src) \in Nat
  BY <1>2, <1>3, LenProperties
<1>6. Decoded(text, src)
  BY <1>5 DEF Decoded
<1>7. Reading
  BY <1>2, <1>4, <1>6 DEF Reading
<1>8. Extents
  BY <1>2, <1>4 DEF Extents
<1> QED BY <1>1, <1>7, <1>8 DEF CodecInv

LEMMA CompressingReads ==
  ASSUME Compressor', Reading, Compressing
  PROVE  Reading' /\ (Extents => Extents')
<1>1. /\ dpc' = dpc /\ sequence' = sequence /\ dip' = dip /\ text' = text
      /\ wrote' = wrote /\ fetched' = fetched /\ src' = src /\ pc # "compressed"
  BY DEF Compressing, decompressVars, CompressNext, FirstByte, FindMatch, EncodeLiterals,
         EncodeMatch, TestNextPosition, LastLiterals
<1>2. dpc = "idle"
  BY <1>1 DEF Reading
<1>3. sequence = 0 /\ dip = 0
  BY <1>2 DEF Reading
<1>4. dest' \in Seq(Bytes)
  BY DEF Compressor, BlockTyped
<1>5. iend' \in Nat
  BY <1>4, LenProperties DEF iend
<1>6. oend' = oend
  BY <1>1 DEF oend, inputSize
<1>7. Decoded(text, src)'
  BY <1>1 DEF Reading, Decoded
<1>8. Reading'
  BY <1>1, <1>2, <1>3, <1>5, <1>7 DEF Reading
<1>9. Extents => Extents'
  BY <1>1, <1>2, <1>5, <1>6 DEF Extents
<1> QED BY <1>8, <1>9

LEMMA TapeStill == Tape /\ UNCHANGED compressVars => Tape'
  BY DEF Tape, compressVars

LEMMA CodecInvStep ==
  ASSUME CodecInv, [LZ4Next]_lz4Vars
  PROVE  CodecInv' /\ (SafeDistances /\ Extents => Extents')
<1>0. Compressor /\ Tape /\ Reading
  BY DEF CodecInv
<1>1. CASE Compressing
  <2>1. CompressNext
    BY <1>1 DEF Compressing
  <2>2. Compressor' /\ Tape'
    BY <1>0, <2>1, CompressorStep, TapeStep
  <2> QED BY <1>0, <1>1, <2>2, CompressingReads DEF CodecInv
<1>2. ASSUME UNCHANGED compressVars PROVE Compressor' /\ Tape'
  BY <1>0, <1>2, CompressorStill, TapeStill
<1>3. CASE Decompress
  <2>1. UNCHANGED compressVars
    BY <1>3, DecoderOnly
  <2> QED BY <1>0, <1>2, <1>3, <2>1, DecompressReads DEF CodecInv
<1>4. CASE Decoding
  <2>1. Compressor' /\ Tape'
    BY <1>2, <1>4, DecoderOnly
  <2>2. Reading' /\ (SafeDistances /\ Extents => Extents')
    <3>1. CASE FastLiterals
      BY <1>0, <3>1, FastLiteralsReads
    <3>2. CASE FastMatch
      BY <1>0, <3>2, FastMatchReads
    <3>3. CASE SafeSequence
      BY <1>0, <3>3, SafeSequenceReads
    <3>4. CASE SafeLiteralCopy
      BY <1>0, <3>4, SafeLiteralCopyReads
    <3>5. CASE SafeMatchCopy
      BY <1>0, <3>5, SafeMatchCopyReads
    <3> QED BY <1>4, <3>1, <3>2, <3>3, <3>4, <3>5 DEF Decoding
  <2> QED BY <2>1, <2>2 DEF CodecInv
<1>5. CASE UNCHANGED lz4Vars
  <2>1. UNCHANGED compressVars /\ UNCHANGED decompressVars
    BY <1>5 DEF lz4Vars
  <2>2. /\ src' = src /\ dest' = dest /\ pc' = pc /\ oend' = oend /\ iend' = iend
        /\ FASTLOOP_SAFE_DISTANCE' = FASTLOOP_SAFE_DISTANCE
    BY <2>1, BlockStays
  <2>3. /\ dpc' = dpc /\ sequence' = sequence /\ dip' = dip /\ text' = text
        /\ wrote' = wrote /\ fetched' = fetched /\ opOut' = opOut
    BY <2>1 DEF decompressVars, opOut
  <2>4. Reading'
    BY <1>0, <2>2, <2>3 DEF Reading, AtToken, AtMatch, Decoded
  <2>5. Extents => Extents'
    BY <2>2, <2>3 DEF Extents
  <2> QED BY <1>2, <2>1, <2>4, <2>5 DEF CodecInv
<1> QED BY <1>1, <1>3, <1>4, <1>5 DEF LZ4Next

(* Of every reachable state the invariant holds: the block written so far  *)
(* is a list of sequences for the page up to the anchor, and the decoder   *)
(* is at one of them and has decoded what comes before.                    *)
THEOREM LZ4Invariant == LZ4Spec => []CodecInv
<1>1. DecompressInit => CodecInv
  BY CodecInvInit
<1>2. CodecInv /\ [LZ4Next]_lz4Vars => CodecInv'
  BY CodecInvStep
<1> QED BY <1>1, <1>2, PTL DEF LZ4Spec

(* No check refuses the block, and the page comes back.                    *)
PageReturned == dpc # "error" /\ (dpc = "decoded" => text = src)

LEMMA ReturnedFollows == CodecInv => PageReturned
<1> SUFFICES ASSUME CodecInv PROVE PageReturned
  OBVIOUS
<1>1. dpc # "error" /\ src \in Seq(Bytes) /\ Decoded(text, src)
  BY DEF CodecInv, Reading, Compressor, Searching, Positions
<1>2. dpc = "decoded" => Len(text) = Len(src)
  BY DEF CodecInv, Reading
<1> QED BY <1>1, <1>2, SamePage DEF PageReturned

(* For every page, hash function and format, LZ4_decompress_safe gives     *)
(* back the page: none of its checks refuses what the compressor wrote,    *)
(* and no chunk of an overlapping match is copied before it is written.    *)
THEOREM LZ4RoundTrip == LZ4Spec => []PageReturned
<1>1. CodecInv => PageReturned
  BY ReturnedFollows
<1> QED BY <1>1, LZ4Invariant, PTL

(* Every copy of the decoder stays in block and page, with what its chunks *)
(* write and read beyond what they were asked for.                         *)
THEOREM DecoderStaysInside == ASSUME SafeDistances PROVE LZ4Spec => []Extents
<1>1. DecompressInit => CodecInv /\ Extents
  BY CodecInvInit
<1>2. (CodecInv /\ Extents) /\ [LZ4Next]_lz4Vars => (CodecInv /\ Extents)'
  BY CodecInvStep
<1> QED BY <1>1, <1>2, PTL DEF LZ4Spec

(* The types of both functions, with their bounds.                         *)
THEOREM LZ4TypesCorrect ==
  ASSUME RoomyFormat, SafeDistances
  PROVE  LZ4Spec => []LZ4TypeOK
<1>1. LZ4Spec => []CompressTypeOK
  BY BufferSuffices
<1>2. LZ4Spec => []Extents
  BY DecoderStaysInside
<1>3. CompressTypeOK /\ Extents /\ CodecInv => LZ4TypeOK
  <2> SUFFICES ASSUME CompressTypeOK, Extents, CodecInv PROVE LZ4TypeOK
    OBVIOUS
  <2> QED BY DEF CodecInv, Reading, Decoded, Extents, LZ4TypeOK
<1> QED BY <1>1, <1>2, <1>3, LZ4Invariant, PTL

(* The finished block fits what is allocated for it.                       *)
BlockFits == pc = "compressed" => Len(dest) <= compressBound(inputSize)

LEMMA BoundIs == ASSUME NEW size \in Nat PROVE compressBound(size) \in Nat
<1> DEFINE q == size \div ByteMax
<1>1. q \in Nat /\ BlockSlack \in Nat
  BY FormatFacts, FormatAssumption, DivMod
<1>2. compressBound(size) = size + q + BlockSlack
  BY DEF compressBound
<1> HIDE DEF q
<1> QED BY <1>1, <1>2

LEMMA BlockFitsStep ==
  ASSUME Bounded, Bounded', BlockFits, [LZ4Next]_lz4Vars
  PROVE  BlockFits'
<1>1. CASE LastLiterals
  <2>1. touched' = Max({touched, Len(dest')})
    BY <1>1 DEF LastLiterals
  <2>2. touched \in Nat /\ dest' \in Seq(Bytes) /\ touched' \in 0 .. compressBound(inputSize)'
    BY DEF Bounded, Fits, Compressor, BlockTyped
  <2>3. Len(dest') \in Nat /\ compressBound(inputSize)' \in Nat
    <3>1. src' \in Seq(Bytes)
      BY DEF Bounded, Compressor, Searching, Positions
    <3>2. inputSize' \in Nat
      BY <3>1, LenProperties DEF inputSize
    <3>3. compressBound(inputSize') \in Nat
      BY <3>2, BoundIs
    <3>4. compressBound(inputSize)' = compressBound(inputSize')
      BY DEF compressBound
    <3> QED BY <2>2, <3>3, <3>4, LenProperties
  <2> DEFINE e == Len(dest')
             b == compressBound(inputSize)'
  <2> HIDE DEF e, b
  <2>4. e \in Nat /\ b \in Nat /\ touched' = Max({touched, e}) /\ touched' \in 0 .. b
    BY <2>1, <2>2, <2>3 DEF e, b
  <2>5. Max({touched, e}) >= e
    <3>1. touched + e \in Nat /\ {touched, e} \subseteq 0 .. touched + e
      BY <2>2, <2>4
    <3> QED BY <3>1, MaxOf
  <2>6. e <= b
    BY <2>4, <2>5
  <2> QED BY <2>6 DEF BlockFits, e, b
<1>2. CASE CompressNext /\ ~ LastLiterals
  <2>1. pc' # "compressed"
    BY <1>2 DEF CompressNext, FirstByte, SearchFrom, FindMatch, EncodeLiterals, EncodeMatch,
                TestNextPosition
  <2> QED BY <2>1 DEF BlockFits
<1>3. CASE UNCHANGED compressVars
  BY <1>3 DEF compressVars, BlockFits, inputSize
<1>4. CompressNext \/ UNCHANGED compressVars
  BY DecoderOnly DEF LZ4Next, Compressing, lz4Vars
<1> QED BY <1>1, <1>2, <1>3, <1>4

(* Every step of the codec is one Codec allows, or a step that Codec does  *)
(* not see: the safety half of ImplementsCodec.                            *)
THEOREM LZ4ImplementsCodecSafely ==
  ASSUME RoomyFormat
  PROVE  LZ4Spec => LZ4Algorithm!Init /\ [][LZ4Algorithm!Next]_(LZ4Algorithm!vars)
<1> DEFINE Inv == CodecInv /\ Bounded /\ BlockFits
<1>1. DecompressInit => LZ4Algorithm!Init
  BY PageAssumption DEF DecompressInit, CompressInit, LZ4Algorithm!Init
<1>2. DecompressInit => Inv
  <2> SUFFICES ASSUME DecompressInit PROVE Inv
    OBVIOUS
  <2>1. CompressInit /\ CodecInv
    BY CodecInvInit DEF DecompressInit
  <2>2. Compressor /\ Positions
    BY <2>1 DEF CodecInv, Compressor, Searching
  <2>3. Bounded
    BY <2>1, <2>2, RangesInit, FitsInit DEF Bounded
  <2>4. BlockFits
    BY <2>1 DEF CompressInit, BlockFits
  <2> QED BY <2>1, <2>3, <2>4
<1>3. Inv /\ [LZ4Next]_lz4Vars => Inv'
  <2> SUFFICES ASSUME Inv, [LZ4Next]_lz4Vars PROVE Inv'
    OBVIOUS
  <2>1. CodecInv'
    BY CodecInvStep
  <2>2. CompressNext \/ UNCHANGED compressVars
    BY DecoderOnly DEF LZ4Next, Compressing, lz4Vars
  <2>3. Bounded'
    BY <2>2, BoundedStep, BoundedStill
  <2> QED BY <2>1, <2>3, BlockFitsStep
<1>4. Inv /\ Inv' /\ [LZ4Next]_lz4Vars => [LZ4Algorithm!Next]_(LZ4Algorithm!vars)
  <2> SUFFICES ASSUME Inv, Inv', [LZ4Next]_lz4Vars
               PROVE  LZ4Algorithm!Next \/ UNCHANGED LZ4Algorithm!vars
    BY DEF LZ4Algorithm!vars
  <2> USE DEF LZ4Algorithm!Next, LZ4Algorithm!vars
  <2>1. CASE Compressing
    <3>1. /\ dpc' = dpc /\ pc # "compressed" /\ src' = src
      BY <2>1 DEF Compressing, decompressVars, CompressNext, FirstByte, FindMatch, EncodeLiterals,
                  EncodeMatch, TestNextPosition, LastLiterals
    <3>2. dpc = "idle" /\ dpc' = "idle"
      BY <3>1 DEF CodecInv, Reading
    <3>3. CASE pc' # "compressed"
      BY <3>1, <3>2, <3>3
    <3>4. CASE pc' = "compressed"
      <4> DEFINE e == Len(dest')
                 b == compressBound(Len(src))
      <4>1. e \in Nat /\ e > 0 /\ e <= b /\ b \in Nat
        <5>1. src \in Seq(Bytes) /\ dest' \in Seq(Bytes) /\ op' > 0
          BY <3>4 DEF CodecInv, Compressor, Searching, Positions, BlockTyped
        <5>2. Len(src) \in Nat /\ e \in Nat
          BY <5>1, LenProperties
        <5>3. b \in Nat
          BY <5>2, BoundIs
        <5>4. e <= b
          BY <3>1, <3>4 DEF BlockFits, inputSize, compressBound
        <5> QED BY <5>1, <5>2, <5>3, <5>4 DEF op
      <4> HIDE DEF e, b
      <4>2. e \in 1 .. b
        BY <4>1
      <4> QED BY <3>1, <3>2, <3>4, <4>2 DEF e, b, LZ4Algorithm!CompressDataPage
    <3> QED BY <3>3, <3>4
  <2>2. ASSUME Decompress \/ Decoding
        PROVE  /\ pc' = pc /\ src' = src /\ dest' = dest /\ dpc # "decoded"
               /\ dpc' # "idle" /\ pc' = "compressed" /\ Len(dest) # 0
    <3>1. UNCHANGED compressVars
      BY <2>2, DecoderOnly
    <3>2. pc' = pc /\ src' = src /\ dest' = dest
      BY <3>1, BlockStays
    <3>3. dpc # "decoded" /\ dpc' # "idle" /\ pc = "compressed"
      <4>1. CASE Decompress
        BY <4>1 DEF Decompress
      <4>2. CASE FastLiterals
        BY <4>2 DEF FastLiterals, CodecInv, Reading
      <4>3. CASE FastMatch
        BY <4>3 DEF FastMatch, CodecInv, Reading
      <4>4. CASE SafeSequence
        BY <4>4 DEF SafeSequence, CodecInv, Reading
      <4>5. CASE SafeLiteralCopy
        BY <4>5 DEF SafeLiteralCopy, CodecInv, Reading
      <4>6. CASE SafeMatchCopy
        BY <4>6 DEF SafeMatchCopy, CodecInv, Reading
      <4> QED BY <2>2, <4>1, <4>2, <4>3, <4>4, <4>5, <4>6 DEF Decoding
    <3>4. Len(dest) # 0
      <4>1. op > 0
        BY <3>3 DEF CodecInv, Compressor, BlockTyped
      <4> QED BY <4>1 DEF op
    <3> QED BY <3>2, <3>3, <3>4
  <2>3. CASE (Decompress \/ Decoding) /\ dpc' # "decoded"
    BY <2>2, <2>3
  <2>4. CASE (Decompress \/ Decoding) /\ dpc' = "decoded"
    <3>1. text' = src'
      <4>1. (CodecInv => PageReturned)'
        BY ReturnedFollows, PTL
      <4> QED BY <2>4, <4>1 DEF PageReturned
    <3> QED BY <2>2, <2>4, <3>1 DEF LZ4Algorithm!DecompressDataPage
  <2>5. CASE UNCHANGED lz4Vars
    BY <2>5 DEF lz4Vars, compressVars, decompressVars
  <2> QED BY <2>1, <2>3, <2>4, <2>5 DEF LZ4Next
<1> HIDE DEF Inv
<1> QED BY <1>1, <1>2, <1>3, <1>4, PTL DEF LZ4Spec

-----------------------------------------------------------------------------
(* Reading the block *)

(* A length is read as it was written.                                     *)
LengthIs(length, mask, p) ==
  ReadLength(Min({length, mask}), mask, p + 1)
    = [length |-> length, next |-> p + 1 + MoreBytes(length, mask)]

LEMMA LengthReadIs ==
  ASSUME dest \in Seq(Bytes), NEW length \in Nat, NEW mask \in Nat, NEW p \in Nat,
         Holds(dest, p, MoreLength(length, mask))
  PROVE  LengthIs(length, mask, p)
<1>0. Min({length, mask}) = IF length <= mask THEN length ELSE mask
  BY MinOfTwo
<1>1. CASE length < mask
  <2>1. Min({length, mask}) = length /\ MoreBytes(length, mask) = 0 /\ p + 1 + 0 = p + 1
    BY <1>0, <1>1 DEF MoreBytes
  <2> QED BY <1>1, <2>1 DEF ReadLength, LengthIs
<1>2. CASE ~ (length < mask)
  <2> DEFINE q    == (length - mask) \div ByteMax
             r    == (length - mask) % ByteMax
             more == MoreLength(length, mask)
             ends == {i \in p + 1 .. Len(dest) : dest[i] # ByteMax}
             last == p + 1 + q
  <2>1. Min({length, mask}) = mask /\ ~ (mask < mask)
    BY <1>0, <1>2
  <2>2. /\ q \in Nat /\ r \in 0 .. ByteMax - 1 /\ length - mask = (ByteMax * q) + r
        /\ Len(more) = q + 1 /\ more[q + 1] = r
        /\ \A k \in 1 .. q : more[k] = ByteMax
    <3>1. length >= mask
      BY <1>2
    <3> QED BY <3>1, MoreLengthBytes
  <2>3. MoreBytes(length, mask) = q + 1
    BY <1>2 DEF MoreBytes
  <2>4. Len(dest) \in Nat /\ ByteMax \in Nat \ {0}
    BY FormatFacts
  <2>5. p + Len(more) <= Len(dest) /\ \A k \in 1 .. Len(more) : dest[p + k] = more[k]
    BY DEF Holds
  <2> HIDE DEF q, r, more
  <2>6. last \in Nat /\ last \in p + 1 .. Len(dest)
    BY <2>2, <2>4, <2>5
  <2>7. dest[last] = r /\ dest[last] # ByteMax
    <3>1. q + 1 \in 1 .. Len(more) /\ p + (q + 1) = last
      BY <2>2
    <3>2. dest[last] = r
      BY <2>2, <2>5, <3>1
    <3> QED BY <2>2, <2>4, <3>2
  <2>8. \A i \in p + 1 .. last - 1 : dest[i] = ByteMax
    <3> SUFFICES ASSUME NEW i \in p + 1 .. last - 1 PROVE dest[i] = ByteMax
      OBVIOUS
    <3> DEFINE k == i - p
    <3>1. k \in 1 .. q /\ k \in 1 .. Len(more) /\ p + k = i
      BY <2>2, <2>6
    <3> HIDE DEF k
    <3>2. dest[p + k] = ByteMax
      BY <2>2, <2>5, <3>1
    <3> QED BY <3>1, <3>2
  <2>9. Min(ends) = last /\ ends # {}
    <3>1. last \in ends /\ ends \subseteq Nat
      BY <2>6, <2>7
    <3>2. \A i \in ends : last <= i
      <4> SUFFICES ASSUME NEW i \in ends, i < last PROVE FALSE
        BY <2>6
      <4>1. i \in p + 1 .. last - 1 /\ dest[i] # ByteMax
        BY <2>6
      <4> QED BY <2>8, <4>1
    <3> HIDE DEF ends, last
    <3> DEFINE x == Min(ends)
    <3>3. x \in ends /\ \A i \in ends : x <= i
      BY <3>1, MinOf
    <3> HIDE DEF x
    <3>4. x \in Nat /\ last \in Nat /\ last <= x /\ x <= last
      BY <2>6, <3>1, <3>2, <3>3
    <3>5. x = last
      BY <3>4
    <3> QED BY <3>1, <3>5 DEF x
  <2>10. ReadLength(mask, mask, p + 1)
           = [length |-> mask + ByteMax * (last - (p + 1)) + dest[last], next |-> last + 1]
    <3> HIDE DEF last
    <3> QED BY <2>1, <2>9 DEF ReadLength
  <2>11. mask + ByteMax * (last - (p + 1)) + dest[last] = length
    <3>1. last - (p + 1) = q
      BY <2>2
    <3> DEFINE y == ByteMax * q
    <3>2. length - mask = y + r /\ y \in Nat
      BY <2>2, <2>4
    <3> HIDE DEF y
    <3>3. mask + y + r = length
      BY <2>2, <3>2
    <3> QED BY <2>7, <3>1, <3>3 DEF y
  <2>12. last + 1 = p + 1 + MoreBytes(length, mask)
    BY <2>2, <2>3
  <2> QED BY <2>1, <2>10, <2>11, <2>12 DEF LengthIs
<1> QED BY <1>1, <1>2

(* A reader who has read the first bytes of the page is at b.              *)
ReaderAt(r, b, u) == r = [next |-> b + 1, text |-> u] /\ Decoded(u, src)

(* A sequence, read whole.                                                 *)
LEMMA SequenceReadIs ==
  ASSUME dest \in Seq(Bytes), src \in Seq(Bytes), NEW b \in Nat, NEW n, Sound(src, n),
         Stored(src, dest, b, n), n.length = 0 => SeqEnd(b, n) = Len(dest),
         NEW u, Decoded(u, src), Len(u) = n.out
  PROVE  \E v : /\ ReaderAt(SequenceRead([next |-> b + 1, text |-> u]), SeqEnd(b, n), v)
                /\ Len(v) = Reach(n)
<1> DEFINE so_far   == [next |-> b + 1, text |-> u]
           lits     == n.lits
           literals == ReadLength(dest[b + 1] \div (ML_MASK + 1), RUN_MASK, b + 1 + 1)
           m        == literals.next + literals.length
           matched  == ReadLength(dest[b + 1] % (ML_MASK + 1), ML_MASK, m + 2)
           offset   == dest[m] + (Base * dest[m + 1])
           longer   == u \o SubSeq(dest, literals.next, m - 1)
           at       == LitsAt(b, lits)
           end      == LitsEnd(b, lits)
<1>1. SequenceRead(so_far)
        = IF b + 1 > Len(dest) THEN so_far
          ELSE IF m > Len(dest) THEN [next |-> m, text |-> longer]
          ELSE [next |-> matched.next,
                text |-> longer \o Repeated(longer, offset, matched.length + MINMATCH)]
  BY DEF SequenceRead
<1>2. /\ lits \in Nat /\ at \in Nat /\ at > b /\ end \in Nat /\ end = at + lits
      /\ n.length \in Nat /\ Len(dest) \in Nat
  BY SequenceIs
<1>3. /\ end <= Len(dest) /\ Holds(dest, b + 1, MoreLength(lits, RUN_MASK))
  BY DEF Stored, StoredRun
<1>4. literals = [length |-> lits, next |-> at + 1]
  <2>1. dest[b + 1] \div (ML_MASK + 1) = Min({lits, RUN_MASK})
    BY TokenHalves
  <2>2. RUN_MASK \in Nat /\ b + 1 \in Nat
    BY FormatFacts
  <2>3. LengthIs(lits, RUN_MASK, b + 1)
    <3> HIDE DEF lits
    <3> QED BY <1>2, <1>3, <2>2, LengthReadIs
  <2>4. b + 1 + 1 + MoreBytes(lits, RUN_MASK) = at + 1
    <3>1. at = b + 1 + MoreBytes(lits, RUN_MASK) /\ MoreBytes(lits, RUN_MASK) \in Nat
      BY <1>2, <2>2, MoreLengthIs DEF LitsAt
    <3> HIDE DEF at
    <3> QED BY <3>1
  <2> HIDE DEF at, lits
  <2> QED BY <2>1, <2>3, <2>4 DEF LengthIs
<1>5. m = end + 1 /\ literals.next = at + 1
  <2>1. m = (at + 1) + lits /\ literals.next = at + 1
    BY <1>4
  <2> HIDE DEF literals, at, end, lits
  <2> QED BY <1>2, <2>1
<1>6. longer = u \o LiteralsAt(at, lits)
  <2>1. LiteralsAt(at, lits) = SubSeq(dest, at + 1, at + lits)
    BY DEF LiteralsAt
  <2>2. m - 1 = at + lits
    <3> HIDE DEF literals, at, end, lits
    <3> QED BY <1>2, <1>5
  <2> HIDE DEF literals, at, end, lits
  <2> QED BY <1>5, <2>1, <2>2
<1>7. Decoded(longer, src) /\ Len(longer) = Covers(n)
  <2> DEFINE v == LiteralsAt(at, lits)
  <2>1. Decoded(u \o v, src) /\ Len(u \o v) = Covers(n)
    BY LiteralsDecoded
  <2> HIDE DEF v, longer
  <2> QED BY <1>6, <2>1 DEF v
<1>8. ~ (b + 1 > Len(dest))
  <2> HIDE DEF at, end, lits
  <2> QED BY <1>2, <1>3
<1>9. CASE n.length = 0
  <2>1. end = Len(dest) /\ SeqEnd(b, n) = end /\ Reach(n) = Covers(n)
    <3>1. SeqEnd(b, n) = end /\ Reach(n) = Covers(n) + n.length /\ Covers(n) \in Nat
      BY <1>9, SequenceIs DEF SeqEnd
    <3> QED BY <1>9, <3>1
  <2>2. SequenceRead(so_far) = [next |-> end + 1, text |-> longer]
    <3> HIDE DEF so_far, literals, m, matched, offset, longer, end
    <3> QED BY <1>1, <1>2, <1>5, <1>8, <2>1
  <2>3. ReaderAt(SequenceRead(so_far), SeqEnd(b, n), longer) /\ Len(longer) = Reach(n)
    <3> HIDE DEF so_far, literals, m, matched, offset, longer, end
    <3> QED BY <1>7, <2>1, <2>2 DEF ReaderAt
  <2> HIDE DEF longer
  <2> QED BY <2>3
<1>10. CASE n.length # 0
  <2> DEFINE code == n.length - MINMATCH
             v    == Repeated(longer, n.offset, n.length)
  <2>1. Holds(dest, end, LE16(n.offset)) /\ Holds(dest, end + 2, MoreLength(code, ML_MASK))
    BY <1>10 DEF Stored, StoredMatch
  <2>2. n.offset \in Nat /\ code \in Nat /\ code + MINMATCH = n.length /\ ML_MASK \in Nat
    <3>1. n.offset \in Nat /\ code \in Nat /\ n.length \in Nat
      BY <1>10, SequenceIs
    <3> QED BY <3>1, FormatFacts
  <2> HIDE DEF code
  <2>3. /\ Len(LE16(n.offset)) = 2 /\ end + 2 <= Len(dest)
        /\ dest[end + 1] = LE16(n.offset)[1] /\ dest[end + 1 + 1] = LE16(n.offset)[2]
    <3> DEFINE w == LE16(n.offset)
    <3>1. Len(w) = 2
      BY DEF LE16
    <3> HIDE DEF w, end
    <3>2. end + 2 <= Len(dest) /\ \A k \in 1 .. 2 : dest[end + k] = w[k]
      BY <2>1, <3>1 DEF Holds, w
    <3>3. 1 \in 1 .. 2 /\ 2 \in 1 .. 2 /\ end + 2 = end + 1 + 1
      BY <1>2
    <3>4. dest[end + 1] = w[1] /\ dest[end + 2] = w[2]
      BY <3>2, <3>3
    <3> QED BY <3>1, <3>2, <3>3, <3>4 DEF w
  <2>4. offset = n.offset
    <3>1. offset = dest[end + 1] + (Base * dest[end + 1 + 1])
      <4> HIDE DEF m, end
      <4> QED BY <1>5
    <3> HIDE DEF offset, end
    <3> QED BY <2>2, <2>3, <3>1, LE16Back
  <2>5. matched = [length |-> code, next |-> SeqEnd(b, n) + 1]
    <3>1. dest[b + 1] % (ML_MASK + 1) = Min({code, ML_MASK})
      BY <1>10, TokenHalves DEF Code, code
    <3>2. end + 2 \in Nat
      BY <1>2
    <3>3. LengthIs(code, ML_MASK, end + 2)
      <4> HIDE DEF end
      <4> QED BY <2>1, <2>2, <3>2, LengthReadIs
    <3>4. end + 2 + 1 + MoreBytes(code, ML_MASK) = SeqEnd(b, n) + 1 /\ m + 2 = end + 2 + 1
      <4>1. SeqEnd(b, n) = end + 2 + MoreBytes(code, ML_MASK)
        BY <1>10 DEF SeqEnd, code
      <4>2. MoreBytes(code, ML_MASK) \in Nat
        BY <2>2, MoreLengthIs
      <4> DEFINE e == SeqEnd(b, n)
                 k == MoreBytes(code, ML_MASK)
      <4>3. e = end + 2 + k /\ k \in Nat /\ end \in Nat /\ m = end + 1
        BY <1>2, <1>5, <4>1, <4>2
      <4> HIDE DEF m, end, e, k
      <4>4. end + 2 + 1 + k = e + 1 /\ m + 2 = end + 2 + 1
        BY ONLY <4>3
      <4> QED BY <4>4 DEF e, k
    <3> HIDE DEF m, end
    <3> QED BY <3>1, <3>3, <3>4 DEF LengthIs
  <2>6. ~ (m > Len(dest))
    <3> HIDE DEF m, end
    <3> QED BY <1>2, <1>5, <2>3
  <2>7. SequenceRead(so_far) = [next |-> SeqEnd(b, n) + 1, text |-> longer \o v]
    <3>1. matched.next = SeqEnd(b, n) + 1 /\ matched.length + MINMATCH = n.length
      <4> HIDE DEF matched
      <4> QED BY <2>2, <2>5
    <3>2. SequenceRead(so_far)
            = [next |-> matched.next,
               text |-> longer \o Repeated(longer, offset, matched.length + MINMATCH)]
      <4> HIDE DEF so_far, literals, m, matched, offset, longer
      <4> QED BY <1>1, <1>8, <2>6
    <3> HIDE DEF so_far, literals, m, matched, offset, longer
    <3> QED BY <2>4, <3>1, <3>2
  <2>8. Decoded(longer \o v, src) /\ Len(longer \o v) = Reach(n)
    <3> HIDE DEF longer
    <3> QED BY <1>7, <1>10, MatchDecoded
  <2> HIDE DEF longer, v, so_far
  <2>9. ReaderAt(SequenceRead(so_far), SeqEnd(b, n), longer \o v)
    BY <2>7, <2>8 DEF ReaderAt
  <2> QED BY <2>8, <2>9 DEF so_far
<1> QED BY <1>9, <1>10

(* A reader of N sequences.  What it has read after some of them decides   *)
(* what it has read after one more, so there is one for every N.           *)
Reader(f, first, N) ==
  f = [k \in 0 .. N |-> IF k = 0 THEN first ELSE SequenceRead(f[k - 1])]

LEMMA ReaderMore ==
  ASSUME NEW m \in Nat \ {0}, NEW first, NEW f, Reader(f, first, m - 1)
  PROVE  \E g : Reader(g, first, m)
<1> DEFINE one(k) == IF k = 0 THEN first ELSE SequenceRead(f[k - 1])
           g      == [k \in 0 .. m |-> one(k)]
<1>1. f = [k \in 0 .. m - 1 |-> one(k)]
  BY DEF Reader
<1>2. \A k \in 0 .. m - 1 : f[k] = one(k) /\ g[k] = one(k)
  <2> HIDE DEF one
  <2>1. \A k \in 0 .. m - 1 : k \in 0 .. m
    OBVIOUS
  <2> QED BY <1>1, <2>1
<1>3. \A k \in 0 .. m : one(k) = IF k = 0 THEN first ELSE SequenceRead(g[k - 1])
  <2> SUFFICES ASSUME NEW k \in 0 .. m, k # 0 PROVE one(k) = SequenceRead(g[k - 1])
    OBVIOUS
  <2>1. k - 1 \in 0 .. m - 1
    OBVIOUS
  <2>2. f[k - 1] = g[k - 1]
    BY <1>2, <2>1
  <2> QED BY <2>2
<1>4. PICK h : h = g
  OBVIOUS
<1>5. h = [k \in 0 .. m |-> IF k = 0 THEN first ELSE SequenceRead(h[k - 1])]
  <2>1. \A k \in 0 .. m : one(k) = IF k = 0 THEN first ELSE SequenceRead(h[k - 1])
    BY <1>3, <1>4
  <2>2. h = [k \in 0 .. m |-> one(k)]
    BY <1>4
  <2> HIDE DEF one, g
  <2> QED BY <2>1, <2>2
<1>6. Reader(h, first, m)
  BY <1>5 DEF Reader
<1> QED BY <1>6

LEMMA ReaderExists ==
  ASSUME NEW N \in Nat, NEW first
  PROVE  \E f : Reader(f, first, N)
<1> DEFINE S == {m \in Nat : ~ \E f : Reader(f, first, m)}
<1>1. ASSUME S # {} PROVE FALSE
  <2>1. PICK m \in S : \A y \in S : m <= y
    <3>1. S \subseteq Nat
      OBVIOUS
    <3> HIDE DEF S
    <3> QED BY <1>1, <3>1, MinOf
  <2>2. m \in Nat /\ ~ \E f : Reader(f, first, m)
    OBVIOUS
  <2>3. m # 0
    <3> SUFFICES ASSUME m = 0 PROVE FALSE
      OBVIOUS
    <3> DEFINE f == [k \in 0 .. 0 |-> first]
    <3>1. f = [k \in 0 .. 0 |-> IF k = 0 THEN first ELSE SequenceRead(f[k - 1])]
      <4>1. \A k \in 0 .. 0 : k = 0
        OBVIOUS
      <4> QED BY <4>1
    <3> HIDE DEF f
    <3>2. Reader(f, first, 0)
      BY <3>1 DEF Reader
    <3> QED BY <2>2, <3>2
  <2>4. m - 1 \in Nat /\ ~ (m <= m - 1) /\ m \in Nat \ {0}
    BY <2>2, <2>3
  <2>5. m - 1 \notin S
    <3> HIDE DEF S
    <3> QED BY <2>1, <2>4
  <2>6. PICK f : Reader(f, first, m - 1)
    BY <2>4, <2>5
  <2> QED BY <2>2, <2>4, <2>6, ReaderMore
<1> QED BY <1>1

LEMMA MeaningRead ==
  ASSUME Len(dest) \in Nat
  PROVE  \E f : /\ Meaning = f[Len(dest)].text /\ f[0] = [next |-> 1, text |-> <<>>]
                /\ \A k \in 1 .. Len(dest) : f[k] = SequenceRead(f[k - 1])
<1> DEFINE first   == [next |-> 1, text |-> <<>>]
           N       == Len(dest)
           read    == CHOOSE f : Reader(f, first, N)
<1>1. Meaning = read[N].text
  BY DEF Meaning, Reader
<1>2. Reader(read, first, N)
  <2>1. \E f : Reader(f, first, N)
    BY ReaderExists
  <2> HIDE DEF first, N
  <2> QED BY ONLY <2>1
<1> HIDE DEF read, first, N
<1>3. \A k \in 0 .. N : read[k] = IF k = 0 THEN first ELSE SequenceRead(read[k - 1])
  <2> DEFINE g == [k \in 0 .. N |-> IF k = 0 THEN first ELSE SequenceRead(read[k - 1])]
  <2>1. \A k \in 0 .. N : g[k] = IF k = 0 THEN first ELSE SequenceRead(read[k - 1])
    OBVIOUS
  <2>2. read = g
    BY <1>2 DEF Reader
  <2> HIDE DEF g
  <2> QED BY <2>1, <2>2
<1> USE DEF first, N
<1>4. \A k \in 0 .. N : read[k] = IF k = 0 THEN first ELSE SequenceRead(read[k - 1])
  BY <1>3
<1>5. 0 \in 0 .. N /\ \A k \in 1 .. N : k \in 0 .. N /\ k # 0
  OBVIOUS
<1> QED BY <1>1, <1>4, <1>5

(* The pairs in R are where a sequence begins in the block, and how much   *)
(* of the page is before it; the last is the end of both.                  *)
Follows(R, total) ==
  /\ <<0, 0>> \in R
  /\ \A b, out : <<b, out>> \in R =>
       /\ b \in Nat
       /\ \/ b = Len(dest) /\ out = total
          \/ \E n : /\ Sound(src, n) /\ Stored(src, dest, b, n) /\ n.out = out
                    /\ n.length = 0 => SeqEnd(b, n) = Len(dest)
                    /\ <<SeqEnd(b, n), Reach(n)>> \in R

(* The reader is at one of these pairs, k bytes further on or at the end.  *)
ReadTo(R, total, k, r) ==
  \E b, u : /\ ReaderAt(r, b, u) /\ <<b, Len(u)>> \in R
            /\ b >= k \/ (b = Len(dest) /\ Len(u) = total)

LEMMA ReadMore ==
  ASSUME dest \in Seq(Bytes), src \in Seq(Bytes), NEW R, NEW total, Follows(R, total),
         NEW k \in Nat, NEW r, ReadTo(R, total, k, r)
  PROVE  ReadTo(R, total, k + 1, SequenceRead(r))
<1>1. PICK b, u : /\ ReaderAt(r, b, u) /\ <<b, Len(u)>> \in R
                  /\ b >= k \/ (b = Len(dest) /\ Len(u) = total)
  BY DEF ReadTo
<1>2. r = [next |-> b + 1, text |-> u] /\ Decoded(u, src) /\ b \in Nat
  BY <1>1 DEF ReaderAt, Follows
<1>3. CASE b = Len(dest) /\ Len(u) = total
  <2>1. b + 1 > Len(dest) /\ r.next = b + 1
    BY <1>2, <1>3
  <2>2. SequenceRead(r) = r
    BY <2>1 DEF SequenceRead
  <2> QED BY <1>1, <1>3, <2>2 DEF ReadTo
<1>4. CASE ~ (b = Len(dest) /\ Len(u) = total)
  <2>1. PICK n : /\ Sound(src, n) /\ Stored(src, dest, b, n) /\ n.out = Len(u)
                 /\ n.length = 0 => SeqEnd(b, n) = Len(dest)
                 /\ <<SeqEnd(b, n), Reach(n)>> \in R
    BY <1>1, <1>4 DEF Follows
  <2>2. PICK v : /\ ReaderAt(SequenceRead([next |-> b + 1, text |-> u]), SeqEnd(b, n), v)
                 /\ Len(v) = Reach(n)
    BY <1>2, <2>1, SequenceReadIs
  <2>3. SeqEnd(b, n) \in Nat /\ SeqEnd(b, n) > b
    BY <1>2, <2>1, SequenceAfter
  <2> DEFINE e == SeqEnd(b, n)
  <2>4. e >= k + 1
    <3>1. b >= k
      BY <1>1, <1>4
    <3> HIDE DEF e
    <3> QED BY <1>2, <2>3, <3>1 DEF e
  <2> QED BY <1>2, <2>1, <2>2, <2>4 DEF ReadTo
<1> QED BY <1>3, <1>4

LEMMA MeaningIs ==
  ASSUME dest \in Seq(Bytes), src \in Seq(Bytes), NEW R, NEW total, Follows(R, total),
         \A b, out : <<b, out>> \in R /\ b >= Len(dest) => out = total
  PROVE  Decoded(Meaning, src) /\ Len(Meaning) = total
<1>0. Len(dest) \in Nat
  OBVIOUS
<1>1. PICK f : /\ Meaning = f[Len(dest)].text /\ f[0] = [next |-> 1, text |-> <<>>]
               /\ \A k \in 1 .. Len(dest) : f[k] = SequenceRead(f[k - 1])
  BY <1>0, MeaningRead
<1>2. ReadTo(R, total, 0, f[0])
  <2>1. Decoded(<<>>, src) /\ Len(<<>>) = 0
    BY DEF Decoded
  <2>2. ReaderAt(f[0], 0, <<>>)
    BY <1>1, <2>1 DEF ReaderAt
  <2>3. <<0, Len(<<>>)>> \in R
    BY <2>1 DEF Follows
  <2> QED BY <2>2, <2>3 DEF ReadTo
<1> DEFINE S == {k \in Nat : k <= Len(dest) /\ ~ ReadTo(R, total, k, f[k])}
<1>3. ASSUME S # {} PROVE FALSE
  <2>1. PICK m \in S : \A y \in S : m <= y
    <3>1. S \subseteq Nat
      OBVIOUS
    <3> HIDE DEF S
    <3> QED BY <1>3, <3>1, MinOf
  <2>2. m \in Nat /\ m <= Len(dest) /\ ~ ReadTo(R, total, m, f[m])
    OBVIOUS
  <2>3. m # 0
    BY <1>2, <2>2
  <2>4. /\ m - 1 \in Nat /\ m - 1 <= Len(dest) /\ ~ (m <= m - 1)
        /\ m \in 1 .. Len(dest) /\ m - 1 + 1 = m
    BY <1>0, <2>2, <2>3
  <2>5. ReadTo(R, total, m - 1, f[m - 1])
    <3>1. m - 1 \notin S
      <4> HIDE DEF S
      <4> QED BY <2>1, <2>4
    <3> QED BY <2>4, <3>1
  <2>6. ReadTo(R, total, m - 1 + 1, SequenceRead(f[m - 1]))
    BY <2>4, <2>5, ReadMore
  <2>7. f[m] = SequenceRead(f[m - 1])
    BY <1>1, <2>4
  <2> QED BY <2>2, <2>4, <2>6, <2>7
<1>4. ReadTo(R, total, Len(dest), f[Len(dest)])
  BY <1>0, <1>3
<1>5. PICK b, u : /\ ReaderAt(f[Len(dest)], b, u) /\ <<b, Len(u)>> \in R
                  /\ b >= Len(dest) \/ (b = Len(dest) /\ Len(u) = total)
  BY <1>4 DEF ReadTo
<1>6. Len(u) = total /\ Decoded(u, src) /\ f[Len(dest)].text = u
  BY <1>5 DEF ReaderAt
<1> QED BY <1>1, <1>6

(* The block of a compressor between two sequences.                        *)
LEMMA PrefixMeans ==
  ASSUME dest \in Seq(Bytes), src \in Seq(Bytes), NEW reach, Prefix(src, dest, reach)
  PROVE  Decoded(Meaning, src) /\ Len(Meaning) = reach
<1> DEFINE N == Len(dest)
<1>1. PICK mark : Written(src, dest, mark, N, reach)
  BY DEF Prefix
<1> DEFINE R == {<<N, reach>>} \cup {<<b, mark[b].out>> : b \in DOMAIN mark}
<1>2. N \in Nat
  OBVIOUS
<1>3. \A b \in DOMAIN mark : /\ b \in Nat /\ mark[b].length # 0 /\ SeqEnd(b, mark[b]) <= N
                             /\ Sound(src, mark[b]) /\ Stored(src, dest, b, mark[b])
                             /\ Continues(mark, N, reach, SeqEnd(b, mark[b]), Reach(mark[b]))
  BY <1>1 DEF Written
<1>4. \A b, out : Continues(mark, N, reach, b, out) => <<b, out>> \in R
  BY DEF Continues
<1>5. \A b, out : <<b, out>> \in R => \/ b = N /\ out = reach
                                      \/ b \in DOMAIN mark /\ out = mark[b].out
  OBVIOUS
<1>6. <<0, 0>> \in R
  BY <1>1, <1>4 DEF Written
<1> HIDE DEF R
<1>7. Follows(R, reach)
  <2> SUFFICES ASSUME NEW b, NEW out, <<b, out>> \in R
               PROVE  /\ b \in Nat
                      /\ \/ b = N /\ out = reach
                         \/ \E n : /\ Sound(src, n) /\ Stored(src, dest, b, n) /\ n.out = out
                                   /\ n.length = 0 => SeqEnd(b, n) = N
                                   /\ <<SeqEnd(b, n), Reach(n)>> \in R
    BY <1>6 DEF Follows
  <2>1. CASE b \in DOMAIN mark /\ out = mark[b].out
    BY <1>3, <1>4, <2>1
  <2> QED BY <1>2, <1>5, <2>1
<1>8. ASSUME NEW b, NEW out, <<b, out>> \in R, b >= N PROVE out = reach
  <2> SUFFICES ASSUME b \in DOMAIN mark PROVE FALSE
    BY <1>5, <1>8
  <2>1. b \in Nat /\ SeqEnd(b, mark[b]) <= N /\ Sound(src, mark[b])
    BY <1>3
  <2>2. SeqEnd(b, mark[b]) \in Nat /\ SeqEnd(b, mark[b]) > b
    BY <2>1, SequenceAfter
  <2> DEFINE e == SeqEnd(b, mark[b])
  <2> HIDE DEF e
  <2> QED BY <1>2, <1>8, <2>1, <2>2 DEF e
<1> QED BY <1>7, <1>8, MeaningIs

(* The block of a compressor that is done. *)
LEMMA CompleteMeans ==
  ASSUME dest \in Seq(Bytes), src \in Seq(Bytes), Complete(src, dest)
  PROVE  Decoded(Meaning, src) /\ Len(Meaning) = Len(src)
<1> DEFINE N == Len(dest)
<1>1. PICK mark, last, n : Whole(src, dest, mark, last, n)
  BY DEF Complete
<1>2. /\ Written(src, dest, mark, last, n.out) /\ last \in Nat /\ Sound(src, n)
      /\ Stored(src, dest, last, n) /\ n.length = 0 /\ SeqEnd(last, n) = N /\ Reach(n) = Len(src)
  BY <1>1 DEF Whole
<1> DEFINE R == {<<N, Len(src)>>, <<last, n.out>>} \cup {<<b, mark[b].out>> : b \in DOMAIN mark}
<1>3. N \in Nat /\ last < N
  <2>1. SeqEnd(last, n) > last
    BY <1>2, SequenceAfter
  <2> QED BY <1>2, <2>1
<1>4. \A b \in DOMAIN mark : /\ b \in Nat /\ mark[b].length # 0 /\ SeqEnd(b, mark[b]) <= last
                             /\ Sound(src, mark[b]) /\ Stored(src, dest, b, mark[b])
                             /\ Continues(mark, last, n.out, SeqEnd(b, mark[b]), Reach(mark[b]))
  BY <1>2 DEF Written
<1>5. \A b, out : Continues(mark, last, n.out, b, out) => <<b, out>> \in R
  BY DEF Continues
<1>6. \A b, out : <<b, out>> \in R => \/ b = N /\ out = Len(src)
                                      \/ b = last /\ out = n.out
                                      \/ b \in DOMAIN mark /\ out = mark[b].out
  OBVIOUS
<1>7. <<0, 0>> \in R /\ <<N, Len(src)>> \in R
  BY <1>2, <1>5 DEF Written
<1> HIDE DEF R
<1>8. Follows(R, Len(src))
  <2> SUFFICES ASSUME NEW b, NEW out, <<b, out>> \in R
               PROVE  /\ b \in Nat
                      /\ \/ b = N /\ out = Len(src)
                         \/ \E x : /\ Sound(src, x) /\ Stored(src, dest, b, x) /\ x.out = out
                                   /\ x.length = 0 => SeqEnd(b, x) = N
                                   /\ <<SeqEnd(b, x), Reach(x)>> \in R
    BY <1>7 DEF Follows
  <2>1. CASE b = last /\ out = n.out
    BY <1>2, <1>7, <2>1
  <2>2. CASE b \in DOMAIN mark /\ out = mark[b].out
    BY <1>4, <1>5, <2>2
  <2> QED BY <1>3, <1>6, <2>1, <2>2
<1>9. ASSUME NEW b, NEW out, <<b, out>> \in R, b >= N PROVE out = Len(src)
  <2>1. CASE b \in DOMAIN mark
    <3>1. b \in Nat /\ SeqEnd(b, mark[b]) <= last /\ Sound(src, mark[b])
      BY <1>4, <2>1
    <3>2. SeqEnd(b, mark[b]) \in Nat /\ SeqEnd(b, mark[b]) > b
      BY <3>1, SequenceAfter
    <3> DEFINE e == SeqEnd(b, mark[b])
    <3> HIDE DEF e
    <3> QED BY <1>2, <1>3, <1>9, <3>1, <3>2 DEF e
  <2>2. CASE b = last
    BY <1>2, <1>3, <1>9, <2>2
  <2> QED BY <1>6, <1>9, <2>1, <2>2
<1> QED BY <1>8, <1>9, MeaningIs

LEMMA MeaningFollows == Compressor /\ Tape => PrefixEncoded
<1> SUFFICES ASSUME Compressor, Tape PROVE PrefixEncoded
  OBVIOUS
<1>1. src \in Seq(Bytes) /\ dest \in Seq(Bytes)
  BY DEF Compressor, Searching, Positions, BlockTyped
<1>2. ASSUME pc \in {"next", "last"} PROVE Meaning = Literals(0, anchor)
  <2>1. Decoded(Meaning, src) /\ Len(Meaning) = anchor
    BY <1>1, <1>2, PrefixMeans DEF Tape
  <2>2. anchor \in Nat /\ anchor <= Len(src)
    BY <2>1, <1>1 DEF Decoded
  <2> DEFINE part == SubSeq(src, 0 + 1, 0 + anchor)
  <2>3. part \in Seq(Bytes) /\ Len(part) = anchor /\ \A k \in 1 .. anchor : part[k] = src[0 + k]
    BY <1>1, <2>2, PartOf
  <2>4. Literals(0, anchor) = part
    BY <2>2 DEF Literals
  <2> HIDE DEF part
  <2>5. \A k \in 1 .. anchor : 0 + k = k
    BY <2>2
  <2>6. Meaning = part
    BY <2>1, <2>3, <2>5, SeqEqual DEF Decoded
  <2> QED BY <2>4, <2>6
<1>3. ASSUME pc = "compressed" PROVE Meaning = src
  <2>1. Decoded(Meaning, src) /\ Len(Meaning) = Len(src)
    BY <1>1, <1>3, CompleteMeans DEF Tape
  <2> QED BY <1>1, <2>1, SamePage
<1> QED BY <1>2, <1>3 DEF PrefixEncoded

(* For every page, hash function and format, the block is at any time      *)
(* between two sequences an encoding of the part of the page it stands     *)
(* for, read as the format says and not as the decoder does it.            *)
THEOREM PrefixEncodedAlways == LZ4Spec => []PrefixEncoded
<1>1. CodecInv => PrefixEncoded
  BY MeaningFollows DEF CodecInv
<1> QED BY <1>1, LZ4Invariant, PTL

=============================================================================

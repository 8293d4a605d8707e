---------------------------- MODULE LZ4Compress ----------------------------
(***************************************************************************)
(* LZ4_compress_default, as LZ4CompressionAlgorithm calls it: a page of    *)
(* less than 64 KB and a destination of LZ4_compressBound bytes, so that   *)
(* LZ4_compress_fast_extState compresses without limit on the output, with *)
(* a table of 16-bit indices, no dictionary and acceleration 1.            *)
(*                                                                         *)
(* The numbers of the format are constants, so that every branch can also  *)
(* be reached with small pages.  One step is one iteration of the search,  *)
(* or one of the blocks the loop is divided into by its comments.  Bytes   *)
(* are numbers; addresses are offsets from src and dest.                   *)
(***************************************************************************)
EXTENDS ByteStrings

CONSTANTS
  MINMATCH, WILDCOPYLENGTH, LASTLITERALS,
  ML_MASK, RUN_MASK,   (* largest match and literal lengths in a token     *)
  SkipTrigger,         (* LZ4_skipTrigger                                  *)
  Hash(_),             (* LZ4_hash4, of MINMATCH bytes                     *)
  BlockSlack,          (* the 16 of LZ4_COMPRESSBOUND                      *)
  Pages                (* the contents a page may have                     *)

Base    == (ML_MASK + 1) * (RUN_MASK + 1)   \* values of a byte
ByteMax == Base - 1
Bytes   == 0 .. ByteMax
MFLIMIT == WILDCOPYLENGTH + MINMATCH

ASSUME FormatAssumption ==
  /\ {MINMATCH, LASTLITERALS, WILDCOPYLENGTH, ML_MASK, RUN_MASK} \subseteq Nat \ {0}
  /\ {SkipTrigger, BlockSlack} \subseteq Nat
  /\ LASTLITERALS <= WILDCOPYLENGTH
  /\ 2 * WILDCOPYLENGTH = RUN_MASK + 1   \* the 16-byte copies of the decoder
ASSUME PageAssumption ==
  \A page \in Pages : /\ page \in Seq(Bytes) /\ page # <<>>
                      /\ Len(page) < Base * Base   \* LZ4_64Klimit: offsets fit

VARIABLES
  src,            (* the page                                              *)
  pc,             (* which block of the function is next                   *)
  ip, anchor,     (* where it is, and the first byte not yet encoded       *)
  forwardIp, step, searchMatchNb,
  match,          (* an earlier position with the same MINMATCH bytes      *)
  hashTable,      (* position last seen with that hash, 0 at first         *)
  dest,           (* the bytes written so far                              *)
  token,          (* index in dest of the token of the current sequence    *)
  touched         (* bytes of the destination written to, with those a     *)
                  (* wild copy writes in advance                           *)

compressVars == <<src, pc, ip, anchor, forwardIp, step, searchMatchNb, match,
                  hashTable, dest, token, touched>>

inputSize      == Len(src)
At(p)          == src[p + 1]
read32(p)      == SubSeq(src, p + 1, p + MINMATCH)
hashPosition(p) == Hash(read32(p))
mflimitPlusOne == inputSize - MFLIMIT + 1
matchlimit     == inputSize - LASTLITERALS
op             == Len(dest)

tightBound(size) == size + (size \div ByteMax)

(* LZ4_compressBound *)
compressBound(size) == size + (size \div ByteMax) + BlockSlack

-----------------------------------------------------------------------------
(* Encoding *)

(* The bytes behind a token for a length it has no room for.               *)
MoreLength(length, mask) ==
  IF length < mask THEN <<>>
  ELSE [k \in 1 .. (length - mask) \div ByteMax |-> ByteMax]
         \o <<(length - mask) % ByteMax>>

LiteralToken(length) == Min({length, RUN_MASK}) * (ML_MASK + 1)

Literals(from, to) == SubSeq(src, from + 1, to)

(* LZ4_count: equal bytes at p and q, up to limit.                         *)
count(p, q, limit) == 
  FirstFailure(limit - p, {n \in 0 .. limit - p - 1 : At(p + n) # At(q + n)})

OneByte(v) == <<v, 0>>

LE16(v) == <<v % Base, v \div Base>>

CompressInit ==
  /\ src \in Pages
  /\ pc = "first"
  /\ ip = 0 /\ anchor = 0 /\ forwardIp = 0 /\ step = 1
  /\ searchMatchNb = 2 ^ SkipTrigger
  /\ match = 0
  /\ hashTable = [h \in {} |-> 0]
  /\ dest = <<>> /\ token = 0 /\ touched = 0

(* The table has an entry for every hash; those never written are 0.       *)
GetIndex(h) == IF h \in DOMAIN hashTable THEN hashTable[h] ELSE 0
PutIndex(table, p) == [h \in DOMAIN table \cup {hashPosition(p)} |->
                         IF h = hashPosition(p) THEN p ELSE table[h]]

(* The search starts, or starts again, at p. *)
SearchFrom(p) == /\ pc' = "search"
                 /\ forwardIp' = p
                 /\ step' = 1
                 /\ searchMatchNb' = 2 ^ SkipTrigger

(* A page of less than LZ4_minLength bytes is all literals.                *)
FirstByte ==
  /\ pc = "first"
  /\ IF inputSize < MFLIMIT + 1
       THEN pc' = "last" /\ UNCHANGED <<hashTable, forwardIp, step, searchMatchNb>>
       ELSE hashTable' = PutIndex(hashTable, 0) /\ SearchFrom(1)
  /\ UNCHANGED <<src, ip, anchor, match, dest, token, touched>>

SearchEndsLate == forwardIp + step > mflimitPlusOne + 1

(* The next position to try is too close to the end for a match.           *)
SearchEnds == forwardIp + step > mflimitPlusOne

(* One iteration of the search, whose steps grow as it goes on.            *)
FindMatch ==
  /\ pc = "search"
  /\ ip' = forwardIp
  /\ forwardIp' = forwardIp + step
  /\ step' = searchMatchNb \div 2 ^ SkipTrigger
  /\ searchMatchNb' = searchMatchNb + 1
  /\ LET candidate == GetIndex(hashPosition(forwardIp))
         found     == read32(candidate) = read32(forwardIp)
     IN  IF SearchEnds
           THEN pc' = "last" /\ UNCHANGED <<hashTable, match>>
           ELSE /\ hashTable' = PutIndex(hashTable, forwardIp)
                /\ match' = candidate
                /\ pc' = IF found THEN "literals" ELSE "search"
  /\ UNCHANGED <<src, anchor, dest, token, touched>>

(* By how much the match can be extended backwards. *)
CatchUp ==
  LET limit == Min({ip - anchor, match})
  IN  FirstFailure(limit, {n \in 0 .. limit - 1 : At(ip - n - 1) # At(match - n - 1)})

(* Catch up and encode the literals. *)
EncodeLiterals ==
  /\ pc = "literals"
  /\ ip' = ip - CatchUp
  /\ match' = match - CatchUp
  /\ LET litLength == ip' - anchor
         head      == <<LiteralToken(litLength)>> \o MoreLength(litLength, RUN_MASK)
     IN  /\ dest' = dest \o head \o Literals(anchor, ip')
         /\ touched' = Max({touched, op + Len(head) + WholeChunks(litLength, WILDCOPYLENGTH)})
  /\ token' = op + 1
  /\ pc' = "match"
  /\ UNCHANGED <<src, anchor, forwardIp, step, searchMatchNb, hashTable>>

(* What LZ4_write32 of 0xFFFFFFFF reaches while it writes a match length   *)
(* four bytes at a time, starting at o.                                    *)
WordsEnd(o, length) ==
  IF length < ML_MASK THEN o
  ELSE o + 4 * ((length - ML_MASK) \div (4 * ByteMax)) + 4

CodeAndOneMore == Min({matchlimit - ip - MINMATCH,
                       count(ip + MINMATCH, match + MINMATCH, matchlimit) + 1})

(* By how much the match is longer than MINMATCH.                          *)
MatchCode == count(ip + MINMATCH, match + MINMATCH, matchlimit)

(* Encode the offset and the match length, whose first part goes into the  *)
(* token written before.                                                   *)
EncodeMatch ==
  /\ pc = "match"
  /\ dest' = [dest EXCEPT ![token] = @ + Min({MatchCode, ML_MASK})]
               \o LE16(ip - match) \o MoreLength(MatchCode, ML_MASK)
  /\ touched' = Max({touched, Len(dest'), WordsEnd(op + 2, MatchCode)})
  /\ ip' = ip + MatchCode + MINMATCH
  /\ anchor' = ip'
  /\ pc' = IF ip' >= mflimitPlusOne THEN "last" ELSE "next"
  /\ UNCHANGED <<src, forwardIp, step, searchMatchNb, match, hashTable, token>>

TestAfterFilling ==
  /\ pc = "next"
  /\ hashTable' = PutIndex(PutIndex(hashTable, ip - 2), ip)
  /\ match' = hashTable'[hashPosition(ip)]
  /\ token' = op + 1
  /\ dest' = Append(dest, 0)
  /\ touched' = Max({touched, Len(dest')})
  /\ pc' = "match"
  /\ UNCHANGED <<src, ip, anchor, forwardIp, step, searchMatchNb>>

(* Fill the table, and test whether the next sequence starts right here.   *)
TestNextPosition ==
  /\ pc = "next"
  /\ LET filled    == PutIndex(hashTable, ip - 2)
         h         == hashPosition(ip)
         candidate == IF h \in DOMAIN filled THEN filled[h] ELSE 0
     IN  /\ hashTable' = PutIndex(filled, ip)
         /\ IF read32(candidate) = read32(ip)
              THEN /\ match' = candidate
                   /\ token' = op + 1
                   /\ dest' = Append(dest, 0)
                   /\ touched' = Max({touched, Len(dest')})
                   /\ pc' = "match"
                   /\ UNCHANGED <<forwardIp, step, searchMatchNb>>
              ELSE /\ SearchFrom(ip + 1)
                   /\ UNCHANGED <<match, token, dest, touched>>
  /\ UNCHANGED <<src, ip, anchor>>

LastLiterals ==
  /\ pc = "last"
  /\ dest' = dest \o <<LiteralToken(inputSize - anchor)>>
                  \o MoreLength(inputSize - anchor, RUN_MASK) \o Literals(anchor, inputSize)
  /\ touched' = Max({touched, Len(dest')})
  /\ ip' = inputSize
  /\ pc' = "compressed"
  /\ UNCHANGED <<src, anchor, forwardIp, step, searchMatchNb, match, hashTable, token>>

CompressNext == \/ FirstByte
                \/ FindMatch
                \/ EncodeLiterals
                \/ EncodeMatch
                \/ TestNextPosition
                \/ LastLiterals

(* The function is called once and runs to its end. *)
CompressSpec == CompressInit /\ [][CompressNext]_compressVars /\ WF_compressVars(CompressNext)

-----------------------------------------------------------------------------
(* What a block means *)

(* The length whose token part is code, and the index behind it.           *)
ReadLength(code, mask, p) ==
  IF code < mask THEN [length |-> code, next |-> p]
  ELSE LET last == Min({q \in p .. Len(dest) : dest[q] # ByteMax})
       IN  [length |-> mask + ByteMax * (last - p) + dest[last], next |-> last + 1]

(* What a reader has made of the block one sequence further on: a run of   *)
(* literals, and but for the last a match.                                 *)
SequenceRead(so_far) ==
  LET p        == so_far.next
      literals == ReadLength(dest[p] \div (ML_MASK + 1), RUN_MASK, p + 1)
      m        == literals.next + literals.length
      matched  == ReadLength(dest[p] % (ML_MASK + 1), ML_MASK, m + 2)
      offset   == dest[m] + (Base * dest[m + 1])
      longer   == so_far.text \o SubSeq(dest, literals.next, m - 1)
  IN  IF p > Len(dest) THEN so_far
      ELSE IF m > Len(dest) THEN [next |-> m, text |-> longer]
      ELSE [next |-> matched.next,
            text |-> longer \o Repeated(longer, offset, matched.length + MINMATCH)]

(* The bytes that dest stands for. *)
Meaning ==
  LET read[k \in 0 .. Len(dest)] ==   \* after k sequences
        IF k = 0 THEN [next |-> 1, text |-> <<>>] ELSE SequenceRead(read[k - 1])
  IN  read[Len(dest)].text

-----------------------------------------------------------------------------
(* Properties *)

(* Types of the compressor, which is not told how long its destination is: *)
(* all it writes, what wild copies and four-byte writes reach in advance   *)
(* included, is within the bytes CompressDataPage allocates.               *)
CompressTypeOK ==
  /\ pc \in {"first", "search", "literals", "match", "next", "last", "compressed"}
  /\ {ip, anchor, match} \subseteq 0 .. inputSize
  /\ forwardIp \in Nat /\ step \in Nat \ {0} /\ searchMatchNb \in Nat
  /\ \A h \in DOMAIN hashTable : hashTable[h] \in 0 .. inputSize - MINMATCH
  /\ dest \in Seq(Bytes) /\ token \in 0 .. Len(dest)
  /\ touched \in 0 .. compressBound(inputSize)

(* Whenever no sequence is open, the block written so far stands for       *)
(* exactly the bytes up to the anchor, and at the end for the whole page:  *)
(* catching up, overlapping matches and lengths that do not fit the token  *)
(* lose and repeat nothing.                                                *)
PrefixEncoded ==
  /\ pc \in {"next", "last"} => Meaning = Literals(0, anchor)
  /\ pc = "compressed"       => Meaning = src

(* The asserts of the loop: a candidate from the table lies before the     *)
(* position it is compared with, however stale the entry, so that an       *)
(* offset is never 0 and fits its two bytes; the search stays away from    *)
(* the end; and the result is positive.  And the rules the decoder relies  *)
(* on: no match starts within MFLIMIT bytes of the end of the page, none   *)
(* reaches into its last LASTLITERALS bytes.                               *)
AssertionsHold ==
  /\ pc = "search" => GetIndex(hashPosition(forwardIp)) < forwardIp
  /\ pc = "next"   => GetIndex(hashPosition(ip)) < ip
  /\ pc \in {"literals", "match"} => /\ ip - match \in 1 .. (Base * Base) - 1
                                     /\ ip < mflimitPlusOne
                                     /\ read32(match) = read32(ip)
  /\ pc = "compressed" => op > 0
  /\ pc = "match" => ip + MFLIMIT <= inputSize
  /\ pc \in {"next", "last"} => anchor = 0 \/ anchor + LASTLITERALS <= inputSize
=============================================================================

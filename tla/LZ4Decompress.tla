--------------------------- MODULE LZ4Decompress ---------------------------
(***************************************************************************)
(* LZ4_decompress_safe, as DecompressDataPage calls it with a block that   *)
(* CompressDataPage made and the size of the page as the capacity: a full  *)
(* block, no dictionary, on a machine where the fast loop is compiled in.  *)
(*                                                                         *)
(* The decoder never copies byte by byte: it copies in chunks that may     *)
(* reach beyond what it was asked for, in the output and in the block, and *)
(* that overlap when a match is close.  text is what has been decoded; of  *)
(* the bytes a copy writes beyond it only the place matters (wrote).  A    *)
(* byte is Junk when a chunk reads it before it is written.                *)
(***************************************************************************)
EXTENDS LZ4Compress

CONSTANT Junk

VARIABLES
  dpc,       (* which loop of the function, or which of its labels, is next *)
  sequence,  (* index in the block of the token of the sequence             *)
  dip,       (* index in the block of what is read next                     *)
  text,      (* the bytes decoded                                           *)
  wrote,     (* bytes of the page written to                                *)
  fetched    (* bytes of the block read                                     *)

decompressVars == <<dpc, sequence, dip, text, wrote, fetched>>
lz4Vars == <<compressVars, decompressVars>>

iend  == Len(dest)
oend  == inputSize      \* the page the block is decoded into has the same size
opOut == Len(text)
InBlock(p) == dest[p + 1]

FASTLOOP_SAFE_DISTANCE   == 8 * WILDCOPYLENGTH
MATCH_SAFEGUARD_DISTANCE == (2 * WILDCOPYLENGTH) - MINMATCH
MaxShortMatch            == ML_MASK - 1 + MINMATCH   \* the 18 of the shortcuts
shortiend == iend - (RUN_MASK - 1) - 2
shortoend == oend - (RUN_MASK - 1) - MaxShortMatch

-----------------------------------------------------------------------------
(* Reading the block *)

(* read_variable_length, and the length whose token part is code.          *)
read_variable_length(code, mask, p, ilimit, initial_check) ==
  IF code < mask THEN [ok |-> TRUE, length |-> code, next |-> p]
  ELSE LET ends == {q \in p .. iend - 1 : InBlock(q) # ByteMax}
           last == Min(ends)
       IN  IF \/ initial_check /\ p >= ilimit
              \/ ends = {}
              \/ last + 1 > ilimit
             THEN [ok |-> FALSE, length |-> 0, next |-> p]
             ELSE [ok |-> TRUE, length |-> mask + (ByteMax * (last - p)) + InBlock(last),
                   next |-> last + 1]

LiteralCode == InBlock(sequence) \div (ML_MASK + 1)
MatchCodeOf == InBlock(sequence) % (ML_MASK + 1)

LiteralRun == read_variable_length(LiteralCode, RUN_MASK, sequence + 1, iend - RUN_MASK, TRUE)

(* The match described at p: offset, then the rest of its length.          *)
MatchAt(p) ==
  LET run == read_variable_length(MatchCodeOf, ML_MASK, p + 2, iend - LASTLITERALS + 1, FALSE)
  IN  [ok |-> run.ok, next |-> run.next, length |-> run.length + MINMATCH,
       offset |-> InBlock(p) + (Base * InBlock(p + 1))]

LiteralsAt(p, length) == SubSeq(dest, p + 1, p + length)

-----------------------------------------------------------------------------
(* Copying *)

(* The length bytes behind t when they are copied from distance before, in *)
(* chunks.  A chunk is read before it is written, so that from a smaller   *)
(* distance only its first bytes are the ones meant.                       *)
Copied(t, distance, length, chunk) ==
  IF distance >= chunk THEN Repeated(t, distance, length)
  ELSE [k \in 1 .. length |-> IF k <= distance THEN t[Len(t) - distance + k] ELSE Junk]

(* Where a copy of offsets smaller than a chunk goes on, once inc32table   *)
(* and dec64table have written one chunk byte for byte: the least multiple *)
(* of the offset that is no smaller than a chunk.                          *)
Widened(offset) == offset * ((WILDCOPYLENGTH + offset - 1) \div offset)

UnwidenedMatch(t, offset, length) == Copied(t, offset, length, WILDCOPYLENGTH)

(* A match copied in chunks of WILDCOPYLENGTH bytes, whatever its offset.  *)
WidenedMatch(t, offset, length) ==
  IF offset >= WILDCOPYLENGTH THEN Copied(t, offset, length, WILDCOPYLENGTH)
  ELSE LET first == t \o Repeated(t, offset, WILDCOPYLENGTH)
           all   == first \o Copied(first, Widened(offset), length, WILDCOPYLENGTH)
       IN  SubSeq(all, Len(t) + 1, Len(t) + length)

(* A copy has produced bytes, and has written and read that far.           *)
Produce(bytes, writtenTo, readTo) ==
  /\ text' = text \o bytes
  /\ wrote' = Max({wrote, writtenTo})
  /\ fetched' = Max({fetched, readTo})

-----------------------------------------------------------------------------
(* The decoder *)

DecompressInit == /\ CompressInit
                  /\ dpc = "idle"
                  /\ sequence = 0 /\ dip = 0
                  /\ text = <<>> /\ wrote = 0 /\ fetched = 0

Compressing == CompressNext /\ UNCHANGED decompressVars

(* The entry: short pages skip the fast loop.                              *)
Decompress ==
  /\ pc = "compressed" /\ dpc = "idle"
  /\ dpc' = IF oend < FASTLOOP_SAFE_DISTANCE THEN "safe" ELSE "fast"
  /\ UNCHANGED <<sequence, dip, text, wrote, fetched, compressVars>>

(* The fast loop copies the literals in one stripe, or in wild chunks when *)
(* there are many; too close to an end it goes to safe_literal_copy.       *)
FastLiterals ==
  /\ dpc = "fast"
  /\ LET run    == LiteralRun
         many   == LiteralCode = RUN_MASK
         stripe == (IF many THEN 4 ELSE 2) * WILDCOPYLENGTH
         extent == WholeChunks(run.length, stripe)
         room   == IF many THEN /\ opOut + run.length <= oend - stripe
                                /\ run.next + run.length <= iend - stripe
                           ELSE run.next <= iend - (stripe + 1)
     IN  IF run.ok /\ room
           THEN /\ Produce(LiteralsAt(run.next, run.length),
                           opOut + extent, run.next + extent)
                /\ dip' = run.next + run.length
                /\ dpc' = "fastmatch"
           ELSE /\ dpc' = IF run.ok THEN "literals" ELSE "error"
                /\ UNCHANGED <<dip, text, wrote, fetched>>
  /\ UNCHANGED <<sequence, compressVars>>

(* The fast loop copies the match, close ones with                         *)
(* LZ4_memcpy_using_offset, the others in chunks of twice the size; too    *)
(* close to the end it goes to safe_match_copy.                            *)
FastMatch ==
  /\ dpc = "fastmatch"
  /\ LET m     == MatchAt(dip)
         cpy   == opOut + m.length
         short == MatchCodeOf < ML_MASK /\ m.offset >= WILDCOPYLENGTH
         chunk == 2 * WILDCOPYLENGTH
     IN  IF ~m.ok \/ m.offset > opOut
           THEN dpc' = "error" /\ UNCHANGED <<sequence, dip, text, wrote, fetched>>
         ELSE IF cpy >= oend - FASTLOOP_SAFE_DISTANCE
           THEN dpc' = "match" /\ UNCHANGED <<sequence, dip, text, wrote, fetched>>
         ELSE /\ dpc' = "fast" /\ sequence' = m.next /\ dip' = m.next
              /\ CASE short ->
                        Produce(Copied(text, m.offset, m.length, WILDCOPYLENGTH),
                                opOut + MaxShortMatch, m.next)
                   [] ~short /\ m.offset < chunk ->
                        Produce(WidenedMatch(text, m.offset, m.length),
                                opOut + (IF m.offset \in {1, 2, 4}
                                           THEN WholeChunks(m.length, WILDCOPYLENGTH)
                                           ELSE WILDCOPYLENGTH + WholeChunks(m.length - WILDCOPYLENGTH,
                                                                             WILDCOPYLENGTH)),
                                m.next)
                   [] ~short /\ m.offset >= chunk ->
                        Produce(Copied(text, m.offset, m.length, chunk),
                                opOut + WholeChunks(m.length, 2 * chunk), m.next)
  /\ UNCHANGED compressVars

ShortcutOnOutput == LiteralCode < RUN_MASK /\ opOut <= shortoend

(* There is room in block and page for the whole chunks of a short         *)
(* sequence.                                                               *)
Shortcut == LiteralCode < RUN_MASK /\ sequence + 1 < shortiend /\ opOut <= shortoend

(* The safe loop: in the common case one stripe for the literals and one   *)
(* copy for a match that does not overlap.                                 *)
SafeSequence ==
  /\ dpc = "safe"
  /\ LET run  == LiteralRun
         m    == MatchAt(sequence + 1 + LiteralCode)
         lits == LiteralsAt(sequence + 1, LiteralCode)
         o    == opOut + LiteralCode
     IN  IF Shortcut
           THEN IF MatchCodeOf < ML_MASK /\ m.offset >= WILDCOPYLENGTH /\ m.offset <= o
                  THEN /\ Produce(lits \o Copied(text \o lits, m.offset, m.length, WILDCOPYLENGTH),
                                  o + MaxShortMatch, sequence + 1 + 2 * WILDCOPYLENGTH)
                       /\ sequence' = m.next
                       /\ UNCHANGED <<dip, dpc>>
                  ELSE /\ Produce(lits, opOut + 2 * WILDCOPYLENGTH,
                                  sequence + 1 + 2 * WILDCOPYLENGTH)
                       /\ dip' = sequence + 1 + LiteralCode
                       /\ dpc' = "match"
                       /\ UNCHANGED sequence
           ELSE /\ dpc' = IF run.ok THEN "literals" ELSE "error"
                /\ UNCHANGED <<sequence, dip, text, wrote, fetched>>
  /\ UNCHANGED compressVars

CloserToEnd(cpy, after) == cpy >= oend - MFLIMIT \/ after > iend - (2 + 1 + LASTLITERALS)

(* Literals that end at cpy in the page and at after in the block.         *)
CloseToEnd(cpy, after) == cpy > oend - MFLIMIT \/ after > iend - (2 + 1 + LASTLITERALS)

(* safe_literal_copy: literals that come close to either end must be the   *)
(* last ones, and end the block and no more than the page.                 *)
SafeLiteralCopy ==
  /\ dpc = "literals"
  /\ LET run    == LiteralRun
         cpy    == opOut + run.length
         extent == WholeChunks(run.length, WILDCOPYLENGTH)
         after  == run.next + run.length
         atEnd  == CloseToEnd(cpy, after)
     IN  IF atEnd /\ (after # iend \/ cpy > oend)
           THEN dpc' = "error" /\ UNCHANGED <<text, wrote, fetched>>
         ELSE IF atEnd
           THEN dpc' = "decoded" /\ Produce(LiteralsAt(run.next, run.length), cpy, after)
           ELSE /\ dpc' = "match"
                /\ Produce(LiteralsAt(run.next, run.length),
                           opOut + extent, run.next + extent)
  /\ dip' = LiteralRun.next + LiteralRun.length
  /\ UNCHANGED <<sequence, compressVars>>

(* _copy_match and safe_match_copy: near the end of the page whole chunks  *)
(* stop at oCopyLimit and the rest is copied byte for byte.                *)
SafeMatchCopy ==
  /\ dpc = "match"
  /\ LET m       == MatchAt(dip)
         cpy     == opOut + m.length
         nearEnd == cpy > oend - MATCH_SAFEGUARD_DISTANCE
         limit   == oend - (WILDCOPYLENGTH - 1)
         first   == opOut + WILDCOPYLENGTH
         second  == first + WILDCOPYLENGTH
     IN  IF ~m.ok \/ m.offset > opOut \/ (nearEnd /\ cpy > oend - LASTLITERALS)
           THEN dpc' = "error" /\ UNCHANGED <<sequence, text, wrote, fetched>>
           ELSE /\ Produce(WidenedMatch(text, m.offset, m.length),
                           IF nearEnd
                             THEN Max({first, cpy, IF first < limit
                                       THEN first + WholeChunks(limit - first, WILDCOPYLENGTH)
                                       ELSE 0})
                             ELSE IF m.length > 2 * WILDCOPYLENGTH
                               THEN second + WholeChunks(cpy - second, WILDCOPYLENGTH)
                               ELSE second,
                           m.next)
                /\ sequence' = m.next
                /\ dpc' = "safe"
  /\ UNCHANGED <<dip, compressVars>>

Decoding == \/ FastLiterals
            \/ FastMatch
            \/ SafeSequence
            \/ SafeLiteralCopy
            \/ SafeMatchCopy

LZ4Next == Compressing \/ Decompress \/ Decoding

(* A page is compressed once and decompressed once; neither function stops *)
(* half-way.                                                               *)
LZ4Spec == DecompressInit /\ [][LZ4Next]_lz4Vars /\ WF_lz4Vars(LZ4Next)

-----------------------------------------------------------------------------
(* Properties *)

(* Types, with the bounds that matter: every copy that goes beyond what it *)
(* was asked for stays within the page DecompressDataPage allocates and    *)
(* within the block, and so does the compressor in its buffer.             *)
LZ4TypeOK ==
  /\ CompressTypeOK
  /\ dpc \in {"idle", "fast", "fastmatch", "safe", "literals", "match", "decoded", "error"}
  /\ sequence \in 0 .. iend /\ dip \in 0 .. iend
  /\ text \in Seq(Bytes)
  /\ wrote \in 0 .. oend /\ fetched \in 0 .. iend

(* LZ4CompressionAlgorithm is a codec as Codec promises: the block it makes *)
(* has a size that fits, no check of the decoder refuses what the          *)
(* compressor wrote, the page comes back, and both calls return.           *)
LZ4Algorithm == INSTANCE Codec WITH
                  page            <- src,
                  compressed_size <- IF pc = "compressed" THEN Len(dest) ELSE 0,
                  returned        <- IF dpc = "decoded" THEN text ELSE <<>>,
                  Capacity        <- compressBound,
                  NoPage          <- <<>>
ImplementsCodec == LZ4Algorithm!Spec
=============================================================================

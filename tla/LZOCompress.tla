---------------------------- MODULE LZOCompress ----------------------------
(***************************************************************************)
(* lzo1x_1_compress of minilzo, as LZOCompressionAlgorithm calls it, in    *)
(* the variant x86-64 builds: a deterministic dictionary of 16-bit         *)
(* positions, cleared for every chunk, and copies and comparisons of whole *)
(* words.  The page is compressed in chunks; the literals a chunk leaves   *)
(* behind are passed on to the next, and the last ones, with the bytes     *)
(* that are too few for a chunk, are written by lzo1x_1_compress itself.   *)
(*                                                                         *)
(* The limits of the format are constants, so that short pages reach every *)
(* instruction.  Bytes are numbers; positions are offsets from src.        *)
(***************************************************************************)
EXTENDS ByteStrings

CONSTANTS
  M2_MAX_OFFSET, M3_MAX_OFFSET,   (* 2048 and 16384                        *)
  M3_MAX_LEN, M4_MAX_LEN,         (* 33 and 9                              *)
  RunByte,                        (* 255: what a 0 stands for in a length  *)
  FirstRunMax,                    (* 238: literals a block may begin with  *)
                                  (* in one instruction                    *)
  ChunkSize,                      (* 49152                                 *)
  SkipShift,                      (* 5: how fast the search speeds up      *)
  Hash(_),                        (* DINDEX, of four bytes                 *)
  Pages                           (* the contents a page may have          *)

Bytes      == 0 .. 255
M2_MAX_LEN == 8
M3_MARKER  == 32
M4_MARKER  == 16
Margin     == 20   \* bytes at the end of a chunk in which no match starts
MinChunk   == 32   \* bytes a chunk and the literals before it have at least

ASSUME LZOAssumption ==
  /\ M2_MAX_OFFSET \in 1 .. 2048 /\ M3_MAX_OFFSET \in M2_MAX_OFFSET .. 16384
  /\ M3_MAX_LEN \in M2_MAX_LEN .. 33 /\ M4_MAX_LEN \in M2_MAX_LEN .. 9
  /\ RunByte \in 16 .. 255 /\ FirstRunMax \in 4 .. 238
  /\ ChunkSize \in Margin + 1 .. M3_MAX_OFFSET + 32768   \* M4_MAX_OFFSET: 0xbfff
  /\ SkipShift \in Nat
ASSUME LZOPageAssumption == \A page \in Pages : page \in Seq(Bytes) /\ page # <<>>

VARIABLES
  src, pc,
  in, in_end,   (* the chunk                                               *)
  ip,           (* where the search is                                     *)
  ii,           (* where it started, after the last match                  *)
  ti,           (* literals the previous chunks left behind                *)
  m_pos,        (* an earlier position with the same four bytes            *)
  dict,         (* position last seen with that index, in the chunk        *)
  dest,         (* the bytes written                                       *)
  touched,      (* bytes of the destination written to                     *)
  matched       (* history: op when the last match instruction was         *)
                (* written.  No action reads it.                           *)

compressVars == <<src, pc, in, in_end, ip, ii, ti, m_pos, dict, dest, touched, matched>>

in_len         == Len(src)
At(p)          == src[p + 1]
dv(p)          == SubSeq(src, p + 1, p + 4)
Literals(p, t) == SubSeq(src, p + 1, p + t)
op             == Len(dest)
searchEnd      == in_end - 4
ip_end         == in_end - Margin

tightLength(page_size) == page_size + (page_size \div 16)

(* The bytes LZOCompressionAlgorithm allocates for the block.              *)
max_compr_len(page_size) == page_size + (page_size \div 16) + 64 + 3

-----------------------------------------------------------------------------
(* Instructions *)

(* What is left of a length beyond what its instruction has room for: a 0  *)
(* for each RunByte, then the rest, which is not 0.                        *)
LengthBytes(rest) ==
  [k \in 1 .. (rest - 1) \div RunByte |-> 0] \o <<((rest - 1) % RunByte) + 1>>

(* The instruction for t > 3 literals.                                     *)
LiteralHead(t) == IF t <= 18 THEN <<t - 3>> ELSE <<0>> \o LengthBytes(t - 18)

LongMatch(marker, length, max) ==
  IF length <= max THEN <<marker + length - 2>>
  ELSE <<marker>> \o LengthBytes(length - max)

(* Six bits of the offset, above the two for literals, then the others.    *)
OffsetBytes(v) == <<(v % 64) * 4, (v \div 64) % 256>>

M2Uncounted(length, offset) ==
  <<(length * 32) + (((offset - 1) % 8) * 4), (offset - 1) \div 8>>

(* A short match at a short distance: length, two bits for literals and    *)
(* the offset in two bytes.                                                *)
M2Match(length, offset) ==
  <<((length - 1) * 32) + (((offset - 1) % 8) * 4), (offset - 1) \div 8>>

IsM2(length, offset) == length <= M2_MAX_LEN /\ offset <= M2_MAX_OFFSET

MatchInstruction(length, offset) ==
  IF IsM2(length, offset)
    THEN M2Match(length, offset)
  ELSE IF offset <= M3_MAX_OFFSET
    THEN LongMatch(M3_MARKER, length, M3_MAX_LEN) \o OffsetBytes(offset - 1)
  ELSE LongMatch(M4_MARKER + (8 * ((offset - M3_MAX_OFFSET) \div 16384)), length, M4_MAX_LEN)
         \o OffsetBytes(offset - M3_MAX_OFFSET)

LongEnd == <<M4_MARKER + 1, 0, 0, 0>>

EndOfBlock == <<M4_MARKER + 1, 0, 0>>

(* Up to three literals go into the low bits of the instruction before.    *)
WithLowBits(block, t) == [block EXCEPT ![Len(block) - 1] = @ + t]

-----------------------------------------------------------------------------
CompressInit ==
  /\ src \in Pages
  /\ pc = "chunk"
  /\ in = 0 /\ in_end = 0 /\ ip = 0 /\ ii = 0 /\ ti = 0 /\ m_pos = 0
  /\ dict = [h \in {} |-> 0]
  /\ dest = <<>> /\ touched = 0 /\ matched = 0

(* How the search goes on after position p. *)
Skipped(p, start) == p + 1 + ((p - start) \div 2 ^ SkipShift)

FirstByteOf(start) == start

(* Where a chunk is first looked at: the bytes before are literals, never  *)
(* fewer than four of them with those left behind.                         *)
FirstPosition(start) == start + Max({0, 4 - ti})

ll == Min({in_len - in, ChunkSize})

(* The loop of lzo1x_1_compress goes on, and does not break because of     *)
(* (t + ll) >> 5.                                                          *)
ChunkAhead == in_len - in > Margin /\ ti + ll >= MinChunk

(* The loop of lzo1x_1_compress takes the next chunk.                      *)
NextChunk ==
  /\ pc = "chunk"
  /\ ChunkAhead
  /\ in_end' = in + ll
  /\ ii' = in
  /\ ip' = Skipped(FirstPosition(in), in)
  /\ dict' = [h \in {} |-> 0]
  /\ pc' = "search"
  /\ UNCHANGED <<src, in, ti, m_pos, dest, touched, matched>>

(* do_compress looks at one position; a position never seen is the first   *)
(* of the chunk.                                                           *)
FindMatch ==
  /\ pc = "search"
  /\ LET h         == Hash(dv(ip))
         candidate == IF h \in DOMAIN dict THEN dict[h] ELSE in
     IN  IF ip >= ip_end
           THEN /\ ti' = in_end - (ii - ti)
                /\ in' = in_end
                /\ pc' = "chunk"
                /\ UNCHANGED <<ip, m_pos, dict>>
           ELSE /\ dict' = [k \in DOMAIN dict \cup {h} |-> IF k = h THEN ip ELSE dict[k]]
                /\ m_pos' = candidate
                /\ IF dv(candidate) = dv(ip)
                     THEN pc' = "literals" /\ UNCHANGED ip
                     ELSE ip' = Skipped(ip, ii) /\ UNCHANGED pc
                /\ UNCHANGED <<in, ti>>
  /\ UNCHANGED <<src, in_end, ii, dest, touched, matched>>

(* The literals before the match, copied four or sixteen bytes at a time.  *)
EncodeLiterals ==
  /\ pc = "literals"
  /\ LET start == ii - ti
         t     == ip - start
         room  == IF t <= 3 THEN 4 ELSE IF t <= 16 THEN 16 ELSE t
         block == IF t = 0 THEN dest
                  ELSE IF t <= 3 THEN WithLowBits(dest, t)
                  ELSE dest \o LiteralHead(t)
     IN  /\ dest' = block \o Literals(start, t)
         /\ touched' = Max({touched, IF t = 0 THEN op ELSE Len(block) + room})
  /\ ti' = 0
  /\ pc' = "match"
  /\ UNCHANGED <<src, in, in_end, ip, ii, m_pos, dict, matched>>

(* The comparison goes on by words of eight bytes while they are equal and *)
(* the search area lasts.                                                  *)
EqualBytes == FirstFailure(in_end - ip - 4, {n \in 0 .. in_end - ip - 5 :
                                               At(ip + 4 + n) # At(m_pos + 4 + n)})
EqualWords == FirstFailure(EqualBytes \div 8, {n \in 1 .. (EqualBytes \div 8) - 1 :
                                               ip + 4 + (8 * n) >= ip_end})

OneMore == EqualBytes + 5

StoppedByEnd == EqualWords > 0 /\ ip + 4 + (8 * EqualWords) >= ip_end
m_len        == 4 + (IF StoppedByEnd THEN 8 * EqualWords ELSE EqualBytes)

(* Where the last word the comparison read ends. *)
ComparedTo == ip + 4 + (8 * EqualWords) + 8

EncodeMatch ==
  /\ pc = "match"
  /\ dest' = dest \o MatchInstruction(m_len, ip - m_pos)
  /\ touched' = Max({touched, Len(dest')})
  /\ matched' = Len(dest')
  /\ ip' = ip + m_len
  /\ ii' = ip'
  /\ pc' = "search"
  /\ UNCHANGED <<src, in, in_end, ti, m_pos, dict>>

(* All that is left when no chunk is. *)
LeftBehind == ti + in_len - in

(* lzo1x_1_compress writes the literals left behind and ends the block.    *)
Finish ==
  /\ pc = "chunk"
  /\ ~ ChunkAhead
  /\ LET t     == LeftBehind
         block == IF t = 0 THEN dest
                  ELSE IF dest = <<>> /\ t <= FirstRunMax THEN <<17 + t>>
                  ELSE IF t <= 3 THEN WithLowBits(dest, t)
                  ELSE dest \o LiteralHead(t)
     IN  dest' = block \o Literals(in_len - t, t) \o EndOfBlock
  /\ touched' = Max({touched, Len(dest')})
  /\ pc' = "compressed"
  /\ UNCHANGED <<src, in, in_end, ip, ii, ti, m_pos, dict, matched>>

CompressNext == \/ NextChunk
                \/ FindMatch
                \/ EncodeLiterals
                \/ EncodeMatch
                \/ Finish

-----------------------------------------------------------------------------
(* Properties *)

(* Types, with the bounds that matter.  What the compressor writes, and    *)
(* what its copies of four or sixteen bytes write in advance, is within    *)
(* what LZOCompressionAlgorithm allocates; a candidate is before the       *)
(* position it is compared with and in the same chunk, so that its         *)
(* distance fits the largest instruction; and no word that is compared     *)
(* reaches beyond the page.                                                *)
LZOCompressTypeOK ==
  /\ pc \in {"chunk", "search", "literals", "match", "compressed"}
  /\ in \in 0 .. in_len /\ in_end \in 0 .. in_len /\ m_pos \in 0 .. in_len
  /\ ip \in Nat /\ ii \in 0 .. in_len /\ ti \in 0 .. in_len
  /\ \A h \in DOMAIN dict : dict[h] \in 0 .. in_len
  /\ dest \in Seq(Bytes) /\ touched \in 0 .. max_compr_len(in_len)
  /\ pc \in {"literals", "match"} => ip - m_pos \in 1 .. ChunkSize - 1
  /\ pc = "match" => ComparedTo <= in_len

(* One to three literals are about to be written behind other instructions.*)
FewLiterals == \/ pc = "literals" /\ ip - (ii - ti) \in 1 .. 3
               \/ pc = "chunk" /\ ~ ChunkAhead /\ dest # <<>> /\ LeftBehind \in 1 .. 3

(* A run of one to three literals is put into the two low bits of the      *)
(* second to last byte written: the last that was written is a match       *)
(* instruction, and nothing is in these bits yet.  So it is between two    *)
(* matches, across the chunks, and at the end of the block, unless the     *)
(* block has only begun: those go into an instruction of their own.        *)
LowBitsFree == FewLiterals => op >= 2 /\ op = matched /\ dest[op - 1] % 4 = 0
=============================================================================

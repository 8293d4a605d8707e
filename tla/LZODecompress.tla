--------------------------- MODULE LZODecompress ---------------------------
(***************************************************************************)
(* lzo1x_decompress, which checks neither the block nor the page it        *)
(* decodes into, and relies on the block being one that lzo1x_1_compress   *)
(* made.  One step is one instruction, or what follows a match; the labels *)
(* of the function are the values of dpc.                                  *)
(***************************************************************************)
EXTENDS LZOCompress

VARIABLES
  dpc,    (* the label that is next                                        *)
  dip,    (* index in the block of the next instruction                    *)
  text    (* the bytes decoded                                             *)

decompressVars == <<dpc, dip, text>>
lzoVars == <<compressVars, decompressVars>>

InBlock(p) == dest[p + 1]
LiteralsAt(p, t) == SubSeq(dest, p + 1, p + t)

FirstNonZero(p) == CHOOSE q \in p .. Len(dest) - 1 :
                     InBlock(q) # 0 /\ \A r \in p .. q - 1 : InBlock(r) = 0

(* The value whose part in the instruction is code: when that is 0 the     *)
(* bytes at p go on, after base.                                           *)
Extended(code, base, p) ==
  IF code # 0 THEN [value |-> code, next |-> p]
  ELSE LET last == FirstNonZero(p)
       IN  [value |-> base + (RunByte * (last - p)) + InBlock(last), next |-> last + 1]

(* The offset in the two bytes at p. *)
OffsetAt(p) == (InBlock(p) \div 4) + (64 * InBlock(p + 1))

(* The match instruction t at dip.  Instructions below 16 are short        *)
(* matches, which mean another thing after literals.                       *)
MatchFound ==
  LET t  == InBlock(dip)
      m3 == Extended(t % 32, M3_MAX_LEN - 2, dip + 1)
      m4 == Extended(t % 8, M4_MAX_LEN - 2, dip + 1)
  IN  IF t >= 64 THEN
        [length |-> (t \div 32) + 1, next |-> dip + 2,
         offset |-> 1 + ((t \div 4) % 8) + (8 * InBlock(dip + 1))]
      ELSE IF t >= M3_MARKER THEN
        [length |-> m3.value + 2, next |-> m3.next + 2, offset |-> 1 + OffsetAt(m3.next)]
      ELSE IF t >= M4_MARKER THEN
        [length |-> m4.value + 2, next |-> m4.next + 2,
         offset |-> LET far == (16384 * ((t \div 8) % 2)) + OffsetAt(m4.next)
                    IN  IF far = 0 THEN 0 ELSE far + M3_MAX_OFFSET]
      ELSE
        [length |-> IF dpc = "first_literal_run" THEN 3 ELSE 2, next |-> dip + 2,
         offset |-> (IF dpc = "first_literal_run" THEN 1 + M2_MAX_OFFSET ELSE 1)
                      + (t \div 4) + (4 * InBlock(dip + 1))]

-----------------------------------------------------------------------------
LZOInit == /\ CompressInit
           /\ dpc = "idle" /\ dip = 0 /\ text = <<>>

Compressing == CompressNext /\ UNCHANGED decompressVars

(* t literals from p on, then the label. *)
CopyLiterals(p, t, label) == /\ text' = text \o LiteralsAt(p, t)
                             /\ dip' = p + t
                             /\ dpc' = label

(* A block may begin with a run of literals. *)
Decompress ==
  /\ pc = "compressed" /\ dpc = "idle"
  /\ LET t == InBlock(0) - 17
     IN  IF t > 0
           THEN CopyLiterals(1, t, IF t < 4 THEN "match" ELSE "first_literal_run")
           ELSE dpc' = "loop" /\ UNCHANGED <<dip, text>>
  /\ UNCHANGED compressVars

(* The head of the loop: a run of literals, or a match. *)
LiteralRun ==
  /\ dpc = "loop"
  /\ LET run == Extended(InBlock(dip), 15, dip + 1)
     IN  IF InBlock(dip) >= 16
           THEN dpc' = "match" /\ UNCHANGED <<dip, text>>
           ELSE CopyLiterals(run.next, run.value + 3, "first_literal_run")
  /\ UNCHANGED compressVars

(* Where match_done goes on: literals in the low bits of the instruction   *)
(* are followed by a match without another run.                            *)
AfterMatch(t) == IF t = 0 THEN "loop" ELSE "match"

(* match, match_done and match_next: the bytes of the match are copied so  *)
(* that it may overlap them, then the literals counted in the low bits.    *)
CopyMatch ==
  /\ dpc \in {"first_literal_run", "match"}
  /\ LET m == MatchFound
         t == InBlock(m.next - 2) % 4
     IN  IF m.offset = 0
           THEN /\ dpc' = "eof_found"
                /\ dip' = m.next
                /\ UNCHANGED text
           ELSE /\ text' = text \o Repeated(text, m.offset, m.length) \o LiteralsAt(m.next, t)
                /\ dip' = m.next + t
                /\ dpc' = AfterMatch(t)
  /\ UNCHANGED compressVars

LZONext == \/ Compressing
           \/ Decompress
           \/ LiteralRun
           \/ CopyMatch

(* A page is compressed once and decompressed once; neither function stops *)
(* half-way.                                                               *)
LZOSpec == LZOInit /\ [][LZONext]_lzoVars /\ WF_lzoVars(LZONext)

-----------------------------------------------------------------------------
(* Properties *)

(* Types of compressor and decoder.  What has been decoded is never more   *)
(* than the page, although the decoder does not check.                     *)
LZOTypeOK ==
  /\ LZOCompressTypeOK
  /\ dpc \in {"idle", "loop", "first_literal_run", "match", "eof_found"}
  /\ dip \in 0 .. Len(dest)
  /\ text \in Seq(Bytes) /\ Len(text) <= in_len

(* LZOCompressionAlgorithm is a codec as Codec promises: the block it makes *)
(* has a size that fits, the decoder finds its end exactly where it ends,  *)
(* so that lzo1x_decompress returns LZO_E_OK, and the page comes back.     *)
LZOAlgorithm == INSTANCE Codec WITH
                  page            <- src,
                  compressed_size <- IF pc = "compressed" THEN Len(dest) ELSE 0,
                  returned        <- IF dpc = "eof_found" /\ dip = Len(dest) THEN text ELSE <<>>,
                  Capacity        <- max_compr_len,
                  NoPage          <- <<>>
LZOImplementsCodec == LZOAlgorithm!Spec
=============================================================================

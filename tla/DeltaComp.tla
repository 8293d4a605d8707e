----------------------------- MODULE DeltaComp -----------------------------
(***************************************************************************)
(* The base-delta compression (bd0) of delta/EvalReadCompressedFile.cpp.   *)
(* A word is split into a base, its upper bits, and a value, its lower     *)
(* ones.  The pages of the trace are taken InputPages at a time; in each   *)
(* group the NumBases commonest bases are chosen, the size of the result   *)
(* is computed, and if it saves a page every word is written to a bit      *)
(* stream: a word with a chosen base as a set flag, the index of the base  *)
(* and the value, any other as a clear flag and the whole word.            *)
(*                                                                         *)
(* The program's sizes are constants here (see the README for its values). *)
(* stream_val, an integer of which bit_count bits are meaningful, is the   *)
(* sequence of these bits, most significant first.                         *)
(***************************************************************************)
EXTENDS Naturals, Sequences, FiniteSets, Functions

CONSTANTS
  BaseBits,    (* bits of a base: 32 - (8 - len_base) * 4                  *)
  LowBits,     (* bits of a value: (8 - len_base) * 4                      *)
  LogBases,    (* logNbases                                                *)
  ByteBits,    (* bits of a byte of the output                             *)
  CountBits,   (* bits set aside for the number of compressed words        *)
  PageBytes,   (* bytes of a page                                          *)
  PageWords,   (* words of a page                                          *)
  InputPages,  (* inp_X, the pages compressed together                     *)
  Traces,      (* the page sequences a trace may hold                      *)
  Garbage      (* what is read past the end of a vector                    *)

WordBits == BaseBits + LowBits
NumBases == 2 ^ LogBases
Word     == 0 .. 2 ^ WordBits - 1
Base     == 0 .. 2 ^ BaseBits - 1
Bit      == {0, 1}

ASSUME SizeAssumption ==
  /\ {BaseBits, LowBits, ByteBits, PageBytes, PageWords, InputPages} \subseteq Nat \ {0}
  /\ {LogBases, CountBits} \subseteq Nat
  /\ PageWords * WordBits = PageBytes * ByteBits
  /\ BaseBits % ByteBits = 0 /\ CountBits % ByteBits = 0   \* "24 bit, (3 byte)", "32b"
ASSUME PagesAssumption == Traces \subseteq Seq([1 .. PageWords -> Word])

VARIABLES
  pc,                (* where the program is, or how it ended              *)
  dataPages,         (* the loaded trace                                   *)
  iter,              (* groups of pages done                               *)
  total_slots,       (* pages they need                                    *)
  data,              (* the words of the current group                     *)
  n,                 (* index of the word or base at hand                  *)
  base_array,        (* bases in the order they were first seen            *)
  baseid_array,      (* index in base_array, from 0, of every word's base  *)
  base_count,        (* base_count_map                                     *)
  top_bases,         (* the bases that compress                            *)
  compressed_count,  (* words that have one of them                        *)
  num_pages_needed,  (* the result of BaseDeltaComp                        *)
  base_buffer,       (* the bases copied out of top_bases                  *)
  data_buffer,       (* the output, a sequence of bytes                    *)
  byte_count,        (* how many of them have been written                 *)
  stream_val,        (* bits that do not fill a byte yet                   *)
  written            (* history: all bits given to the stream              *)

outerVars  == <<dataPages, iter, total_slots>>
scanVars   == <<base_array, baseid_array, base_count>>
rankVars   == <<top_bases, compressed_count>>
streamVars == <<data_buffer, byte_count, stream_val, written>>
vars == <<pc, outerVars, data, n, scanVars, rankVars, num_pages_needed,
          base_buffer, streamVars>>

-----------------------------------------------------------------------------
(* Arithmetic *)

BaseOf(w) == w \div 2 ^ LowBits

LowNarrow(w) == w % 2 ^ (LowBits - 1)

(* data[i] & 0xFF, a mask that does not follow len_base. *)
LowOf(w) == w % 2 ^ LowBits

(* The low w bits of v, most significant first. *)
Bits(v, w) == [k \in 1 .. w |-> (v \div 2 ^ (w - k)) % 2]

FloorDiv(a, b) == a \div b
CeilDiv(a, b)  == (a + b - 1) \div b

(* Bits the stream will take, and bits the result is said to take: the     *)
(* stream, NumBases bases, and the number of compressed words.             *)
CodeBits == (LowBits + LogBases) * compressed_count
              + (Len(data) - compressed_count) * WordBits

(* Without the flag that goes before every word. *)
UnflaggedBits == CodeBits

data_bits  == Len(data) + CodeBits
total_bits == data_bits + BaseBits * NumBases + CountBits

(* The bytes, and the pages, the result is said to take. *)
compressed_buffer_size == CeilDiv(total_bits, ByteBits)
PagesNeeded ==
  LET pages == CeilDiv(compressed_buffer_size, PageBytes)
  IN  IF pages >= InputPages THEN InputPages ELSE pages

-----------------------------------------------------------------------------
(* Groups of pages: prepare_read_evaluation_env *)

Init ==
  /\ pc = "prepare"
  /\ dataPages \in Traces
  /\ iter = 0 /\ total_slots = 0
  /\ data = <<>> /\ n = 1
  /\ base_array = <<>> /\ baseid_array = <<>> /\ base_count = <<>>
  /\ top_bases = <<>> /\ compressed_count = 0
  /\ num_pages_needed = 0
  /\ base_buffer = <<>>
  /\ data_buffer = <<>> /\ byte_count = 0 /\ stream_val = <<>> /\ written = <<>>

(* pagesize is the number of bytes loaded divided by the number of pages,  *)
(* which ends the program when there are none.                             *)
Prepare ==
  /\ pc = "prepare"
  /\ pc' = IF dataPages = <<>> THEN "divided_by_zero" ELSE "next_group"
  /\ UNCHANGED <<outerVars, data, n, scanVars, rankVars, num_pages_needed,
                 base_buffer, streamVars>>

GroupsBeforeLastPage == (Len(dataPages) - 1) \div InputPages

num_iters == Len(dataPages) \div InputPages

(* CopyXPagesToVector, and the empty vectors BaseDeltaComp begins with. *)
CopyPages ==
  /\ pc = "next_group"
  /\ iter < num_iters
  /\ data' = [k \in 1 .. InputPages * PageWords |->
               dataPages[(iter * InputPages) + ((k - 1) \div PageWords) + 1]
                        [((k - 1) % PageWords) + 1]]
  /\ n' = 1
  /\ base_array' = <<>> /\ baseid_array' = <<>> /\ base_count' = <<>>
  /\ base_buffer' = <<>>
  /\ data_buffer' = <<>> /\ byte_count' = 0 /\ stream_val' = <<>> /\ written' = <<>>
  /\ pc' = "scan"
  /\ UNCHANGED <<outerVars, rankVars, num_pages_needed>>

AddSlotsSaved ==
  /\ pc = "returned"
  /\ IF num_pages_needed = InputPages
       THEN UNCHANGED <<iter, total_slots>>
       ELSE iter' = iter + 1 /\ total_slots' = total_slots + num_pages_needed
  /\ pc' = "next_group"
  /\ UNCHANGED <<dataPages, data, n, scanVars, rankVars, num_pages_needed,
                 base_buffer, streamVars>>

AddSlots ==
  /\ pc = "returned"
  /\ total_slots' = total_slots + num_pages_needed
  /\ iter' = iter + 1
  /\ pc' = "next_group"
  /\ UNCHANGED <<dataPages, data, n, scanVars, rankVars, num_pages_needed,
                 base_buffer, streamVars>>

Finish ==
  /\ pc = "next_group"
  /\ iter >= num_iters
  /\ pc' = "finished"
  /\ UNCHANGED <<outerVars, data, n, scanVars, rankVars, num_pages_needed,
                 base_buffer, streamVars>>

-----------------------------------------------------------------------------
(* BaseDeltaComp: counting and choosing bases *)

ThisBase == BaseOf(data[n])

(* base_to_id[b]: the place in base_array of a base seen before. *)
IdOf(b) == (CHOOSE k \in 1 .. Len(base_array) : base_array[k] = b) - 1

ScanKnown ==
  /\ pc = "scan"
  /\ n <= Len(data)
  /\ ThisBase \in DOMAIN base_count
  /\ baseid_array' = Append(baseid_array, IdOf(ThisBase))
  /\ base_count' = [base_count EXCEPT ![ThisBase] = @ + 1]
  /\ n' = n + 1
  /\ UNCHANGED <<pc, outerVars, data, base_array, rankVars, num_pages_needed,
                 base_buffer, streamVars>>

NextIdLate == Len(base_array) + 1

(* unique_base *)
NextId == Len(base_array)

ScanNew ==
  /\ pc = "scan"
  /\ n <= Len(data)
  /\ ThisBase \notin DOMAIN base_count
  /\ baseid_array' = Append(baseid_array, NextId)
  /\ base_array' = Append(base_array, ThisBase)
  /\ base_count' = [b \in DOMAIN base_count \cup {ThisBase} |->
                     IF b = ThisBase THEN 1 ELSE base_count[b]]
  /\ n' = n + 1
  /\ UNCHANGED <<pc, outerVars, data, rankVars, num_pages_needed,
                 base_buffer, streamVars>>

effective_num_bases ==
  LET distinct == Cardinality(DOMAIN base_count)
  IN  IF distinct < NumBases THEN distinct ELSE NumBases

Untaken == DOMAIN base_count \ Range(top_bases)

RarestUntaken == {b \in Untaken : \A other \in Untaken : base_count[b] <= base_count[other]}

(* What can come next in the bases sorted by descending count: std::sort   *)
(* leaves bases of equal count in any order.                               *)
CommonestUntaken == {b \in Untaken : \A other \in Untaken : base_count[other] <= base_count[b]}

SortBases ==
  /\ pc = "scan"
  /\ n > Len(data)
  /\ top_bases' = <<>> /\ compressed_count' = 0
  /\ pc' = "choose"
  /\ UNCHANGED <<outerVars, data, n, scanVars, num_pages_needed, base_buffer, streamVars>>

(* One turn of the loop over the first effective_num_bases of them.        *)
ChooseBase ==
  /\ pc = "choose"
  /\ Len(top_bases) < effective_num_bases
  /\ \E b \in CommonestUntaken :
       /\ top_bases' = Append(top_bases, b)
       /\ compressed_count' = compressed_count + base_count[b]
  /\ UNCHANGED <<pc, outerVars, data, n, scanVars, num_pages_needed, base_buffer, streamVars>>

-----------------------------------------------------------------------------
(* BaseDeltaComp: the bit stream *)

(* Compression goes ahead if it saves at least a page. *)
SizeUp ==
  /\ pc = "choose"
  /\ Len(top_bases) >= effective_num_bases
  /\ num_pages_needed' = PagesNeeded
  /\ IF num_pages_needed' = InputPages
       THEN /\ pc' = "returned"
            /\ UNCHANGED <<n, data_buffer>>
       ELSE /\ pc' = "bases"
            /\ n' = 1
            /\ data_buffer' = [k \in 1 .. CeilDiv(data_bits, ByteBits) |-> Bits(0, ByteBits)]
  /\ UNCHANGED <<outerVars, data, scanVars, rankVars, base_buffer, byte_count,
                 stream_val, written>>

(* The loop that fills base_buffer runs over NumBases entries of top_bases,*)
(* however many it has.                                                    *)
CopyBase ==
  /\ pc = "bases"
  /\ base_buffer' = Append(base_buffer,
                           IF n <= Len(top_bases) THEN top_bases[n] ELSE Garbage)
  /\ IF n < NumBases THEN n' = n + 1 /\ pc' = pc ELSE n' = 1 /\ pc' = "encode"
  /\ UNCHANGED <<outerVars, data, scanVars, rankVars, num_pages_needed, streamVars>>

(* std::distance(top_bases.begin(), it) *)
BaseIndex(b) == (CHOOSE k \in DOMAIN top_bases : top_bases[k] = b) - 1

(* The bits a word is written as. *)
Code(w) == IF BaseOf(w) \in Range(top_bases)
             THEN <<1>> \o Bits(BaseIndex(BaseOf(w)), LogBases) \o Bits(LowOf(w), LowBits)
             ELSE <<0>> \o Bits(w, WordBits)

ByteFromEnd(bits, k) ==
  LET m == Len(bits) \div ByteBits - k - 1
  IN  SubSeq(bits, m * ByteBits + 1, (m + 1) * ByteBits)

(* Byte k, from 0, of some bits. *)
ByteOf(bits, k) == SubSeq(bits, k * ByteBits + 1, (k + 1) * ByteBits)

RestUnmasked(bits) == SubSeq(bits, (Len(bits) \div ByteBits - 1) * ByteBits + 1, Len(bits))

(* The bits that do not fill a byte: what the mask preserves. *)
Rest(bits) == SubSeq(bits, (Len(bits) \div ByteBits) * ByteBits + 1, Len(bits))

(* stream_val takes the code of a word, and gives up the bytes it fills. *)
Emit(bits) ==
  LET stream   == stream_val \o bits
      transfer == Len(stream) \div ByteBits
  IN  /\ data_buffer' = [k \in DOMAIN data_buffer |->
                          IF k \in byte_count + 1 .. byte_count + transfer
                            THEN ByteOf(stream, k - byte_count - 1)
                            ELSE data_buffer[k]]
      /\ byte_count' = byte_count + transfer
      /\ stream_val' = Rest(stream)
      /\ written' = written \o bits

EncodeCompressed ==
  /\ pc = "encode"
  /\ n <= Len(data)
  /\ ThisBase \in Range(top_bases)
  /\ Emit(Code(data[n]))
  /\ n' = n + 1
  /\ UNCHANGED <<pc, outerVars, data, scanVars, rankVars, num_pages_needed, base_buffer>>

EncodeRaw ==
  /\ pc = "encode"
  /\ n <= Len(data)
  /\ ThisBase \notin Range(top_bases)
  /\ Emit(Code(data[n]))
  /\ n' = n + 1
  /\ UNCHANGED <<pc, outerVars, data, scanVars, rankVars, num_pages_needed, base_buffer>>

(* (stream_val | 0xFF) << (8 - bit_count), in a byte *)
LastByte == [k \in 1 .. ByteBits |-> IF k <= Len(stream_val) THEN 1 ELSE 0]

Flush ==
  /\ pc = "encode"
  /\ n > Len(data)
  /\ data_buffer' = IF stream_val = <<>> THEN data_buffer
                      ELSE [data_buffer EXCEPT ![Len(data_buffer)] = LastByte]
  /\ pc' = "returned"
  /\ UNCHANGED <<outerVars, data, n, scanVars, rankVars, num_pages_needed, base_buffer,
                 byte_count, stream_val, written>>

Next == \/ Prepare
        \/ CopyPages
        \/ ScanKnown
        \/ ScanNew
        \/ SortBases
        \/ ChooseBase
        \/ SizeUp
        \/ CopyBase
        \/ EncodeCompressed
        \/ EncodeRaw
        \/ Flush
        \/ AddSlots
        \/ Finish

(* One thread, which nothing blocks. *)
Spec == Init /\ [][Next]_vars /\ WF_vars(Next)

-----------------------------------------------------------------------------
(* Properties *)

Byte == [1 .. ByteBits -> Bit]

(* Types, with the bounds that matter: no byte is written past the end of  *)
(* data_buffer, and stream_val never holds a whole byte back.              *)
DeltaTypeOK ==
  /\ pc \in {"prepare", "next_group", "scan", "choose", "bases", "encode", "returned",
             "finished", "divided_by_zero"}
  /\ iter \in 0 .. num_iters
  /\ total_slots \in 0 .. iter * InputPages
  /\ data \in Seq(Word)
  /\ n \in Nat \ {0}
  /\ base_array \in Seq(Base) /\ baseid_array \in Seq(Nat)
  /\ DOMAIN base_count \subseteq Base /\ Range(base_count) \subseteq Nat \ {0}
  /\ top_bases \in Seq(Base) /\ compressed_count \in 0 .. Len(data)
  /\ num_pages_needed \in 0 .. InputPages
  /\ base_buffer \in Seq(Base \cup {Garbage})
  /\ data_buffer \in Seq(Byte)
  /\ byte_count \in 0 .. Len(data_buffer)
  /\ stream_val \in Seq(Bit) /\ Len(stream_val) < ByteBits
  /\ written \in Seq(Bit)

(* base_array and baseid_array are a dictionary encoding of the scanned    *)
(* words: no base is listed twice, and each word's id leads to its base.   *)
ScanFaithful ==
  LET scanned == Len(baseid_array)
  IN  /\ IsInjective(base_array)
      /\ DOMAIN base_count = Range(base_array)
      /\ \A k \in 1 .. scanned :
           /\ baseid_array[k] + 1 \in DOMAIN base_array
           /\ base_array[baseid_array[k] + 1] = BaseOf(data[k])

WordsOf(bases) == {k \in 1 .. Len(data) : BaseOf(data[k]) \in bases}

(* The chosen bases are those that compress most words: no other choice of *)
(* as many bases occurs in more words; and compressed_count, from which    *)
(* the buffer is sized, is the number of words they occur in.              *)
TopBasesBest ==
  pc \in {"bases", "encode", "returned"} =>
    /\ compressed_count = Cardinality(WordsOf(Range(top_bases)))
    /\ \A other \in SUBSET {BaseOf(data[k]) : k \in 1 .. Len(data)} :
         Cardinality(other) <= NumBases =>
           Cardinality(WordsOf(other)) <= compressed_count

(* The bits in the first byte_count bytes of the output. *)
OutputBit(k) == data_buffer[((k - 1) \div ByteBits) + 1][((k - 1) % ByteBits) + 1]

(* While words are written, the bytes of the output and then stream_val    *)
(* are exactly the bits of their codes: shifting and masking lose nothing. *)
StreamExact ==
  pc = "encode" =>
    written = [k \in 1 .. byte_count * ByteBits |-> OutputBit(k)] \o stream_val

(* The number that w bits of the stream stand for.                         *)
ValueAt(from, w) ==
  LET value[k \in 0 .. w] ==
        IF k = 0 THEN 0 ELSE (2 * value[k - 1]) + written[from + k - 1]
  IN  value[w]

(* What a reader who has the bases makes of the bits from a flag on: how   *)
(* many of them are one word, and which.                                   *)
WidthAt(from) == IF written[from] = 1 THEN 1 + LogBases + LowBits ELSE 1 + WordBits
WordAt(from) ==
  IF written[from] = 1
    THEN top_bases[ValueAt(from + 1, LogBases) + 1] * 2 ^ LowBits
           + ValueAt(from + 1 + LogBases, LowBits)
    ELSE ValueAt(from + 1, WordBits)

(* Where that reader is after k words. *)
Behind ==
  LET at[k \in 0 .. n - 1] == IF k = 0 THEN 1 ELSE at[k - 1] + WidthAt(at[k - 1])
  IN  at

(* The stream can be read back: at any time it decodes, by the flags and   *)
(* the chosen bases, to the words encoded so far, and no bit is left over. *)
StreamDecodes ==
  pc = "encode" =>
    LET at == Behind
    IN  /\ at[n - 1] = Len(written) + 1
        /\ \A k \in 1 .. n - 1 : WordAt(at[k - 1]) = data[k]

(* The size worked out before encoding is the size of what is encoded: the *)
(* stream ends in the last byte of data_buffer, or before it only if that  *)
(* one is for the bits left over.                                          *)
SizeExact ==
  pc = "encode" /\ n > Len(data) =>
    /\ Len(written) = data_bits
    /\ Len(data_buffer) = IF stream_val = <<>> THEN byte_count ELSE byte_count + 1

(* Compression goes ahead only if the bases, the count and the stream fit  *)
(* in the pages it is said to need, and these are fewer than it was given. *)
PagesSuffice ==
  pc \in {"bases", "encode"} =>
    /\ num_pages_needed < InputPages
    /\ NumBases * BaseBits + CountBits + Len(data_buffer) * ByteBits
         <= num_pages_needed * PageBytes * ByteBits

(* Every group of pages is dealt with, and all that is left out is a tail  *)
(* of the trace too short for a group; without pages there is no end but   *)
(* the division by zero.                                                   *)
DeltaEnds ==
  <>(\/ pc = "finished" /\ Len(dataPages) - (iter * InputPages) < InputPages
     \/ pc = "divided_by_zero" /\ dataPages = <<>>)

-----------------------------------------------------------------------------
(* What the comments say of the program, and the program does not do *)

(* "Ensure num_bases is not greater than the size of sorted_base_count":   *)
(* base_buffer is filled from bases that exist.                            *)
BasesExist == Garbage \notin Range(base_buffer)

(* "preserve the remaining bits": what stream_val still holds when the     *)
(* last byte is handled is in the output.                                  *)
LastBitsKept ==
  pc = "returned" /\ written # <<>> =>
    \A k \in 1 .. Len(written) : OutputBit(k) = written[k]
=============================================================================

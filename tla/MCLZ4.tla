------------------------------- MODULE MCLZ4 -------------------------------
(***************************************************************************)
(* Instance of LZ4Decompress: a format with small numbers, in which pages  *)
(* of a few tens of bytes reach the fast loop and lengths that need more   *)
(* bytes; all pages of up to MaxSize bytes of two values, and pages made   *)
(* of fresh bytes, a repetition, fresh bytes, a copy of some of the        *)
(* beginning, and fresh bytes.                                             *)
(***************************************************************************)
EXTENDS LZ4Decompress

CONSTANTS MaxSize, FreshLengths, Periods, RepeatLengths, CopyLengths, TailLengths,
          HashSize

(* Bytes in which no two neighbours come twice for long. *)
Fresh(from, n) == [k \in 1 .. n |->
                     (from + k + ((k * (k \div Base)) * 2) + (from * k)) % Base]

Periodic(period, n) == [k \in 1 .. n |-> (2 + ((k - 1) % period)) % Base]

Shaped(f, p, r, c, t) ==
  LET head == Fresh(0, f) \o Periodic(p, r) \o Fresh(3, t)
  IN  head \o SubSeq(head, 1, Min({c, Len(head)})) \o Fresh(5, t)

MCPages ==
  UNION {[1 .. n -> 0 .. 1] : n \in 1 .. MaxSize}
    \cup {page \in {Shaped(f, p, r, c, t) :
                      f \in FreshLengths, p \in Periods, r \in RepeatLengths,
                      c \in CopyLengths, t \in TailLengths} : page # <<>>}

MCHash(bytes) == (bytes[1] + (3 * bytes[2])) % HashSize
=============================================================================

------------------------------- MODULE MCLZO -------------------------------
(***************************************************************************)
(* Instance of LZODecompress: pages of fresh bytes, a repetition, fresh    *)
(* bytes, a copy of some of the beginning, and fresh bytes, each part of   *)
(* several lengths, with limits small enough for them to exceed.           *)
(***************************************************************************)
EXTENDS LZODecompress

CONSTANTS FreshLengths, Periods, RepeatLengths, MiddleLengths, CopyLengths,
          TailLengths, HashSize

Fresh(from, n) == [k \in 1 .. n |-> (from + (k * (k + 6)) + (k \div 7)) % 251]

Periodic(period, n) == [k \in 1 .. n |-> (k - 1) % period]

Shaped(f, p, r, m, c, t) ==
  LET head == Fresh(0, f) \o Periodic(p, r) \o Fresh(100, m)
  IN  head \o SubSeq(head, 1, Min({c, Len(head)})) \o Fresh(170, t)

MCPages ==
  {page \in {Shaped(f, p, r, m, c, t) :
               f \in FreshLengths, p \in Periods, r \in RepeatLengths,
               m \in MiddleLengths, c \in CopyLengths, t \in TailLengths} : page # <<>>}

MCHash(bytes) == (bytes[1] + (3 * bytes[2]) + (7 * bytes[4])) % HashSize
=============================================================================

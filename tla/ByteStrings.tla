---------------------------- MODULE ByteStrings ----------------------------
(***************************************************************************)
(* What the two codecs share.                                              *)
(***************************************************************************)
EXTENDS Integers, Sequences, FiniteSetsExt

(* The least of the places where a comparison fails, limit if there is none. *)
FirstFailure(limit, failures) == Min(failures \cup {limit})

(* The length bytes that start offset bytes before the end of text, which  *)
(* may overlap what they become.                                           *)
Repeated(text, offset, length) ==
  [k \in 1 .. length |-> text[Len(text) - offset + 1 + ((k - 1) % offset)]]

(* length rounded up to whole chunks, at least one. *)
WholeChunks(length, chunk) ==
  chunk * Max({1, (length + chunk - 1) \div chunk})
=============================================================================

--------------------------- MODULE MCTraceReader ---------------------------
(***************************************************************************)
(* Instance of TraceReader: every .meta file that is made of up to         *)
(* MaxPieces pieces, each a whole record, of one of two frames, or a       *)
(* single token, and any number of blocks below that.                      *)
(* Four pieces are enough for a record that has a fragment on both sides,  *)
(* for records made of pieces of two lines, and for two records behind     *)
(* each other with a fragment in front of, between or behind them.         *)
(***************************************************************************)
EXTENDS TraceReader, SequencesExt

MaxPieces == 4

MCNumber(n) == [kind |-> "number", value |-> n]
MCComma     == [kind |-> "comma"]

MCPiece == {<<MCNumber(9), MCComma, MCNumber(pfn)>> : pfn \in {1, 2}}
             \cup {<<MCNumber(3)>>, <<MCComma>>, <<[kind |-> "sign"]>>, <<[kind |-> "text"]>>}
MCMetaFiles == {FlattenSeq(pieces) : pieces \in UNION {[1 .. n -> MCPiece] : n \in 0 .. MaxPieces}}
MCDataFiles == {[k \in 1 .. n |-> 10 + k] : n \in 0 .. MaxPieces - 1}
=============================================================================

----------------------------- MODULE MCPrograms -----------------------------
(***************************************************************************)
(* Instance of Programs and Args: an int of 5 bits, an unsigned long of 7  *)
(* and a kilobyte of 4 bytes.  Command lines of up to MaxOptions options,  *)
(* known and unknown, that lack a data file, and command lines that pack,  *)
(* with every kind of slot size an -s can make: none at all, one page or   *)
(* several, and one that no malloc serves, each with and without overflow. *)
(* Files that cannot be opened, traces of up to MaxPieces records or parts *)
(* of malformed ones, and too few blocks.                                  *)
(***************************************************************************)
EXTENDS Programs, SequencesExt

CONSTANTS p1, p2, a, b, bad

MaxOptions == 3
MaxPieces  == 2

MCPfn  == {p1, p2}
MCUid  == MCPfn
MCData == {a, b, bad}
MCCompressedSize == [d \in MCData |-> IF d = a THEN 1 ELSE 2]
MCRejected == {bad}
MCTraces == {<<>>}

UpTo(n, S) == UNION {[1 .. k -> S] : k \in 0 .. n}

Number(n) == [kind |-> "number", value |-> n]
Comma     == [kind |-> "comma"]
Text      == [kind |-> "text"]

(* A record, something else, and a record that breaks off. *)
RecordOf(p) == <<Number(p1), Comma, Number(p)>>
Pieces == {RecordOf(p) : p \in MCPfn} \cup {<<Text>>, <<Number(p2), Comma>>}

MCMetaFiles == {FlattenSeq(pieces) : pieces \in UpTo(MaxPieces, Pieces)}
MCDataFiles == UpTo(MaxPieces, MCData)
MCReplayFiles == {<<>>, <<Text>>} \cup {RecordOf(p) \o RecordOf(q) : p, q \in MCPfn}
MCReplays == UpTo(2, [pfn : MCPfn, uid : MCUid])

(* No -f among them. *)
MCOption == {<<"c", codec>> : codec \in {"lzo", "lz4", "bd0", "zstd"}}
              \cup {<<"s", n>> : n \in {-5, -4, -1, 0, 1, 3, 4, 8, 9}}
              \cup {<<"t", "trace">>, <<"t", "trace2">>, <<"r", "replay">>, <<"b", 0>>}

Files == <<<<"t", "trace">>, <<"f", "data">>, <<"r", "replay">>>>
MCMeasuring == {SubSeq(Files, 1, 2), Files,
                <<<<"f", "old">>, <<"c", "lz4">>>> \o SubSeq(Files, 1, 2),
                <<<<"c", "bd0">>>> \o Files,
                <<<<"c", "bd0">>>> \o Files \o <<<<"c", "lzo">>>>}

(* A slot size, and what makes it matter. *)
MCSized == {<<<<"s", n>>>> \o Files : n \in {-1, 0, 1, 4, 8}}
             \cup {<<<<"s", -1>>>> \o SubSeq(Files, 1, 2), <<<<"s", -1>>, <<"c", "bd0">>>> \o Files}

(* All the files, and something unknown behind them. *)
MCUnknown == {SubSeq(Files, 1, 2) \o <<option>> : option \in {<<"c", "zstd">>, <<"b", 0>>}}

MCArgVectors == UpTo(MaxOptions, MCOption) \cup MCMeasuring \cup MCSized \cup MCUnknown
=============================================================================

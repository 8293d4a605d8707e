-------------------------------- MODULE Args --------------------------------
(***************************************************************************)
(* parse_args of the three programs: a getopt loop over options that may   *)
(* come in any order and any number of times.  "write" is                  *)
(* EvalWriteCompressedFile.cpp, "read" EvalReadCompressedFile.cpp, and     *)
(* "delta" the program of the same name in delta/.                         *)
(*                                                                         *)
(* An option is a pair of its letter and its argument.  The argument of -s *)
(* is the int atoi makes of it, 0 for something that is not a number.      *)
(***************************************************************************)
EXTENDS Integers, Sequences, Globals

CONSTANTS
  ArgVectors,       (* the option sequences a program may be started with  *)
  IntBits,          (* width of int                                        *)
  LongBits,         (* width of unsigned long                              *)
  Kb,               (* 1024                                                *)
  DefaultSlotSize,  (* DEFAULT_SLOT_SIZE                                   *)
  Null              (* a null pointer                                      *)

IntRange == -(2 ^ (IntBits - 1)) .. 2 ^ (IntBits - 1) - 1

ASSUME WidthAssumption == /\ IntBits \in Nat \ {0} /\ LongBits \in Nat /\ IntBits < LongBits
                          /\ Kb \in Nat \ {0}
                          /\ DefaultSlotSize \in 0 .. 2 ^ (IntBits - 1) - 1
ASSUME CodecNames == Null \notin {"lzo", "lz4", "bd0"}   \* no object is the null pointer
ASSUME ArgAssumption ==
  \A args \in ArgVectors :
    /\ Len(args) \in Nat
    /\ \A n \in 1 .. Len(args) : /\ args[n] = <<args[n][1], args[n][2]>>
                                 /\ args[n][1] = "s" => args[n][2] \in IntRange

VARIABLES
  program,    (* "write", "read" or "delta"                                *)
  argv,       (* its options                                               *)
  optind,     (* index of the next of them                                 *)
  argpc,      (* "parse", "parsed", or "usage" after exit(1)               *)
  compr_alg,  (* class of the codec object, or Null                        *)
  compalg,    (* 1 for the base-delta compression                          *)
  filename    (* data_filename, trace_filename, replay_filename            *)

argVars == <<program, argv, optind, argpc, compr_alg, compalg, slot_size, filename>>

-----------------------------------------------------------------------------

Accepted == [write |-> {"c", "s", "f", "t"},
             read  |-> {"c", "s", "f", "t", "r"},
             delta |-> {"c", "s", "f", "t", "r"}]

ArgsInit ==
  /\ program \in {"write", "read", "delta"}
  /\ argv \in ArgVectors
  /\ optind = 1
  /\ argpc = "parse"
  /\ compr_alg = Null
  /\ compalg = 0
  /\ slot_size = DefaultSlotSize
  /\ filename = [file \in {"f", "t", "r"} |-> Null]

Option == argv[optind][1]
optarg == argv[optind][2]

(* getopt returns the letter of an option this program knows. *)
Gets(letter) == /\ argpc = "parse"
                /\ optind <= Len(argv)
                /\ Option = letter
                /\ letter \in Accepted[program]
                /\ optind' = optind + 1

(* compr_alg = new ...  The object of an earlier -c is not deleted.        *)
NewCodec == optarg

CompalgKept == compalg

(* In the delta program a codec switches the base-delta compression off.   *)
CodecChosen == IF program = "delta" THEN 0 ELSE compalg

ParseCodec ==
  /\ Gets("c")
  /\ optarg \in {"lzo", "lz4"}
  /\ compr_alg' = NewCodec
  /\ compalg' = CodecChosen
  /\ UNCHANGED <<program, argv, argpc, slot_size, filename>>

(* The base-delta compression leaves compr_alg alone. *)
ParseBaseDelta ==
  /\ Gets("c")
  /\ program = "delta" /\ optarg = "bd0"
  /\ compalg' = 1
  /\ UNCHANGED <<program, argv, argpc, compr_alg, slot_size, filename>>

UnknownCodecIgnored == /\ Gets("c") /\ optarg \notin {"lzo", "lz4", "bd0"}
                       /\ UNCHANGED <<program, argv, argpc, compr_alg, compalg, slot_size, filename>>

ParseUnknownCodec ==
  /\ Gets("c")
  /\ optarg \notin {"lzo", "lz4"} /\ ~ (program = "delta" /\ optarg = "bd0")
  /\ argpc' = "usage"
  /\ UNCHANGED <<program, argv, compr_alg, compalg, slot_size, filename>>

ToUnsignedInt(v) == v % 2 ^ IntBits

(* The value of a result of int arithmetic, which wraps around in the code *)
(* the makefile's compiler call produces.                                  *)
ToInt(v) == ((v + 2 ^ (IntBits - 1)) % 2 ^ IntBits) - 2 ^ (IntBits - 1)

SignedLong(v) == v

(* An int assigned to an unsigned long. *)
ToUnsignedLong(v) == v % 2 ^ LongBits

ParseSlotSize ==
  /\ Gets("s")
  /\ slot_size' = ToUnsignedLong(ToInt(optarg * Kb))
  /\ UNCHANGED <<program, argv, argpc, compr_alg, compalg, filename>>

Named(file) == [filename EXCEPT ![file] = optarg]

ParseFilename ==
  \E file \in {"f", "t", "r"} :
    /\ Gets(file)
    /\ filename' = Named(file)
    /\ UNCHANGED <<program, argv, argpc, compr_alg, compalg, slot_size>>

(* getopt returns '?', for an option the program does not have or one that *)
(* lacks its argument.                                                     *)
ParseUnknown ==
  /\ argpc = "parse"
  /\ optind <= Len(argv)
  /\ Option \notin Accepted[program]
  /\ optind' = optind + 1
  /\ argpc' = "usage"
  /\ UNCHANGED <<program, argv, compr_alg, compalg, slot_size, filename>>

(* After the last option the codec defaults to LZO. *)
ParseDone ==
  /\ argpc = "parse"
  /\ optind > Len(argv)
  /\ compr_alg' = IF compr_alg = Null THEN "lzo" ELSE compr_alg
  /\ argpc' = "parsed"
  /\ UNCHANGED <<program, argv, optind, compalg, slot_size, filename>>

ArgsNext == \/ ParseCodec
            \/ ParseBaseDelta
            \/ ParseUnknownCodec
            \/ ParseSlotSize
            \/ ParseFilename
            \/ ParseUnknown
            \/ ParseDone

ArgsSpec == ArgsInit /\ [][ArgsNext]_argVars

-----------------------------------------------------------------------------
(* Properties *)

(* Type invariant.  A parsed command line has a codec object to call, only *)
(* the delta program has the base-delta compression, and file names come   *)
(* from the command line.  The slot size is an int as an unsigned long has *)
(* it, though its product with 1024 may overflow: either no larger than    *)
(* the largest int, or within the size of an int of the largest unsigned   *)
(* long.                                                                   *)
ArgsTypeOK ==
  /\ optind \in 1 .. Len(argv) + 1
  /\ argpc \in {"parse", "parsed", "usage"}
  /\ compr_alg \in {"lzo", "lz4", Null}
  /\ argpc = "parsed" => compr_alg # Null
  /\ compalg \in {0, 1} /\ (compalg = 1 => program = "delta")
  /\ slot_size \in (0 .. 2 ^ (IntBits - 1) - 1)
                     \cup (2 ^ LongBits - 2 ^ (IntBits - 1) .. 2 ^ LongBits - 1)
  /\ \A file \in {"f", "t", "r"} :
       filename[file] = Null \/ \E n \in 1 .. Len(argv) : argv[n] = <<file, filename[file]>>

(* Among the first k options, those with that letter.                      *)
Places(args, letter, k) == {n \in 1 .. k : args[n][1] = letter}

(* Those among them that name a codec. *)
CodecPlaces(args, k) == {n \in Places(args, "c", k) : args[n][2] # "bd0"}

(* The argument of the last of some options. *)
LastOf(args, places, default) ==
  IF places = {} THEN default
  ELSE args[CHOOSE n \in places : \A other \in places : other <= n][2]

(* What the first k options ask for, where no codec among them leaves that *)
(* choice to the default.                                                  *)
InForce(k, default) ==
  LET sizes == Places(argv, "s", k)
      size  == LastOf(argv, sizes, 0)
  IN  /\ compr_alg = LastOf(argv, CodecPlaces(argv, k), default)
      /\ compalg = 1 <=> LastOf(argv, Places(argv, "c", k), default) = "bd0"
      /\ \A file \in {"f", "t", "r"} :
           filename[file] = LastOf(argv, Places(argv, file, k), Null)
      /\ sizes = {} => slot_size = DefaultSlotSize
      /\ sizes # {} /\ size * Kb \in IntRange =>
           slot_size = size * Kb + (IF size < 0 THEN 2 ^ LongBits ELSE 0)

(* Once the command line is parsed, the last of several -c options decides *)
(* between packing and base-delta compression, the last one that names a   *)
(* codec decides which, though a bd0 came behind it, and the last of       *)
(* several file names or slot sizes is the one in force: nothing of an     *)
(* overridden option lingers.  A size that is a valid int in bytes gets    *)
(* through the conversions: exact if it is not negative, and otherwise     *)
(* that many bytes less than the whole address space, which no malloc of a *)
(* slot can serve.                                                         *)
LastDecides == /\ ArgsTypeOK
               /\ argpc = "parsed" => InForce(Len(argv), "lzo")
=============================================================================

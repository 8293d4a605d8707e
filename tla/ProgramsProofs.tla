--------------------------- MODULE ProgramsProofs ---------------------------
(***************************************************************************)
(* Proofs, for every command line, with every slot size it may ask for,    *)
(* and every content of the files, of what module Programs claims of the   *)
(* three programs as a whole: that the exit status tells what the inputs   *)
(* were, that the region zsim measures begins and ends where it should,    *)
(* that what is restored is what the files say, and that the last of       *)
(* repeated options is in force.                                           *)
(*                                                                         *)
(* The halves bring their invariants along: Stored and Replaying of module *)
(* SwapInProofs, which say that no error return of the replay is taken,    *)
(* and OneLostPerSeal.  They begin to hold when main allocates the first   *)
(* slot, of the size parse_args has settled by then.  What is new is       *)
(* Whereabouts: what main has made sure of at each point it can be at.     *)
(***************************************************************************)
EXTENDS Programs, SwapInProofs, TraceFilesProofs, FunctionTheorems

(* The options the program takes. *)
Codecs == {"lzo", "lz4"} \cup (IF program = "delta" THEN {"bd0"} ELSE {})
Taken(option) == option[1] \in Accepted[program] /\ (option[1] = "c" => option[2] \in Codecs)

(* The options parse_args has passed are ones it takes, until it meets one *)
(* that is not.  The slot size is a number all along.                      *)
Parsing ==
  /\ program \in {"write", "read", "delta"} /\ argv \in ArgVectors /\ slot_size \in Nat
  /\ Len(argv) \in Nat /\ optind \in 1 .. Len(argv) + 1
  /\ argpc \in {"parse", "parsed", "usage"}
  /\ compalg \in {0, 1} /\ (compalg = 1 => program = "delta")
  /\ argpc # "usage" => \A n \in 1 .. optind - 1 : Taken(argv[n])
  /\ argpc = "parsed" => optind = Len(argv) + 1
  /\ argpc = "usage" => \E n \in 1 .. Len(argv) : ~ Taken(argv[n])

FilesTyped ==
  /\ meta \in Seq(Token(Uid \cup Pfn)) /\ Records(meta) \in Seq([uid : Uid, pfn : Pfn])
  /\ data \in Seq(Data)
  /\ replay \in Seq(Token(Uid \cup Pfn)) /\ Records(replay) \in Seq([uid : Uid, pfn : Pfn])

(* The codec took every page before the current one, and the loop ends     *)
(* with an error only on one it did not take.                              *)
CodecTook ==
  /\ \A n \in 1 .. i - 1 : dataPages[n].data \notin Rejected
  /\ pc = "compress_failed" => i <= Len(dataPages) /\ dataPages[i].data \in Rejected

Loaded == /\ Opens("f") /\ Opens("t") /\ LoadSucceeds(meta, data)
          /\ dataPages = Pages(meta, data)

(* A slot of the size in force has no buffer. *)
TooLarge == slot_size >= NoObject

(* What there is to replay from: all pages packed, or an empty tree.       *)
Prepared ==
  /\ Loaded /\ pc = "stored" /\ program # "write"
  /\ compalg = 0 => i = Len(dataPages) + 1 /\ (TooLarge => dataPages = <<>>)
  /\ compalg = 1 => dataPages # <<>> /\ slot_tree = [p \in Pfn |-> 0]

ReplayBegun == rpc \notin {"waiting", "no_replay_file"}

(* Nothing is loaded.  The slot is not allocated yet. *)
Unloaded ==
  /\ ReplayInit
  /\ pc = "compress" /\ i = 1 /\ compressedPage = NoPage /\ slot_list = <<>>
  /\ slot_tree = [p \in Pfn |-> 0] /\ live = 0 /\ placed = <<<<>>>> /\ opened = <<1>>

Whereabouts ==
  /\ mpc \in {"args", "load", "bd0", "store", "replay", "exit"}
  /\ exit_status \in {"running", "success", "failure", "killed"}
  /\ mpc = "exit" <=> exit_status # "running"
  /\ mpc = "args" <=> argpc = "parse"
  /\ mpc \in {"load", "bd0", "store", "replay"} => argpc = "parsed"
  /\ mpc \in {"args", "load"} => Unloaded /\ region = "none"
  /\ mpc = "bd0" => Unstored /\ ReplayInit /\ Loaded /\ compalg = 1 /\ region = "none"
  /\ mpc = "store" => /\ Loaded /\ compalg = 0 /\ pc \in {"compress", "insert"} /\ ReplayInit
                      /\ region = IF program = "write" THEN "open" ELSE "none"
                      /\ TooLarge => i = 1 /\ slots = <<NewSlot>>
  /\ mpc = "replay" => /\ Prepared /\ rpc \in {"waiting", "replay", "scan", "decompress"}
                       /\ region = IF program = "read" /\ ReplayBegun THEN "open" ELSE "none"
  /\ ReplayBegun => /\ Prepared /\ Opens("r") /\ ops = Records(replay)
                    /\ mpc = "replay" \/ exit_status = "success"
  /\ ~ ReplayBegun => restored = <<>>

(* The points at which a slot is allocated: all but those in front of the  *)
(* loop, and a failure, which may have come from one of those.             *)
Begun == mpc \in {"bd0", "store", "replay"} \/ exit_status \in {"success", "killed"}

Halves == Stored /\ Replaying /\ CodecTook /\ (compalg = 0 => OneLostPerSeal)

Going ==
  /\ Parsing /\ FilesTyped /\ Whereabouts
  /\ Begun => Halves
  /\ StatusExplained /\ RegionBalanced

-----------------------------------------------------------------------------
(* The halves *)

(* Before the first page is packed everything the halves promise holds.    *)
LEMMA HalvesUnstored == Unstored /\ ReplayInit => Halves
<1>1. Unstored => CodecTook
  BY DEF Unstored, CodecTook
<1> QED BY <1>1, StoredInit, ReplayingInit, OneLostInit DEF Halves

LEMMA HalvesUnstoredNext == (Unstored /\ ReplayInit)' => Halves'
  BY HalvesUnstored, PTL

(* A step of the packing loop compresses the current page or gives up on it*)
LEMMA CodecTookStep == Base /\ CodecTook /\ [StoreNext]_storeVars => CodecTook'
<1> SUFFICES ASSUME Base, CodecTook, [StoreNext]_storeVars PROVE CodecTook'
  OBVIOUS
<1>0. i \in Nat \ {0} /\ dataPages' = dataPages
  BY SlotFacts DEF StoreNext, storeVars, CompressDataPage, CompressFailed, InsertStored,
                   InsertRefused, FinishStore
<1>1. CASE InsertStored \/ InsertRefused
  <2>1. /\ pc = "insert" /\ pc' = "compress" /\ i' = i + 1
        /\ dataPages[i].data \notin Rejected
    BY <1>1 DEF InsertStored, InsertRefused, NextPage, Base, Pending
  <2>2. \A n \in 1 .. i' - 1 : n \in 1 .. i - 1 \/ n = i
    BY <1>0, <2>1
  <2> QED BY <1>0, <2>1, <2>2 DEF CodecTook
<1>2. CASE CompressFailed
  BY <1>0, <1>2 DEF CompressFailed, CodecTook
<1>3. CASE CompressDataPage \/ FinishStore
  BY <1>0, <1>3 DEF CompressDataPage, FinishStore, CodecTook
<1>4. CASE UNCHANGED storeVars
  BY <1>0, <1>4 DEF storeVars, CodecTook
<1> QED BY <1>1, <1>2, <1>3, <1>4 DEF StoreNext

(* A step of one half keeps what both promise. *)
LEMMA HalvesStep == Halves /\ [Next]_vars /\ UNCHANGED compalg => Halves'
<1>1. [Next]_vars => [StoreNext]_storeVars
  BY DEF Next, vars
<1> QED BY <1>1, StoredStep, ReplayingStep, CodecTookStep, OneLostStep DEF Halves, Stored

-----------------------------------------------------------------------------
(* The exit status *)

Loadable   == /\ \A n \in 1 .. Len(argv) : Taken(argv[n])
              /\ Opens("f") /\ Opens("t") /\ LoadSucceeds(meta, data)
Compresses == \A n \in 1 .. Len(dataPages) : dataPages[n].data \notin Rejected
Empty      == Records(meta) = <<>>
Served     == TooLarge => Empty

Explained ==
  /\ exit_status = "success" <=>
       /\ mpc = "exit" /\ Loadable
       /\ IF compalg = 1 THEN ~ Empty ELSE Compresses /\ Served
       /\ program # "write" => Opens("r")
  /\ exit_status = "killed" <=>
       /\ mpc = "exit" /\ Loadable
       /\ IF compalg = 1 THEN Empty ELSE ~ Served /\ dataPages[1].data \notin Rejected

(* StatusExplained, without its local definitions. *)
LEMMA StatusIs == StatusExplained <=> Explained
  BY DEF StatusExplained, Explained, Loadable, Compresses, Empty, Served, TooLarge, Taken, Codecs

LEMMA StatusIsNext == (StatusExplained <=> Explained)'
  BY StatusIs, PTL

(* While main runs there is nothing to explain and nothing to balance.     *)
LEMMA StillRunning ==
  mpc # "exit" /\ exit_status = "running" => StatusExplained /\ RegionBalanced
<1>1. mpc # "exit" /\ exit_status = "running" => StatusExplained
  BY StatusIs DEF Explained
<1> QED BY <1>1 DEF RegionBalanced

LEMMA StillRunningNext ==
  (mpc # "exit" /\ exit_status = "running")' => (StatusExplained /\ RegionBalanced)'
  BY StillRunning, PTL

-----------------------------------------------------------------------------
(* The slot size *)

(* The power of a number of bits is the number of sets of these bits. *)
LEMMA PowerNat == ASSUME NEW k \in Nat PROVE 2 ^ k \in Nat \ {0}
<1>1. IsFiniteSet(1 .. k) /\ Cardinality(1 .. k) = k
  BY FS_Interval
<1>2. IsFiniteSet(SUBSET (1 .. k)) /\ Cardinality(SUBSET (1 .. k)) = 2 ^ k
  BY <1>1, FS_SUBSET
<1>3. {} \in SUBSET (1 .. k)
  OBVIOUS
<1> QED BY <1>2, <1>3, FS_CardinalityType, FS_EmptySet

(* One bit more doubles it: the sets with that bit and those without.      *)
LEMMA PowerDouble == ASSUME NEW k \in Nat PROVE 2 ^ (k + 1) = 2 * 2 ^ k
<1> DEFINE A == SUBSET (1 .. k)
           B == {s \cup {k + 1} : s \in A}
           F == [s \in A |-> s \cup {k + 1}]
<1>1. /\ IsFiniteSet(1 .. k) /\ Cardinality(1 .. k) = k
      /\ IsFiniteSet(1 .. k + 1) /\ Cardinality(1 .. k + 1) = k + 1
  <2>1. \A a, b \in Int : /\ IsFiniteSet(a .. b)
                         /\ Cardinality(a .. b) = IF a > b THEN 0 ELSE b - a + 1
    BY FS_Interval
  <2>2. Cardinality(1 .. k) = IF 1 > k THEN 0 ELSE k - 1 + 1
    BY <2>1
  <2>3. Cardinality(1 .. k + 1) = IF 1 > k + 1 THEN 0 ELSE (k + 1) - 1 + 1
    BY <2>1
  <2>4. IsFiniteSet(1 .. k) /\ IsFiniteSet(1 .. k + 1)
    BY <2>1
  <2> QED BY <2>2, <2>3, <2>4
<1>2. /\ IsFiniteSet(A) /\ Cardinality(A) = 2 ^ k
      /\ IsFiniteSet(SUBSET (1 .. k + 1)) /\ Cardinality(SUBSET (1 .. k + 1)) = 2 ^ (k + 1)
  BY <1>1, FS_SUBSET
<1>3. k + 1 \notin 1 .. k /\ 1 .. k + 1 = (1 .. k) \cup {k + 1}
  OBVIOUS
<1>4. SUBSET (1 .. k + 1) = A \cup B
  <2>1. ASSUME NEW s \in SUBSET (1 .. k + 1), k + 1 \in s PROVE s \in B
    <3>1. s = (s \ {k + 1}) \cup {k + 1} /\ s \ {k + 1} \in A
      BY <1>3, <2>1
    <3> QED BY <3>1
  <2>2. ASSUME NEW s \in SUBSET (1 .. k + 1), k + 1 \notin s PROVE s \in A
    BY <1>3, <2>2
  <2>3. A \cup B \subseteq SUBSET (1 .. k + 1)
    BY <1>3
  <2> QED BY <2>1, <2>2, <2>3
<1>5. A \cap B = {}
  BY <1>3
<1>6. F \in Bijection(A, B)
  <2>1. F \in [A -> B] /\ \A t \in B : \E s \in A : F[s] = t
    OBVIOUS
  <2>2. ASSUME NEW s \in A, NEW t \in A, F[s] = F[t] PROVE s = t
    BY <1>3, <2>2
  <2> HIDE DEF F, A, B
  <2> QED BY <2>1, <2>2, Fun_IsBij
<1>7. IsFiniteSet(B) /\ Cardinality(B) = Cardinality(A)
  <2>1. ExistsBijection(A, B)
    BY <1>6, Fun_ExistsBij
  <2> HIDE DEF A, B, F
  <2> QED BY <1>2, <2>1, FS_Bijection
<1> HIDE DEF A, B, F
<1>8. Cardinality(A \cup B) = Cardinality(A) + Cardinality(B) - Cardinality(A \cap B)
  BY <1>2, <1>7, FS_Union
<1>9. Cardinality(A \cap B) = 0
  BY <1>5, FS_EmptySet
<1>10. 2 ^ k \in Nat
  BY PowerNat
<1> DEFINE c == Cardinality(A)
<1>11. c \in Nat /\ Cardinality(A \cup B) = c + c - 0
  BY <1>2, <1>7, <1>8, <1>9, <1>10
<1>12. 2 ^ (k + 1) = Cardinality(A \cup B)
  BY <1>2, <1>4
<1> HIDE DEF c
<1>13. 2 ^ (k + 1) = 2 * c
  BY ONLY <1>11, <1>12
<1> QED BY <1>2, <1>13 DEF c

(* The remainder of a number that is less than one modulus off.            *)
LEMMA WithinModulus ==
  ASSUME NEW x \in Int, NEW m \in Nat \ {0}
  PROVE  /\ x % m \in 0 .. m - 1
         /\ x \in 0 .. m - 1 => x % m = x
         /\ x \in -m .. -1 => x % m = x + m
<1> DEFINE q == x \div m
           p == x % m
<1>1. q \in Int /\ p \in 0 .. m - 1 /\ x = (m * q) + p
  OBVIOUS
<1> HIDE DEF q, p
<1>2. ASSUME q >= 1 PROVE x >= m
  <2>1. m * q >= m
    BY <1>1, <1>2
  <2> DEFINE y == m * q
  <2>2. y \in Int /\ y >= m /\ x = y + p
    BY <1>1, <2>1
  <2> HIDE DEF y
  <2> QED BY <1>1, <2>2
<1>3. ASSUME q <= -2 PROVE x < -m
  <2>1. m * q <= m * (-2)
    BY <1>1, <1>3
  <2> DEFINE y == m * q
  <2>2. y \in Int /\ y <= -m - m /\ x = y + p
    BY <1>1, <2>1
  <2> HIDE DEF y
  <2> QED BY <1>1, <2>2
<1>4. (q = 0 => x = p) /\ (q = -1 => x = p - m)
  BY <1>1
<1> QED BY <1>1, <1>2, <1>3, <1>4 DEF p

(* The values an int has as an unsigned long. *)
SizeRange == (0 .. 2 ^ (IntBits - 1) - 1)
               \cup (2 ^ LongBits - 2 ^ (IntBits - 1) .. 2 ^ LongBits - 1)

(* Through the conversions of ParseSlotSize an int keeps its value, or as  *)
(* an unsigned long the value it stands for.                               *)
LEMMA SizeSurvives ==
  ASSUME NEW x \in Int
  PROVE  /\ ToUnsignedLong(ToInt(x)) \in SizeRange
         /\ SizeRange \subseteq Nat
         /\ x \in IntRange =>
              ToUnsignedLong(ToInt(x)) = x + (IF x < 0 THEN 2 ^ LongBits ELSE 0)
<1> DEFINE H == 2 ^ (IntBits - 1)
           M == 2 ^ IntBits
           L == 2 ^ LongBits
<1>1. H \in Nat \ {0} /\ M = 2 * H /\ L \in Nat \ {0}
  <2>1. IntBits - 1 \in Nat /\ LongBits \in Nat /\ (IntBits - 1) + 1 = IntBits
    BY WidthAssumption
  <2> QED BY <2>1, PowerNat, PowerDouble
<1>2. M <= L
  <2>1. \A k \in Nat : 2 ^ (IntBits + k) >= M
    <3> DEFINE S == {k \in Nat : ~ (2 ^ (IntBits + k) >= M)}
    <3>1. ASSUME S # {} PROVE FALSE
      <4>1. PICK k \in S : \A y \in S : ~ (<<y, k>> \in OpToRel(<, Nat))
        BY <3>1, NatLessThanWellFounded, WFMin
      <4>2. k # 0
        BY <1>1, WidthAssumption
      <4>3. k - 1 \in Nat /\ k - 1 < k /\ (IntBits + (k - 1)) + 1 = IntBits + k
            /\ IntBits + (k - 1) \in Nat
        BY <4>2, WidthAssumption
      <4>4. k - 1 \notin S
        BY <4>1, <4>3 DEF OpToRel
      <4>5. 2 ^ (IntBits + (k - 1)) >= M
        BY <4>3, <4>4
      <4>6. /\ 2 ^ (IntBits + k) = 2 * 2 ^ (IntBits + (k - 1))
            /\ 2 ^ (IntBits + (k - 1)) \in Nat \ {0}
        BY <4>3, PowerNat, PowerDouble
      <4> QED BY <1>1, <4>5, <4>6
    <3> QED BY <3>1
  <2>2. LongBits - IntBits \in Nat /\ IntBits + (LongBits - IntBits) = LongBits
    BY WidthAssumption
  <2> HIDE DEF M
  <2> QED BY <2>1, <2>2
<1>3. ToInt(x) \in -H .. H - 1 /\ (x \in -H .. H - 1 => ToInt(x) = x)
  <2>1. ToInt(x) = ((x + H) % M) - H
    BY DEF ToInt
  <2> HIDE DEF H, M
  <2>2. (x + H) % M \in 0 .. M - 1 /\ (x + H \in 0 .. M - 1 => (x + H) % M = x + H)
    <3> DEFINE y == x + H
    <3>1. y \in Int /\ M \in Nat \ {0}
      BY <1>1
    <3> HIDE DEF y
    <3>2. y % M \in 0 .. M - 1 /\ (y \in 0 .. M - 1 => y % M = y)
      BY <3>1, WithinModulus
    <3> QED BY <3>2 DEF y
  <2> QED BY <1>1, <2>1, <2>2
<1>4. IntRange = -H .. H - 1
  BY DEF IntRange
<1> DEFINE v == ToInt(x)
<1>5. ToUnsignedLong(v) = v % L
  BY DEF ToUnsignedLong
<1> HIDE DEF H, M, L, v
<1>6. v \in Int /\ v \in -H .. H - 1 /\ -L <= -H
  BY <1>1, <1>2, <1>3 DEF v
<1>7. v % L \in 0 .. L - 1 /\ (v >= 0 => v % L = v) /\ (v < 0 => v % L = v + L)
  <2>1. v >= 0 => v \in 0 .. L - 1
    BY <1>1, <1>2, <1>6
  <2>2. v < 0 => v \in -L .. -1
    BY <1>1, <1>2, <1>6
  <2> QED BY <1>1, <1>6, <2>1, <2>2, WithinModulus
<1>8. /\ ToUnsignedLong(v) \in (0 .. H - 1) \cup (L - H .. L - 1)
      /\ (0 .. H - 1) \cup (L - H .. L - 1) \subseteq Nat
  BY <1>1, <1>5, <1>6, <1>7
<1>9. ASSUME x \in IntRange PROVE ToUnsignedLong(v) = x + (IF x < 0 THEN L ELSE 0)
  <2>1. v = x
    BY <1>3, <1>4, <1>9 DEF v
  <2> QED BY <1>5, <1>7, <2>1
<1> QED BY <1>8, <1>9 DEF v, L, H, SizeRange

-----------------------------------------------------------------------------
(* From the command line to the loaded trace *)

(* A file of no tokens has no records. *)
LEMMA NoRecords == ASSUME NEW V PROVE <<>> \in Seq(Token(V)) /\ Records(<<>>) = <<>>
<1>1. <<>> \in Seq(Token(V)) /\ Len(<<>>) = 0
  OBVIOUS
<1>2. Len(Records(<<>>)) \in 0 .. 0 /\ Records(<<>>) \in Seq([uid : V, pfn : V])
  BY <1>1, RecordsAre
<1> QED BY <1>1, <1>2, EmptySeq

(* The slot size is a number from the start, and whatever an option makes  *)
(* of it.                                                                  *)
LEMMA SizeTyped ==
  /\ DefaultSlotSize \in Nat
  /\ \A x \in IntRange : ToUnsignedLong(ToInt(x * Kb)) \in Nat
<1>1. IntBits - 1 \in Nat /\ LongBits \in Nat /\ Kb \in Nat
  BY WidthAssumption
<1>2. DefaultSlotSize \in Nat
  BY <1>1, PowerNat, WidthAssumption
<1>4. ASSUME NEW x \in IntRange PROVE ToUnsignedLong(ToInt(x * Kb)) \in Nat
  <2>1. x * Kb \in Int
    BY <1>1 DEF IntRange
  <2> QED BY <2>1, SizeSurvives
<1> QED BY <1>2, <1>4

LEMMA GoingInit == MainInit => Going
<1> SUFFICES ASSUME MainInit PROVE Going
  OBVIOUS
<1>1. Parsing
  <2>1. Len(argv) \in Nat /\ slot_size \in Nat
    BY ArgAssumption, SizeTyped DEF MainInit, ArgsInit
  <2> QED BY <2>1 DEF MainInit, ArgsInit, Parsing
<1>2. FilesTyped
  <2>1. meta \in MetaFiles \cup {<<>>} /\ replay \in ReplayFiles \cup {<<>>}
        /\ data \in DataFiles \cup {<<>>}
    BY DEF MainInit, IfRead
  <2>2. \A tokens \in MetaFiles \cup ReplayFiles \cup {<<>>} :
          tokens \in Seq(Token(Uid \cup Pfn)) /\ Records(tokens) \in Seq([uid : Uid, pfn : Pfn])
    <3>1. <<>> \in Seq([uid : Uid, pfn : Pfn])
      OBVIOUS
    <3> QED BY <3>1, FilesAssumption, NoRecords
  <2>3. data \in Seq(Data)
    <3>1. <<>> \in Seq(Data)
      OBVIOUS
    <3> QED BY <2>1, <3>1, FilesAssumption
  <2> QED BY <2>1, <2>2, <2>3 DEF FilesTyped
<1>3. Unloaded /\ rpc = "waiting" /\ restored = <<>>
  BY DEF MainInit, Init, StoreInit, ReplayInit, Unloaded
<1>4. Whereabouts /\ ~ Begun
  BY <1>3 DEF MainInit, ArgsInit, Whereabouts, ReplayBegun, Begun
<1>5. StatusExplained /\ RegionBalanced
  BY StillRunning DEF MainInit
<1> QED BY <1>1, <1>2, <1>4, <1>5 DEF Going

(* One option more is parsed: it is one the program takes, or it is the    *)
(* end of the program.                                                     *)
LEMMA ParsingStep ==
  ASSUME Parsing, ArgsNext
  PROVE  Parsing' /\ argpc = "parse" /\ UNCHANGED <<program, argv>>
<1>0. /\ Len(argv) \in Nat /\ optind \in Nat /\ optind \in 1 .. Len(argv) + 1
      /\ argpc \in {"parse", "parsed", "usage"} /\ argv \in ArgVectors /\ slot_size \in Nat
  BY DEF Parsing
<1>1. argpc = "parse" /\ program' = program /\ argv' = argv
  BY DEF ArgsNext, ParseCodec, ParseBaseDelta, ParseUnknownCodec, ParseSlotSize,
         ParseFilename, ParseUnknown, ParseDone, Gets
<1>2. \A option : Taken(option)' <=> Taken(option)
  BY <1>1 DEF Taken, Codecs
<1>3. \A n \in 1 .. optind - 1 : Taken(argv[n])
  BY <1>1 DEF Parsing
<1>4. ASSUME optind <= Len(argv), optind' = optind + 1, argpc' = argpc, Taken(argv[optind]),
             compalg' \in {0, 1}, compalg' = 1 => program = "delta", slot_size' \in Nat
      PROVE  Parsing'
  <2>1. \A n \in 1 .. optind' - 1 : n \in 1 .. optind - 1 \/ n = optind
    BY <1>0, <1>4
  <2> QED BY <1>0, <1>1, <1>2, <1>3, <1>4, <2>1 DEF Parsing
<1>5. ASSUME optind <= Len(argv), optind' = optind + 1, argpc' = "usage",
             ~ Taken(argv[optind]), compalg' = compalg, slot_size' = slot_size
      PROVE  Parsing'
  <2>1. optind \in 1 .. Len(argv) /\ optind' \in 1 .. Len(argv) + 1
    BY <1>0, <1>5
  <2> QED BY <1>0, <1>1, <1>2, <1>5, <2>1 DEF Parsing
<1>6. compalg \in {0, 1} /\ (compalg = 1 => program = "delta")
  BY DEF Parsing
<1>7. CASE ParseCodec
  BY <1>0, <1>4, <1>6, <1>7 DEF ParseCodec, Gets, Option, optarg, Taken, Codecs, CodecChosen
<1>8. CASE ParseBaseDelta
  BY <1>0, <1>4, <1>6, <1>8 DEF ParseBaseDelta, Gets, Option, optarg, Taken, Codecs
<1>9. CASE ParseUnknownCodec
  BY <1>5, <1>6, <1>9 DEF ParseUnknownCodec, Gets, Option, optarg, Taken, Codecs
<1>10. CASE ParseSlotSize
  <2>1. /\ optind <= Len(argv) /\ optind' = optind + 1 /\ argpc' = argpc /\ compalg' = compalg
        /\ argv[optind][1] = "s" /\ Taken(argv[optind])
        /\ slot_size' = ToUnsignedLong(ToInt(argv[optind][2] * Kb))
    BY <1>10 DEF ParseSlotSize, Gets, Option, optarg, Taken
  <2>2. argv[optind][2] \in IntRange
    <3>1. optind \in 1 .. Len(argv)
      BY <1>0, <2>1
    <3> QED BY <1>0, <2>1, <3>1, ArgAssumption
  <2>3. slot_size' \in Nat
    BY <2>1, <2>2, SizeTyped
  <2> QED BY <1>1, <1>4, <1>6, <2>1, <2>3
<1>11. CASE ParseFilename
  BY <1>0, <1>4, <1>6, <1>11 DEF ParseFilename, Gets, Option, optarg, Taken, Codecs
<1>12. CASE ParseUnknown
  BY <1>5, <1>6, <1>12 DEF ParseUnknown, Option, Taken
<1>13. CASE ParseDone
  BY <1>0, <1>1, <1>2, <1>3, <1>6, <1>13 DEF ParseDone, Parsing
<1> QED BY <1>1, <1>7, <1>8, <1>9, <1>10, <1>11, <1>12, <1>13 DEF ArgsNext

(* As long as nothing but main moves on, the halves are as they were.      *)
LEMMA NothingPacked ==
  /\ UNCHANGED <<packVars, replayVars>> => (Unloaded' <=> Unloaded)
  /\ UNCHANGED vars => (Unstored' <=> Unstored) /\ (ReplayInit' <=> ReplayInit)
  BY DEF packVars, vars, storeVars, replayVars, Unloaded, Unstored, ReplayInit, NewSlot

LEMMA ParseArgsStep == Going /\ ParseArgs => Going'
<1> SUFFICES ASSUME Going, ParseArgs PROVE Going'
  OBVIOUS
<1>0. /\ mpc = "args" /\ ArgsNext /\ UNCHANGED <<packVars, replayVars>> /\ UNCHANGED region
      /\ UNCHANGED fileVars /\ Unloaded /\ region = "none" /\ exit_status = "running"
  BY DEF ParseArgs, Going, Whereabouts
<1>1. Parsing' /\ UNCHANGED <<program, argv>>
  BY <1>0, ParsingStep DEF Going
<1>2. FilesTyped'
  BY <1>0 DEF fileVars, Going, FilesTyped
<1>3. Unloaded' /\ rpc' = "waiting" /\ restored' = <<>> /\ pc' = "compress"
  BY <1>0, NothingPacked DEF ReplayInit, packVars, replayVars, Unloaded
<1>5. CASE argpc' = "parse"
  <2>1. mpc' = mpc /\ exit_status' = exit_status
    BY <1>5 DEF ParseArgs
  <2>2. Whereabouts' /\ ~ Begun'
    BY <1>0, <1>3, <1>5, <2>1 DEF Whereabouts, ReplayBegun, Begun
  <2>3. StatusExplained' /\ RegionBalanced'
    BY <1>0, <2>1, StillRunningNext
  <2> QED BY <1>1, <1>2, <2>2, <2>3 DEF Going
<1>6. CASE argpc' = "parsed"
  <2>1. mpc' = "load" /\ exit_status' = exit_status
    BY <1>6 DEF ParseArgs, Continue
  <2>2. Whereabouts' /\ ~ Begun'
    BY <1>0, <1>3, <1>6, <2>1 DEF Whereabouts, ReplayBegun, Begun
  <2>3. StatusExplained' /\ RegionBalanced'
    BY <1>0, <2>1, StillRunningNext
  <2> QED BY <1>1, <1>2, <2>2, <2>3 DEF Going
<1>7. CASE argpc' = "usage"
  <2>1. mpc' = "exit" /\ exit_status' = "failure"
    BY <1>7 DEF ParseArgs, Exit
  <2>2. Whereabouts' /\ ~ Begun'
    BY <1>0, <1>3, <1>7, <2>1 DEF Whereabouts, ReplayBegun, Begun
  <2>3. ~ Loadable'
    BY <1>1, <1>7 DEF Parsing, Loadable
  <2>4. StatusExplained'
    BY <2>1, <2>3, StatusIsNext DEF Explained
  <2>5. RegionBalanced'
    BY <1>0, <1>3, <2>1 DEF RegionBalanced
  <2> QED BY <1>1, <1>2, <2>2, <2>4, <2>5 DEF Going
<1> QED BY <1>1, <1>5, <1>6, <1>7 DEF Parsing

LEMMA LoadTraceFailsStep == Going /\ LoadTraceFails => Going'
<1> SUFFICES ASSUME Going, LoadTraceFails PROVE Going'
  OBVIOUS
<1>0. /\ mpc = "load" /\ UNCHANGED <<vars, argVars, fileVars>> /\ region' = region
      /\ Unloaded /\ region = "none" /\ argpc = "parsed"
      /\ ~ (Opens("f") /\ Opens("t") /\ LoadSucceeds(meta, data))
      /\ mpc' = "exit" /\ exit_status' = "failure"
  BY DEF LoadTraceFails, Going, Whereabouts, Exit
<1>1. Parsing'
  BY <1>0 DEF Going, Parsing, argVars, Taken, Codecs
<1>2. FilesTyped'
  BY <1>0 DEF fileVars, Going, FilesTyped
<1>3. Unloaded' /\ rpc' = "waiting" /\ restored' = <<>> /\ pc' = "compress"
  BY <1>0, NothingPacked DEF ReplayInit, vars, storeVars, packVars, replayVars, Unloaded
<1>5. Whereabouts' /\ ~ Begun'
  BY <1>0, <1>3 DEF Whereabouts, ReplayBegun, Begun, argVars
<1>6. ~ Loadable'
  BY <1>0 DEF Loadable, Opens, argVars, fileVars
<1>7. StatusExplained'
  BY <1>0, <1>6, StatusIsNext DEF Explained
<1>8. RegionBalanced'
  BY <1>0, <1>3 DEF RegionBalanced
<1> QED BY <1>1, <1>2, <1>5, <1>7, <1>8 DEF Going

(* What the files make is a trace the packing loop can take.               *)
LEMMA LoadedPages ==
  ASSUME FilesTyped, LoadSucceeds(meta, data)
  PROVE  /\ Len(Records(meta)) \in Nat
         /\ Pages(meta, data) \in Seq(Page) /\ Len(Pages(meta, data)) = Len(Records(meta))
         /\ \A k \in 1 .. Len(Records(meta)) :
              Pages(meta, data)[k] = PageFrom(Records(meta)[k], data[k])
<1> DEFINE n == Len(Records(meta))
<1>1. /\ n \in Nat /\ Len(Pages(meta, data)) = n
      /\ Pages(meta, data) = [k \in 1 .. n |-> PageFrom(Records(meta)[k], data[k])]
      /\ \A k \in 1 .. n : /\ data[k] \in Data
                           /\ Pages(meta, data)[k] = PageFrom(Records(meta)[k], data[k])
  BY PagesAre DEF FilesTyped
<1>2. \A k \in 1 .. n : Records(meta)[k] \in [uid : Uid, pfn : Pfn]
  BY ElementOfSeq DEF FilesTyped
<1> HIDE DEF n
<1>3. ASSUME NEW k \in 1 .. n PROVE PageFrom(Records(meta)[k], data[k]) \in Page
  BY <1>1, <1>2 DEF PageFrom, Page
<1>4. Pages(meta, data) \in Seq(Page)
  BY <1>1, <1>3
<1> QED BY <1>1, <1>4 DEF n

LEMMA LoadTraceStep == Going /\ LoadTrace => Going'
<1> SUFFICES ASSUME Going, LoadTrace PROVE Going'
  OBVIOUS
<1>0. /\ mpc = "load" /\ UNCHANGED <<replayVars, argVars, fileVars>> /\ argpc = "parsed"
      /\ UNCHANGED <<pc, i, compressedPage, slot_list, slot_tree, live, placed, opened>>
      /\ Unloaded /\ region = "none" /\ exit_status = "running"
      /\ Opens("f") /\ Opens("t") /\ LoadSucceeds(meta, data)
      /\ dataPages' = Pages(meta, data) /\ slots' = <<NewSlot>>
      /\ mpc' = IF compalg = 1 THEN "bd0" ELSE "store"
      /\ exit_status' = exit_status
      /\ region' = IF program = "write" THEN "open" ELSE "none"
  BY DEF LoadTrace, Going, Whereabouts, Continue, PackingMeasured, OpensRegion
<1>1. /\ Parsing' /\ slot_size' = slot_size
      /\ compalg \in {0, 1} /\ (compalg = 1 => program = "delta") /\ slot_size \in Nat
  BY <1>0 DEF Going, Parsing, argVars, Taken, Codecs
<1>2. FilesTyped'
  BY <1>0 DEF fileVars, Going, FilesTyped
<1>3. Unstored' /\ ReplayInit' /\ rpc' = "waiting" /\ restored' = <<>> /\ pc' = "compress"
      /\ i' = 1 /\ (slots = <<NewSlot>>)'
  <2>1. Pages(meta, data) \in Seq(Page)
    BY <1>0, LoadedPages DEF Going
  <2>2. (slots = <<NewSlot>>)'
    BY <1>0, <1>1 DEF NewSlot
  <2>3. ReplayInit' /\ rpc' = "waiting" /\ restored' = <<>>
    BY <1>0 DEF Unloaded, ReplayInit, replayVars
  <2> QED BY <1>0, <1>1, <2>1, <2>2, <2>3 DEF Unloaded, Unstored
<1>4. Halves'
  BY <1>3, HalvesUnstoredNext
<1>5. Loaded'
  BY <1>0 DEF Loaded, Opens, argVars, fileVars
<1>6. Whereabouts'
  BY <1>0, <1>1, <1>3, <1>5 DEF Whereabouts, ReplayBegun, argVars
<1>7. StatusExplained' /\ RegionBalanced'
  BY <1>0, StillRunningNext
<1> QED BY <1>1, <1>2, <1>4, <1>6, <1>7 DEF Going

-----------------------------------------------------------------------------
(* Base-delta compression and packing *)

(* No pages are loaded only if the trace has no records.                   *)
LEMMA EmptyTrace ==
  ASSUME FilesTyped, Loaded
  PROVE  Empty <=> dataPages = <<>>
<1>1. dataPages \in Seq(Page) /\ Len(dataPages) = Len(Records(meta))
  BY LoadedPages DEF Loaded
<1>2. Records(meta) \in Seq([uid : Uid, pfn : Pfn])
  BY DEF FilesTyped
<1> QED BY <1>1, <1>2, EmptySeq DEF Empty

(* A command line that is parsed has options the program takes.            *)
LEMMA ParsedTaken ==
  ASSUME Parsing, argpc = "parsed"
  PROVE  \A n \in 1 .. Len(argv) : Taken(argv[n])
<1>1. optind - 1 = Len(argv)
  BY DEF Parsing
<1> QED BY <1>1 DEF Parsing

(* Behind parse_args nothing changes the options or the files.             *)
LEMMA InputsKept ==
  ASSUME Going, UNCHANGED <<argVars, fileVars>>
  PROVE  /\ Parsing' /\ FilesTyped'
         /\ \A option : Opens(option)' <=> Opens(option)
         /\ Loadable' <=> Loadable
         /\ (Empty' <=> Empty) /\ (TooLarge' <=> TooLarge) /\ (Served' <=> Served)
         /\ UNCHANGED <<program, argpc, compalg, slot_size>>
  BY DEF Going, Parsing, FilesTyped, argVars, fileVars, Taken, Codecs, Opens, Loadable, Empty,
         TooLarge, Served

LEMMA BaseDeltaStep == Going /\ BaseDelta => Going'
<1> SUFFICES ASSUME Going, BaseDelta PROVE Going'
  OBVIOUS
<1>0. /\ mpc = "bd0" /\ UNCHANGED <<replayVars, argVars, fileVars>> /\ argpc = "parsed"
      /\ UNCHANGED <<dataPages, i, compressedPage, slots, slot_list, slot_tree, live, placed,
                     opened>>
      /\ Unstored /\ ReplayInit /\ region = "none" /\ exit_status = "running"
      /\ Loaded /\ compalg = 1 /\ program = "delta" /\ Halves
      /\ dataPages # <<>> /\ pc' = "stored" /\ mpc' = "replay"
      /\ exit_status' = exit_status /\ region' = region
  BY DEF BaseDelta, Going, Begun, Whereabouts, Continue, Parsing
<1>1. /\ Parsing' /\ FilesTyped' /\ UNCHANGED <<program, argpc, compalg, slot_size>>
      /\ \A option : Opens(option)' <=> Opens(option)
  BY <1>0, InputsKept
<1>2. Stored'
  <2>1. Base'
    BY <1>0, <1>1 DEF Halves, Stored, Base, StoreTypeOK, HistoryPerSlot, Pending, current, SlotType,
                   Unstored
  <2>2. Layout'
    <3> SUFFICES ASSUME NEW s \in 1 .. current'
                 PROVE  LaidOut(slots[s], placed[s])' /\ Below(slots[s], placed[s])'
      BY DEF Layout, SlotLayout
    <3>1. LaidOut(slots[s], placed[s]) /\ Below(slots[s], placed[s])
      BY <1>0 DEF Halves, Stored, Layout, SlotLayout, current
    <3> QED BY <1>0, <3>1 DEF LaidOut, Below, EndOf, Describes, PageOf
  <2>3. TreeLatest'
    BY <1>0 DEF Halves, Stored, TreeLatest, Holds, current
  <2>4. NoneRejected'
    BY <1>0 DEF Halves, Stored, NoneRejected, PageAt, PageOf, current
  <2> QED BY <2>1, <2>2, <2>3, <2>4 DEF Stored
<1>3. Replaying'
  <2>1. /\ UNCHANGED <<rpc, ops, r, slot, j, data_offset, fetched, restored>>
        /\ rpc = "waiting" /\ restored = <<>>
    BY <1>0 DEF replayVars, ReplayInit
  <2>2. ReplayTypeOK'
    BY <1>0, <1>1, <2>1 DEF Halves, Replaying, ReplayTypeOK
  <2>3. Phases' /\ AtRecord' /\ ScanAligned' /\ Fetched' /\ ReplayNeverFails' /\ AnsweredRight'
    BY <1>0, <2>1 DEF Halves, Replaying, Phases, AtRecord, ScanAligned, Fetched,
                      ReplayNeverFails, AnsweredRight
  <2> QED BY <2>2, <2>3 DEF Replaying
<1>4. CodecTook'
  BY <1>0 DEF Unstored, CodecTook
<1>5. Loaded' /\ Prepared'
  BY <1>0, <1>1 DEF Loaded, Prepared, Unstored, fileVars
<1>6. rpc' = "waiting" /\ restored' = <<>>
  BY <1>0 DEF replayVars, ReplayInit
<1>7. Whereabouts'
  BY <1>0, <1>1, <1>5, <1>6 DEF Whereabouts, ReplayBegun
<1>8. StatusExplained' /\ RegionBalanced'
  BY <1>0, StillRunningNext
<1> QED BY <1>0, <1>1, <1>2, <1>3, <1>4, <1>7, <1>8 DEF Going, Halves

LEMMA BaseDeltaOfNothingStep == Going /\ BaseDeltaOfNothing => Going'
<1> SUFFICES ASSUME Going, BaseDeltaOfNothing PROVE Going'
  OBVIOUS
<1>0. /\ mpc = "bd0" /\ UNCHANGED <<vars, argVars, fileVars>> /\ argpc = "parsed"
      /\ Unstored /\ ReplayInit /\ region = "none" /\ region' = region
      /\ Loaded /\ compalg = 1 /\ program = "delta"
      /\ dataPages = <<>> /\ mpc' = "exit" /\ exit_status' = "killed"
  BY DEF BaseDeltaOfNothing, Going, Whereabouts, Exit, Parsing
<1>1. /\ Parsing' /\ FilesTyped' /\ UNCHANGED <<program, argpc, compalg, slot_size>>
      /\ Loadable' <=> Loadable
      /\ Empty' <=> Empty
  BY <1>0, InputsKept
<1>2. Unstored' /\ ReplayInit' /\ rpc' = "waiting" /\ restored' = <<>> /\ pc' = "compress"
  BY <1>0, NothingPacked DEF ReplayInit, vars, storeVars, replayVars, Unstored
<1>3. Halves'
  BY <1>2, HalvesUnstoredNext
<1>4. Loadable /\ Empty
  BY <1>0, EmptyTrace, ParsedTaken DEF Going, Loaded, Loadable, Empty
<1>5. Whereabouts'
  BY <1>0, <1>1, <1>2 DEF Whereabouts, ReplayBegun
<1>6. StatusExplained'
  BY <1>0, <1>1, <1>4, StatusIsNext DEF Explained
<1>7. RegionBalanced'
  BY <1>0, <1>1 DEF RegionBalanced
<1> QED BY <1>1, <1>3, <1>5, <1>6, <1>7 DEF Going

(* Where a step of the packing loop leads. *)
LEMMA StoreGoes ==
  ASSUME StoreTypeOK, StoreNext
  PROVE  /\ dataPages' = dataPages
         /\ pc' \in {"compress", "insert", "stored", "compress_failed"}
         /\ pc' = "stored" => i' = Len(dataPages) + 1
<1>1. pc' = "stored" => FinishStore
  BY DEF StoreNext, CompressDataPage, CompressFailed, InsertStored, InsertRefused, NextPage
<1>2. FinishStore => i' = Len(dataPages) + 1
  <2>1. Len(dataPages) \in Nat /\ i \in 1 .. Len(dataPages) + 1
    BY DEF StoreTypeOK
  <2> QED BY <2>1 DEF FinishStore
<1> QED BY <1>1, <1>2 DEF StoreNext, CompressDataPage, CompressFailed, InsertStored,
                          InsertRefused, NextPage, FinishStore

(* The first page of all fits any slot that has the size of no object.     *)
LEMMA FirstFits ==
  ASSUME Halves, TooLarge, slots = <<NewSlot>>, pc = "insert"
  PROVE  /\ NoBuffer
         /\ i \in 1 .. Len(dataPages) /\ dataPages[i].data \notin Rejected
<1>1. /\ i \in 1 .. Len(dataPages) /\ dataPages[i] \in Page /\ slot_size \in Nat
      /\ compressedPage = Compressed(dataPages[i]) /\ dataPages[i].data \notin Rejected
  BY AtInsert DEF Halves, Stored, Base, Pending
<1>2. slots[current].offset = 0
  <2>1. Len(slots) = 1 /\ slots[1] = NewSlot
    OBVIOUS
  <2> QED BY <2>1 DEF current, NewSlot
<1>3. NoObject \in Nat
  <2>1. LongBits - 1 \in Nat
    BY WidthAssumption
  <2> QED BY <2>1, PowerNat DEF NoObject
<1>4. compressedPage.compressed_size \in Nat /\ compressedPage.compressed_size < NoObject
  <2>1. dataPages[i].data \in Data
    BY <1>1 DEF Page
  <2> QED BY <1>1, <2>1, SizeAssumption, CodecAssumption DEF Compressed
<1>5. slot_size >= NoObject
  BY DEF TooLarge
<1>6. Fits(slots[current], compressedPage)
  BY <1>1, <1>2, <1>3, <1>4, <1>5 DEF Fits
<1> QED BY <1>1, <1>5, <1>6 DEF NoBuffer

(* What a step of the packing loop or a crash of it starts from. *)
LEMMA AtStore ==
  ASSUME Going, mpc = "store"
  PROVE  /\ argpc = "parsed" /\ Loaded /\ compalg = 0 /\ ReplayInit /\ rpc = "waiting"
         /\ restored = <<>> /\ exit_status = "running" /\ Halves
         /\ region = IF program = "write" THEN "open" ELSE "none"
         /\ TooLarge => i = 1 /\ slots = <<NewSlot>>
         /\ Loadable /\ (Empty <=> dataPages = <<>>)
  BY EmptyTrace, ParsedTaken DEF Going, Whereabouts, Begun, ReplayInit, Loaded, Loadable

LEMMA InsertCrashesStep == Going /\ InsertCrashes => Going'
<1> SUFFICES ASSUME Going, InsertCrashes PROVE Going'
  OBVIOUS
<1>0. /\ mpc = "store" /\ UNCHANGED <<vars, argVars, fileVars>> /\ region' = region
      /\ pc = "insert" /\ TooLarge /\ mpc' = "exit" /\ exit_status' = "killed"
  BY DEF InsertCrashes, NoBuffer, TooLarge, Exit
<1>1. /\ Parsing' /\ FilesTyped' /\ UNCHANGED <<program, argpc, compalg, slot_size>>
      /\ (Loadable' <=> Loadable) /\ (Empty' <=> Empty) /\ (Served' <=> Served)
  BY <1>0, InputsKept
<1>2. Halves'
  BY <1>0, <1>1, AtStore, HalvesStep
<1>3. i = 1 /\ i \in 1 .. Len(dataPages) /\ dataPages[1].data \notin Rejected
  BY <1>0, AtStore, FirstFits
<1>4. Loadable /\ compalg = 0 /\ ~ Served
  <2>1. dataPages # <<>>
    BY <1>3
  <2> QED BY <1>0, <2>1, AtStore DEF Served
<1>5. /\ pc' = pc /\ dataPages' = dataPages /\ rpc' = "waiting" /\ restored' = <<>>
  BY <1>0, AtStore DEF vars, storeVars, replayVars
<1>6. Whereabouts'
  BY <1>0, <1>1, <1>5, AtStore DEF Whereabouts, ReplayBegun
<1>7. StatusExplained'
  BY <1>0, <1>1, <1>3, <1>4, <1>5, StatusIsNext DEF Explained
<1>8. RegionBalanced'
  BY <1>0, <1>1, AtStore DEF RegionBalanced
<1> QED BY <1>1, <1>2, <1>6, <1>7, <1>8 DEF Going

(* A slot without a buffer takes no page, and none is sealed for it.       *)
LEMMA NothingStored ==
  ASSUME Halves, TooLarge, i = 1, slots = <<NewSlot>>, StoreNext, ~ NoBuffer
  PROVE  UNCHANGED <<i, slots, slot_size>>
<1>1. pc # "insert"
  BY FirstFits
<1> QED BY <1>1, SizeKept DEF StoreNext, CompressDataPage, CompressFailed, InsertStored,
                               InsertRefused, FinishStore

LEMMA StoreStep == Going /\ Store => Going'
<1> SUFFICES ASSUME Going, Store PROVE Going'
  OBVIOUS
<1>0. /\ mpc = "store" /\ UNCHANGED <<replayVars, argVars, fileVars>> /\ argpc = "parsed"
      /\ StoreNext /\ ~ NoBuffer /\ Loaded /\ compalg = 0 /\ ReplayInit /\ Halves
      /\ exit_status = "running" /\ region = IF program = "write" THEN "open" ELSE "none"
  BY AtStore DEF Store
<1>1. /\ Parsing' /\ FilesTyped' /\ UNCHANGED <<program, argpc, compalg, slot_size>>
      /\ (Loadable' <=> Loadable) /\ (Empty' <=> Empty) /\ (TooLarge' <=> TooLarge)
      /\ (Served' <=> Served)
      /\ \A option : Opens(option)' <=> Opens(option)
  BY <1>0, InputsKept
<1>2. Halves' /\ CodecTook'
  BY <1>0, <1>1, HalvesStep DEF Next, Halves
<1>3. /\ dataPages' = dataPages /\ StoreTypeOK' /\ Len(dataPages) \in Nat
      /\ pc' \in {"compress", "insert", "stored", "compress_failed"}
      /\ pc' = "stored" => i' = Len(dataPages) + 1
  <2>1. StoreTypeOK /\ StoreTypeOK'
    BY <1>0, <1>2 DEF Halves, Stored, Base
  <2>2. /\ dataPages' = dataPages
        /\ pc' \in {"compress", "insert", "stored", "compress_failed"}
        /\ pc' = "stored" => i' = Len(dataPages) + 1
    BY <1>0, <2>1, StoreGoes
  <2>3. Len(dataPages) \in Nat
    BY <2>1 DEF StoreTypeOK
  <2> QED BY <2>1, <2>2, <2>3
<1>4. ReplayInit' /\ rpc' = "waiting" /\ restored' = <<>>
  BY <1>0 DEF ReplayInit, replayVars
<1>5. Loaded' /\ Loadable /\ (Empty <=> dataPages = <<>>)
  BY <1>0, <1>1, <1>3, AtStore DEF Loaded, fileVars
<1>10. TooLarge => i' = 1 /\ (slots = <<NewSlot>>)'
  BY <1>0, AtStore, NothingStored DEF NewSlot
<1>11. pc' = "stored" /\ TooLarge => dataPages = <<>>
  <2> SUFFICES ASSUME pc' = "stored", TooLarge PROVE dataPages = <<>>
    OBVIOUS
  <2>1. Len(dataPages) = 0
    BY <1>3, <1>10
  <2> QED BY <1>3, <2>1, EmptySeq DEF StoreTypeOK
<1>6. CASE pc' = "compress_failed"
  <2>1. mpc' = "exit" /\ exit_status' = "failure" /\ region' = region
    BY <1>6 DEF Store, Exit
  <2>2. /\ i' \in 1 .. Len(dataPages') /\ dataPages'[i'].data \in Rejected
    BY <1>2, <1>3, <1>6 DEF CodecTook, StoreTypeOK
  <2>3. Whereabouts'
    BY <1>0, <1>1, <1>4, <2>1 DEF Whereabouts, ReplayBegun
  <2>4. ~ Compresses' /\ (~ Served' => dataPages'[1].data \in Rejected)
    BY <1>1, <1>10, <2>2 DEF Compresses, Served
  <2>5. StatusExplained'
    BY <1>0, <1>1, <2>1, <2>4, StatusIsNext DEF Explained
  <2>6. RegionBalanced'
    BY <1>0, <1>1, <1>6, <2>1 DEF RegionBalanced
  <2> QED BY <1>1, <1>2, <2>3, <2>5, <2>6 DEF Going
<1>7. CASE pc' = "stored" /\ program = "write"
  <2>1. mpc' = "exit" /\ exit_status' = "success" /\ region' = "closed"
    BY <1>7 DEF Store, Exit
  <2>2. Compresses'
    <3>1. \A n \in 1 .. i' - 1 : dataPages'[n].data \notin Rejected
      BY <1>2 DEF CodecTook
    <3>3. i' - 1 = Len(dataPages')
      BY <1>3, <1>7
    <3> QED BY <3>1, <3>3 DEF Compresses
  <2>3. Whereabouts'
    BY <1>0, <1>1, <1>4, <2>1 DEF Whereabouts, ReplayBegun
  <2>4. Served'
    BY <1>1, <1>5, <1>7, <1>11 DEF Served
  <2>5. StatusExplained'
    BY <1>0, <1>1, <1>5, <1>7, <2>1, <2>2, <2>4, StatusIsNext DEF Explained
  <2>6. RegionBalanced'
    BY <1>1, <1>7, <2>1 DEF RegionBalanced
  <2> QED BY <1>1, <1>2, <2>3, <2>5, <2>6 DEF Going
<1>8. CASE pc' = "stored" /\ program # "write"
  <2>1. mpc' = "replay" /\ exit_status' = exit_status /\ region' = region
    BY <1>8 DEF Store, Continue
  <2>2. Prepared'
    BY <1>0, <1>1, <1>3, <1>5, <1>8, <1>11 DEF Prepared
  <2>3. Whereabouts'
    BY <1>0, <1>1, <1>4, <1>8, <2>1, <2>2 DEF Whereabouts, ReplayBegun
  <2>4. StatusExplained' /\ RegionBalanced'
    BY <1>0, <2>1, StillRunningNext
  <2> QED BY <1>1, <1>2, <2>3, <2>4 DEF Going
<1>9. CASE pc' \in {"compress", "insert"}
  <2>1. mpc' = mpc /\ exit_status' = exit_status /\ region' = region
    BY <1>9 DEF Store, mainVars
  <2>2. Whereabouts'
    BY <1>0, <1>1, <1>4, <1>5, <1>9, <1>10, <2>1 DEF Whereabouts, ReplayBegun
  <2>3. StatusExplained' /\ RegionBalanced'
    BY <1>0, <2>1, StillRunningNext
  <2> QED BY <1>1, <1>2, <2>2, <2>3 DEF Going
<1> QED BY <1>3, <1>6, <1>7, <1>8, <1>9

-----------------------------------------------------------------------------
(* The replay *)

LEMMA StartReplayStep == Going /\ StartReplay => Going'
<1> SUFFICES ASSUME Going, StartReplay PROVE Going'
  OBVIOUS
<1>0. /\ mpc = "replay" /\ UNCHANGED <<storeVars, argVars, fileVars>> /\ argpc = "parsed"
      /\ LoadReplay /\ rpc = "waiting" /\ Prepared /\ exit_status = "running"
      /\ region = "none" /\ Halves
  BY DEF StartReplay, OpenReplay, LoadReplay, Going, Whereabouts, Begun, ReplayBegun
<1>1. /\ Parsing' /\ FilesTyped' /\ UNCHANGED <<program, argpc, compalg, slot_size>>
      /\ (Loadable' <=> Loadable) /\ (Empty' <=> Empty) /\ (TooLarge' <=> TooLarge)
      /\ (Served' <=> Served)
      /\ \A option : Opens(option)' <=> Opens(option)
  BY <1>0, InputsKept
<1>2. Halves'
  BY <1>0, <1>1, HalvesStep DEF Next, ReplayNext
<1>3. Prepared'
  BY <1>0, <1>1 DEF Prepared, Loaded, storeVars, fileVars
<1>4. CASE Opens("r")
  <2>1. /\ rpc' = "replay" /\ ops' = Records(replay) /\ replay' = replay
        /\ region' = IF program = "read" THEN "open" ELSE region
        /\ mpc' = mpc /\ exit_status' = exit_status
    BY <1>0, <1>4 DEF StartReplay, OpenReplay, OpensRegion, fileVars
  <2>2. Whereabouts'
    BY <1>0, <1>1, <1>3, <1>4, <2>1 DEF Whereabouts, ReplayBegun
  <2>3. StatusExplained' /\ RegionBalanced'
    BY <1>0, <2>1, StillRunningNext
  <2> QED BY <1>1, <1>2, <2>2, <2>3 DEF Going
<1>5. CASE ~ Opens("r")
  <2>1. /\ rpc' = "no_replay_file" /\ region' = region /\ restored' = <<>>
        /\ mpc' = "exit" /\ exit_status' = "failure"
    BY <1>0, <1>5 DEF StartReplay, OpenReplay, LoadReplay, Exit, Halves, Replaying, Phases
  <2>2. Whereabouts'
    BY <1>0, <1>1, <2>1 DEF Whereabouts, ReplayBegun
  <2>3. /\ program # "write" /\ (compalg = 1 => ~ Empty) /\ (compalg # 1 => Served)
    BY <1>0, EmptyTrace DEF Going, Parsing, Prepared, Served
  <2>4. StatusExplained'
    BY <1>1, <1>5, <2>1, <2>3, StatusIsNext DEF Explained
  <2>5. RegionBalanced'
    <3>1. (program = "write" /\ (pc = "compress_failed" \/ exit_status = "killed"))' <=> FALSE
      BY <1>1, <2>3
    <3> QED BY <1>0, <1>1, <2>1, <2>3, <3>1 DEF RegionBalanced
  <2> QED BY <1>1, <1>2, <2>2, <2>4, <2>5 DEF Going
<1> QED BY <1>4, <1>5

(* Where a step of the replay leads: to one of its ends, or on.            *)
LEMMA ReplayGoes ==
  ASSUME ReplayNext, rpc # "waiting"
  PROVE  /\ ops' = ops /\ ReplayBegun
         /\ rpc' \in {"replay", "scan", "decompress", "finished", "page_not_found",
                      "decompress_failed"}
  BY DEF ReplayNext, LoadReplay, SkipRecord, FindSlot, ScanEntry, ScanFound,
         DecompressDataPage, FinishReplay, AtEntry, ReplayBegun

LEMMA ReplayStep == Going /\ Replay => Going'
<1> SUFFICES ASSUME Going, Replay PROVE Going'
  OBVIOUS
<1>0. /\ mpc = "replay" /\ UNCHANGED <<storeVars, argVars, fileVars>> /\ argpc = "parsed"
      /\ ReplayNext /\ rpc # "waiting" /\ Prepared /\ exit_status = "running"
      /\ region = IF program = "read" /\ ReplayBegun THEN "open" ELSE "none"
      /\ ReplayBegun => Opens("r") /\ ops = Records(replay)
      /\ Halves
  BY DEF Replay, Going, Whereabouts, Begun
<1>1. /\ Parsing' /\ FilesTyped' /\ UNCHANGED <<program, argpc, compalg, slot_size>>
      /\ (Loadable' <=> Loadable) /\ (Empty' <=> Empty) /\ (TooLarge' <=> TooLarge)
      /\ (Served' <=> Served)
      /\ \A option : Opens(option)' <=> Opens(option)
  BY <1>0, InputsKept
<1>2. Halves' /\ CodecTook' /\ ReplayNeverFails'
  BY <1>0, <1>1, HalvesStep DEF Next, Halves, Replaying
<1>3. Prepared'
  BY <1>0, <1>1 DEF Prepared, Loaded, storeVars, fileVars
<1>4. /\ ops' = ops /\ replay' = replay /\ ReplayBegun
      /\ rpc' \in {"replay", "scan", "decompress", "finished"}
  BY <1>0, <1>2, ReplayGoes DEF ReplayNeverFails, fileVars
<1>5. /\ Loadable /\ program # "write" /\ compalg \in {0, 1}
      /\ (compalg = 1 => ~ Empty) /\ (compalg = 0 => Served)
  BY <1>0, EmptyTrace, ParsedTaken DEF Going, Parsing, Prepared, Loaded, Loadable, Served
<1>6. CASE rpc' = "finished"
  <2>1. /\ mpc' = "exit" /\ exit_status' = "success"
        /\ region' = IF program = "read" THEN "closed" ELSE region
    BY <1>6 DEF Replay, Exit, RegionClosed
  <2>2. compalg = 0 => Compresses'
    <3> SUFFICES ASSUME compalg = 0 PROVE Compresses'
      OBVIOUS
    <3>1. \A n \in 1 .. i' - 1 : dataPages'[n].data \notin Rejected
      BY <1>2 DEF CodecTook
    <3>2. Len(dataPages') \in Nat
      BY <1>2 DEF Halves, Stored, Base, StoreTypeOK
    <3>3. i' - 1 = Len(dataPages')
      BY <1>1, <1>3, <3>2 DEF Prepared
    <3> QED BY <3>1, <3>3 DEF Compresses
  <2>3. Whereabouts'
    BY <1>0, <1>1, <1>3, <1>4, <1>6, <2>1 DEF Whereabouts, ReplayBegun
  <2>4. StatusExplained'
    BY <1>0, <1>1, <1>4, <1>5, <2>1, <2>2, StatusIsNext DEF Explained
  <2>5. RegionBalanced'
    <3>1. program' \in {"read", "delta"} /\ program' = program
      BY <1>1, <1>5 DEF Parsing
    <3>2. region' = IF program' = "read" THEN "closed" ELSE "none"
      BY <1>0, <2>1, <3>1
    <3> QED BY <2>1, <3>1, <3>2 DEF RegionBalanced
  <2> QED BY <1>1, <1>2, <2>3, <2>4, <2>5 DEF Going
<1>7. CASE rpc' # "finished"
  <2>1. mpc' = mpc /\ exit_status' = exit_status /\ region' = region
    BY <1>4, <1>7 DEF Replay, mainVars
  <2>2. Whereabouts'
    BY <1>0, <1>1, <1>3, <1>4, <1>7, <2>1 DEF Whereabouts, ReplayBegun
  <2>3. StatusExplained' /\ RegionBalanced'
    BY <1>0, <2>1, StillRunningNext
  <2> QED BY <1>1, <1>2, <2>2, <2>3 DEF Going
<1> QED BY <1>6, <1>7

LEMMA NothingGoes == Going /\ UNCHANGED progVars => Going'
<1> SUFFICES ASSUME Going, UNCHANGED progVars PROVE Going'
  OBVIOUS
<1>0. UNCHANGED <<vars, argVars, mainVars, fileVars>>
  BY DEF progVars
<1>1. /\ Parsing' /\ FilesTyped' /\ UNCHANGED <<program, argpc, compalg, slot_size>>
      /\ (Loadable' <=> Loadable) /\ (Empty' <=> Empty) /\ (TooLarge' <=> TooLarge)
      /\ (Served' <=> Served)
      /\ \A option : Opens(option)' <=> Opens(option)
  BY <1>0, InputsKept
<1>2. Begun' => Halves'
  BY <1>0, <1>1, HalvesStep DEF Going, Begun, mainVars
<1>3. /\ Unstored' <=> Unstored
      /\ ReplayInit' <=> ReplayInit
      /\ Unloaded' <=> Unloaded
      /\ (slots = <<NewSlot>>)' <=> slots = <<NewSlot>>
  BY <1>0, NothingPacked DEF vars, storeVars, packVars, NewSlot
<1>4. UNCHANGED <<pc, i, dataPages, slot_tree, rpc, ops, restored, mpc, exit_status, region, meta, data,
                  replay>>
  BY <1>0 DEF vars, storeVars, replayVars, mainVars, fileVars
<1>5. /\ Loaded' <=> Loaded
      /\ Prepared' <=> Prepared
      /\ Compresses' <=> Compresses
  BY <1>1, <1>4 DEF Loaded, Prepared, Compresses
<1>6. Whereabouts'
  BY <1>1, <1>3, <1>4, <1>5 DEF Going, Whereabouts, ReplayBegun
<1>7. StatusExplained'
  BY <1>1, <1>4, <1>5, StatusIs, StatusIsNext DEF Going, Explained
<1>8. RegionBalanced'
  BY <1>1, <1>4 DEF Going, RegionBalanced
<1> QED BY <1>1, <1>2, <1>6, <1>7, <1>8 DEF Going

LEMMA GoingStep == Going /\ [MainNext]_progVars => Going'
  BY ParseArgsStep, LoadTraceFailsStep, LoadTraceStep, BaseDeltaStep, BaseDeltaOfNothingStep,
     InsertCrashesStep, StoreStep, StartReplayStep, ReplayStep, NothingGoes DEF MainNext

(* The inductive invariant of the three programs. *)
THEOREM GoingAlways == MainSpec => []Going
  BY GoingInit, GoingStep, PTL DEF MainSpec

(* Whatever the command line, and with it the slot size, and whatever the  *)
(* files, the exit status tells what they were.                            *)
THEOREM StatusExplainedAlways == MainSpec => []StatusExplained
<1>1. Going => StatusExplained
  BY DEF Going
<1> QED BY <1>1, GoingAlways, PTL

(* From the first slot on, of whatever size the command line asks for, to  *)
(* a successful or violent end, the halves keep what they promise: loading *)
(* a trace from its files and skipping the packing loop for a base-delta   *)
(* run disturb none of it.                                                 *)
THEOREM HalvesStayCorrect ==
  MainSpec => [](Begun =>
                 /\ StoreTypeOK /\ SlotLayout /\ TreeLatest /\ StoreLeaksNothing
                 /\ ReplayTypeOK /\ ScanAligned /\ ReplayNeverFails /\ RestoredExactly)
<1>1. Going /\ Begun => /\ StoreTypeOK /\ SlotLayout /\ TreeLatest /\ StoreLeaksNothing
                        /\ ReplayTypeOK /\ ScanAligned /\ ReplayNeverFails /\ RestoredExactly
  BY ExactlyRestored DEF Going, Halves, Stored, Base, Layout, Pending, StoreLeaksNothing, Replaying
<1> QED BY <1>1, GoingAlways, PTL

-----------------------------------------------------------------------------
(* The measured region *)

(* Whatever the inputs, packing is measured in the write program and the   *)
(* answers in the read program, and nothing else is; and the region that   *)
(* zsim_begin opens is closed unless a page could not be compressed.       *)
THEOREM RegionMeasuresAlways == MainSpec => RegionMeasures
<1> DEFINE Step == /\ i' # i /\ program = "write" => region = "open"
                   /\ restored' # restored /\ program = "read" => region = "open"
                   /\ region = "open" => IF program = "write" THEN mpc = "store"
                                                               ELSE mpc = "replay"
                   /\ RegionBalanced'
<1>1. Going /\ Going' /\ [MainNext]_progVars => [Step]_progVars
  <2> SUFFICES ASSUME Going, Going', MainNext PROVE Step
    OBVIOUS
  <2>0. RegionBalanced' /\ Whereabouts
    BY DEF Going
  <2>1. mpc # "exit"
    BY DEF MainNext, ParseArgs, LoadTraceFails, LoadTrace, BaseDelta, BaseDeltaOfNothing,
           InsertCrashes, Store, StartReplay, Replay
  <2>2. region = "open" => IF program = "write" THEN mpc = "store" ELSE mpc = "replay"
    BY <2>0, <2>1 DEF Whereabouts, Prepared
  <2>3. i' # i => mpc = "store"
    BY DEF MainNext, ParseArgs, LoadTraceFails, LoadTrace, BaseDelta, BaseDeltaOfNothing,
           InsertCrashes, StartReplay, Replay, Store, vars, storeVars, packVars
  <2>4. restored' # restored => mpc = "replay" /\ ReplayBegun
    BY ReplayGoes
       DEF MainNext, ParseArgs, LoadTraceFails, LoadTrace, BaseDelta, BaseDeltaOfNothing,
           InsertCrashes, StartReplay, OpenReplay, LoadReplay, Replay, Store, vars, replayVars
  <2> QED BY <2>0, <2>2, <2>3, <2>4 DEF Whereabouts
<1> QED BY <1>1, GoingInit, GoingStep, PTL DEF MainSpec, RegionMeasures

-----------------------------------------------------------------------------
(* From file to file *)

(* What a base-delta run has to answer with: nothing.  After packing, an   *)
(* answer is the block of one of the frame's records; and as long as no    *)
(* page was refused, a frame with a record has an entry.                   *)
LEMMA FromFile ==
  ASSUME Going, NEW q \in 1 .. Len(restored)
  PROVE  /\ restored[q].pfn = Records(replay)[q].pfn
         /\ \/ restored[q].data = Skipped
            \/ /\ compalg = 0
               /\ \E k \in 1 .. Len(Records(meta)) :
                    Records(meta)[k].pfn = Records(replay)[q].pfn /\ data[k] = restored[q].data
         /\ compalg = 0 /\ Len(slots) = 1 =>
              (restored[q].data = Skipped <=>
                 \A k \in 1 .. Len(Records(meta)) : Records(meta)[k].pfn # Records(replay)[q].pfn)
<1> DEFINE p == Records(replay)[q].pfn
           d == restored[q].data
           N == Len(Records(meta))
<1>3. /\ ReplayBegun /\ Halves
      /\ Prepared /\ Loaded /\ ops = Records(replay)
  <2>1. ReplayBegun
    BY DEF Going, Whereabouts
  <2>2. Prepared /\ Begun /\ ops = Records(replay)
    BY <2>1 DEF Going, Whereabouts, Begun
  <2> QED BY <2>1, <2>2 DEF Going, Prepared
<1>0. Stored /\ Replaying /\ (compalg = 0 => OneLostPerSeal)
  BY <1>3 DEF Halves
<1>1. /\ restored \in Seq(AnswerRecord) /\ Len(restored) = r - 1 /\ r \in 1 .. Len(ops) + 1
      /\ Len(ops) \in Nat
  BY <1>0, RecordFacts DEF Replaying, ReplayTypeOK
<1>2. q \in 1 .. Len(ops) /\ restored # <<>>
  BY <1>1
<1>4. Prepared /\ Loaded
  BY <1>3
<1>5. restored[q].pfn = p /\ p \in Pfn
  <2>1. restored[q] \in AnswerRecord
    BY <1>1
  <2>2. restored[q].pfn = ops[q].pfn
    BY <1>0 DEF Replaying, AnsweredRight
  <2> QED BY <1>3, <2>1, <2>2 DEF AnswerRecord
<1>6. Answers(p, d)
  BY <1>0, <1>5 DEF Replaying, AnsweredRight
<1>7. /\ N \in Nat /\ Len(dataPages) = N
      /\ \A k \in 1 .. N : /\ dataPages[k].pfn = Records(meta)[k].pfn /\ dataPages[k].data = data[k]
                           /\ dataPages[k] \in Page
  <2>1. /\ N \in Nat /\ Len(dataPages) = N
        /\ \A k \in 1 .. N : dataPages[k] = PageFrom(Records(meta)[k], data[k])
    BY <1>4, LoadedPages DEF Going, Loaded
  <2>2. dataPages \in Seq(Page)
    BY <1>0 DEF Stored, Base, StoreTypeOK
  <2>3. \A k \in 1 .. N : dataPages[k].pfn = Records(meta)[k].pfn /\ dataPages[k].data = data[k]
    <3> SUFFICES ASSUME NEW k \in 1 .. N
                 PROVE  dataPages[k].pfn = Records(meta)[k].pfn /\ dataPages[k].data = data[k]
      OBVIOUS
    <3>1. dataPages[k] = PageFrom(Records(meta)[k], data[k])
      <4> HIDE DEF N
      <4> QED BY <2>1
    <3> HIDE DEF N
    <3> QED BY ONLY <3>1 DEF PageFrom
  <2>4. \A k \in 1 .. N : dataPages[k] \in Page
    <3> HIDE DEF N
    <3> QED BY <2>1, <2>2
  <2> QED BY <2>1, <2>3, <2>4
<1>8. compalg \in {0, 1}
  BY DEF Going, Parsing
<1>9. d # Skipped =>
        /\ slot_tree[p] # 0 /\ compalg = 0
        /\ \E k \in 1 .. N : Records(meta)[k].pfn = p /\ data[k] = d
  <2> SUFFICES ASSUME d # Skipped
               PROVE  /\ slot_tree[p] # 0 /\ compalg = 0
                      /\ \E k \in 1 .. N : Records(meta)[k].pfn = p /\ data[k] = d
    OBVIOUS
  <2>1. slot_tree[p] # 0
    BY <1>6 DEF Answers
  <2>2. compalg = 0
    BY <1>4, <1>5, <1>8, <2>1 DEF Prepared
  <2>3. PICK n \in 1 .. Len(placed[slot_tree[p]]) :
          FirstOf(slot_tree[p], n, p) /\ d = PageAt(slot_tree[p], n).data
    BY <1>6, <2>1 DEF Answers
  <2>4. slot_tree[p] \in 1 .. current
    <3>1. StoreTypeOK /\ Base
      BY <1>0 DEF Stored, Base
    <3>2. slot_tree[p] \in 0 .. Len(slots)
      BY <1>5, <3>1 DEF StoreTypeOK
    <3>3. Len(slots) = current /\ current \in Nat
      BY <3>1, SlotFacts
    <3> HIDE DEF p
    <3> QED BY ONLY <2>1, <3>2, <3>3
  <2>5. PageAt(slot_tree[p], n).pfn = p
    <3> DEFINE s == slot_tree[p]
    <3>1. FirstOf(s, n, p) /\ s \in 1 .. current
      BY <2>3, <2>4
    <3> HIDE DEF s, p
    <3>2. n \in 1 .. Len(slots[s].metainfo) /\ slots[s].metainfo[n].pfn = p
      BY ONLY <3>1 DEF FirstOf, FrameAt
    <3>3. slots[s].metainfo[n] =
            [pfn |-> PageAt(s, n).pfn, uid |-> PageAt(s, n).uid,
             compressed_size |-> CompressedSize[PageAt(s, n).data]]
      BY ONLY <1>0, <3>1, <3>2, EntryFacts
    <3>4. PageAt(s, n).pfn = p
      BY ONLY <3>2, <3>3
    <3> QED BY ONLY <3>4 DEF s
  <2>6. placed[slot_tree[p]][n].page \in 1 .. N
    <3>1. placed[slot_tree[p]] \in Seq(PlacedEntry)
      BY <1>0, <2>4, SlotFacts DEF Stored
    <3>2. placed[slot_tree[p]][n] \in PlacedEntry
      BY <2>3, <3>1
    <3> QED BY <1>7, <3>2 DEF PlacedEntry
  <2> QED BY <1>7, <2>1, <2>2, <2>3, <2>5, <2>6 DEF PageAt, PageOf
<1>10. ASSUME compalg = 0, Len(slots) = 1, NEW k \in 1 .. N, Records(meta)[k].pfn = p
       PROVE  d # Skipped
  <2>1. /\ current = 1 /\ opened[1] = 1 /\ i = opened[1] + Len(placed[1])
        /\ \A m \in 1 .. Len(placed[1]) : placed[1][m].page = opened[1] + m - 1
    BY <1>0, <1>10 DEF OneLostPerSeal, current
  <2>2. Len(placed[1]) = N /\ Len(placed[1]) \in Nat
    <3>1. Len(placed[1]) \in Nat
      BY <1>0, <2>1, SlotFacts DEF Stored
    <3> QED BY <1>4, <1>7, <1>10, <2>1, <3>1 DEF Prepared
  <2>3. placed[1][k].page = k
    BY <1>10, <2>1, <2>2
  <2>4. PageAt(1, k) = dataPages[k] /\ dataPages[k].pfn = p /\ dataPages[k] \in Page
    BY <1>7, <1>10, <2>3 DEF PageAt, PageOf
  <2>5. Len(placed[1]) = Len(slots[1].metainfo)
    BY <1>0, <2>1 DEF Stored, Layout, SlotLayout, LaidOut
  <2>6. slots[1].metainfo[k].pfn = p
    <3>1. slots[1].metainfo[k] =
            [pfn |-> PageAt(1, k).pfn, uid |-> PageAt(1, k).uid,
             compressed_size |-> CompressedSize[PageAt(1, k).data]]
      BY <1>0, <1>10, <2>1, <2>2, <2>5, EntryFacts
    <3> QED BY <2>4, <3>1
  <2>7. Holds(1, p)
    BY <1>10, <2>2, <2>5, <2>6 DEF Holds, HasFrame
  <2>8. slot_tree[p] # 0
    BY <1>0, <1>5, <2>1, <2>7 DEF Stored, TreeLatest
  <2>9. PICK n \in 1 .. Len(placed[slot_tree[p]]) :
          FirstOf(slot_tree[p], n, p) /\ d = PageAt(slot_tree[p], n).data
    BY <1>6, <2>8 DEF Answers
  <2>10. slot_tree[p] \in 1 .. current
    BY SMTT(30), <1>0, <1>5, <2>8, SlotFacts DEF Stored, Base, StoreTypeOK
  <2>11. PageAt(slot_tree[p], n) \in Page
    BY <1>0, <2>9, <2>10, EntryFacts DEF FirstOf
  <2> QED BY <2>9, <2>11, AnswerAssumption DEF Page
<1> HIDE DEF p, d, N
<1>11. compalg = 0 /\ Len(slots) = 1 =>
         (d = Skipped <=> \A k \in 1 .. N : Records(meta)[k].pfn # p)
  BY <1>9, <1>10
<1> QED BY <1>5, <1>9, <1>11 DEF p, d, N

(* Whatever the inputs, a page that is restored for a frame is the block   *)
(* that stands in the data file at one of the frame's records, and only a  *)
(* frame without a record is skipped if no page was refused.               *)
THEOREM RestoredFromFileAlways == MainSpec => []RestoredFromFile
<1>1. Going => RestoredFromFile
  BY FromFile DEF RestoredFromFile
<1> QED BY <1>1, GoingAlways, PTL

-----------------------------------------------------------------------------
(* The options in force *)

LEMMA PlacesMore ==
  ASSUME NEW args, NEW letter, NEW k \in Nat
  PROVE  Places(args, letter, k + 1) =
           Places(args, letter, k) \cup (IF args[k + 1][1] = letter THEN {k + 1} ELSE {})
<1>1. 1 .. k + 1 = (1 .. k) \cup {k + 1}
  OBVIOUS
<1> QED BY <1>1 DEF Places

LEMMA LastMore ==
  ASSUME NEW args, NEW default, NEW k \in Nat, NEW S \in SUBSET (1 .. k)
  PROVE  LastOf(args, S \cup {k + 1}, default) = args[k + 1][2]
<1> DEFINE T == S \cup {k + 1}
           n == CHOOSE n \in T : \A other \in T : other <= n
<1>1. k + 1 \in T /\ \A other \in T : other <= k + 1 /\ other \in Nat
  OBVIOUS
<1>2. n \in T /\ \A other \in T : other <= n
  BY <1>1
<1>3. T # {} /\ LastOf(args, T, default) = args[n][2]
  BY <1>1 DEF LastOf
<1> HIDE DEF T, n
<1>4. n = k + 1
  BY <1>1, <1>2
<1> QED BY <1>3, <1>4 DEF T

(* InForce of any options and any settings.                                *)
Asked(args, k, default, alg, bd, files, size) ==
  LET sizes == Places(args, "s", k)
      last  == LastOf(args, sizes, 0)
  IN  /\ alg = LastOf(args, CodecPlaces(args, k), default)
      /\ bd = 1 <=> LastOf(args, Places(args, "c", k), default) = "bd0"
      /\ \A file \in {"f", "t", "r"} : files[file] = LastOf(args, Places(args, file, k), Null)
      /\ sizes = {} => size = DefaultSlotSize
      /\ sizes # {} /\ last * Kb \in IntRange =>
           size = last * Kb + (IF last < 0 THEN 2 ^ LongBits ELSE 0)

(* With one option more that one decides, and about nothing else.          *)
LEMMA AskedMore ==
  ASSUME NEW args, NEW k \in Nat, NEW default,
         NEW alg, NEW bd, NEW files, NEW size, Asked(args, k, default, alg, bd, files, size),
         NEW alg2, NEW bd2, NEW files2, NEW size2,
         \/ /\ args[k + 1][1] = "c"
            /\ alg2 = (IF args[k + 1][2] = "bd0" THEN alg ELSE args[k + 1][2])
            /\ bd2 = 1 <=> args[k + 1][2] = "bd0"
            /\ files2 = files /\ size2 = size
         \/ /\ args[k + 1][1] = "s"
            /\ args[k + 1][2] * Kb \in IntRange =>
                 size2 = args[k + 1][2] * Kb
                           + (IF args[k + 1][2] < 0 THEN 2 ^ LongBits ELSE 0)
            /\ alg2 = alg /\ bd2 = bd /\ files2 = files
         \/ /\ args[k + 1][1] \in {"f", "t", "r"}
            /\ \A file \in {"f", "t", "r"} :
                 files2[file] = IF file = args[k + 1][1] THEN args[k + 1][2] ELSE files[file]
            /\ alg2 = alg /\ bd2 = bd /\ size2 = size
  PROVE  Asked(args, k + 1, default, alg2, bd2, files2, size2)
<1> DEFINE o == args[k + 1]
<1>1. ASSUME NEW letter, o[1] # letter
      PROVE  Places(args, letter, k + 1) = Places(args, letter, k)
  <2>1. Places(args, letter, k + 1) =
          Places(args, letter, k) \cup (IF o[1] = letter THEN {k + 1} ELSE {})
    BY PlacesMore
  <2> HIDE DEF o
  <2> QED BY ONLY <1>1, <2>1
<1>2. ASSUME NEW letter, NEW d, o[1] = letter
      PROVE  LastOf(args, Places(args, letter, k + 1), d) = o[2]
             /\ Places(args, letter, k + 1) # {}
  <2>1. Places(args, letter, k + 1) = Places(args, letter, k) \cup {k + 1}
    BY <1>2, PlacesMore
  <2> DEFINE P == Places(args, letter, k)
  <2>2. P \in SUBSET (1 .. k)
    BY DEF Places
  <2> HIDE DEF P
  <2>3. LastOf(args, P \cup {k + 1}, d) = o[2]
    BY ONLY <2>2, k \in Nat, LastMore DEF o
  <2> QED BY <2>1, <2>3 DEF P
<1>3. CodecPlaces(args, k + 1) =
        CodecPlaces(args, k) \cup (IF o[1] = "c" /\ o[2] # "bd0" THEN {k + 1} ELSE {})
  <2>1. Places(args, "c", k + 1) =
          Places(args, "c", k) \cup (IF o[1] = "c" THEN {k + 1} ELSE {})
    BY PlacesMore
  <2> QED BY <2>1 DEF CodecPlaces
<1>4. CodecPlaces(args, k) \in SUBSET (1 .. k)
  BY DEF CodecPlaces, Places
<1>5. o[1] # "c" => CodecPlaces(args, k + 1) = CodecPlaces(args, k)
  BY <1>3
<1>6. o[1] = "c" => LastOf(args, CodecPlaces(args, k + 1), default) =
                      IF o[2] = "bd0" THEN LastOf(args, CodecPlaces(args, k), default) ELSE o[2]
  <2> DEFINE C == CodecPlaces(args, k)
  <2>1. LastOf(args, C \cup {k + 1}, default) = args[k + 1][2]
    BY ONLY k \in Nat, <1>4, LastMore
  <2>2. CASE o[1] = "c" /\ o[2] # "bd0"
    BY <1>3, <2>1, <2>2
  <2>3. CASE o[1] = "c" /\ o[2] = "bd0"
    <3>1. CodecPlaces(args, k + 1) = C
      BY <1>3, <2>3
    <3> QED BY <2>3, <3>1
  <2> QED BY <2>2, <2>3
<1> HIDE DEF o
<1>7. CASE o[1] = "c"
  <2>1. Places(args, "s", k + 1) = Places(args, "s", k)
        /\ \A file \in {"f", "t", "r"} : Places(args, file, k + 1) = Places(args, file, k)
    BY <1>1, <1>7
  <2> QED BY <1>2, <1>6, <1>7, <2>1 DEF Asked, o
<1>8. CASE o[1] = "s"
  <2>1. Places(args, "c", k + 1) = Places(args, "c", k)
        /\ \A file \in {"f", "t", "r"} : Places(args, file, k + 1) = Places(args, file, k)
    BY <1>1, <1>8
  <2>2. LastOf(args, Places(args, "s", k + 1), 0) = o[2] /\ Places(args, "s", k + 1) # {}
    BY <1>2, <1>8
  <2>3. o[2] * Kb \in IntRange => size2 = o[2] * Kb + (IF o[2] < 0 THEN 2 ^ LongBits ELSE 0)
    BY <1>8 DEF o
  <2>4. alg2 = alg /\ bd2 = bd /\ files2 = files
    BY <1>8 DEF o
  <2> QED BY <1>5, <1>8, <2>1, <2>2, <2>3, <2>4 DEF Asked
<1>9. CASE o[1] \in {"f", "t", "r"}
  <2>1. Places(args, "s", k + 1) = Places(args, "s", k)
        /\ Places(args, "c", k + 1) = Places(args, "c", k)
    BY <1>1, <1>9
  <2>2. ASSUME NEW file \in {"f", "t", "r"}
        PROVE  files2[file] = LastOf(args, Places(args, file, k + 1), Null)
    <3>1. files2[file] = IF file = o[1] THEN o[2] ELSE files[file]
      BY <1>9 DEF o
    <3>2. files[file] = LastOf(args, Places(args, file, k), Null)
      BY DEF Asked
    <3> QED BY <1>1, <1>2, <3>1, <3>2
  <2>3. alg2 = alg /\ bd2 = bd /\ size2 = size
    BY <1>9 DEF o
  <2> QED BY <1>5, <1>9, <2>1, <2>2, <2>3 DEF Asked
<1> QED BY <1>7, <1>8, <1>9 DEF o

(* The default codec is for a command line that names none.                *)
LEMMA AskedDefault ==
  ASSUME NEW args, NEW k \in Nat, NEW alg, NEW bd, NEW files, NEW size,
         Asked(args, k, Null, alg, bd, files, size),
         \A n \in 1 .. k : args[n][1] = "c" => args[n][2] \in {"lzo", "lz4", "bd0"}
  PROVE  Asked(args, k, "lzo", IF alg = Null THEN "lzo" ELSE alg, bd, files, size)
<1>1. ASSUME NEW S \in SUBSET (1 .. k), S # {}
      PROVE  \E n \in S : \A d : LastOf(args, S, d) = args[n][2]
  <2> DEFINE T == {k - m : m \in S}
  <2>1. T \subseteq Nat /\ T # {}
    <3>1. \A m \in S : m \in 1 .. k /\ k - m \in Nat
      OBVIOUS
    <3>2. PICK m \in S : TRUE
      BY <1>1
    <3> QED BY <3>1, <3>2
  <2>2. PICK t \in T : \A y \in T : ~ (<<y, t>> \in OpToRel(<, Nat))
    BY <2>1, NatLessThanWellFounded, WFMin
  <2>3. PICK n \in S : t = k - n
    BY <2>2
  <2>4. \A other \in S : other <= n
    <3> SUFFICES ASSUME NEW other \in S PROVE other <= n
      OBVIOUS
    <3>1. k - other \in T /\ ~ (k - other < k - n)
      BY <2>1, <2>2, <2>3 DEF OpToRel
    <3> QED BY <3>1
  <2> DEFINE m == CHOOSE m \in S : \A other \in S : other <= m
  <2>5. m \in S
    BY <2>4
  <2>6. \A d : LastOf(args, S, d) = args[m][2]
    BY <1>1 DEF LastOf
  <2> HIDE DEF m
  <2> QED BY <2>5, <2>6
<1>2. \A d : LastOf(args, {}, d) = d
  BY DEF LastOf
<1>3. CodecPlaces(args, k) \in SUBSET (1 .. k) /\ Places(args, "c", k) \in SUBSET (1 .. k)
  BY DEF CodecPlaces, Places
<1>4. LastOf(args, CodecPlaces(args, k), "lzo") = IF alg = Null THEN "lzo" ELSE alg
  <2>0. alg = LastOf(args, CodecPlaces(args, k), Null)
    BY DEF Asked
  <2>1. CASE CodecPlaces(args, k) = {}
    BY <1>2, <2>0, <2>1
  <2>2. CASE CodecPlaces(args, k) # {}
    <3>1. PICK n \in CodecPlaces(args, k) : \A d : LastOf(args, CodecPlaces(args, k), d) = args[n][2]
      BY <1>1, <1>3, <2>2
    <3>2. args[n][2] \in {"lzo", "lz4"}
      BY <1>3, <3>1 DEF CodecPlaces, Places
    <3> QED BY <2>0, <3>1, <3>2, CodecNames
  <2> QED BY <2>1, <2>2
<1>5. LastOf(args, Places(args, "c", k), "lzo") = "bd0"
        <=> LastOf(args, Places(args, "c", k), Null) = "bd0"
  <2>1. CASE Places(args, "c", k) = {}
    BY <1>2, <2>1, CodecNames
  <2>2. CASE Places(args, "c", k) # {}
    BY <1>1, <1>3, <2>2
  <2> QED BY <2>1, <2>2
<1> QED BY <1>4, <1>5 DEF Asked

FileOptions == {"f", "t", "r"}

(* What parse_args has read so far is in force, up to the default codec.   *)
Deciding ==
  /\ argv \in ArgVectors
  /\ filename = [file \in FileOptions |-> filename[file]]
  /\ ArgsTypeOK
  /\ argpc = "parse"  => Asked(argv, optind - 1, Null, compr_alg, compalg, filename, slot_size)
  /\ argpc = "parsed" => Asked(argv, Len(argv), "lzo", compr_alg, compalg, filename, slot_size)

LEMMA DecidingInit == ArgsInit => Deciding
<1> SUFFICES ASSUME ArgsInit PROVE Deciding
  OBVIOUS
<1>1. argv \in ArgVectors /\ Len(argv) \in Nat
  BY ArgAssumption DEF ArgsInit
<1>2. filename = [file \in FileOptions |-> filename[file]]
      /\ \A file \in FileOptions : filename[file] = Null
  BY DEF ArgsInit, FileOptions
<1>3. ArgsTypeOK
  BY <1>1, <1>2, WidthAssumption DEF ArgsInit, ArgsTypeOK, FileOptions
<1>4. Asked(argv, optind - 1, Null, compr_alg, compalg, filename, slot_size)
  <2>1. optind - 1 = 0
    BY DEF ArgsInit
  <2>2. /\ \A letter : Places(argv, letter, 0) = {}
        /\ CodecPlaces(argv, 0) = {}
        /\ \A d : LastOf(argv, {}, d) = d
    BY DEF Places, CodecPlaces, LastOf
  <2>3. compr_alg = Null /\ compalg = 0 /\ slot_size = DefaultSlotSize
    BY DEF ArgsInit
  <2>4. Null # "bd0" /\ ~ (0 = 1)
    BY CodecNames
  <2>5. \A file \in {"f", "t", "r"} : filename[file] = LastOf(argv, Places(argv, file, 0), Null)
    BY <1>2, <2>2 DEF FileOptions
  <2>6. LastOf(argv, Places(argv, "c", 0), Null) = Null /\ Places(argv, "s", 0) = {}
        /\ LastOf(argv, CodecPlaces(argv, 0), Null) = Null
    BY <2>2
  <2> QED BY <2>1, <2>3, <2>4, <2>5, <2>6 DEF Asked
<1>5. argpc = "parse"
  BY DEF ArgsInit
<1> QED BY <1>1, <1>2, <1>3, <1>4, <1>5 DEF Deciding

(* One option that the program takes. *)
LEMMA OptionStep ==
  ASSUME Deciding, Parsing, argpc = "parse", optind <= Len(argv), optind' = optind + 1,
         UNCHANGED <<argv, argpc, program>>,
         \/ ParseCodec \/ ParseBaseDelta \/ ParseSlotSize \/ ParseFilename
  PROVE  Deciding'
<1> DEFINE k == optind - 1
           o == argv[optind]
<1>1. /\ k \in Nat /\ k + 1 = optind /\ optind' - 1 = k + 1 /\ optind \in 1 .. Len(argv)
      /\ Len(argv) \in Nat
  BY DEF Parsing
<1>2. o = <<o[1], o[2]>> /\ (o[1] = "s" => o[2] \in IntRange)
  BY <1>1, ArgAssumption DEF Deciding
<1>3. Asked(argv, k, Null, compr_alg, compalg, filename, slot_size)
  BY DEF Deciding
<1>4. compalg \in {0, 1} /\ (compalg = 1 => program = "delta")
  BY DEF Parsing
<1>5. Kb \in Nat
  BY WidthAssumption
<1>6. \/ /\ o[1] = "c" /\ o[2] \in {"lzo", "lz4", "bd0"}
         /\ compr_alg' = (IF o[2] = "bd0" THEN compr_alg ELSE o[2])
         /\ compalg' = (IF o[2] = "bd0" THEN 1 ELSE 0)
         /\ compalg' = 1 => program = "delta"
         /\ UNCHANGED <<filename, slot_size>>
      \/ /\ o[1] = "s" /\ slot_size' = ToUnsignedLong(ToInt(o[2] * Kb))
         /\ UNCHANGED <<compr_alg, compalg, filename>>
      \/ /\ o[1] \in FileOptions /\ filename' = [filename EXCEPT ![o[1]] = o[2]]
         /\ UNCHANGED <<compr_alg, compalg, slot_size>>
  <2>1. CASE ParseCodec
    BY <1>4, <2>1 DEF ParseCodec, Gets, Option, optarg, NewCodec, CodecChosen
  <2>2. CASE ParseBaseDelta
    BY <1>4, <2>2 DEF ParseBaseDelta, Gets, Option, optarg
  <2>3. CASE ParseSlotSize
    BY <2>3 DEF ParseSlotSize, Gets, Option, optarg
  <2>4. CASE ParseFilename
    BY <2>4 DEF ParseFilename, Gets, Option, optarg, Named, FileOptions
  <2> QED BY <2>1, <2>2, <2>3, <2>4
<1>7. /\ filename = [file \in FileOptions |-> filename[file]]
      /\ ArgsTypeOK /\ argv \in ArgVectors
  BY DEF Deciding
<1> HIDE DEF k, o
<1>8. Asked(argv, k + 1, Null, compr_alg', compalg', filename', slot_size')
  <2>1. o = argv[k + 1]
    BY <1>1 DEF o
  <2>2. CASE o[1] = "c"
    <3>1. /\ compr_alg' = (IF o[2] = "bd0" THEN compr_alg ELSE o[2])
          /\ compalg' = 1 <=> o[2] = "bd0"
          /\ filename' = filename /\ slot_size' = slot_size
      BY <1>6, <2>2 DEF FileOptions
    <3> QED BY <1>1, <1>3, <2>1, <2>2, <3>1, AskedMore
  <2>3. CASE o[1] = "s"
    <3>1. /\ compr_alg' = compr_alg /\ compalg' = compalg /\ filename' = filename
          /\ slot_size' = ToUnsignedLong(ToInt(o[2] * Kb)) /\ o[2] \in Int
      BY <1>2, <1>6, <2>3 DEF FileOptions, IntRange
    <3>2. o[2] * Kb \in Int
      BY <1>5, <3>1
    <3>3. o[2] * Kb \in IntRange =>
            slot_size' = o[2] * Kb + (IF o[2] * Kb < 0 THEN 2 ^ LongBits ELSE 0)
      BY <3>1, <3>2, SizeSurvives
    <3>4. o[2] * Kb < 0 <=> o[2] < 0
      <4>1. Kb > 0
        BY WidthAssumption
      <4>2. o[2] < 0 => o[2] * Kb < 0
        BY <1>5, <3>1, <4>1
      <4>3. o[2] >= 0 => o[2] * Kb >= 0
        BY <1>5, <3>1, <4>1
      <4> QED BY <3>1, <3>2, <4>2, <4>3
    <3>5. o[2] * Kb \in IntRange =>
            slot_size' = o[2] * Kb + (IF o[2] < 0 THEN 2 ^ LongBits ELSE 0)
      BY <3>3, <3>4
    <3> QED BY <1>1, <1>3, <2>1, <2>3, <3>1, <3>5, AskedMore
  <2>4. CASE o[1] \in FileOptions
    <3>1. /\ compr_alg' = compr_alg /\ compalg' = compalg /\ slot_size' = slot_size
          /\ filename' = [filename EXCEPT ![o[1]] = o[2]]
      BY <1>6, <2>4 DEF FileOptions
    <3>2. \A file \in FileOptions : filename'[file] = IF file = o[1] THEN o[2] ELSE filename[file]
      BY <1>7, <3>1
    <3>3. /\ argv[k + 1][1] \in {"f", "t", "r"}
          /\ \A file \in {"f", "t", "r"} :
               filename'[file] = IF file = argv[k + 1][1] THEN argv[k + 1][2] ELSE filename[file]
      BY <2>1, <2>4, <3>2 DEF FileOptions
    <3>4. compr_alg' = compr_alg /\ compalg' = compalg /\ slot_size' = slot_size /\ k \in Nat
      BY <1>1, <3>1
    <3> QED BY ONLY <1>3, <3>3, <3>4, AskedMore
  <2> QED BY <1>6, <2>2, <2>3, <2>4
<1>9. filename' = [file \in FileOptions |-> filename'[file]]
      /\ \A file \in FileOptions :
           filename'[file] = filename[file] \/ <<file, filename'[file]>> = o
  <2>1. CASE o[1] \in FileOptions
    <3>1. filename' = [filename EXCEPT ![o[1]] = o[2]]
      BY <1>6, <2>1 DEF FileOptions
    <3> QED BY <1>2, <1>7, <3>1
  <2>2. CASE filename' = filename
    BY <1>7, <2>2
  <2> QED BY <1>6, <2>1, <2>2
<1>10. ArgsTypeOK'
  <2>1. compr_alg' \in {"lzo", "lz4", Null}
    BY <1>6, <1>7 DEF ArgsTypeOK
  <2>2. compalg' \in {0, 1} /\ (compalg' = 1 => program = "delta")
    BY <1>4, <1>6
  <2>3. slot_size' \in SizeRange
    <3>1. CASE slot_size' = slot_size
      BY <1>7, <3>1 DEF ArgsTypeOK, SizeRange
    <3>2. CASE o[1] = "s" /\ slot_size' = ToUnsignedLong(ToInt(o[2] * Kb))
      <4>1. o[2] * Kb \in Int
        BY <1>2, <1>5, <3>2 DEF IntRange
      <4> QED BY <3>2, <4>1, SizeSurvives
    <3> QED BY <1>6, <3>1, <3>2
  <2>4. \A file \in FileOptions :
          filename'[file] = Null \/ \E n \in 1 .. Len(argv) : argv[n] = <<file, filename'[file]>>
    <3> SUFFICES ASSUME NEW file \in FileOptions, filename'[file] # Null
                 PROVE  \E n \in 1 .. Len(argv) : argv[n] = <<file, filename'[file]>>
      OBVIOUS
    <3>1. CASE filename'[file] = filename[file]
      BY <1>7, <3>1 DEF ArgsTypeOK, FileOptions
    <3>2. CASE <<file, filename'[file]>> = o
      BY <1>1, <3>2 DEF o
    <3> QED BY <1>9, <3>1, <3>2
  <2>5. optind' \in 1 .. Len(argv) + 1
    BY <1>1
  <2> QED BY <2>1, <2>2, <2>3, <2>4, <2>5 DEF ArgsTypeOK, FileOptions, SizeRange
<1> QED BY <1>1, <1>7, <1>8, <1>9, <1>10 DEF Deciding

LEMMA DecidingStep == Deciding /\ Parsing /\ [ArgsNext]_argVars => Deciding'
<1> SUFFICES ASSUME Deciding, Parsing, [ArgsNext]_argVars PROVE Deciding'
  OBVIOUS
<1>0. /\ Len(argv) \in Nat /\ optind \in 1 .. Len(argv) + 1
      /\ argv \in ArgVectors /\ filename = [file \in FileOptions |-> filename[file]]
      /\ ArgsTypeOK
  BY DEF Parsing, Deciding
<1>1. CASE ParseCodec \/ ParseBaseDelta \/ ParseSlotSize \/ ParseFilename
  <2>1. /\ argpc = "parse" /\ optind <= Len(argv) /\ optind' = optind + 1
        /\ argv' = argv /\ argpc' = argpc /\ program' = program
    BY <1>1 DEF ParseCodec, ParseBaseDelta, ParseSlotSize, ParseFilename, Gets
  <2> QED BY <1>1, <2>1, OptionStep
<1>2. CASE ParseUnknownCodec \/ ParseUnknown
  <2>1. /\ optind <= Len(argv) /\ optind' = optind + 1 /\ argpc' = "usage"
        /\ UNCHANGED <<program, argv, compr_alg, compalg, slot_size, filename>>
    BY <1>2 DEF ParseUnknownCodec, ParseUnknown, Gets
  <2>2. optind' \in 1 .. Len(argv) + 1
    BY <1>0, <2>1
  <2>3. ArgsTypeOK'
    BY <1>0, <2>1, <2>2 DEF ArgsTypeOK
  <2> QED BY <1>0, <2>1, <2>3 DEF Deciding
<1>3. CASE ParseDone
  <2>1. /\ argpc = "parse" /\ argpc' = "parsed" /\ optind - 1 = Len(argv)
        /\ compr_alg' = (IF compr_alg = Null THEN "lzo" ELSE compr_alg)
        /\ UNCHANGED <<program, argv, optind, compalg, slot_size, filename>>
    BY <1>0, <1>3 DEF ParseDone
  <2>2. \A n \in 1 .. Len(argv) : argv[n][1] = "c" => argv[n][2] \in {"lzo", "lz4", "bd0"}
    BY <2>1 DEF Parsing, Taken, Codecs
  <2>3. Asked(argv, Len(argv), Null, compr_alg, compalg, filename, slot_size)
    BY <2>1 DEF Deciding
  <2>4. Asked(argv, Len(argv), "lzo", compr_alg', compalg, filename, slot_size)
    BY <1>0, <2>1, <2>2, <2>3, AskedDefault
  <2>5. ArgsTypeOK'
    BY <1>0, <2>1, CodecNames DEF ArgsTypeOK
  <2> QED BY <1>0, <2>1, <2>4, <2>5 DEF Deciding
<1>4. CASE UNCHANGED argVars
  BY <1>4 DEF argVars, Deciding, ArgsTypeOK
<1> QED BY <1>1, <1>2, <1>3, <1>4 DEF ArgsNext

(* Of all options, in any order and number, the last of a kind decides,    *)
(* and the last that names a codec which one; a size that is a valid int   *)
(* gets through the conversions; and the settings are well typed.          *)
THEOREM LastDecidesAlways == MainSpec => []LastDecides
<1>1. MainInit => Deciding
  BY DecidingInit DEF MainInit
<1>2. [MainNext]_progVars => [ArgsNext]_argVars
  BY DEF MainNext, progVars, ParseArgs, LoadTraceFails, LoadTrace, BaseDelta,
         BaseDeltaOfNothing, InsertCrashes, Store, StartReplay, Replay
<1>3. Going => Parsing
  BY DEF Going
<1>4. Deciding => LastDecides
  BY DEF Deciding, LastDecides, InForce, Asked
<1> QED BY <1>1, <1>2, <1>3, <1>4, GoingAlways, DecidingStep, PTL DEF MainSpec
=============================================================================

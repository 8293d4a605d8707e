-------------------------- MODULE TraceReaderProofs --------------------------
(***************************************************************************)
(* Proofs, for all trace files and any number of calls, that what a reader *)
(* loads is what the operators of TraceFiles say, and that nothing it      *)
(* allocates or reads is lost.                                             *)
(*                                                                         *)
(* LoadExact speaks of the reader between calls and does not say where in  *)
(* the files it is.  The invariant does: InStep(start) says that no record *)
(* can be read at the first start tokens, that loaded has the records from *)
(* there on, and that both files are read up to the same record.  It holds *)
(* because a call of fscanf that finds no record never reads past a place  *)
(* where one can be read (AtToken).  One behaviour of the code escapes it, *)
(* a swap-out reader whose data file is empty: every call takes one more   *)
(* record off the .meta file and loads nothing, so that nothing is known   *)
(* any more of where it is.                                                *)
(***************************************************************************)
EXTENDS TraceReader, TraceFilesProofs

Record  == [uid : Int, pfn : Int]
Loading == pc \in {"scan", "read", "push"}

(* Records loaded, or parsed and about to be. *)
Taken == Len(loaded) + (IF pc \in {"read", "push"} THEN 1 ELSE 0)

(* What is left of the .meta file behind p tokens. *)
Left(p) == Behind(meta, p)

(* There are n records behind the first start tokens.                      *)
Reached(start, n) ==
  /\ start + 3 * n <= Len(meta)
  /\ \A k \in 1 .. n : IsRecord(meta, start + Place(k))

(* Behind them there is no other record.                                   *)
Stops(start, n) == ~ IsRecord(meta, start + 3 * n + 1)

(* The first start tokens were read and did not begin a record.            *)
Skipped(start) ==
  /\ \A p \in 1 .. start : ~ IsRecord(meta, p)
  /\ calls = 0 \/ (calls = 1 /\ (Loading \/ loaded # <<>>)) => start = 0

(* A loaded page or record is that of its record and block. *)
Paired(start) ==
  \A k \in 1 .. Len(loaded) :
    loaded[k] = IF reader = "swapin" THEN RecordAt(meta, start + Place(k))
                  ELSE PageFrom(RecordAt(meta, start + Place(k)), data[k])

(* A load that got as far as reading has come to one of two ends.          *)
Ended(start) ==
  \/ Stops(start, Len(loaded)) /\ (calls = 1 => status = 0)
  \/ /\ reader = "swapout" /\ Len(loaded) = Len(data)
     /\ Reached(start, Len(loaded) + 1)
     /\ calls = 1 => status = -1

InStep(start) ==
  /\ Skipped(start)
  /\ Reached(start, Taken)
  /\ Paired(start)
  /\ Loading \/ loaded = <<>> => tokens = Left(start + 3 * Taken)
  /\ pc \in {"read", "push"} => record = RecordAt(meta, start + Place(Taken))
  /\ pc = "push" /\ reader = "swapout" => buffer = data[Taken]
  /\ pc = "idle" /\ loaded # <<>> => Ended(start)
  /\ pc = "idle" /\ loaded = <<>> /\ calls = 1 /\ status = 0 => Stops(0, 0)

(* A swap-out reader with an empty data file, once a call has failed.      *)
Astray ==
  /\ reader = "swapout" /\ data = <<>> /\ loaded = <<>> /\ calls > 0
  /\ pc \in {"idle", "scan", "read"}
  /\ pc = "idle" /\ calls = 1 => status = -1
  /\ pc # "idle" => calls > 1

(* The account of what is allocated and read, and types.                   *)
Account ==
  /\ meta \in Seq(Token(Int)) /\ data \in Seq(Block) /\ tokens \in Seq(Token(Int))
  /\ reader = "swapin" => data = <<>>
  /\ ReaderTypeOK
  /\ pc # "destroyed" /\ reader = "swapout" =>
       /\ blocks = SubSeq(data, Taken + (IF pc = "read" THEN 0 ELSE 1), Len(data))
       /\ Taken <= Len(data) + (IF pc = "read" THEN 1 ELSE 0)
  /\ pc # "exit" => live = Len(loaded)
  /\ pc \in {"unopened", "idle", "destroyed"} => buffer = NoBuffer
  /\ pc \in {"unopened", "exit"} => calls = 0
  /\ calls = 0 \/ pc = "destroyed" => loaded = <<>>
  /\ Loading => calls > 0
  /\ pc \in {"read", "push"} => record \in Record
  /\ pc = "read" => reader = "swapout"
  /\ pc = "push" /\ reader = "swapout" => buffer \in Block

Progress == pc \in {"destroyed", "exit"} \/ Astray \/ \E start \in 0 .. Len(meta) : InStep(start)

Following == Account /\ Progress

-----------------------------------------------------------------------------
(* Tokens *)

(* The tokens left behind p of them. *)
LEMMA LeftFacts ==
  ASSUME meta \in Seq(Token(Int)), NEW p \in 0 .. Len(meta)
  PROVE  /\ Left(p) \in Seq(Token(Int)) /\ Len(Left(p)) = Len(meta) - p
         /\ \A k \in 1 .. Len(meta) - p : Left(p)[k] = meta[p + k]
         /\ \A k \in Nat \ {0} : Kind(Left(p), k) = Kind(meta, p + k)
         /\ \A n \in 0 .. Len(meta) - p : Behind(Left(p), n) = Left(p + n)
<1>0. Len(meta) \in Nat
  OBVIOUS
<1>1. /\ Left(p) \in Seq(Token(Int)) /\ Len(Left(p)) = Len(meta) - p
      /\ \A k \in 1 .. Len(meta) - p : Left(p)[k] = meta[p + k]
  <2>1. \A k \in p + 1 .. Len(meta) : meta[k] \in Token(Int)
    BY <1>0, ElementOfSeq
  <2> HIDE DEF Token
  <2> QED BY <1>0, <2>1, SubSeqProperties DEF Left, Behind
<1>2. ASSUME NEW k \in Nat \ {0} PROVE Kind(Left(p), k) = Kind(meta, p + k)
  <2>1. CASE k <= Len(meta) - p
    BY <1>0, <1>1, <2>1 DEF Kind
  <2>2. CASE ~ (k <= Len(meta) - p)
    BY <1>0, <1>1, <2>2 DEF Kind
  <2> QED BY <2>1, <2>2
<1>3. ASSUME NEW n \in 0 .. Len(meta) - p PROVE Behind(Left(p), n) = Left(p + n)
  <2> DEFINE len == Len(meta) - p
  <2>1. /\ len \in Nat /\ Len(Left(p)) = len /\ p + n \in 0 .. Len(meta) /\ n \in 0 .. len
        /\ Len(meta) - (p + n) = len - n
    BY <1>0, <1>1
  <2>2. Behind(Left(p), n) = [k \in 1 .. len - n |-> Left(p)[n + k]]
    BY <2>1 DEF Behind
  <2>3. Left(p + n) = [k \in 1 .. len - n |-> meta[p + n + k]]
    <3> DEFINE q == p + n
    <3>1. q \in 0 .. Len(meta) /\ len - n = Len(meta) - q
      BY <2>1
    <3> HIDE DEF q, len
    <3>2. Left(q) = [k \in 1 .. Len(meta) - q |-> meta[q + k]]
      BY <1>0, <3>1 DEF Left, Behind
    <3> QED BY <3>1, <3>2 DEF q
  <2>4. \A k \in 1 .. len - n : Left(p)[n + k] = meta[p + n + k]
    <3> SUFFICES ASSUME NEW k \in 1 .. len - n PROVE Left(p)[n + k] = meta[p + n + k]
      OBVIOUS
    <3>1. n + k \in 1 .. len /\ p + (n + k) = p + n + k
      BY <2>1
    <3> QED BY <1>1, <3>1
  <2> QED BY <2>2, <2>3, <2>4
<1> QED BY <1>1, <1>2, <1>3

(* fscanf behind p tokens: it takes exactly one record, or stops, having   *)
(* passed no place where a record can be read.                             *)
LEMMA AtToken ==
  ASSUME meta \in Seq(Token(Int)), NEW p \in 0 .. Len(meta)
  PROVE  /\ Fscanf(Left(p)).assigned = 2 =>
              /\ p + 3 <= Len(meta) /\ IsRecord(meta, p + 1)
              /\ RecordAt(Left(p), 1) = RecordAt(meta, p + 1)
              /\ RecordAt(Left(p), 1) \in Record
              /\ Fscanf(Left(p)).rest = Left(p + 3)
         /\ Fscanf(Left(p)).assigned # 2 =>
              /\ ~ IsRecord(meta, p + 1)
              /\ \E q \in p .. Len(meta) :
                   /\ Fscanf(Left(p)).rest = Left(q)
                   /\ \A t \in p + 1 .. q : ~ IsRecord(meta, t)
<1> DEFINE T == Left(p)
           F == Fscanf(T)
<1>0. Len(meta) \in Nat
  OBVIOUS
<1>1. /\ \A k \in Nat \ {0} : Kind(T, k) = Kind(meta, p + k)
      /\ \A n \in 0 .. Len(meta) - p : Behind(T, n) = Left(p + n)
      /\ \A k \in 1 .. Len(meta) - p : T[k] = meta[p + k]
  BY LeftFacts
<1>2. Kind(T, 1) = Kind(meta, p + 1) /\ Kind(T, 2) = Kind(meta, p + 2) /\ Kind(T, 3) = Kind(meta, p + 3)
  BY <1>1
<1>3. \A k \in Nat : Kind(meta, k) \in {"number", "comma", "sign", "text"} => k <= Len(meta)
  BY DEF Kind
<1>4. /\ IsRecord(meta, p + 1) <=> /\ Kind(T, 1) = "number" /\ Kind(T, 2) = "comma"
                                   /\ Kind(T, 3) = "number"
      /\ IsRecord(meta, p + 2) => Kind(T, 2) = "number"
      /\ IsRecord(meta, p + 3) => Kind(T, 3) = "number"
  <2>1. p + 1 + 1 = p + 2 /\ p + 1 + 2 = p + 3
    OBVIOUS
  <2> QED BY <1>2, <2>1 DEF IsRecord
<1>5. CASE Kind(T, 1) # "number"
  <2>1. F.assigned = 0 /\ F.rest = Behind(T, ReadByFailure(T, 1))
    BY <1>5 DEF Fscanf
  <2>2. CASE Kind(T, 1) = "sign"
    <3>1. F.rest = Behind(T, 1) /\ p + 1 \in p .. Len(meta) /\ 1 \in 0 .. Len(meta) - p
      BY <1>0, <1>2, <1>3, <2>1, <2>2 DEF ReadByFailure
    <3>2. F.rest = Left(p + 1)
      BY <1>1, <3>1
    <3>3. \A t \in p + 1 .. p + 1 : ~ IsRecord(meta, t)
      BY <1>4, <1>5
    <3> QED BY <1>4, <1>5, <2>1, <3>1, <3>2, <3>3
  <2>3. CASE Kind(T, 1) # "sign"
    <3>1. F.rest = Behind(T, 0) /\ p + 0 = p /\ 0 \in 0 .. Len(meta) - p
      BY <1>0, <2>1, <2>3 DEF ReadByFailure
    <3>2. F.rest = Left(p) /\ p \in p .. Len(meta)
      BY <1>0, <1>1, <3>1
    <3>3. \A t \in p + 1 .. p : ~ IsRecord(meta, t)
      OBVIOUS
    <3> QED BY <1>4, <1>5, <2>1, <3>2, <3>3
  <2> QED BY <2>2, <2>3
<1>6. CASE Kind(T, 1) = "number" /\ Kind(T, 2) # "comma"
  <2>1. F.assigned = 1 /\ F.rest = Behind(T, 1)
    BY <1>6 DEF Fscanf
  <2>2. p + 1 \in p .. Len(meta) /\ 1 \in 0 .. Len(meta) - p
    BY <1>0, <1>2, <1>3, <1>6
  <2>3. \A t \in p + 1 .. p + 1 : ~ IsRecord(meta, t)
    BY <1>4, <1>6
  <2> QED BY <1>1, <1>4, <1>6, <2>1, <2>2, <2>3
<1>7. CASE Kind(T, 1) = "number" /\ Kind(T, 2) = "comma" /\ Kind(T, 3) # "number"
  <2>1. F.assigned = 1 /\ F.rest = Behind(T, ReadByFailure(T, 3))
    BY <1>7 DEF Fscanf
  <2>2. p + 2 <= Len(meta)
    BY <1>2, <1>3, <1>7
  <2>3. ASSUME NEW n \in {2, 3}, F.rest = Behind(T, n), p + n <= Len(meta)
        PROVE  \E q \in p .. Len(meta) : /\ F.rest = Left(q)
                                         /\ \A t \in p + 1 .. q : ~ IsRecord(meta, t)
    <3>1. n \in Nat /\ n <= 3
      OBVIOUS
    <3>2. p + n \in p .. Len(meta) /\ n \in 0 .. Len(meta) - p
      BY <1>0, <2>3, <3>1
    <3>3. F.rest = Left(p + n)
      BY <1>1, <2>3, <3>2
    <3>4. \A t \in p + 1 .. p + n : t = p + 1 \/ t = p + 2 \/ t = p + 3
      BY <3>1
    <3>5. \A t \in p + 1 .. p + n : ~ IsRecord(meta, t)
      BY <1>4, <1>7, <3>4
    <3> QED BY <3>2, <3>3, <3>5
  <2>4. CASE Kind(T, 3) = "sign"
    <3>1. F.rest = Behind(T, 3) /\ p + 3 <= Len(meta)
      BY <1>2, <1>3, <2>1, <2>4 DEF ReadByFailure
    <3> QED BY <1>4, <1>7, <2>1, <2>3, <3>1
  <2>5. CASE Kind(T, 3) # "sign"
    <3>1. F.rest = Behind(T, 2)
      BY <2>1, <2>5 DEF ReadByFailure
    <3> QED BY <1>4, <1>7, <2>1, <2>2, <2>3, <3>1
  <2> QED BY <2>4, <2>5
<1>8. CASE Kind(T, 1) = "number" /\ Kind(T, 2) = "comma" /\ Kind(T, 3) = "number"
  <2>1. F.assigned = 2 /\ F.rest = Behind(T, 3)
    BY <1>8 DEF Fscanf
  <2>2. IsRecord(meta, p + 1) /\ p + 3 <= Len(meta)
    BY <1>2, <1>3, <1>4, <1>8
  <2>3. F.rest = Left(p + 3)
    BY <1>0, <1>1, <2>1, <2>2
  <2>4. T[1] = meta[p + 1] /\ T[3] = meta[p + 3] /\ p + 1 + 2 = p + 3 /\ 1 + 2 = 3
    BY <1>0, <1>1, <2>2
  <2>5. RecordAt(T, 1) = RecordAt(meta, p + 1)
    BY <2>4 DEF RecordAt
  <2>6. RecordAt(meta, p + 1) \in Record
    BY <2>2, RecordTokens DEF Record
  <2> QED BY <2>1, <2>2, <2>3, <2>5, <2>6
<1> QED BY <1>5, <1>6, <1>7, <1>8

(* What is left stays a sequence of tokens, and gets no longer.            *)
LEMMA FscanfTypes ==
  ASSUME NEW V, NEW ts \in Seq(Token(V))
  PROVE  /\ Fscanf(ts).rest \in Seq(Token(V)) /\ Len(Fscanf(ts).rest) <= Len(ts)
         /\ Fscanf(ts).assigned = 2 => RecordAt(ts, 1) \in [uid : V, pfn : V]
<1> HIDE DEF Token
<1>1. PICK n \in 0 .. 3 : Fscanf(ts).rest = Behind(ts, n)
  BY DEF Fscanf, ReadByFailure
<1>2. Behind(ts, n) \in Seq(Token(V)) /\ Len(Behind(ts, n)) <= Len(ts)
  <2>1. Len(ts) \in Nat /\ \A k \in n + 1 .. Len(ts) : ts[k] \in Token(V)
    BY ElementOfSeq
  <2> QED BY <2>1, SubSeqProperties DEF Behind
<1>3. ASSUME Fscanf(ts).assigned = 2 PROVE IsRecord(ts, 1)
  <2>1. Kind(ts, 1) = "number" /\ Kind(ts, 2) = "comma" /\ Kind(ts, 3) = "number"
    BY <1>3 DEF Fscanf
  <2>2. 1 + 1 = 2 /\ 1 + 2 = 3
    OBVIOUS
  <2> QED BY <2>1, <2>2 DEF IsRecord
<1> QED BY <1>1, <1>2, <1>3, RecordTokens

-----------------------------------------------------------------------------
(* Records(meta), where the loaders stop                                   *)

(* What Reached says of the records from the first on is what Records asks.*)
LEMMA RecordsFacts ==
  ASSUME meta \in Seq(Token(Int))
  PROVE  /\ Len(Records(meta)) \in Nat
         /\ Reached(0, Len(Records(meta)))
         /\ \A n \in Nat : Reached(0, n) => n <= Len(Records(meta))
         /\ \A k \in 1 .. Len(Records(meta)) : Records(meta)[k] = RecordAt(meta, 0 + Place(k))
<1> DEFINE N == Len(Records(meta))
<1>0. Len(meta) \in Nat /\ \A k \in Nat : 0 + Place(k) = Place(k)
  BY DEF Place
<1>1. /\ N \in 0 .. Len(meta) /\ AreRecords(meta, N)
      /\ \A n \in 0 .. Len(meta) : AreRecords(meta, n) => n <= N
      /\ Records(meta) = [k \in 1 .. N |-> RecordAt(meta, Place(k))]
  BY RecordsAre
<1> HIDE DEF N
<1>2. Reached(0, N)
  <2>1. \A k \in 1 .. N : IsRecord(meta, 0 + Place(k))
    BY <1>0, <1>1 DEF AreRecords
  <2>2. CASE N = 0
    BY <1>0, <2>2 DEF Reached
  <2>3. CASE N # 0
    <3>1. IsRecord(meta, Place(N)) /\ Place(N) = 3 * N - 2 /\ Place(N) \in Nat \ {0}
      BY <1>1, <2>3 DEF AreRecords, Place
    <3>2. Place(N) + 2 <= Len(meta)
      BY <3>1, RecordTokens
    <3> QED BY <1>1, <2>1, <3>1, <3>2 DEF Reached
  <2> QED BY <2>2, <2>3
<1>3. ASSUME NEW n \in Nat, Reached(0, n) PROVE n <= N
  <2>1. n \in 0 .. Len(meta)
    BY <1>0, <1>3 DEF Reached
  <2>2. AreRecords(meta, n)
    BY <1>0, <1>3 DEF Reached, AreRecords
  <2> QED BY <1>1, <2>1, <2>2
<1>4. \A k \in 1 .. N : Records(meta)[k] = RecordAt(meta, 0 + Place(k))
  BY <1>0, <1>1
<1> QED BY <1>1, <1>2, <1>3, <1>4 DEF N

(* If the reader stops behind n records, these are all.                    *)
LEMMA StopsAtRecords ==
  ASSUME meta \in Seq(Token(Int)), NEW n \in Nat, Reached(0, n), Stops(0, n)
  PROVE  Len(Records(meta)) = n
<1>0. /\ Len(Records(meta)) \in Nat /\ Len(meta) \in Nat
      /\ Reached(0, Len(Records(meta))) /\ n <= Len(Records(meta))
  BY RecordsFacts
<1>1. ASSUME n < Len(Records(meta)) PROVE FALSE
  <2>1. n + 1 \in 1 .. Len(Records(meta)) /\ 0 + Place(n + 1) = 0 + 3 * n + 1
    BY <1>0, <1>1 DEF Place
  <2>2. IsRecord(meta, 0 + Place(n + 1))
    BY <1>0, <2>1 DEF Reached
  <2> QED BY <2>1, <2>2 DEF Stops
<1> QED BY <1>0, <1>1

-----------------------------------------------------------------------------
(* The steps of a reader                                                   *)

Item == [pfn : Int, uid : Int, data : Block] \cup [pfn : Int, uid : Int]

LEMMA Lengths ==
  ASSUME Account
  PROVE  /\ Len(meta) \in Nat /\ Len(data) \in Nat /\ Len(tokens) \in Nat
         /\ Len(loaded) \in Nat /\ loaded \in Seq(Item)
         /\ loaded = <<>> <=> Len(loaded) = 0
         /\ data = <<>> <=> Len(data) = 0
  BY EmptySeq DEF Account, ReaderTypeOK, Item

(* The files do not change, nor does what is said of their tokens.         *)
LEMMA FilesKept ==
  ASSUME UNCHANGED files, Taken' = Taken, UNCHANGED loaded, NEW start
  PROVE  /\ Reached(start, Taken)' <=> Reached(start, Taken)
         /\ Left(start + 3 * Taken)' = Left(start + 3 * Taken)
         /\ Paired(start)' <=> Paired(start)
         /\ RecordAt(meta, start + Place(Taken))' = RecordAt(meta, start + Place(Taken))
         /\ data[Taken]' = data[Taken]
         /\ Stops(0, 0)' <=> Stops(0, 0)
<1>0. meta' = meta /\ data' = data /\ reader' = reader
  BY DEF files
<1>1. Reached(start, Taken)' <=> Reached(start, Taken)
  BY <1>0 DEF Reached
<1>2. Left(start + 3 * Taken)' = Left(start + 3 * Taken)
  BY <1>0 DEF Left
<1>3. Paired(start)' <=> Paired(start)
  BY <1>0 DEF Paired
<1>4. Stops(0, 0)' <=> Stops(0, 0)
  BY <1>0 DEF Stops
<1> QED BY <1>0, <1>1, <1>2, <1>3, <1>4

LEMMA FollowingInit == Init => Following
<1> SUFFICES ASSUME Init PROVE Following
  OBVIOUS
<1>1. meta \in Seq(Token(Int)) /\ data \in Seq(Block)
  BY FileAssumption, EmptySeq DEF Init
<1>2. SubSeq(meta, 1, Len(meta)) = meta /\ SubSeq(data, 1, Len(data)) = data
  BY <1>1, SubSeqFull
<1>3. Taken = 0 /\ Len(meta) \in Nat /\ Len(data) \in Nat /\ Len(loaded) = 0
  BY <1>1 DEF Init, Taken
<1>4. ReaderTypeOK
  BY <1>1, <1>3, CallAssumption DEF Init, ReaderTypeOK
<1>5. Account
  BY <1>1, <1>2, <1>3, <1>4 DEF Init, Account, Loading
<1>6. InStep(0)
  <2>1. 0 + 3 * 0 = 0 /\ Left(0) = tokens
    BY <1>1, <1>2 DEF Init, Left, Behind
  <2> QED BY <1>1, <1>3, <2>1
          DEF Init, InStep, Skipped, Reached, Paired, Loading
<1> QED BY <1>3, <1>5, <1>6 DEF Following, Progress

LEMMA ConstructStep == Following /\ Construct => Following'
<1> SUFFICES ASSUME Following, Construct PROVE Following'
  OBVIOUS
<1>0. /\ pc = "unopened" /\ pc' \in {"idle", "exit"}
      /\ UNCHANGED <<files, tokens, blocks, buffer, record, loaded, live, calls, status>>
  BY DEF Construct
<1>1. loaded = <<>> /\ calls = 0 /\ Taken' = Taken
  BY <1>0 DEF Following, Account, Taken
<1>2. Account'
  BY <1>0, <1>1 DEF Following, Account, ReaderTypeOK, Loading, files
<1>3. CASE pc' = "exit"
  BY <1>2, <1>3 DEF Following, Progress
<1>4. CASE pc' = "idle"
  <2>1. PICK start \in 0 .. Len(meta) : InStep(start)
    BY <1>0 DEF Following, Progress, Astray
  <2>2. InStep(start)'
    <3>1. Skipped(start)'
      BY <1>0, <1>1, <2>1 DEF InStep, Skipped, files
    <3> QED BY <1>0, <1>1, <1>4, <2>1, <3>1, FilesKept DEF InStep, Loading
  <2> QED BY <1>0, <1>2, <2>2 DEF Following, Progress, files
<1> QED BY <1>0, <1>3, <1>4

LEMMA LoadRefusedStep == Following /\ LoadRefused => Following'
<1> SUFFICES ASSUME Following, LoadRefused PROVE Following'
  OBVIOUS
<1>0. /\ pc = "idle" /\ calls < MaxCalls /\ calls' = calls + 1 /\ status' = -1
      /\ UNCHANGED <<files, pc, tokens, blocks, buffer, record, loaded, live>>
  BY DEF LoadRefused
<1>1. calls \in Nat /\ Taken' = Taken /\ (calls = 0 => loaded = <<>>)
  BY <1>0, CallAssumption DEF Following, Account, ReaderTypeOK, Taken
<1>2. Account'
  BY <1>0, <1>1, CallAssumption DEF Following, Account, ReaderTypeOK, Loading, files
<1>3. CASE Astray
  BY <1>0, <1>1, <1>2, <1>3 DEF Following, Progress, Astray, files
<1>4. CASE \E start \in 0 .. Len(meta) : InStep(start)
  <2>1. PICK start \in 0 .. Len(meta) : InStep(start)
    BY <1>4
  <2>2. InStep(start)'
    <3>1. Skipped(start)'
      BY <1>0, <1>1, <2>1 DEF InStep, Skipped, Loading, files
    <3>2. pc = "idle" /\ loaded # <<>> => Ended(start)'
      BY <1>0, <1>1, <2>1 DEF InStep, Ended, Stops, Reached, files
    <3> QED BY <1>0, <1>1, <2>1, <3>1, <3>2, FilesKept DEF InStep, Loading
  <2> QED BY <1>0, <1>2, <2>2 DEF Following, Progress, files
<1> QED BY <1>0, <1>3, <1>4 DEF Following, Progress

LEMMA LoadTraceStep == Following /\ LoadTrace => Following'
<1> SUFFICES ASSUME Following, LoadTrace PROVE Following'
  OBVIOUS
<1>0. /\ pc = "idle" /\ calls < MaxCalls /\ loaded = <<>>
      /\ calls' = calls + 1 /\ pc' = "scan"
      /\ UNCHANGED <<files, tokens, blocks, record, loaded, live, status>>
  BY DEF LoadTrace, MayLoad
<1>1. calls \in Nat /\ Taken' = Taken
  BY <1>0, CallAssumption DEF Following, Account, ReaderTypeOK, Taken
<1>2. Account'
  BY <1>0, <1>1, CallAssumption DEF Following, Account, ReaderTypeOK, Loading, files
<1>3. CASE Astray
  BY <1>0, <1>1, <1>2, <1>3 DEF Following, Progress, Astray, files
<1>4. CASE \E start \in 0 .. Len(meta) : InStep(start)
  <2>1. PICK start \in 0 .. Len(meta) : InStep(start)
    BY <1>4
  <2>2. InStep(start)'
    <3>1. Skipped(start)'
      BY <1>0, <1>1, <2>1 DEF InStep, Skipped, Loading, files
    <3> QED BY <1>0, <1>1, <2>1, <3>1, FilesKept DEF InStep, Loading
  <2> QED BY <1>0, <1>2, <2>2 DEF Following, Progress, files
<1> QED BY <1>0, <1>3, <1>4 DEF Following, Progress

(* fscanf takes the record behind the ones taken so far.                   *)
LEMMA ScanRecordStep == Following /\ ScanRecord => Following'
<1> SUFFICES ASSUME Following, ScanRecord PROVE Following'
  OBVIOUS
<1>0. /\ pc = "scan" /\ Fscanf(tokens).assigned = 2
      /\ record' = RecordAt(tokens, 1) /\ tokens' = Fscanf(tokens).rest
      /\ pc' = IF reader = "swapout" THEN "read" ELSE "push"
      /\ UNCHANGED <<files, blocks, buffer, loaded, live, calls, status>>
  BY DEF ScanRecord
<1>1. Taken = Len(loaded) /\ Taken' = Taken + 1 /\ Taken \in Nat
  BY <1>0, Lengths DEF Following, Taken
<1>2. tokens' \in Seq(Token(Int)) /\ Len(tokens') <= Len(tokens) /\ record' \in Record
  BY <1>0, FscanfTypes DEF Following, Account, Record
<1>3. ReaderTypeOK'
  <2>1. Len(tokens') <= Len(meta)
    <3>1. Len(tokens') \in Nat /\ Len(tokens) \in Nat /\ Len(meta) \in Nat
      BY <1>2, Lengths DEF Following
    <3>2. Len(tokens) <= Len(meta)
      BY DEF Following, Account, ReaderTypeOK
    <3> QED BY <1>2, <3>1, <3>2
  <2> QED BY <1>0, <2>1 DEF Following, Account, ReaderTypeOK, files
<1>4. /\ reader' = "swapout" =>
           /\ blocks' = SubSeq(data', Taken' + 0, Len(data'))
           /\ Taken' <= Len(data') + 1
  BY <1>0, <1>1, Lengths DEF Following, Account, files
<1>5. Account'
  <2>1. reader \in {"swapout", "swapin"} /\ reader' = reader
    BY <1>0 DEF Following, Account, ReaderTypeOK, files
  <2>2. \/ reader' = "swapout" /\ pc' = "read"
        \/ reader' = "swapin" /\ pc' = "push"
    BY <1>0, <2>1
  <2>3. calls' > 0 /\ live' = Len(loaded') /\ meta' \in Seq(Token(Int)) /\ data' \in Seq(Block)
        /\ (calls' = 0 => loaded' = <<>>) /\ (reader' = "swapin" => data' = <<>>)
    BY <1>0 DEF Following, Account, Loading, files
  <2> QED BY <1>2, <1>3, <1>4, <2>2, <2>3 DEF Account
<1>6. CASE Astray
  BY <1>0, <1>5, <1>6 DEF Following, Progress, Astray, files
<1>7. CASE \E start \in 0 .. Len(meta) : InStep(start)
  <2>1. PICK start \in 0 .. Len(meta) : InStep(start)
    BY <1>7
  <2> DEFINE p == start + 3 * Taken
  <2>2. tokens = Left(p) /\ Reached(start, Taken) /\ p \in 0 .. Len(meta)
    BY <1>0, <1>1, <2>1, Lengths DEF Following, InStep, Loading, Reached
  <2>3. /\ p + 3 <= Len(meta) /\ IsRecord(meta, p + 1)
        /\ record' = RecordAt(meta, p + 1) /\ tokens' = Left(p + 3)
    BY <1>0, <2>2, AtToken DEF Following, Account
  <2>4. /\ start + 3 * Taken' = p + 3 /\ start + Place(Taken') = p + 1
        /\ meta' = meta /\ data' = data /\ reader' = reader
    BY <1>0, <1>1, <2>2 DEF files, Place
  <2>5. Reached(start, Taken)'
    <3>1. \A k \in 1 .. Taken + 1 : k \in 1 .. Taken \/ k = Taken'
      BY <1>1
    <3>2. \A k \in 1 .. Taken + 1 : IsRecord(meta, start + Place(k))
      BY <2>2, <2>3, <2>4, <3>1 DEF Reached
    <3> HIDE DEF p
    <3> QED BY <1>1, <2>3, <2>4, <3>2 DEF Reached
  <2>6. Left(start + 3 * Taken)' = Left(p + 3)
    BY <2>4 DEF Left
  <2>7. Skipped(start)'
    BY <1>0, <2>1, <2>4 DEF InStep, Skipped, Loading
  <2>8. Paired(start)'
    BY <1>0, <2>1, <2>4 DEF InStep, Paired
  <2> HIDE DEF p
  <2>9. InStep(start)'
    BY <1>0, <2>3, <2>4, <2>5, <2>6, <2>7, <2>8 DEF InStep
  <2> QED BY <1>5, <2>4, <2>9 DEF Following, Progress
<1> QED BY <1>0, <1>6, <1>7 DEF Following, Progress

(* fscanf takes no record, and the load is over.                           *)
LEMMA ScanEndStep == Following /\ ScanEnd => Following'
<1> SUFFICES ASSUME Following, ScanEnd PROVE Following'
  OBVIOUS
<1>0. /\ pc = "scan" /\ Fscanf(tokens).assigned # 2 /\ tokens' = Fscanf(tokens).rest
      /\ pc' = "idle" /\ status' = 0 /\ buffer' = NoBuffer
      /\ UNCHANGED <<files, blocks, record, loaded, live, calls>>
  BY DEF ScanEnd, Return
<1>1. /\ Taken = Len(loaded) /\ Taken' = Taken /\ Taken \in Nat
      /\ calls > 0 /\ calls \in Nat /\ (loaded = <<>> <=> Taken = 0)
  BY <1>0, Lengths, CallAssumption DEF Following, Account, ReaderTypeOK, Loading, Taken
<1>2. tokens' \in Seq(Token(Int)) /\ Len(tokens') <= Len(tokens)
  BY <1>0, FscanfTypes DEF Following, Account, Record
<1>3. ReaderTypeOK'
  <2>1. Len(tokens') <= Len(meta)
    <3>1. Len(tokens') \in Nat /\ Len(tokens) \in Nat /\ Len(meta) \in Nat
      BY <1>2, Lengths DEF Following
    <3>2. Len(tokens) <= Len(meta)
      BY DEF Following, Account, ReaderTypeOK
    <3> QED BY <1>2, <3>1, <3>2
  <2> QED BY <1>0, <2>1 DEF Following, Account, ReaderTypeOK, files
<1>4. Account'
  BY <1>0, <1>1, <1>2, <1>3 DEF Following, Account, Loading, files
<1>5. CASE Astray
  BY <1>0, <1>4, <1>5 DEF Following, Progress, Astray, files
<1>6. CASE \E start \in 0 .. Len(meta) : InStep(start)
  <2>1. PICK start \in 0 .. Len(meta) : InStep(start)
    BY <1>6
  <2> DEFINE p == start + 3 * Taken
  <2>2. tokens = Left(p) /\ Reached(start, Taken) /\ p \in 0 .. Len(meta)
    BY <1>0, <1>1, <2>1, Lengths DEF Following, InStep, Loading, Reached
  <2>3. /\ ~ IsRecord(meta, p + 1)
        /\ \E q \in p .. Len(meta) : /\ tokens' = Left(q)
                                     /\ \A t \in p + 1 .. q : ~ IsRecord(meta, t)
    BY <1>0, <2>2, AtToken DEF Following, Account
  <2>4. meta' = meta /\ data' = data /\ reader' = reader /\ loaded' = loaded
    BY <1>0 DEF files
  <2>5. \A t \in 1 .. start : ~ IsRecord(meta, t)
    BY <2>1 DEF InStep, Skipped
  <2>6. calls = 1 => start = 0
    BY <1>0, <2>1 DEF InStep, Skipped, Loading
  <2>7. ASSUME loaded # <<>> PROVE InStep(start)'
    <3>1. Ended(start)'
      <4>1. Stops(start, Len(loaded))
        BY <1>1, <2>3, <2>7 DEF Stops
      <4> QED BY <1>0, <2>4, <4>1 DEF Ended, Stops
    <3>2. Skipped(start)'
      BY <1>0, <1>1, <2>4, <2>5, <2>6 DEF Skipped
    <3>3. Reached(start, Taken)' /\ Paired(start)'
      BY <1>0, <1>1, <2>1, FilesKept DEF InStep
    <3> QED BY <1>0, <2>4, <2>7, <3>1, <3>2, <3>3 DEF InStep, Loading
  <2>8. ASSUME loaded = <<>> PROVE \E s \in 0 .. Len(meta) : InStep(s)'
    <3>1. p = start /\ Taken' = 0 /\ Len(loaded) = 0
      BY <1>1, <2>8
    <3>2. calls = 1 => Stops(0, 0)'
      <4>1. 0 + 3 * 0 + 1 = 0 + 1
        OBVIOUS
      <4> QED BY <2>3, <2>4, <2>6, <3>1, <4>1 DEF Stops
    <3> HIDE DEF p
    <3>3. PICK q \in p .. Len(meta) : /\ tokens' = Left(q)
                                     /\ \A t \in p + 1 .. q : ~ IsRecord(meta, t)
      BY <2>3
    <3>4. q \in 0 .. Len(meta) /\ \A t \in 1 .. q : ~ IsRecord(meta, t)
      <4>1. \A t \in 1 .. q : t \in 1 .. start \/ t \in p + 1 .. q
        BY <2>2, <3>1
      <4> QED BY <2>2, <2>5, <3>3, <4>1
    <3>5. Skipped(q)' /\ Paired(q)'
      BY <1>0, <1>1, <2>4, <2>8, <3>1, <3>4 DEF Skipped, Paired, Loading
    <3>6. q + 3 * 0 = q
      BY <3>4
    <3>7. Reached(q, Taken)'
      BY <2>4, <3>1, <3>4, <3>6 DEF Reached
    <3>8. Left(q + 3 * Taken)' = Left(q)
      BY <2>4, <3>1, <3>6 DEF Left
    <3>9. InStep(q)'
      BY <1>0, <2>4, <2>8, <3>2, <3>3, <3>5, <3>7, <3>8 DEF InStep, Loading
    <3> QED BY <3>4, <3>9
  <2> QED BY <1>4, <2>4, <2>7, <2>8 DEF Following, Progress
<1> QED BY <1>0, <1>5, <1>6 DEF Following, Progress

(* What fread meets: the block of the record that fscanf has parsed.       *)
LEMMA AtRead ==
  ASSUME Account, pc = "read"
  PROVE  /\ reader = "swapout" /\ Taken = Len(loaded) + 1
         /\ blocks = <<>> => Taken = Len(data) + 1
         /\ blocks # <<>> => /\ Taken \in 1 .. Len(data)
                            /\ Head(blocks) = data[Taken] /\ Head(blocks) \in Block
                            /\ Tail(blocks) = SubSeq(data, Taken + 1, Len(data))
<1>1. /\ reader = "swapout" /\ Taken = Len(loaded) + 1
      /\ data \in Seq(Block) /\ Len(data) \in Nat /\ Len(loaded) \in Nat
  BY Lengths DEF Account, Taken
<1>2. blocks = SubSeq(data, Taken, Len(data)) /\ Taken <= Len(data) + 1
  BY <1>1 DEF Account
<1>3. ASSUME Taken > Len(data) PROVE blocks = <<>> /\ Taken = Len(data) + 1
  BY <1>1, <1>2, <1>3, SubSeqEmpty
<1>4. ASSUME Taken <= Len(data)
      PROVE  /\ Taken \in 1 .. Len(data) /\ blocks # <<>>
             /\ Head(blocks) = data[Taken] /\ Head(blocks) \in Block
             /\ Tail(blocks) = SubSeq(data, Taken + 1, Len(data))
  <2>1. Taken \in 1 .. Len(data) /\ Len(data) \in Taken .. Len(data)
    BY <1>1, <1>4
  <2>2. /\ Head(blocks) = data[Taken] /\ Head(blocks) \in Block
        /\ Tail(blocks) = SubSeq(data, Taken + 1, Len(data))
    BY <1>1, <1>2, <2>1, HeadTailOfSubSeq, ElementOfSeq
  <2>3. Len(SubSeq(data, Taken, Len(data))) = Len(data) - Taken + 1
    BY <1>1, <2>1
  <2>4. Len(SubSeq(data, Taken, Len(data))) # Len(<<>>)
    BY <1>1, <2>1, <2>3
  <2> QED BY <1>2, <2>1, <2>2, <2>4
<1> QED BY <1>1, <1>3, <1>4

LEMMA ReadBlockStep == Following /\ ReadBlock => Following'
<1> SUFFICES ASSUME Following, ReadBlock PROVE Following'
  OBVIOUS
<1>0. /\ pc = "read" /\ blocks # <<>>
      /\ buffer' = Head(blocks) /\ blocks' = Tail(blocks) /\ pc' = "push"
      /\ UNCHANGED <<files, tokens, record, loaded, live, calls, status>>
  BY DEF ReadBlock
<1>1. /\ Taken' = Taken /\ Taken \in 1 .. Len(data) /\ reader = "swapout"
      /\ buffer' = data[Taken] /\ buffer' \in Block
      /\ blocks' = SubSeq(data, Taken + 1, Len(data))
  BY <1>0, AtRead DEF Following, Taken
<1>2. ReaderTypeOK'
  BY <1>0 DEF Following, Account, ReaderTypeOK, files
<1>3. Taken <= Len(data) + 0
  BY <1>1, Lengths DEF Following
<1>4. Account'
  BY <1>0, <1>1, <1>2, <1>3 DEF Following, Account, Loading, files
<1>5. ~ Astray
  BY <1>1, Lengths DEF Following, Astray
<1>6. PICK start \in 0 .. Len(meta) : InStep(start)
  BY <1>0, <1>5 DEF Following, Progress
<1>7. Skipped(start)'
  BY <1>0, <1>6 DEF InStep, Skipped, Loading, files
<1>8. InStep(start)'
  BY <1>0, <1>1, <1>6, <1>7, FilesKept DEF InStep, Loading, files
<1> QED BY <1>0, <1>4, <1>8 DEF Following, Progress, files

(* There is no block for the record: the page loaded last is the last one. *)
LEMMA ReadFailsStep == Following /\ ReadFails => Following'
<1> SUFFICES ASSUME Following, ReadFails PROVE Following'
  OBVIOUS
<1>0. /\ pc = "read" /\ blocks = <<>>
      /\ pc' = "idle" /\ status' = -1 /\ buffer' = NoBuffer
      /\ UNCHANGED <<files, tokens, blocks, record, loaded, live, calls>>
  BY DEF ReadFails, Return
<1>1. /\ Taken = Len(loaded) + 1 /\ Taken' = Len(loaded) /\ reader = "swapout"
      /\ Len(loaded) = Len(data) /\ Len(data) \in Nat /\ Len(loaded) \in Nat
      /\ loaded = <<>> <=> data = <<>>
  BY <1>0, AtRead, Lengths DEF Following, Taken
<1>2. ReaderTypeOK'
  BY <1>0 DEF Following, Account, ReaderTypeOK, files
<1>3. blocks' = SubSeq(data, Taken' + 1, Len(data)) /\ Taken' <= Len(data) + 0
  <2>1. Taken' + 1 = Taken /\ Taken + 0 = Taken
    BY <1>1
  <2> QED BY <1>0, <1>1, <2>1 DEF Following, Account
<1>4. Account'
  BY <1>0, <1>1, <1>2, <1>3 DEF Following, Account, Loading, files
<1>5. calls > 0 /\ calls \in Nat
  BY <1>0, CallAssumption DEF Following, Account, ReaderTypeOK, Loading
<1>6. CASE data = <<>>
  <2>1. Astray'
    BY <1>0, <1>1, <1>5, <1>6 DEF Astray, files
  <2> QED BY <1>4, <2>1 DEF Following, Progress
<1>7. CASE data # <<>>
  <2>1. PICK start \in 0 .. Len(meta) : InStep(start)
    BY <1>0, <1>7 DEF Following, Progress, Astray
  <2>2. Skipped(start)' /\ Paired(start)'
    <3>1. meta' = meta /\ data' = data /\ reader' = reader /\ loaded' = loaded
      BY <1>0 DEF files
    <3>2. Skipped(start)'
      BY <1>0, <1>1, <1>7, <2>1, <3>1 DEF InStep, Skipped, Loading
    <3>3. Paired(start)'
      BY <2>1, <3>1 DEF InStep, Paired
    <3> QED BY <3>2, <3>3
  <2>3. Reached(start, Len(loaded) + 1)
    BY <1>1, <2>1 DEF InStep
  <2>4. Reached(start, Taken)'
    <3>1. start + 3 * Len(loaded) <= Len(meta)
      BY <1>1, <2>3, Lengths DEF Reached, Following
    <3>2. \A k \in 1 .. Len(loaded) : IsRecord(meta, start + Place(k))
      BY <1>1, <2>3 DEF Reached
    <3> QED BY <1>0, <1>1, <3>1, <3>2 DEF Reached, files
  <2>5. Ended(start)'
    BY <1>0, <1>1, <2>3 DEF Ended, Reached, files
  <2>6. InStep(start)'
    BY <1>0, <1>1, <1>7, <2>2, <2>4, <2>5 DEF InStep, Loading
  <2> QED BY <1>0, <1>4, <2>6 DEF Following, Progress, files
<1> QED BY <1>6, <1>7

LEMMA PushStep == Following /\ Push => Following'
<1> SUFFICES ASSUME Following, Push PROVE Following'
  OBVIOUS
<1> DEFINE item == IF reader = "swapout" THEN PageFrom(record, buffer) ELSE record
<1>0. /\ pc = "push" /\ pc' = "scan"
      /\ loaded' = Append(loaded, item) /\ live' = live + 1
      /\ UNCHANGED <<files, tokens, blocks, buffer, record, calls, status>>
  BY DEF Push, Pushed
<1>1. Taken = Len(loaded) + 1 /\ loaded \in Seq(Item) /\ Len(loaded) \in Nat
  BY <1>0, Lengths DEF Following, Taken
<1>2. item \in Item
  BY <1>0 DEF Following, Account, Record, Item, PageFrom
<1>3. /\ loaded' \in Seq(Item) /\ Len(loaded') = Taken
      /\ \A k \in 1 .. Len(loaded) : loaded'[k] = loaded[k]
      /\ loaded'[Taken] = item
  BY <1>0, <1>1, <1>2, AppendProperties
<1>4. Taken' = Taken
  BY <1>0, <1>1, <1>3 DEF Taken
<1>5. ReaderTypeOK'
  BY SMTT(30), <1>0, <1>3 DEF Following, Account, ReaderTypeOK, Item, files
<1>6. /\ reader' = "swapout" => /\ blocks' = SubSeq(data', Taken' + 1, Len(data'))
                               /\ Taken' <= Len(data')
      /\ live' = Len(loaded')
  BY <1>0, <1>1, <1>3, <1>4 DEF Following, Account, files
<1>7. Account'
  BY <1>0, <1>5, <1>6 DEF Following, Account, Loading, files
<1>8. PICK start \in 0 .. Len(meta) : InStep(start)
  BY <1>0 DEF Following, Progress, Astray
<1> HIDE DEF item
<1>9. Paired(start)'
  <2>1. item = IF reader = "swapin" THEN RecordAt(meta, start + Place(Taken))
                 ELSE PageFrom(RecordAt(meta, start + Place(Taken)), data[Taken])
    BY <1>0, <1>8 DEF InStep, item, Following, Account, ReaderTypeOK
  <2>2. \A k \in 1 .. Taken : k = Taken \/ k \in 1 .. Len(loaded)
    BY <1>1
  <2>3. meta' = meta /\ data' = data /\ reader' = reader
    BY <1>0 DEF files
  <2> QED BY <1>3, <1>8, <2>1, <2>2, <2>3 DEF InStep, Paired
<1>10. /\ Skipped(start)' /\ Reached(start, Taken)'
       /\ Left(start + 3 * Taken)' = Left(start + 3 * Taken)
  <2>1. meta' = meta
    BY <1>0 DEF files
  <2>2. Skipped(start)'
    BY <1>0, <1>8, <2>1 DEF InStep, Skipped, Loading, Following, Account
  <2>3. Reached(start, Taken)'
    BY <1>4, <1>8, <2>1 DEF InStep, Reached
  <2>4. Left(start + 3 * Taken)' = Left(start + 3 * Taken)
    BY <1>4, <2>1 DEF Left
  <2> QED BY <2>2, <2>3, <2>4
<1>11. InStep(start)'
  BY <1>0, <1>8, <1>9, <1>10 DEF InStep, Loading
<1> QED BY <1>0, <1>7, <1>11 DEF Following, Progress, files

LEMMA DestroyStep == Following /\ Destroy => Following'
<1> SUFFICES ASSUME Following, Destroy PROVE Following'
  OBVIOUS
<1>0. /\ pc = "idle" /\ pc' = "destroyed"
      /\ loaded' = <<>> /\ live' = live - Len(loaded)
      /\ UNCHANGED <<files, tokens, blocks, buffer, record, calls, status>>
  BY DEF Destroy
<1>1. live = Len(loaded) /\ Len(loaded) \in Nat
  BY <1>0, Lengths DEF Following, Account
<1>2. live' = 0 /\ Len(loaded') = 0
  BY <1>0, <1>1
<1>3. ReaderTypeOK'
  BY <1>0, <1>2 DEF Following, Account, ReaderTypeOK, files
<1> QED BY <1>0, <1>2, <1>3 DEF Following, Progress, Account, Loading, files

LEMMA FollowingStep == Following /\ [Next]_vars => Following'
<1> SUFFICES ASSUME Following, UNCHANGED vars PROVE Following'
  BY ConstructStep, LoadRefusedStep, LoadTraceStep, ScanRecordStep, ScanEndStep,
     ReadBlockStep, ReadFailsStep, PushStep, DestroyStep DEF Next
<1>1. Taken' = Taken /\ UNCHANGED files /\ UNCHANGED loaded
  BY DEF vars, Taken
<1>2. Account'
  BY <1>1 DEF Following, Account, ReaderTypeOK, Loading, vars, files
<1>3. Astray => Astray'
  BY DEF Astray, vars, files
<1>4. ASSUME NEW start \in 0 .. Len(meta), InStep(start) PROVE InStep(start)'
  <2>1. Skipped(start)' /\ (pc = "idle" /\ loaded # <<>> => Ended(start)')
    BY <1>4 DEF InStep, Skipped, Ended, Stops, Reached, Loading, vars, files
  <2>2. UNCHANGED <<reader, pc, tokens, record, buffer, loaded, calls, status>>
    BY DEF vars, files
  <2> QED BY <1>1, <1>4, <2>1, <2>2, FilesKept DEF InStep, Loading
<1> QED BY <1>2, <1>3, <1>4 DEF Following, Progress, vars, files

-----------------------------------------------------------------------------
(* The theorems                                                            *)

(* Where a reader is in its files, at every step of every load.            *)
THEOREM FollowingAlways == Spec => []Following
  BY FollowingInit, FollowingStep, PTL DEF Spec

(* Nothing allocated and no block read is lost, on any of the four returns *)
(* of LoadTrace and in the destructor, and types.                          *)
THEOREM NothingLostAlways == Spec => []NothingLost
<1>1. Following => NothingLost
  <2> SUFFICES ASSUME Following PROVE NothingLost
    OBVIOUS
  <2>1. ReaderTypeOK /\ (pc # "exit" => live = Len(loaded))
        /\ (pc \in {"unopened", "idle", "destroyed"} => buffer = NoBuffer)
    BY DEF Following, Account
  <2>2. ASSUME reader = "swapout", pc # "destroyed"
        PROVE  Len(loaded) + Len(blocks) + (IF pc = "push" THEN 1 ELSE 0) = Len(data)
    <3>1. /\ Len(loaded) \in Nat /\ Len(data) \in Nat
          /\ data \in Seq(Block)
      BY Lengths DEF Following, Account
    <3>2. /\ blocks = SubSeq(data, Taken + (IF pc = "read" THEN 0 ELSE 1), Len(data))
          /\ Taken <= Len(data) + (IF pc = "read" THEN 1 ELSE 0)
      BY <2>2 DEF Following, Account
    <3>3. \A f \in 1 .. Len(data) + 1 :
            Len(SubSeq(data, f, Len(data))) = Len(data) - f + 1
      BY <3>1
    <3>4. CASE pc = "push"
      BY <3>1, <3>2, <3>3, <3>4 DEF Taken
    <3>5. CASE pc = "read"
      BY <3>1, <3>2, <3>3, <3>5 DEF Taken
    <3>6. CASE pc \notin {"push", "read"}
      <4>1. Taken = Len(loaded)
        BY <3>1, <3>6 DEF Taken
      <4>2. blocks = SubSeq(data, Taken + 1, Len(data)) /\ Taken <= Len(data)
        <5>1. blocks = SubSeq(data, Taken + 1, Len(data)) /\ Taken <= Len(data) + 0
          BY <3>2, <3>6
        <5> QED BY <3>1, <4>1, <5>1
      <4>3. Len(blocks) = Len(data) - (Taken + 1) + 1
        BY <3>1, <3>3, <4>1, <4>2
      <4>4. Len(loaded) + Len(blocks) + 0 = Len(data)
        BY <3>1, <4>1, <4>3
      <4> QED BY <3>6, <4>4
    <3> QED BY <3>4, <3>5, <3>6
  <2> QED BY <2>1, <2>2 DEF NothingLost
<1> QED BY <1>1, FollowingAlways, PTL

(* A sequence of paired pages is the trace if it has the right length.     *)
LEMMA LoadedIs ==
  ASSUME Account, Paired(0),
         reader = "swapin" => Len(loaded) = Len(Records(meta)),
         reader = "swapout" => Len(loaded) = Min({Len(Records(meta)), Len(data)})
  PROVE  loaded = Trace
<1>1. loaded = [k \in 1 .. Len(loaded) |-> loaded[k]]
  BY Lengths
<1>2. Len(loaded) <= Len(Records(meta))
  <2>1. Len(Records(meta)) \in Nat /\ Len(data) \in Nat
    BY Lengths, RecordsFacts DEF Account
  <2>2. Min({Len(Records(meta)), Len(data)}) <= Len(Records(meta))
    BY <2>1, MinOfTwo
  <2>3. reader \in {"swapin", "swapout"}
    BY DEF Account, ReaderTypeOK
  <2> QED BY <2>1, <2>2, <2>3
<1>3. \A k \in 1 .. Len(loaded) :
        /\ k \in 1 .. Len(Records(meta))
        /\ loaded[k] = IF reader = "swapin" THEN Records(meta)[k]
                         ELSE PageFrom(Records(meta)[k], data[k])
  BY <1>2, Lengths, RecordsFacts DEF Paired, Account
<1>4. reader \in {"swapin", "swapout"}
  BY DEF Account, ReaderTypeOK
<1>5. CASE reader = "swapin"
  <2>1. Records(meta) = [k \in 1 .. Len(Records(meta)) |-> Records(meta)[k]]
    BY RecordsAre DEF Account
  <2> QED BY <1>1, <1>3, <1>5, <2>1 DEF Trace
<1>6. CASE reader = "swapout"
  BY <1>1, <1>3, <1>6 DEF Trace, Pages
<1> QED BY <1>4, <1>5, <1>6

(* A load that began at the first token ends with the whole trace, or with  *)
(* all the blocks there are.                                               *)
LEMMA LoadedAll ==
  ASSUME Following, pc = "idle", InStep(0), loaded # <<>>
  PROVE  /\ loaded = Trace
         /\ calls = 1 => (status = 0 <=> reader = "swapin" \/ LoadSucceeds(meta, data))
<1> DEFINE N == Len(Records(meta))
<1>0. /\ Account /\ meta \in Seq(Token(Int)) /\ Len(data) \in Nat /\ N \in Nat
      /\ Len(loaded) \in Nat /\ (loaded = <<>> <=> Len(loaded) = 0)
      /\ Taken = Len(loaded) /\ reader \in {"swapin", "swapout"}
  BY Lengths, RecordsFacts DEF Following, Account, ReaderTypeOK, Taken
<1>1. reader = "swapout" => Len(loaded) <= Len(data)
  BY <1>0 DEF Account
<1>2. Reached(0, Len(loaded)) /\ Paired(0)
  BY <1>0 DEF InStep
<1>3. CASE Stops(0, Len(loaded)) /\ (calls = 1 => status = 0)
  <2>1. N = Len(loaded)
    BY <1>0, <1>2, <1>3, StopsAtRecords
  <2>2. reader = "swapout" => Min({N, Len(data)}) = Len(loaded) /\ N <= Len(data)
    BY <1>0, <1>1, <2>1, MinOfTwo
  <2>3. LoadSucceeds(meta, data) <=> N <= Len(data)
    BY DEF LoadSucceeds
  <2>4. loaded = Trace
    BY <1>0, <1>2, <2>1, <2>2, LoadedIs
  <2> QED BY <1>0, <1>3, <2>1, <2>2, <2>3, <2>4
<1>4. CASE /\ reader = "swapout" /\ Len(loaded) = Len(data)
           /\ Reached(0, Len(loaded) + 1) /\ (calls = 1 => status = -1)
  <2>1. N >= Len(loaded) + 1
    BY <1>0, <1>4, RecordsFacts
  <2>2. Min({N, Len(data)}) = Len(loaded) /\ ~ (N <= Len(data))
    BY <1>0, <1>4, <2>1, MinOfTwo
  <2>3. LoadSucceeds(meta, data) <=> N <= Len(data)
    BY DEF LoadSucceeds
  <2>4. loaded = Trace
    BY <1>0, <1>2, <1>4, <2>2, LoadedIs
  <2> QED BY <1>4, <2>2, <2>3, <2>4
<1>5. Ended(0)
  BY DEF InStep
<1> QED BY <1>3, <1>4, <1>5 DEF Ended

(* Whatever the calls and the files, what is loaded is what the            *)
(* operators of TraceFiles say, which state the loaders without a loop.    *)
THEOREM LoadExactAlways == Spec => []LoadExact
<1>1. Following => LoadExact
  <2> SUFFICES ASSUME Following PROVE LoadExact
    OBVIOUS
  <2>0. /\ Account /\ Progress /\ meta \in Seq(Token(Int)) /\ Len(meta) \in Nat
        /\ Len(loaded) \in Nat /\ (loaded = <<>> <=> Len(loaded) = 0)
    BY Lengths DEF Following, Account
  <2>1. pc \in {"destroyed", "exit"} \/ Astray => loaded = <<>>
    BY <2>0 DEF Account, Astray
  <2>2. PagesPaired
    <3>1. CASE loaded = <<>>
      <4>1. 0 \in 0 .. Len(meta) /\ 1 .. Len(loaded) = {} /\ 1 .. 0 = {}
        BY <2>0, <3>1
      <4> QED BY <4>1 DEF PagesPaired
    <3>2. CASE loaded # <<>>
      <4>1. PICK start \in 0 .. Len(meta) : InStep(start)
        BY <2>0, <2>1, <3>2 DEF Progress
      <4>2. \A k \in 1 .. Len(loaded) : IsRecord(meta, start + Place(k))
        BY <2>0, <4>1 DEF InStep, Reached, Taken
      <4>3. \A p \in 1 .. start : ~ IsRecord(meta, p)
        BY <4>1 DEF InStep, Skipped
      <4>4. Paired(start)
        BY <4>1 DEF InStep
      <4> QED BY <4>2, <4>3, <4>4 DEF PagesPaired, Paired
    <3> QED BY <3>1, <3>2
  <2>3. ASSUME pc = "idle", loaded # <<>>, Records(meta) # <<>>
        PROVE  loaded = Trace
    <3>1. PICK start \in 0 .. Len(meta) : InStep(start)
      BY <2>0, <2>1, <2>3 DEF Progress
    <3>2. Len(Records(meta)) \in Nat \ {0}
      <4>1. Records(meta) \in Seq([uid : Int, pfn : Int])
        BY <2>0, RecordsAre
      <4> QED BY <2>3, <4>1, EmptySeq
    <3>3. IsRecord(meta, 1)
      <4>1. 1 \in 1 .. Len(Records(meta)) /\ 0 + Place(1) = 1
        BY <3>2 DEF Place
      <4> QED BY <2>0, <4>1, RecordsFacts DEF Reached
    <3>4. start = 0
      <4>1. \A p \in 1 .. start : ~ IsRecord(meta, p)
        BY <3>1 DEF InStep, Skipped
      <4> QED BY <2>0, <3>3, <4>1
    <3> QED BY <2>3, <3>1, <3>4, LoadedAll
  <2>4. ASSUME pc = "idle", calls = 1, loaded # <<>> \/ status = 0
        PROVE  /\ loaded = Trace
               /\ status = 0 <=> reader = "swapin" \/ LoadSucceeds(meta, data)
    <3>1. PICK start \in 0 .. Len(meta) : InStep(start)
      BY <2>0, <2>4 DEF Progress, Astray
    <3>2. CASE loaded # <<>>
      <4>1. start = 0
        BY <2>4, <3>1, <3>2 DEF InStep, Skipped
      <4> QED BY <2>4, <3>1, <3>2, <4>1, LoadedAll
    <3>3. CASE loaded = <<>>
      <4>1. status = 0 /\ Stops(0, 0)
        BY <2>4, <3>1, <3>3 DEF InStep
      <4>2. Paired(0) /\ Reached(0, 0)
        BY <2>0, <3>3 DEF Paired, Reached
      <4>3. Len(Records(meta)) = 0
        BY <2>0, <4>1, <4>2, StopsAtRecords
      <4>4. Len(data) \in Nat
        BY <2>0, Lengths
      <4>5. LoadSucceeds(meta, data) /\ Min({Len(Records(meta)), Len(data)}) = 0
        BY <4>3, <4>4, MinOfTwo DEF LoadSucceeds
      <4> QED BY <2>0, <3>3, <4>1, <4>2, <4>3, <4>5, LoadedIs
    <3> QED BY <3>2, <3>3
  <2> QED BY <2>2, <2>3, <2>4 DEF LoadExact
<1> QED BY <1>1, FollowingAlways, PTL
=============================================================================

# A model of the ZRAM simulation

The repository measures how a mobile ZRAM (zswap) area behaves on a CPU and on
a near-data processor. Nearly all of it is measured data. Its own programs are
small: two that pack the pages of a swap-out trace into slots and read them back
in the order of a swap-in trace, a variant of the second with a base-delta
compression of its own, and shell scripts that start measurements. This
directory holds TLA+ modules of those programs, from their command lines down to
the bytes of the two codecs they call, TLC configurations that check them on
small instances, and proofs that the safety properties the runs check hold for
instances of every size.

Paths below are relative to `src/`; `Z`, `W`, `R`, `D` and `T` stand for
`ZRAMSimulation/ZSwapTest.h`, `ZRAMSimulation/EvalWriteCompressedFile.cpp`,
`ZRAMSimulation/EvalReadCompressedFile.cpp`,
`ZRAMSimulation/delta/EvalReadCompressedFile.cpp` and `test-all.sh`, `LZ4` and
`LZO` for `ZRAMSimulation/lz4/lz4.c` and `ZRAMSimulation/lzo/minilzo.c`.

## Inventory

| component | code | state | operations | module |
|---|---|---|---|---|
| packing loop | W:67-110, R:54-97, D:425-471 | trace, index, current slot, `slot_list`, `slot_tree`, compressed page | compress, insert or refuse, update the tree, open a slot, finish | `SwapOut` |
| slot | Z:120-174 | `buf`, `offset`, `size`, `metainfo` | insert, count, get by linear scan | `SwapOut`, `SwapIn` |
| replay | R:99-153, D:539-590 | records, index, fetched page | look up, scan, decompress, skip, fail | `SwapIn` |
| trace readers | Z:176-286 | files, loaded pages or records, page buffer | open, load, destroy | `TraceReader`, `TraceFiles` |
| command line | W:15-48, R:16-52, D:29-74 | codec, slot size, file names | parse one option, finish | `Args` |
| programs | W:50-110, R:99-153, D:539-590 | where `main` is, exit status, measured region | parse, load, pack, replay, exit | `Programs` |
| zsim hooks | W:76, W:97, R:128, R:146 | measured region | begin, end | `Programs` |
| codec wrappers | Z:46-118 | LZO work memory, destination buffers | compress, decompress | `Codec`; assumed by `SwapOut`, `SwapIn` |
| LZ4 codec | LZ4:236-682, LZ4:753-1440, LZ4:1894-2350 | hash table, positions in page and block | search, encode, decode, in blocks of the main loops | `LZ4Compress`, `LZ4Decompress` |
| LZO codec | LZO:4924-5275, LZO:5394-5820 | dictionary, positions, literals left behind | search, encode, decode, by instruction | `LZOCompress`, `LZODecompress` |
| base-delta compression | D:76-418, D:473-535 | groups of pages, bases and counts, bit stream | scan, rank, size, encode, flush | `DeltaComp` |
| script driver | T | loop index, processes | start in the background, report, wait | `TestAll` |
| unused vendored code, experiment configurations, recorded results | | | | not modelled |

How they interact. `main` parses its arguments, loads a swap-out trace from two
files that are read in step, one record and one block for each page, and runs
the packing loop over the loaded pages. The loop calls the codec and the slot,
and writes `slot_tree`, which maps a page frame number (pfn) to a slot. Both are
all the reader program's replay has to find a page: the tree gives the slot, and
the slot is scanned for the first entry of the frame while the sizes of the
entries passed are added up. Nothing stores where a page lies. With `-c bd0` the
`delta` program packs nothing: it computes how many slots each group of three
pages would need. `test-all.sh` starts up to eight measurement scripts at once.

What is hard. All programs are single-threaded, so the difficulty is not in
interleavings but in long sequences of legal calls whose effects must stay
consistent over distance: packing decides byte positions that only the replay
recomputes; a frame may be swapped out again into the same or another slot; the
insertion may fail for a page that is already compressed; the base-delta encoder
makes two passes over the data which must agree to the bit, and its stream
crosses byte boundaries at every phase. The codecs are the same kind of problem
at the level of bytes: what the encoder decides at one position the decoder must
read in step, and both write and read whole words beyond what they need, close
to the ends of buffers whose size the wrappers compute. The one concurrent part is the script
driver. `PROJECT.json` lists these hazards at their lines, with the properties
that cover them.

What makes each component correct:

- slot: no insertion beyond the buffer, none refused that fits, each entry where
  the sum of the sizes before it says (`StoreTypeOK`, `SealOnlyWhenFull`,
  `SlotLayout`);
- packing loop: every page accounted for, in order (`OneLostPerSeal`); tree and
  slots agree (`TreeLatest`); list of slots exact (`SlotListExact`); nothing
  leaked (`StoreLeaksNothing`); it ends (part of `ReplayEnds`);
- replay: every record answered, in order, with the page that packing left for
  that frame (`RestoredExactly`), no error return (`ReplayNeverFails`), the scan
  in step with packing (`ScanAligned`) and inside its slot (`ReplayTypeOK`), an
  implementation of the swap area (`ImplementsArea`), an end (`ReplayEnds`);
- base-delta compression: a faithful dictionary (`ScanFaithful`), the best
  bases (`TopBasesBest`), a stream that loses no bit (`StreamExact`) and can be
  decoded (`StreamDecodes`), sizes that are right (`SizeExact`) and enough
  (`PagesSuffice`), an end with no page left out but at the end of the trace
  (`DeltaEnds`);
- trace readers: page `k` is record `k` with block `k`, a load stops exactly
  where no record can be read, fails exactly when blocks are missing, and adds
  nothing to what an earlier one left (`LoadExact`); no page, buffer or block is
  lost (`NothingLost`); every call returns (`LoadReturns`);
- command line: repeated options, and the arithmetic of `-s` (`LastDecides`);
- programs: the exit status tells what happened, unknown options included
  (`StatusExplained`), the measured region is closed and holds what it should
  (`RegionMeasures`), what is restored stands in the data file where the trace
  says (`RestoredFromFile`), an end (`ProgramEnds`);
- codecs: a page is compressed without loss (`PrefixEncoded`), everything stays
  inside the buffers the wrapper allocates (`LZ4TypeOK`, `LZOTypeOK`), the rules
  of the formats that decoding relies on hold (`AssertionsHold`, `LowBitsFree`),
  and each class implements what the programs expect of a codec, whose decoder
  accepts every block its compressor makes and returns the page
  (`ImplementsCodec`, `LZOImplementsCodec`);
- script driver: each script started or reported once (`StartedOrReported`),
  those that exist run (`PresentScriptsRun`), the driver ends (`ShellEnds`).

## Modules

| module | what it is |
|---|---|
| `Globals` | the slot size, which `parse_args` assigns and the packing loop reads |
| `SwapOut` | the packing loop and the slot it fills |
| `SwapIn` | EXTENDS `SwapOut` with the replay: the whole of the reader program after its trace is loaded |
| `SwapArea` | what the two halves promise together, without slots, offsets or bytes |
| `TraceFiles` | trace files, one call of `fscanf`, and what a load of such files yields, stated without a loop |
| `TraceReader` | the two trace readers over such files |
| `Args` | `parse_args` of the three programs |
| `Programs` | EXTENDS `SwapIn`, `Args` and `TraceFiles`: the three `main` functions |
| `DeltaComp` | the base-delta compression of the pages of a trace |
| `Codec` | what a codec class promises: a block that fits its buffer, and the page back |
| `ByteStrings` | what the codec modules share |
| `LZ4Compress`, `LZ4Decompress` | the two LZ4 functions the wrapper calls; the second EXTENDS the first and decodes what it made |
| `LZOCompress`, `LZODecompress` | the same for LZO |
| `TestAll` | `test-all.sh` and the processes it starts |
| `SwapInProofs`, `TraceFilesProofs`, `TraceReaderProofs`, `ProgramsProofs`, `DeltaCompProofs`, `LZ4Proofs`, `LZOProofs`, `TestAllProofs` | theorems about the module of that name and their proofs, for TLAPS |
| `MC...` | values for the constants, for TLC |

### SwapOut

`pc` is the point of the loop: `"compress"` is its head, `"insert"` the call of
`InsertCompressedDataPage`, `"stored"` the end and `"compress_failed"` the error
return. `dataPages`, `i`, `compressedPage`, `slot_list`, `slot_tree` and `slot_size`
are the variables of the same names (`i` starts at 1, and a pfn that is not a key of the
tree is mapped to 0). `slots` holds every `ZRamBufferSlot` allocated;
`current_slot` is always the last one. A pointer to a slot is its index.
`live` counts the `DataPage` objects the loop owns. `placed` and `opened` are
history that only properties read.

`CompressDataPage` and `CompressFailed` are the two outcomes of the codec call,
`InsertStored` and `InsertRefused` the two branches after the insertion, each
with the `delete` and the increment that end the loop's body, and `FinishStore`
is what follows the loop.

Data is abstract: byte `k` of the compressed form of content `d` is the pair
`<<d, k>>`, so a byte in the wrong place, of the wrong page, or never written
can be told from the right one. The codec is external. Its contract
(`CodecAssumption`) is that it either reports an error or turns equal contents
into the same non-empty sequence of bytes, of any length: an incompressible page
grows. That each of the two codecs keeps this contract, and without an error, is
what the codec modules are for.

### SwapIn and SwapArea

`rpc` is the point of the replay. One step is one iteration of the scan in
`GetCompressedDataPage`, with its local `j` and `data_offset`, which lets
`ScanAligned` compare the offset the scan adds up with the one packing used.
`Decoded` is the codec's other half: bytes it produced decompress to what they
came from, others may be reported or turn into some other page. The error
returns of the program are values of `rpc`, and stop it.

`SwapArea` keeps, for every frame, the contents that were not lost, and answers a
swap-in with any of them. `SwapIn` implements it under the mapping that collects
the contents of a frame out of all slots (`KeptData`). That the answer is one
particular version is `RestoredExactly`. The `DataPage` objects of the replay, which
nothing deletes, are not counted.

### TraceFiles and TraceReader

`fscanf("%d,%d\n")` knows no lines: to `%d` and to `\n` an end of line is white
space like any other. A `.meta` file therefore is not a sequence of lines here,
but of the four things that call can tell apart: a number, a comma right behind
what comes before it, a sign without digits, and anything else. `Fscanf` is one call, with
what it leaves unread for the next. A record needs a number, a comma and a number.
`5,` on one line and `6,7` on the next are the record 5, 6, with `,7` left over;
of `5abc` the number is gone and `abc` is left; and `1,2 3,4` on one line is two
records. Only a sign is lost beyond what is assigned, since `%d` has read it
when it fails.

`Records` says what a file yields without a loop: the records it begins with, up
to the first place where none can be read. Whatever stands there ends the load,
with success. A `.data` file is a sequence of blocks; an incomplete last block
can never be read, so it is not one.

`pc` is the point of the reader: `"unopened"`, `"idle"` between calls, then
`"scan"`, `"read"` and `"push"` in the loop of `LoadTrace`. `loaded` is
`dataPages` or `ops_records`, by the kind of `reader`. `Construct` may also end
the program, for a file that does not open. `LoadRefused` covers both early
returns: something is loaded already, or the buffer cannot be allocated.

### Args

One step is one option that `getopt` returns. `Accepted` is the option string of
each program; an option outside it, or one without its argument, leads to the
usage text and `exit(1)`. (The usage text names `-b`, which no option string
has.) `-s` is `ToUnsignedLong(ToInt(optarg * Kb))`: the int product wraps
around in the unoptimised build the makefiles ask for, and its sign is extended.
The result is the `slot_size` of `SwapOut`, shared through `Globals`.

### Programs

`mpc` is the point of `main`, `region` whether the code is between `zsim_begin`
and `zsim_end`. The packing steps are those of `SwapOut`, the replay steps those
of `SwapIn`; the files are loaded by what `TraceFiles` says a load yields, which
`TraceReader` shows (`LoadExact`). Which files can be opened, and what they hold,
is chosen only for files the program gets to open and read. `Exit("killed")` is the division by zero of a
base-delta run over an empty trace (D:492), or a `memcpy` to a slot that has no
buffer (`InsertCrashes`, Z:148): after `-s -1` a slot has 2^64 - 1024 bytes, its
constructor does not look at what `malloc` returns, and its bound check lets
every page in. `malloc` is external; it is taken to refuse what no object can have the size
of, half of the address space or more (`NoObject`), and to provide everything
less. `BaseDelta` is one step, because the
compression touches nothing of the rest: `DeltaComp` is its inside.

### LZ4Compress and LZ4Decompress

The functions as the wrapper calls them: a page of less than 64 KB, a
destination of `LZ4_compressBound` bytes, and so no output limit, a table of
16-bit positions, no dictionary, acceleration 1. One step is one iteration of
the search or one block of the main loop. The numbers of the format are
constants; the hash is any function of the bytes hashed. `touched` is how far
the destination has been written to, with what `LZ4_wildCopy8` and
`LZ4_write32` write in advance.

`Meaning` reads a block as the format describes it, one sequence after the other
(`SequenceRead`), without any of the decoder's
shortcuts; it is the reference for the compressor. The decoder is the full
block, no dictionary variant with the fast loop. `text` is what has been
decoded, `wrote` and `fetched` are how far page and block have been touched.
What the compressor reads of the page, by words beyond what it needs, is not
tracked. `Copied` is a copy in chunks, of which a chunk that overlaps its own source
yields `Junk`: `Widened` (the two tables of LZ4:453) is what avoids that. Its
error exits are there, as `dpc = "error"`; a block the compressor made never
takes one (`ImplementsCodec`), so no run reaches them.

`Codec` is the abstract specification of both classes of Z:46-118: it knows the
page, the size of its block and what came back. `LZ4Decompress` implements it
with `LZ4_compressBound` as the capacity, `LZODecompress` with the one the
wrapper computes at Z:58.

### LZOCompress and LZODecompress

`lzo1x_1_compress` with its chunks, whose left-over literals (`ti`) are passed
on, and `do_compress` inside it, in the variant that x86-64 builds: dictionary
of 16-bit positions, words of 4, 8 and 16 bytes. `EqualWords` and
`StoppedByEnd` are the comparison by words, which may stop short of the longest
match at the end of the search area. A chunk is begun when more than
20 bytes are left, and at least 32 with the literals left behind (`ChunkAhead`, LZO:5229): a shorter page,
or rest of a page, becomes literals. `matched` is history. One step of the decoder is one instruction;
`dpc` is its label. The limits are constants, so that short pages use all of the
instructions; a page of 4096 bytes never needs M4 matches or a second chunk,
which the scaled instance does.

### DeltaComp

The program's sizes are constants. In the code `BaseBits` is 24, `LowBits` 8
(`len_base` is 6), `LogBases` 3, `ByteBits` 8, `CountBits` 32, `PageBytes` 4096,
`PageWords` 1024, `InputPages` 3. `base_array`, `baseid_array`, `top_bases`,
`compressed_count`, `num_pages_needed`, `base_buffer`, `data_buffer`,
`byte_count` and `total_slots` are the variables of those names, `base_count` is
`base_count_map`, `n` the index of whichever loop is running. `base_to_id` is
the inverse of `base_array` and is not kept. `val_array`, which nothing reads, is
left out. `stream_val` with its `bit_count` is the sequence of meaningful bits:
the 64-bit integer holds at most 7 old bits and 33 new ones, so its width does
not matter. `written` is history.

`ScanKnown` and `ScanNew` are the two branches of the first loop (the code's
special case for the first word is the second branch for an empty dictionary).
`SortBases` begins the ranking, and each `ChooseBase` takes one of the commonest
bases left, any of those of equal count, since `std::sort` is not stable.
`SizeUp` is the estimate and the decision; `CopyBase` one iteration of
the loop over `base_buffer`, where a read beyond `top_bases` yields `Garbage`;
`EncodeCompressed` and `EncodeRaw` one word each; `Flush` the last byte.

A trace holds whole pages of one size, as the trace reader builds them, so the
average page size the program computes is that size.

### TestAll

A script that exists is started by a subshell in the foreground that puts
`cd ... && bash ...` in the background and exits (`ForkSubshell`, `Background`,
`ExitSubshell`). `parent` records whose child that process is, because the
`wait` at the end waits for children of the shell only.

## Runs

| run | instance | what it shows |
|---|---|---|
| `swap_in` | all traces of up to 4 pages, 2 frames, contents of 1, 2 and 4 bytes and one that the codec rejects; slots of 0, 2 and 3 bytes; all replays of up to 2 records | the packing and the replay properties hold, and `SwapArea` is implemented |
| `delta_comp` | words of 12 bits, 2 to a page, 4 pages to a group, 2 top bases; all 6561 ways to give 8 words one of 3 bases; no page, less than a group, two groups and a page | the compression properties hold |
| `test_all` | 4 scripts, any of which may be missing | the driver's properties hold |
| `trace_reader` | both readers, all `.meta` files of up to 4 pieces, each a record or a single number, comma, sign or text, 0 to 3 blocks, up to 3 loads | the readers' properties hold |
| `programs` | 3 programs; all command lines of up to 3 of 17 options without `-f`, 5 that measure something, 7 that set a slot size before that, and 2 with something unknown behind it; int of 5 bits, unsigned long of 7, a kilobyte of 4 bytes; every set of files that open, traces of up to 2 records or fragments and 2 blocks, replays of 2 records, both empty and malformed ones | the properties of the command line and of the programs hold |
| `lz4` | a format with 3 and 7 as the largest lengths in a token, bytes of 5 bits, chunks of 4; all pages of up to 9 bytes of two values, and shaped ones of up to 220 | all LZ4 properties hold, and `Codec` is implemented |
| `lzo` | offsets of 6 and 30, lengths of 8 and 10, run bytes of 16, chunks of 70; shaped pages of up to 200 bytes, also too short for a chunk | all LZO properties hold, and `Codec` is implemented |

The bounds. A slot of 0 bytes refuses every page, one of 2 holds two small pages
or a large one. In 3 bytes a slot can be filled exactly in three ways, can be left
with room for a small page when a large one comes, and is too small for the
largest content; four pages are enough to seal two slots with pages in them, to
swap a frame out again into the same and into another slot, and to end on a
refused page. Two records are enough for two different frames, the same frame
twice, and a frame that was skipped. In `delta_comp`, a group is worth
compressing when 7 or 8 of its 8 words have one of the two top bases; with 8 the
stream ends inside a byte of 3 bits and with 7 at its end. Codes are 5 and 13 bits long,
so that bytes are crossed at every phase, and groups with one, two and three
distinct bases occur. The scripts of `test_all` are handled alike, and
four of them show a loop that is ahead of and behind what it started.

In `trace_reader` four pieces are enough for a record with a fragment in front of
it and behind it, for records made of pieces of two lines, and for two records
with something between them; a third
load shows what is left after a failed and a refused one. In `programs` three
options are two of a kind and one between them; the sizes include both ends of
the int range in bytes and the first values beyond. Command lines with all files
keep the default slot of 3 bytes, set one of 0 or of 4, one no `malloc` provides, or
one of either kind by an overflow; the others end with the usage text or with a
trace that cannot be opened. Two records are
two frames or one frame twice, in a slot that holds one large page or two small
ones, or pages a codec refuses. A shaped page of the codec runs is fresh bytes,
a repetition with some period, fresh bytes, a copy of the beginning and fresh
bytes, each part of several lengths: together they reach every branch of both
compressors and, but for the error exits, of both decoders. The scaled formats
make lengths continue over several bytes and reach the ends of the buffers with
every phase. The numbers of a format are constants of its module, related only
as the code relates them (`FormatAssumption`, `LZOAssumption`).

Deadlock is not checked in any run because every one of these programs stops.

Disagreements. These runs check one property each that a document, a comment or
a message of the repository states, and TLC finds a behaviour of the code that
breaks it. Each is a finding in `PROJECT.json`.

| run | what is said | what the code does |
|---|---|---|
| `every_page_stored` | README: every page is compressed and stored | the page on which a slot overflows is dropped (W:87-95) |
| `newest_restored` | W:92: "if the pfn is already in the tree, update it" | with both versions in one slot the older is restored (Z:163) |
| `bases_exist` | D:178: `num_bases` is bounded by the bases there are | `base_buffer` is filled from `num_bases` of them (D:257) |
| `last_bits_kept` | D:346: "preserve the remaining bits" | the last byte is all ones where they should be (D:405) |
| `all_completed` | T:17: "All scripts have completed." | the `wait` has no child to wait for (T:8, T:16) |

Four more have no run of their own. A new slot is opened "if the current slot is
full" (W:90), but a page larger than a slot seals slots that are empty; what is
true is `SealOnlyWhenFull`. There is no "memory leak during the execution"
(R:151), but the replay deletes neither of the two pages of a record it restores
(R:135-144); no property forbids that, and the model does not count them. "All
the pages" are copied (D:475), but for those beyond the last whole group
(D:510): `DeltaEnds`. And "set buffer size to optarg (unit: kb)" (W:31)
holds up to 2^21 KB, from where on the int product overflows:
`LastDecides` asks for no more than that.

The violated properties are as weak as the sentence allows: `EveryPageStored`
asks only for pages that fit an empty slot, `NewestRestored` only for versions
that some slot still holds.

Fairness. `SwapOut`, `SwapIn`, `DeltaComp`, `Programs` and the codecs are one
thread that nothing blocks, hence weak fairness of the next-state relation. In
`TraceReader` it is assumed of a running `LoadTrace` only: nobody has to call
it. In `TestAll` the
operating system schedules every process, hence weak fairness of the shell and
of the start of every background process; nothing says that a script ends, and
no fairness is assumed of that.

## Proofs

TLAPS proves all 29 invariants the passing runs check, the action property
`RegionMeasures`, that `SwapIn` implements `SwapArea`, and that both codecs
implement the safety part of `Codec`, the page that comes back included: for
every number of frames, contents, pages, files, scripts and options, every slot
size, set by default or by `-s`, and every size of the formats, within the assumptions below. Only
`LZ4TypeOK` asks for more of a format, what LZ4's has (`RoomyFormat` and
`SafeDistances`, under LZ4).

| module | theorem | property |
|---|---|---|
| `SwapInProofs` | `StoreTypesCorrect`, `StoreNeverLeaks`, `OneLostPerSealAlways`, `SlotLayoutAlways`, `TreeLatestAlways`, `SealOnlyWhenFullAlways`, `SlotListExactAlways` | `StoreTypeOK`, `StoreLeaksNothing`, `OneLostPerSeal`, `SlotLayout`, `TreeLatest`, `SealOnlyWhenFull`, `SlotListExact` of the packing loop alone |
| `SwapInProofs` | `StoreStaysCorrect` | the same of the program that goes on to replay |
| | `ReplayTypesCorrect`, `ScanAlignedAlways`, `ReplayNeverFailsAlways`, `RestoredExactlyAlways` | `ReplayTypeOK`, `ScanAligned`, `ReplayNeverFails`, `RestoredExactly` |
| | `AreaImplemented` | `ImplementsArea` |
| `TraceReaderProofs` | `NothingLostAlways`, `LoadExactAlways` | `NothingLost`, `LoadExact` |
| `ProgramsProofs` | `StatusExplainedAlways`, `RegionMeasuresAlways`, `RestoredFromFileAlways` | `StatusExplained`, `RegionMeasures`, `RestoredFromFile` |
| | `LastDecidesAlways` | `LastDecides` |
| | `HalvesStayCorrect` | packing and replay inside the programs |
| `DeltaCompProofs` | `DeltaTypesCorrect`, `ScanFaithfulAlways`, `TopBasesBestAlways`, `StreamExactAlways`, `StreamDecodesAlways`, `SizeExactAlways`, `PagesSufficeAlways` | `DeltaTypeOK`, `ScanFaithful`, `TopBasesBest`, `StreamExact`, `StreamDecodes`, `SizeExact`, `PagesSuffice` |
| `LZ4Proofs` | `AssertionsHoldAlways` | `AssertionsHold` |
| | `LZ4TypesCorrect` | `LZ4TypeOK` |
| | `PrefixEncodedAlways` | `PrefixEncoded` |
| | `BlockIsBytes`, `BufferSuffices`, `DecoderStaysInside` | its parts, each under the assumptions it needs |
| | `LZ4RoundTrip` | the page returned in `ImplementsCodec` |
| | `LZ4ImplementsCodecSafely` | every step of it, `ImplementsCodec` without its fairness |
| `LZOProofs` | `LZOTypesCorrect`, `LowBitsAlwaysFree` | `LZOTypeOK`, `LowBitsFree` |
| | `LZORoundTrip` | the page returned in `LZOImplementsCodec` |
| | `LZOImplementsCodecSafely` | every step of it, `LZOImplementsCodec` without its fairness |
| `TestAllProofs` | `StartedOrReportedAlways` | `StartedOrReported` |

`TraceFilesProofs` has the lemmas on the operators of `TraceFiles` that the two
modules using them share.

### The arguments

Packing. `StoreTypeOK` is not inductive: that `i` stays in range while
a page waits for insertion, and that the waiting page is the compressed form of
page `i`, has to be known. `Pending` says so, `HistoryPerSlot` gives every slot
its history, and `Base`, the conjunction of the three, is inductive
(`BaseInit`, `BaseStep`). Every other theorem is proved relative to it.
`SlotLayout` needs `Below`: every entry ends at or before `offset`, so an
insertion, which writes from `offset` on, disturbs none of them
(`InsertKeepsLayout`); since the two are proved together, the invariant is
`Layout`. `SlotListExact` speaks of the end only and follows from
`Listed`, which says what `slot_list` is at every step. `OneLostPerSeal`,
`TreeLatest` and `SealOnlyWhenFull` are inductive given `Base`.

Replay. A replay touches no variable of the packing loop, so `Stored` (`Base`,
`Layout`, `TreeLatest`, and that no page in a slot is one the codec rejected)
stays true, and is all the replay needs to know. `Replaying` adds what it
knows of the record it is at: the slot the tree named, that the scan has
passed no entry of the frame (`ScanAligned`), that what it fetched is the compressed
form of the first entry (`Fetched`), and that the answers given so far are
right. That the scan cannot run off the end of a slot, the error return, is
`TreeLatest`: a slot the tree names has an entry of the frame. The refinement
maps an insertion to a `Keep`, a step that answers to a `SwapIn` or a `Skip`, and
everything else to a stutter, which for a slot that is opened takes the lemma
that `KeptData` does not change.

Readers. `LoadExact` speaks of a reader between calls and does not say where in
its files it is. `Following` does: `InStep(start)` says that earlier loads skipped what is before
`start`, where no record could be read, that `loaded` has the records from there on,
each with its block, and that both files are read up to the same record; `Account`
adds who owns what. A swap-out reader with an empty data file is the
exception (`Astray`): each call takes one more record off the `.meta` file and loads nothing.

Programs. `Going` takes `Stored`, `Replaying` and `OneLostPerSeal` along, from the
moment the first slot is made, of the size `parse_args` has settled by then; what is
new is `Whereabouts`, what `main` has made sure of at each of its points. A page
has the size of an object (`SizeAssumption`), so that the first page always fits a
slot no `malloc` provides, and the program is killed there.
`RestoredFromFile` follows from it, from `AnsweredRight` and the layout, and from
the lemmas on loaded pages. `LastDecides` needs `Deciding`: while options are
still being read, the settings are those of the options read so far (`InForce`),
with the codec not chosen yet where none of them names one. That a size whose
bytes fit an int survives both conversions (`SizeSurvives`) holds for every
width of the two types.

Base-delta compression. `Compressing` has the groups whole (`Grouped`), the
dictionary of the words scanned with their counts as cardinalities (`Scanned`),
the chosen bases at least as common as every other (`Chosen`), and the place of
every bit (`Streamed`, with `Packed`). `StreamExact` and `SizeExact` are read
off `Streamed`; `PagesSuffice` is arithmetic on the estimate; `TopBasesBest` needs
an exchange argument on cardinalities, since it compares with every other choice.
`StreamDecodes` speaks of a reader, whose position after so many words and whose
value of so many bits are recursive functions. `Readable` says that there is a
list of places where the words begin, the code of each at its place (`Laid`). That
list satisfies the reader's recursion, and no other function does, since two
that differ would differ first somewhere (`BehindIs`); in the same way the bits
of a number are read as that number (`ValueBits`).

LZ4. `Searching` says where the search may be at each block of the main loop,
and that the table has only positions it has passed (`Recorded`): an
entry can be ahead of the position a match starts at, because the search went
on while the match was extended backwards, but never by more than the match
is long. `BufferSuffices` rests on `Fits`: the block is never longer than the
part of the page it stands for by more than that part has whole 255s. It needs
what is called `RoomyFormat`: a match of 4 bytes pays for its token and its
offset, and 16 bytes of slack are room for the last run and a wild copy of 8.
LZ4 has these numbers; the scaled format of the `lz4` run has matches of 2 bytes,
so there TLC shows the bound for its pages only. `AssertionsHold`,
`BlockIsBytes` and `LZ4RoundTrip` need no such hypothesis.

What a block means is said by a list of sequences (`mark`),
which the compressor is thought to keep: `Written` says that the block is their
encoding, one after the other, each sound for its part of the page, and `Whole`
that together they stand for all of it; `Tape` is that for a compressor at work.
`Reading` says that the decoder is at a sequence of that list, or between its
literals and its match, with the page decoded up to there. A step of the decoder
then reads one run or one match whole, and `LengthRead` and `TokenRead` say that
it reads what was written. The copies of a match that overlaps itself are in
chunks, from a source that is moved back first: `WidenedIs` says that the
widened distance is a multiple of the offset, so that the period is kept
(`PeriodicIs`) and no byte is read before it is written. `Extents` bounds what
the chunks reach beyond what they were asked for. It needs `SafeDistances`: a
length in a token is no longer than the fast loop checked for, and a chunk that
overshoots the last match that may be copied so stays in the last literals (15
and 15, 4 and 8, 8 and 5 + 3 in LZ4; the run's format has this too).

`PrefixEncoded` is about another reader, who knows the format and not the list.
A sequence read whole takes that reader from one element of the list to the next
(`SequenceReadIs`), with the bytes of the page the element stands for. What has
been read after `k` sequences is a recursive function; that it exists
(`ReaderExists`), and that it is at an element at least `k` bytes from the start
or at the end (`MeaningIs`), are shown by the least number for which they would
not hold. After as many sequences as the block has bytes only the end is left.

LZO. Here too the round trip is proved by a list instead of by reading.
`Positions` is for this compressor what `Searching` is for the other; from it
follow the distances, and the size of the block: an element is never longer than the
part of the page it stands for by more than a byte for every sixteen, and what
the wrapper allocates has that slack. `Tape` says that a list of instructions (`mark`), which the
compressor is thought to keep, corresponds to the block. `Written`: the bytes of
the block are those of its elements, one after the other; `Sound`: each element
stands for the part of the page it is said to (a match repeats what is already
there, literals are the page's); `Stored`: it is written as the decoder
reads it. Up to three literals are written into the two low bits of the match
before them, after that match is out: `LowBitsFree` is what lets the last element
change without its first byte being taken for another instruction. It is also stated for
the literals at the end of the block (LZO:5247), where the code has that branch;
no page of the run takes it, since a search leaves more than three bytes behind. `Decoding`
says that the decoder is at an element of the list, or behind the last, with the
part of the page decoded that the elements before it stand for. One instruction
then takes it to the next element, and no reading of the whole block is ever
needed. That a copy which overlaps itself gives what the compressor compared is
the lemma `PeriodicIs`.

Driver. `StartedOrReported` says nothing of the script the loop is at; `AtScript`
adds that nothing has happened to it yet, and `Types` what the variables may be.

### The assumptions

All are stated in the modules and evaluated by TLC in the runs. Of the data:
every content has a positive compressed size (`CodecAssumption`), the slot sizes
are natural numbers, 0 included (`SlotAssumption`), traces and replays are
sequences of pages and records (`TraceAssumption`, `ReplayAssumption`,
`PagesAssumption`), files are sequences of tokens and blocks (`FileAssumption`,
`FilesAssumption`), the lists of scripts and options are finite, an option is a
letter with its argument, and sizes are within the int range
(`ScriptAssumption`, `ArgAssumption`), a page of a codec
is not empty and below 64 KB (`PageAssumption`). Of special values: no page is
the null pointer (`NullAssumption`), nor is an object of a codec class
(`CodecNames`), the marks of an answer without a page are
not contents (`AnswerAssumption`). Of the numbers of a program: those that the
code's own numbers satisfy and the proofs use (`SizeAssumption`,
`WidthAssumption`, `FormatAssumption`), among them that a page is smaller than half of the address space and the default
slot size no larger than the largest int. `LZOAssumption` has two that are easy to
miss: a length byte stands for at least 16, as the 255 of the code does, or the
wrapper's sixteenth of slack would not pay for long runs; and a chunk is
longer than its margin and no longer than an M4 offset reaches (49152 at
LZO:5226), or a distance would not fit its field.

### Only model-checked

Liveness: `ReplayEnds`, `DeltaEnds`, `LoadReturns`, `ProgramEnds`,
`PresentScriptsRun`, `ShellEnds`, and the fairness in `Codec!Spec` for both codecs.

## Not modelled

- Of the vendored codecs, everything the programs do not reach: streaming,
  dictionaries, limited output, inputs above 64 KB and partial decoding in
  `lz4.c`; `lzo1x_decompress_safe` and the portability layers and self-tests of
  `minilzo.c`; and the files that are linked into no program (`lz4frame.c`,
  `lz4hc.c`, `lz4file.c`, `xxhash.c`). These, and a second copy of all of it
  under `delta/` that is identical, are most of the lines of the repository: the
  modules cover all of the programs' own C++ and the paths into the codecs, and
  those are a small share of it.
- The inside of `zsim_begin` and `zsim_end`, which are defined outside the
  repository.
- The arithmetic of the codecs' hash functions: a hash is any function, and
  which one only decides which matches are found.
- Experiment scripts of one command, configurations, and the recorded results.
- Wording and layout of the output. The printed counts are there as
  `slot_list` and `total_slots`.
- Failure of `malloc` and `new`, but for the one the code handles (the page
  buffer of `LoadTrace`) and the slots that no object can have the size of.
- The `DataPage` objects of the replay, and what the LZ4 compressor reads.

## Plan

The order is by weight: packing and replay are the program, the compression is
its variant, and the rest surrounds them.

1. Done: `SwapOut`, `SwapIn`, `SwapArea`, `DeltaComp`, `TestAll`, and
   the proofs of `SwapOut`.
2. Done: `TraceFiles`, `TraceReader`, `Args`, `Programs`, and the codecs.
3. Done: the proof modules listed above.
4. Done: `LZOProofs` and `LZ4Proofs`, compressor, decoder and round trip.

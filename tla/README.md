# A verification model of XnYZip

XnYZip compresses point clouds with a bound on the error of each point. One binary
(`XnYZip`) works on one file, another (`XnYZip_mpi`) shares a large file among MPI ranks,
a third (`XnYZip_mr_decompress`) reads back what the `mapreduce` mode of the second wrote.
This directory models the distributed programs, both codecs and the entropy coders under
them in TLA+, checks the models with TLC on small instances, and proves with TLAPS, for every
size, what matters most of the map/shuffle/reduce job, the driver, the reader, both codecs, the
entropy coders and the quantizers.

## 1. The system

| part | source | state it keeps | operations | interacts through |
|---|---|---|---|---|
| MPI driver | `source/mpi_driver.cpp` `main`, `parse_args` | options, file size, shared codebook, block counter, two output files, totals | check arguments, open, fit and broadcast the codebook, compress a block, flush, gather, write summary and index, abort | MPI collectives, the output directory |
| map/shuffle/reduce job | `source/mpi_driver.cpp` `run_mapreduce` and the partition functions | offset, local cell table, extent, splitters, owned table, part file, manifest line | scan, quantize, sample, choose owners, exchange, add up, encode, write | MPI collectives, the RLE codec |
| part reader | `source/mr_decompress.cpp` | list of parts, output | list, sort, decode, expand, stop on an exception | the output directory |
| quantizers | `source/quantizer/{cube,truncated_octahedron,adaptive}_quantizer.hpp` | none (adaptive: parameters) | quantize, recover | called by the codecs and by the map phase |
| block quantizer | `source/quantizer/block_quantizer.hpp` | none | cells to block numbers, quadrants and codes; sort; differences; back | called by the codecs |
| space-filling curves | `source/preprocessor/z_order_curve.hpp`, `source/quantizer/hilbert-curves-cpp` | none | Morton code and back; Morton to Hilbert | block quantizer, partitioning |
| RLE codec | `source/composer/block_compressor_rle.hpp`, `block_decompressor_rle.hpp` | cells, counts, chunk | `compress`, `encode_cells_with_counts`, `decompress`, `decompress_to_cells`, `expand_cells_to_points` | the above and the entropy coders |
| per-point codec | `source/composer/block_compressor.hpp`, `block_decompressor.hpp`, `block_encoding_profile.hpp` | shared codebook | `compress`, `fit_profile`, `compress_with_profile`, `decompress` | driver (`-normal`), command line tool |
| entropy coders | `source/encoder/*.hpp` | mode, parameter and code table of a `HuffmanEncoder` | Huffman and exponential Golomb, Golomb-Rice, bit packing, PForDelta | called by the codecs |
| command line tool | `source/main.cpp`, `source/io/fileUtils.hpp` | the points it read, reordered by `compress` | read a file or a chunk, compress, decompress, compare | codecs |
| chunk sweep | `chunk_sweep.py` | list of chunks | tile a file, run the tool on each chunk | command line tool |
| the rest | `source/statistics`, `source/composer/utils.hpp`, `scripts/` | | timing, zstd, batch jobs | |

What is hard here:

* **Agreement without a coordinator.** Each rank computes the owner of a cell on its own, from
  an offset, an extent and splitters it got out of reductions. If two ranks differ in one of
  them, a cell is counted twice, under two owners, and nothing notices. Correct: one owner per
  cell, and the parts together are the census of the input.
* **Matching collectives.** Which collectives a rank calls depends on options and on what it
  holds. A rank without blocks or cells must still call all of them. Correct: all ranks call
  the same ones in the same order, and all come to an end.
* **Failure.** A rank can abort in any phase, a process can be killed, the batch system can end
  the job, with output still in buffers. Correct: the job's `summary.json` is complete only if all
  that the manifests say has been flushed.
* **Numbers.** Counts are cut off at `INT32_MAX`, coordinates of -1 become the largest word,
  codes keep 21 bits per coordinate, block numbers are products of 64-bit words, a rank is a
  double converted to `int`, which may not fit.
* **Two sides of a codec.** What the writer resets, sorts and reorders, the reader must reset
  and reorder at the same places. The same encoder object is built twice and keeps its mode;
  a codebook made for one block is used on all others; streams end in padding that looks like
  codes.
* **Order of points.** `compress` reorders the caller's vector, and the caller compares it index
  by index with what comes back. A reordering that lost a point would pass that check.
* **Leftovers.** Several jobs write into one directory and nothing is ever removed: parts of ranks
  the last job did not have, and a summary over parts that a later job has truncated.

`PROJECT.json` lists each hazard at its line with the properties that are about it.

## 2. The modules

`Quantizers` (pure). Cube and truncated octahedron quantizer on integer coordinates: `Pitch` is
the lattice step the code divides by, so 4·bound² is the integer 3·`Pitch`² or 5·`Pitch`².
Float rounding is left out: divisions are exact.

`MpiComm`. A rank's call log: `Post` enters a collective with a contribution, `AllEntered` says
when a synchronising collective may return, `Column` is what it delivers, `CallsMatch` compares
the logs. This is MPI's contract and not code of the repository.

`MapReduce` (extends both). `run_mapreduce`. `pc[r]` names the collective in which rank `r` is
blocked, or its local phase; an action takes a rank from one collective to the next, which
loses nothing because ranks interact in no other way:

| action | code (`mpi_driver.cpp`) |
|---|---|
| `ScanBbox` | minimum over the rank's blocks, both bounding-box reductions |
| `MapQuantize`, `MapFails` | shift, quantize, count; reductions of the extent; abort 8 |
| `ChooseSamples` | samplesort: the reservoir sample and its Allgather(v) |
| `ShuffleBySamples`, `ShuffleByCode` | splitters, owner of each cell, Alltoall(v) |
| `Reduce` | adding up what was received |
| `EncodeAndWrite`, `EncodeFails` | encoding, part file and flush; abort 9 |
| `WriteManifest` | manifest line (its content is left to `MpiDriver`), return |
| `Killed` | another rank called `MPI_Abort` |

Adjacent collectives with nothing computed in between are one. The sample is any subset of the
right size (the order of an `unordered_map` is unspecified), the hash function is any fixed
mixing of the coordinates. The partition by prefixes divides a code by the length of a curve that
just holds the largest coordinate and multiplies by the number of ranks; for a cell at z = -1 the
result may be beyond `int`, and the conversion is then undefined. `ToInt` gives `IntOverflow`, a
constant that may be any integer: what the build's conversion gives, `INT32_MIN` on x86-64 and
`INT32_MAX` on AArch64. Only then does `ClampRank` bring it into the ranks. `part` holds the table
that went into the file; how it is coded is `BlockCodec`'s matter.

`CellCensus` is the abstract specification of that job: a census published cell by cell, each
once and with its true count. `MapReduce!PublishesCensus` is the refinement.

`MpiDriver` (extends `MpiComm`). `main`: one action per phase, `CompressBlock` per turn of the
block loop, one failure action per `MPI_Abort`, `ProcessDies` and `Killed` at any point. The
two output files are buffered (`data`, `saved`, `pos`, `ok`): a process that dies loses any
suffix of each. A flush hands the data to the operating system, where it survives the process;
that a node goes down before its disk has the data is not modelled. A compressed block is a chunk
with an offset, a size and the codebook used; the roundtrip check is one of the ways a block fails.

The output directory is empty at the start or has the files of an earlier job that finished:
`stale` are the ranks whose part and manifest are still that job's. `OpenOutputs` truncates them;
the earlier `summary.json` and index stay until rank 0 creates its own. Both are written in two
steps (`CreateSummary`, `CloseSummary`, `CreateIndex`, `CloseIndex`) and are torn in between.
`AllOrNothing` is the abstract specification: a reader who trusts the complete `summary.json` of
this job can recover nothing yet, or every item.

`BlockQuantizer` (pure). What both codecs do to a sequence of cells: `block_quantize` and its
inverse, Morton codes, differences and PForDelta, with words of `WordSize` values. The curve
through a block is a constant, any one-to-one function, so that it stands for Morton and for
Hilbert. The direct mode sorts by Morton codes here; the program converts these to Hilbert codes
when `-h` is given (`block_compressor.hpp:100`, `block_compressor_rle.hpp:164`) and back when it
reads, which is one-to-one on cells with non-negative coordinates and left out. So is the number
2^64 - 1 that stands for "no previous block" in `block_quantize` and that a wrapped block number
could equal.

`BlockCodec` (extends it). Both entry points of the RLE compressor, block and direct mode, and
both decoders. `Pour` is the unspecified order of the hash table, `CrashOnNothing` what `compress`
does in direct mode without a point (undefined behaviour).

`PointCodec` (extends `BlockQuantizer` and `Quantizers`). The per-point codec together with the
programs that call it, from the bytes of the input to the comparison of recovered points with the
vector that was compressed:

| action | code |
|---|---|
| `ReadFile` | `read_file` (`fileUtils.hpp`) |
| `ReadChunk`, `RefuseChunk` | `read_file_chunk` with the flags of the tool, or those of a chunk of `chunk_sweep.py` |
| `ReadBlock`, `RefuseInput` | the block loop of the driver; its check of the input's size |
| `FitProfile` | `fit_profile` on the first block |
| `CompressDirect`, `CompressBlocks` | the two modes of `compress`, with the vector reordered |
| `CrashOnNothing` | the direct mode on no points (undefined behaviour) |
| `CompressWithProfile` | `compress_with_profile`, or the exception at a symbol without a code |
| `Decompress`, `Report` | `decompress`; the caller's comparison, then the next chunk |

A point is its place in the input, so that a lost or repeated point is told from one that only
has an equal neighbour. The order in which an unstable sort leaves the points of one cell is any.

`BitStreams` (pure) and `StreamCoders` (extends it). The streams both codecs call `deltas`,
`patches`, `blk`, `cnt` and `counts` go through the coders here, bit by bit: `BitPacker`,
`GolombRiceCoder`, and `HuffmanEncoder` in both of its modes. `StreamCoders` has an action per
operation: `Merge` is a turn of the loop of `build_from_freq`, with every choice among trees of
equal weight; `BuildComplete` is `build_complete`; `Encode` throws at a symbol without a code;
`Reconsider` is the compressors' second build of the encoder of the counts, for exponential
Golomb codes when the table is large for the bits; the decoders start from the meta data. In
`BlockCodec` and `PointCodec` a stream is therefore given and got back as a sequence; that each
coder gives back what it was given is `StreamCoders!RoundTrips`. zstd is taken as lossless.

`MrArchive`. The output directory over several jobs, and the reader: a job of any size and any
assignment of cells truncates the parts of its own ranks, writes them, ends or dies (leaving
files absent, empty, torn or whole); the reader lists, sorts and decodes what it finds.

`MC...` modules hold the instances for TLC. `MCPartitions` instantiates `MapReduce` four times,
once per partition that takes no samples and for prefixes once per conversion to `int`, and
chooses one at the start. The theorems are in
`MapReduceProofs`, `MpiDriverProofs`, `MrArchiveProofs`, `StreamCodersProofs`, `PointCodecProofs` and
`BlockCodecProofs`; `BlockQuantizerProofs` has the lemmas that the block quantizer, Morton codes,
differences and patches can be undone, which the last two of these rest on. `Foundations` holds
what several of them need: lemmas about induction, numbers, sums, sequences and the call logs, and
the error bound of the quantizers. Since it extends `Quantizers`, every theorem formally has that
module's two constants and the assumption on them; only programs that quantize depend on them.

Some definitions are preceded by a wrong variant marked as a fault. No specification uses one;
they are substituted one at a time to confirm that each property can fail.

## 3. The runs

Deadlock checking is off everywhere: programs end, and an ended program has no step.
Every run is exhaustive for its instance.

| run | instance | shows |
|---|---|---|
| `mr_samplesort` | 3 ranks, 2 blocks, 9 points, 2 samples per rank, `MaxInt` 2 | types, `CollectivesMatch`, `OneOwner`, `CompleteWhenDone`, `PartsWithinBound`, `PartsFollowCurve`, `PublishesCensus` in the default mode, over all samples and interleavings; a rank that reads nothing, repeated splitters and a rank that owns nothing occur |
| `mr_ranges` | 3 ranks, 2 blocks, by range, fair | `OneOwner`, `PartsFollowCurve`, `Terminates` when ranks see different ranges of codes and one reads nothing |
| `mr_partitions` | 3 ranks, 4 blocks, three modes and clouds, prefixes under two conversions to `int` | `OneOwner`, `CompleteWhenDone`, `PartsWithinBound`, `PartsFollowCurve`, `PublishesCensus` for ranges (an overflowing cell, differing local ranges), prefixes (two cells at z = -1, whose owner is the first or the last rank according to the conversion) and hashes (negative coordinates) |
| `driver_jobs` | 2 ranks, 9 command lines, 4 inputs, an empty directory or an earlier job's, fair | `SummaryMatchesDisk`, `OneCodebook`, `PublishesAll`, `CollectivesMatch`, `Terminates`, with deaths anywhere |
| `codec_tables` | blocks of edge 2, 12-bit words, tables of up to 3 of 6 cells with small and large counts, the empty one included | `RoundTrips`, `QuadsAscend` for both entry points and modes |
| `coders` | bytes of 4 bits, codes of 2, an alphabet of 4 symbols, 517 streams of all five kinds | `RoundTrips` through every coder, `EveryoneHasACode` for a shared codebook, `LongCodesNeedMany`, `ShortestCode`, `RiceIsShort` |
| `point_chunks` | clouds of 0 to 4 points from 4 places, each with 0 or 1 stray byte, 11 jobs of the five kinds | `Permuted`, `LinesUp`, `EveryPointOnce`, `RunsToTheEnd` in direct and block mode, with and without a shared codebook |
| `archive_jobs` | 3 ranks, 2 jobs, 1 reader | `RecoversLastJob`, `InRankOrder`, `NoTornSuccess` |

Three ranks are the least number with a rank that is neither first nor last, and with one rank
idle while two interact; blocks number more than ranks in some runs and fewer in others, so the
stride wraps and runs dry. `MaxInt` of 2 or 3 makes the cut-off of counts bite with a handful of
points; 5-bit coordinates make z = -1 a large code in the same way 21-bit ones do; a patch limit
of 2 makes patches as frequent as ordinary values. `RoundTrips` and `PublishesCensus` do not
depend on where such limits lie, only on which side of them a value falls, and the instances
have values on both sides.

In `coders` the streams are all those of up to three symbols, in every order, and the longer ones
whose frequencies grow like Fibonacci's numbers (1, 1, 1, 2), which are what makes a code longer
than its word: with `CodeBits` 2 five numbers do it, and the run reaches such codes. `RoundTrips`
leaves out what follows a code that is longer than its word; `LongCodesNeedMany` says how long a
stream must be for one, which for 32 bits is 9227465 numbers, more than a block of the default
size holds but not more than a large `mapreduce` part or a whole file does. `EntropyLimit` 2 puts
streams of counts on both sides of, and exactly at, the entropy above which no table is built.
`ShortestCode` compares with every other assignment of code lengths that satisfies Kraft's
inequality. In `point_chunks` an incomplete point, a chunk that ends in the middle of the file,
one that ends past it, offsets past the end, misaligned flags, two points in a cell and equal
points all occur, and both sides of `direct_threshold`. It uses the cube quantizer: with the
truncated octahedron `LinesUp` fails for the reason `codec_odd` shows.

Fairness is weak fairness of each rank's `Step`: MPI guarantees that a collective returns once
all have entered it, and a rank that is not blocked keeps computing. `ProcessDies` is not fair.
Termination of a samplesort job is not run on its own: with `CollectivesMatch`, which is proved for
every mode, it differs from the other modes by one collective more.

### What the code does not keep

Four runs end in a counterexample; `findings` in `PROJECT.json` quotes the lines.

* `driver_rerun`: a job in a directory that was used before truncates the parts at once and writes
  the summary last. If it dies in between, the earlier `summary.json` stays, over parts that are
  gone, and the scripts that collect results take it for the result of the job.
* `driver_disk`: a write that fails goes unnoticed, later offsets are 2^64 - 1, the summary is
  written all the same.
* `codec_odd`: the truncated octahedron quantizer gives cells with z = -1 (the lowest point of a
  cloud is one whenever it is nearest to an odd node). In direct mode the Morton code keeps 21
  bits of it and it is decoded as 2^21 - 1. In block mode the block number wraps around 2^64 and
  the cell is decoded elsewhere, unless the number of blocks per layer is a suitable power of two.
  The instance uses 12-bit words and a grid of 3 by 2; the same arithmetic at 64 bits and edge
  64 goes wrong for grids of 12 x 11 or 13 x 13 and right for 1 x 1, 16 x 8 or 16 x 16.
* `archive_stale`: the reader takes all parts in the directory, and the points of one an earlier,
  larger job left come after those of the last job, although the index does not list that part.

Further remarks from the reading, without a run:

* `owned_cells` in a mapreduce manifest is always 0, because the encoder has cleared the vector
  whose size is printed (`mpi_driver.cpp:632`, `block_compressor_rle.hpp:383`);
* `mapreduce` accepts `--verify-roundtrip` and never checks; `-rle` skips the check with a notice;
* in the partition by prefixes the place of a cell at z = -1 on the curve does not fit an `int`; on
  x86-64 the cells with the highest codes go to rank 0, which then holds both ends of the curve,
  where a comment (`mpi_driver.cpp:46-47`) promises each rank a range. They are all on one rank, the
  same for all ranks that run the same program, so nothing is lost (`PartsFollowCurve`, `OneOwner`);
* samplesort's balance depends on the ranks' tables being of similar size, since all give equally
  many samples;
* a comment in the driver says RLE decompression returns unique points whereas it expands the
  counts (`RoundTrips`); the reader's header says `-rle` keeps the order of its input within a
  chunk, whereas deduplication does not;
* the reader calls an empty part a rank without cells (`mr_decompress.cpp:136`); a rank without
  cells writes the chunk of an empty table, and only a rank that died leaves an empty part;
* the default block size of the driver, 64 MiB, is not a multiple of 12 bytes, so the driver
  refuses to start unless `--block-size` is given;
* `HuffmanEncoder::build` never resets its mode: once it has used exponential Golomb codes, it
  does so for every later build, which `Reconsider` relies on;
* the tool with `--offset` at or after the end of a file, or on an empty file, in direct mode
  writes to the first element of an empty vector (`CrashOnNothing`, in both codecs).

## 4. The proofs

All theorems hold for any number of ranks, blocks, points, samples and jobs, every option, every
lattice step and every word size, from the named assumptions of the modules. These say that sizes
are positive; that the input is a finite sequence of integer points per block or per cloud, none
with a coordinate beyond `FloatMax`; that a cell table is finite, has no count of 0 and fewer
cells than there are words; that a stream is of natural numbers, those PForDelta leaves within its
alphabet and patches of at most 63 bits (`MaxRiceK` + 1); that an `int` has an even number of values and a word a multiple of it, and at least the 256 of a byte;
that the curve through a block is one-to-one and its codes are words; and that what a job asks for
is a number of bytes the program would not refuse.

| theorem | states |
|---|---|
| `MapReduceProofs!Agreement` | the inductive invariant of `run_mapreduce` |
| `MapReduceProofs!GlobalDeduplication`, `MatchedCollectives` | `OneOwner`, `CollectivesMatch` |
| `MapReduceProofs!TypeCorrect` | `TypeOK` |
| `MapReduceProofs!CensusIsPublished` | `PublishesCensus`: `MapReduce` implements `CellCensus` |
| `MapReduceProofs!PartsKeepBound`, `CurveIsCut`, `NothingIsMissing` | `PartsWithinBound`, `PartsFollowCurve`, `CompleteWhenDone` |
| `Foundations!ErrorBound` | every point is within the bound of its cell's centre |
| `MpiDriverProofs!DriverInvariant` | the inductive invariant of `main` |
| `MpiDriverProofs!DriverCollectives`, `SharedCodebook` | `CollectivesMatch`, `OneCodebook` |
| `MpiDriverProofs!DriverWork`, `DriverTypes` | the inductive invariant of the blocks, files, totals and directory; `TypeOK` |
| `MpiDriverProofs!SummaryIsTrue`, `ArchiveIsWhole` | `SummaryMatchesDisk`; `PublishesAll`: `MpiDriver` implements `AllOrNothing`; both if no write fails |
| `MrArchiveProofs!ArchiveInvariant`, `ReadingInvariant` | the inductive invariants of the directory and of the reader |
| `MrArchiveProofs!Types`, `IndexIsTrue`, `TornIsNoticed` | `TypeOK`; that the parts the index lists of the last job are whole; `NoTornSuccess` |
| `MrArchiveProofs!PointsComeBack`, `PointsComeInOrder` | `RecoversLastJob`, `InRankOrder` |
| `BlockCodecProofs!CodecInvariant`, `CodecTypes` | the inductive invariant of the RLE codec; `TypeOK` |
| `BlockCodecProofs!QuadrantsAscend` | `QuadsAscend` |
| `BlockCodecProofs!TablesRoundTrip`, `NarrowTablesRoundTrip` | `RoundTrips`, whenever the chunk fits its words; for tables that are not too wide, always |
| `StreamCodersProofs!StreamInvariant`, `StreamTypes` | the inductive invariant of the entropy coders; `TypeOK` |
| `StreamCodersProofs!StreamsReturn`, `NoSymbolWithoutCode` | `RoundTrips`, `EveryoneHasACode` |
| `StreamCodersProofs!LongCodesAreRare`, `PatchesAreShort` | `LongCodesNeedMany`, `RiceIsShort` |
| `PointCodecProofs!CodecInvariant`, `CodecTypes` | the inductive invariant of the per-point codec; `TypeOK` |
| `PointCodecProofs!NoPointIsLost`, `ChunksTileTheInput`, `NothingThrows` | `Permuted`, `EveryPointOnce`, `RunsToTheEnd` |
| `PointCodecProofs!ChunksHoldTheirPoints` | the inductive invariant of the chunk: it holds the cells of the caller's points |
| `PointCodecProofs!PointsLineUp`, `NarrowCloudsLineUp` | `LinesUp`, whenever the chunk fits its words; for cubes and clouds that are not too wide, always |

**`run_mapreduce`.** `OneOwner` is not inductive: it says nothing of ranks that have not yet
chosen owners. `IInv` says what the k-th entry of every call log is. The input is fixed, so the
offset, every rank's table, the extent and hence everything a rank sends are functions of the
input and, for samplesort, of the one thing that is chosen, the samples, which are in the log
too. `LogInv` ties the length of a log to `pc` and says that a rank is at most one collective
ahead; `ValueInv` gives the contributions; `ViewInv`, `OwnedInv` and `PartInv` give what a rank
holds in terms of them. Each action has a lemma; entering a collective is treated once
(`EnterCollective`), as is reading one (`AgreedColumns`). From `IInv`, a cell on rank r has r as
its owner under one function that is the same for all ranks, so it is on no other.

The other theorems follow from `IInv`: what a rank holds is an operator applied to the input, so
their lemmas are about those operators. Minima of finite sets of integers exist (the element with
the fewest below it); the minimum of the ranks' minima is that of the cloud, axis by axis
(`SameOffset`); a histogram has no empty cell. For the census, all ranks with points in a cell
send it to the same rank. If none of their counts was cut off, what they send adds up to the count
of the whole cloud, because the sets of points are disjoint (`DisjointSum`, a bijection glued
together from one per rank); if one was, both the sum and the true count are at least `MaxInt`
and are cut off alike (`ReducedCount`). A part keeps its cells once written, which makes every
step publish cells with true counts or nothing.

`CompleteWhenDone` needs that no cell has an owner outside the ranks. With samples this takes one
more invariant, `SampleInv`: what a rank gives to the sample are codes of its own cells; the
splitters are then codes, and an owner is a number of splitters below a code. By range, it takes
that the clamp catches codes outside the range (`ClampRank`), and by prefix that it catches whatever the conversion gave. `PartsFollowCurve` is that in each of
these modes the owner grows with the code, and by prefix, that it does so among the cells whose
place fits an `int` (`HasPosition`), while the others are all on the rank that `IntOverflow` is
clamped to. The theorems assume of `IntOverflow` that it is an integer and the same on all ranks,
which run one program.

**The quantizers.** A cube is easy: along an axis twice the distance to the centre is at most
`Pitch`. For the truncated octahedron, the distances to the nearest even and to the nearest odd
multiple of `Pitch` add up to `Pitch` on each axis (`EvenAndOdd`). So for a, b, c from 0 to
`Pitch`, one of (a, b, c) and its complement adds up to at most 3/2 `Pitch`, and its squares to
at most 5/4 of `Pitch` squared (`SmallSum`: the largest of the three is bounded by what the others
leave). `EvenUnpacks` and `OddUnpacks` say that halving x and y loses nothing. The proof is over
exact arithmetic; the program's is in floats.

**The driver.** The collectives of a rank are determined by the options: `OpOf` is the protocol
with the calls that `--shared-codebook` and `mapreduce` add, `Entered` gives how many of them a
rank in each place has entered, and `LogInv` says that the log is a prefix of the protocol.
`ProfileInv` follows the profile from rank 0's contribution to the broadcast through the log to
every rank that has left it. `FileInv` says it of every chunk written, saved or not: a process
that dies may save any of them, so `OneCodebook`, which is about what is on disk, is not inductive
by itself.

`SummaryMatchesDisk` and `PublishesAll` relate numbers on rank 0 to files that other ranks wrote
long before. `WorkInv` has what is between: the blocks of a rank (`NextInv`: those done so far are
its own below the current one), the lines and chunks of these blocks, end to end and of the sizes
the lines give (`MetaInv`, `PartInv`), the totals (`TotalsInv`), that a rank which has closed its
files without an error has saved them (`ClosedInv`), that the reductions were given the totals
(`ReportInv`) and a complete summary their sums (`SummaryInv`). `DirInv` says that
the summary is not this job's until rank 0 has the totals, and torn while it writes it. Sums over sequences and over ranks are
folds; the lemmas about them are inductions over subsets of a finite set (`SubsetInduction`).
Both theorems assume that no write fails (`~DiskMayFail`, which is how `driver_jobs` is set up);
that they are false otherwise is what `driver_disk` shows. They speak of the summary of this job:
a reader who cannot tell it from an earlier one is in the position of `driver_rerun`.

**The directory.** A rank that is done has its table on disk, the index of the last job implies
this of all of them, the reader runs only when no job does, and every torn part is still before it
as long as it has not failed. `ReadInv` says of a directory in which nothing but the last job is
(`Intact`) what a reader has read in the middle of it: the parts of the lower ranks and no others,
each cell as often as the census says, in ascending order of rank and place on the curve. Reading
one more part keeps this because a part is a run of copies of each cell (`ReadingPart`).

**The per-point codec.** `CodecInv` has three parts. `TodoInv`: what is left to read is a chain of
calls that begins where the last one ended and ends at the last whole point, so what was reported
and what is left are the points wanted, in two disjoint pieces. `VectorInv`: the caller's vector
lists the points of the current call, each once. A sort is any ordered sequence of the nodes, so
this rests on sorted sequences of a finite set being permutations of it: nodes carry the index
they came from (`ord`), which no two share (`KeysListed`, `ListsReordered`). `ProfileInv`: after
the warm-up the codebooks have all symbols from 0 to `PatchLimit` + 1, and a delta is never more
(`PatchEncode`), so `CompressWithProfile` never throws, whatever block the codebook was made for.

**What is recovered.** `LinesUp` is about the end of a long chain: cells, nodes, a sort,
differences, patches, and all of them back. `BlockQuantizerProofs` undoes it link by link. Summing
differences of words gives the words (`SumsOfDeltas`); the k-th 0 among the patched numbers is the
k-th number above the limit (`PatchesReturn`, with `RankOf` for the place of an element in a sorted
set); the coordinates of a code come apart again (`CodesReturn`: each step of `Spread` and `Compact`
takes one bit of each); a cell is the corner of its pair of blocks, its quadrant and its place in
the block (`NodesReturn`, by uniqueness of quotients and remainders); the decoder's walk forgets
quadrant and code exactly where the encoder did (`WalkReturns`), which it knows from the table of
blocks (`TableReturns`); so `BlocksReturn` and `DirectReturns` give the cells in the order in which
the encoder sorted them. `ChunkInv` says of the program that the chunk and the caller's vector go
through the same order; with `ErrorBound` this is `LinesUp`.

None of this holds for every cloud, and `Fits` says when it does. In direct mode each coordinate
must have `CoordBits` bits and each code be a word; in blocks coordinates must not be negative and
fit half an `int`, the numbers of blocks must fit a word, and there must be fewer points than
words. Nothing in the code checks it, and `codec_odd` shows what happens to a cell at z = -1.
So `PointsLineUp` is a statement about each chunk: `Spec => [](Fits => LinesUp)`. For cubes no cell
is negative, because the offset is the least coordinate, and `NarrowCloudsLineUp` derives `Fits` from
a bound on the width of the clouds, w cubes along every axis. For the numbers of the code the bound
is 2^21 cubes, that of the direct mode. The clouds of `point_chunks` are 7 cubes wide, where w up to
16 would do, so both theorems speak about every state of that run.

**The RLE codec.** `CodecInv` of `BlockCodecProofs` follows a table through `Pour`, which lists its
cells in some order, a sort and the streams. What a sort of the nodes gives is a list of the
cells with each once (`NodesSorted`), whichever order the cells were poured in, because `Before`
puts any two of them in some order and nodes carry the index of their cell. `Stores` says of a chunk
that the k-th count is that of the k-th cell of this list, and that the decoder finds these cells
if they fit (`ArrangedWalkable`, on the lemmas of the last paragraph). Even where they do not, the
walk of the decoder gives one cell per node (`BlocksWalked`), so `TypeOK` and `QuadsAscend` hold of every
table. `RoundTrips` then needs that a list repeated by its counts has every cell as often as its
count says (`Repeating`). `NarrowTablesRoundTrip` bounds the coordinates by w, and with them the
maximum that `mapreduce` agrees on and passes in as the range. The tables of `codec_tables` are
below the bound for w = 11; those of `codec_odd`, with z = -1, are for no w.

**The entropy coders.** Each coder writes its numbers one after the other, pads the last byte and
reads from a position it moves on, so each proof has the same two halves: where the pieces of a
concatenation lie (`Concatenation`, `PaddedPieces`), and that a reader that stands at the start of the i-th
piece ends at the start of the next with the i-th number (`RiceReadLemma`, `ExpReadLemma`,
`HuffmanTurnLemma`). `LowBits` says that the k lowest bits of a number below 2^k stand for it, and
`TopBit` that the leading 1 of an exponential Golomb code is where the zeros before it say.

`StreamInv` says what `build_from_freq` keeps. The trees in the queue share out the symbols, any two
ways in a tree part at some bit (`Differ`), and a tree weighs what its symbols do. The bound on the
length of codes is not inductive by that: it takes that a tree weighs at least the Fibonacci number
of its depth plus two, and, of all trees in the queue together, that none is lighter than the
Fibonacci number of the depth plus one of any other (`Trees`). Because the two lightest trees are
merged, both hold of their join (`JoinLemma`, `MergeLemma`). A table is then the ways of one tree over all
symbols (`CodesOf`): no code begins another as long as all fit their word (`UsableLemma`), which is
what the decoder's map from code to symbol needs to find no symbol too early (`HuffmanReturns`).
`CoverageInv` says that the symbols of a stream have codes, those of a block with a shared codebook
because `CompleteFreq` has the whole alphabet. `PackedInv` ties what is packed to the coder in the
mode it is in, through the second build of the encoder of counts.

`PatchesAreShort` adds up the quotients: the parameter is the logarithm of the average, so their sum
is less than twice the number of patches (`RiceLength`), unless the largest parameter cuts the
logarithm off. The assumption on patches in `StreamAssumption` says that it does not: they are differences of
ascending codes of 63 bits, and the largest parameter is 62.

**What the prover could not be asked directly.** No induction schema can be instantiated, so what
the proofs need of recursive functions and folds is stated with sets: the set of lengths, or of
subsets, for which a formula holds contains the smallest and is closed, hence is everything
(`SubsetInduction`, `Recursion` in `Foundations`). The properties of `MCPartitions` are those of
`MapReduce` for three values of `Mode` and two of `IntOverflow`, and thereby proved for all.

Only model-checked: `ShortestCode`, because an optimality proof of Huffman's algorithm is about all
other trees, which the model does not have; and liveness, which the proof system does not treat.

## 5. Not modelled

* The adaptive quantizer: floating-point fitting per axis. No program selects it: the tool knows
  `cube` and `to`, and the driver takes every name but `cube` for `to`.
* The delta encoder: no program uses it.
* The transformation tables of the Hilbert curve: vendored; only that the curve is one-to-one is
  used.
* The inside of zstd: lossless, and a truncated frame is refused.
* The bytes of meta data and profiles, which are copies of records; timing, statistics, tables of
  measurements and batch scripts.
* Sizes of messages (`int` byte counts in the exchange), a part with more than 2^31 points, input
  that changes or fails under the job, ranks with different environments; the note of each such
  hazard in `PROJECT.json` says why.
* Data that was flushed and is lost with its node, and a summary that reaches the disk before the
  parts of other nodes do: a flush is taken to last.
* The Hilbert conversion of the direct mode and the sentinel of `block_quantize` (section 2).
* Float rounding: coordinates are integers and divisions exact. A point that lies on the border
  of two cells to within rounding may go to either in the program.

## 6. Plan

Done: `MapReduce` with `CellCensus`, `MpiDriver` with `AllOrNothing`, both codecs, the entropy
coders, `MrArchive`; the proofs of section 4. Left, in this order:

1. a composition of `MrArchive` with the table `MapReduce` publishes, in place of an arbitrary
   assignment of cells; byte counts of the exchange with their width;
2. that no prefix code is shorter than a Huffman code, as a theorem;
3. a composition of the codecs with `StreamCoders`, now linked by `RoundTrips` alone.

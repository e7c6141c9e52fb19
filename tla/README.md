# StreamLZ: TLA+ models, checks and proofs

StreamLZ is a GPU compressor and decompressor. A Zig host side drives CUDA
kernels through the driver API; a C library (`include/streamlz_gpu.h`) and a
command line tool sit on top. This directory models the parts of the CUDA
backend (`src/src/`) whose correctness is hard to test: what depends on order
(warps of a thread block, blocks of a grid, streams of a device, threads of a
process, calls on a handle) and what two sides compute apart and must agree on
(encoder and decoder, host and kernels, one kernel and the next). Paths below
are relative to the repository.

1. [Inventory](#1-inventory)
2. [Modules and the code they model](#2-modules-and-the-code-they-model)
3. [Runs, bounds and what they show](#3-runs-bounds-and-what-they-show)
4. [Proofs](#4-proofs)
5. [Disagreements between the code and its words](#5-disagreements-between-the-code-and-its-words)
6. [What is not modelled](#6-what-is-not-modelled)
7. [Plan](#7-plan)
8. [Running the checks](#8-running-the-checks)

## 1. Inventory

| Part | State | Operations | What is hard, and what makes it correct | Modules |
|---|---|---|---|---|
| Raw sub-chunk decoders (`decode/lz_decode_raw*.cuh`) | per-warp registers, two shared-memory slots, broadcast words, the output window | stage a batch, execute it, copy a long token, trailing literals | Four warps run without fairness; a slot is refilled while the other is read; copies of one batch run in parallel. The output must be the serial decode, and the block must finish. | `RawTokens`, `RawPipeline`, `SubChunkDecode` |
| Decode dispatch (`decode/decode_dispatch.zig`, `scan_gpu.zig`, `streamlz_decoder.zig`) | device scratch shared by all calls, four streams, the gather and Merkle events, `gather_event_pending`, the cached dictionary | one function per stage | Operations of one call and of consecutive calls overlap unless a stream, an event or a host wait orders them. No race, no stale input, each call answered with its own data. | `CudaDevice`, `DecodeStreams`, `DecodeCalls` |
| Encode host side (`encode/fast_framed.zig`, `encode_lz.zig`, `encode_huff.zig`, `encode_assemble.zig`, `driver.zig`) | persistent buffers, the caller's stream | stage input, LZ, hashes, entropy passes, assembly, footers | Null-stream work beside a caller's stream; a frame assembly left in flight. | `EncodeOperations`, `EncodeStreams` |
| Library initialisation (`decode/module_loader.zig`, `encode/module_loader.zig`) | state word, latch, function and module handles, two locks; the current context of each thread | `init` of both, `isAvailable`, `bindContextToCallingThread` | Unlocked fast paths race with the bring-up; some fifteen early returns; one decision, complete when announced. | `LibraryInit`, `Availability` |
| Device buffers (`decode/decode_context.zig`, `encode/encode_context.zig`) | a pointer and a size per buffer | grow, trim, destroy | A growth frees before it allocates and may fail in between; nothing foreign may be freed, nothing may leak. | `DeviceBuffers` |
| Preset dictionaries (`dict/dictionary.zig`, `ensureDictOnDevice` of both directions) | registered dictionaries, device cache, armed flag | register, resolve, make resident, compress, decompress | An upload may fail half-way; a frame must be read with the bytes it was made with. | `Dictionary` |
| C API and handle (`streamlz_gpu.zig`) | per-call settings in the two contexts, pending and last timings | the entry points, the worker thread, timings | Settings outlive a call that leaves early; results and errors share an integer. | `Handle` |
| Frame assembly (`encode/assemble_kernel.cu`, `encode_assemble.zig`, `fast_framed.zig`, the compaction in `lz_kernel.cu`) | working regions, size and offset tables, layout | compact, measure, prefix sum, write, lay out, frame, footers | Six places compute offsets apart and none checks that the pieces tile the frame. | `WireFields`, `SubChunkFormat`, `FrameAssembly` |
| Frame walk (`decode/walk_frame_kernel.cuh`, `streamlz_decoder.zig`) | cursor, `s_partial`, `s_meta`, status | serial walk, table walk, host walk | Threads reject and return between barriers; three readers must agree. | `FrameWalk` |
| Descriptor kernels and the loops of the LZ kernel (`prefix_sum_chunks_kernel.cuh`, `scan_parse_kernel.cuh`, `huffman_kernel.cu`, `lz_decode_kernels.cuh`) | staged and compacted descriptors, counters, entropy scratch | prefix sum, scan, compact, merge, gather, loop over groups, chunks and sub-chunks | Each computes the number of a sub-chunk for itself; buffers hold what the last call left. | `EntropyScan` |
| Token streams (`encode/lz_token_emit.cuh`, both parsers, `decode/lz_decode_general.cuh`) | five streams and their cursors, the recent offset, the block start | emit, drive one or two blocks, decode | Boundaries of four token forms; streams without bounds tests. | `LzTokens` |
| Huffman (`encode/huffman_kernel.cu`, `decode/huffman_kernel.cu`, `common/gpu_huffman.cuh`) | code lengths, codes, a table, per-lane bit buffers | build, encode, table, decode | Two derivations of one code; loops that test once for four symbols. | `Huffman` |
| Formats and hashes (`format/`) | none | parse, write | Their fields and widths appear in `FrameAssembly` and `FrameWalk`. | |
| Vulkan backend (`srcVK/`), CLI, trainer, tools, tests | | | See section 6. | |

A decompression goes: entry point (`Handle`) -> loaders (`LibraryInit`) ->
dictionary (`Dictionary`) and buffers (`DeviceBuffers`) -> dispatch
(`DecodeStreams`) -> walk (`FrameWalk`) -> descriptors (`EntropyScan`) ->
`Huffman` -> `RawPipeline` for a raw sub-chunk or the general decoder
(`LzTokens`). A compression goes the other way: `EncodeStreams` drives the
parsers (`LzTokens`), `Huffman` and `FrameAssembly`. The hazards of each part,
at their lines and with the properties that would catch them, are in
`PROJECT.json`.

## 2. Modules and the code they model

The `map` of `PROJECT.json` gives the lines of every definition.

### The pipelined raw decoder

`RawTokens` holds the data: tokens, streams, the register record, what
`fillBatch` computes from a window (`StagedLanes`, `StagedHead`, `Advance`) and
the serial token path of `lz_decode_raw.cuh` (`Step`, `Reference`, `Decoded`).
Tokens are records, not bytes; output bytes are names of their origin (the n-th
literal, an initial byte, a dictionary byte), so that a wrong copy is visible
and an arithmetic accident is not.

`RawPipeline` is `decodeSubChunkRawModePipelined`: one `pc` per warp, a parser
and `Copiers` copier warps, `s_batch` as two slots of `lanes` and `head`. A
step is what one warp does between two points at which another could see the
difference. A warp whose `pc` is the name of a barrier waits there;
`SyncThreads` and `PipeTeamBar` release all the warps.

`SubChunkDecode` is the abstract specification: the output is always the serial
decode of a prefix of the tokens and in the end of all of them. `RawPipeline`
implements it with `committed` (the tokens whose copies a block barrier has
ordered) as the prefix.

### Streams of both directions

`CudaDevice` gives the order CUDA promises, as a queue in which every operation
carries the set of operations it starts after: a stream is in order, the null
stream and blocking streams order each other, events order across streams, and
everything else may run side by side. It is external, modelled from how the
code uses the driver API.

`DecodeStreams` has one action per host function of a decode, which queues its
operations and sometimes blocks; `Start` and `Finish` run the device. A place
in memory holds the number of the call its bytes belong to: `Current` says an
operation reads what its own call wrote. `EncodeStreams` adds the compressions
of the same handle: nearly every kernel on the null stream, a
`cuCtxSynchronize` (`DrainsContext`) after nearly every host step, the frame
assembly on the caller's stream, the size table and the Merkle root behind it.
`EncodeOperations` says which buffers an operation of the encoder touches. The
frame of a compression still in flight may be the input of the next
decompression. Growth of buffers, profiling and environment switches are left
out; kernels are single operations.

`DecodeCalls` is the abstract specification: calls are answered in order, each
from its own data, or refused.

### Library initialisation

`LibraryInit` has a `pc` per thread, both locks, both states and the context
current on each thread. The loads before a lock is taken, the lock, each stage
of the bring-up and each failure exit are steps. `Availability` is the atomic
one-shot loader that both implement. `broken` (a CUDA call failed by itself)
and `early` (a decode call was made before any handle existed) are history
variables that only properties read.

### Buffers, dictionaries, handle

`DeviceBuffers` models `ensureDeviceBuf`, `ensureBuf`, `releaseDeviceBuffers`
and both `deinit` over a heap `address -> owner` shared with the application.
A failed `cuMemAlloc` is taken not to write its result, as the code leaves the
pointer alone. `refreed` is a history variable: the address a failed growth
left behind was freed again.

`Dictionary` keeps for each direction what is registered, what the cache claims
and what is on the device, and follows one frame from compression to
decompression. The encoder keeps hash tables beside the bytes, so its cache
claims an ID, a length and the number of hash bits; the decoder's claims an ID.
Every upload, allocation or table build may fail at any point.

`Handle` numbers the calls and names buffers by the call whose bytes they hold.
Calls on a handle are sequential, as the API demands; what is modelled is what
they leave behind: settings in the contexts, wrapped inputs, pending events.
A behaviour is one of calls on a handle or of the CLI's direct calls.

### The frame

`WireFields` is a byte buffer seen as fields with a width and a value: writing
destroys what it overlaps, reading where no field of that kind starts gives
junk. `SubChunkFormat` is one sub-chunk on the wire: the regions the LZ kernel
cuts out of its buffer and the moves that compact them in place, `parseRaw` and
`assembleSubChunk` of the assembler, and the header parse of the decoder.
`FrameAssembly` composes a frame: one action per block of the three kernels, in
any order, and per host step between them. `FrameWalk` delivers it, whole or
damaged, to the host's walk, the serial kernel or the table walk. The table
walk is thread by thread; a thread that has returned arrives at no later
barrier.

### Entropy scan

`EntropyScan` is the device side between walk and output: prefix sum, scan,
compaction, merge and gather by block, both Huffman kernels, and the LZ
kernel's loop over groups, chunks and sub-chunks with where it looks for each
stream. Two calls share a context, so stale descriptors are there to be used.
The scratch maps each plane of each sub-chunk to whose bytes it holds.

### Tokens

`LzTokens` takes a sub-chunk from either parser through the real token, length
and offset encodings to the general decoder. Bytes have no value: that a run
equals the bytes at some distance is a fact TLC chooses, and a literal is its
source position. Which match a parser takes is open; which it may take, how it
folds, and what it writes is the code's.

### Huffman

`Huffman` follows one descriptor: histogram and code lengths, the height limit,
canonical codes, one stream per lane, interleaved words, the body, the decoder's
table pass by pass and one lane's preamble, hot loops and tail, iteration by
iteration. The alphabet, the longest code, the number of streams and the bits
of a byte are constants. Shared memory races of the passes are visible: two
lanes that write one entry differently in a pass are a fault.

## 3. Runs, bounds and what they show

| Run | Distinct states | Question |
|---|---|---|
| `raw_pipeline` | 84 827 | No race, no torn slot, no divergent barrier; the kernel implements the serial decode and finishes |
| `streams` | 141 718 | Streams, events and host waits order all that must be ordered, in both directions |
| `library_init` | 25 640 | One bring-up, one verdict, complete when announced, every call returns |
| `device_buffers` | 75 584 | Buffers stay owned and foreign memory untouched until a failed growth is repeated; `slzDestroy` frees its list |
| `dictionary` | 30 953 | Frames are read with the bytes they name |
| `handle` | 4 150 | Calls use their own arguments; status, size and timings are right |
| `frame` | 74 244 | A frame tiles without a gap, each reader finds the encoder's streams, damage is rejected |
| `frame_shortcut` | violation | Does a payload as long as its chunk mean raw bytes? |
| `entropy_scan` | 7 264 | Every sub-chunk finds its own streams and every byte has one writer |
| `lz_tokens` | 125 776 | The decoder puts every byte back; the greedy parser keeps inside its regions |
| `lz_token_region` | violation | ... and the chain parser? |
| `huffman` | 326 805 | Tables and codes say the same; each lane reads its words, writes its slice and ends |

**Raw pipeline.** Two copier warps of two lanes, so that a batch has two tokens
and flat copies take several rows; token shapes include literal-only, match-only,
recent-offset and both long kinds. Streams of up to five tokens give three batches
in a row, a long token before, between and after batches, and a window cut
short. The constants of the kernel (3 warps, 32 lanes, 8 initial bytes) only
scale these cases. The streams are those that `StreamsAssumption` allows (`Writable`
forms every token shape, `Legal` keeps what an encoder writes). Sources include
distances wholly inside the dictionary and straddling its end, in the batch
path, the long path and the overlapping serial copy. The only fairness
is `WF_vars(Next)`: a block that can take a step takes one, with no promise
about which warp. `DstRaceFree` compares the accesses of all lanes between two
barriers, not only those that happened to interleave.

**Streams.** Pairs of four synchronous kinds of decompression, pairs of three
asynchronous kinds, and a synchronous one between two asynchronous ones; pairs
of nine kinds of compression (host and device, on the null stream, a blocking
and a non-blocking stream, with entropy or without, with a Merkle root or
without), a compression after an asynchronous decompression and before a
synchronous one, and round trips in which the frame is decompressed while its
assembly may still be in flight; and host frames of two blocks, the second of which
copies the output of the first back to the device while the first's Merkle
chain may be running. One call may fail in any step before work is
queued on the back half (`FailingSteps`); one failure is enough for the next
call to meet what it left. The gather stream can be created or not, and so, apart
from it, can the Merkle event (`Aux`), except that both can under a block whose
Merkle chain nobody waits for. Calls on a
non-blocking stream are compressions of data that is already there: section 5
has both reasons. These conditions are assumptions of `DecodeStreams`, which TLC
evaluates on the plans of the run and section 4 uses for all plans. `MaxCalls` bounds
the length of a plan, three here. No fairness and no liveness property: the model says nothing
about when kernels finish.

**Library initialisation.** Two threads reach every interleaving of a bring-up
with a fast path, of two bring-ups, and of the nested locks; the proofs of
section 4 hold for any number. Any CUDA call may fail. Fairness is weak
fairness of each thread while it is inside a call: the operating system keeps
scheduling it. A thread that waits for a lock is not enabled meanwhile, and
weak fairness suffices because a settled loader takes no lock.

**Device buffers.** A buffer that is freed by everything, one of an encode
context (trimmed) and one that `deinit` omits, four addresses and two sizes: an
address can be freed by a failed growth, taken by the application or by another
buffer, and freed again. The heap is full in some states. `UnboundDestroy` is
FALSE: section 5 says why.

**Dictionaries.** One built-in and two custom dictionaries, two of the three of
one length, and two numbers of hash bits: the encoder's cache key is all of ID,
length and hash bits. `levels.zig` gives 17 bits at every level today; the second
number is there for the key, and with a look-up that ignores the bits
`MadeWithWhatItNames` is violated.

**Handle.** Three calls: one to leave something, one to meet it, and one to
meet what both left. `SpawnFails` and `CliOutputFails` are FALSE: section 5.

**Frame.** Chunks of 64 bytes in LZ blocks of 40, so that a chunk has one block
or two; packed off32 counts are extended from 2 on and off16 is split from 10
entries on. Eight lists of one to six chunks hold every shape: plain, coded
streams, split off16 with one plane coded, far offsets of either block,
incompressible, a payload just below the source, a last chunk below the
smallest compressed size, more chunks than the cap. Every combination of
options the callers can ask for is tried, except content checksum and Merkle
root together (section 5). Damages are a wrong magic or decoder, a chunk type,
an entry off by one, and pairs of entries whose errors cancel; four walk threads
give each one or two table entries and a scan of two rounds. `ReaderKnowsForm`
takes the serial walk out of the properties for a frame with an uncompressed
chunk, which it does not know (section 5). Fairness is weak fairness of each
thread of the table walk, for `TableWalkReturns` only: a thread at no closed
barrier runs on.

**Entropy scan.** Two calls after one another, of up to four chunks with at most
two sub-chunks: coded, raw and mixed planes, chunks that are copied, filled or
empty, sub-chunks that do not fit or are not LZ, with exact counts and with the
worst case an asynchronous call must assume, in groups of one, two and three.
Blocks of a kernel run in any order; the gather runs beside the Huffman kernels. Prefix
sums and compacted lists are recursive functions, so that section 4 can prove about
them.

**Tokens.** The real sizes and numbers. One match with literal runs, lengths
and distances on both sides of every boundary (7, 8, 15, 16, 63, 64, 90, 91, 251 and
beyond; 65535 and 65536) and folds at a choice of places; several matches of a
few shapes; sub-chunks of one and of two blocks with the boundary inside runs
and matches; both parsers, with a dictionary and as a frame's first. Two small
jobs put as many tokens as possible into a small region.

**Huffman.** Six symbols, codes of at most four bits, two streams, bytes of two
bits: a word then holds two longest codes, as in the code, which
`RefillAssumption` states. A body is used only when it is shorter than its
source, so a slice is seven symbols or longer. One slice is every sequence of
two or three symbols; the other makes a skewed tree above the height limit, a flat
one, or one symbol. Both lanes and four alignments of the output are followed.
`WF_vars(Next)`: a lane that can iterate iterates.

`CHECK_DEADLOCK FALSE` is in the configurations of `frame`, `entropy_scan`,
`lz_tokens`, `huffman` and `handle`, whose behaviours end with the last block,
byte or call.

Each property of a passing run has a mutant in `PROJECT.json`: a plausible bug
put into one mapped definition, under which TLC finds the property violated in
the same run.

## 4. Proofs

TLAPS checks these for every value of the constants that satisfies the named
assumptions.

| Theorem | Says | Module |
|---|---|---|
| `AdvanceIsSerial` | the registers `fillBatch` computes are those of the serial decoder | `RawPipelineProofs` |
| `MatchCopied` | `warpMatchCopyD` copies what the serial decoder would | `RawPipelineProofs` |
| `BarriersConverge` | the warps that meet at a barrier are at the same site | `RawPipelineProofs` |
| `SlotsExclusive` | the parser never writes the slot a copier warp reads | `RawPipelineProofs` |
| `ParserFollowsSerial`, `RegistersSerial` | the parser, and every other warp, has the serial decoder's registers | `RawPipelineProofs` |
| `SlotsStaged`, `TokensOrdered` | a slot holds a whole batch; batches follow the committed token | `RawPipelineProofs` |
| `OutputRaceFree` | no two lanes touch an output byte between two barriers unless both read | `RawPipelineProofs` |
| `OutputSerial`, `ImplementsSerial` | the output is the serial decode; the kernel implements `SubChunkDecode` | `RawPipelineProofs` |
| `QueueOrdered` | the queue always orders what conflicts, and every further launch keeps it so | `DecodeStreamsProofs` |
| `RaceFree` | no two running operations touch the same memory unless both read | `DecodeStreamsProofs` |
| `Settles`, `SyncSuffices` | a synchronous call leaves nothing behind; synchronising the caller's stream waits for its calls | `DecodeStreamsProofs` |
| `UploadedFirst` | no asynchronous call overtakes the upload its caller queued first | `DecodeStreamsProofs` |
| `QueueFed` | every queued operation will find its inputs, and so will the rest of the call | `DecodeStreamsProofs` |
| `FindsItsInputs` | a running operation reads what its own call left, the dictionary it names included | `DecodeStreamsProofs` |
| `AnsweredInOrder` | the dispatch implements `DecodeCalls`: answers in order, each from its own data | `DecodeStreamsProofs` |
| `ScanInvariant` | what each kernel between walk and output leaves for the next, whatever order its blocks take | `EntropyScanProofs` |
| `EveryCallComplete` | every sub-chunk finds its own streams, every byte is written once | `EntropyScanProofs` |
| `ScratchOneWriter` | no slot of the entropy scratch has two writers or is beyond its end | `EntropyScanProofs` |
| `AvailableMeansComplete` | TRUE means context, stream and kernels are there | `LibraryInitProofs` |
| `DecodeImplements`, `EncodeImplements` | each loader implements `Availability` | `LibraryInitProofs` |
| `SettledStays` | what a settled loader has published never changes | `LibraryInitProofs` |
| `HandlesShare` | with a handle first, the encoder's modules are in the decoder's context | `LibraryInitProofs` |
| `LaunchesOnOwnMemory` | a sized buffer has its own memory, until a refree | `DeviceBuffersProofs` |
| `FreesOnlyItsOwn` | no foreign block is freed, until a refree | `DeviceBuffersProofs` |
| `DestroyLeavesOnlyKept` | a destroyed handle leaves only what `deinit` omits | `DeviceBuffersProofs` |
| `CacheHolds`, `FramesAreHonest` | the cache tells the truth; a frame names what made it | `DictionaryProofs` |
| `SameBytes`, `IdsResolve` | decoded with the bytes it was made with; IDs resolve | `DictionaryProofs` |
| `OwnArgumentsAlways` | every call works with its own arguments | `HandleProofs` |
| `StatusAlways`, `TimingsAlways` | the status tells the outcome; no timings are lost | `HandleProofs` |
| `LengthComesBack`, `ShortComesBack`, `ClassComesBack` | the decoder inverts the encoder's lengths, short tokens and long classes | `LzTokensProofs` |

**Raw tokens** (`WarpAssumption`, `SizeAssumption`, `StreamsAssumption`: streams
are as an encoder writes them, since the kernels check none of it). The prefix
sums, the window and the serial decode are recursive functions of any length.
Induction needs no operator parameter here: `Smallest` gives a set of naturals
its least element from the well-foundedness of strict inclusion, `SetInduction`
follows, and is applied to sets `{n \in Nat : P(n)}`. The equations of a
recursive function are proved by showing that they have a solution, unfolding
the choice and showing it unique. `WindowIsSerial` then says that lane k of a
window has the registers, the run, the match and the offset that the serial decoder
has k tokens later; `AdvanceIsSerial` follows, and `WindowBytes` says which byte of
the serial output each lane's place holds.

**Raw pipeline** (`CopiersAssumption`: at least one copier warp; any warp size).
The inductive invariant is built in five layers, each using the ones before:

- `IInv`. That two warps at barriers are at the same site is not inductive: it says
  nothing of warps on their way. `Lockstep` maps each warp to the next block
  barrier it is bound for (`Target`) and says all are bound for the same one;
  `TeamLockstep` does it for the named barrier. A warp's way depends on values, so
  `CurAgree`, `HaveType` and `LongLoaded` add that the slot registers agree, that
  nobody writes the flag the others are about to read, and that a warp past a
  broadcast holds what was broadcast. `SlotsExclusive` follows: if the parser
  stages slot 1-cur, the team is bound for the same hand-off with the same `cur`.
- `RInv`: the registers of every warp are the serial decoder's at the token its
  label says; a copier warp's are stale during batches and are claimed again
  from the reload on. `ParserFollowsSerial` is a part of it.
- `SlotInv`: a slot whose flag is set holds `StagedLanes` and `StagedHead` of a
  serial state.
- `Progress`: the slot in execution starts at the committed token and the other
  one behind it.
- `OutputInv`: every byte of the committed tokens is the serial one, and of the batch
  or long token in execution each byte is either there or the turn of a lane
  still to come. Copies of one batch commute because their places are disjoint and
  flat sources lie below the batch or in the dictionary.

`OutputRaceFree` needs the first three; `ImplementsSerial` maps the barriers that
end a batch or a long token to `DecodeTokens` and all else to stuttering. `Termination`
is liveness and stays with TLC.

**Streams** (`PlansAssumption`, `CallersAssumption`: plans of any number of calls).
`PlansAssumption` says what a plan is, that host calls have no stream, which is so
because the C API takes none, and that only front-half steps fail: section 6 says what a later
failure does. `CallersAssumption` is what the callers must respect, and names the three
cases of section 5 in which the code does not keep its word: a non-blocking stream
is only for compressing data that is there, the frame of such a compression is not
decompressed before its stream is synchronised, and a Merkle chain that nobody
waits for has the gather stream and its event.

`Upto` closes the relation that a device keeps, what an operation was put behind, and
is least among the closed sets, so that no induction over the queue is needed: a launch adds
one operation behind what its stream covers (`Launched`), a completion removes one
(`Finishes`), and an event carries what its stream covered (`Recorded`, `Awaited`).
That conflicting operations are ordered (`Ordered`) is not inductive: it does not
say that the next launch will be behind all it conflicts with. `OrderInv` adds

- which streams are behind what: the null stream behind everything but a running back
  half and the application's non-blocking stream (`BehindNull`), the caller's stream
  behind everything but a gather that pends and what synchronous calls have on the
  library's streams (`BehindCaller`);
- what can still be queued once the host's wait is over (`Left`, `Gone`): past its first
  steps a call finds only its own work, and after the barrier, or after a drain of the
  context, not even that;
- that a kind of operation is queued once per call, at its step (`Known`, `Fresh`), and
  that the drain of the null stream in `CrossStreamBarrier` is a drain of all blocking
  streams, because the last front-half operation is on the null stream (`BarrierOnNull`).

Every action of the host has a lemma that gives the launches it makes and `OrderInv` after
them; the four invariants follow from it. TLC checked `OrderInv` on this run and on
longer plans before it was proved.

That operations do not race does not yet say that they read the right bytes:
`InputsCurrent` is about what was queued before, and its invariant `DataInv` reads the
queue as a promise. Of the queued writers of a place one is behind all the others, so the
place will hold what that one leaves, or what it holds now when there is none (`Supplied`).

- `Fed`: each queued operation will find, in every place it reads, what its own call leaves
  there, from the writers it is behind. An operation that runs is behind none, so memory
  has its inputs already (`RunningIsCurrent`), and `InputsCurrent` follows.
- `Needs` lists, for each step of the host, the places the rest of the call still reads;
  `Stocked` says that they will hold the call's data once the queue has drained. It also
  keeps what calls do for each other: the frames that were there from the start,
  those an earlier compression has made (`Produced`), and the dictionary whose ID is cached.
- A launch appends a writer that is behind every operation it conflicts with, which is
  `Covered`, proved of each launch for `OrderInv`: it changes nothing for what is queued
  and stocks what it writes (`LaunchFeeds`, `Feeds`). A completion removes the first writer
  of each place it wrote and leaves in memory what it promised (`FinishFeeds`). A failed
  dictionary upload spoils the buffer only after a wait for everything that reads it
  (`DictSpoiled`), and forgets the ID.

For the refinement `AnswersInv` says that no two downloads are under way, and that
each call the host has done with is answered, refused or about to be answered.
`OrderAssumption` (a decompression does not follow work on a non-blocking stream) is
needed here: past its first steps a call finds no download but its own
(`NoneAnswering`). The completion of a download maps to `Answer`, a failure or a frame
that was never made to `Refuse`, everything else to stuttering (`Implements`).

**Entropy scan** (`ScanAssumption`: the host's bound on a chunk's sub-chunks covers a
full chunk, from which it is computed; `CallsAssumption`: frames as an encoder writes
them, no chunk larger than a full one and a payload with a sub-chunk for each part of its
chunk; any number of calls, chunks, sub-chunks and groups). Host, prefix sum, scan,
compaction and LZ kernel count sub-chunks each for themselves. `Idx` is the number they
come to: it is injective, below what the host has made room for in either way of counting
(`RoomForAll`), and 0 exactly where the output offset is 0, so that scan and LZ kernel
skip the eight initial bytes of the same sub-chunk (`SkipsAgree`).
That a sub-chunk reads its own streams says nothing while they are not in the scratch yet;
the invariant follows a descriptor from kernel to kernel:

- `ShapeInv`, `SizeInv`: the blocks that are through belong to the running kernel; the
  host's room covers the device's count; cleared buffers are clear.
- `ScanInv`: a staged descriptor that is valid is that of a sub-chunk, at its number,
  and every sub-chunk a thread has passed is staged. The zeroed array is what keeps the call
  before out.
- `CompactInv`: a list holds each valid descriptor of its streams once (`KeepsValid`).
  Two descriptors of one list never name the same slot, because slots are twice the number
  plus the plane; that is what makes the place in a list a function of the descriptor.
- `MergeInv`, `LutInv`: the four lists lie behind one another (`Segments`), the region of
  an entry can be told from its place, and its table is its own. Entries behind the
  merged count are what the last call left and nobody reads them.
- `WroteInv`: the slots written are those of the blocks that are through, each with
  the data of its descriptor. Slots of gather and Huffman blocks are apart
  (`GatherHuffApart`): a plane is either raw or coded, and planes have slots of their own.
- `GroupInv`: the output is what the groups' places say. Groups partition the chunks
  (`GroupFacts`), so the last one leaves nothing out.

TLC checked `IInv` on the run's instance before it was proved.

**Library initialisation** (`ThreadsAssumption`, `ContextsAssumption`). `Locks`:
whoever is between acquire and release holds the lock. `Progress`: the state is
in_progress exactly while a thread is in the bring-up, and each stage finds
what the earlier ones set. `EncProgress` is the same for the encoder, with the
nested call. `Answers`: answers come from settled states. For the refinement a
step that settles the state maps to `Decide`, one that returns to `Answer`, and
the rest to stuttering. `Sharing` adds which thread has which context.

**Device buffers** (`BuffersAssumption`). Owned means: a size above 0 implies
that the heap gives that address to this buffer. Two sized buffers then never share
an address, and freeing one leaves the other's alone. It is inductive as long as
no pointer of size 0 is freed, which is what `refreed` records. `NothingLost` is
the converse: a block the driver holds for a buffer is the one the buffer points
to, because a growth frees first and forgets only what it freed; it needs
nothing about refrees, and a destroy over the list then leaves only `Kept`.

**Dictionaries** (`IdAssumption`: no two dictionaries share an ID, and hash bits are
natural numbers). With
`TypeOK`, `CacheIsResident` is inductive because a failed upload clears the ID
first.

**Handle** (`HandleAssumption`; worker threads start, and for direct calls the
wrapped output can be allocated). `Idle`: between calls both contexts are as
created, whatever failed; the deferred clean-ups give it back at every exit.
For timings, pending events, when there are any, include those of the last
call that recorded some.

**Tokens.** The three theorems are about operators, for every length, run and
token the encoder may write, not only those on the boundaries of the run.

`TypeOK` of `LibraryInit`, `DeviceBuffers` and `Dictionary` is proved as part of
each invariant and needs no run of its own.

Only model-checked: `Termination` of the raw pipeline, `EveryCallReturns`,
`TableWalkReturns` and `LaneFinishes`, since liveness and fairness are beyond TLAPS as
installed; the properties of the frame, Huffman's `TablesAgree` and `LaneDecodes`, and
`RoundTrip` and `GreedyStreamsFit` of the tokens, which are about what folds and
recursive operators compute over a whole input. Of the streams, the raw pipeline's
safety and the entropy scan, nothing.

## 5. Disagreements between the code and its words

With a run that shows them:

- `frame_shortcut`: a chunk goes out compressed when its payload is smaller than
  its source (`fast_framed.zig:436`), but the chunk header counts the 3-byte
  sub-chunk header too. A payload three bytes short gives a chunk as long as its
  source, which every reader takes for raw bytes
  (`streamlz_decoder.zig:659`: "comp_size == decomp_size means the chunk is raw
  bytes verbatim"). Only the Merkle root notices.
- `lz_token_region`: the chain parser takes matches of two and three bytes at the
  recent offset (`lz_chain_parser.cuh:164`, 407), so its tokens outgrow a region
  sized for "1 byte per 4-byte match" (`lz_kernel.cu:97`). At level 5, 4096
  bytes that repeat at distance 8 with single odd bytes give 1077 tokens for a
  region of 1024, over the off16 entries behind it.

Met while modelling, described here without a run. Streams:

- `streamlz_decoder.zig:172`: a device-frame decode reads the header back and
  clears scratch on the null stream, which does not order with a
  `CU_STREAM_NON_BLOCKING` caller stream; `streamlz_gpu.h:12` says all work is
  queued on the caller's. With a non-blocking caller stream
  `QueuedOnCallersStream` and `InputsCurrent` are violated. The same read makes
  the call wait for what a blocking caller stream has queued; `streamlz_gpu.h:269`
  says the caller's synchronisation is the only sync point.
- `encode_lz.zig:183`: `slzCompressAsync` copies the caller's input on the null
  stream; on a non-blocking stream the copy may run before the upload that the
  caller queued there first (`InputsCurrent` is violated as soon as the input is
  not `settled`).
- `streamlz_gpu.h:336` says "Queue all GPU compress work on `stream`, then
  return", and `encode_context.zig:102` lists LZ compress, huff encode and
  assemble write among what runs there: only the frame assembly does. Every host
  step ends in `cuCtxSynchronize`; with a Merkle root, the default, the last one
  (`driver.zig:91`) comes after the frame assembly, so the call returns only when
  the caller's stream has drained. Those waits are also what makes the frame
  assembly that is left in flight without a root safe: the mutant
  `DrainsContext_Null`, which waits for the null stream alone, races with it.
- `decode_dispatch.zig:939`: when the gather stream or the Merkle event cannot be created, the
  Merkle chain of a block that does not wait for its verdict stays on the
  pipeline stream, where the chunk-prefix kernel writes `d_output` while
  `finalizeOutput` copies it ("read-read, safe" at 935). `DataRaceFree` is
  violated as soon as `Aux` lets one be missing there.
- `decode_dispatch.zig:774` and `encode_assemble.zig:258`: the group count and the frame
  layout are copied from pageable memory on the null stream, and the kernel that
  reads them follows on a stream that does not order with it, LZ on the pipeline stream and the frame
  assembly on a non-blocking stream of the caller. The code takes such a copy to
  block ("H2D blocks on the host", `decode_dispatch.zig:646`) and so does the model; CUDA
  documents that a small pageable copy may return once it is staged. If
  `StageGroupCount` or `CopyLayout` returns at once, `DataRaceFree`, `InputsCurrent`
  and `AnswersInOrder` are violated, for `CopyLayout` `CallersSyncSuffices` too. The
  other uploads come before `CrossStreamBarrier`, before a drain of the context or
  before work on streams that order with the null stream.

Loaders, buffers and handle:

- `encode/module_loader.zig:103`: the encode loader loads its modules into
  whatever context is current on its thread, which need not be the decoder's
  when a decode call came before any handle. `HandlesShareContext` is claimed
  only without `early`.
- `encode_context.zig:388`, `decode_context.zig:41`: a growth whose allocation
  fails leaves the freed address in the pointer, to be freed again; the comment at
  `encode_context.zig:285` expects null. The buffer properties hold until `refreed`.
- `slzDestroy` does not bind the context, so on a thread without one nothing is
  freed (`UnboundDestroy`).
- `decode_context.zig:395`: `deinit` omits `d_merkle_hashes`,
  `d_merkle_verdict`, `d_merkle_seghashes` (291-295), the gather stream and the
  events (385-388). `Kept` stands for them, and `DestroyFreesItsList` claims the rest.
- A worker thread that cannot start is reported as success with a size of 7
  (`SpawnFails`).
- `fast_framed.zig:271`: `d_input_override` is set before the clean-up is
  registered; if the output buffer then cannot be allocated, a context without
  the handle's job around it (the CLI's) keeps the stale pointer (`CliOutputFails`).
- `fast_framed.zig:268`: device failures while wrapping become
  `DestinationTooSmall`, which `mapCompressError` reports as a small buffer;
  the comment at `streamlz_gpu.zig:163` promises other codes.
- `streamlz_gpu.zig:691` writes `compressed_size` at the end of
  `slzCompressAsync`; `streamlz_gpu.h:316` says it is not written, and the
  header's own example at 51 reads it.
- `slzGetLastTimings` returns the last timings of both directions, also when
  the most recent call recorded none; `streamlz_gpu.h:218` speaks of the most
  recent call. `TimingsSurvive` states what the code does.

Frame and walk:

- `streamlz_encoder.zig:171`: with a content checksum and a Merkle root the
  device frame ends with the root (`fast_framed.zig:363`) before the checksum is
  appended. `FORMAT.md:179` orders them the other way, as does the comment at
  177, and the decoder reads them so: an undamaged frame is refused. The run
  never asks for both.
- `walk_frame_kernel.cuh:170`: the serial walk never tests the flag of an
  uncompressed chunk, which `assemble_kernel.cu:418` writes; frames with device
  output have no size table and take that walk, "handles the slzCompress output
  shape" (20). `ReaderKnowsForm` leaves those out.
- `walk_frame_kernel.cuh:395`: the table walk publishes the chunk count though
  another thread rejected the frame in pass 2; `streamlz_decoder.zig:244` says
  the kernels behind it gate themselves on the count.
- Pass 2 of the table walk does not test the checksum flag of later chunks; the
  serial walk does (status 5).
- `streamlz_encoder.zig:187`: a device input whose root the kernels did not
  write, or whose `launchMerkleRootWrite` failed, gets no root although the
  header promises one.
- The four-byte form of an off32 entry never occurs: offsets of a sub-chunk are
  too small for it.

Scan:

- `FORMAT.md:285` and 296 allow a sub-chunk of raw bytes; the LZ kernels leave
  the loop at one and write nothing from there on, as `OutputComplete` states. After that `break`
  thread 0 of the pipelined kernels rewrites `s_sch_hdr` without a barrier.
- `decode_dispatch.zig:184` calls gather and Huffman outputs "disjoint by
  sub-chunk"; with a raw and a coded plane they are disjoint by plane only.
- `scan_parse_kernel.cuh:168`: the scan skips the initial bytes at sub-chunk 0,
  the LZ kernel at output offset 0; they differ for frames of several blocks.
  The scan also lacks the `sc_comp < sub_decomp` test and goes by the host's
  chunk count, not the walk's: neither matters for frames of this encoder.

Tokens and Huffman:

- `lz_chain_parser.cuh:232` says far matches are found through `long_hash`;
  that table is capped at `NEAR_OFFSET_MAX`, so the chain parser never writes one.
- With a dictionary and sub-chunk sizes 65537 to 65539 the greedy parser's token
  region is one byte short in principle (16384 four-byte matches in block 1 and
  one more): beyond the bounds of the run.
- `decode/huffman_kernel.cu:9` describes "(HUFF_NUM_STREAMS - 1) x u24" sizes;
  the code stores all of them and a word count (`gpu_huffman.cuh:42`).
- `decode/huffman_kernel.cu:323` says escapes overlay single-symbol entries of
  pass 1; codes are prefix-free, so no pass wrote there.

## 6. What is not modelled

The reason for each part is in `PROJECT.json`. In short: the Vulkan backend is
a port written to mirror this one, with a device model of its own; the CLI,
mapping, trainer, tools and tests have no state that outlives a call; PTX and
the memory allocator are generated or vendored. These are most of the
repository's lines. The field-level parsers of `format/` and the hashes are
arithmetic that a model checker adds little to.

Inside modelled parts:

- Streams: aliases into owned buffers, pinned host memory, profiling, event calls
  that fail, failures after the back half was launched, LZ batches under a memory
  budget (`encode_lz.zig:150`), and a failed entropy pass, which the call answers
  by storing the stream raw.
- Frame: frames of several blocks and truncated headers, which no encoder here writes
  (`DecodeStreams` has them, as calls of their own).
- Scan: the unfused kernels kept as a fallback, header bytes of foreign frames.
- Loops of the LZ kernels: the barriers of the pipelined forms between sub-chunks
  (`lz_decode_kernels.cuh:430`), and the single-warp batches of `lz_decode_raw.cuh`.
- Tokens: hash tables, the choice between candidates, lazy evaluation, delta
  literals, reads below the window.
- Huffman: empty descriptors.
- Dictionaries: collisions of the 31-bit ID (`dictionary.zig:59`), excluded by
  `IdAssumption`.
- The Merkle pass starts at the output's base whatever the block's offset
  (`decode_dispatch.zig:954`): frames of several blocks again.
- An asynchronous call launches over a bound on the chunk count; what descriptors
  beyond the real count hold is not composed with the walk.

## 7. Plan

Done, in this order: (a) raw pipeline with its abstract specification and
proofs; (b) device order, decode dispatch and its abstract specification; (c)
library initialisation with refinement proofs; (d) device buffers with proofs;
(e) dictionaries with proofs; (f) the handle with proofs; (g) frame assembly
and walk; (h) descriptor kernels with proofs; (i) token streams with proofs of their
encodings; (j) Huffman in both directions; (k) the encoder's streams.

Next, most important first:

1. The chunk and group loop around `RawPipeline`: barriers on every exit, and
   the rewritten header word of section 5.
2. The single-warp batches of `lz_decode_raw.cuh` as a further implementation of
   `SubChunkDecode`.
3. Descriptors beyond the walk's count: `EntropyScan` behind `FrameWalk`.
4. LZ batches under a memory budget in `EncodeStreams`.
5. Proofs: disjoint regions of `SubChunkFormat`, the barriers of the table walk for any
   number of threads.

Runs stay few: a new module extends a run or replaces a violation run whose
finding is settled.

## 8. Running the checks

    tlc -workers 2 -config MCRawPipeline.cfg MCRawPipeline
    tlapm RawPipelineProofs.tla

and so on for each `MC*.cfg`, with the module of the same name (`MCFrameShortcut.cfg`
belongs to `MCFrame`, `MCLzTokensRegion.cfg` to `MCLzTokens`), and for each
`*Proofs.tla`. The longest run takes about a minute and a half; `RawPipelineProofs`
and `DecodeStreamsProofs` take ten to fifteen minutes each from nothing,
`EntropyScanProofs` some minutes, every other proof module at most a few.

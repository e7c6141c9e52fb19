--------------------------- MODULE DecodeStreams ---------------------------
(***************************************************************************)
(* The decode dispatch of one handle (fullGpuLaunchImpl and its callers):   *)
(* what each call queues on which stream, what the host waits for, and the  *)
(* device scratch that consecutive calls share.                             *)
(*                                                                          *)
(* The host runs one call after the other and the device runs the queued    *)
(* operations as CudaDevice allows.  A place in device memory holds the     *)
(* number of the call its bytes belong to, 0 when they are of no use, so an *)
(* operation that reads what another call left, or reads too early, is      *)
(* visible.  Kernels are one operation each; what they compute is modelled  *)
(* elsewhere.                                                               *)
(***************************************************************************)
EXTENDS Naturals, Sequences, FiniteSets, SequencesExt, TLC, EncodeOperations

CONSTANTS Plans,        \* the sequences of requests a caller may make
          MaxCalls,     \* bound on the calls of a plan
          AuxCreated,   \* plan -> what ensureGatherOverlap and ensureMerkleEvent may return
          FailingSteps, \* the host steps whose CUDA calls may fail
          MaxFailures   \* bound on failing calls

\* A request: what to do with host memory (slzDecompressHost, slzCompressHost)
\* or device memory (slzDecompressAsync, slzCompressAsync), the stream given (the
\* application has a blocking one and a free, non-blocking one), level >= 3, how
\* far the Merkle verification goes or whether there is a root, and the
\* dictionary (0: none).  The data is there before the first call (settled), or the
\* caller uploads it on its stream, or it is the frame an earlier call makes (of).
\* A later block of a host frame is a call of its own (dst_start_off > 0).
Request == [job : {"decompress", "compress"}, source : {"host", "device"},
            stream : {"null", "caller", "free"}, entropy : BOOLEAN,
            merkle : {"none", "chunk", "verdict", "root"}, dict : Nat,
            settled : BOOLEAN, of : Nat, later : BOOLEAN]

\* The front half: everything before work is queued on the heavy stream, and the
\* steps of a compression before it is queued on the caller's.
FrontHalf == {"header", "dict", "walk", "descs", "block", "stage", "scan", "gather", "merge",
              "barrier", "groups", "wrap", "input", "encode", "sizes", "measure", "write", "layout"}

ASSUME PlansAssumption ==
    /\ \A p \in Plans : /\ p \in Seq(Request) /\ Len(p) <= MaxCalls
                        /\ \A i \in DOMAIN p :
                              /\ p[i].source = "host" => p[i].stream = "null"
                              /\ p[i].later => p[i].source = "host"
    /\ MaxCalls \in Nat /\ MaxFailures \in Nat /\ FailingSteps \subseteq FrontHalf
    /\ AuxCreated \in [Plans -> {{TRUE}, {FALSE}, BOOLEAN}]

\* What the callers must respect.  A frame in device memory that is not simply there
\* comes from a compression that the null stream waits for; a non-blocking stream is
\* for compressing data that is there; and the Merkle chain that nobody waits for
\* needs its own stream.
ASSUME CallersAssumption ==
    \A p \in Plans : \A i \in DOMAIN p : LET r == p[i] IN
        /\ r.of # 0 => /\ r.job = "decompress" /\ r.source = "device" /\ r.of < i
                       /\ p[r.of].job = "compress" /\ p[r.of].source = "device"
                       /\ p[r.of].stream # "free"
        /\ r.stream = "free" => r.job = "compress" /\ r.settled
        /\ r.job = "decompress" /\ r.source = "host" /\ r.merkle \notin {"none", "verdict"}
              => AuxCreated[p] = {TRUE}

\* A decompression may overtake what is in flight on a non-blocking stream.
ASSUME OrderAssumption ==
    \A p \in Plans : \A i, j \in DOMAIN p :
        p[i].stream = "free" /\ i < j => p[j].job = "compress"

VARIABLES plan,         \* the requests of this run
          call,         \* the call the host is in, or about to make
          step,         \* the host function it runs next
          waiting,      \* the operations it is blocked on
          device,       \* the queue of CudaDevice
          memory,       \* place -> the call its bytes belong to
          overlap,      \* ensureGatherOverlap: the gather stream exists
          merkleEvent,  \* ensureMerkleEvent: ev_lz_done_merkle exists
          gatherPending,\* gather_event_pending
          dictCached,   \* dict_cached_id
          failures,     \* how many calls have failed
          answers, refused

vars == <<plan, call, step, waiting, device, memory, overlap, merkleEvent, gatherPending,
          dictCached, failures, answers, refused>>
host == <<plan, failures, answers, refused, memory>>

Streams == {"null", "caller", "free", "pipeline", "gather"}
Blocking == {"gather", "caller"}
Events == {"compact_done", "gather_done", "lz_done"}

Cuda == INSTANCE CudaDevice WITH Null <- "null"

Calls == 1..Len(plan)
Req == plan[call]
WorkStream == Req.stream
HeavyStream_Pipeline == "pipeline"     \* mutant: for asynchronous calls too
HeavyStream == IF Req.stream = "null" THEN "pipeline" ELSE Req.stream
Direct == Req.source = "device"            \* writesDirectlyToTarget
IsAsync(c) == plan[c].stream # "null"

-----------------------------------------------------------------------------
(* Operations and the device memory they touch.                             *)
(***************************************************************************)
\* One of each per call; the rest is shared.
OfTheCaller == {"frame", "result"} \cup EncodeOfTheCaller

Scratch == {"dict", "meta", "walk_chunks", "descs", "first_sub", "block", "staged",
            "n_chunks", "huff_lists", "raw_list", "counts", "n_merged", "huff_descs",
            "huff_lut", "huff_scratch", "raw_scratch", "n_groups", "output",
            "segments", "hashes", "verdict"}

\* "target" is the output: the caller's device memory, or the encode context's
\* buffer behind a host output.  The frame may be the output of an earlier call.
Place(name, c) ==
    IF name = "frame" /\ plan[c].of # 0 THEN <<"target", plan[c].of>>
    ELSE IF name = "target" /\ plan[c].source = "device" THEN <<"target", c>>
    ELSE <<name, IF name \in OfTheCaller THEN c ELSE 0>>

LzReads(r) ==
    {"block", "descs"}
      \cup (IF r.source = "device" THEN {"meta"} ELSE {"n_groups"})
      \cup (IF r.entropy THEN {"first_sub", "huff_scratch", "raw_scratch"} ELSE {})
      \cup (IF r.dict # 0 THEN {"dict"} ELSE {})

FromDevice(r, name) == IF r.source = "device" THEN {name} ELSE {}

\* What the earlier blocks of the frame decoded is put back in front of the output.
PutsBack(r) == IF r.later THEN {"output"} ELSE {}

\* The places an operation reads and writes, by name.
DecodeAccess(op, r) ==
    LET RW(reads, writes) == [reads |-> reads, writes |-> writes]
        LzOutput == IF r.source = "device" THEN "target" ELSE "output"
    IN CASE op = "UploadFrame"  -> RW({}, {"frame"})
         [] op = "ReadHeader"   -> RW({"frame"}, {})
         [] op = "UploadDict"   -> RW({}, {"dict"})
         [] op = "ZeroMeta"     -> RW({}, {"meta"})
         [] op = "Walk"         -> RW({"frame"}, {"meta", "walk_chunks"})
         [] op = "CopyDescs"    -> RW(FromDevice(r, "walk_chunks"), {"descs"} \cup PutsBack(r))
         [] op = "PrefixSum"    -> RW({"descs"}, {"first_sub"})
         [] op = "CopyBlock"    -> RW(FromDevice(r, "frame"), {"block"})
         [] op = "ZeroStaged"   -> RW({}, {"staged"})
         [] op = "CopyCount"    -> RW({}, {"n_chunks"})
         [] op = "ScanParse"    -> RW({"block", "descs", "first_sub", "n_chunks", "staged"}, {"staged"})
         [] op = "ZeroCounts"   -> RW({}, {"counts", "n_merged"})
         [] op = "Compact"      -> RW({"staged", "first_sub"}, {"huff_lists", "raw_list", "counts"})
         [] op = "Gather"       -> RW({"block", "raw_list", "counts"}, {"raw_scratch"})
         [] op = "Merge"        -> RW({"huff_lists", "counts"}, {"huff_descs", "n_merged"})
         [] op = "CopyGroups"   -> RW({}, {"n_groups"})
         [] op = "HuffBuild"    -> RW({"block", "huff_descs", "n_merged"}, {"huff_lut"})
         [] op = "HuffDecode"   -> RW({"block", "huff_descs", "huff_lut", "n_merged", "counts"}, {"huff_scratch"})
         [] op = "Lz"           -> RW(LzReads(r), {LzOutput})
         [] op = "ScPrefix"     -> RW({"block", "output"}, {"output"})
         [] op = "SegHash"      -> RW({"output"}, {"segments"})
         [] op = "ChunkCombine" -> RW({"segments"}, {"hashes"})
         [] op = "Verdict"      -> RW({"hashes"}, {"verdict"})
         [] op = "ReadVerdict"  -> RW({"verdict"}, {})
         [] op = "ReadStatus"   -> RW({"meta"}, {})
         [] op = "Download"     -> RW({LzOutput}, {"result"})

Access(op, r) == IF r.job = "compress" THEN EncodeAccess(op, r) ELSE DecodeAccess(op, r)

Reads(id) == {Place(n, id.call) : n \in Access(id.op, plan[id.call]).reads}
Writes(id) == {Place(n, id.call) : n \in Access(id.op, plan[id.call]).writes}

\* The dictionary outlives its call: it is current while its ID is right.  What
\* is the caller's holds the bytes of the call it is for.
Owner(p, c) == IF p[1] = "dict" THEN plan[c].dict ELSE IF p[2] # 0 THEN p[2] ELSE c
Current(id) == \A p \in Reads(id) : memory[p] = Owner(p, id.call)

\* cuMemsetD8 of a buffer a kernel fills later leaves nothing of use in it.
Clears(id) == id.op \in {"ZeroMeta", "ZeroCounts", "ZeroSizes"}

-----------------------------------------------------------------------------
(* The device.                                                              *)
(***************************************************************************)
Start ==
    /\ \E id \in Cuda!Startable(device) : device' = Cuda!Started(device, id)
    /\ UNCHANGED <<plan, call, step, waiting, memory, overlap, merkleEvent, gatherPending,
                   dictCached, failures, answers, refused>>

\* An operation finishes.  A download is the answer to its call.
Finish ==
    \E id \in device.running :
        /\ device' = Cuda!Finished(device, id)
        /\ waiting' = waiting \ {id}
        /\ memory' = [p \in DOMAIN memory |->
                        IF p \notin Writes(id) THEN memory[p]
                        ELSE IF Clears(id) \/ ~Current(id) THEN 0 ELSE Owner(p, id.call)]
        /\ answers' = IF id.op # "Download" THEN answers
                      ELSE Append(answers, [call |-> id.call,
                                            of |-> memory'[Place("result", id.call)]])
        /\ UNCHANGED <<plan, call, step, overlap, merkleEvent, gatherPending, dictCached,
                       failures, refused>>

-----------------------------------------------------------------------------
(* The host.  Each action is one function of the dispatch, guarded by the   *)
(* host not being blocked.                                                  *)
(***************************************************************************)
Op(name) == [call |-> call, op |-> name]

\* Queue the named operations on s, in order; no function queues more than four.
Queue(dev, s, ops) ==
    LET Nth(d, n) == IF n <= Len(ops) THEN Cuda!Launch(d, s, Op(ops[n])) ELSE d
    IN  Nth(Nth(Nth(Nth(dev, 1), 2), 3), 4)

At(here) == step = here /\ waiting = {} /\ call \in Calls
Goto(there) == step' = there /\ UNCHANGED <<call, host>>
Blocks(ops) == waiting' = {Op(o) : o \in ops}
Returns == waiting' = {}
SameFlags == UNCHANGED <<overlap, merkleEvent, gatherPending, dictCached>>

\* The caller: the data of a device call is uploaded on its stream.
CallerUpload(op) ==
    IF Req.source = "device" /\ ~Req.settled /\ Req.of = 0
      THEN device' = Queue(device, WorkStream, <<op>>)
      ELSE UNCHANGED device
Submit ==
    /\ At("submit") /\ Req.job = "decompress" /\ Req.of \notin refused
    /\ CallerUpload("UploadFrame")
    /\ Goto(IF Req.source = "device" THEN "header" ELSE "dict")
    /\ Returns /\ SameFlags

\* decompressFramedFromDevice reads the frame header back, on the null stream.
HeaderStream_Own == "pipeline"         \* mutant: on a stream of the library
HeaderStream == "null"
ReadHeader ==
    /\ At("header")
    /\ device' = Queue(device, HeaderStream, <<"ReadHeader">>) /\ Blocks({"ReadHeader"})
    /\ Goto("dict") /\ SameFlags

\* ensureDictOnDevice: uploaded unless the cached one has this ID.
DictResident_AnyId == Req.dict = 0 \/ dictCached # 0    \* mutant: whatever is cached
DictResident == Req.dict \in {0, dictCached}
EnsureDict ==
    /\ At("dict")
    /\ IF DictResident
         THEN Returns /\ UNCHANGED <<device, dictCached>>
         ELSE /\ device' = Queue(device, "null", <<"UploadDict">>)
              /\ Blocks({"UploadDict"})
              /\ dictCached' = Req.dict
    /\ Goto(IF Req.source = "device" THEN "walk" ELSE "descs")
    /\ UNCHANGED <<overlap, merkleEvent, gatherPending>>

\* gpuWalkFrame
WalkFrame ==
    /\ At("walk")
    /\ device' = Queue(Queue(device, "null", <<"ZeroMeta">>), WorkStream, <<"Walk">>)
    /\ Goto("descs") /\ Returns /\ SameFlags

\* uploadInputAndPrefixSum: host bytes go through the null stream and block,
\* device bytes are copied on the work stream.  CopyDescs stands for both copies of
\* a later block, which follow one another on the same stream.
UploadDescs ==
    /\ At("descs")
    /\ IF Req.source = "device"
         THEN device' = Queue(device, WorkStream, <<"CopyDescs">>) /\ Returns
         ELSE device' = Queue(device, "null", <<"CopyDescs">>) /\ Blocks({"CopyDescs"})
    /\ Goto("block") /\ SameFlags

PrefixSumAndUploadBlock ==
    /\ At("block")
    /\ LET d == Queue(device, WorkStream, <<"PrefixSum">>)
       IN IF Req.source = "device"
            THEN device' = Queue(d, WorkStream, <<"CopyBlock">>) /\ Returns
            ELSE device' = Queue(d, "null", <<"CopyBlock">>) /\ Blocks({"CopyBlock"})
    /\ Goto(IF Req.entropy THEN "stage" ELSE "barrier") /\ SameFlags

\* gpuScanChunks: clear the staged descriptors, upload the chunk count ...
StageScan ==
    /\ At("stage")
    /\ device' = Queue(device, "null", <<"ZeroStaged", "CopyCount">>)
    /\ Blocks({"CopyCount"}) /\ Goto("scan") /\ SameFlags

\* ... then scan and compact.
ScanAndCompact(d) ==
    Queue(Queue(Queue(d, WorkStream, <<"ScanParse">>), "null", <<"ZeroCounts">>),
          WorkStream, <<"Compact">>)
ScanChunks ==
    /\ At("scan")
    /\ device' = ScanAndCompact(device)
    /\ Goto("gather") /\ Returns /\ SameFlags

\* The gather stream and its events are created once; a failed creation is
\* tried again by the next call.
MayBeCreated == IF overlap THEN {TRUE} ELSE AuxCreated[plan]

\* The gather stream starts after the compaction ...
ForkGather_AtOnce(d) == d              \* mutant: ev_compact_done not waited for
ForkGather(d) ==
    Cuda!WaitEvent(Cuda!Record(d, "compact_done", WorkStream), "gather", "compact_done")

\* ... and the LZ kernel starts after the gather.
JoinGather(d) ==
    IF gatherPending THEN Cuda!WaitEvent(d, HeavyStream, "gather_done") ELSE d

PendingAfter(created) == created

\* gatherRawOff16, on the gather stream when that could be created.
GatherRawOff16 ==
    /\ At("gather")
    /\ \E created \in MayBeCreated :
         /\ overlap' = created
         /\ gatherPending' = PendingAfter(created)
         /\ device' = IF created
              THEN Cuda!Record(Queue(ForkGather(device), "gather", <<"Gather">>), "gather_done", "gather")
              ELSE Queue(device, WorkStream, <<"Gather">>)
    /\ Goto("merge") /\ Returns /\ UNCHANGED <<merkleEvent, dictCached>>

MergeHuffDescs ==
    /\ At("merge")
    /\ device' = Queue(device, WorkStream, <<"Merge">>)
    /\ Goto("barrier") /\ Returns /\ SameFlags

\* runBackHalf: the null stream drains before another stream takes over ...
DrainsFrontHalf == HeavyStream # WorkStream
CrossStreamBarrier ==
    /\ At("barrier")
    /\ waiting' = IF DrainsFrontHalf THEN device.front[WorkStream] ELSE {}
    /\ Goto("groups") /\ UNCHANGED device /\ SameFlags

\* ... the group count is uploaded, unless the walk has left it on the device.  A
\* copy from host memory is taken to block until it is done, as uploadInputAndPrefixSum
\* says of it ...
StageGroupCount ==
    /\ At("groups")
    /\ IF Req.source = "device" THEN UNCHANGED device /\ Returns
       ELSE device' = Queue(device, "null", <<"CopyGroups">>) /\ Blocks({"CopyGroups"})
    /\ Goto(IF Req.entropy THEN "huff" ELSE "lz") /\ SameFlags

\* ... the Huffman streams are decoded ...
HuffBuildAndDecode ==
    /\ At("huff")
    /\ device' = Queue(device, HeavyStream, <<"HuffBuild", "HuffDecode">>)
    /\ Goto("lz") /\ Returns /\ SameFlags

\* ... and the LZ kernel follows.
LzPipeline ==
    /\ At("lz")
    /\ device' = Queue(JoinGather(device), HeavyStream, <<"Lz">>)
    /\ gatherPending' = FALSE
    /\ Goto("settle") /\ Returns /\ UNCHANGED <<overlap, merkleEvent, dictCached>>

\* On the null stream the call waits for its back half.
SettlesBackHalf_Never == FALSE         \* mutant: no back-half synchronisation
SettlesBackHalf == WorkStream = "null"
SettleBackHalf ==
    /\ At("settle")
    /\ waiting' = IF SettlesBackHalf THEN device.front[HeavyStream] ELSE {}
    /\ Goto(IF Direct THEN "status" ELSE IF Req.merkle = "none" THEN "finalize" ELSE "merkle")
    /\ UNCHANGED device /\ SameFlags

\* The Merkle chain runs on the gather stream after the LZ kernel when both that
\* stream and ev_lz_done_merkle could be created, and the last block of a frame
\* waits for its verdict.
ForkMerkle(d, created) ==
    IF created THEN Cuda!WaitEvent(Cuda!Record(d, "lz_done", HeavyStream), "gather", "lz_done") ELSE d

MayHaveEvent == IF merkleEvent THEN {TRUE} ELSE AuxCreated[plan]
MerkleVerify ==
    /\ At("merkle")
    /\ \E gather \in MayBeCreated, event \in MayHaveEvent :
         LET created == gather /\ event
             s == IF created THEN "gather" ELSE HeavyStream
             d == Queue(ForkMerkle(device, created), s, <<"ScPrefix", "SegHash", "ChunkCombine">>)
         IN /\ overlap' = gather /\ merkleEvent' = (merkleEvent \/ created)
            /\ IF Req.merkle = "verdict"
                 THEN /\ device' = Queue(d, s, <<"Verdict">>)
                      /\ waiting' = device'.front[s]
                      /\ Goto("verdict")
                 ELSE device' = d /\ Returns /\ Goto("finalize")
    /\ UNCHANGED <<gatherPending, dictCached>>

ReadVerdict ==
    /\ At("verdict")
    /\ device' = Queue(device, "null", <<"ReadVerdict">>) /\ Blocks({"ReadVerdict"})
    /\ Goto("finalize") /\ SameFlags

\* finalizeOutput to host memory
FinalizeOutput ==
    /\ At("finalize")
    /\ device' = Queue(device, "null", <<"Download">>) /\ Blocks({"Download"})
    /\ Goto("return") /\ SameFlags

\* The walk's status is read when the call is synchronous.
WalkStatus ==
    /\ At("status")
    /\ IF WorkStream = "null"
         THEN device' = Queue(device, "null", <<"ReadStatus">>) /\ Blocks({"ReadStatus"})
         ELSE UNCHANGED device /\ Returns
    /\ Goto("download") /\ SameFlags

\* The caller: the output of an asynchronous call is copied on its stream.
CallerDownload ==
    /\ At("download")
    /\ device' = Queue(device, WorkStream, <<"Download">>)
    /\ Goto("return") /\ Returns /\ SameFlags

NextCall ==
    /\ step' = "submit" /\ call' = call + 1
    /\ UNCHANGED <<plan, answers, waiting, device, overlap, merkleEvent, gatherPending>>

Return == At("return") /\ NextCall /\ UNCHANGED <<memory, dictCached, failures, refused>>

\* The caller has no frame to decompress: the call that was to make it failed.
NothingToRead ==
    /\ At("submit") /\ Req.of \in refused
    /\ refused' = refused \cup {call}
    /\ NextCall /\ UNCHANGED <<memory, dictCached, failures>>

ForgottenDict == 0    \* ensureDictOnDevice clears dict_cached_id before it uploads

\* A CUDA call of this step fails and the error is returned: what was queued
\* stays queued.  A dictionary upload that fails, after the wait of every
\* null-stream copy, leaves the bytes undefined and nothing cached.
Fail ==
    /\ \E s \in FailingSteps : At(s)
    /\ failures < MaxFailures
    /\ failures' = failures + 1 /\ refused' = refused \cup {call}
    /\ IF step = "dict"
         THEN /\ ~DictResident
              /\ Cuda!Before(device, "null") = {}
              /\ dictCached' = ForgottenDict
              /\ memory' = [memory EXCEPT ![Place("dict", call)] = 0]
         ELSE UNCHANGED <<dictCached, memory>>
    /\ NextCall

-----------------------------------------------------------------------------
Places == {Place(n, c) : n \in {"target"} \cup Scratch \cup EncodeScratch \cup OfTheCaller, c \in Calls}
Init ==
    /\ plan \in Plans
    /\ call = 1 /\ step = "submit" /\ waiting = {}
    /\ device = Cuda!IdleDevice
    /\ memory = [p \in Places |->
                    IF p[1] \in {"frame", "input"} /\ plan[p[2]].settled THEN p[2] ELSE 0]
    /\ overlap = FALSE /\ merkleEvent = FALSE /\ gatherPending = FALSE /\ dictCached = 0
    /\ failures = 0 /\ answers = <<>> /\ refused = {}

HostStep ==
    \/ Submit \/ ReadHeader \/ EnsureDict \/ WalkFrame \/ UploadDescs
    \/ PrefixSumAndUploadBlock \/ StageScan \/ ScanChunks \/ GatherRawOff16
    \/ MergeHuffDescs \/ CrossStreamBarrier \/ StageGroupCount \/ HuffBuildAndDecode
    \/ LzPipeline \/ SettleBackHalf \/ MerkleVerify \/ ReadVerdict \/ FinalizeOutput
    \/ WalkStatus \/ CallerDownload \/ Return \/ NothingToRead \/ Fail

\* All calls made and everything drained.
Done == call \notin Calls /\ Cuda!Queued(device) = {} /\ UNCHANGED vars

-----------------------------------------------------------------------------
(* Properties.                                                              *)
(***************************************************************************)
\* Two operations that run side by side never touch the same place, unless
\* both read it: the streams, events and host waits of the dispatch order
\* every pair that would, of one call or of two.
DataRaceFree ==
    \A i, j \in device.running : i # j => Writes(i) \cap (Reads(j) \cup Writes(j)) = {}

\* An operation finds in every place it reads what its own call put there
\* (the dictionary: the one its frame names), never a previous call's.
InputsCurrent == \A id \in device.running : Current(id)

\* A call on the default stream leaves nothing behind: when it returns, none
\* of its operations is queued or running on any of the library's streams (the
\* copy its caller makes afterwards is not one of them).
SynchronousCallSettles ==
    \A id \in Cuda!Queued(device) :
        /\ id.call < call \/ (id.call = call /\ step = "download" /\ waiting = {})
        /\ id.call \notin refused /\ id.op # "Download"
        => IsAsync(id.call)

\* The caller's synchronisation of its stream is enough: once a stream has
\* drained, nothing of the calls made with it is left on any stream.
CallersSyncSuffices ==
    \A s \in {"caller", "free"} :
        device.front[s] = {} =>
            \A id \in Cuda!Queued(device) :
                id.call < call /\ plan[id.call].stream = s => id.call \in refused

\* Header, lines 12 and 269: the work of an asynchronous call is queued on the
\* caller's stream, so none of it runs before the upload that the caller queued
\* there first, the input of a compression too.
Uploads == {"UploadFrame", "UploadInput"}
QueuedOnCallersStream ==
    \A i \in device.running, j \in Cuda!Queued(device) :
        IsAsync(i.call) /\ j.op \in Uploads /\ j.call <= i.call => i = j

\* The calls are answered in order, each with its own data decoded or encoded.
Abstract == INSTANCE DecodeCalls WITH Calls <- 1..MaxCalls
AnswersInOrder == Abstract!Init /\ [][Abstract!Next]_<<answers, refused>>
=============================================================================

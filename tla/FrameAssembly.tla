---------------------------- MODULE FrameAssembly ----------------------------
(***************************************************************************)
(* How one frame is written: the LZ kernel's compaction, the two assembly  *)
(* passes with the host's prefix sum between them, the host's layout, the  *)
(* frame-assemble grid and the footers.  Each kernel runs one block per    *)
(* chunk, in any order, and writes where the host told it to; no step      *)
(* checks that the pieces tile the frame.                                  *)
(*                                                                         *)
(* A job is [subs, size, dict, table, merkle, csum]: the chunks as         *)
(* SubChunkFormat records (a chunk is one sub-chunk) and the options: the  *)
(* content size and dictionary fields of the header, the chunk-size table, *)
(* the Merkle root and the content checksum.                               *)
(***************************************************************************)
EXTENDS SubChunkFormat

CONSTANTS CHUNK,               \* eff_chunk, the source bytes of a full chunk
          MIN_SOURCE_LENGTH,   \* no longer source is compressed
          ASSEMBLY_CHUNK_CAP,  \* more chunks than this are stored uncompressed
          Jobs

ASSUME AssemblyAssumption == /\ CHUNK \in Nat \ {0}
                             /\ MIN_SOURCE_LENGTH \in Nat
                             /\ ASSEMBLY_CHUNK_CAP \in Nat \ {0}

VARIABLES job,      \* what is being compressed
          pc,       \* the stage of the pipeline
          ran,      \* the blocks of the running kernel that are done
          raw,      \* of each chunk, the LZ kernel's output
          encSize,  \* of each chunk, what the measure pass returned
          outOff,   \* of each chunk, its place in the assembled blocks
          asmOut,   \* the assembled blocks
          layout,   \* the host's layout of the frame
          frame,    \* the frame as written so far
          size      \* and how long the encoder says it is

avars == <<job, pc, ran, raw, encSize, outOff, asmOut, layout, frame, size>>

Chunks      == DOMAIN job.subs
N           == Len(job.subs)
SrcLen      == (N - 1) * CHUNK + job.subs[N].src
SumTo(f, n) == FoldLeft(LAMBDA a, k : a + f[k], 0, [k \in 1 .. n |-> k])

\* Bytes around a chunk's payload: the internal header, and the chunk header of a
\* compressed one.
UNCOMPRESSED_CHUNK_HDR_BYTES == 2
CHUNK_INTERNAL_HDR_BYTES     == 6
SC_TAIL_PER_CHUNK_BYTES      == 8

\* The table is promised up front, in the header, for compressed bodies.
EmitChunkTable == job.table /\ SrcLen > MIN_SOURCE_LENGTH
Header(table) ==
    F("hdr", 14 + (IF job.size THEN 8 ELSE 0) + (IF job.dict THEN 4 ELSE 0),
      [size |-> job.size, dict |-> job.dict, table |-> table, merkle |-> job.merkle,
       csum |-> job.csum, flaw |-> "none"])
Block(comp, unc) == F("block", 8, [comp |-> comp, decomp |-> SrcLen, unc |-> unc, pdm |-> FALSE])
Internal(unc)    == F("int", 2, [unc |-> unc, flaw |-> "none"])
ChunkHdr(n)      == F("chunk", 4, [type |-> 0, size |-> n])
Source(c)        == F("src", job.subs[c].src, c)
PrefixEntry(c)          == F("tail", SC_TAIL_PER_CHUNK_BYTES, <<c, Smaller(8, job.subs[c].src)>>)
EndMark          == F("end", 4, 0)

\* A source that is too short, or has too many chunks, is stored: the header's
\* table bit is cleared again for the latter.
StoredFields == <<Header(FALSE), Block(SrcLen, TRUE), F("src", SrcLen, 0), EndMark>>
Stored == SrcLen <= MIN_SOURCE_LENGTH \/ N > ASSEMBLY_CHUNK_CAP

Init ==
    /\ job \in Jobs
    /\ pc = IF Stored THEN "stored" ELSE "lz"
    /\ ran = {} /\ size = 0
    /\ raw = [c \in Chunks |-> Empty]
    /\ encSize = [c \in Chunks |-> 0]
    /\ outOff = [c \in Chunks |-> 0]
    /\ asmOut = Empty /\ frame = Empty
    /\ layout = [unc |-> {}]

\* Block k of a grid is done; the next stage starts when the whole grid is.
BlockDone(k, grid, next) ==
    IF ran \union {k} = grid THEN ran' = {} /\ pc' = next
                             ELSE ran' = ran \union {k} /\ pc' = pc

WriteStored ==
    /\ pc = "stored"
    /\ frame' = Lay(Empty, 0, StoredFields)
    /\ size' = TotalWidth(StoredFields)
    /\ pc' = "content"
    /\ UNCHANGED <<job, ran, raw, encSize, outOff, asmOut, layout>>

LzBlock(c) ==
    /\ pc = "lz" /\ c \in Chunks \ ran
    /\ raw' = [raw EXCEPT ![c] = LzPayload(job.subs[c])]
    /\ BlockDone(c, Chunks, "measure")
    /\ UNCHANGED <<job, encSize, outOff, asmOut, layout, frame, size>>

MeasureBlock(c) ==
    /\ pc = "measure" /\ c \in Chunks \ ran
    /\ encSize' = [encSize EXCEPT ![c] = TotalWidth(AssembleSubChunk(raw[c], job.subs[c]))]
    /\ BlockDone(c, Chunks, "sum")
    /\ UNCHANGED <<job, raw, outOff, asmOut, layout, frame, size>>

\* gpuAssembleFrameImpl between the passes; a size of 0 is a parse error.
SUBCHUNK_HDR_BYTES == 3
Before(c) == SumTo([k \in Chunks |-> SUBCHUNK_HDR_BYTES + encSize[k]], c - 1)
PrefixSum ==
    /\ pc = "sum"
    /\ IF \E c \in Chunks : encSize[c] = 0
       THEN pc' = "failed" /\ UNCHANGED outOff
       ELSE pc' = "write" /\ outOff' = [c \in Chunks |-> Before(c)]
    /\ UNCHANGED <<job, ran, raw, encSize, asmOut, layout, frame, size>>

WithHeader(payload) == <<F("sch", SUBCHUNK_HDR_BYTES, TotalWidth(payload))>> \o payload
WriteBlock(c) ==
    /\ pc = "write" /\ c \in Chunks \ ran
    /\ asmOut' = Lay(asmOut, outOff[c], WithHeader(AssembleSubChunk(raw[c], job.subs[c])))
    /\ BlockDone(c, Chunks, "layout")
    /\ UNCHANGED <<job, raw, encSize, outOff, layout, frame, size>>

\* assembleFrame and the head of gpuFrameAssembleImpl: which chunks go out
\* uncompressed, what each takes on the wire, where each begins.
Failed(c)   == CompSize(job.subs[c]) >= job.subs[c].src
Payload(c)  == IF Failed(c) THEN job.subs[c].src ELSE SUBCHUNK_HDR_BYTES + encSize[c]
OverheadAlways6(c) == CHUNK_INTERNAL_HDR_BYTES
Overhead(c) == IF Failed(c) THEN UNCOMPRESSED_CHUNK_HDR_BYTES ELSE CHUNK_INTERNAL_HDR_BYTES
Wire        == [c \in Chunks |-> Overhead(c) + Payload(c)]
TailBytes   == (N - 1) * SC_TAIL_PER_CHUNK_BYTES
Prefix      == <<Header(EmitChunkTable), Block(SumTo(Wire, N) + TailBytes, FALSE)>>
Layout ==
    /\ pc = "layout"
    /\ layout' = LET start == TotalWidth(Prefix) IN
          [unc |-> {c \in Chunks : Failed(c)}, payload |-> [c \in Chunks |-> Payload(c)],
           dst |-> [c \in Chunks |-> start + SumTo(Wire, c - 1)],
           tail |-> start + SumTo(Wire, N), end |-> start + SumTo(Wire, N) + TailBytes]
    /\ pc' = "assemble"
    /\ UNCHANGED <<job, ran, raw, encSize, outOff, asmOut, frame, size>>

\* The frame-assemble grid: a block per chunk and one (numbered 0) for the rest.
Grid == {0} \union Chunks
ChunkBlock(c) ==
    /\ pc = "assemble" /\ c \in Chunks \ ran
    /\ LET d == layout.dst[c]
           n == layout.payload[c]
       IN  frame' = IF c \in layout.unc
                    THEN Lay(frame, d, <<Internal(TRUE), Source(c)>>)
                    ELSE Paste(Lay(frame, d, <<Internal(FALSE), ChunkHdr(n)>>),
                               d + CHUNK_INTERNAL_HDR_BYTES, Slice(asmOut, outOff[c], n), n)
    /\ BlockDone(c, Grid, "table")
    /\ UNCHANGED <<job, raw, encSize, outOff, asmOut, layout, size>>
ScTail == [k \in 1 .. N - 1 |-> PrefixEntry(k + 1)]
LastBlock ==
    /\ pc = "assemble" /\ 0 \notin ran
    /\ frame' = Put(Lay(Lay(frame, 0, Prefix), layout.tail, ScTail), layout.end, EndMark)
    /\ BlockDone(0, Grid, "table")
    /\ UNCHANGED <<job, raw, encSize, outOff, asmOut, layout, size>>

\* What follows the end mark.  The size table and the root are appended to the
\* device frame, the content checksum to the host copy of it; a stored frame gets
\* both trailers on the host.
Entry(c) == F("entry", 3, IF c \in layout.unc
                          THEN UNCOMPRESSED_CHUNK_HDR_BYTES + layout.payload[c]
                          ELSE CHUNK_INTERNAL_HDR_BYTES + layout.payload[c])
Table    == IF EmitChunkTable THEN [c \in Chunks |-> Entry(c)] ELSE <<>>
AppendTable ==
    /\ pc = "table"
    /\ frame' = Lay(frame, layout.end + 4, Table)
    /\ size' = layout.end + 4 + TotalWidth(Table)
    /\ pc' = "root"
    /\ UNCHANGED <<job, ran, raw, encSize, outOff, asmOut, layout>>
PutTrailer(f, wanted) ==
    /\ frame' = IF wanted THEN Put(frame, size, f) ELSE frame
    /\ size' = IF wanted THEN size + WidthOf(f) ELSE size
RootField    == F("root", 4, 0)
ContentField == F("xxh", 4, 0)
AppendRoot ==
    /\ pc = "root"
    /\ PutTrailer(RootField, job.merkle)
    /\ pc' = IF Stored THEN "done" ELSE "content"
    /\ UNCHANGED <<job, ran, raw, encSize, outOff, asmOut, layout>>
AppendContent ==
    /\ pc = "content"
    /\ PutTrailer(ContentField, job.csum)
    /\ pc' = IF Stored THEN "root" ELSE "done"
    /\ UNCHANGED <<job, ran, raw, encSize, outOff, asmOut, layout>>

Assemble ==
    \/ WriteStored \/ PrefixSum \/ Layout \/ LastBlock
    \/ AppendTable \/ AppendRoot \/ AppendContent
    \/ \E c \in Chunks : LzBlock(c) \/ MeasureBlock(c) \/ WriteBlock(c) \/ ChunkBlock(c)
=============================================================================

------------------------------ MODULE FrameWalk ------------------------------
(***************************************************************************)
(* How a frame is taken apart again.  The finished frame is delivered to   *)
(* one of three readers: the host (frame header, block, descriptors,       *)
(* trailers), the single-threaded walk kernel, or, when the frame carries  *)
(* a chunk-size table, the walk kernel that gives each thread a segment of *)
(* the table.  The delivered frame may come from another encoder (a chunk  *)
(* of one byte value is a memset) or be damaged on the way.                *)
(*                                                                         *)
(* The table walk runs stage by stage: a thread is at a stage when it has  *)
(* passed every barrier before it, and a barrier opens when all threads    *)
(* have arrived.  A thread that has returned arrives at no later barrier.  *)
(***************************************************************************)
EXTENDS FrameAssembly

CONSTANTS LOG_THREADS,   \* the table walk has 2^LOG_THREADS threads
          Damages        \* what may happen to a frame on its way

ASSUME WalkAssumption == LOG_THREADS \in Nat \ {0}

VARIABLES fill,     \* the chunks that another encoder wrote as memset
          damage,   \* what happened to the frame
          reader,   \* "none", "host", "serial" or "table"
          at,       \* of each thread of the table walk, its next stage
          gone,     \* the threads that returned
          partial,  \* s_partial
          reg,      \* of each thread, v in the scan, then rel and i in pass 2
          meta,     \* s_meta
          status,   \* *d_status, or the host's outcome (0 accepts)
          descs,    \* d_chunks
          count     \* *d_n_chunks

wvars == <<fill, damage, reader, at, gone, partial, reg, meta, status, descs, count>>
vars  == <<avars, wvars>>

-----------------------------------------------------------------------------
(* The frame as the format describes it: the fields one after the other.   *)

Assembled(s)  == AssembleSubChunk(Lay(Empty, 0, RawFields(s)), s)
Compressed(p) == <<Internal(FALSE), ChunkHdr(SUBCHUNK_HDR_BYTES + TotalWidth(p)),
                   F("sch", SUBCHUNK_HDR_BYTES, TotalWidth(p))>> \o p
Piece(c, M) ==
    CASE c \in M   -> <<Internal(FALSE), F("chunk", 4, [type |-> 1, size |-> 1]), F("fill", 1, c)>>
      [] Failed(c) /\ c \notin M -> <<Internal(TRUE), Source(c)>>
      [] OTHER     -> Compressed(Assembled(job.subs[c]))
Trailers == (IF job.csum THEN <<ContentField>> ELSE <<>>)
              \o (IF job.merkle THEN <<RootField>> ELSE <<>>)
Framed(pieces, widths) ==
    <<Header(EmitChunkTable), Block(SumTo(widths, N) + TailBytes, FALSE)>>
        \o FlattenSeq(pieces) \o ScTail \o <<EndMark>>
        \o (IF EmitChunkTable THEN [c \in Chunks |-> F("entry", 3, widths[c])] ELSE <<>>)
        \o Trailers
FramedPieces(pieces) == Framed(pieces, [c \in Chunks |-> TotalWidth(pieces[c])])
WireFrame(M) == IF Stored THEN StoredFields \o Trailers
                ELSE FramedPieces([c \in Chunks |-> Piece(c, M)])

-----------------------------------------------------------------------------
(* Reading the frame header and the block header.                          *)

NumChunks      == (SrcLen + CHUNK - 1) \div CHUNK   \* from the size the caller gives
HeaderBytes(h) == 14 + (IF h.size THEN 8 ELSE 0) + (IF h.dict THEN 4 ELSE 0)
BlockPos(m)    == HeaderBytes(Value(m, 0))
BlockStart(m)  == BlockPos(m) + 8
BlockOf(m)     == Value(m, BlockPos(m))
HeaderStatus(m) ==
    CASE Value(m, 0).flaw = "magic"   -> 1
      [] Value(m, 0).flaw = "version" -> 2
      [] Value(m, 0).flaw = "codec"   -> 3
      [] ~Is(m, BlockPos(m), "block") -> 6
      [] OTHER -> IF BlockOf(m).pdm THEN 5 ELSE 0
InternalStatusNoDecoder(m, p) == IF ~Is(m, p, "int") \/ Value(m, p).flaw = "magic" THEN 7 ELSE 0
InternalStatus(m, p) == IF ~Is(m, p, "int") \/ Value(m, p).flaw = "magic" THEN 7
                        ELSE IF Value(m, p).flaw = "decoder" THEN 8 ELSE 0

Desc(src, comp, decomp, dst, flag, byte) ==
    [src |-> src, comp |-> comp, decomp |-> decomp, dst |-> dst, flag |-> flag, fill |-> byte]
MemsetDesc(decomp, dst, byte) == Desc(0, 0, decomp, dst, "memset", byte)
\* Whole-chunk shortcut: a payload of the chunk's own size is raw bytes.
ChunkDesc(src, comp, decomp, dst) ==
    Desc(src, comp, decomp, dst, IF comp = decomp THEN "raw" ELSE "lz", 0)
RawDesc(src, decomp, dst) == Desc(src, decomp, decomp, dst, "raw", 0)
DstThis(k) == Smaller(CHUNK, SrcLen - (k - 1) * CHUNK)
DstOff(k)  == (k - 1) * CHUNK

\* One chunk of a serial walk.  w is [pos, descs, status, more]; positions count
\* from the block's start.  limit is where the reader says the chunks end, rawForm
\* whether it knows the uncompressed form of a chunk, and junk what it makes of
\* bytes that are no chunk header.
Stop(w, code) == [w EXCEPT !.status = code, !.more = FALSE]
Add(w, pos, d) == [w EXCEPT !.pos = pos, !.descs = Append(@, d)]
WalkChunk(m, w, k, limit, rawForm, junk) ==
    LET start == BlockStart(m)
        this  == DstThis(k)
        dst   == DstOff(k)
        body  == w.pos + 2
        ch    == IF Is(m, start + body, "chunk") THEN Value(m, start + body) ELSE junk
    IN  IF w.pos + 2 > limit THEN Stop(w, 7)
        ELSE IF InternalStatus(m, start + w.pos) # 0 THEN Stop(w, InternalStatus(m, start + w.pos))
        ELSE IF rawForm /\ Value(m, start + w.pos).unc THEN Add(w, body + this, RawDesc(body, this, dst))
        ELSE IF body + 4 > limit THEN Stop(w, 9)
        ELSE CASE ch.type = 0 ->
                    IF body + 4 + ch.size > limit THEN Stop(w, 12)
                    ELSE Add(w, body + 4 + ch.size, ChunkDesc(body + 4, ch.size, this, dst))
               [] ch.type = 1 ->
                    IF body + 5 > limit THEN Stop(w, 9)
                    ELSE Add(w, body + 5, MemsetDesc(this, dst,
                                IF Is(m, start + body + 4, "fill")
                                THEN Value(m, start + body + 4) ELSE 0))
               [] OTHER -> Stop(w, 10)
WalkStart == [pos |-> 0, descs |-> <<>>, status |-> 0, more |-> TRUE]

\* buildChunkDescriptors over the payload that is left when the prefix table is cut
\* off.  A sidecar block is skipped, and then the content size is not reached.
SIZE_MISMATCH == 98
HostWalk(m) ==
    IF HeaderStatus(m) \notin {0, 5} THEN Stop(WalkStart, HeaderStatus(m))
    ELSE IF BlockOf(m).pdm THEN Stop(WalkStart, IF Value(m, 0).size THEN SIZE_MISMATCH ELSE 0)
    ELSE IF BlockOf(m).unc THEN Add(WalkStart, SrcLen, RawDesc(0, SrcLen, 0))
    ELSE FoldLeft(LAMBDA w, k : IF w.more
                     THEN WalkChunk(m, w, k, BlockOf(m).comp - (NumChunks - 1) * 8, TRUE,
                                    [type |-> 2, size |-> 0])
                     ELSE w,
                  WalkStart, [k \in 1 .. NumChunks |-> k])

\* slzWalkFrameKernel.
SerialWalk(m, junk) ==
    IF HeaderStatus(m) # 0 THEN Stop(WalkStart, HeaderStatus(m))
    ELSE IF BlockOf(m).unc THEN Add(WalkStart, SrcLen, RawDesc(0, SrcLen, 0))
    ELSE FoldLeft(LAMBDA w, k : IF w.more /\ w.pos < BlockOf(m).comp
                     THEN WalkChunk(m, w, k, BlockOf(m).comp, FALSE, junk) ELSE w,
                  WalkStart, [k \in 1 .. NumChunks |-> k])

-----------------------------------------------------------------------------
(* What the descriptors are good for: chunk c comes out right when its     *)
(* descriptor leads to its source bytes or to a sub-chunk whose streams    *)
(* are those the parsers of the encoder filled, and the first bytes of the *)
(* later chunks come from the prefix table.                                *)

ChunkRight(m, d, c) ==
    LET p == BlockStart(m) + d.src IN
    CASE d.flag = "raw"    -> Run(m, p, d.comp) = IF Stored THEN F("src", SrcLen, 0) ELSE Source(c)
      [] d.flag = "memset" -> c \in fill /\ d.fill = c
      [] OTHER -> /\ Is(m, p, "sch") /\ Value(m, p) < d.decomp
                  /\ ParseSubChunkHeaders(m, p + SUBCHUNK_HDR_BYTES, Value(m, p), d.decomp,
                                          d.dst = 0) = Streams(job.subs[c])
TailsRight(m) ==
    \A c \in Chunks \ {1} :
        LET p == BlockStart(m) + BlockOf(m).comp - TailBytes + (c - 2) * SC_TAIL_PER_CHUNK_BYTES
        IN  p \in DOMAIN m /\ m[p] = PrefixEntry(c)
OutputRight(m, ds) ==
    /\ Len(ds) = IF Stored THEN 1 ELSE N
    /\ \A c \in DOMAIN ds : ChunkRight(m, ds[c], c)
    /\ ~Stored => TailsRight(m)

\* The trailers as the host reads them, behind the size table it steps over.  The
\* device's verdict compares with the frame's last four bytes.
CHECKSUM_MISMATCH == 99
HostStatus(m, w, right) ==
    LET h       == Value(m, 0)
        pTable  == BlockStart(m) + BlockOf(m).comp + 4
        pXxh    == pTable + (IF h.table THEN 3 * NumChunks ELSE 0)
        pRoot   == pXxh + (IF h.csum THEN 4 ELSE 0)
        verdict == h.size /\ ~BlockOf(m).unc
    IN  IF w.status # 0 THEN w.status
        ELSE IF \/ h.csum /\ ~(Is(m, pXxh, "xxh") /\ right)
                \/ h.merkle /\ ~(Is(m, pRoot, "root") /\ right)
                \/ h.merkle /\ verdict /\ ~Is(m, size - 4, "root")
             THEN CHECKSUM_MISMATCH ELSE 0

-----------------------------------------------------------------------------
(* Delivery.                                                               *)

Threads  == 0 .. 2 ^ LOG_THREADS - 1
NoThread == [t \in Threads |-> 0]
WalkInit ==
    /\ Init
    /\ fill = {} /\ damage = [kind |-> "none"] /\ reader = "none"
    /\ at = NoThread /\ gone = {} /\ partial = NoThread
    /\ reg = [t \in Threads |-> [v |-> 0, rel |-> 0, i |-> 0]]
    /\ meta = 0 /\ status = 0 /\ count = 0
    /\ descs = <<>>

\* The i-th field of a kind in frame m, edited.
Nth(m, kind, i) ==
    LET all == {p \in DOMAIN m : m[p][1] = kind} IN
    CHOOSE p \in all : Cardinality({q \in all : q < p}) = i - 1
Edit(m, p, change(_)) == [m EXCEPT ![p] = F(@[1], @[2], change(@[3]))]
\* Damaged(m, d): a flaw in one header, one wrong table entry, or two that lose and
\* gain the same number of bytes.
Damaged(m, d) ==
    CASE d.kind = "hdr"   -> Edit(m, 0, LAMBDA v : [v EXCEPT !.flaw = d.flaw])
      [] d.kind = "pdm"   -> Edit(m, BlockPos(m), LAMBDA v : [v EXCEPT !.pdm = TRUE])
      [] d.kind = "int"   -> Edit(m, Nth(m, "int", d.c), LAMBDA v : [v EXCEPT !.flaw = d.flaw])
      [] d.kind = "type"  -> Edit(m, Nth(m, "int", d.c) + 2, LAMBDA v : [v EXCEPT !.type = 2])
      [] d.kind = "table" -> Edit(Edit(m, Nth(m, "entry", d.i), LAMBDA v : v - d.by),
                                  Nth(m, "entry", d.j), LAMBDA v : v + d.by)
      [] d.kind = "entry" -> Edit(m, Nth(m, "entry", d.i), LAMBDA v : v + d.by)
      [] OTHER            -> m
Applies(d, M) ==
    CASE d.kind = "int"   -> ~Stored /\ d.c \in Chunks
      [] d.kind = "type"  -> ~Stored /\ d.c \in Chunks /\ (Failed(d.c) => d.c \in M)
      [] d.kind = "table" -> EmitChunkTable /\ ~Stored /\ {d.i, d.j} \subseteq Chunks
      [] d.kind = "entry" -> EmitChunkTable /\ ~Stored /\ d.i \in Chunks
      [] OTHER            -> TRUE
Readers(m) == {"host", IF Value(m, 0).table THEN "table" ELSE "serial"}
Hand(n, m, d)  == size' = n /\ frame' = Damaged(m, d)
Deliver(M, d, r) ==
    /\ pc = "done" /\ pc' = "walk"
    /\ Applies(d, M) /\ (M # {} => ~Stored /\ d.kind = "none")
    /\ r \in Readers(frame)
    /\ fill' = M /\ damage' = d /\ reader' = r
    /\ Hand(IF M = {} THEN size ELSE TotalWidth(WireFrame(M)),
            IF M = {} THEN frame ELSE Lay(Empty, 0, WireFrame(M)), d)
    /\ UNCHANGED <<job, ran, raw, encSize, outOff, asmOut, layout,
                   at, gone, partial, reg, meta, status, descs, count>>

Finish(w, code) == /\ status' = code
                   /\ descs' = w.descs
                   /\ count' = IF code = 0 THEN Len(w.descs) ELSE 0
                   /\ pc' = "read"
Rest == <<job, ran, raw, encSize, outOff, asmOut, layout, frame, size, fill, damage, reader>>
HostFinishes(w) == Finish(w, HostStatus(frame, w, OutputRight(frame, w.descs)))
HostReads ==
    /\ pc = "walk" /\ reader = "host"
    /\ HostFinishes(HostWalk(frame))
    /\ UNCHANGED <<Rest, at, gone, partial, reg, meta>>
SerialFinishes(w) == Finish(w, w.status)
SerialReads(junk) ==
    /\ pc = "walk" /\ reader = "serial"
    /\ SerialFinishes(SerialWalk(frame, junk))
    /\ UNCHANGED <<Rest, at, gone, partial, reg, meta>>

-----------------------------------------------------------------------------
(* The table walk.  Stage 0 is thread 0's header parse, 1 the segment      *)
(* sums, 2r and 2r + 1 the two halves of round r of the scan, then the     *)
(* check of the total and the pass over the segment's entries.             *)

CHECK == 2 * LOG_THREADS + 2
PASS2 == CHECK + 1
Seg         == (NumChunks + 2 ^ LOG_THREADS - 1) \div 2 ^ LOG_THREADS
SegBegin(t) == t * Seg
SegEnd(t)   == Smaller(SegBegin(t) + Seg, NumChunks)
TableAtNoTrailers == size - 3 * NumChunks
TableAt     == size - 3 * NumChunks - (IF Value(frame, 0).merkle THEN 4 ELSE 0)
                                    - (IF Value(frame, 0).csum THEN 4 ELSE 0)
EntryAt(i)  == IF Is(frame, TableAt + 3 * i, "entry") THEN Value(frame, TableAt + 3 * i) ELSE 0
ChunkBytes  == BlockOf(frame).comp - TailBytes      \* block_size - sc_tail

Arrived(k)  == \A u \in Threads : at[u] >= k
Turn(t, k)  == pc = "walk" /\ reader = "table" /\ t \notin gone /\ at[t] = k /\ Arrived(k)
Step(t)     == at' = [at EXCEPT ![t] = @ + 1]
\* The thread returns; the kernel is over when all have.
Return(t)   == /\ gone' = gone \union {t}
               /\ pc' = IF gone' = Threads THEN "read" ELSE pc
               /\ at' = at

ParseHead(t) ==
    /\ Turn(t, 0)
    /\ meta' = IF t # 0 THEN meta
               ELSE LET s == HeaderStatus(frame) IN
                    IF s # 0 THEN s
                    ELSE IF BlockOf(frame).unc THEN 13
                    ELSE InternalStatus(frame, BlockStart(frame))
    /\ Step(t)
    /\ UNCHANGED <<Rest, pc, gone, partial, reg, status, descs, count>>
Rejected(t, k) ==
    /\ Turn(t, k) /\ k \in {1, PASS2} /\ meta # 0
    /\ status' = IF t = 0 THEN meta ELSE status
    /\ Return(t)
    /\ UNCHANGED <<Rest, partial, reg, meta, descs, count>>
Sums(t) ==
    /\ Turn(t, 1) /\ meta = 0
    /\ partial' = [partial EXCEPT ![t] = FoldLeft(LAMBDA a, i : a + EntryAt(i), 0,
                      [k \in 1 .. (IF SegEnd(t) > SegBegin(t) THEN SegEnd(t) - SegBegin(t) ELSE 0)
                         |-> SegBegin(t) + k - 1])]
    /\ Step(t)
    /\ UNCHANGED <<Rest, pc, gone, reg, meta, status, descs, count>>
ScanRead(t, r) ==
    /\ Turn(t, 2 * r)
    /\ LET d == 2 ^ (r - 1) IN
       reg' = [reg EXCEPT ![t].v = IF t >= d THEN partial[t - d] ELSE 0]
    /\ Step(t)
    /\ UNCHANGED <<Rest, pc, gone, partial, meta, status, descs, count>>
ScanAdd(t, r) ==
    /\ Turn(t, 2 * r + 1)
    /\ partial' = [partial EXCEPT ![t] = @ + reg[t].v]
    /\ Step(t)
    /\ UNCHANGED <<Rest, pc, gone, reg, meta, status, descs, count>>
CheckReturnsAtOnce(t) ==
    /\ Turn(t, CHECK)
    /\ LET bad == t = 0 /\ partial[2 ^ LOG_THREADS - 1] # ChunkBytes IN
       IF bad THEN meta' = 14 /\ status' = 14 /\ Return(t)
              ELSE UNCHANGED <<meta, status, pc, gone>> /\ Step(t)
    /\ reg' = [reg EXCEPT ![t].rel = IF t > 0 THEN partial[t - 1] ELSE 0, ![t].i = SegBegin(t)]
    /\ UNCHANGED <<Rest, partial, descs, count>>
Check(t) ==
    /\ Turn(t, CHECK)
    /\ LET bad == t = 0 /\ partial[2 ^ LOG_THREADS - 1] # ChunkBytes IN
       /\ meta' = IF bad THEN 14 ELSE meta
       /\ status' = IF bad THEN 14 ELSE status
    /\ reg' = [reg EXCEPT ![t].rel = IF t > 0 THEN partial[t - 1] ELSE 0, ![t].i = SegBegin(t)]
    /\ Step(t)
    /\ UNCHANGED <<Rest, pc, gone, partial, descs, count>>

\* What pass 2 makes of entry i whose chunk it takes to start at rel: a code, or a
\* descriptor.  Where no chunk starts it reads other bytes, and anything may come of
\* that: junk is a code, or 0 for a descriptor that describes no chunk.
FoundUnchecked(code, d) == [code |-> IF code = 14 THEN 0 ELSE code, desc |-> d]
Found(code, d) == [code |-> code, desc |-> d]
NoDesc         == Desc(0, 0, 0, 0, "junk", 0)
Parse(i, rel, junk) ==
    LET p     == BlockStart(frame) + rel
        entry == EntryAt(i)
        k     == i + 1
        ch    == Value(frame, p + 2)
    IN  IF rel + entry > ChunkBytes \/ entry < 2 THEN Found(14, NoDesc)
        ELSE IF ~Is(frame, p, "int") THEN Found(junk, NoDesc)
        ELSE IF InternalStatus(frame, p) # 0 THEN Found(InternalStatus(frame, p), NoDesc)
        ELSE IF Value(frame, p).unc
             THEN Found(IF entry = 2 + DstThis(k) THEN 0 ELSE 14,
                        RawDesc(rel + 2, DstThis(k), DstOff(k)))
        ELSE IF entry < 6 THEN Found(14, NoDesc)
        ELSE CASE ch.type = 0 -> Found(IF entry = 6 + ch.size THEN 0 ELSE 14,
                                       ChunkDesc(rel + 6, ch.size, DstThis(k), DstOff(k)))
               [] ch.type = 1 -> Found(IF entry = 7 THEN 0 ELSE 14,
                                       MemsetDesc(DstThis(k), DstOff(k), Value(frame, p + 6)))
               [] OTHER       -> Found(10, NoDesc)
Pass2(t, junk) ==
    /\ Turn(t, PASS2) /\ meta = 0 /\ reg[t].i < SegEnd(t)
    /\ LET i == reg[t].i
           f == Parse(i, reg[t].rel, junk)
       IN  IF f.code # 0
           THEN status' = f.code /\ Return(t) /\ UNCHANGED <<descs, reg>>
           ELSE /\ descs' = (i + 1 :> f.desc) @@ descs
                /\ reg' = [reg EXCEPT ![t].i = i + 1, ![t].rel = @ + EntryAt(i)]
                /\ UNCHANGED <<status, at, gone, pc>>
    /\ UNCHANGED <<Rest, partial, meta, count>>
Publish(t) ==
    /\ Turn(t, PASS2) /\ meta = 0 /\ reg[t].i >= SegEnd(t)
    /\ count' = IF t = 0 THEN NumChunks ELSE count
    /\ Return(t)
    /\ UNCHANGED <<Rest, partial, reg, meta, status, descs>>

JunkCodes   == {0, 7, 14}
JunkHeaders == {[type |-> 0, size |-> 1], [type |-> 2, size |-> 1]}
TableWalk(t) ==
    \/ ParseHead(t) \/ Sums(t) \/ Check(t) \/ Publish(t)
    \/ \E k \in {1, PASS2} : Rejected(t, k)
    \/ \E r \in 1 .. LOG_THREADS : ScanRead(t, r) \/ ScanAdd(t, r)
    \/ \E junk \in JunkCodes : Pass2(t, junk)
Next ==
    \/ Assemble /\ UNCHANGED wvars
    \/ \E M \in {{}} \union {{c} : c \in Chunks}, d \in Damages, r \in {"host", "serial", "table"} :
          Deliver(M, d, r)
    \/ HostReads \/ \E junk \in JunkHeaders : SerialReads(junk)
    \/ \E t \in Threads : TableWalk(t)
Spec == WalkInit /\ [][Next]_vars
FairSpec == Spec /\ \A t \in Threads : WF_vars(TableWalk(t))

-----------------------------------------------------------------------------
(* Properties.                                                             *)

\* The measure pass parses what the LZ kernel compacted, however the chunk's
\* streams lie in its buffer, and the blocks of the frame-assemble grid, the table
\* and the trailers, in whatever order they ran, leave exactly the fields FORMAT.md
\* lists, without a gap, and the encoder knows the frame's length.
FrameIsWireFormat ==
    /\ pc # "failed"
    /\ pc = "done" => /\ frame = Lay(Empty, 0, WireFrame({}))
                      /\ Filled(frame, size)

\* The serial kernel does not know the uncompressed form of a chunk.
ReaderKnowsForm == reader = "serial" => \A c \in Chunks : c \in fill \/ Stored \/ ~Failed(c)

\* A frame that arrives as an encoder wrote it is accepted by each reader, and each
\* descriptor leads to its chunk: the streams that the LZ parsers filled, through
\* compaction, assembly, framing, walk and header parse, and the prefix table is
\* where the restore of the chunks' first bytes looks for it.
IntactFrameDecodes ==
    pc = "read" /\ damage.kind = "none" /\ ReaderKnowsForm =>
        status = 0 /\ count = Len(descs) /\ OutputRight(frame, descs)

\* comp_size == decomp_size means the chunk is raw bytes verbatim (no LZ tokens).
ShortcutIsRaw ==
    pc = "read" /\ damage.kind = "none" /\ status = 0 /\ ReaderKnowsForm =>
        \A c \in DOMAIN descs : descs[c].flag = "raw" => ChunkRight(frame, descs[c], c)

\* A walk kernel that accepts a frame has found what the host finds, whatever
\* happened to the frame on its way.
WalksAgreeWithHost ==
    pc = "read" /\ reader \in {"serial", "table"} /\ status = 0 /\ ReaderKnowsForm =>
        /\ HostWalk(frame).status = 0
        /\ descs = HostWalk(frame).descs /\ count = Len(descs)

\* A table whose entries disagree with the chunk headers is rejected though its sum
\* is right, and so is a flawed header in any chunk, whichever thread meets it and
\* whatever the threads behind it read at the wrong places.
DamageRejected ==
    pc = "read" /\ reader \in {"serial", "table"} /\ damage.kind # "none" /\ ReaderKnowsForm =>
        status # 0

\* No thread of the table walk waits for ever at a barrier that another one missed.
TableWalkReturns == (pc = "walk" /\ reader = "table") ~> (pc = "read")
=============================================================================

---------------------------- MODULE EntropyScan ----------------------------
(***************************************************************************)
(* The device side of a level 3+ decode between the frame walk and the     *)
(* output: prefix sum, scan, compaction, merge, raw off16 gather, the two  *)
(* Huffman kernels and the loop of the LZ kernel over groups, chunks and   *)
(* sub-chunks.  Five of them compute the number of a sub-chunk each for    *)
(* itself, from the descriptors alone; an entropy stream is found again    *)
(* because all come to the same number.                                    *)
(*                                                                         *)
(* One context serves a sequence of calls.  A call is [chunks, cpg, d2d];  *)
(* a chunk [flag, decomp, subs] has a descriptor flag and a size in        *)
(* abstract bytes, and in its payload the sub-chunks subs; a sub-chunk     *)
(* [lz, fits, lit, tok, hi, lo] says of its four streams whether they are  *)
(* "huff" or "plain", or "none" for the planes of an off16 stream that is  *)
(* not split.  Sub-chunk k of chunk c is <<c, k>>.                         *)
(***************************************************************************)
EXTENDS Naturals, Sequences, FiniteSets

CONSTANTS CAP,       \* sub_chunk_cap
          EFF,       \* the decompressed size of a full chunk
          MAX_SUBS,  \* the host's bound on a chunk's sub-chunks, without descriptors
          Calls      \* sequences of calls

CeilDiv(a, b) == (a + b - 1) \div b

\* max_sub_per_chunk is taken from the largest chunk there is.
ASSUME ScanAssumption == /\ CAP \in Nat \ {0} /\ EFF \in Nat \ {0} /\ MAX_SUBS \in Nat \ {0}
                         /\ CeilDiv(EFF, CAP) <= MAX_SUBS

VARIABLES todo,     \* the calls still to come, the first of them running
          pc,       \* the kernel that runs on the main stream
          done,     \* its blocks that are through
          total,    \* total_subchunks as the host counts them
          first,    \* d_first_sub_idx
          devTotal, \* *d_total_subchunks
          pos,      \* of each scan thread, sub_local; of each LZ group, its place
          staged,   \* d_scan_staged: of each stream, its descriptor by sub-chunk
          compact,  \* d_compact_*
          counts,   \* d_compact_counts
          merged,   \* d_huff_descs
          luts,     \* d_huff_lut
          gathered, \* the gather's blocks that are through, on a stream of its own
          scratch,  \* d_entropy_scratch
          wrote,    \* which block wrote which of its bytes in this call
          out       \* what the LZ kernel wrote

vars == <<todo, pc, done, total, first, devTotal, pos, staged, compact, counts, merged,
          luts, gathered, scratch, wrote, out>>

Call   == todo[1]
Chunks == 1 .. Len(Call.chunks)
Chunk(c)   == Call.chunks[c]
Sub(c, k)  == Chunk(c).subs[k]

Huffs    == {"lit", "tok", "hi", "lo"}
Raws     == {"rawHi", "rawLo"}
Compacts == Huffs \union {"raw"}
PlaneNone(s) == 0
Plane(s) == IF s \in {"lo", "rawLo"} THEN 1 ELSE 0     \* OFF16_HILO_SPLIT_OFFSET
None   == [valid |-> FALSE]

-----------------------------------------------------------------------------
(* Upload and prefix sum.                                                  *)

NSubs(ch) == IF ch.flag # "lz" \/ ch.decomp = 0 THEN 1 ELSE CeilDiv(ch.decomp, CAP)

\* Frames as an encoder writes them: no chunk is larger than a full one, and the
\* payload of an LZ chunk holds a sub-chunk for each part of its size.
SubChunks == [lz : BOOLEAN, fits : BOOLEAN, lit : {"huff", "plain"}, tok : {"huff", "plain"},
              hi : {"huff", "plain", "none"}, lo : {"huff", "plain", "none"}]
IsChunk(ch) == /\ ch \in [flag : {"lz", "raw", "memset"}, decomp : 0 .. EFF, subs : Seq(SubChunks)]
               /\ ch.flag = "lz" /\ ch.decomp > 0 => Len(ch.subs) = NSubs(ch)
IsCall(a)   == /\ a.chunks \in Seq({a.chunks[c] : c \in DOMAIN a.chunks}) /\ a.cpg \in Nat \ {0}
               /\ a.d2d \in BOOLEAN /\ \A c \in DOMAIN a.chunks : IsChunk(a.chunks[c])
ASSUME CallsAssumption == \A cs \in Calls : /\ cs \in Seq({cs[n] : n \in DOMAIN cs})
                                            /\ \A n \in DOMAIN cs : IsCall(cs[n])

\* The sums of f from 1 on, up to each k.
Sums(f, n) == LET s[k \in 0 .. n] == IF k = 0 THEN 0 ELSE s[k - 1] + f[k] IN s
SubSums       == Sums([c \in Chunks |-> NSubs(Chunk(c))], Len(Call.chunks))
SubsBefore(c) == SubSums[c - 1]
AllSubs       == SubSums[Len(Call.chunks)]
HostSubs(ch) == IF ch.flag = "lz" /\ ch.decomp # 0 THEN CeilDiv(ch.decomp, CAP) ELSE 1
HostTotal == IF Call.d2d THEN Len(Call.chunks) * MAX_SUBS
             ELSE Sums([c \in Chunks |-> HostSubs(Chunk(c))], Len(Call.chunks))[Len(Call.chunks)]

Cleared(n) == [s \in Huffs \union Raws |-> [i \in 0 .. n - 1 |-> None]]
NoCounts   == [w \in Compacts \union {"merged"} |-> 0]
Init ==
    /\ todo \in Calls
    /\ pc = "upload" /\ done = {} /\ total = 0 /\ first = <<>> /\ devTotal = 0
    /\ pos = <<>> /\ staged = Cleared(0) /\ counts = NoCounts
    /\ compact = [w \in Compacts |-> <<>>]
    /\ merged = <<>> /\ luts = <<>> /\ gathered = {} /\ scratch = <<>> /\ wrote = {} /\ out = {}

\* The host sizes the scratch and zeroes the staged descriptors and the counts; the
\* other buffers keep what the last call left.
Upload ==
    /\ pc = "upload" /\ todo # <<>>
    /\ total' = HostTotal
    /\ staged' = Cleared(HostTotal) /\ counts' = NoCounts
    /\ gathered' = {} /\ wrote' = {} /\ out' = {}
    /\ pc' = "prefix"
    /\ UNCHANGED <<todo, done, first, devTotal, pos, compact, merged, luts, scratch>>
PrefixSum ==
    /\ pc = "prefix"
    /\ first' = [c \in Chunks |-> SubsBefore(c)] /\ devTotal' = AllSubs
    /\ pos' = [c \in Chunks |-> 1]
    /\ pc' = "scan"
    /\ UNCHANGED <<todo, done, total, staged, compact, counts, merged, luts, gathered,
                   scratch, wrote, out>>

\* Block b of the running kernel is through; the next one starts after the last.
Through(b, grid, next) ==
    IF done \union {b} = grid THEN done' = {} /\ pc' = next
                              ELSE done' = done \union {b} /\ pc' = pc

-----------------------------------------------------------------------------
(* slzScanParseKernel: thread c stages the streams of chunk c, one         *)
(* sub-chunk a step.                                                       *)

OutOffset(i, s) == 2 * i + Plane(s)      \* in half slots
\* The eight bytes in front of the streams, which scan and LZ kernel must both skip:
\* one decides by the sub-chunk's number, the other by its place in the output.
DstOff(c, k) == (c - 1) * EFF + (k - 1) * CAP
ScanSkipsPerChunk(i, k) == k = 1
ScanSkips(i, k) == i = 0
LzSkips(c, k)   == DstOff(c, k) = 0
StagedAs(c, k, i, s) ==
    LET form == CASE s = "lit" -> Sub(c, k).lit
                  [] s = "tok" -> Sub(c, k).tok
                  [] s \in {"rawHi", "hi"} -> Sub(c, k).hi
                  [] s \in {"rawLo", "lo"} -> Sub(c, k).lo
    IN  IF form = IF s \in Raws THEN "plain" ELSE "huff"
        THEN [valid |-> TRUE, out |-> OutOffset(i, s),
              data |-> IF ScanSkips(i, k) = LzSkips(c, k) THEN <<c, k, s>> ELSE <<>>]
        ELSE None
Stage(i, desc(_)) == staged' = [s \in Huffs \union Raws |-> [staged[s] EXCEPT ![i] = desc(s)]]
ScanOver(c) == Through(c, Chunks, "compact") /\ pos' = pos
ScanFlagged(c) ==
    /\ pc = "scan" /\ c \in Chunks \ done
    /\ Chunk(c).flag # "lz" \/ Chunk(c).decomp = 0
    /\ Stage(first[c], LAMBDA s : None)
    /\ ScanOver(c)
    /\ UNCHANGED <<todo, total, first, devTotal, compact, counts, merged, luts, gathered,
                   scratch, wrote, out>>
ScanSub(c) ==
    /\ pc = "scan" /\ c \in Chunks \ done
    /\ Chunk(c).flag = "lz" /\ Chunk(c).decomp > 0
    /\ LET k == pos[c]
           i == first[c] + k - 1
       IN  IF ~Sub(c, k).lz
           THEN Stage(i, LAMBDA s : None) /\ ScanOver(c)
           ELSE /\ Stage(i, LAMBDA s : StagedAs(c, k, i, s))
                /\ IF k = NSubs(Chunk(c)) \/ k = Len(Chunk(c).subs)
                   THEN ScanOver(c)
                   ELSE pos' = [pos EXCEPT ![c] = k + 1] /\ UNCHANGED <<done, pc>>
    /\ UNCHANGED <<todo, total, first, devTotal, compact, counts, merged, luts, gathered,
                   scratch, wrote, out>>

-----------------------------------------------------------------------------
(* slzCompactAllDescsKernel: one block for each Huffman stream, one for    *)
(* the two raw planes.  slzMergeHuffDescsParKernel: one block a stream.    *)

Entries(s) == [i \in 1 .. devTotal |-> staged[s][i - 1]]
Interleaved == [i \in 1 .. 2 * devTotal |-> staged[IF i % 2 = 1 THEN "rawHi" ELSE "rawLo"][(i - 1) \div 2]]
\* The valid ones in order, as the loop over the entries copies them out.
Kept(es) ==
    LET kept[i \in 0 .. Len(es)] ==
            IF i = 0 THEN <<>>
            ELSE IF es[i].valid THEN Append(kept[i - 1], es[i]) ELSE kept[i - 1]
    IN  kept
ValidOf(es) == Kept(es)[Len(es)]
Compact(w) ==
    /\ pc = "compact" /\ w \notin done
    /\ compact' = [compact EXCEPT ![w] = ValidOf(IF w = "raw" THEN Interleaved ELSE Entries(w))]
    /\ counts' = [counts EXCEPT ![w] = Len(compact'[w])]
    /\ Through(w, Compacts, "merge")
    /\ UNCHANGED <<todo, total, first, devTotal, pos, staged, merged, luts, gathered, scratch,
                   wrote, out>>

BaseOf(w) == CASE w = "lit" -> 0
               [] w = "tok" -> counts["lit"]
               [] w = "hi"  -> counts["lit"] + counts["tok"]
               [] w = "lo"  -> counts["lit"] + counts["tok"] + counts["hi"]
Merge(w) ==
    /\ pc = "merge" /\ w \notin done
    /\ LET slots == BaseOf(w) .. BaseOf(w) + counts[w] - 1
           d(b)  == compact[w][b - BaseOf(w) + 1]
       IN  merged' = [b \in DOMAIN merged \union slots |->
                        IF b \in slots THEN [out |-> d(b).out, data |-> d(b).data, lut |-> b]
                        ELSE merged[b]]
    /\ counts' = IF w = "lit" THEN [counts EXCEPT !["merged"] = BaseOf("lo") + counts["lo"]]
                 ELSE counts
    /\ Through(w, Huffs, "build")
    /\ UNCHANGED <<todo, total, first, devTotal, pos, staged, compact, luts, gathered, scratch,
                   wrote, out>>

-----------------------------------------------------------------------------
(* The kernels that fill the scratch: three regions of total slots.  The   *)
(* gather runs beside the merge and the Huffman kernels.                   *)

TokRegion   == 2 * total
Off16Region == 4 * total
Put(f, at, x) == [a \in DOMAIN f \union {at} |-> IF a = at THEN x ELSE f[a]]
Write(by, at, data) == /\ scratch' = Put(scratch, at, data)
                       /\ wrote' = wrote \union {<<by, at>>}
Gather(j) ==
    /\ pc \in {"merge", "build", "decode", "lz"}
    /\ j \in 1 .. counts["raw"] /\ j \notin gathered
    /\ LET d == compact["raw"][j] IN Write(<<"gather", j>>, Off16Region + d.out, d.data)
    /\ gathered' = gathered \union {j}
    /\ UNCHANGED <<todo, pc, done, total, first, devTotal, pos, staged, compact, counts, merged,
                   luts, out>>

\* The grids are launched for the host's bound; a block behind the merged count
\* returns at once.
HuffGrid == 0 .. counts["merged"] - 1
BuildLut(b) ==
    /\ pc = "build" /\ b \in HuffGrid \ done
    /\ luts' = Put(luts, merged[b].lut, merged[b].data)
    /\ Through(b, HuffGrid, "decode")
    /\ UNCHANGED <<todo, total, first, devTotal, pos, staged, compact, counts, merged, gathered,
                   scratch, wrote, out>>
RegionOf(b) ==
    IF b < counts["lit"] THEN 0
    ELSE IF b < counts["lit"] + counts["tok"] THEN TokRegion ELSE Off16Region
HuffDecode(b) ==
    /\ pc = "decode" /\ b \in HuffGrid \ done
    /\ LET d == merged[b] IN
       Write(<<"huff", b>>, RegionOf(b) + d.out, IF luts[d.lut] = d.data THEN d.data ELSE <<>>)
    /\ Through(b, HuffGrid, "lz")
    /\ UNCHANGED <<todo, total, first, devTotal, pos, staged, compact, counts, merged, luts,
                   gathered, out>>
NoHuff ==
    /\ pc \in {"build", "decode"} /\ HuffGrid = {}
    /\ pc' = "lz"
    /\ UNCHANGED <<todo, done, total, first, devTotal, pos, staged, compact, counts, merged,
                   luts, gathered, scratch, wrote, out>>

-----------------------------------------------------------------------------
(* slzLzDecodeKernel and its pipelined form: a group decodes its chunks    *)
(* one after the other, a sub-chunk a step.                                *)

GroupCount == CeilDiv(Len(Call.chunks), Call.cpg)
Groups     == 1 .. GroupCount
LzStart ==
    /\ pc = "lz" /\ Cardinality(gathered) = counts["raw"]
    /\ pos' = [g \in Groups |-> [c |-> (g - 1) * Call.cpg + 1, k |-> 1]]
    /\ pc' = "groups"
    /\ UNCHANGED <<todo, done, total, first, devTotal, staged, compact, counts, merged, luts,
                   gathered, scratch, wrote, out>>

At(i, s) == (CASE s = "lit" -> 0 [] s = "tok" -> TokRegion [] OTHER -> Off16Region)
              + 2 * i + Plane(s)
\* The group finds stream s of sub-chunk <<c, k>> where it looks for it.
Reads(c, k, i, s) ==
    LET sub  == Sub(c, k)
        slot == At(i, s)
        want(tag) == slot \in DOMAIN scratch /\ scratch[slot] = <<c, k, tag>>
    IN  CASE s \in {"lit", "tok"} -> sub[s] = "huff" => want(s)
          [] s = "hi" -> sub.hi # "none" => want(IF sub.hi = "huff" THEN "hi" ELSE "rawHi")
          [] s = "lo" -> sub.lo # "none" => want(IF sub.lo = "huff" THEN "lo" ELSE "rawLo")
Decoded(c, k) ==
    LET i == first[c] + k - 1 IN
    IF Sub(c, k).fits => \A s \in Huffs : Reads(c, k, i, s) THEN <<c, k>> ELSE <<>>
SizeOf(c, k) == LET left == Chunk(c).decomp - (k - 1) * CAP IN IF left > CAP THEN CAP ELSE left
Emit(g, c, at, n, what) == out' = out \union {[g |-> g, c |-> c, at |-> at, n |-> n, what |-> what]}
LastOf(g)   == LET e == g * Call.cpg IN IF e > Len(Call.chunks) THEN Len(Call.chunks) ELSE e
NextChunk(g, c) ==
    /\ pos' = [pos EXCEPT ![g] = [c |-> c + 1, k |-> 1]]
    /\ IF c = LastOf(g) THEN Through(g, Groups, "over") ELSE UNCHANGED <<done, pc>>
LzRest == <<todo, total, first, devTotal, staged, compact, counts, merged, luts, gathered,
            scratch, wrote>>
LzFlagged(g) ==
    /\ pc = "groups" /\ g \in Groups \ done
    /\ LET c == pos[g].c IN
       /\ Chunk(c).flag # "lz" \/ Chunk(c).decomp = 0
       /\ IF Chunk(c).decomp = 0 THEN out' = out
          ELSE Emit(g, c, DstOff(c, 1), Chunk(c).decomp, Chunk(c).flag)
       /\ NextChunk(g, c)
    /\ UNCHANGED LzRest
LzSub(g) ==
    /\ pc = "groups" /\ g \in Groups \ done
    /\ LET c == pos[g].c
           k == pos[g].k
       IN  /\ Chunk(c).flag = "lz" /\ Chunk(c).decomp > 0
           /\ IF ~Sub(c, k).lz THEN out' = out /\ NextChunk(g, c)
              ELSE /\ Emit(g, c, DstOff(c, k), SizeOf(c, k), Decoded(c, k))
                   /\ IF k * CAP >= Chunk(c).decomp THEN NextChunk(g, c)
                      ELSE pos' = [pos EXCEPT ![g].k = k + 1] /\ UNCHANGED <<done, pc>>
    /\ UNCHANGED LzRest
NextCall ==
    /\ pc = "over"
    /\ todo' = Tail(todo) /\ pc' = "upload"
    /\ UNCHANGED <<done, total, first, devTotal, pos, staged, compact, counts, merged, luts,
                   gathered, scratch, wrote, out>>

Next ==
    \/ Upload \/ PrefixSum \/ NoHuff \/ LzStart \/ NextCall
    \/ \E w \in Compacts : Compact(w)
    \/ \E w \in Huffs : Merge(w)
    \/ pc # "upload" /\ \E c \in Chunks : ScanFlagged(c) \/ ScanSub(c)
    \/ \E j \in 1 .. counts["raw"] : Gather(j)
    \/ \E b \in HuffGrid : BuildLut(b) \/ HuffDecode(b)
    \/ pc = "groups" /\ \E g \in Groups : LzFlagged(g) \/ LzSub(g)
Spec == Init /\ [][Next]_vars

-----------------------------------------------------------------------------
(* Properties.                                                             *)

\* When the LZ kernel is through, every byte of every chunk has been written once,
\* up to the chunk's first sub-chunk that is not LZ, and each sub-chunk has found in
\* the scratch the streams of its own that the scan found to be coded or split,
\* whatever the call before left in the buffers.
Wanted(c) ==
    LET ch   == Chunk(c)
        stop == {k \in 1 .. NSubs(ch) : ~ch.subs[k].lz}
    IN  IF ch.decomp = 0 THEN {}
        ELSE IF ch.flag # "lz" THEN {<<c, DstOff(c, 1), ch.decomp, ch.flag>>}
        ELSE {<<c, DstOff(c, k), SizeOf(c, k), <<c, k>>>> :
                 k \in {j \in 1 .. NSubs(ch) : \A s \in stop : j < s}}
OutputComplete ==
    pc = "over" =>
        /\ {<<w.c, w.at, w.n, w.what>> : w \in out} = UNION {Wanted(c) : c \in Chunks}
        /\ Cardinality(out) = Cardinality(UNION {Wanted(c) : c \in Chunks})

\* The gather runs beside the Huffman kernels because they write different bytes:
\* no byte of the scratch has two writers in a call, and none is beyond its end,
\* even where one plane of a sub-chunk is raw and the other is coded.
ScratchDisjoint ==
    /\ \A x, y \in wrote : x[2] = y[2] => x = y
    /\ pc \in {"lz", "groups"} => \A x \in wrote : x[2] < 6 * total
=============================================================================

------------------------------ MODULE Huffman ------------------------------
(***************************************************************************)
(* One entropy stream through the Huffman kernels: the encoder's code      *)
(* lengths, its 32 interleaved streams, the decoder's lookup table and the *)
(* decode loop of one lane, iteration by iteration.                        *)
(*                                                                         *)
(* The sizes are parameters, so that an instance can keep the relations    *)
(* between them (the table is indexed by one bit less than the longest     *)
(* code, a refill brings at least two longest codes) with small numbers.   *)
(* Streams are sequences of bits, and a body is indexed by four-byte words.*)
(* Lanes share nothing that one of them writes after the body's header is  *)
(* read, so a behaviour follows one lane of the decode kernel.             *)
(***************************************************************************)
EXTENDS Integers, Sequences, SequencesExt, FiniteSetsExt, TLC

CONSTANTS
    HUFF_ALPHABET,      \* number of symbols (256)
    HUFF_MAX_CODE_LEN,  \* height limit of the codes (11)
    HUFF_NUM_STREAMS,   \* streams of a body, lanes of a warp (32)
    BITS_PER_BYTE,      \* (8)
    Sources             \* the symbols of a stream, to encode and decode

ASSUME HeightAssumption ==
    /\ HUFF_ALPHABET \in Nat \ {0} /\ HUFF_MAX_CODE_LEN \in Nat /\ HUFF_MAX_CODE_LEN > 1
    /\ HUFF_ALPHABET <= 2 ^ HUFF_MAX_CODE_LEN
    /\ HUFF_NUM_STREAMS \in Nat \ {0} /\ BITS_PER_BYTE \in Nat \ {0}
ASSUME RefillAssumption == 2 * HUFF_MAX_CODE_LEN <= 4 * BITS_PER_BYTE

VARIABLES
    src, pc,
    tree,                   \* active nodes, and the sets of leaves below the inner nodes
    code_lengths, codes,    \* the encoder's tables
    scratch,                \* the encoded stream of every lane, a sequence of bits
    body,                   \* [weights, sizes, K, words]
    used_pkd, lut,          \* the symbols with short codes by length, the lookup table
    pass_writes,            \* what the lanes wrote to lut in the last parallel pass
    d                       \* the lane followed: where the output is, its registers, the
                            \* bytes it stored in out by position, the fault that stopped it

encoder == <<tree, code_lengths, codes, scratch>>
decoder == <<body, used_pkd, lut, pass_writes, d>>
vars    == <<src, pc, encoder, decoder>>

Symbols == 0 .. HUFF_ALPHABET - 1
Lanes   == 0 .. HUFF_NUM_STREAMS - 1
MAX_CODE_LEN == HUFF_MAX_CODE_LEN - 1       \* HUFF_LUT_INDEX_BITS
LUT_SIZE     == 2 ^ MAX_CODE_LEN
REFILL_BITS  == 4 * BITS_PER_BYTE
Indices      == 0 .. LUT_SIZE - 1

-----------------------------------------------------------------------------
(* slzHuffBuildTablesKernel                                                *)

Hist == [s \in Symbols |-> Cardinality({i \in DOMAIN src : src[i] = s})]
Ascending(S) == SelectSeq([i \in 1 .. HUFF_ALPHABET |-> i - 1], LAMBDA s : s \in S)

\* The Kraft sum, 1.0 being 2 ^ HUFF_MAX_CODE_LEN.
Kraft(lens) ==
    MapThenSumSet(LAMBDA s : 2 ^ (HUFF_MAX_CODE_LEN - lens[s]), {s \in Symbols : lens[s] > 0})

Count(lens, L) == Cardinality({s \in Symbols : lens[s] = L})
NextCode(lens) ==
    LET next[L \in 0 .. HUFF_MAX_CODE_LEN] ==
            IF L = 0 THEN 0 ELSE 2 * (next[L - 1] + IF L = 1 THEN 0 ELSE Count(lens, L - 1))
    IN  next
CanonicalCodes(lens) ==
    LET next == NextCode(lens)
    IN  [s \in Symbols |-> IF lens[s] = 0 THEN 0
                           ELSE next[lens[s]]
                                + Cardinality({r \in Symbols : r < s /\ lens[r] = lens[s]})]

Init ==
    /\ src \in Sources
    /\ pc = "histogram"
    /\ tree = <<>> /\ code_lengths = <<>> /\ codes = <<>> /\ scratch = <<>> /\ body = <<>>
    /\ used_pkd = <<>> /\ lut = <<>> /\ pass_writes = {} /\ d = <<>>

Histogram ==
    /\ pc = "histogram" /\ pc' = "tree"
    /\ LET used == Ascending({s \in Symbols : Hist[s] > 0})
       IN  tree' = [active |-> [i \in DOMAIN used |-> [weight |-> Hist[used[i]], leaves |-> {used[i]}]],
                    nodes  |-> IF Len(used) = 1 THEN {{used[1]}} ELSE {}]
    /\ UNCHANGED <<src, code_lengths, codes, scratch, decoder>>

\* One round of the tree build: the two lightest of the active nodes, the earlier one
\* of equals, become one in the place of the earlier, and the last takes the other's.
Lighter(i, j) == \/ tree.active[i].weight < tree.active[j].weight
                 \/ tree.active[i].weight = tree.active[j].weight /\ i < j
Merge ==
    /\ pc = "tree" /\ Len(tree.active) > 1
    /\ \E a, b \in DOMAIN tree.active :
          /\ Lighter(a, b) /\ \A i \in DOMAIN tree.active \ {a, b} : Lighter(b, i)
          /\ LET both == tree.active[a].leaves \union tree.active[b].leaves
                 node == [weight |-> tree.active[a].weight + tree.active[b].weight, leaves |-> both]
             IN  tree' = [active |-> Front([tree.active EXCEPT ![Min({a, b})] = node,
                                                               ![Max({a, b})] = Last(tree.active)]),
                          nodes  |-> tree.nodes \union {both}]
    /\ UNCHANGED <<src, pc, code_lengths, codes, scratch, decoder>>

\* The depth of a symbol is the number of its ancestors; a lone symbol gets one bit.
TreeDepth(s) == Cardinality({n \in tree.nodes : s \in n})
Depths ==
    /\ pc = "tree" /\ pc' = "limit" /\ Len(tree.active) = 1
    /\ code_lengths' = [s \in Symbols |-> Min({TreeDepth(s), HUFF_MAX_CODE_LEN})]
    /\ UNCHANGED <<src, tree, codes, scratch, decoder>>

\* One round of the height limit: the rarest symbol with room gets one bit more.
TooHigh == Kraft(code_lengths) > 2 ^ HUFF_MAX_CODE_LEN
Room    == {s \in Symbols : code_lengths[s] > 0 /\ code_lengths[s] < HUFF_MAX_CODE_LEN}
LimitHeight ==
    /\ pc = "limit" /\ TooHigh
    /\ \E best \in Room :
          /\ \A r \in Room : Hist[best] < Hist[r] \/ (Hist[best] = Hist[r] /\ best <= r)
          /\ code_lengths' = [code_lengths EXCEPT ![best] = @ + 1]
    /\ UNCHANGED <<src, pc, tree, codes, scratch, decoder>>
AssignCodes ==
    /\ pc = "limit" /\ pc' = "encode"
    /\ ~TooHigh \/ Room = {}
    /\ codes' = CanonicalCodes(code_lengths)
    /\ UNCHANGED <<src, tree, code_lengths, scratch, decoder>>

-----------------------------------------------------------------------------
(* slzHuffEncode4StreamKernel                                              *)

SliceStart(l) == l * (Len(src) \div HUFF_NUM_STREAMS)
SliceSize(l)  == IF l < HUFF_NUM_STREAMS - 1 THEN Len(src) \div HUFF_NUM_STREAMS
                 ELSE Len(src) - SliceStart(l)
Bit(x, i)     == (x \div 2 ^ i) % 2
CodeBits(s)   == [i \in 1 .. code_lengths[s] |-> Bit(codes[s], code_lengths[s] - i)]
StreamBits(l) ==
    FlattenSeq([i \in 1 .. SliceSize(l) |-> CodeBits(src[SliceStart(l) + i])])
StreamBytes(bits) == (Len(bits) + BITS_PER_BYTE - 1) \div BITS_PER_BYTE
WordsOf(bytes)    == (bytes + 3) \div 4
\* Word w of a stream, whose last one is padded with zeros.
WordOf(bits, w) == [i \in 1 .. REFILL_BITS |-> IF w * REFILL_BITS + i <= Len(bits)
                                               THEN bits[w * REFILL_BITS + i] ELSE 0]
Beyond(words, K) == IF words > K THEN words - K ELSE 0
SumBelow(f, l)   == MapThenSumSet(LAMBDA k : f[k], 0 .. l - 1)

EncodeStreams ==
    /\ pc = "encode" /\ pc' = "pack"
    /\ scratch' = [l \in Lanes |-> StreamBits(l)]
    /\ UNCHANGED <<src, tree, code_lengths, codes, decoder>>

\* The first K words of every stream go row by row, the rest stream by stream.
PackBody ==
    /\ pc = "pack" /\ pc' = "build"
    /\ LET words == [l \in Lanes |-> WordsOf(StreamBytes(scratch[l]))]
           K     == Min({words[l] : l \in Lanes})
           tail  == [l \in Lanes |-> Beyond(words[l], K)]
           at(l, w) == IF w < K THEN w * HUFF_NUM_STREAMS + l
                       ELSE K * HUFF_NUM_STREAMS + SumBelow(tail, l) + w - K
           stores   == {[at |-> at(e[1], e[2]), word |-> WordOf(scratch[e[1]], e[2])] :
                          e \in UNION {{l} \X (0 .. words[l] - 1) : l \in Lanes}}
       IN  body' = [weights |-> [s \in Symbols |-> code_lengths[s] % 16],
                    sizes   |-> [l \in Lanes |-> StreamBytes(scratch[l])],
                    K       |-> K,
                    words   |-> [a \in {e.at : e \in stores} |->
                                   (CHOOSE e \in stores : e.at = a).word]]
    /\ UNCHANGED <<src, encoder, used_pkd, lut, pass_writes, d>>

-----------------------------------------------------------------------------
(* slzHuffBuildLutKernel                                                   *)

Empty == [sym1 |-> 0, sym2 |-> 0, len |-> 0, num_syms |-> 0]
Single(s, L)    == [sym1 |-> s, sym2 |-> 0, len |-> L, num_syms |-> 1]
Dual(s, t, L)   == [sym1 |-> s, sym2 |-> t, len |-> L, num_syms |-> 2]
Escape(s, t)    == [sym1 |-> s, sym2 |-> t, len |-> HUFF_MAX_CODE_LEN, num_syms |-> 3]
LenEnd(lens, L) == Cardinality({s \in Symbols : lens[s] \in 1 .. L})

\* Symbols go by batches, one for each lane.  per_L_base[b, L] is what the leaders of the
\* batches before b counted; a lane adds the lower lanes of its own batch.
LanesOfLength(lens, batch, L) == {l \in Lanes : lens[batch * HUFF_NUM_STREAMS + l] = L}
PerLBase(lens) ==
    LET base[b \in 0 .. HUFF_ALPHABET \div HUFF_NUM_STREAMS, L \in 0 .. HUFF_MAX_CODE_LEN] ==
            IF b = 0 THEN 0 ELSE base[b - 1, L] + Cardinality(LanesOfLength(lens, b - 1, L))
    IN  base
OffsetInBatch(lens, s) ==
    Cardinality({l \in LanesOfLength(lens, s \div HUFF_NUM_STREAMS, lens[s]) :
                   l < s % HUFF_NUM_STREAMS})
OffsetWithoutBase(lens, s) == OffsetInBatch(lens, s)
Offset(lens, s) ==
    PerLBase(lens)[s \div HUFF_NUM_STREAMS, lens[s]] + OffsetInBatch(lens, s)

\* A write fills the entries one lane stores for a symbol or a pair of symbols.
SpanOf(code, L) == LET span == 2 ^ (MAX_CODE_LEN - L) IN code * span .. (code + 1) * span - 1
Overlaid(table, writes) ==
    [x \in Indices |-> IF \E w \in writes : x \in w.span
                       THEN (CHOOSE w \in writes : x \in w.span).entry ELSE table[x]]

\* Codes and single entries; a symbol's slot in used_pkd is its rank by length.
AssignAndSingles ==
    /\ pc = "build" /\ pc' = "duals"
    /\ LET lens  == body.weights
           short == {s \in Symbols : lens[s] \in 1 .. MAX_CODE_LEN}
           pkd(s) == [sym |-> s, len |-> lens[s], code |-> NextCode(lens)[lens[s]] + Offset(lens, s)]
           slot(s) == LenEnd(lens, lens[s] - 1) + Offset(lens, s)
       IN  /\ used_pkd' = [i \in {slot(s) : s \in short} |-> pkd(CHOOSE s \in short : slot(s) = i)]
           /\ pass_writes' = {[span |-> SpanOf(pkd(s).code, lens[s]), entry |-> Single(s, lens[s])] :
                                s \in short}
    /\ lut' = Overlaid([x \in Indices |-> Empty], pass_writes')
    /\ UNCHANGED <<src, encoder, body, d>>

\* Every short symbol with every one of the prefix of used_pkd that still fits.
Duals ==
    /\ pc = "duals" /\ pc' = "escapes"
    /\ LET n_used == LenEnd(body.weights, MAX_CODE_LEN)
           Fit(p) == IF p.len < MAX_CODE_LEN THEN 0 .. LenEnd(body.weights, MAX_CODE_LEN - p.len) - 1
                     ELSE {}
           Write(p, q) == [span  |-> SpanOf(p.code * 2 ^ q.len + q.code, p.len + q.len),
                           entry |-> Dual(p.sym, q.sym, p.len + q.len)]
       IN  pass_writes' = UNION {{Write(used_pkd[i], used_pkd[j]) : j \in Fit(used_pkd[i])} :
                                    i \in 0 .. n_used - 1}
    /\ lut' = Overlaid(lut, pass_writes')
    /\ UNCHANGED <<src, encoder, body, used_pkd, d>>

\* One lane, the symbols with longest codes in ascending order, each over its prefix.
Escapes ==
    /\ pc = "escapes" /\ pc' = "start"
    /\ LET escapes == Ascending({s \in Symbols : body.weights[s] = HUFF_MAX_CODE_LEN})
           first   == NextCode(body.weights)[HUFF_MAX_CODE_LEN]
           Put(t, i) == LET code   == first + i - 1
                            prefix == code \div 2
                        IN  [t EXCEPT ![prefix] = IF code % 2 = 1 THEN Escape(@.sym1, escapes[i])
                                                  ELSE Escape(escapes[i], @.sym2)]
           after[i \in 0 .. Len(escapes)] ==
               IF i = 0 THEN lut ELSE LET prev == after[i - 1] IN Put(prev, i)
       IN  lut' = after[Len(escapes)]
    /\ UNCHANGED <<src, encoder, body, used_pkd, pass_writes, d>>

-----------------------------------------------------------------------------
(* decodeStreamBoundedIL, one action for one iteration of a loop.  Where   *)
(* an iteration has two parts, \E r \in {...} is the lane between them.    *)

\* slzHuffDecode4StreamKernel: some lane, the output at some address modulo 4.
StartLane ==
    /\ pc = "start" /\ pc' = "preamble"
    /\ \E lane \in Lanes, base \in 0 .. 3 :
          d' = [lane |-> lane, base |-> base, buf |-> <<>>, word_idx |-> 0, out_pos |-> 0,
                written |-> 0, pending |-> <<>>, lookups |-> 0, out |-> <<>>, fault |-> "none"]
    /\ UNCHANGED <<src, encoder, body, used_pkd, lut, pass_writes>>

Lane      == d.lane
OutSize   == SliceSize(Lane)
n_words   == WordsOf(body.sizes[Lane])
Address(x) == x.base + SliceStart(Lane) + x.written
Misaligned(x) == Address(x) % 4 # 0
TailBase  == body.K * HUFF_NUM_STREAMS
             + SumBelow([k \in Lanes |-> Beyond(WordsOf(body.sizes[k]), body.K)], Lane)
WordAt(i) == IF i < body.K THEN i * HUFF_NUM_STREAMS + Lane ELSE TailBase + i - body.K

Faulty(x, kind) == [x EXCEPT !.fault = IF @ = "none" THEN kind ELSE @]
OutOfWords(x)   == x.word_idx >= n_words
Refill(x) ==
    IF WordAt(x.word_idx) \in DOMAIN body.words
    THEN [x EXCEPT !.buf = @ \o body.words[WordAt(x.word_idx)], !.word_idx = @ + 1]
    ELSE Faulty(x, "outside the body")

\* The bits of the buffer past the ones that were read are zeros.
BufBit(x, i) == IF i <= Len(x.buf) THEN x.buf[i] ELSE 0
Index(x) ==
    LET value[i \in 0 .. MAX_CODE_LEN] == IF i = 0 THEN 0 ELSE 2 * value[i - 1] + BufBit(x, i)
    IN  value[MAX_CODE_LEN]
EntryOf(x) == lut[Index(x)]
SymsOf(x) ==
    LET e == EntryOf(x)
    IN  CASE e.num_syms = 3 -> <<IF BufBit(x, HUFF_MAX_CODE_LEN) = 1 THEN e.sym2 ELSE e.sym1>>
          [] e.num_syms = 2 -> <<e.sym1, e.sym2>>
          [] OTHER          -> <<e.sym1>>
\* An empty entry makes the lane return and a count of bits below zero wraps around: the
\* model stops at either.
Consume(x) ==
    LET L == EntryOf(x).len
    IN  CASE L = 0          -> Faulty(x, "empty entry")
          [] L > Len(x.buf) -> Faulty(x, "bit_count wraps")
          [] OTHER          -> [x EXCEPT !.buf = SubSeq(@, L + 1, Len(@))]
Lookup(x) ==
    IF Consume(x).fault # "none" THEN Consume(x)
    ELSE [Consume(x) EXCEPT !.pending = @ \o SymsOf(x), !.out_pos = @ + Len(SymsOf(x))]

Stored(x, at, syms) ==
    [i \in {SliceStart(Lane) + at + k - 1 : k \in DOMAIN syms} |->
        syms[i - SliceStart(Lane) - at + 1]] @@ x.out
\* The n oldest pending bytes go out.
Flush(x, n) ==
    [x EXCEPT !.out = Stored(x, x.written, SubSeq(x.pending, 1, n)),
              !.written = @ + n, !.pending = SubSeq(@, n + 1, Len(@))]
StoreWord(x) == IF Len(x.pending) < 4 THEN x
                ELSE IF Misaligned(x) THEN Faulty(x, "misaligned store") ELSE Flush(x, 4)

InPreamble    == d.out_pos < OutSize /\ Misaligned(d)
Hungry(x, bits) == Len(x.buf) < bits
HotRoomForOneLookup(x) == x.out_pos + 2 <= OutSize
HotRoom(x) == x.out_pos + 4 <= OutSize

Go(here, there) ==
    /\ pc = here /\ pc' = there /\ d.fault = "none"
    /\ UNCHANGED <<src, encoder, body, used_pkd, lut, pass_writes>>

Preamble ==
    /\ Go("preamble", "preamble") /\ InPreamble
    /\ ~(Hungry(d, HUFF_MAX_CODE_LEN) /\ OutOfWords(d))
    /\ \E f \in {IF Hungry(d, HUFF_MAX_CODE_LEN) THEN Refill(d) ELSE d} : \E r \in {Lookup(f)} :
          d' = Flush(r, Min({Len(r.pending), (4 - (Address(r) % 4)) % 4}))
PreambleEnd ==
    /\ Go("preamble", "interleaved")
    /\ ~InPreamble \/ (Hungry(d, HUFF_MAX_CODE_LEN) /\ OutOfWords(d))
    /\ UNCHANGED d

\* Two lookups for one refill, a store of four bytes as soon as there are four.
StartBatchForOneLookup(x) ==
    [(IF Hungry(x, HUFF_MAX_CODE_LEN) THEN Refill(x) ELSE x) EXCEPT !.lookups = 2]
StartBatch(x) ==
    [(IF Hungry(x, 2 * HUFF_MAX_CODE_LEN) THEN Refill(x) ELSE x) EXCEPT !.lookups = 2]
HotLookup ==
    /\ \E loop \in {"interleaved", "tail"} : Go(loop, loop)
    /\ d.lookups > 0
    /\ \E r \in {Lookup(d)} : d' = StoreWord([r EXCEPT !.lookups = @ - 1])
HotInterleaved ==
    /\ Go("interleaved", "interleaved") /\ d.lookups = 0 /\ HotRoom(d) /\ d.word_idx < body.K
    /\ d' = StartBatch(d)
HotInterleavedEnd ==
    /\ Go("interleaved", "tail") /\ d.lookups = 0
    /\ ~HotRoom(d) \/ d.word_idx >= body.K
    /\ UNCHANGED d
HotTail ==
    /\ Go("tail", "tail") /\ d.lookups = 0 /\ HotRoom(d)
    /\ ~(Hungry(d, 2 * HUFF_MAX_CODE_LEN) /\ OutOfWords(d))
    /\ d' = StartBatch(d)
HotTailEnd ==
    /\ Go("tail", "single") /\ d.lookups = 0
    /\ ~HotRoom(d) \/ (Hungry(d, 2 * HUFF_MAX_CODE_LEN) /\ OutOfWords(d))
    /\ d' = Flush(d, Len(d.pending))

\* Past the input, bit_count is forced up and the buffer's zeros are read.
Padded(r) ==
    IF Hungry(r, HUFF_MAX_CODE_LEN)
    THEN [r EXCEPT !.buf = [i \in 1 .. HUFF_MAX_CODE_LEN |-> BufBit(r, i)]] ELSE r
\* The last bytes go straight out, at out_pos; a second symbol only if there is room.
TailStep ==
    /\ Go("single", "single") /\ d.out_pos < OutSize
    /\ \E r \in {IF Len(d.buf) <= REFILL_BITS /\ ~OutOfWords(d) THEN Refill(d) ELSE d} :
       \E x \in {Padded(r)} : \E c \in {Consume(x)} :
       \E syms \in {SubSeq(SymsOf(x), 1, Min({Len(SymsOf(x)), OutSize - d.out_pos}))} :
          d' = IF c.fault # "none" THEN c
               ELSE [c EXCEPT !.out = Stored(x, x.out_pos, syms), !.out_pos = @ + Len(syms)]
Finish ==
    /\ Go("single", "done") /\ d.out_pos >= OutSize
    /\ UNCHANGED d

Next == \/ Histogram \/ Merge \/ Depths \/ LimitHeight \/ AssignCodes
        \/ EncodeStreams \/ PackBody
        \/ AssignAndSingles \/ Duals \/ Escapes
        \/ StartLane \/ Preamble \/ PreambleEnd \/ HotInterleaved \/ HotInterleavedEnd
        \/ HotLookup \/ HotTail \/ HotTailEnd \/ TailStep \/ Finish

Spec == Init /\ [][Next]_vars /\ WF_vars(Next)

-----------------------------------------------------------------------------
(* What must hold                                                          *)

Prefix(code, bits) == Len(code) <= Len(bits) /\ code = SubSeq(bits, 1, Len(code))
\* What reading the encoder's codes bit by bit finds at the front of some bits.
Readable(bits) == {s \in Symbols : code_lengths[s] > 0 /\ Prefix(CodeBits(s), bits)}
IndexBits(x)   == [i \in 1 .. MAX_CODE_LEN |-> Bit(x, MAX_CODE_LEN - i)]

(***************************************************************************)
(* The lookup table, rebuilt from nibbles by thirty-two lanes at once,     *)
(* says of every prefix what the encoder's own codes say: the one symbol   *)
(* they begin with, a second one whenever it fits, and for a prefix of     *)
(* longest codes both of them.  The lanes of a pass never write one entry  *)
(* twice.  (slzHuffBuildTablesKernel against slzHuffBuildLutKernel.)       *)
(***************************************************************************)
TablesAgree ==
    /\ \A v, w \in pass_writes : v # w => v.span \intersect w.span = {}
    /\ pc = "start" =>
        \A x \in Indices :
             LET e     == lut[x]
                 bits  == IndexBits(x)
                 first == Readable(bits)
                 rest(s)  == SubSeq(bits, code_lengths[s] + 1, MAX_CODE_LEN)
                 long(b)  == Readable(Append(bits, b))
             IN  CASE \E s \in first : Readable(rest(s)) # {} ->
                        \E s \in first : \E t \in Readable(rest(s)) :
                            e = Dual(s, t, code_lengths[s] + code_lengths[t])
                   [] first # {} /\ \A s \in first : Readable(rest(s)) = {} ->
                        \E s \in first : e = Single(s, code_lengths[s])
                   [] first = {} /\ (long(0) # {} \/ long(1) # {}) ->
                        /\ e.num_syms = 3 /\ e.len = HUFF_MAX_CODE_LEN
                        /\ long(0) \subseteq {e.sym1} /\ long(1) \subseteq {e.sym2}
                   [] OTHER -> e = Empty

(***************************************************************************)
(* A lane stores only bytes of its own slice and only the bytes that were  *)
(* encoded there, whatever the alignment of the slice and wherever its     *)
(* words lie, and when it ends it has stored them all.                     *)
(***************************************************************************)
LaneDecodes ==
    d # <<>> =>
        /\ \A i \in DOMAIN d.out : /\ i \in SliceStart(Lane) .. SliceStart(Lane) + OutSize - 1
                                   /\ d.out[i] = src[i + 1]
        /\ pc = "done" => Cardinality(DOMAIN d.out) = OutSize

(***************************************************************************)
(* The lane always ends: no loop spins or gives up, no store of four bytes *)
(* is misaligned, two lookups never ask for more bits than one refill      *)
(* left, no load leaves the body and no empty entry is met.                *)
(***************************************************************************)
LaneFinishes == <>(pc = "done")
=============================================================================

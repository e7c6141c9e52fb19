--------------------------- MODULE SubChunkFormat ---------------------------
(***************************************************************************)
(* One sub-chunk on the wire: the payload the LZ encode kernel compacts in *)
(* place (lz_kernel.cu), the payload the assembler makes of it             *)
(* (assemble_kernel.cu) and the streams the LZ decode kernels read back    *)
(* (lz_header_parse.cuh).                                                  *)
(*                                                                         *)
(* A sub-chunk is a record s: its number c, source size src, whether it is *)
(* the frame's first, and of each stream its length: lit and tok in bytes, *)
(* c16 and c32 (one per LZ block) in entries, len in bytes; cs2 is where   *)
(* block 2's tokens start.  hLit, hTok, hHi and hLo are the sizes of the   *)
(* Huffman bodies, 0 when there is none.  An off32 entry is three bytes:   *)
(* an offset of a sub-chunk never needs the four-byte form.                *)
(***************************************************************************)
EXTENDS WireFields, FiniteSets

CONSTANTS LZ_BLOCK_SIZE,         \* a sub-chunk longer than this has two LZ blocks
          OFF32_COUNT_PACK_MAX,  \* a packed off32 count of this value is extended
          OFF16_ENTROPY_MIN      \* off16 is split from this many entries on

ASSUME FormatAssumption ==
    /\ LZ_BLOCK_SIZE \in Nat \ {0}
    /\ OFF32_COUNT_PACK_MAX \in Nat \ {0}
    /\ OFF16_ENTROPY_MIN \in Nat \ {0}

InitBytes(s)  == IF s.first THEN 8 ELSE 0     \* INITIAL_LITERAL_COPY_BYTES
TwoBlocks(s)  == s.src > LZ_BLOCK_SIZE
Smaller(a, b) == IF a < b THEN a ELSE b
Extended(s, b) == IF s.c32[b] >= OFF32_COUNT_PACK_MAX THEN <<F("n16", 2, s.c32[b])>> ELSE <<>>
Off32Fields(s) ==
    <<F("n32", 3, <<Smaller(s.c32[1], OFF32_COUNT_PACK_MAX), Smaller(s.c32[2], OFF32_COUNT_PACK_MAX)>>)>>
        \o Extended(s, 1) \o Extended(s, 2)

\* Where the payload says block 2's tokens start: behind all of them when block 1
\* left no token, which its trailing literals rule out.
Cs2(s) == IF s.cs2 > 0 THEN s.cs2 ELSE s.tok

\* The raw payload, field by field, in the order lane 0 writes it.
RawFields(s) ==
    <<F("init", InitBytes(s), s.c), F("n24", 3, s.lit), F("lit", s.lit, s.c),
      F("n24", 3, s.tok), F("tok", s.tok, s.c)>>
    \o (IF TwoBlocks(s) THEN <<F("cs2", 2, Cs2(s))>> ELSE <<>>)
    \o <<F("n16", 2, s.c16), F("o16", 2 * s.c16, s.c)>> \o Off32Fields(s)
    \o <<F("o32", 3 * (s.c32[1] + s.c32[2]), s.c), F("len", s.len, s.c)>>

CompSize(s) == TotalWidth(RawFields(s))

-----------------------------------------------------------------------------
(* The encode kernel: the parsers fill working regions carved out of the   *)
(* sub-chunk's output buffer, then lane 0 compacts them over themselves.   *)

LitBuf(s)   == InitBytes(s) + 3
TokenBuf(s) == s.src
Off16Buf(s) == TokenBuf(s) + s.src \div 4
Off32Buf(s) == Off16Buf(s) + s.src \div 2
LenBuf(s)   == Off32Buf(s) + s.src \div 4
Region(s, kind) == CASE kind = "tok" -> TokenBuf(s) [] kind = "o16" -> Off16Buf(s)
                     [] kind = "o32" -> Off32Buf(s) [] kind = "len" -> LenBuf(s)
                     [] OTHER -> LitBuf(s)

\* The buffer when the parsers are done: a region that outgrew its place has
\* destroyed what it ran into.
Regions(s) ==
    FoldLeft(LAMBDA m, f : Put(m, Region(s, f[1]), f), Empty,
             <<F("len", s.len, s.c), F("o32", 3 * (s.c32[1] + s.c32[2]), s.c),
               F("o16", 2 * s.c16, s.c), F("tok", s.tok, s.c), F("lit", s.lit, s.c)>>)

\* One step of the compaction: a literal is where it belongs, another stream is
\* copied with memcpy (overlapping ranges leave junk), a count is stored.
Compact(s, m, p, f) ==
    IF f[1] = "lit" THEN m
    ELSE IF f[1] \in {"tok", "o16", "o32", "len"}
         THEN LET r == Region(s, f[1]) IN
              Put(m, p, IF Run(m, r, WidthOf(f)) = f /\ p + WidthOf(f) <= r THEN f
                        ELSE Junk(WidthOf(f)))
         ELSE Put(m, p, f)
LzPayload(s) ==
    Slice(FoldLeft(LAMBDA acc, f : <<Compact(s, acc[1], acc[2], f), acc[2] + WidthOf(f)>>,
                   <<Regions(s), 0>>, RawFields(s))[1], 0, CompSize(s))

-----------------------------------------------------------------------------
(* The assembler.  parseRaw reads the raw payload of size bytes from p on; *)
(* every read is bounds-checked and a failed check fails the sub-chunk.    *)

Cmd2Present(sub) == sub > LZ_BLOCK_SIZE

\* The off32 counts at p: the packed pair is followed by the counts it has no room
\* for.  A packed count is at most the mark: the >= of the assembler is the == of
\* the reader.
ExtWidth(n) == IF n >= OFF32_COUNT_PACK_MAX THEN 2 ELSE 0
Extension(m, p, n) == IF ExtWidth(n) = 0 THEN n ELSE IF Is(m, p, "n16") THEN Value(m, p) ELSE 0
Off32Head(m, p, packed) ==
    LET pX2 == p + 3 + ExtWidth(packed[1]) IN
    [n1 |-> Extension(m, p + 3, packed[1]), n2 |-> Extension(m, pX2, packed[2]),
     data |-> pX2 + ExtWidth(packed[2])]
FieldsIn(m, p, q) ==
    LET starts == {x \in DOMAIN m : p <= x /\ x < q} IN
    [k \in 1 .. Cardinality(starts) |->
        m[CHOOSE x \in starts : Cardinality({y \in starts : y < x}) = k - 1]]

\* One part of the raw payload is taken at the cursor: r is [p, ok, got].
TakeCounted(m, size, r, part, kind, w, unit) ==
    IF r.p + w <= size /\ Is(m, r.p, kind) /\ r.p + w + unit * Value(m, r.p) <= size
    THEN [r EXCEPT !.p = @ + w + unit * Value(m, @),
                   !.got = (part :> Run(m, r.p + w, unit * Value(m, r.p))) @@ @]
    ELSE [r EXCEPT !.ok = FALSE]
TakeOff32(m, size, r, head) ==
    LET end == head.data + 3 * (head.n1 + head.n2) IN
    IF head.data <= size /\ end <= size
    THEN [r EXCEPT !.p = end, !.got = ("off32" :> FieldsIn(m, r.p, end)) @@ @]
    ELSE [r EXCEPT !.ok = FALSE]
TakeCmd2(m, size, r, n) ==
    IF r.p + n <= size
    THEN [r EXCEPT !.p = @ + n, !.got = ("cmd2" :> IF n = 0 THEN Junk(0) ELSE Run(m, r.p, n)) @@ @]
    ELSE [r EXCEPT !.ok = FALSE]
TakePart(m, size, sub, r, part) ==
    CASE ~r.ok -> r
      [] part \in {"lit", "tok"} -> TakeCounted(m, size, r, part, "n24", 3, 1)
      [] part = "cmd2" -> TakeCmd2(m, size, r, IF Cmd2Present(sub) THEN 2 ELSE 0)
      [] part = "o16" -> TakeCounted(m, size, r, part, "n16", 2, 2)
      [] part = "off32" -> IF r.p + 3 <= size /\ Is(m, r.p, "n32")
                           THEN TakeOff32(m, size, r, Off32Head(m, r.p, Value(m, r.p)))
                           ELSE [r EXCEPT !.ok = FALSE]
      [] part = "len" -> [r EXCEPT !.got = ("len" :> Run(m, r.p, size - r.p)) @@ @]
ParseRaw(m, p0, size, sub) ==
    FoldLeft(LAMBDA r, part : TakePart(m, size, sub, r, part),
             [p |-> p0, ok |-> p0 <= size, got |-> <<>>],
             <<"lit", "tok", "cmd2", "o16", "off32", "len">>)

\* One entropy stream: a Huffman body behind a 5-byte type-4 header when that
\* beats the raw bytes behind a 3-byte type-0 header.
HuffWins(n, h) == h > 0 /\ h + 5 < n + 3
EntropyStream(run, n, h, body) ==
    IF HuffWins(n, h) THEN <<F("type4", 5, <<h, n>>), F("huff", h, body)>>
    ELSE <<F("n24", 3, n), run>>

\* off16: the two byte planes as entropy streams behind a marker when that beats
\* the count and the interleaved entries.
OFF16_ENTROPY_MARKER == 65535
Plane(o16, which)    == F(which, WidthOf(o16) \div 2, o16[3])
SplitOff16(s, o16, c16) ==
    EntropyStream(Plane(o16, "hi"), c16, s.hHi, <<"hi", s.c>>)
        \o EntropyStream(Plane(o16, "lo"), c16, s.hLo, <<"lo", s.c>>)
Cheaper(split, whole, c16) ==
    IF c16 >= OFF16_ENTROPY_MIN /\ TotalWidth(split) < 2 * c16
    THEN <<F("n16", 2, OFF16_ENTROPY_MARKER)>> \o split
    ELSE <<F("n16", 2, c16), whole>>
Off16Fields(s, o16) ==
    Cheaper(SplitOff16(s, o16, WidthOf(o16) \div 2), o16, WidthOf(o16) \div 2)

\* assembleSubChunk: the assembled payload, or nothing when the raw payload does
\* not parse.
AssembleParts(m, s, got) ==
    <<Run(m, 0, InitBytes(s))>>
        \o EntropyStream(got["lit"], WidthOf(got["lit"]), s.hLit, <<"lit", s.c>>)
        \o EntropyStream(got["tok"], WidthOf(got["tok"]), s.hTok, <<"tok", s.c>>)
        \o <<got["cmd2"]>> \o Off16Fields(s, got["o16"]) \o got["off32"] \o <<got["len"]>>
AssembleParsed(m, s, raw) == IF raw.ok THEN AssembleParts(m, s, raw.got) ELSE <<>>
AssembleSubChunk(m, s) == AssembleParsed(m, s, ParseRaw(m, InitBytes(s), CompSize(s), s.src))

-----------------------------------------------------------------------------
(* The reader.  parseSubChunkHeaders of the comp bytes at p0, with a cursor *)
(* that each stream's parser moves on.  An entropy-coded stream is what the *)
(* Huffman kernel put in the scratch slot: the run the body was made from.  *)

Taken(r, part, bytes, n, next) ==
    [r EXCEPT !.p = next, !.n = n, !.got = (part :> Same(bytes)) @@ @]
Unread(r) == [r EXCEPT !.ok = FALSE]

\* The run that n decoded bytes are, from the Huffman body b.
Decoded(b, n) == IF b[1] = "huff" THEN F(b[3][1], n, b[3][2]) ELSE Junk(n)
ReadStream(m, r, part) ==
    LET v == Value(m, r.p) IN
    CASE Is(m, r.p, "n24")   -> Taken(r, part, Run(m, r.p + 3, v), v, r.p + 3 + v)
      [] Is(m, r.p, "type4") -> Taken(r, part, Decoded(Run(m, r.p + 5, v[1]), v[2]), v[2],
                                      r.p + 5 + v[1])
      [] OTHER               -> Unread(r)

\* The two planes of off16 together again.
Woven(hi, lo, n) == IF hi[1] = "hi" /\ lo[1] = "lo" /\ hi[3] = lo[3]
                    THEN F("o16", 2 * n, hi[3]) ELSE Junk(2 * n)
WeavePlanes(r) == LET n == Smaller(WidthOf(r.got["hi"]), WidthOf(r.got["lo"])) IN
                  Taken(r, "o16", Woven(r.got["hi"], r.got["lo"], n), n, r.p)
ReadLo(m, r)    == IF r.ok THEN ReadStream(m, r, "lo") ELSE r
ReadPlanes(r)   == IF r.ok THEN WeavePlanes(r) ELSE r
ReadOff16(m, r) ==
    CASE ~Is(m, r.p, "n16") -> Unread(r)
      [] Value(m, r.p) = OFF16_ENTROPY_MARKER ->
            ReadPlanes(ReadLo(m, ReadStream(m, [r EXCEPT !.p = @ + 2], "hi")))
      [] OTHER -> Taken(r, "o16", Run(m, r.p + 2, 2 * Value(m, r.p)), Value(m, r.p),
                        r.p + 2 + 2 * Value(m, r.p))
ReadOff32(m, r, head) ==
    LET n == 3 * (head.n1 + head.n2) IN
    [Taken(r, "o32", Run(m, head.data, n), n, head.data + n)
        EXCEPT !.got = [n1 |-> head.n1, n2 |-> head.n2] @@ @]

ReadPart(m, decomp, end, r, part) ==
    CASE ~r.ok -> r
      [] part \in {"lit", "tok"} -> ReadStream(m, r, part)
      [] part = "cs2" -> IF decomp > LZ_BLOCK_SIZE
                         THEN [r EXCEPT !.p = @ + 2, !.got = ("cs2" :> Value(m, r.p)) @@ @]
                         ELSE [r EXCEPT !.got = ("cs2" :> r.n) @@ @]
      [] part = "o16" -> ReadOff16(m, r)
      [] part = "o32" -> IF Is(m, r.p, "n32")
                         THEN ReadOff32(m, r, Off32Head(m, r.p, Value(m, r.p))) ELSE Unread(r)
      [] part = "len" -> IF end < r.p THEN Unread(r)
                         ELSE Taken(r, "len", Run(m, r.p, end - r.p), end - r.p, end)
HeaderParts == <<"lit", "tok", "cs2", "o16", "o32", "len">>
Headers(r)  == IF r.ok THEN [k \in {"lit", "tok", "cs2", "o16", "n1", "n2", "o32", "len"} |-> r.got[k]]
               ELSE <<>>
ParseSubChunkHeaders(m, p0, comp, decomp, first) ==
    Headers(FoldLeft(LAMBDA r, part : ReadPart(m, decomp, p0 + comp, r, part),
                     [p |-> p0 + (IF first THEN 8 ELSE 0), ok |-> TRUE, n |-> 0, got |-> <<>>],
                     HeaderParts))

\* The streams the parsers of the encode kernel filled: what the decoder must get.
Streams(s) ==
    [lit |-> Same(F("lit", s.lit, s.c)), tok |-> Same(F("tok", s.tok, s.c)),
     cs2 |-> IF TwoBlocks(s) THEN Cs2(s) ELSE s.tok,
     o16 |-> Same(F("o16", 2 * s.c16, s.c)), n1 |-> s.c32[1], n2 |-> s.c32[2],
     o32 |-> Same(F("o32", 3 * (s.c32[1] + s.c32[2]), s.c)), len |-> Same(F("len", s.len, s.c))]
=============================================================================

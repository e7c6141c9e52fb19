----------------------------- MODULE RawTokens -----------------------------
(***************************************************************************)
(* The raw-mode LZ sub-chunk: its token stream, what one token does to the *)
(* output, and what one warp-wide window of short tokens (a "batch") is    *)
(* parsed into.                                                            *)
(*                                                                         *)
(* Two descriptions of the same decode live here:                          *)
(*   Step / Reference  one token at a time, in stream order, exactly the   *)
(*                     lane-0 serial path of decodeSubChunkRawMode;        *)
(*   Window, Staged, Advance                                               *)
(*                     the warp-parallel parse of fillBatch: prefix sums   *)
(*                     over the window, offsets of "use recent" tokens     *)
(*                     taken from the last fresh lane, and the split of    *)
(*                     the matches into independent, entirely-dictionary   *)
(*                     and dependent ones.                                 *)
(*                                                                         *)
(* Addresses are relative to the sub-chunk's window base (dst_offset), so  *)
(* address 0 is the first byte of the window and a negative address lies   *)
(* in the preset dictionary.  Bytes are symbolic: each source byte (a      *)
(* literal, an initial byte, a dictionary byte) has a value of its own, so *)
(* two outputs are equal only if every byte came from the same place.      *)
(***************************************************************************)
EXTENDS Integers, Sequences, FiniteSets

CONSTANTS
    WARP_SIZE,              \* lanes of a warp = tokens of a window (32)
    MIN_PARALLEL_MATCH_LEN, \* shortest match copied by all the lanes (2)
    InitialCopy,            \* initial_copy: 8 in a frame's first sub-chunk
    InitialDistance,        \* -INITIAL_RECENT_OFFSET (8)
    DictLen,                \* dict_len; 0 is the HAS_DICT = false kernel
    DstSize,                \* bytes of the output window
    Streams                 \* the sub-chunks that may be decoded

ASSUME WarpAssumption == WARP_SIZE \in Nat \ {0}
ASSUME SizeAssumption == /\ MIN_PARALLEL_MATCH_LEN \in Nat
                         /\ InitialCopy \in Nat
                         /\ InitialDistance \in Nat
                         /\ DictLen \in Nat
                         /\ DstSize \in Nat

(***************************************************************************)
(* A command byte >= TOKEN_SHORT_MIN packs a short token: a literal run, a *)
(* match and the use-recent bit.  Below it, the two long tokens of a       *)
(* stream without off32 entries.  The sub-chunk's streams are a record     *)
(*   cmd       the tokens                                                  *)
(*   lit_size  the literal bytes (symbolic, so only their number counts)   *)
(*   off16     the match distances                                         *)
(*   lens      the run lengths of the long tokens, base included           *)
(***************************************************************************)
LONG_LITERAL == [kind |-> "long_literal"]
LONG_NEAR    == [kind |-> "long_near"]
Short(lit, match, recent) ==
    [kind |-> "short", lit |-> lit, match |-> match, recent |-> recent]
IsLong(token) == token.kind # "short"

Unwritten   == <<"unwritten", 0>>
LitByte(i)  == <<"literal", i>>
InitByte(i) == <<"initial", i>>
DictByte(i) == <<"dict", i>>
ZeroByte    == <<"zero", 0>>

Addresses == 0 .. DstSize - 1

\* What parseAndDecodeSubChunkRawPipelined leaves before the decode loop: the
\* InitialCopy raw bytes, and the registers of the loop.
InitialDst ==
    [a \in Addresses |-> IF a < InitialCopy THEN InitByte(a) ELSE Unwritten]
InitialPos ==
    [cmd_pos |-> 0, lit_pos |-> 0, off16_pos |-> 0, dst_pos |-> InitialCopy,
     recent_offset |-> -InitialDistance, length_offset |-> 0]

----------------------------------------------------------------------------
(* Copies *)

\* One byte read at address a: the output, or the tail of the dictionary
\* below the window base (clamped to zero below the dictionary).
ReadBackRefByte(dst, a) ==
    IF DictLen > 0 /\ a < 0
    THEN IF -a <= DictLen THEN DictByte(DictLen + a) ELSE ZeroByte
    ELSE IF a \in Addresses THEN dst[a] ELSE Unwritten

\* dst with byte src(i) at d + i for every i < len; the reads all see dst.
CopyAll(dst, d, len, src(_)) ==
    [a \in Addresses |-> IF a >= d /\ a < d + len THEN src(a - d) ELSE dst[a]]

\* warpMatchCopyD.  Lanes copy together only when the ranges do not overlap;
\* an overlapping match is copied byte by byte and feeds itself.
MatchCopy(dst, d, src, len) ==
    IF d - src >= len /\ len >= MIN_PARALLEL_MATCH_LEN
    THEN CopyAll(dst, d, len, LAMBDA i : ReadBackRefByte(dst, src + i))
    ELSE LET after[n \in 0 .. len] ==
                 IF n = 0 THEN dst
                 ELSE LET prev == after[n - 1]
                      IN [prev EXCEPT ![d + n - 1] = ReadBackRefByte(prev, src + n - 1)]
         IN  after[len]

LiteralCopy(dst, d, lit, len) == CopyAll(dst, d, len, LAMBDA i : LitByte(lit + i))

\* The literals left after the last token.
Trailing(st, pos) ==
    IF st.lit_size > pos.lit_pos THEN st.lit_size - pos.lit_pos ELSE 0

----------------------------------------------------------------------------
(* One token at a time: decodeSubChunkRawMode's serial path *)

\* A long near match and a short token without the use-recent bit take an offset.
TakesOffset(token) == IF IsLong(token) THEN token = LONG_NEAR ELSE ~token.recent

\* What lane 0 parses of the token at pos.
Parsed(st, pos) ==
    LET token == st.cmd[pos.cmd_pos + 1]
        fresh == TakesOffset(token) /\ pos.off16_pos < Len(st.off16)
        len   == st.lens[pos.length_offset + 1]
    IN [lit    |-> IF IsLong(token)
                   THEN IF token = LONG_LITERAL THEN len ELSE 0
                   ELSE token.lit,
        match  |-> IF IsLong(token)
                   THEN IF token = LONG_NEAR THEN len ELSE 0
                   ELSE token.match,
        offset |-> IF fresh THEN -st.off16[pos.off16_pos + 1]
                   ELSE pos.recent_offset,
        recent |-> IF IsLong(token) THEN token = LONG_LITERAL ELSE token.recent,
        off16_pos |-> pos.off16_pos + (IF fresh THEN 1 ELSE 0),
        length_offset |-> pos.length_offset + (IF IsLong(token) THEN 1 ELSE 0)]

\* The output is the sequence of the bytes decoded so far, which a literal run
\* or a match extends; a match may read the bytes it has itself just appended.
ReadBack(out, a) ==
    IF DictLen > 0 /\ a < 0
    THEN IF -a <= DictLen THEN DictByte(DictLen + a) ELSE ZeroByte
    ELSE IF a \in 0 .. Len(out) - 1 THEN out[a + 1] ELSE Unwritten
AppendLiterals(out, lit, len) == out \o [i \in 1 .. len |-> LitByte(lit + i - 1)]
AppendMatch(out, offset, len) ==
    LET after[n \in 0 .. len] ==
            IF n = 0 THEN out
            ELSE LET prev == after[n - 1]
                 IN Append(prev, ReadBack(prev, Len(prev) + offset))
    IN  after[len]

Step(st, at) ==
    LET p == Parsed(st, at.pos)
    IN [pos |-> [cmd_pos       |-> at.pos.cmd_pos + 1,
                 lit_pos       |-> at.pos.lit_pos + p.lit,
                 off16_pos     |-> p.off16_pos,
                 dst_pos       |-> at.pos.dst_pos + p.lit + p.match,
                 recent_offset |-> IF p.recent THEN at.pos.recent_offset
                                   ELSE p.offset,
                 length_offset |-> p.length_offset],
        out |-> AppendMatch(AppendLiterals(at.out, at.pos.lit_pos, p.lit),
                            p.offset, p.match)]

\* Reference(st)[n]: registers and output after the first n tokens.
Reference(st) ==
    LET after[n \in 0 .. Len(st.cmd)] ==
            IF n = 0
            THEN [pos |-> InitialPos,
                  out |-> [a \in 1 .. InitialCopy |-> InitByte(a - 1)]]
            ELSE LET prev == after[n - 1] IN Step(st, prev)
    IN  after

\* What an encoder writes: every fresh token has an off16 entry and every long one
\* a run length (at least its base), a match lies behind its target, and the output
\* fits the window.  The kernels check none of it.
ShortTokens == [kind : {"short"}, lit : Nat, match : Nat, recent : BOOLEAN]
WellFormed(st) ==
    /\ st.cmd \in Seq(ShortTokens \cup {LONG_LITERAL, LONG_NEAR})
    /\ st.lit_size \in Nat /\ st.off16 \in Seq(Nat) /\ st.lens \in Seq(Nat \ {0})
TokenIsLegal(st, pos) ==
    LET token == st.cmd[pos.cmd_pos + 1] IN
    /\ TakesOffset(token) => pos.off16_pos < Len(st.off16)
    /\ IsLong(token) => pos.length_offset < Len(st.lens)
    /\ Parsed(st, pos).match > 0 => Parsed(st, pos).offset < 0
Legal(st, ref) ==
    /\ \A n \in 0 .. Len(st.cmd) - 1 : TokenIsLegal(st, ref[n].pos)
    /\ LET last == ref[Len(st.cmd)].pos IN last.dst_pos + Trailing(st, last) <= DstSize
ASSUME StreamsAssumption == \A st \in Streams : WellFormed(st) /\ Legal(st, Reference(st))

\* The whole output, ref being Reference(st): every token, then the trailing literals.
Decoded(st, ref) ==
    LET last == ref[Len(st.cmd)]
    IN  AppendLiterals(last.out, last.pos.lit_pos, Trailing(st, last.pos))

----------------------------------------------------------------------------
(* One window at a time: fillBatch *)

\* The short tokens at the head of the window that starts at cmd_pos: at most
\* WARP_SIZE of them, and none from the first long token on.
BatchSize(st, pos) ==
    LET remaining == Len(st.cmd) - pos.cmd_pos
        limit == IF remaining < WARP_SIZE THEN remaining ELSE WARP_SIZE
    IN  CHOOSE n \in 0 .. limit :
            /\ \A k \in 0 .. n - 1 : ~IsLong(st.cmd[pos.cmd_pos + k + 1])
            /\ n = limit \/ IsLong(st.cmd[pos.cmd_pos + n + 1])

\* warpScanU32: the sum of f over the lanes below k (so k = n is the total).
SumBelow(f, n) ==
    LET s[k \in 0 .. n] == IF k = 0 THEN 0 ELSE s[k - 1] + f[k - 1] IN s

\* A lane takes the value of the last fresh lane up to it, its own if there is none.
LastFresh(fresh, k) == CHOOSE j \in fresh : j <= k /\ \A i \in fresh : i <= k => i <= j
Inherited(own, fresh) ==
    [k \in DOMAIN own |-> IF \E j \in fresh : j <= k THEN own[LastFresh(fresh, k)] ELSE own[k]]

\* The per-lane registers of the parser warp for the window at pos.
Window(st, pos) ==
    LET n     == BatchSize(st, pos)
        Lanes == 0 .. n - 1
        token == [k \in Lanes |-> st.cmd[pos.cmd_pos + k + 1]]
        lit   == [k \in Lanes |-> token[k].lit]
        match == [k \in Lanes |-> token[k].match]
        fresh == {k \in Lanes : ~token[k].recent}
        off16_local == SumBelow([k \in Lanes |-> IF k \in fresh THEN 1 ELSE 0], n)
        own   == [k \in Lanes |->
                    LET entry == pos.off16_pos + off16_local[k]
                    IN IF k \in fresh /\ entry < Len(st.off16)
                       THEN -st.off16[entry + 1] ELSE pos.recent_offset]
        offset == Inherited(own, fresh)
        dst_local == SumBelow([k \in Lanes |-> lit[k] + match[k]], n)
        copy_dst == [k \in Lanes |-> pos.dst_pos + dst_local[k] + lit[k]]
    IN [n |-> n, lit |-> lit, match |-> match, fresh |-> fresh, offset |-> offset,
        off16_used |-> off16_local[n],
        lit_local  |-> SumBelow(lit, n),
        dst_local  |-> dst_local,
        copy_dst   |-> copy_dst,
        src        |-> [k \in Lanes |-> copy_dst[k] + offset[k]]]

\* Definitions named X_<slip> are wrong on purpose: a property that holds of X
\* must fail when X is replaced by one of them.
EntirelyDict_Straddling(w) ==
    {k \in DOMAIN w.src : /\ DictLen > 0 /\ w.match[k] > 0 /\ w.src[k] < 0
                          /\ w.src[k] + DictLen >= 0}
Independent_OwnTarget(w, pos) ==
    {k \in DOMAIN w.src : /\ w.match[k] > 0 /\ ~(DictLen > 0 /\ w.src[k] < 0)
                          /\ w.src[k] + w.match[k] <= w.copy_dst[k]}

\* A match is copied flat when no byte of its source is written by this batch:
\* it ends below the batch's first output byte, or lies wholly in the dictionary.
ReachesDict(w)   == {k \in DOMAIN w.src : DictLen > 0 /\ w.match[k] > 0 /\ w.src[k] < 0}
EntirelyDict(w)  == {k \in ReachesDict(w) : /\ w.src[k] + w.match[k] <= 0
                                            /\ w.src[k] + DictLen >= 0}
Independent(w, pos) ==
    {k \in DOMAIN w.src : /\ w.match[k] > 0 /\ k \notin ReachesDict(w)
                          /\ w.src[k] + w.match[k] <= pos.dst_pos}
Dependent(w, pos) ==
    {k \in DOMAIN w.src : w.match[k] > 0} \ (Independent(w, pos) \cup EntirelyDict(w))

\* The lengths of the matches of one flat pool, 0 for the lanes outside it.
PoolLen(w, pool) == [k \in DOMAIN w.src |-> IF k \in pool THEN w.match[k] ELSE 0]

\* PipeBatch.  All the lanes stage their array entries, then lane 0 stages the
\* scalars: two writes, which a reader could see half done.
StagedLanes(st, pos) ==
    LET w  == Window(st, pos)
        im == SumBelow(PoolLen(w, Independent(w, pos)), w.n)
        dm == SumBelow(PoolLen(w, EntirelyDict(w)), w.n)
        Lane(f(_)) == [k \in DOMAIN w.src |-> f(k)]
    IN [lit_prefix   |-> Lane(LAMBDA k : w.lit_local[k]),
        dst_adj      |-> Lane(LAMBDA k : w.dst_local[k] - w.lit_local[k]),
        im_prefix    |-> Lane(LAMBDA k : im[k]),
        im_dst_adj   |-> Lane(LAMBDA k : w.copy_dst[k] - im[k]),
        im_src_adj   |-> Lane(LAMBDA k : w.src[k] - im[k]),
        dm_prefix    |-> Lane(LAMBDA k : dm[k]),
        dm_dst_adj   |-> Lane(LAMBDA k : w.copy_dst[k] - dm[k]),
        dm_src_adj   |-> Lane(LAMBDA k : DictLen + w.src[k] - dm[k]),
        match_len    |-> w.match,
        match_offset |-> w.offset]

StagedHead(st, pos) ==
    LET w == Window(st, pos)
    IN [batch_size |-> w.n,
        total_lit  |-> w.lit_local[w.n],
        total_im   |-> SumBelow(PoolLen(w, Independent(w, pos)), w.n)[w.n],
        total_dm   |-> SumBelow(PoolLen(w, EntirelyDict(w)), w.n)[w.n],
        dst_pos    |-> pos.dst_pos,
        lit_pos    |-> pos.lit_pos,
        dep_mask   |-> Dependent(w, pos)]

Advance_StaleRecent(st, pos) ==
    LET w == Window(st, pos)
    IN [pos EXCEPT !.cmd_pos = @ + w.n, !.off16_pos = @ + w.off16_used,
                   !.dst_pos = @ + w.dst_local[w.n], !.lit_pos = @ + w.lit_local[w.n]]

\* The parser's registers after the batch, from the scans alone.
Advance(st, pos) ==
    LET w == Window(st, pos)
    IN [pos EXCEPT !.cmd_pos = @ + w.n,
                   !.off16_pos = @ + w.off16_used,
                   !.dst_pos = @ + w.dst_local[w.n],
                   !.lit_pos = @ + w.lit_local[w.n],
                   !.recent_offset =
                        IF w.fresh = {} THEN @
                        ELSE w.offset[CHOOSE k \in w.fresh : \A j \in w.fresh : j <= k]]
============================================================================

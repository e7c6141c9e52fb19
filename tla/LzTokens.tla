------------------------------ MODULE LzTokens ------------------------------
(***************************************************************************)
(* One sub-chunk from the LZ parser through its token streams to the       *)
(* general decoder.  Either parser of the encoder (greedy or chain) walks  *)
(* the sub-chunk in one or two blocks and serialises literal runs and      *)
(* matches; the decoder must put every byte back where it came from.       *)
(*                                                                         *)
(* Bytes have no value.  A literal is known by its source position; that   *)
(* bytes equal the bytes at some distance before them is a fact, which the *)
(* parsers find in the data and TLC chooses.  Hash tables and the choice   *)
(* between candidates are left open: any match the parser's tests allow    *)
(* may be the next one.  Sizes, lengths, offsets and tokens are the real   *)
(* numbers.  Offsets are distances, the recent offset too.                 *)
(***************************************************************************)
EXTENDS Integers, Sequences, SequencesExt, FiniteSets, TLC

CONSTANT Jobs   \* [parser, size, first, dict]: dict is dict_len; and what TLC tries there:
                \* literal runs lits, match lengths lens, distances dists besides the recent
                \* and the furthest one, sets eqs of places in a run whose byte equals the
                \* one at the recent offset, at most cmds matches

VARIABLES job, pc,
          anchor,     \* first byte not yet serialised
          recent,     \* recent_offset
          s,          \* OutputStreams
          mark,       \* cmd_stream2_offset and off32_count of block 1
          facts,      \* [at, n, dist]: bytes known to equal those dist before
          cmds,       \* matches so far
          matched,    \* the last command of this block was a match
          out         \* what the decoder did: [at, n, kind, val]

vars == <<job, pc, anchor, recent, s, mark, facts, cmds, matched, out>>

LZ_BLOCK_SIZE   == 65536
NEAR_OFFSET_MAX == 65535
MAX_INLINE_LITERALS == 7
MAX_INLINE_MATCH    == 15
LITERAL_RUN_LENGTH_THRESHOLD == 64
NEAR_CONT_MATCH_MAX == 90
FAR_OFFSET_MIN_MATCH == 14
MIN_MATCH3 == 3
MIN_MATCH  == 4
INITIAL_LITERAL_COPY_BYTES == 8
INITIAL_RECENT_OFFSET == 8
Least(a, b) == IF a < b THEN a ELSE b

-----------------------------------------------------------------------------
(* lz_token_emit.cuh                                                       *)

LengthBytes(v) ==
    IF v <= 251 THEN <<v>>
    ELSE LET extra == ((v - ((v % 4) + 252)) \div 4) % 65536
         IN  <<252 + (v % 4), extra % 256, extra \div 256>>
Short(lit, match, off) == lit + 8 * match + IF off = 0 THEN 128 ELSE 0
Repeat(token, n) == [i \in 1 .. n |-> token]
Near(off) == IF off = 0 THEN <<>> ELSE <<off>>
Put(t, tok, len, off16, off32) ==
    [t EXCEPT !.tok = @ \o tok, !.len = @ \o len, !.off16 = @ \o off16, !.off32 = @ \o off32]
PutLits(t, from, n) ==
    [t EXCEPT !.lits = IF n = 0 THEN @ ELSE Append(@, [pos |-> t.lit_count, from |-> from, n |-> n]),
              !.lit_count = @ + n]

\* The match tokens of step 3, the first with the rest of the literals.
NearTokens(rest, len, off) ==
    <<Short(rest, Least(len, MAX_INLINE_MATCH), off)>>
        \o [i \in 1 .. (len - 1) \div MAX_INLINE_MATCH |->
               Short(0, Least(len - i * MAX_INLINE_MATCH, MAX_INLINE_MATCH), 0)]
ClassToken(len, off) ==
    IF off <= NEAR_OFFSET_MAX THEN 1 ELSE IF len - 5 \in 0 .. 23 THEN len - 5 ELSE 2
ClassLength(len, off) ==
    IF off <= NEAR_OFFSET_MAX THEN LengthBytes(IF len > 91 THEN len - 91 ELSE 0)
    ELSE IF len - 5 \in 0 .. 23 THEN <<>> ELSE LengthBytes(IF len > 29 THEN len - 29 ELSE 0)
\* Step 4, for the resolved offset.
LongMatch(t, rest, lit_tok, lit_len, len, off, match_pos, block2_start) ==
    Put(t, lit_tok \o (IF rest = 0 THEN <<>> ELSE <<128 + rest>>) \o <<ClassToken(len, off)>>,
        lit_len \o ClassLength(len, off),
        IF off <= NEAR_OFFSET_MAX THEN <<off>> ELSE <<>>,
        IF off <= NEAR_OFFSET_MAX THEN <<>> ELSE <<off + block2_start - match_pos>>)
\* Steps 3 and 4, once step 2 has written lit_tok and lit_len for all but rest literals.
EmitMatch(t, rest, lit_tok, lit_len, len, off, match_pos, block2_start, rec) ==
    IF off <= NEAR_OFFSET_MAX /\ len <= NEAR_CONT_MATCH_MAX
    THEN Put(t, lit_tok \o NearTokens(rest, len, off), lit_len, Near(off), <<>>)
    ELSE LongMatch(t, rest, lit_tok, lit_len, len, IF off = 0 THEN rec ELSE off, match_pos,
                   block2_start)
Continued(lit) == IF lit > MAX_INLINE_LITERALS THEN (lit - 1) \div MAX_INLINE_LITERALS ELSE 0
EmitCmd(t, lit, len, off, at, block2_start, rec) ==
    IF lit <= MAX_INLINE_LITERALS /\ len <= MAX_INLINE_MATCH /\ off <= NEAR_OFFSET_MAX
    THEN Put(t, <<Short(lit, len, off)>>, <<>>, Near(off), <<>>)
    ELSE IF lit < LITERAL_RUN_LENGTH_THRESHOLD
    THEN EmitMatch(t, lit - MAX_INLINE_LITERALS * Continued(lit), Repeat(135, Continued(lit)),
                   <<>>, len, off, at + lit, block2_start, rec)
    ELSE IF len = 0 THEN Put(t, <<0>>, LengthBytes(lit - 64), <<>>, <<>>)
    ELSE EmitMatch(t, 0, <<0>>, LengthBytes(lit - 64), len, off, at + lit, block2_start, rec)

LiteralRunSlotCount(n) == IF n > 7 THEN ((n - 1) % 7) + 1 ELSE n

\* found: the gaps between the bytes of the run that equal the byte at the recent
\* offset.  A byte right behind a recorded one is left in the next gap.
FoundLast(eq, lit) ==
    LET gap(f, i) == IF i \in eq
                     THEN [gaps |-> IF i = f.last THEN f.gaps ELSE Append(f.gaps, i - f.last),
                           last |-> i + 1] ELSE f
        f == FoldLeft(gap, [gaps |-> <<>>, last |-> 0], [i \in 1 .. lit - 1 |-> i])
    IN  IF f.gaps = <<>> THEN <<>> ELSE Append(f.gaps, lit - f.last)
Found(eq, lit) ==
    LET gap(f, i) == IF i \in eq /\ i # f.last
                     THEN [gaps |-> Append(f.gaps, i - f.last), last |-> i + 1] ELSE f
        f == FoldLeft(gap, [gaps |-> <<>>, last |-> 0], [i \in 1 .. lit - 1 |-> i])
    IN  IF f.gaps = <<>> THEN <<>> ELSE Append(f.gaps, lit - f.last)
\* One step of the emit loop over found: a token of its own for the byte behind the
\* gap, or gap and byte into the next gap.
Split(e, next, block2_start, rec) ==
    IF LiteralRunSlotCount(e.gap) + LiteralRunSlotCount(next) + 1 > MAX_INLINE_LITERALS
    THEN [t |-> EmitCmd(PutLits(e.t, e.at, e.gap), e.gap, 1, 0, e.at, block2_start, rec),
          at |-> e.at + e.gap + 1, gap |-> next]
    ELSE [e EXCEPT !.gap = next + e.gap + 1]
SplitRun(found, t, at, block2_start, rec) ==
    FoldLeft(LAMBDA e, next : Split(e, next, block2_start, rec),
             [t |-> t, at |-> at, gap |-> found[1]], SubSeq(found, 2, Len(found)))
EmitPlain(t, at, lit, len, off, block2_start, rec) ==
    EmitCmd(PutLits(t, at, lit), lit, len, off, at, block2_start, rec)
EmitRest(e, end, len, off, block2_start, rec) ==
    EmitPlain(e.t, e.at, end - e.at, len, off, block2_start, rec)
EmitWithLiteral1(t, at, lit, eq, len, off, block2_start, rec) ==
    IF lit \in 8 .. 63 /\ Found(eq, lit) # <<>>
    THEN EmitRest(SplitRun(Found(eq, lit), t, at, block2_start, rec), at + lit, len, off,
                  block2_start, rec)
    ELSE EmitPlain(t, at, lit, len, off, block2_start, rec)

-----------------------------------------------------------------------------
(* The parsers and the two-block driver of the LZ encode kernel.           *)

Block2Start == IF pc = "block2" THEN LZ_BLOCK_SIZE ELSE 0
BlockEnd    == IF pc = "block1" THEN Least(job.size, LZ_BLOCK_SIZE) ELSE job.size
Initial     == IF job.first THEN INITIAL_LITERAL_COPY_BYTES ELSE 0

Init ==
    /\ job \in Jobs
    /\ pc = "block1"
    /\ anchor = Initial
    /\ recent = INITIAL_RECENT_OFFSET
    /\ s = [lits |-> <<>>, lit_count |-> 0, tok |-> <<>>, off16 |-> <<>>, off32 |-> <<>>,
            len |-> <<>>]
    /\ mark = [cmd |-> 0, off32 |-> 0]
    /\ facts = {} /\ cmds = 0 /\ matched = FALSE /\ out = <<>>

\* A match at `at` of len bytes at distance dist: inside the window or, in block 1,
\* inside the dictionary below it.
Reachable(at, len, dist) ==
    \/ dist \in 8 .. at
    \/ dist <= NEAR_OFFSET_MAX /\ dist <= at + job.dict /\ at + len <= dist
FarGate(len, dist)       == dist > NEAR_OFFSET_MAX => len >= FAR_OFFSET_MIN_MATCH
Resume(at, len, dist, eq, new) ==
    /\ s' = new
    /\ facts' = facts \union {[at |-> at, n |-> len, dist |-> dist]}
                       \union {[at |-> anchor + i, n |-> 1, dist |-> recent] : i \in eq}
    /\ recent' = dist /\ anchor' = at + len
    /\ cmds' = cmds + 1 /\ matched' = TRUE
AtRecent(at, dist) == dist = recent /\ dist <= at
\* A match ends where the bytes differ, at the end of the block, or of the dictionary.
Maximal(at, lit, dist) == matched /\ lit = 0 /\ dist = recent => dist = at

\* The greedy parser needs four equal bytes, or three behind a byte at the recent
\* offset, and looks no closer than 8 bytes to the end of the block.
GreedyMatch(lit, len, dist) ==
    LET at == anchor + lit IN
    /\ job.parser = "greedy"
    /\ at + len <= BlockEnd
    /\ Reachable(at, len, dist)
    /\ lit + len >= MIN_MATCH /\ (len >= MIN_MATCH \/ (len = 3 /\ AtRecent(at, dist)))
    /\ at + (IF dist = recent THEN 7 ELSE 8) <= BlockEnd
    /\ Maximal(at, lit, dist)
    /\ FarGate(len, dist)
    /\ Resume(at, len, dist, {},
              EmitPlain(s, anchor, lit, len, IF dist = recent THEN 0 ELSE dist, Block2Start, recent))
    /\ UNCHANGED <<job, pc, mark, out>>

\* The chain parser also takes two or three bytes at the recent offset, and none
\* further than NEAR_OFFSET_MAX; eq are bytes of the run that equal the byte at the
\* recent offset.  That it asks for one byte more behind a run of 64 is a heuristic
\* (the count it tests lags behind while it looks ahead) and left open.
ChainMatch(lit, len, dist, eq) ==
    LET at == anchor + lit IN
    /\ job.parser = "chain"
    /\ at + len <= BlockEnd
    /\ Reachable(at, len, dist) /\ dist <= NEAR_OFFSET_MAX
    /\ len >= IF AtRecent(at, dist) THEN 2 ELSE 4
    /\ at + 5 < BlockEnd
    /\ Maximal(at, lit, dist)
    /\ eq # {} => lit \in 8 .. 63
    /\ \A i \in eq : i < lit /\ anchor + i >= recent
    /\ Resume(at, len, dist, eq,
              EmitWithLiteral1(s, anchor, lit, eq, len, IF AtRecent(at, dist) THEN 0 ELSE dist,
                               Block2Start, recent))
    /\ UNCHANGED <<job, pc, mark, out>>

\* Trailing literals, and on to the next block or to the decoder.
EndBlock ==
    /\ pc \in {"block1", "block2"}
    /\ s' = IF anchor = BlockEnd THEN s
            ELSE EmitPlain(s, anchor, BlockEnd - anchor, 0, 0, Block2Start, recent)
    /\ anchor' = BlockEnd /\ matched' = FALSE
    /\ IF BlockEnd < job.size
       THEN pc' = "block2" /\ mark' = [cmd |-> Len(s'.tok), off32 |-> Len(s'.off32)]
       ELSE pc' = "decode" /\ mark' = mark
    /\ UNCHANGED <<job, recent, facts, cmds, out>>

-----------------------------------------------------------------------------
(* decodeSubChunkGeneral                                                   *)

HasExtra(o)   == o < Len(s.len) /\ s.len[o + 1] > 251 /\ o + 2 < Len(s.len)
ReadLength(o) ==
    IF o >= Len(s.len) THEN 0
    ELSE s.len[o + 1] + IF HasExtra(o) THEN 4 * (s.len[o + 2] + 256 * s.len[o + 3]) ELSE 0
Reading(o)    == IF HasExtra(o) THEN 3 ELSE IF o < Len(s.len) THEN 1 ELSE 0

\* Copied bytes that land inside the output; a literal must be inside its stream too.
CopyLits(d, n) ==
    LET fits == Least(n, Least(IF job.size > d.dst THEN job.size - d.dst ELSE 0,
                               IF s.lit_count > d.lit THEN s.lit_count - d.lit ELSE 0))
    IN  [d EXCEPT !.out = IF fits = 0 THEN @
                          ELSE Append(@, [at |-> d.dst, n |-> fits, kind |-> "lit", val |-> d.lit]),
                  !.dst = @ + n, !.lit = @ + n]
CopyMatch(d, n, dist) ==
    LET fits == Least(n, IF job.size > d.dst THEN job.size - d.dst ELSE 0)
    IN  [d EXCEPT !.out = IF fits = 0 THEN @
                          ELSE Append(@, [at |-> d.dst, n |-> fits, kind |-> "match", val |-> dist]),
                  !.dst = @ + n]
\* A fresh near offset, or a far one: its block's start less the entry.
NearMatch(d, n) ==
    IF d.off16 < Len(s.off16)
    THEN [CopyMatch(d, n, s.off16[d.off16 + 1]) EXCEPT !.off16 = @ + 1, !.rec = s.off16[d.off16 + 1]]
    ELSE CopyMatch(d, n, d.rec)
FarDist(d, entry) == entry + d.dst - d.start
FarMatch(d, n) ==
    IF d.off32 < d.off32_end
    THEN [CopyMatch(d, n, FarDist(d, s.off32[d.off32 + 1]))
             EXCEPT !.off32 = @ + 1, !.rec = FarDist(d, s.off32[d.off32 + 1])]
    ELSE CopyMatch(d, n, d.rec)
Token(d, token) ==
    IF token >= 24
    THEN IF token >= 128 THEN CopyMatch(CopyLits(d, token % 8), (token \div 8) % 16, d.rec)
                         ELSE NearMatch(CopyLits(d, token % 8), token \div 8)
    ELSE IF token > 2 THEN FarMatch(d, token + 5)
    ELSE LET v == ReadLength(d.len)
             e == [d EXCEPT !.len = @ + Reading(@)]
         IN  CASE token = 0 -> CopyLits(e, v + 64)
               [] token = 1 -> NearMatch(e, v + 91)
               [] token = 2 -> FarMatch(e, v + 29)
Block1Tokens == IF mark.cmd \in 1 .. Len(s.tok) - 1 THEN mark.cmd ELSE Len(s.tok)
ToBlockEnd(d) ==
    LET end == Least(d.start + LZ_BLOCK_SIZE, job.size)
    IN  IF end > d.dst THEN CopyLits(d, end - d.dst) ELSE d
Off32Count1   == IF job.size > LZ_BLOCK_SIZE THEN mark.off32 ELSE Len(s.off32)
NextBlock(d)  == [d EXCEPT !.start = d.dst, !.off32 = Off32Count1, !.off32_end = Len(s.off32)]
LastLits(d)   == IF s.lit_count > d.lit THEN CopyLits(d, s.lit_count - d.lit) ELSE d
DecodeBlock(d, tokens) == ToBlockEnd(FoldLeft(Token, d, tokens))
Start == [dst |-> Initial, lit |-> 0, off16 |-> 0, off32 |-> 0, start |-> 0, len |-> 0,
          rec |-> INITIAL_RECENT_OFFSET, out |-> <<>>,
          off32_end |-> Off32Count1]
Decode ==
    /\ pc = "decode"
    /\ out' = LastLits(DecodeBlock(NextBlock(DecodeBlock(Start, SubSeq(s.tok, 1, Block1Tokens))),
                                   SubSeq(s.tok, Block1Tokens + 1, Len(s.tok)))).out
    /\ pc' = "done"
    /\ UNCHANGED <<job, anchor, recent, s, mark, facts, cmds, matched>>

Parse ==
    \E len \in job.lens \union {BlockEnd - anchor} :
    \E lit \in job.lits \union IF BlockEnd >= anchor + len THEN {BlockEnd - anchor - len} ELSE {} :
    \E dist \in job.dists \union {recent, anchor + lit, anchor + lit + job.dict} :
        \/ GreedyMatch(lit, len, dist)
        \/ \E eq \in job.eqs : ChainMatch(lit, len, dist, eq)
Next ==
    \/ pc \in {"block1", "block2"} /\ cmds < job.cmds /\ Parse
    \/ EndBlock
    \/ Decode
Spec == Init /\ [][Next]_vars

-----------------------------------------------------------------------------
(* Properties.                                                             *)

\* The decoder writes every byte once and in order, each literal with the source byte
\* of its own place, each match byte from a distance at which the encoder had found it
\* equal: tokens, lengths, offsets and literals stay in step over every boundary of
\* their encodings, and both sides change the recent offset at the same tokens.
SourceOf(lit) == {iv.from + lit - iv.pos : iv \in {v \in ToSet(s.lits) : lit \in v.pos .. v.pos + v.n - 1}}
Right(w) ==
    IF w.kind = "lit" THEN SourceOf(w.val) = {w.at} /\ SourceOf(w.val + w.n - 1) = {w.at + w.n - 1}
    ELSE \E f \in facts : f.dist = w.val /\ f.at <= w.at /\ w.at + w.n <= f.at + f.n
RoundTrip ==
    pc = "done" =>
        /\ \A w \in ToSet(out) : Right(w)
        /\ \A i \in DOMAIN out : out[i].at = IF i = 1 THEN Initial ELSE out[i - 1].at + out[i - 1].n
        /\ Last(out).at + Last(out).n = job.size

\* No stream outgrows the region that the kernel cut for it out of the output buffer:
\* one that does overwrites the stream behind it.
StreamsFit ==
    /\ Len(s.tok) <= job.size \div 4
    /\ 2 * Len(s.off16) <= job.size \div 2
    /\ 3 * Len(s.off32) <= job.size \div 4
    /\ Len(s.len) <= job.size \div 4

\* The greedy parser keeps every stream inside its region: no token of it stands for
\* fewer than four bytes in the long run.
GreedyStreamsFit == job.parser = "greedy" => StreamsFit
=============================================================================

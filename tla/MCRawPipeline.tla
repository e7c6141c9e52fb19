--------------------------- MODULE MCRawPipeline ---------------------------
(***************************************************************************)
(* Instances of RawPipeline for TLC: a window of 2 tokens, 2 copier warps, *)
(* and every short stream an encoder may write over a few token shapes,    *)
(* without sources in a dictionary and with them.                          *)
(***************************************************************************)
EXTENDS RawPipeline

\* Sequences of length n over S, all of them.
SeqOfLen(S, n) == [1 .. n -> S]

\* A stream an encoder may write: besides, no source reaches below the dictionary
\* (or the window, without one) and the literals suffice.
Writable(st, dict) ==
    LET ref == Reference(st)
        Source(n) == LET p == Parsed(st, ref[n].pos)
                     IN ref[n].pos.dst_pos + p.lit + p.offset
    IN /\ Legal(st, ref)
       /\ \A n \in 0 .. Len(st.cmd) - 1 :
            Parsed(st, ref[n].pos).match > 0 => Source(n) >= -dict
       /\ ref[Len(st.cmd)].pos.lit_pos <= st.lit_size

Count(cmd, T(_)) == Cardinality({i \in DOMAIN cmd : T(cmd[i])})
LitSize(cmd, lens) ==
    LET longs == {i \in DOMAIN cmd : cmd[i] = LONG_LITERAL}
        before(i) == Cardinality({j \in 1 .. i : IsLong(cmd[j])})
        s[i \in 0 .. Len(cmd)] ==
            IF i = 0 THEN 0
            ELSE s[i - 1] + IF i \in longs THEN lens[before(i)]
                            ELSE IF IsLong(cmd[i]) THEN 0 ELSE cmd[i].lit
    IN s[Len(cmd)]

\* All those streams with one of these token sequences, distances out of
\* offsets, long runs of the given lengths and tail literals after the last token.
StreamsWith(cmds, offsets, runs, tail, dict) ==
    {st \in UNION {{[cmd |-> cmd, lit_size |-> LitSize(cmd, lens) + tail,
                     off16 |-> off, lens |-> lens] :
                     off \in SeqOfLen(offsets, Count(cmd, TakesOffset)),
                     lens \in SeqOfLen(runs, Count(cmd, IsLong))} :
                   cmd \in cmds} : Writable(st, dict)}
StreamsOf(tokens, n, offsets, runs, tail, dict) ==
    StreamsWith(SeqOfLen(tokens, n), offsets, runs, tail, dict)

\* Short streams of every shape, and longer ones that keep the double buffer full.
SmallTokens == {Short(1, 2, FALSE), Short(2, 0, TRUE), Short(0, 3, TRUE),
                LONG_LITERAL, LONG_NEAR}
PlainStreams ==
    UNION {StreamsOf(SmallTokens, n, {1, 2}, {3}, 1, 0) : n \in 0 .. 2}
    \cup StreamsOf({Short(1, 2, FALSE), Short(0, 3, TRUE), LONG_LITERAL}, 3, {1, 3}, {2}, 1, 0)
    \cup StreamsOf({Short(2, 1, FALSE), Short(0, 2, TRUE)}, 5, {2}, {2}, 1, 0)
    \cup StreamsOf({Short(1, 1, FALSE), LONG_NEAR}, 4, {2}, {2}, 0, 0)

\* A few long streams: three batches in a row; a long token between two runs of
\* batches; matches that read the batch they are in, or the one before.
FewCommands == {<<Short(1, 2, FALSE), Short(0, 2, TRUE), third, fourth, Short(1, 2, FALSE)>> :
                  third \in {Short(1, 2, FALSE), LONG_NEAR},
                  fourth \in {Short(1, 2, FALSE), Short(0, 2, TRUE)}}
FewStreams == {st \in StreamsWith(FewCommands, {1, 4}, {3}, 1, 0) :
                  st.off16[1] = 1 /\ st.off16[2] = 4 /\ st.off16[3] = 1}

\* Distances that reach the dictionary from the first tokens: wholly inside it,
\* and straddling the window base.
DictStreams ==
    StreamsOf({Short(1, 2, FALSE), Short(0, 2, TRUE), LONG_NEAR}, 3, {3, 4}, {2}, 1, DictLen)

AllStreams == UNION {PlainStreams, FewStreams, DictStreams}
=============================================================================

------------------------------ MODULE MCFrame ------------------------------
(***************************************************************************)
(* Instances of FrameWalk for TLC: chunks of 64 bytes in LZ blocks of 40,  *)
(* a few shapes of chunk, every combination of the frame's options that    *)
(* the encoder's callers can ask for, and a walk of four threads.          *)
(***************************************************************************)
EXTENDS FrameWalk

\* A chunk of source size src, from the lengths of its streams.
Shape(src, lit, tok, cs2, c16, c32, len) ==
    [src |-> src, lit |-> lit, tok |-> tok, cs2 |-> cs2, c16 |-> c16, c32 |-> c32, len |-> len,
     hLit |-> 0, hTok |-> 0, hHi |-> 0, hLo |-> 0]
Huff(s, hLit, hTok, hHi, hLo) ==
    [s EXCEPT !.hLit = hLit, !.hTok = hTok, !.hHi = hHi, !.hLo = hLo]

Plain   == Shape(64, 20, 6, 3, 4, <<0, 0>>, 2)
Coded   == Huff(Shape(64, 22, 8, 5, 2, <<0, 0>>, 0), 12, 2, 0, 0)
Split   == Huff(Shape(64, 4, 6, 2, 10, <<0, 0>>, 1), 0, 0, 1, 9)
FarBoth == Shape(64, 5, 5, 2, 1, <<2, 1>>, 1)
Far2    == Shape(64, 5, 5, 2, 0, <<1, 3>>, 0)
Noise   == Shape(64, 64, 1, 1, 0, <<0, 0>>, 0)
Edge    == Shape(64, 40, 5, 3, 2, <<0, 0>>, 1)
Clash   == Shape(64, 39, 5, 3, 2, <<0, 0>>, 0)
OneBlk  == Shape(40, 8, 4, 0, 3, <<0, 0>>, 1)
Short   == Shape(24, 3, 2, 0, 1, <<0, 0>>, 0)
Tiny    == Shape(6, 6, 1, 0, 0, <<0, 0>>, 0)

Chunked(shapes) == [c \in DOMAIN shapes |->
    shapes[c] @@ [c |-> c, first |-> c = 1]]
Options(sizes, dicts, tables, merkles, csums) ==
    {[size |-> z, dict |-> d, table |-> t, merkle |-> k, csum |-> x] :
        z \in sizes, d \in dicts, t \in tables, k \in merkles, x \in csums}
JobsOf(lists, options) == {o @@ [subs |-> Chunked(l)] : l \in lists, o \in options}

Lists == {<<Plain, Coded, Split>>, <<FarBoth, Noise, Tiny>>, <<Noise, Far2>>,
          <<Plain, Edge, OneBlk>>, <<Coded, Plain, FarBoth, Noise, Short>>, <<Split>>, <<Tiny>>,
          <<Plain, Edge, Split, Far2, Plain, Tiny>>}
\* The content checksum and the Merkle root are not asked for together here: see
\* the README on what the encoder then writes.
PassJobs ==
    JobsOf(Lists, Options({TRUE}, {FALSE, TRUE}, {FALSE, TRUE}, {TRUE}, {FALSE})
                    \union Options({TRUE, FALSE}, {FALSE}, {TRUE}, {FALSE}, {TRUE, FALSE}))

Default == Options({TRUE}, {FALSE}, {FALSE}, {TRUE}, {FALSE})
ClashJobs     == JobsOf({<<Plain, Clash, Short>>, <<Plain, Short>>}, Default)
NoDamage      == {[kind |-> "none"]}

Flaws == {"magic", "decoder"}
PassDamages ==
    {[kind |-> "none"], [kind |-> "pdm"]}
    \union {[kind |-> "hdr", flaw |-> x] : x \in {"magic", "version"}}
    \union {[kind |-> "int", c |-> c, flaw |-> x] : c \in {1, 3}, x \in Flaws}
    \union {[kind |-> "type", c |-> 2]}
    \union {[kind |-> "entry", i |-> 2, by |-> 1]}
    \union {[kind |-> "table", i |-> p[1], j |-> p[2], by |-> b] :
                p \in {<<1, 2>>, <<2, 3>>, <<3, 1>>}, b \in {1, 4}}
=============================================================================

--------------------------- MODULE MCEntropyScan ---------------------------
(***************************************************************************)
(* Instances of EntropyScan for TLC: frames of up to four chunks of at     *)
(* most two sub-chunks, two calls after one another on one context.        *)
(***************************************************************************)
EXTENDS EntropyScan

S(lit, tok, hi, lo) == [lz |-> TRUE, fits |-> TRUE, lit |-> lit, tok |-> tok, hi |-> hi, lo |-> lo]
Coded   == S("huff", "huff", "huff", "huff")
Mixed   == S("plain", "huff", "plain", "huff")
MixedLo == S("huff", "plain", "huff", "plain")
RawOff  == S("plain", "plain", "plain", "plain")
Flat    == S("plain", "plain", "none", "none")
Copied  == [Flat EXCEPT !.fits = FALSE]
NotLz   == [Flat EXCEPT !.lz = FALSE]

Lz(decomp, subs)  == [flag |-> "lz", decomp |-> decomp, subs |-> subs]
Raw     == [flag |-> "raw", decomp |-> 4, subs |-> <<>>]
Memset  == [flag |-> "memset", decomp |-> 4, subs |-> <<>>]
Empty   == [flag |-> "lz", decomp |-> 0, subs |-> <<>>]

Big     == <<Lz(4, <<Coded, Mixed>>), Raw, Lz(3, <<MixedLo, Flat>>)>>
Small   == <<Raw, Lz(2, <<MixedLo>>)>>
Plain   == <<Lz(4, <<Flat, Copied>>), Memset, Lz(4, <<Flat, Flat>>), Lz(1, <<Flat>>)>>
Broken  == <<Lz(4, <<Coded, NotLz>>), Lz(4, <<NotLz, Coded>>), Lz(2, <<RawOff>>)>>
WithEmpty == <<Lz(4, <<Mixed, Copied>>), Lz(4, <<Coded, MixedLo>>), Empty>>

C(chunks, cpg, d2d) == [chunks |-> chunks, cpg |-> cpg, d2d |-> d2d]
PassCalls ==
    {<<C(Big, 2, FALSE), C(Small, 1, TRUE)>>, <<C(Plain, 2, TRUE), C(Broken, 1, FALSE)>>,
     <<C(Broken, 2, TRUE), C(WithEmpty, 1, FALSE)>>, <<C(WithEmpty, 2, TRUE), C(Plain, 3, FALSE)>>}
=============================================================================

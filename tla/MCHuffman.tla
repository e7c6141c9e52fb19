----------------------------- MODULE MCHuffman -----------------------------
(***************************************************************************)
(* Six symbols, codes of at most four bits, two streams, bytes of two      *)
(* bits: a word holds two longest codes, as it does in the code.           *)
(*                                                                         *)
(* A body is used only when it is shorter than its source, which makes     *)
(* every slice seven symbols or longer, so seven is the size of a slice.   *)
(* One slice is every sequence of two or three symbols, the other decides  *)
(* the code lengths: a tree above the limit, a flat one, one symbol.       *)
(***************************************************************************)
EXTENDS Huffman

Varied == UNION {[1 .. 7 -> S] : S \in {{0, 5}, {4, 5}}}
Fixed  == {<<0, 1, 2, 3, 3, 4, 4>>, <<0, 1, 2, 3, 4, 5, 0, 1>>, <<5, 5, 5, 5, 5, 5, 5>>}
Mixed  == [1 .. 7 -> {0, 2, 5}]
AllSources == {v \o f : v \in Varied, f \in Fixed} \union {v \o <<0, 1, 2, 3, 3, 4, 4>> : v \in Mixed}
=============================================================================

----------------------------- MODULE MCLzTokens -----------------------------
(***************************************************************************)
(* Instances of LzTokens for TLC: one match with lengths and distances on  *)
(* both sides of every boundary of their encodings, and several matches of *)
(* a few shapes, in sub-chunks of one and of two blocks.                   *)
(***************************************************************************)
EXTENDS LzTokens

Job(parser, size, first, dict) == [parser |-> parser, size |-> size, first |-> first, dict |-> dict]
One(j) == j @@ [lits |-> {0, 1, 7, 8, 14, 15, 63, 64, 315, 316, 319},
                    lens |-> {3, 4, 5, 15, 16, 27, 28, 29, 90, 91, 280, 281, 342, 343},
                    dists |-> {9, 65535, 65536}, cmds |-> 1,
                    eqs |-> {{}, {3}, {1, 8}, {6, 7}, {1, 2, 10}, {1, 8, 10, 17}}]
Few(j, n) == j @@ [lits |-> {0, 2, 70}, lens |-> {3, 4, 14, 92}, dists |-> {9},
                          cmds |-> n, eqs |-> {{}}]
Tight(j) == j @@ [lits |-> {0, 1, 8}, lens |-> {2, 3, 4}, dists |-> {9}, cmds |-> 5, eqs |-> {{}}]
PassJobs  == {One(Job("greedy", 1200, TRUE, 0)), One(Job("greedy", 65536 + 1000, FALSE, 0)),
              One(Job("chain", 400, FALSE, 200)), One(Job("chain", 65536 + 360, TRUE, 0)),
              Tight(Job("greedy", 24, FALSE, 40)), Tight(Job("greedy", 31, FALSE, 0)),
              Few(Job("greedy", 65536 + 40, FALSE, 0), 3),
              Few(Job("chain", 300, FALSE, 60), 3)}

ChainJobs == {Tight(Job("chain", 23, FALSE, 0))}
=============================================================================

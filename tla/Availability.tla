---------------------------- MODULE Availability ----------------------------
(***************************************************************************)
(* What a one-shot loader promises its callers: whether the GPU side is     *)
(* available is decided once, no caller is answered before, and all of them *)
(* get the same answer.                                                     *)
(***************************************************************************)
Verdicts == {"available", "unavailable"}

VARIABLES verdict, \* "undecided" until the bring-up has settled
          told     \* the answers callers have had

Init == verdict = "undecided" /\ told = {}

Decide == /\ verdict = "undecided"
          /\ verdict' \in Verdicts
          /\ UNCHANGED told

Answer == /\ verdict \in Verdicts
          /\ told' = told \cup {verdict}
          /\ UNCHANGED verdict

Next == Decide \/ Answer
Spec == Init /\ [][Next]_<<verdict, told>>
=============================================================================

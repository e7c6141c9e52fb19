----------------------------- MODULE DecodeCalls -----------------------------
(***************************************************************************)
(* What the library promises a caller: calls made one after the other on    *)
(* one handle are answered in order, each with what comes of its own data.  *)
(* A call may be refused at any time before its answer.                     *)
(***************************************************************************)
EXTENDS Naturals, Sequences

CONSTANT Calls        \* the calls, numbered in the order they are made

VARIABLES answers,    \* the answers so far: the call and whose data its result is of
          refused     \* the calls that returned an error

vars == <<answers, refused>>

Answered == {answers[i].call : i \in DOMAIN answers}

Init == answers = <<>> /\ refused = {}

Answer(c) ==
    /\ c \notin Answered \cup refused
    /\ \A d \in Calls : d < c => d \in Answered \cup refused
    /\ answers' = Append(answers, [call |-> c, of |-> c])
    /\ UNCHANGED refused

Refuse(c) ==
    /\ c \notin Answered \cup refused
    /\ refused' = refused \cup {c}
    /\ UNCHANGED answers

Next == \E c \in Calls : Answer(c) \/ Refuse(c)
Spec == Init /\ [][Next]_vars
=============================================================================

----------------------------- MODULE WireFields -----------------------------
(***************************************************************************)
(* A byte buffer, seen as the fields that lie in it.                       *)
(*                                                                         *)
(* A field is <<kind, width, value>>.  A buffer is a function from the     *)
(* offset of a field's first byte to the field; a byte no field covers is  *)
(* unwritten.  A run of payload bytes whose content nothing inspects is    *)
(* one field.  Reading a field where none of that kind starts is reading   *)
(* other bytes, and writing a field destroys every field it overlaps.      *)
(***************************************************************************)
EXTENDS Naturals, Sequences, SequencesExt, TLC

F(kind, width, value) == <<kind, width, value>>
WidthOf(f) == f[2]
Empty      == [p \in {} |-> F("none", 0, 0)]
Junk(n)    == F("junk", n, 0)

Is(m, p, kind) == p \in DOMAIN m /\ m[p][1] = kind
Value(m, p)    == m[p][3]

\* The n bytes at p as one run; a run of no bytes is the same wherever it is.
Run(m, p, n) == IF n = 0 THEN F("none", 0, 0)
                ELSE IF p \in DOMAIN m /\ WidthOf(m[p]) = n THEN m[p] ELSE Junk(n)
Same(f)      == IF WidthOf(f) = 0 THEN F("none", 0, 0) ELSE f

\* What is left of m when the n bytes at a are overwritten.
Clear(m, a, n) ==
    [p \in {q \in DOMAIN m : q + WidthOf(m[q]) <= a \/ q >= a + n} |-> m[p]]
Put(m, a, f)   == IF WidthOf(f) = 0 THEN m ELSE (a :> f) @@ Clear(m, a, WidthOf(f))

\* fs one after the other from a on, and how many bytes that is.
TotalWidth(fs)   == FoldLeft(LAMBDA n, f : n + WidthOf(f), 0, fs)
Lay(m, a, fs)    == FoldLeft(LAMBDA acc, f : <<Put(acc[1], acc[2], f), acc[2] + WidthOf(f)>>,
                             <<m, a>>, fs)[1]

\* The n bytes of m at a, and the same bytes copied to d of another buffer.
Slice(m, a, n)   == [p \in {q - a : q \in {r \in DOMAIN m : r >= a /\ r + WidthOf(m[r]) <= a + n}}
                        |-> m[p + a]]
Paste(m, d, s, n) == [p \in {d + q : q \in DOMAIN s} |-> s[p - d]] @@ Clear(m, d, n)

\* The first n bytes of m are all written.
Filled(m, n) ==
    /\ \A p \in DOMAIN m : p + WidthOf(m[p]) <= n
    /\ FoldFunction(LAMBDA f, k : k + WidthOf(f), 0, m) = n
=============================================================================

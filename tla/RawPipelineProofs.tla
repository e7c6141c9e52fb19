-------------------------- MODULE RawPipelineProofs --------------------------
(***************************************************************************)
(* For any number of copier warps, any warp size and any streams an        *)
(* encoder writes, the pipelined kernel implements the serial decode:      *)
(*                                                                         *)
(*   IInv      between two block barriers every warp is bound for the same *)
(*             barrier site (Lockstep), because the flag or broadcast that *)
(*             decides it is not written while another may still read it;  *)
(*   RInv      the registers of every warp are those of the serial decode  *)
(*             at the token its label says;                                *)
(*   SlotInv   a slot that claims a batch holds what fillBatch makes of the*)
(*             serial state at its first token;                            *)
(*   Progress  the slots hold the committed token and what follows it;     *)
(*   OutputInv the written bytes are those of the serial output, and what  *)
(*             is not yet written is still to be written by someone.       *)
(*                                                                         *)
(* First come the operators of RawTokens, for every legal stream: what the *)
(* recursive definitions compute, that the warp-parallel parse of a window *)
(* gives the registers of the serial decoder, and where each byte goes.    *)
(*                                                                         *)
(* Race freedom follows from the first three: the bytes of a batch belong  *)
(* to one lane each, and a flat copy reads below the batch.                *)
(***************************************************************************)
EXTENDS RawPipeline, FiniteSetTheorems, TLAPS

-----------------------------------------------------------------------------
(* Induction over the naturals, as facts about sets: to show P(n) of every *)
(* n, apply SetInduction to {n \in Nat : P(n)}.                            *)

\* A non-empty set of naturals has a smallest element: the intervals 0 .. x are
\* finite, and strict inclusion of finite sets is well founded.
LEMMA Smallest ==
    ASSUME NEW T, T \subseteq Nat, T # {}
    PROVE  \E x \in T : \A y \in T : x <= y
<1> DEFINE Below == {0 .. x : x \in T}
<1>1. Below \subseteq FiniteSubsetsOf(Nat)
    <2>1. \A x \in T : 0 .. x \in SUBSET Nat /\ IsFiniteSet(0 .. x)
        BY FS_Interval
    <2> QED BY <2>1 DEF FiniteSubsetsOf
<1>2. IsWellFoundedOn(StrictSubsetOrdering(Nat), FiniteSubsetsOf(Nat))
    BY FS_StrictSubsetOrderingWellFounded
<1>3. PICK S \in Below : \A R \in Below : ~(<<R, S>> \in StrictSubsetOrdering(Nat))
    <2>1. Below # {}
        OBVIOUS
    <2> HIDE DEF Below
    <2> QED BY <1>1, <1>2, <2>1, WFMin
<1>4. PICK x \in T : S = 0 .. x
    OBVIOUS
<1>5. ASSUME NEW y \in T, y < x PROVE FALSE
    <2>1. 0 .. y \in SUBSET Nat /\ 0 .. x \in SUBSET Nat
        OBVIOUS
    <2>2. 0 .. y \subseteq 0 .. x /\ 0 .. y # 0 .. x
        BY <1>5
    <2>3. <<0 .. y, 0 .. x>> \in StrictSubsetOrdering(Nat)
        BY <2>1, <2>2 DEF StrictSubsetOrdering
    <2> QED BY <1>3, <1>4, <1>5, <2>3
<1> QED BY <1>4, <1>5

\* A set with 0 and the successors of its elements holds every natural.
LEMMA SetInduction ==
    ASSUME NEW S, 0 \in S, \A n \in Nat : n \in S => n + 1 \in S
    PROVE  \A n \in Nat : n \in S
<1> SUFFICES ASSUME NEW m \in Nat, m \notin S PROVE FALSE
    OBVIOUS
<1> DEFINE T == Nat \ S
<1>1. PICK x \in T : \A y \in T : x <= y
    BY Smallest
<1>2. x # 0 /\ x - 1 \in Nat /\ x - 1 \notin T
    BY <1>1
<1> QED BY <1>1, <1>2

\* A non-empty bounded set of naturals has a largest element.
LEMMA Largest ==
    ASSUME NEW T, T \subseteq Nat, T # {}, NEW b \in Nat, \A y \in T : y <= b
    PROVE  \E x \in T : \A y \in T : y <= x
<1> DEFINE Slack == {d \in Nat : b - d \in T}
<1>1. \A y \in T : y \in Nat /\ b - y \in Nat /\ b - (b - y) = y
    OBVIOUS
<1>2. \A y \in T : b - y \in Slack
    BY <1>1
<1>3. PICK s \in Slack : \A r \in Slack : s <= r
    BY <1>2, Smallest
<1>4. ASSUME NEW y \in T PROVE y <= b - s
    <2>1. b - y \in Slack /\ s \in Nat /\ y \in Nat
        BY <1>1, <1>2
    <2>2. s <= b - y
        BY <1>3, <2>1
    <2> QED BY <2>1, <2>2
<1>5. b - s \in T
    OBVIOUS
<1> QED BY <1>4, <1>5

-----------------------------------------------------------------------------
(* Prefix sums *)

SumEquation(s, f, n) == s = [k \in 0 .. n |-> IF k = 0 THEN 0 ELSE s[k - 1] + f[k - 1]]

\* The recursion of SumBelow has a solution.
LEMMA SumExists ==
    ASSUME NEW n \in Nat, NEW f
    PROVE  \E s : SumEquation(s, f, n)
<1> DEFINE Solved == {m \in Nat : \E s : SumEquation(s, f, m)}
<1>1. 0 \in Solved
    <2> DEFINE s0 == [k \in 0 .. 0 |-> 0]
    <2>1. SumEquation(s0, f, 0)
        BY DEF SumEquation
    <2> QED BY <2>1
<1>2. ASSUME NEW m \in Nat, m \in Solved PROVE m + 1 \in Solved
    <2> PICK s : SumEquation(s, f, m)
        BY <1>2
    <2> DEFINE t == [k \in 0 .. m + 1 |-> IF k = m + 1 THEN s[m] + f[m] ELSE s[k]]
    <2>1. \A k \in 0 .. m : t[k] = s[k]
        OBVIOUS
    <2>2. \A k \in 0 .. m : s[k] = IF k = 0 THEN 0 ELSE s[k - 1] + f[k - 1]
        BY DEF SumEquation
    <2>3. \A k \in 0 .. m + 1 : t[k] = IF k = 0 THEN 0 ELSE t[k - 1] + f[k - 1]
        <3> SUFFICES ASSUME NEW k \in 0 .. m + 1
                     PROVE  t[k] = IF k = 0 THEN 0 ELSE t[k - 1] + f[k - 1]
            OBVIOUS
        <3>1. CASE k = m + 1
            <4>1. t[k] = s[m] + f[m] /\ t[m] = s[m] /\ k - 1 = m /\ k # 0
                BY <3>1
            <4> QED BY <4>1
        <3>2. CASE k = 0
            BY <2>1, <2>2, <3>2
        <3>3. CASE k \in 1 .. m
            <4>1. k - 1 \in 0 .. m /\ k \in 0 .. m /\ k # 0
                BY <3>3
            <4> HIDE DEF t
            <4> QED BY <2>1, <2>2, <4>1
        <3> QED BY <3>1, <3>2, <3>3
    <2>4. SumEquation(t, f, m + 1)
        BY <2>3 DEF SumEquation
    <2> QED BY <2>4
<1> HIDE DEF Solved
<1>3. n \in Solved
    BY <1>1, <1>2, SetInduction
<1> QED BY <1>3 DEF Solved

\* Each prefix sum is the one before it and one term more.
LEMMA SumUnfolds ==
    ASSUME NEW n \in Nat, NEW f
    PROVE  /\ SumBelow(f, n)[0] = 0
           /\ \A k \in 0 .. n - 1 : SumBelow(f, n)[k + 1] = SumBelow(f, n)[k] + f[k]
<1>1. SumEquation(SumBelow(f, n), f, n)
    BY SumExists DEF SumBelow, SumEquation
<1> DEFINE s == SumBelow(f, n)
<1> HIDE DEF s
<1>2. s[0] = 0
    BY <1>1 DEF SumEquation, s
<1>3. ASSUME NEW k \in 0 .. n - 1 PROVE s[k + 1] = s[k] + f[k]
    <2>1. k + 1 \in 0 .. n /\ k + 1 # 0 /\ (k + 1) - 1 = k
        OBVIOUS
    <2>2. s[k + 1] = s[(k + 1) - 1] + f[(k + 1) - 1]
        BY <1>1, <2>1 DEF SumEquation, s
    <2> QED BY <2>1, <2>2
<1> QED BY <1>2, <1>3 DEF s

\* Prefix sums of naturals are naturals and grow, by at least the term between.
LEMMA SumGrows ==
    ASSUME NEW n \in Nat, NEW f, \A k \in 0 .. n - 1 : f[k] \in Nat
    PROVE  /\ \A k \in 0 .. n : SumBelow(f, n)[k] \in Nat
           /\ \A j \in 0 .. n - 1, k \in 0 .. n :
                  j < k => SumBelow(f, n)[j] + f[j] <= SumBelow(f, n)[k]
<1> DEFINE s == SumBelow(f, n)
           Grown == {k \in Nat : k <= n =>
                        /\ s[k] \in Nat
                        /\ \A j \in 0 .. n - 1 : j < k => s[j] \in Nat /\ s[j] + f[j] <= s[k]}
<1>1. s[0] = 0 /\ \A k \in 0 .. n - 1 : s[k + 1] = s[k] + f[k]
    BY SumUnfolds
<1> HIDE DEF s
<1>2. 0 \in Grown
    BY <1>1
<1>3. ASSUME NEW k \in Nat, k \in Grown PROVE k + 1 \in Grown
    <2> SUFFICES ASSUME k + 1 <= n
                 PROVE  /\ s[k + 1] \in Nat
                        /\ \A j \in 0 .. n - 1 : j < k + 1 => s[j] \in Nat /\ s[j] + f[j] <= s[k + 1]
        OBVIOUS
    <2>1. k \in 0 .. n - 1 /\ s[k] \in Nat /\ f[k] \in Nat /\ s[k + 1] = s[k] + f[k]
        BY <1>1, <1>3
    <2>2. ASSUME NEW j \in 0 .. n - 1, j < k + 1 PROVE s[j] \in Nat /\ s[j] + f[j] <= s[k + 1]
        <3>1. CASE j = k
            BY <2>1, <3>1
        <3>2. CASE j < k
            <4>1. s[j] \in Nat /\ s[j] + f[j] <= s[k] /\ f[j] \in Nat
                BY <1>3, <2>1, <3>2
            <4> QED BY <2>1, <4>1
        <3> QED BY <2>2, <3>1, <3>2
    <2> QED BY <2>1, <2>2
<1> HIDE DEF Grown
<1>4. \A k \in Nat : k \in Grown
    BY <1>2, <1>3, SetInduction
<1> QED BY <1>4 DEF Grown, s

\* A number below the last prefix sum lies in the interval of exactly one term,
\* the last whose prefix sum does not exceed it.
LEMMA SumLocates ==
    ASSUME NEW n \in Nat, NEW f, \A k \in 0 .. n - 1 : f[k] \in Nat,
           NEW i \in Nat, i < SumBelow(f, n)[n]
    PROVE  \E k \in 0 .. n - 1 : /\ SumBelow(f, n)[k] <= i
                                 /\ i < SumBelow(f, n)[k] + f[k]
                                 /\ \A j \in k + 1 .. n - 1 : SumBelow(f, n)[j] > i
<1> DEFINE s == SumBelow(f, n)
           Reached == {k \in Nat : k <= n /\ s[k] <= i}
<1>1. /\ s[0] = 0 /\ \A k \in 0 .. n - 1 : s[k + 1] = s[k] + f[k]
      /\ \A k \in 0 .. n : s[k] \in Nat
      /\ i < s[n]
    BY SumUnfolds, SumGrows
<1> HIDE DEF s
<1>2. PICK k \in Reached : \A j \in Reached : j <= k
    <2>1. 0 \in Reached
        BY <1>1
    <2> HIDE DEF Reached
    <2>2. \A j \in Reached : j \in Nat /\ j <= n
        BY DEF Reached
    <2> QED BY <2>1, <2>2, Largest
<1>3. k \in 0 .. n - 1 /\ s[k] <= i
    BY <1>1, <1>2
<1>4. ASSUME NEW j \in 0 .. n, j > k PROVE s[j] > i
    BY <1>1, <1>2, <1>4
<1>5. s[k + 1] > i
    BY <1>3, <1>4
<1>6. i < s[k] + f[k]
    BY <1>1, <1>3, <1>5
<1>7. \A j \in k + 1 .. n - 1 : s[j] > i
    BY <1>3, <1>4
<1> QED BY <1>3, <1>6, <1>7 DEF s

-----------------------------------------------------------------------------
(* The serial decode *)

FirstState == [pos |-> InitialPos, out |-> [a \in 1 .. InitialCopy |-> InitByte(a - 1)]]
ReferenceEquation(ref, st, n) ==
    ref = [k \in 0 .. n |-> IF k = 0 THEN FirstState ELSE Step(st, ref[k - 1])]

\* The recursion of Reference has a solution.
LEMMA ReferenceExists ==
    ASSUME NEW n \in Nat, NEW st
    PROVE  \E ref : ReferenceEquation(ref, st, n)
<1> DEFINE Solved == {m \in Nat : \E ref : ReferenceEquation(ref, st, m)}
<1>1. 0 \in Solved
    <2> DEFINE r0 == [k \in 0 .. 0 |-> FirstState]
    <2>1. ReferenceEquation(r0, st, 0)
        BY DEF ReferenceEquation
    <2> QED BY <2>1
<1>2. ASSUME NEW m \in Nat, m \in Solved PROVE m + 1 \in Solved
    <2> PICK r : ReferenceEquation(r, st, m)
        BY <1>2
    <2> DEFINE t == [k \in 0 .. m + 1 |-> IF k = m + 1 THEN Step(st, r[m]) ELSE r[k]]
    <2>1. \A k \in 0 .. m : t[k] = r[k]
        OBVIOUS
    <2>2. \A k \in 0 .. m : r[k] = IF k = 0 THEN FirstState ELSE Step(st, r[k - 1])
        BY DEF ReferenceEquation
    <2>3. \A k \in 0 .. m + 1 : t[k] = IF k = 0 THEN FirstState ELSE Step(st, t[k - 1])
        <3> SUFFICES ASSUME NEW k \in 0 .. m + 1
                     PROVE  t[k] = IF k = 0 THEN FirstState ELSE Step(st, t[k - 1])
            OBVIOUS
        <3>1. CASE k = m + 1
            <4>1. t[k] = Step(st, r[m]) /\ t[m] = r[m] /\ k - 1 = m /\ k # 0
                BY <3>1
            <4> QED BY <4>1
        <3>2. CASE k = 0
            BY <2>1, <2>2, <3>2
        <3>3. CASE k \in 1 .. m
            <4>1. k - 1 \in 0 .. m /\ k \in 0 .. m /\ k # 0
                BY <3>3
            <4> HIDE DEF t
            <4> QED BY <2>1, <2>2, <4>1
        <3> QED BY <3>1, <3>2, <3>3
    <2>4. ReferenceEquation(t, st, m + 1)
        BY <2>3 DEF ReferenceEquation
    <2> QED BY <2>4
<1> HIDE DEF Solved
<1>3. n \in Solved
    BY <1>1, <1>2, SetInduction
<1> QED BY <1>3 DEF Solved

\* The state after a token is one step from the state before it.
LEMMA ReferenceUnfolds ==
    ASSUME NEW st, Len(st.cmd) \in Nat
    PROVE  /\ Reference(st)[0] = FirstState
           /\ \A n \in 0 .. Len(st.cmd) - 1 : Reference(st)[n + 1] = Step(st, Reference(st)[n])
<1>1. ReferenceEquation(Reference(st), st, Len(st.cmd))
    <2>1. \E ref : ReferenceEquation(ref, st, Len(st.cmd))
        BY ReferenceExists
    <2>2. Reference(st) = CHOOSE ref : ReferenceEquation(ref, st, Len(st.cmd))
        BY DEF Reference, ReferenceEquation, FirstState
    <2> QED BY <2>1, <2>2
<1> DEFINE r == Reference(st)
<1> HIDE DEF r
<1>2. r[0] = FirstState
    BY <1>1 DEF ReferenceEquation, r
<1>3. ASSUME NEW n \in 0 .. Len(st.cmd) - 1 PROVE r[n + 1] = Step(st, r[n])
    <2>1. n + 1 \in 0 .. Len(st.cmd) /\ n + 1 # 0 /\ (n + 1) - 1 = n
        OBVIOUS
    <2>2. r[n + 1] = Step(st, r[(n + 1) - 1])
        BY <1>1, <2>1 DEF ReferenceEquation, r
    <2> QED BY <2>1, <2>2
<1> QED BY <1>2, <1>3 DEF r

PosType == [cmd_pos : Nat, lit_pos : Nat, off16_pos : Nat, dst_pos : Nat,
            recent_offset : Int, length_offset : Nat]

\* What a legal token is parsed into.
LEMMA ParsedFacts ==
    ASSUME NEW st, WellFormed(st), NEW here \in PosType, here.cmd_pos < Len(st.cmd),
           TokenIsLegal(st, here)
    PROVE  LET p == Parsed(st, here)
               token == st.cmd[here.cmd_pos + 1]
           IN /\ p.lit \in Nat /\ p.match \in Nat /\ p.offset \in Int /\ p.recent \in BOOLEAN
              /\ p.off16_pos \in Nat /\ p.length_offset \in Nat
              /\ ~IsLong(token) =>
                    /\ token \in ShortTokens
                    /\ p.lit = token.lit /\ p.match = token.match /\ p.recent = token.recent
                    /\ p.length_offset = here.length_offset
                    /\ p.off16_pos = here.off16_pos + (IF token.recent THEN 0 ELSE 1)
                    /\ p.offset = IF token.recent THEN here.recent_offset
                                  ELSE -st.off16[here.off16_pos + 1]
              /\ IsLong(token) =>
                    /\ p.lit > 0 \/ p.match > 0
                    /\ p.lit > 0 => p.match = 0
<1> DEFINE token == st.cmd[here.cmd_pos + 1]
<1>1. token \in ShortTokens \/ token = LONG_LITERAL \/ token = LONG_NEAR
    BY DEF WellFormed, PosType
<1>2. /\ token \in ShortTokens => /\ ~IsLong(token) /\ token.lit \in Nat /\ token.match \in Nat
                                  /\ token.recent \in BOOLEAN
      /\ IsLong(LONG_LITERAL) /\ IsLong(LONG_NEAR) /\ LONG_LITERAL # LONG_NEAR
    BY DEF ShortTokens, IsLong, LONG_LITERAL, LONG_NEAR
<1>3. TakesOffset(token) => /\ here.off16_pos < Len(st.off16)
                            /\ st.off16[here.off16_pos + 1] \in Nat
    <2>1. st.off16 \in Seq(Nat) /\ here.off16_pos \in Nat
        BY DEF WellFormed, PosType
    <2>2. TakesOffset(token) => here.off16_pos < Len(st.off16)
        BY DEF TokenIsLegal
    <2> HIDE DEF token
    <2> QED BY <2>1, <2>2
<1>4. IsLong(token) => st.lens[here.length_offset + 1] \in Nat \ {0}
    BY DEF WellFormed, TokenIsLegal, PosType
<1>t. /\ here.off16_pos \in Nat /\ here.length_offset \in Nat /\ here.recent_offset \in Int
    BY DEF PosType
<1> DEFINE p == Parsed(st, here)
<1>5. CASE token \in ShortTokens
    <2>1. ~IsLong(token) /\ (TakesOffset(token) <=> ~token.recent)
        BY <1>2, <1>5 DEF TakesOffset
    <2>2. p.lit = token.lit /\ p.match = token.match /\ p.recent = token.recent
        BY <2>1 DEF Parsed
    <2>3. p.length_offset = here.length_offset
        BY <2>1, <1>t DEF Parsed
    <2>4. CASE token.recent
        <3>1. p.off16_pos = here.off16_pos /\ p.offset = here.recent_offset
            BY <2>1, <2>4, <1>t DEF Parsed
        <3> QED BY <1>2, <1>5, <1>t, <2>1, <2>2, <2>3, <2>4, <3>1
    <2>5. CASE ~token.recent
        <3>1. p.off16_pos = here.off16_pos + 1 /\ p.offset = -st.off16[here.off16_pos + 1]
            BY <1>3, <2>1, <2>5, <1>t DEF Parsed
        <3>2. -st.off16[here.off16_pos + 1] \in Int
            BY <1>3, <2>1, <2>5
        <3> HIDE DEF p, token
        <3> QED BY <1>2, <1>5, <1>t, <2>1, <2>2, <2>3, <2>5, <3>1, <3>2 DEF p, token
    <2> QED BY <1>2, <1>5, <2>4, <2>5
<1>6. CASE token = LONG_LITERAL
    <2>1. IsLong(token) /\ token # LONG_NEAR /\ ~TakesOffset(token)
        BY <1>2, <1>6 DEF TakesOffset
    <2>2. /\ p.lit = st.lens[here.length_offset + 1] /\ p.match = 0
          /\ p.offset = here.recent_offset
          /\ p.off16_pos = here.off16_pos /\ p.length_offset = here.length_offset + 1
        BY <1>6, <2>1, <1>t DEF Parsed
    <2>3. p.recent \in BOOLEAN
        BY <1>6, <2>1 DEF Parsed
    <2> HIDE DEF p, token
    <2>4. p.lit \in Nat /\ p.lit > 0 /\ p.off16_pos \in Nat /\ p.length_offset \in Nat
        BY <1>4, <1>t, <2>1, <2>2 DEF token
    <2> QED BY <1>t, <2>1, <2>2, <2>3, <2>4 DEF p, token
<1>7. CASE token = LONG_NEAR
    <2>1. IsLong(token) /\ token # LONG_LITERAL /\ TakesOffset(token)
        BY <1>2, <1>7 DEF TakesOffset
    <2>2. /\ p.lit = 0 /\ p.match = st.lens[here.length_offset + 1]
          /\ p.offset = -st.off16[here.off16_pos + 1]
          /\ p.off16_pos = here.off16_pos + 1 /\ p.length_offset = here.length_offset + 1
        BY <1>3, <1>7, <2>1, <1>t DEF Parsed
    <2>3. p.recent \in BOOLEAN
        BY <1>7, <2>1 DEF Parsed
    <2> HIDE DEF p, token
    <2>4. p.match \in Nat /\ p.match > 0 /\ p.length_offset \in Nat
        BY <1>4, <1>t, <2>1, <2>2 DEF token
    <2>5. p.off16_pos \in Nat /\ p.offset \in Int
        BY <1>3, <1>t, <2>1, <2>2 DEF token
    <2> QED BY <1>t, <2>1, <2>2, <2>3, <2>4, <2>5 DEF p, token
<1> QED BY <1>1, <1>5, <1>6, <1>7

\* A step of the registers keeps their types.
LEMMA RegistersTyped ==
    ASSUME NEW n \in Nat, NEW at \in PosType, NEW p, p.lit \in Nat, p.match \in Nat, p.offset \in Int,
           p.recent \in BOOLEAN, p.off16_pos \in Nat, p.length_offset \in Nat
    PROVE  LET next == [cmd_pos |-> n + 1, lit_pos |-> at.lit_pos + p.lit,
                        off16_pos |-> p.off16_pos, dst_pos |-> at.dst_pos + p.lit + p.match,
                        recent_offset |-> IF p.recent THEN at.recent_offset ELSE p.offset,
                        length_offset |-> p.length_offset]
           IN next \in PosType /\ next.cmd_pos = n + 1
<1>1. at.recent_offset \in Int /\ at.lit_pos \in Nat /\ at.dst_pos \in Nat
    BY DEF PosType
<1>2. (IF p.recent THEN at.recent_offset ELSE p.offset) \in Int
    BY <1>1
<1>3. n + 1 \in Nat /\ at.lit_pos + p.lit \in Nat /\ at.dst_pos + p.lit + p.match \in Nat
    BY <1>1
<1> QED BY <1>2, <1>3 DEF PosType

\* The registers of the serial decoder, token by token.
LEMMA SerialRegisters ==
    ASSUME NEW st \in Streams
    PROVE  /\ \A n \in 0 .. Len(st.cmd) :
                 Reference(st)[n].pos \in PosType /\ Reference(st)[n].pos.cmd_pos = n
           /\ \A n \in 0 .. Len(st.cmd) - 1 :
                 LET at == Reference(st)[n].pos
                     p == Parsed(st, at)
                 IN /\ TokenIsLegal(st, at)
                    /\ Reference(st)[n + 1].pos =
                         [cmd_pos |-> n + 1, lit_pos |-> at.lit_pos + p.lit,
                          off16_pos |-> p.off16_pos, dst_pos |-> at.dst_pos + p.lit + p.match,
                          recent_offset |-> IF p.recent THEN at.recent_offset ELSE p.offset,
                          length_offset |-> p.length_offset]
<1> DEFINE r == Reference(st)
           Typed == {n \in Nat : n <= Len(st.cmd) => r[n].pos \in PosType /\ r[n].pos.cmd_pos = n}
<1>1. WellFormed(st) /\ Legal(st, r)
    BY StreamsAssumption
<1>2. Len(st.cmd) \in Nat
    BY <1>1 DEF WellFormed
<1>3. r[0] = FirstState /\ \A n \in 0 .. Len(st.cmd) - 1 : r[n + 1] = Step(st, r[n])
    BY <1>2, ReferenceUnfolds
<1>4. \A n \in 0 .. Len(st.cmd) - 1 : TokenIsLegal(st, r[n].pos)
    BY <1>1 DEF Legal
<1> HIDE DEF r
<1>5. ASSUME NEW n \in 0 .. Len(st.cmd) - 1, r[n].pos.cmd_pos = n
      PROVE  LET p == Parsed(st, r[n].pos)
             IN r[n + 1].pos =
                  [cmd_pos |-> n + 1, lit_pos |-> r[n].pos.lit_pos + p.lit,
                   off16_pos |-> p.off16_pos, dst_pos |-> r[n].pos.dst_pos + p.lit + p.match,
                   recent_offset |-> IF p.recent THEN r[n].pos.recent_offset ELSE p.offset,
                   length_offset |-> p.length_offset]
    <2>1. r[n + 1] = Step(st, r[n])
        BY <1>3
    <2>2. Step(st, r[n]).pos =
            [cmd_pos |-> r[n].pos.cmd_pos + 1, lit_pos |-> r[n].pos.lit_pos + Parsed(st, r[n].pos).lit,
             off16_pos |-> Parsed(st, r[n].pos).off16_pos,
             dst_pos |-> r[n].pos.dst_pos + Parsed(st, r[n].pos).lit + Parsed(st, r[n].pos).match,
             recent_offset |-> IF Parsed(st, r[n].pos).recent THEN r[n].pos.recent_offset
                               ELSE Parsed(st, r[n].pos).offset,
             length_offset |-> Parsed(st, r[n].pos).length_offset]
        BY DEF Step
    <2> QED BY <1>5, <2>1, <2>2
<1>6. 0 \in Typed
    BY <1>3, SizeAssumption DEF FirstState, InitialPos, PosType
<1>7. ASSUME NEW n \in Nat, n \in Typed PROVE n + 1 \in Typed
    <2> SUFFICES ASSUME n + 1 <= Len(st.cmd)
                 PROVE  r[n + 1].pos \in PosType /\ r[n + 1].pos.cmd_pos = n + 1
        OBVIOUS
    <2>1. n \in 0 .. Len(st.cmd) - 1 /\ r[n].pos \in PosType /\ r[n].pos.cmd_pos = n
        BY <1>2, <1>7
    <2> HIDE DEF Typed
    <2> DEFINE p == Parsed(st, r[n].pos)
    <2>2. /\ p.lit \in Nat /\ p.match \in Nat /\ p.offset \in Int /\ p.recent \in BOOLEAN
          /\ p.off16_pos \in Nat /\ p.length_offset \in Nat
        BY <1>1, <1>2, <1>4, <2>1, ParsedFacts
    <2> HIDE DEF p
    <2>3. r[n + 1].pos = [cmd_pos |-> n + 1, lit_pos |-> r[n].pos.lit_pos + p.lit,
                   off16_pos |-> p.off16_pos, dst_pos |-> r[n].pos.dst_pos + p.lit + p.match,
                   recent_offset |-> IF p.recent THEN r[n].pos.recent_offset ELSE p.offset,
                   length_offset |-> p.length_offset]
        BY <1>5, <2>1 DEF p
    <2> QED BY <2>1, <2>2, <2>3, RegistersTyped
<1> HIDE DEF Typed
<1>8. \A n \in Nat : n \in Typed
    BY <1>6, <1>7, SetInduction
<1>9. \A n \in 0 .. Len(st.cmd) : r[n].pos \in PosType /\ r[n].pos.cmd_pos = n
    BY <1>2, <1>8 DEF Typed
<1>10. ASSUME NEW n \in 0 .. Len(st.cmd) - 1
       PROVE  LET p == Parsed(st, r[n].pos)
              IN /\ TokenIsLegal(st, r[n].pos)
                 /\ r[n + 1].pos =
                      [cmd_pos |-> n + 1, lit_pos |-> r[n].pos.lit_pos + p.lit,
                       off16_pos |-> p.off16_pos, dst_pos |-> r[n].pos.dst_pos + p.lit + p.match,
                       recent_offset |-> IF p.recent THEN r[n].pos.recent_offset ELSE p.offset,
                       length_offset |-> p.length_offset]
    <2>1. n \in 0 .. Len(st.cmd)
        BY <1>2
    <2>2. r[n].pos.cmd_pos = n
        BY <1>9, <2>1
    <2> QED BY <1>4, <1>5, <2>2
<1> QED BY <1>9, <1>10 DEF r

-----------------------------------------------------------------------------
(* A window *)

\* A window ends at the first long token, at the last lane or with the tokens.
LEMMA BatchFacts ==
    ASSUME NEW st, Len(st.cmd) \in Nat, NEW here, here.cmd_pos \in 0 .. Len(st.cmd)
    PROVE  LET n == BatchSize(st, here)
           IN /\ n \in Nat /\ n <= WARP_SIZE /\ here.cmd_pos + n <= Len(st.cmd)
              /\ \A k \in 0 .. n - 1 : ~IsLong(st.cmd[here.cmd_pos + k + 1])
              /\ n = 0 /\ here.cmd_pos < Len(st.cmd) => IsLong(st.cmd[here.cmd_pos + 1])
<1> DEFINE remaining == Len(st.cmd) - here.cmd_pos
           limit == IF remaining < WARP_SIZE THEN remaining ELSE WARP_SIZE
           Long(k) == IsLong(st.cmd[here.cmd_pos + k + 1])
           Ends == {k \in Nat : k <= limit /\ (k = limit \/ Long(k))}
           Fits(k) == (\A j \in 0 .. k - 1 : ~Long(j)) /\ (k = limit \/ Long(k))
<1>1. /\ limit \in Nat /\ here.cmd_pos + limit <= Len(st.cmd) /\ limit <= WARP_SIZE
      /\ limit = 0 => here.cmd_pos = Len(st.cmd)
    BY WarpAssumption
<1>2. BatchSize(st, here) = CHOOSE k \in 0 .. limit : Fits(k)
    BY DEF BatchSize
<1> HIDE DEF limit, Long
<1>3. PICK e \in Ends : \A k \in Ends : e <= k
    <2>1. limit \in Ends
        BY <1>1
    <2> QED BY <2>1, Smallest
<1>4. e \in 0 .. limit /\ Fits(e)
    BY <1>1, <1>3
<1> DEFINE n == BatchSize(st, here)
<1>5. n \in 0 .. limit /\ Fits(n)
    BY <1>2, <1>4
<1> HIDE DEF n
<1>6. n \in Nat /\ n <= WARP_SIZE /\ here.cmd_pos + n <= Len(st.cmd)
    BY <1>1, <1>5, WarpAssumption
<1>7. \A k \in 0 .. n - 1 : ~IsLong(st.cmd[here.cmd_pos + k + 1])
    BY <1>5 DEF Long
<1>8. n = 0 /\ here.cmd_pos < Len(st.cmd) => Long(0)
    BY <1>1, <1>5
<1>9. Long(0) => IsLong(st.cmd[here.cmd_pos + 1])
    BY DEF Long
<1> QED BY <1>6, <1>7, <1>8, <1>9 DEF n

LanesOf(st, here) == 0 .. BatchSize(st, here) - 1
TokenAt(st, here, k) == st.cmd[here.cmd_pos + k + 1]
FreshLanes(st, here) == {k \in LanesOf(st, here) : ~TokenAt(st, here, k).recent}
Off16Local(st, here) ==
    SumBelow([k \in LanesOf(st, here) |-> IF k \in FreshLanes(st, here) THEN 1 ELSE 0],
             BatchSize(st, here))
OwnOffset(st, here) ==
    [k \in LanesOf(st, here) |->
        LET entry == here.off16_pos + Off16Local(st, here)[k]
        IN IF k \in FreshLanes(st, here) /\ entry < Len(st.off16)
           THEN -st.off16[entry + 1] ELSE here.recent_offset]
\* The registers of the parser's lanes: the tokens, prefix sums over them, and of
\* each lane the offset of the last fresh lane up to it.
LEMMA WindowFields ==
    ASSUME NEW st, NEW here, BatchSize(st, here) \in Nat
    PROVE  LET w == Window(st, here)
               n == BatchSize(st, here)
           IN /\ w.n = n /\ w.fresh = FreshLanes(st, here)
              /\ w.off16_used = Off16Local(st, here)[n]
              /\ DOMAIN w.src = 0 .. n - 1
              /\ w.lit_local[0] = 0 /\ w.dst_local[0] = 0
              /\ \A k \in 0 .. n - 1 :
                    /\ w.lit[k] = TokenAt(st, here, k).lit
                    /\ w.match[k] = TokenAt(st, here, k).match
                    /\ w.lit_local[k + 1] = w.lit_local[k] + w.lit[k]
                    /\ w.dst_local[k + 1] = w.dst_local[k] + (w.lit[k] + w.match[k])
                    /\ w.copy_dst[k] = here.dst_pos + w.dst_local[k] + w.lit[k]
                    /\ w.src[k] = w.copy_dst[k] + w.offset[k]
                    /\ w.offset[k] = Inherited(OwnOffset(st, here), FreshLanes(st, here))[k]
<1> DEFINE w == Window(st, here)
           n == BatchSize(st, here)
           lit == [k \in 0 .. n - 1 |-> TokenAt(st, here, k).lit]
           both == [k \in 0 .. n - 1 |-> lit[k] + TokenAt(st, here, k).match]
<1>1. w.n = n
    BY DEF Window
<1>2. w.fresh = FreshLanes(st, here)
    BY DEF Window, FreshLanes, LanesOf, TokenAt
<1>3. w.off16_used = Off16Local(st, here)[n]
    BY DEF Window, Off16Local, FreshLanes, LanesOf, TokenAt
<1>4. w.lit = lit /\ w.match = [k \in 0 .. n - 1 |-> TokenAt(st, here, k).match]
    BY DEF Window, TokenAt
<1>5. w.lit_local = SumBelow(lit, n)
    BY DEF Window, TokenAt
<1>6. w.dst_local = SumBelow(both, n)
    BY SMTT(40) DEF Window, TokenAt
<1>7. w.copy_dst = [k \in 0 .. n - 1 |-> here.dst_pos + w.dst_local[k] + lit[k]]
    BY SMTT(40) DEF Window, TokenAt
<1>8. w.src = [k \in 0 .. n - 1 |-> w.copy_dst[k] + w.offset[k]]
    BY ZenonT(60) DEF Window, TokenAt
<1>9. w.offset = Inherited(OwnOffset(st, here), FreshLanes(st, here))
    BY DEF Window, OwnOffset, Off16Local, FreshLanes, LanesOf, TokenAt
<1> HIDE DEF w, n, lit, both
<1>10. w.lit_local[0] = 0 /\ \A k \in 0 .. n - 1 : w.lit_local[k + 1] = w.lit_local[k] + lit[k]
    BY <1>5, SumUnfolds DEF n
<1>11. w.dst_local[0] = 0 /\ \A k \in 0 .. n - 1 : w.dst_local[k + 1] = w.dst_local[k] + both[k]
    BY <1>6, SumUnfolds DEF n
<1>12. \A k \in 0 .. n - 1 : both[k] = w.lit[k] + w.match[k]
    BY <1>4 DEF both
<1> QED BY <1>1, <1>2, <1>3, <1>4, <1>7, <1>8, <1>9, <1>10, <1>11, <1>12 DEF w, n, lit

\* One short token of the serial decoder.
LEMMA ShortStep ==
    ASSUME NEW st \in Streams, NEW n \in 0 .. Len(st.cmd) - 1, ~IsLong(st.cmd[n + 1])
    PROVE  LET a == Reference(st)[n].pos
               b == Reference(st)[n + 1].pos
               t == st.cmd[n + 1]
               p == Parsed(st, a)
           IN /\ t.lit \in Nat /\ t.match \in Nat /\ t.recent \in BOOLEAN
              /\ p.lit = t.lit /\ p.match = t.match /\ p.offset \in Int
              /\ b.lit_pos = a.lit_pos + t.lit /\ b.dst_pos = a.dst_pos + t.lit + t.match
              /\ b.length_offset = a.length_offset
              /\ t.recent => /\ b.off16_pos = a.off16_pos /\ b.recent_offset = a.recent_offset
                             /\ p.offset = a.recent_offset
              /\ ~t.recent => /\ b.off16_pos = a.off16_pos + 1 /\ b.recent_offset = p.offset
                              /\ p.offset = -st.off16[a.off16_pos + 1]
                              /\ a.off16_pos < Len(st.off16)
<1> DEFINE a == Reference(st)[n].pos
           b == Reference(st)[n + 1].pos
           t == st.cmd[n + 1]
           p == Parsed(st, a)
<1>1. WellFormed(st) /\ Len(st.cmd) \in Nat
    BY StreamsAssumption DEF WellFormed
<1>2. /\ a \in PosType /\ a.cmd_pos = n /\ TokenIsLegal(st, a)
      /\ b = [cmd_pos |-> n + 1, lit_pos |-> a.lit_pos + p.lit,
              off16_pos |-> p.off16_pos, dst_pos |-> a.dst_pos + p.lit + p.match,
              recent_offset |-> IF p.recent THEN a.recent_offset ELSE p.offset,
              length_offset |-> p.length_offset]
    BY <1>1, SerialRegisters
<1>3. n < Len(st.cmd)
    BY <1>1
<1> HIDE DEF a, b
<1>4. /\ p.lit \in Nat /\ p.match \in Nat /\ p.offset \in Int
      /\ t \in ShortTokens
      /\ p.lit = t.lit /\ p.match = t.match /\ p.recent = t.recent
      /\ p.length_offset = a.length_offset
      /\ p.off16_pos = a.off16_pos + (IF t.recent THEN 0 ELSE 1)
      /\ p.offset = IF t.recent THEN a.recent_offset ELSE -st.off16[a.off16_pos + 1]
    BY <1>1, <1>2, <1>3, ParsedFacts
<1>5. ~t.recent => a.off16_pos < Len(st.off16)
    BY <1>2 DEF TokenIsLegal, TakesOffset
<1>6. t.recent \in BOOLEAN
    BY <1>4 DEF ShortTokens
<1>7. a.off16_pos \in Nat
    BY <1>2 DEF PosType
<1> HIDE DEF p, t
<1> QED BY <1>2, <1>4, <1>5, <1>6, <1>7 DEF a, b, p, t

\* The prefix sum of the fresh lanes: how many off16 entries the lanes below take.
LEMMA Off16Unfolds ==
    ASSUME NEW st, NEW here, BatchSize(st, here) \in Nat
    PROVE  LET n == BatchSize(st, here)
               off == Off16Local(st, here)
           IN /\ off[0] = 0
              /\ \A k \in 0 .. n - 1 : off[k + 1] = off[k] + (IF k \in FreshLanes(st, here) THEN 1 ELSE 0)
<1> DEFINE n == BatchSize(st, here)
           one == [k \in LanesOf(st, here) |-> IF k \in FreshLanes(st, here) THEN 1 ELSE 0]
           off == SumBelow(one, n)
<1>1. off[0] = 0 /\ \A k \in 0 .. n - 1 : off[k + 1] = off[k] + one[k]
    BY SumUnfolds
<1>2. \A k \in 0 .. n - 1 : one[k] = IF k \in FreshLanes(st, here) THEN 1 ELSE 0
    BY DEF LanesOf
<1>3. Off16Local(st, here) = off
    BY DEF Off16Local
<1> HIDE DEF one, off
<1> QED BY <1>1, <1>2, <1>3

\* The offset a lane inherits.
LEMMA InheritedFacts ==
    ASSUME NEW n \in Nat, NEW F \in SUBSET (0 .. n - 1), NEW own, DOMAIN own = 0 .. n - 1,
           NEW k \in 0 .. n - 1
    PROVE  /\ \A j \in F : j <= k /\ (\A i \in F : i <= k => i <= j) => Inherited(own, F)[k] = own[j]
           /\ (\A j \in F : j > k) => Inherited(own, F)[k] = own[k]
<1>1. ASSUME NEW j \in F, j <= k, \A i \in F : i <= k => i <= j PROVE LastFresh(F, k) = j
    <2> DEFINE Latest(x) == x <= k /\ \A i \in F : i <= k => i <= x
               last == LastFresh(F, k)
    <2>1. \E x \in F : Latest(x)
        BY <1>1
    <2>2. last = CHOOSE x \in F : Latest(x)
        BY DEF LastFresh
    <2> HIDE DEF last
    <2>3. last \in F /\ Latest(last)
        BY <2>1, <2>2
    <2>4. last <= j /\ j <= last /\ last \in Int /\ j \in Int
        BY <1>1, <2>3
    <2> QED BY <2>4 DEF last
<1> QED BY <1>1 DEF Inherited

\* The warp-parallel parse is the serial one: the registers before lane k's token are
\* the window's registers and lane k's prefix sums, its run and its match are what
\* the serial decoder parses there, the offset inherited across the window included.
LEMMA WindowIsSerial ==
    ASSUME NEW st \in Streams, NEW m \in 0 .. Len(st.cmd)
    PROVE  LET r == Reference(st)
               q == r[m].pos
               n == BatchSize(st, q)
               w == Window(st, q)
           IN /\ n \in Nat /\ m + n <= Len(st.cmd)
              /\ \A k \in 0 .. n :
                    /\ r[m + k].pos.lit_pos = q.lit_pos + w.lit_local[k]
                    /\ r[m + k].pos.dst_pos = q.dst_pos + w.dst_local[k]
                    /\ r[m + k].pos.length_offset = q.length_offset
                    /\ r[m + k].pos.off16_pos = q.off16_pos + Off16Local(st, q)[k]
              /\ \A k \in 0 .. n - 1 :
                    /\ w.lit[k] = Parsed(st, r[m + k].pos).lit
                    /\ w.match[k] = Parsed(st, r[m + k].pos).match
                    /\ w.offset[k] = Parsed(st, r[m + k].pos).offset
              /\ r[m + n].pos.recent_offset =
                    IF FreshLanes(st, q) = {} THEN q.recent_offset
                    ELSE w.offset[CHOOSE k \in FreshLanes(st, q) : \A j \in FreshLanes(st, q) : j <= k]
<1> DEFINE r == Reference(st)
           q == r[m].pos
           n == BatchSize(st, q)
           w == Window(st, q)
           F == FreshLanes(st, q)
           off == Off16Local(st, q)
           own == OwnOffset(st, q)
           len == Len(st.cmd)
<1>1. WellFormed(st) /\ len \in Nat
    BY StreamsAssumption DEF WellFormed
<1>2. \A k \in 0 .. len : r[k].pos \in PosType /\ r[k].pos.cmd_pos = k
    BY SerialRegisters
<1>3. q \in PosType /\ q.cmd_pos = m
    BY <1>2
<1>4. /\ n \in Nat /\ m + n <= len
      /\ \A k \in 0 .. n - 1 : ~IsLong(st.cmd[m + k + 1])
    BY <1>1, <1>3, BatchFacts
<1>5. \A k \in 0 .. n - 1 : TokenAt(st, q, k) = st.cmd[m + k + 1]
    BY <1>3 DEF TokenAt
<1>6. F \subseteq 0 .. n - 1 /\ \A k \in 0 .. n - 1 : k \in F <=> ~st.cmd[m + k + 1].recent
    BY <1>5 DEF FreshLanes, LanesOf
<1>7. off[0] = 0 /\ \A k \in 0 .. n - 1 : off[k + 1] = off[k] + (IF k \in F THEN 1 ELSE 0)
    BY <1>4, Off16Unfolds
<1>8. /\ DOMAIN own = 0 .. n - 1
      /\ \A k \in 0 .. n - 1 :
           own[k] = IF k \in F /\ q.off16_pos + off[k] < Len(st.off16)
                    THEN -st.off16[q.off16_pos + off[k] + 1] ELSE q.recent_offset
    BY DEF OwnOffset, LanesOf
<1>9. /\ w.lit_local[0] = 0 /\ w.dst_local[0] = 0
      /\ \A k \in 0 .. n - 1 :
            /\ w.lit[k] = st.cmd[m + k + 1].lit
            /\ w.match[k] = st.cmd[m + k + 1].match
            /\ w.lit_local[k + 1] = w.lit_local[k] + w.lit[k]
            /\ w.dst_local[k + 1] = w.dst_local[k] + (w.lit[k] + w.match[k])
            /\ w.offset[k] = Inherited(own, F)[k]
    BY SMTT(40), <1>4, <1>5, WindowFields
<1> HIDE DEF r, n, w, F, off, own, len
<1>10. ASSUME NEW k \in 0 .. n - 1
       PROVE  LET a == r[m + k].pos
                  b == r[m + k + 1].pos
                  t == st.cmd[m + k + 1]
                  p == Parsed(st, a)
              IN /\ t.lit \in Nat /\ t.match \in Nat
                 /\ p.lit = t.lit /\ p.match = t.match /\ p.offset \in Int
                 /\ b.lit_pos = a.lit_pos + t.lit /\ b.dst_pos = a.dst_pos + t.lit + t.match
                 /\ b.length_offset = a.length_offset
                 /\ k \notin F => /\ b.off16_pos = a.off16_pos /\ b.recent_offset = a.recent_offset
                                  /\ p.offset = a.recent_offset
                 /\ k \in F => /\ b.off16_pos = a.off16_pos + 1 /\ b.recent_offset = p.offset
                               /\ p.offset = -st.off16[a.off16_pos + 1]
                               /\ a.off16_pos < Len(st.off16)
    <2>1. m + k \in 0 .. Len(st.cmd) - 1 /\ ~IsLong(st.cmd[m + k + 1])
        BY <1>1, <1>4 DEF len
    <2>2. k \in F <=> ~st.cmd[m + k + 1].recent
        BY <1>6
    <2> QED BY <2>1, <2>2, ShortStep DEF r
<1> DEFINE Sums(k) == /\ r[m + k].pos.lit_pos = q.lit_pos + w.lit_local[k]
                      /\ r[m + k].pos.dst_pos = q.dst_pos + w.dst_local[k]
                      /\ r[m + k].pos.length_offset = q.length_offset
                      /\ r[m + k].pos.off16_pos = q.off16_pos + off[k]
                      /\ w.lit_local[k] \in Nat /\ w.dst_local[k] \in Nat /\ off[k] \in Nat
           Recent(k) == /\ \A j \in F : j < k /\ (\A i \in F : i < k => i <= j) =>
                                r[m + k].pos.recent_offset = own[j]
                        /\ (\A j \in F : j >= k) => r[m + k].pos.recent_offset = q.recent_offset
           Agreed == {k \in Nat : k <= n => Sums(k) /\ Recent(k)}
<1>t. q.lit_pos \in Nat /\ q.dst_pos \in Nat /\ q.off16_pos \in Nat
    BY <1>3 DEF PosType
<1>11. 0 \in Agreed
    <2>1. Sums(0)
        BY <1>7, <1>9, <1>t DEF q
    <2>2. Recent(0)
        BY <1>6 DEF q
    <2> QED BY <2>1, <2>2
<1> HIDE DEF q
<1>12. ASSUME NEW k \in 0 .. n - 1, Sums(k), k \in F
       PROVE  Parsed(st, r[m + k].pos).offset = own[k]
    BY SMTT(40), <1>8, <1>10, <1>12
<1>13. ASSUME NEW k \in Nat, k \in Agreed PROVE k + 1 \in Agreed
    <2> SUFFICES ASSUME k + 1 <= n PROVE Sums(k + 1) /\ Recent(k + 1)
        OBVIOUS
    <2>1. k \in 0 .. n - 1 /\ Sums(k) /\ Recent(k)
        BY <1>4, <1>13
    <2> HIDE DEF Agreed
    <2>b. LET a == r[m + k].pos
              b == r[m + (k + 1)].pos
              t == st.cmd[m + k + 1]
          IN /\ t.lit \in Nat /\ t.match \in Nat
             /\ b.lit_pos = a.lit_pos + t.lit /\ b.dst_pos = a.dst_pos + t.lit + t.match
             /\ b.length_offset = a.length_offset
             /\ b.off16_pos = a.off16_pos + (IF k \in F THEN 1 ELSE 0)
             /\ b.recent_offset = IF k \in F THEN Parsed(st, a).offset ELSE a.recent_offset
        <3>1. m + (k + 1) = m + k + 1
            OBVIOUS
        <3> HIDE DEF Sums, Recent
        <3>2. CASE k \in F
            BY <1>10, <2>1, <3>1, <3>2
        <3>3. CASE k \notin F
            <4>1. r[m + k].pos.off16_pos + 0 = r[m + k].pos.off16_pos
                <5>1. m + k \in 0 .. len
                    BY <1>1, <1>4, <2>1 DEF len
                <5>2. r[m + k].pos \in PosType
                    BY <1>2, <5>1
                <5> QED BY <5>2 DEF PosType
            <4> QED BY <1>10, <2>1, <3>1, <3>3, <4>1
        <3> QED BY <3>2, <3>3
    <2>c. /\ w.lit_local[k + 1] = w.lit_local[k] + st.cmd[m + k + 1].lit
          /\ w.dst_local[k + 1] = w.dst_local[k] + (st.cmd[m + k + 1].lit + st.cmd[m + k + 1].match)
          /\ off[k + 1] = off[k] + (IF k \in F THEN 1 ELSE 0)
        BY <1>7, <1>9, <2>1
    <2>2. Sums(k + 1)
        <3> DEFINE tl == st.cmd[m + k + 1].lit
                   tm == st.cmd[m + k + 1].match
                   to == IF k \in F THEN 1 ELSE 0
                   l0 == w.lit_local[k]
                   d0 == w.dst_local[k]
                   f0 == off[k]
                   l1 == w.lit_local[k + 1]
                   d1 == w.dst_local[k + 1]
                   f1 == off[k + 1]
                   ql == q.lit_pos
                   qd == q.dst_pos
                   qf == q.off16_pos
                   b == r[m + (k + 1)].pos
        <3>1. /\ l1 = l0 + tl /\ d1 = d0 + (tl + tm) /\ f1 = f0 + to
              /\ l0 \in Nat /\ d0 \in Nat /\ f0 \in Nat /\ tl \in Nat /\ tm \in Nat /\ to \in Nat
              /\ ql \in Nat /\ qd \in Nat /\ qf \in Nat
            BY <1>t, <2>1, <2>b, <2>c
        <3>2. /\ b.lit_pos = (ql + l0) + tl /\ b.dst_pos = (qd + d0) + tl + tm
              /\ b.length_offset = q.length_offset /\ b.off16_pos = (qf + f0) + to
            BY <2>1, <2>b
        <3> HIDE DEF tl, tm, to, l0, d0, f0, l1, d1, f1, ql, qd, qf, b
        <3>3. /\ l1 \in Nat /\ d1 \in Nat /\ f1 \in Nat
              /\ (ql + l0) + tl = ql + l1 /\ (qd + d0) + tl + tm = qd + d1 /\ (qf + f0) + to = qf + f1
            BY <3>1
        <3> QED BY <3>2, <3>3 DEF l1, d1, f1, ql, qd, qf, b
    <2>3. CASE k \in F
        <3>1. r[m + (k + 1)].pos.recent_offset = own[k]
            BY <1>12, <2>1, <2>3, <2>b
        <3>2. ASSUME NEW j \in F, j < k + 1, \A i \in F : i < k + 1 => i <= j PROVE j = k
            BY SMTT(40), <1>6, <2>1, <2>3, <3>2
        <3> QED BY <2>2, <2>3, <3>1, <3>2
    <2>4. CASE k \notin F
        <3>1. r[m + (k + 1)].pos.recent_offset = r[m + k].pos.recent_offset
            BY <2>4, <2>b
        <3>2. \A j \in F : j < k + 1 <=> j < k
            BY <1>6, <2>1, <2>4
        <3>3. Recent(k + 1)
            BY <1>6, <2>1, <3>1, <3>2
        <3> QED BY <2>2, <3>3
    <2> QED BY <2>3, <2>4
<1> HIDE DEF Agreed
<1>14. \A k \in Nat : k \in Agreed
    BY <1>11, <1>13, SetInduction
<1>15. \A k \in 0 .. n : Sums(k) /\ Recent(k)
    BY <1>4, <1>14 DEF Agreed
<1> HIDE DEF Sums, Recent
<1>i. ASSUME NEW k \in 0 .. n - 1
      PROVE  /\ \A j \in F : j <= k /\ (\A i \in F : i <= k => i <= j) => Inherited(own, F)[k] = own[j]
             /\ (\A j \in F : j > k) => Inherited(own, F)[k] = own[k]
    <2>1. F \in SUBSET (0 .. n - 1) /\ DOMAIN own = 0 .. n - 1 /\ n \in Nat
        BY <1>4, <1>6, <1>8
    <2> QED BY <2>1, InheritedFacts
<1>16. ASSUME NEW k \in 0 .. n - 1 PROVE w.offset[k] = Parsed(st, r[m + k].pos).offset
    <2>1. w.offset[k] = Inherited(own, F)[k] /\ Sums(k) /\ Recent(k)
        BY <1>4, <1>9, <1>15
    <2>2. CASE k \in F
        <3>1. \A i \in F : i <= k => i <= k
            OBVIOUS
        <3>2. Inherited(own, F)[k] = own[k]
            BY <1>6, <1>i, <2>2
        <3> QED BY <1>12, <2>1, <2>2, <3>2
    <2>3. CASE k \notin F /\ \E j \in F : j <= k
        <3> DEFINE T == {j \in F : j <= k}
        <3>a. F \subseteq Nat /\ k \in Nat
            BY <1>4, <1>6
        <3>0. T \subseteq Nat /\ T # {} /\ k \in Nat /\ \A j \in T : j <= k
            BY <2>3, <3>a
        <3> HIDE DEF T
        <3>1. PICK j \in T : \A i \in T : i <= j
            BY <3>0, Largest
        <3> USE DEF T
        <3>2. j \in F /\ j <= k /\ j < k /\ (\A i \in F : i <= k => i <= j) /\ (\A i \in F : i < k => i <= j)
            BY <1>6, <2>3, <3>1
        <3>3. Inherited(own, F)[k] = own[j]
            BY <1>i, <3>2
        <3>4. r[m + k].pos.recent_offset = own[j]
            BY <2>1, <3>2 DEF Recent
        <3> QED BY <1>10, <2>1, <2>3, <3>3, <3>4
    <2>4. CASE \A j \in F : ~(j <= k)
        <3>1. (\A j \in F : j > k) /\ (\A j \in F : j >= k) /\ k \notin F
            BY <1>6, <2>4
        <3>2. Inherited(own, F)[k] = own[k] /\ own[k] = q.recent_offset
            BY <1>8, <1>i, <3>1
        <3>3. r[m + k].pos.recent_offset = q.recent_offset
            BY <2>1, <3>1 DEF Recent
        <3> QED BY <1>10, <2>1, <3>1, <3>2, <3>3
    <2> QED BY <2>2, <2>3, <2>4
<1>17. r[m + n].pos.recent_offset =
         IF F = {} THEN q.recent_offset ELSE w.offset[CHOOSE k \in F : \A j \in F : j <= k]
    <2>1. Recent(n)
        BY <1>4, <1>15
    <2>2. CASE F = {}
        BY <2>1, <2>2 DEF Recent
    <2>3. CASE F # {}
        <3>0. F \subseteq Nat /\ \A j \in F : j <= n
            BY <1>4, <1>6
        <3>1. \E k \in F : \A j \in F : j <= k
            BY <1>4, <2>3, <3>0, Largest
        <3> DEFINE last == CHOOSE k \in F : \A j \in F : j <= k
        <3>2. last \in F /\ \A j \in F : j <= last
            BY <3>1
        <3> HIDE DEF last
        <3>3. last \in 0 .. n - 1 /\ last < n
            BY <1>4, <1>6, <3>2
        <3>4. r[m + n].pos.recent_offset = own[last]
            BY <2>1, <3>2, <3>3 DEF Recent
        <3>5. w.offset[last] = own[last]
            BY <1>12, <1>15, <1>16, <3>2, <3>3, <1>4
        <3> QED BY <2>3, <3>4, <3>5 DEF last
    <2> QED BY <2>2, <2>3
<1>18. \A k \in 0 .. n - 1 : /\ w.lit[k] = Parsed(st, r[m + k].pos).lit
                             /\ w.match[k] = Parsed(st, r[m + k].pos).match
    BY <1>9, <1>10
<1> QED BY <1>4, <1>15, <1>16, <1>17, <1>18 DEF r, q, n, w, F, off, len, Sums

\* Advance moves the parser to the registers of the serial decoder after the window.
LEMMA AdvanceIsSerial ==
    ASSUME NEW st \in Streams, NEW m \in 0 .. Len(st.cmd)
    PROVE  LET q == Reference(st)[m].pos
           IN Advance(st, q) = Reference(st)[m + BatchSize(st, q)].pos
<1> DEFINE r == Reference(st)
           q == r[m].pos
           n == BatchSize(st, q)
           w == Window(st, q)
           F == FreshLanes(st, q)
           e == r[m + n].pos
           recent == IF F = {} THEN q.recent_offset
                     ELSE w.offset[CHOOSE k \in F : \A j \in F : j <= k]
<1>1. Len(st.cmd) \in Nat
    BY StreamsAssumption DEF WellFormed
<1>2. \A k \in 0 .. Len(st.cmd) : r[k].pos \in PosType /\ r[k].pos.cmd_pos = k
    BY SerialRegisters
<1>3. /\ n \in Nat /\ m + n <= Len(st.cmd)
      /\ e.lit_pos = q.lit_pos + w.lit_local[n] /\ e.dst_pos = q.dst_pos + w.dst_local[n]
      /\ e.length_offset = q.length_offset
      /\ e.off16_pos = q.off16_pos + Off16Local(st, q)[n]
      /\ e.recent_offset = recent
    <2>1. n \in Nat
        BY WindowIsSerial
    <2>2. n \in 0 .. n
        BY SMTT(40), <2>1
    <2> QED BY <2>1, <2>2, WindowIsSerial
<1>4. w.n = n /\ w.fresh = F /\ w.off16_used = Off16Local(st, q)[n]
    BY <1>3, WindowFields
<1>5. q \in PosType /\ e \in PosType /\ q.cmd_pos = m /\ e.cmd_pos = m + n
    <2>1. m + n \in 0 .. Len(st.cmd)
        BY <1>1, <1>3
    <2> HIDE DEF n, r
    <2> QED BY <1>2, <2>1
<1>6. Advance(st, q) = [q EXCEPT !.cmd_pos = @ + w.n, !.off16_pos = @ + w.off16_used,
                                 !.dst_pos = @ + w.dst_local[w.n], !.lit_pos = @ + w.lit_local[w.n],
                                 !.recent_offset = recent]
    BY <1>4 DEF Advance
<1> HIDE DEF r, q, n, w, F, e, recent
<1>7. Advance(st, q) = [q EXCEPT !.cmd_pos = e.cmd_pos, !.off16_pos = e.off16_pos,
                                 !.dst_pos = e.dst_pos, !.lit_pos = e.lit_pos,
                                 !.recent_offset = e.recent_offset]
    BY <1>3, <1>4, <1>5, <1>6 DEF PosType
<1>8. Advance(st, q) = e
    BY <1>3, <1>5, <1>7 DEF PosType
<1> QED BY <1>8 DEF q, e, n, r
\* One long token of the serial decoder: a literal run or a match, never empty.
LEMMA LongStep ==
    ASSUME NEW st \in Streams, NEW n \in 0 .. Len(st.cmd) - 1, IsLong(st.cmd[n + 1])
    PROVE  LET a == Reference(st)[n].pos
               p == Parsed(st, a)
           IN /\ p.lit \in Nat /\ p.match \in Nat /\ p.offset \in Int /\ p.recent \in BOOLEAN
              /\ p.off16_pos \in Nat /\ p.length_offset \in Nat
              /\ (p.lit > 0 /\ p.match = 0) \/ (p.lit = 0 /\ p.match > 0)
              /\ Reference(st)[n + 1].pos =
                    [cmd_pos |-> n + 1, lit_pos |-> a.lit_pos + p.lit,
                     off16_pos |-> p.off16_pos, dst_pos |-> a.dst_pos + p.lit + p.match,
                     recent_offset |-> IF p.recent THEN a.recent_offset ELSE p.offset,
                     length_offset |-> p.length_offset]
<1> DEFINE a == Reference(st)[n].pos
           p == Parsed(st, a)
           b == Reference(st)[n + 1].pos
<1>1. WellFormed(st) /\ Len(st.cmd) \in Nat
    BY StreamsAssumption DEF WellFormed
<1>2. n \in 0 .. Len(st.cmd) /\ n < Len(st.cmd)
    BY <1>1
<1>3. a \in PosType /\ a.cmd_pos = n
    BY <1>2, SerialRegisters
<1>4. /\ TokenIsLegal(st, a)
      /\ b = [cmd_pos |-> n + 1, lit_pos |-> a.lit_pos + p.lit,
              off16_pos |-> p.off16_pos, dst_pos |-> a.dst_pos + p.lit + p.match,
              recent_offset |-> IF p.recent THEN a.recent_offset ELSE p.offset,
              length_offset |-> p.length_offset]
    BY SerialRegisters
<1> HIDE DEF a, b
<1>5. /\ p.lit \in Nat /\ p.match \in Nat /\ p.offset \in Int /\ p.recent \in BOOLEAN
      /\ p.off16_pos \in Nat /\ p.length_offset \in Nat
      /\ p.lit > 0 \/ p.match > 0
      /\ p.lit > 0 => p.match = 0
    BY SMTT(40), <1>1, <1>2, <1>3, <1>4, ParsedFacts
<1> HIDE DEF p
<1> QED BY <1>4, <1>5 DEF a, b, p

-----------------------------------------------------------------------------
(* The flat bytes of a window *)

\* The tokens of a window write consecutive ranges of the output.
LEMMA WindowRanges ==
    ASSUME NEW st \in Streams, NEW m \in 0 .. Len(st.cmd)
    PROVE  LET q == Reference(st)[m].pos
               n == BatchSize(st, q)
               w == Window(st, q)
           IN /\ n \in Nat /\ q.dst_pos \in Nat /\ w.lit_local = SumBelow(w.lit, n)
              /\ \A k \in 0 .. n - 1 :
                    /\ w.lit[k] \in Nat /\ w.match[k] \in Nat /\ w.offset[k] \in Int
                    /\ w.dst_local[k] \in Nat /\ w.lit_local[k] \in Nat /\ w.src[k] \in Int
                    /\ w.copy_dst[k] = q.dst_pos + w.dst_local[k] + w.lit[k]
              /\ \A j, k \in 0 .. n - 1 :
                    j < k => w.dst_local[j] + (w.lit[j] + w.match[j]) <= w.dst_local[k]
<1> DEFINE r == Reference(st)
           q == r[m].pos
           n == BatchSize(st, q)
           w == Window(st, q)
           lit == w.lit
           match == w.match
           both == [k \in 0 .. n - 1 |-> lit[k] + match[k]]
           at(k) == r[m + k].pos
           local == w.dst_local
<1>1. n \in Nat /\ m + n <= Len(st.cmd) /\ Len(st.cmd) \in Nat
    <2>1. n \in Nat /\ m + n <= Len(st.cmd)
        BY WindowIsSerial
    <2>2. Len(st.cmd) \in Nat
        BY StreamsAssumption DEF WellFormed
    <2> QED BY <2>1, <2>2
<1>2. q \in PosType
    BY SerialRegisters
<1>3. \A k \in 0 .. n - 1 : lit[k] = Parsed(st, at(k)).lit /\ match[k] = Parsed(st, at(k)).match
                            /\ w.offset[k] = Parsed(st, at(k)).offset
    BY WindowIsSerial
<1>4. local = SumBelow(both, n) /\ w.lit_local = SumBelow(lit, n)
    BY DEF Window
<1>5. \A k \in 0 .. n - 1 : w.copy_dst[k] = q.dst_pos + local[k] + lit[k]
                            /\ w.src[k] = w.copy_dst[k] + w.offset[k]
    BY <1>1, WindowFields
<1>6. \A k \in 0 .. n - 1 : at(k) \in PosType /\ at(k).cmd_pos = m + k /\ TokenIsLegal(st, at(k))
                            /\ m + k < Len(st.cmd)
    <2> SUFFICES ASSUME NEW k \in 0 .. n - 1
                 PROVE  /\ at(k) \in PosType /\ at(k).cmd_pos = m + k /\ TokenIsLegal(st, at(k))
                        /\ m + k < Len(st.cmd)
        OBVIOUS
    <2> HIDE DEF n
    <2>1. m + k \in 0 .. Len(st.cmd) - 1 /\ m + k \in 0 .. Len(st.cmd)
        BY <1>1
    <2> DEFINE x == m + k
    <2>2. r[x].pos \in PosType /\ r[x].pos.cmd_pos = x /\ TokenIsLegal(st, r[x].pos)
        BY <2>1, SerialRegisters
    <2>3. at(k) = r[x].pos
        BY DEF at
    <2> HIDE DEF r, x
    <2>4. x = m + k
        BY DEF x
    <2> QED BY <2>1, <2>2, <2>3, <2>4
<1>7. WellFormed(st)
    BY StreamsAssumption
<1> HIDE DEF n, w, lit, match, at, local, q
<1>8. \A k \in 0 .. n - 1 : lit[k] \in Nat /\ match[k] \in Nat /\ w.offset[k] \in Int
    BY <1>3, <1>6, <1>7, ParsedFacts
<1>9. \A k \in 0 .. n - 1 : lit[k] + match[k] \in Nat
    BY <1>8
<1>10. \A k \in 0 .. n - 1 : both[k] \in Nat /\ both[k] = lit[k] + match[k]
    BY <1>9
<1> HIDE DEF both
<1>11. /\ \A k \in 0 .. n : local[k] \in Nat
       /\ \A j \in 0 .. n - 1, k \in 0 .. n : j < k => local[j] + both[j] <= local[k]
    BY <1>1, <1>4, <1>10, SumGrows
<1>12. \A k \in 0 .. n : w.lit_local[k] \in Nat
    BY <1>1, <1>4, <1>8, SumGrows
<1>13. q.dst_pos \in Nat
    BY <1>2 DEF PosType
<1>14. \A k \in 0 .. n - 1 : w.src[k] \in Int
    <2> SUFFICES ASSUME NEW k \in 0 .. n - 1 PROVE w.src[k] \in Int
        OBVIOUS
    <2> DEFINE d == q.dst_pos
               a == local[k]
               b == lit[k]
               c == w.offset[k]
    <2>1. d \in Nat /\ a \in Nat /\ b \in Nat /\ c \in Int /\ w.src[k] = d + a + b + c
        BY <1>1, <1>5, <1>8, <1>11, <1>13
    <2> HIDE DEF d, a, b, c
    <2> QED BY <2>1
<1>15. \A j, k \in 0 .. n - 1 : j < k => local[j] + (lit[j] + match[j]) <= local[k]
    BY <1>1, <1>10, <1>11
<1>16. \A k \in 0 .. n - 1 : k \in 0 .. n
    BY <1>1
<1> QED BY <1>1, <1>4, <1>5, <1>8, <1>11, <1>12, <1>13, <1>14, <1>15, <1>16 DEF n, w, lit, match, local, q

ImPool(st, here) == PoolLen(Window(st, here), Independent(Window(st, here), here))
DmPool(st, here) == PoolLen(Window(st, here), EntirelyDict(Window(st, here)))

\* What the parser stages, lane by lane.
LEMMA StagedFields ==
    ASSUME NEW st, NEW here, BatchSize(st, here) \in Nat
    PROVE  LET n == BatchSize(st, here)
               w == Window(st, here)
               s == StagedLanes(st, here)
               h == StagedHead(st, here)
               im == SumBelow(ImPool(st, here), n)
               dm == SumBelow(DmPool(st, here), n)
           IN /\ h.batch_size = n /\ h.dst_pos = here.dst_pos /\ h.lit_pos = here.lit_pos
              /\ h.total_lit = w.lit_local[n] /\ h.total_im = im[n] /\ h.total_dm = dm[n]
              /\ h.dep_mask = Dependent(w, here)
              /\ \A k \in 0 .. n - 1 :
                    /\ s.lit_prefix[k] = w.lit_local[k] /\ s.dst_adj[k] = w.dst_local[k] - w.lit_local[k]
                    /\ s.im_prefix[k] = im[k]
                    /\ s.im_dst_adj[k] = w.copy_dst[k] - im[k] /\ s.im_src_adj[k] = w.src[k] - im[k]
                    /\ s.dm_prefix[k] = dm[k]
                    /\ s.dm_dst_adj[k] = w.copy_dst[k] - dm[k]
                    /\ s.dm_src_adj[k] = DictLen + w.src[k] - dm[k]
                    /\ s.match_len[k] = w.match[k] /\ s.match_offset[k] = w.offset[k]
<1> DEFINE w == Window(st, here)
           n == BatchSize(st, here)
           im == SumBelow(ImPool(st, here), n)
           dm == SumBelow(DmPool(st, here), n)
<1>1. w.n = n /\ DOMAIN w.src = 0 .. n - 1
    BY WindowFields
<1>2. /\ im = SumBelow(PoolLen(w, Independent(w, here)), w.n)
      /\ dm = SumBelow(PoolLen(w, EntirelyDict(w)), w.n)
    BY <1>1 DEF ImPool, DmPool
<1>3. StagedLanes(st, here) =
        [lit_prefix   |-> [k \in DOMAIN w.src |-> w.lit_local[k]],
         dst_adj      |-> [k \in DOMAIN w.src |-> w.dst_local[k] - w.lit_local[k]],
         im_prefix    |-> [k \in DOMAIN w.src |-> im[k]],
         im_dst_adj   |-> [k \in DOMAIN w.src |-> w.copy_dst[k] - im[k]],
         im_src_adj   |-> [k \in DOMAIN w.src |-> w.src[k] - im[k]],
         dm_prefix    |-> [k \in DOMAIN w.src |-> dm[k]],
         dm_dst_adj   |-> [k \in DOMAIN w.src |-> w.copy_dst[k] - dm[k]],
         dm_src_adj   |-> [k \in DOMAIN w.src |-> DictLen + w.src[k] - dm[k]],
         match_len    |-> w.match,
         match_offset |-> w.offset]
    BY <1>2 DEF StagedLanes
<1>4. StagedHead(st, here) =
        [batch_size |-> n, total_lit |-> w.lit_local[n], total_im |-> im[n], total_dm |-> dm[n],
         dst_pos |-> here.dst_pos, lit_pos |-> here.lit_pos, dep_mask |-> Dependent(w, here)]
    BY <1>1, <1>2 DEF StagedHead
<1> HIDE DEF w, n, im, dm
<1> QED BY <1>1, <1>3, <1>4 DEF w, n, im, dm

\* The lengths of the two flat match pools: the matches they hold, none of them both.
LEMMA PoolFacts ==
    ASSUME NEW st \in Streams, NEW m \in 0 .. Len(st.cmd)
    PROVE  LET q == Reference(st)[m].pos
               n == BatchSize(st, q)
               w == Window(st, q)
               im == Independent(w, q)
               dm == EntirelyDict(w)
           IN /\ \A k \in 0 .. n - 1 :
                    /\ ImPool(st, q)[k] \in Nat /\ (ImPool(st, q)[k] > 0 => k \in im)
                    /\ DmPool(st, q)[k] \in Nat /\ (DmPool(st, q)[k] > 0 => k \in dm)
              /\ im \subseteq 0 .. n - 1 /\ dm \subseteq 0 .. n - 1 /\ im \cap dm = {}
              /\ \A k \in im : ImPool(st, q)[k] = w.match[k] /\ w.src[k] + w.match[k] <= q.dst_pos
              /\ \A k \in dm : DmPool(st, q)[k] = w.match[k]
<1> DEFINE q == Reference(st)[m].pos
           n == BatchSize(st, q)
           w == Window(st, q)
           im == Independent(w, q)
           dm == EntirelyDict(w)
<1>1. n \in Nat /\ \A k \in 0 .. n - 1 : w.match[k] \in Nat
    BY WindowRanges
<1>2. DOMAIN w.src = 0 .. n - 1
    BY <1>1, WindowFields
<1> HIDE DEF n, w
<1>3. /\ ImPool(st, q) = [k \in 0 .. n - 1 |-> IF k \in im THEN w.match[k] ELSE 0]
      /\ DmPool(st, q) = [k \in 0 .. n - 1 |-> IF k \in dm THEN w.match[k] ELSE 0]
    BY <1>2 DEF ImPool, DmPool, PoolLen, w
<1>4. im \subseteq 0 .. n - 1 /\ dm \subseteq 0 .. n - 1 /\ im \cap dm = {}
      /\ \A k \in im : w.src[k] + w.match[k] <= q.dst_pos
    BY <1>2 DEF Independent, EntirelyDict, ReachesDict
<1> HIDE DEF im, dm, q
<1>5. \A k \in 0 .. n - 1 :
         /\ ImPool(st, q)[k] \in Nat /\ (ImPool(st, q)[k] > 0 => k \in im)
         /\ DmPool(st, q)[k] \in Nat /\ (DmPool(st, q)[k] > 0 => k \in dm)
         /\ k \in im => ImPool(st, q)[k] = w.match[k]
         /\ k \in dm => DmPool(st, q)[k] = w.match[k]
    BY <1>1, <1>3
<1> QED BY <1>4, <1>5 DEF n, w, im, dm, q

\* Two bytes of a window that land on the same address are the same byte.
LEMMA SamePlace ==
    ASSUME NEW st \in Streams, NEW m \in 0 .. Len(st.cmd),
           NEW j \in 0 .. BatchSize(st, Reference(st)[m].pos) - 1,
           NEW k \in 0 .. BatchSize(st, Reference(st)[m].pos) - 1,
           NEW y \in Nat, NEW z \in Nat
    PROVE  LET w == Window(st, Reference(st)[m].pos)
           IN y < w.lit[j] + w.match[j] /\ z < w.lit[k] + w.match[k]
              /\ w.dst_local[j] + y = w.dst_local[k] + z => j = k /\ y = z
<1> DEFINE w == Window(st, Reference(st)[m].pos)
           lj == w.lit[j]
           mj == w.match[j]
           lk == w.lit[k]
           mk == w.match[k]
           dj == w.dst_local[j]
           dk == w.dst_local[k]
<1>1. /\ lj \in Nat /\ mj \in Nat /\ lk \in Nat /\ mk \in Nat /\ dj \in Nat /\ dk \in Nat
      /\ j < k => dj + (lj + mj) <= dk
      /\ k < j => dk + (lk + mk) <= dj
      /\ j = k => dj = dk
      /\ j \in Int /\ k \in Int
    BY WindowRanges
<1> HIDE DEF lj, mj, lk, mk, dj, dk
<1>2. y < lj + mj /\ z < lk + mk /\ dj + y = dk + z => j = k /\ y = z
    BY <1>1
<1> QED BY <1>2 DEF lj, mj, lk, mk, dj, dk

-----------------------------------------------------------------------------
(* The bytes of the serial decode *)

\* A symbolic byte names where it came from.
Bytes == {"unwritten", "literal", "initial", "dict", "zero"} \X Int

\* The symbolic bytes of a decode.
LEMMA ByteFacts ==
    /\ Unwritten \in Bytes /\ ZeroByte \in Bytes
    /\ \A i \in Int : LitByte(i) \in Bytes /\ InitByte(i) \in Bytes /\ DictByte(i) \in Bytes
BY DEF Bytes, Unwritten, ZeroByte, LitByte, InitByte, DictByte

\* A literal run extends the output by the next literals.
LEMMA LiteralsAppended ==
    ASSUME NEW out \in Seq(Bytes), NEW lit \in Nat, NEW len \in Nat
    PROVE  LET r == AppendLiterals(out, lit, len)
           IN /\ r \in Seq(Bytes) /\ Len(r) = Len(out) + len
              /\ \A i \in 1 .. Len(out) : r[i] = out[i]
              /\ \A y \in 0 .. len - 1 : r[Len(out) + y + 1] = LitByte(lit + y)
<1> DEFINE run == [i \in 1 .. len |-> LitByte(lit + i - 1)]
           r == AppendLiterals(out, lit, len)
<1>1. run \in Seq(Bytes) /\ Len(run) = len
    <2>1. \A i \in 1 .. len : LitByte(lit + i - 1) \in Bytes
        BY ByteFacts
    <2> QED BY <2>1
<1>2. \A y \in 0 .. len - 1 : run[y + 1] = LitByte(lit + y)
    <2> SUFFICES ASSUME NEW y \in 0 .. len - 1 PROVE run[y + 1] = LitByte(lit + y)
        OBVIOUS
    <2>1. y + 1 \in 1 .. len /\ lit + (y + 1) - 1 = lit + y
        OBVIOUS
    <2> QED BY <2>1
<1>3. r = out \o run
    BY DEF AppendLiterals
<1> HIDE DEF run, r
<1>4. r \in Seq(Bytes)
    BY <1>1, <1>3
<1>5. Len(r) = Len(out) + len
    <2>1. Len(out \o run) = Len(out) + Len(run)
        BY <1>1
    <2> QED BY <1>1, <1>3, <2>1
<1>6. \A i \in 1 .. Len(out) : r[i] = out[i]
    BY <1>1, <1>3
<1>7. \A y \in 0 .. len - 1 : r[Len(out) + y + 1] = run[y + 1]
    BY <1>1, <1>3
<1> QED BY <1>2, <1>4, <1>5, <1>6, <1>7 DEF r

MatchEquation(s, out, offset, n) ==
    s = [k \in 0 .. n |-> IF k = 0 THEN out
                          ELSE Append(s[k - 1], ReadBack(s[k - 1], Len(s[k - 1]) + offset))]

\* The recursion of AppendMatch has a solution.
LEMMA MatchExists ==
    ASSUME NEW n \in Nat, NEW out, NEW offset
    PROVE  \E s : MatchEquation(s, out, offset, n)
<1> DEFINE More(prev) == Append(prev, ReadBack(prev, Len(prev) + offset))
           Solved == {m \in Nat : \E s : MatchEquation(s, out, offset, m)}
<1>1. 0 \in Solved
    <2> DEFINE s0 == [k \in 0 .. 0 |-> out]
    <2>1. MatchEquation(s0, out, offset, 0)
        BY DEF MatchEquation
    <2> QED BY <2>1
<1>2. ASSUME NEW m \in Nat, m \in Solved PROVE m + 1 \in Solved
    <2> PICK s : MatchEquation(s, out, offset, m)
        BY <1>2
    <2> DEFINE t == [k \in 0 .. m + 1 |-> IF k = m + 1 THEN More(s[m]) ELSE s[k]]
    <2>1. \A k \in 0 .. m : t[k] = s[k]
        OBVIOUS
    <2>2. \A k \in 0 .. m : s[k] = IF k = 0 THEN out ELSE More(s[k - 1])
        BY DEF MatchEquation
    <2> HIDE DEF More
    <2>3. \A k \in 0 .. m + 1 : t[k] = IF k = 0 THEN out ELSE More(t[k - 1])
        <3> SUFFICES ASSUME NEW k \in 0 .. m + 1
                     PROVE  t[k] = IF k = 0 THEN out ELSE More(t[k - 1])
            OBVIOUS
        <3>1. CASE k = m + 1
            <4>1. t[k] = More(s[m]) /\ t[m] = s[m] /\ k - 1 = m /\ k # 0
                BY <3>1
            <4> QED BY <4>1
        <3>2. CASE k = 0
            BY <2>1, <2>2, <3>2
        <3>3. CASE k \in 1 .. m
            <4>1. k - 1 \in 0 .. m /\ k \in 0 .. m /\ k # 0
                BY <3>3
            <4> HIDE DEF t
            <4> QED BY <2>1, <2>2, <4>1
        <3> QED BY <3>1, <3>2, <3>3
    <2>4. MatchEquation(t, out, offset, m + 1)
        BY <2>3 DEF MatchEquation, More
    <2> QED BY <2>4
<1> HIDE DEF Solved
<1>3. n \in Solved
    BY <1>1, <1>2, SetInduction
<1> QED BY <1>3 DEF Solved

\* What a match byte is copied from: the output so far, or the dictionary below it.
Source(out, a) ==
    IF DictLen > 0 /\ a < 0 THEN IF -a <= DictLen THEN DictByte(DictLen + a) ELSE ZeroByte
    ELSE IF a >= 0 THEN out[a + 1] ELSE Unwritten

\* r is out and n bytes more, each copied from `offset' before itself.
Grown(r, out, n, offset) ==
    /\ r \in Seq(Bytes)
    /\ Len(r) = Len(out) + n
    /\ \A i \in 1 .. Len(out) : r[i] = out[i]
    /\ \A y \in 0 .. n - 1 : r[Len(out) + y + 1] = Source(r, Len(out) + y + offset)

\* One more byte of a match.
LEMMA OneMore ==
    ASSUME NEW out \in Seq(Bytes), NEW k \in Nat, NEW offset \in Int, offset < 0,
           NEW p, Grown(p, out, k, offset)
    PROVE  Grown(Append(p, ReadBack(p, Len(p) + offset)), out, k + 1, offset)
<1> DEFINE size == Len(out)
           a == size + k + offset
           b == ReadBack(p, a)
           t == Append(p, b)
<1>1. size \in Nat /\ p \in Seq(Bytes) /\ Len(p) = size + k
    BY DEF Grown
<1>2. \A i \in 1 .. size : p[i] = out[i]
    BY DEF Grown
<1>3. \A y \in 0 .. k - 1 : p[size + y + 1] = Source(p, size + y + offset)
    BY DEF Grown
<1>4. a \in Int /\ a < size + k
    BY <1>1
<1>5. t = Append(p, ReadBack(p, Len(p) + offset))
    BY <1>1
<1> HIDE DEF size, a
<1>6. b \in Bytes /\ b = Source(p, a)
    <2>1. a >= 0 => a + 1 \in 1 .. Len(p) /\ p[a + 1] \in Bytes /\ a \in 0 .. Len(p) - 1
        BY <1>1, <1>4
    <2>2. a < 0 => a \notin 0 .. Len(p) - 1
        BY <1>1, <1>4
    <2>3. DictLen + a \in Int
        BY <1>4, SizeAssumption
    <2> QED BY <1>4, <2>1, <2>2, <2>3, ByteFacts DEF ReadBack, Source
<1> HIDE DEF b
<1>7. t \in Seq(Bytes) /\ Len(t) = size + (k + 1)
    BY <1>1, <1>6
<1>8. (\A i \in 1 .. size + k : t[i] = p[i]) /\ t[size + k + 1] = b
    BY <1>1, <1>6
<1> HIDE DEF t
<1>9. \A c \in Int : c < size + k => Source(t, c) = Source(p, c)
    <2> SUFFICES ASSUME NEW c \in Int, c < size + k PROVE Source(t, c) = Source(p, c)
        OBVIOUS
    <2>1. c >= 0 => c + 1 \in 1 .. size + k
        BY <1>1
    <2> QED BY <1>8, <2>1 DEF Source
<1>10. \A i \in 1 .. size : t[i] = out[i]
    BY <1>1, <1>2, <1>8
<1>11. ASSUME NEW y \in 0 .. (k + 1) - 1
       PROVE  t[size + y + 1] = Source(t, size + y + offset)
    <2>1. CASE y = k
        <3>1. size + y + offset = a /\ size + y + 1 = size + k + 1
            BY <2>1 DEF a
        <3>2. Source(t, a) = Source(p, a)
            BY <1>4, <1>9
        <3> QED BY <1>6, <1>8, <3>1, <3>2
    <2>2. CASE y < k
        <3>1. y \in 0 .. k - 1 /\ size + y + 1 \in 1 .. size + k
              /\ size + y + offset \in Int /\ size + y + offset < size + k
            BY <1>1, <2>2
        <3> QED BY <1>3, <1>8, <1>9, <3>1
    <2> QED BY <2>1, <2>2
<1> QED BY <1>5, <1>7, <1>10, <1>11 DEF Grown, size

\* A match extends the output byte by byte, and a byte may come from the same match.
LEMMA MatchAppended ==
    ASSUME NEW out \in Seq(Bytes), NEW len \in Nat, NEW offset \in Int, len > 0 => offset < 0
    PROVE  Grown(AppendMatch(out, offset, len), out, len, offset)
<1> DEFINE s == CHOOSE after : MatchEquation(after, out, offset, len)
<1>1. MatchEquation(s, out, offset, len)
    BY MatchExists
<1>2. AppendMatch(out, offset, len) = s[len]
    BY DEF AppendMatch, MatchEquation
<1> HIDE DEF s
<1>3. s[0] = out
    BY <1>1 DEF MatchEquation
<1>4. ASSUME NEW k \in 0 .. len - 1
      PROVE  s[k + 1] = Append(s[k], ReadBack(s[k], Len(s[k]) + offset))
    <2>1. k + 1 \in 0 .. len /\ k + 1 # 0 /\ (k + 1) - 1 = k
        OBVIOUS
    <2>2. s[k + 1] = Append(s[(k + 1) - 1], ReadBack(s[(k + 1) - 1], Len(s[(k + 1) - 1]) + offset))
        BY <1>1, <2>1 DEF MatchEquation
    <2> QED BY <2>1, <2>2
<1> DEFINE Good == {k \in Nat : k <= len => Grown(s[k], out, k, offset)}
<1>5. 0 \in Good
    BY <1>3 DEF Grown
<1>6. ASSUME NEW k \in Nat, k \in Good PROVE k + 1 \in Good
    <2> SUFFICES ASSUME k + 1 <= len PROVE Grown(s[k + 1], out, k + 1, offset)
        OBVIOUS
    <2>1. k \in 0 .. len - 1 /\ Grown(s[k], out, k, offset) /\ offset < 0
        BY <1>6
    <2> QED BY <1>4, <2>1, OneMore
<1> HIDE DEF Good
<1>7. len \in Good
    BY <1>5, <1>6, SetInduction
<1> QED BY <1>2, <1>7 DEF Good

\* Where the next token's output and literals start.
LEMMA NextPlaces ==
    ASSUME NEW st \in Streams, NEW n \in 0 .. Len(st.cmd) - 1
    PROVE  LET at == Reference(st)[n].pos
               p  == Parsed(st, at)
               to == Reference(st)[n + 1].pos
           IN to.dst_pos = at.dst_pos + p.lit + p.match /\ to.lit_pos = at.lit_pos + p.lit
<1> DEFINE at == Reference(st)[n].pos
           p  == Parsed(st, at)
           to == Reference(st)[n + 1].pos
<1>1. to = [cmd_pos |-> n + 1, lit_pos |-> at.lit_pos + p.lit,
            off16_pos |-> p.off16_pos, dst_pos |-> at.dst_pos + p.lit + p.match,
            recent_offset |-> IF p.recent THEN at.recent_offset ELSE p.offset,
            length_offset |-> p.length_offset]
    BY SerialRegisters
<1> HIDE DEF at, p, to
<1>2. to.dst_pos = at.dst_pos + p.lit + p.match /\ to.lit_pos = at.lit_pos + p.lit
    BY <1>1
<1> QED BY <1>2 DEF at, p, to

\* The output of one token more.
LEMMA OutputStep ==
    ASSUME NEW st \in Streams, NEW n \in 0 .. Len(st.cmd) - 1, Reference(st)[n].out \in Seq(Bytes)
    PROVE  LET at == Reference(st)[n].pos
               p  == Parsed(st, at)
               o  == Reference(st)[n].out
               e  == Reference(st)[n + 1].out
           IN /\ at.lit_pos \in Nat /\ p.lit \in Nat /\ p.match \in Nat /\ p.offset \in Int
              /\ p.match > 0 => p.offset < 0
              /\ e \in Seq(Bytes) /\ Len(e) = Len(o) + p.lit + p.match
              /\ \A i \in 1 .. Len(o) : e[i] = o[i]
              /\ \A y \in 0 .. p.lit - 1 : e[Len(o) + y + 1] = LitByte(at.lit_pos + y)
              /\ \A y \in 0 .. p.match - 1 :
                    e[Len(o) + p.lit + y + 1] = Source(e, Len(o) + p.lit + y + p.offset)
<1> DEFINE r == Reference(st)
           at == r[n].pos
           p == Parsed(st, at)
           o == r[n].out
           e == r[n + 1].out
           l == AppendLiterals(o, at.lit_pos, p.lit)
           c == p.lit
           b == p.match
           f == p.offset
           x == at.lit_pos
<1>1. WellFormed(st) /\ Len(st.cmd) \in Nat
    BY StreamsAssumption DEF WellFormed
<1>2. at \in PosType /\ at.cmd_pos = n /\ TokenIsLegal(st, at)
    <2>1. n \in 0 .. Len(st.cmd)
        BY <1>1
    <2>2. r[n].pos \in PosType /\ r[n].pos.cmd_pos = n
        BY <2>1, SerialRegisters
    <2>3. TokenIsLegal(st, r[n].pos)
        BY SerialRegisters
    <2> QED BY <2>2, <2>3
<1>3. c \in Nat /\ b \in Nat /\ f \in Int /\ x \in Nat
    <2> HIDE DEF at
    <2>1. at.cmd_pos < Len(st.cmd)
        BY <1>1, <1>2
    <2>2. p.lit \in Nat /\ p.match \in Nat /\ p.offset \in Int
        BY <1>1, <1>2, <2>1, ParsedFacts
    <2>3. at.lit_pos \in Nat
        BY <1>2 DEF PosType
    <2> QED BY <2>2, <2>3
<1>4. b > 0 => f < 0
    BY <1>2 DEF TokenIsLegal
<1>5. e = AppendMatch(l, f, b)
    <2>1. r[n + 1] = Step(st, r[n])
        BY <1>1, ReferenceUnfolds
    <2>2. Step(st, r[n]).out = AppendMatch(AppendLiterals(r[n].out, r[n].pos.lit_pos, Parsed(st, r[n].pos).lit),
                                           Parsed(st, r[n].pos).offset, Parsed(st, r[n].pos).match)
        BY DEF Step
    <2> QED BY <2>1, <2>2
<1> DEFINE a == AppendLiterals(o, x, c)
<1>6. e = AppendMatch(a, f, b) /\ o \in Seq(Bytes)
    BY <1>5
<1> HIDE DEF r, at, p, o, e, l, c, b, f, x
<1>7. /\ a \in Seq(Bytes) /\ Len(a) = Len(o) + c
      /\ \A i \in 1 .. Len(o) : a[i] = o[i]
      /\ \A y \in 0 .. c - 1 : a[Len(o) + y + 1] = LitByte(x + y)
    BY ZenonT(60), <1>3, <1>6, LiteralsAppended
<1> HIDE DEF a
<1>8. Grown(e, a, b, f)
    BY <1>3, <1>4, <1>6, <1>7, MatchAppended
<1>9. e \in Seq(Bytes) /\ Len(e) = Len(a) + b
    BY <1>8 DEF Grown
<1>10. \A i \in 1 .. Len(a) : e[i] = a[i]
    BY <1>8 DEF Grown
<1>11. \A y \in 0 .. b - 1 : e[Len(a) + y + 1] = Source(e, Len(a) + y + f)
    BY <1>8 DEF Grown
<1>12. Len(o) \in Nat
    BY <1>6
<1>13. Len(e) = Len(o) + c + b
    BY <1>7, <1>9
<1>14. \A i \in 1 .. Len(o) : e[i] = o[i]
    <2> SUFFICES ASSUME NEW i \in 1 .. Len(o) PROVE e[i] = o[i]
        OBVIOUS
    <2>1. i \in 1 .. Len(a)
        BY <1>3, <1>7, <1>12
    <2> QED BY <1>7, <1>10, <2>1
<1>15. ASSUME NEW y \in 0 .. c - 1 PROVE e[Len(o) + y + 1] = LitByte(x + y)
    <2>1. Len(o) + y + 1 \in 1 .. Len(a)
        BY <1>3, <1>7, <1>12
    <2> QED BY <1>7, <1>10, <2>1
<1>16. ASSUME NEW y \in 0 .. b - 1
       PROVE  e[Len(o) + c + y + 1] = Source(e, Len(o) + c + y + f)
    BY <1>7, <1>11
<1> QED BY <1>3, <1>4, <1>9, <1>13, <1>14, <1>15, <1>16 DEF r, at, p, o, e, c, b, f, x

\* The output of the first n tokens ends where the registers say.
LEMMA Outputs ==
    ASSUME NEW st \in Streams
    PROVE  \A n \in 0 .. Len(st.cmd) :
               /\ Reference(st)[n].out \in Seq(Bytes)
               /\ Len(Reference(st)[n].out) = Reference(st)[n].pos.dst_pos
<1> DEFINE r == Reference(st)
           Sized == {n \in Nat : n <= Len(st.cmd) =>
                       r[n].out \in Seq(Bytes) /\ Len(r[n].out) = r[n].pos.dst_pos}
<1>1. Len(st.cmd) \in Nat
    BY StreamsAssumption DEF WellFormed
<1>2. r[0].out = [a \in 1 .. InitialCopy |-> InitByte(a - 1)] /\ r[0].pos.dst_pos = InitialCopy
    <2>1. r[0] = FirstState
        BY <1>1, ReferenceUnfolds
    <2> HIDE DEF r
    <2>2. FirstState.pos.dst_pos = InitialCopy
        BY DEF FirstState, InitialPos
    <2>3. FirstState.out = [a \in 1 .. InitialCopy |-> InitByte(a - 1)]
        BY DEF FirstState
    <2> QED BY <2>1, <2>2, <2>3
<1>3. 0 \in Sized
    <2> DEFINE first == [a \in 1 .. InitialCopy |-> InitByte(a - 1)]
    <2>1. \A a \in 1 .. InitialCopy : InitByte(a - 1) \in Bytes
        BY SizeAssumption, ByteFacts
    <2>2. first \in Seq(Bytes) /\ Len(first) = InitialCopy
        BY <2>1, SizeAssumption
    <2> HIDE DEF first
    <2> QED BY <1>2, <2>2 DEF first
<1>4. ASSUME NEW n \in Nat, n \in Sized PROVE n + 1 \in Sized
    <2> SUFFICES ASSUME n + 1 <= Len(st.cmd)
                 PROVE  r[n + 1].out \in Seq(Bytes) /\ Len(r[n + 1].out) = r[n + 1].pos.dst_pos
        OBVIOUS
    <2> DEFINE p == Parsed(st, r[n].pos)
    <2>1. n \in 0 .. Len(st.cmd) - 1 /\ r[n].out \in Seq(Bytes) /\ Len(r[n].out) = r[n].pos.dst_pos
        BY <1>1, <1>4
    <2>2. r[n + 1].out \in Seq(Bytes) /\ Len(r[n + 1].out) = Len(r[n].out) + p.lit + p.match
        BY <2>1, OutputStep
    <2>3. r[n + 1].pos.dst_pos = r[n].pos.dst_pos + p.lit + p.match
        BY <2>1, NextPlaces
    <2> HIDE DEF p, r
    <2> QED BY <2>1, <2>2, <2>3
<1> HIDE DEF Sized
<1>5. \A n \in Nat : n \in Sized
    BY <1>3, <1>4, SetInduction
<1> QED BY <1>1, <1>5 DEF Sized

\* Later tokens leave the bytes of earlier ones.
LEMMA OutputsKept ==
    ASSUME NEW st \in Streams, NEW n \in 0 .. Len(st.cmd), NEW m \in n .. Len(st.cmd)
    PROVE  /\ Reference(st)[n].pos.dst_pos \in Nat /\ Reference(st)[m].pos.dst_pos \in Nat
           /\ Reference(st)[n].pos.dst_pos <= Reference(st)[m].pos.dst_pos
           /\ \A i \in 1 .. Reference(st)[n].pos.dst_pos :
                 Reference(st)[m].out[i] = Reference(st)[n].out[i]
<1> DEFINE r == Reference(st)
           D(k) == r[k].pos.dst_pos
           Kept == {x \in Nat : n + x <= Len(st.cmd) =>
                      D(n) <= D(n + x) /\ \A i \in 1 .. D(n) : r[n + x].out[i] = r[n].out[i]}
<1>1. Len(st.cmd) \in Nat
    BY StreamsAssumption DEF WellFormed
<1>2. \A k \in 0 .. Len(st.cmd) : D(k) \in Nat /\ r[k].out \in Seq(Bytes) /\ Len(r[k].out) = D(k)
    BY Outputs, SerialRegisters DEF PosType
<1>3. 0 \in Kept
    <2>1. D(n) \in Nat /\ n + 0 = n
        BY <1>2
    <2> HIDE DEF r
    <2> QED BY <2>1
<1>4. ASSUME NEW x \in Nat, x \in Kept PROVE x + 1 \in Kept
    <2> DEFINE k == n + x
               p == Parsed(st, r[k].pos)
    <2> SUFFICES ASSUME k + 1 <= Len(st.cmd)
                 PROVE  D(n) <= D(k + 1) /\ \A i \in 1 .. D(n) : r[k + 1].out[i] = r[n].out[i]
        <3>1. n + (x + 1) = k + 1
            OBVIOUS
        <3> HIDE DEF r, k
        <3> QED BY <3>1
    <2>1. k \in 0 .. Len(st.cmd) - 1 /\ k + 1 \in 0 .. Len(st.cmd) /\ k \in 0 .. Len(st.cmd)
        BY <1>1
    <2>2. D(n) <= D(k) /\ \A i \in 1 .. D(n) : r[k].out[i] = r[n].out[i]
        BY <1>4, <2>1
    <2>3. r[k].out \in Seq(Bytes) /\ Len(r[k].out) = D(k) /\ D(k) \in Nat /\ D(k + 1) \in Nat /\ D(n) \in Nat
        BY <1>2, <2>1
    <2> HIDE DEF k
    <2>4. /\ p.lit \in Nat /\ p.match \in Nat
          /\ \A i \in 1 .. Len(r[k].out) : r[k + 1].out[i] = r[k].out[i]
        BY <2>1, <2>3, OutputStep
    <2>5. D(k + 1) = D(k) + p.lit + p.match
        BY <2>1, NextPlaces
    <2> HIDE DEF r, p
    <2>6. D(n) <= D(k + 1)
        <3> DEFINE dn == D(n)
                   dk == D(k)
                   de == D(k + 1)
                   l == p.lit
                   b == p.match
        <3>1. dn \in Nat /\ dk \in Nat /\ l \in Nat /\ b \in Nat /\ dn <= dk /\ de = dk + l + b
            BY <2>2, <2>3, <2>4, <2>5
        <3> HIDE DEF dn, dk, de, l, b
        <3>2. dn <= de
            BY <3>1
        <3> QED BY <3>2 DEF dn, de
    <2>7. ASSUME NEW i \in 1 .. D(n) PROVE r[k + 1].out[i] = r[n].out[i]
        <3>1. i \in 1 .. Len(r[k].out)
            BY <2>2, <2>3
        <3> QED BY <2>2, <2>4, <3>1
    <2> QED BY <2>6, <2>7
<1> HIDE DEF Kept
<1>5. m - n \in Kept /\ n + (m - n) = m /\ n + (m - n) <= Len(st.cmd)
    <2>1. m - n \in Nat
        OBVIOUS
    <2> QED BY SMTT(40), <1>1, <1>3, <1>4, <2>1, SetInduction
<1>6. D(n) \in Nat /\ D(m) \in Nat
    <2>1. n \in 0 .. Len(st.cmd) /\ m \in 0 .. Len(st.cmd)
        BY <1>1
    <2> QED BY <1>2, <2>1
<1> QED BY <1>5, <1>6 DEF Kept

\* The whole output: the bytes of any prefix of the tokens, then the trailing literals.
LEMMA FinalOutput ==
    ASSUME NEW st \in Streams
    PROVE  LET r    == Reference(st)
               last == r[Len(st.cmd)].pos
               fin  == Decoded(st, r)
           IN /\ Trailing(st, last) \in Nat /\ last.dst_pos \in Nat /\ last.lit_pos \in Nat
              /\ Len(fin) = last.dst_pos + Trailing(st, last)
              /\ last.dst_pos + Trailing(st, last) <= DstSize
              /\ \A n \in 0 .. Len(st.cmd) :
                    r[n].pos.dst_pos \in Nat /\ r[n].pos.dst_pos <= last.dst_pos
              /\ \A n \in 0 .. Len(st.cmd) : \A i \in 1 .. r[n].pos.dst_pos : fin[i] = r[n].out[i]
              /\ \A y \in 0 .. Trailing(st, last) - 1 :
                    fin[last.dst_pos + y + 1] = LitByte(last.lit_pos + y)
<1> DEFINE r == Reference(st)
           N == Len(st.cmd)
           o == r[N].out
           d == r[N].pos.dst_pos
           l == r[N].pos.lit_pos
           t == Trailing(st, r[N].pos)
           fin == Decoded(st, r)
<1>1. N \in Nat /\ st.lit_size \in Nat
    BY StreamsAssumption DEF WellFormed
<1>2. r[N].pos \in PosType
    BY <1>1, SerialRegisters
<1>3. d \in Nat /\ l \in Nat
    <2> HIDE DEF r
    <2> QED BY <1>2 DEF PosType
<1>4. t \in Nat
    BY <1>1, <1>3 DEF Trailing
<1>5. d + t <= DstSize
    <2>1. Legal(st, r)
        BY StreamsAssumption
    <2> HIDE DEF r
    <2> QED BY <2>1 DEF Legal
<1>6. o \in Seq(Bytes) /\ Len(o) = d
    <2>1. N \in 0 .. N
        BY <1>1
    <2> QED BY <2>1, Outputs
<1>7. fin = AppendLiterals(o, l, t)
    BY DEF Decoded
<1>8. \A n \in 0 .. N : r[n].pos.dst_pos \in Nat /\ r[n].pos.dst_pos <= d
    <2> SUFFICES ASSUME NEW n \in 0 .. N PROVE r[n].pos.dst_pos \in Nat /\ r[n].pos.dst_pos <= d
        OBVIOUS
    <2>1. N \in n .. N
        BY <1>1
    <2> QED BY <2>1, OutputsKept
<1>9. ASSUME NEW n \in 0 .. N, NEW i \in 1 .. r[n].pos.dst_pos PROVE o[i] = r[n].out[i]
    <2>1. N \in n .. N
        BY <1>1
    <2> QED BY <2>1, OutputsKept
<1> HIDE DEF o, d, l, t, fin, N, r
<1>10. /\ Len(fin) = d + t
       /\ \A i \in 1 .. d : fin[i] = o[i]
       /\ \A y \in 0 .. t - 1 : fin[d + y + 1] = LitByte(l + y)
    <2> DEFINE run == AppendLiterals(o, l, t)
    <2>1. /\ Len(run) = Len(o) + t
          /\ \A i \in 1 .. Len(o) : run[i] = o[i]
          /\ \A y \in 0 .. t - 1 : run[Len(o) + y + 1] = LitByte(l + y)
        BY ZenonT(60), <1>3, <1>4, <1>6, LiteralsAppended
    <2> HIDE DEF run
    <2>2. /\ Len(run) = d + t
          /\ \A i \in 1 .. d : run[i] = o[i]
          /\ \A y \in 0 .. t - 1 : run[d + y + 1] = LitByte(l + y)
        BY <1>6, <2>1
    <2>3. fin = run
        BY <1>7 DEF run
    <2> QED BY <2>2, <2>3
<1>11. ASSUME NEW n \in 0 .. N, NEW i \in 1 .. r[n].pos.dst_pos PROVE fin[i] = r[n].out[i]
    <2>1. i \in 1 .. d
        BY <1>3, <1>8
    <2> QED BY <1>9, <1>10, <2>1
<1> QED BY <1>3, <1>4, <1>5, <1>8, <1>10, <1>11 DEF o, d, l, t, fin, N, r

\* The bytes of one token in the whole output.
LEMMA FinalToken ==
    ASSUME NEW st \in Streams, NEW n \in 0 .. Len(st.cmd) - 1
    PROVE  LET at  == Reference(st)[n].pos
               p   == Parsed(st, at)
               d   == at.dst_pos
               fin == Decoded(st, Reference(st))
           IN /\ d \in Nat /\ p.lit \in Nat /\ p.match \in Nat /\ p.offset \in Int
              /\ p.match > 0 => p.offset < 0
              /\ Reference(st)[n + 1].pos.dst_pos = d + p.lit + p.match
              /\ d + p.lit + p.match <= DstSize
              /\ \A y \in 0 .. p.lit - 1 : fin[d + y + 1] = LitByte(at.lit_pos + y)
              /\ \A y \in 0 .. p.match - 1 :
                    fin[d + p.lit + y + 1] = Source(fin, d + p.lit + y + p.offset)
<1> DEFINE r == Reference(st)
           at == r[n].pos
           p == Parsed(st, at)
           o == r[n].out
           e == r[n + 1].out
           d == at.dst_pos
           g == r[n + 1].pos.dst_pos
           c == p.lit
           b == p.match
           f == p.offset
           x == at.lit_pos
           N == Len(st.cmd)
           fin == Decoded(st, r)
<1>1. N \in Nat
    BY StreamsAssumption DEF WellFormed
<1>2. n \in 0 .. N /\ n + 1 \in 0 .. N
    BY <1>1
<1>3. o \in Seq(Bytes) /\ Len(o) = d
    BY <1>2, Outputs
<1>4. /\ x \in Nat /\ c \in Nat /\ b \in Nat /\ f \in Int
      /\ b > 0 => f < 0
      /\ e \in Seq(Bytes) /\ Len(e) = Len(o) + c + b
      /\ \A i \in 1 .. Len(o) : e[i] = o[i]
      /\ \A y \in 0 .. c - 1 : e[Len(o) + y + 1] = LitByte(x + y)
      /\ \A y \in 0 .. b - 1 : e[Len(o) + c + y + 1] = Source(e, Len(o) + c + y + f)
    BY <1>3, OutputStep
<1>5. g = d + c + b
    BY NextPlaces
<1>6. /\ \A i \in 1 .. g : fin[i] = e[i]
      /\ d \in Nat /\ g \in Nat
    BY <1>2, FinalOutput
<1>7. g <= DstSize
    <2> DEFINE z == r[N].pos.dst_pos
               t == Trailing(st, r[N].pos)
    <2>1. g <= z /\ z \in Nat /\ t \in Nat /\ z + t <= DstSize
        BY <1>2, FinalOutput
    <2> HIDE DEF g, z, t
    <2> QED BY <1>6, <2>1, SizeAssumption
<1> HIDE DEF o, e, d, g, c, b, f, x, N, fin
<1>8. ASSUME NEW y \in 0 .. c - 1 PROVE fin[d + y + 1] = LitByte(x + y)
    <2>1. d + y + 1 \in 1 .. g
        BY <1>4, <1>5, <1>6
    <2> QED BY <1>3, <1>4, <1>6, <2>1
<1>9. ASSUME NEW y \in 0 .. b - 1 PROVE fin[d + c + y + 1] = Source(fin, d + c + y + f)
    <2> DEFINE a == d + c + y + f
    <2>1. d + c + y + 1 \in 1 .. g /\ a \in Int /\ (a >= 0 => a + 1 \in 1 .. g)
        BY <1>4, <1>5, <1>6
    <2>2. e[d + c + y + 1] = Source(e, a)
        BY <1>3, <1>4
    <2>3. Source(e, a) = Source(fin, a)
        <3> HIDE DEF a
        <3> QED BY <1>6, <2>1 DEF Source
    <2> QED BY <1>6, <2>1, <2>2, <2>3
<1> QED BY <1>4, <1>5, <1>6, <1>7, <1>8, <1>9 DEF o, e, d, g, c, b, f, x, N, fin, r

-----------------------------------------------------------------------------
(* Copies *)

\* The output array once the bytes of fin from d to e - 1 are in place.
Patched(mem, fin, d, e) == [a \in Addresses |-> IF a >= d /\ a < e THEN fin[a + 1] ELSE mem[a]]

\* A byte read below d, when the output below d is that of fin.
LEMMA ReadFinal ==
    ASSUME NEW mem, NEW fin, NEW d \in Nat, d <= DstSize,
           \A a \in 0 .. d - 1 : mem[a] = fin[a + 1],
           NEW a \in Int, a < d
    PROVE  ReadBackRefByte(mem, a) = Source(fin, a)
<1>1. a >= 0 => a \in 0 .. d - 1 /\ a \in Addresses
    BY SizeAssumption DEF Addresses
<1>2. a < 0 => a \notin Addresses
    BY DEF Addresses
<1> QED BY <1>1, <1>2 DEF ReadBackRefByte, Source

CopyEquation(s, mem, d, src, n) ==
    s = [k \in 0 .. n |-> IF k = 0 THEN mem
                          ELSE [s[k - 1] EXCEPT ![d + k - 1] = ReadBackRefByte(s[k - 1], src + k - 1)]]

\* The recursion of an overlapping MatchCopy has a solution.
LEMMA CopyExists ==
    ASSUME NEW n \in Nat, NEW mem, NEW d, NEW src
    PROVE  \E s : CopyEquation(s, mem, d, src, n)
<1> DEFINE More(prev, k) == [prev EXCEPT ![d + k - 1] = ReadBackRefByte(prev, src + k - 1)]
           Solved == {m \in Nat : \E s : CopyEquation(s, mem, d, src, m)}
<1>1. 0 \in Solved
    <2> DEFINE s0 == [k \in 0 .. 0 |-> mem]
    <2>1. CopyEquation(s0, mem, d, src, 0)
        BY DEF CopyEquation
    <2> QED BY <2>1
<1>2. ASSUME NEW m \in Nat, m \in Solved PROVE m + 1 \in Solved
    <2> PICK s : CopyEquation(s, mem, d, src, m)
        BY <1>2
    <2> DEFINE t == [k \in 0 .. m + 1 |-> IF k = m + 1 THEN More(s[m], m + 1) ELSE s[k]]
    <2>1. \A k \in 0 .. m : t[k] = s[k]
        OBVIOUS
    <2>2. \A k \in 0 .. m : s[k] = IF k = 0 THEN mem ELSE More(s[k - 1], k)
        BY DEF CopyEquation
    <2> HIDE DEF More
    <2>3. \A k \in 0 .. m + 1 : t[k] = IF k = 0 THEN mem ELSE More(t[k - 1], k)
        <3> SUFFICES ASSUME NEW k \in 0 .. m + 1
                     PROVE  t[k] = IF k = 0 THEN mem ELSE More(t[k - 1], k)
            OBVIOUS
        <3>1. CASE k = m + 1
            <4>1. t[k] = More(s[m], m + 1) /\ t[m] = s[m] /\ k - 1 = m /\ k # 0
                BY <3>1
            <4> QED BY <3>1, <4>1
        <3>2. CASE k = 0
            BY <2>1, <2>2, <3>2
        <3>3. CASE k \in 1 .. m
            <4>1. k - 1 \in 0 .. m /\ k \in 0 .. m /\ k # 0
                BY <3>3
            <4> HIDE DEF t
            <4> QED BY <2>1, <2>2, <4>1
        <3> QED BY <3>1, <3>2, <3>3
    <2>4. CopyEquation(t, mem, d, src, m + 1)
        BY <2>3 DEF CopyEquation, More
    <2> QED BY <2>4
<1> HIDE DEF Solved
<1>3. n \in Solved
    BY <1>1, <1>2, SetInduction
<1> QED BY <1>3 DEF Solved

\* The output below d is that of fin, whose bytes from d on are a match with source src.
Feeds(mem, fin, d, src, len) ==
    /\ mem = [a \in Addresses |-> mem[a]]
    /\ \A a \in 0 .. d - 1 : mem[a] = fin[a + 1]
    /\ \A y \in 0 .. len - 1 : fin[d + y + 1] = Source(fin, src + y)

\* A match copied behind a correct prefix extends it, overlapping or not.
LEMMA MatchCopied ==
    ASSUME NEW d \in Nat, NEW len \in Nat, d + len <= DstSize, NEW src \in Int, src < d,
           NEW mem, NEW fin, Feeds(mem, fin, d, src, len)
    PROVE  MatchCopy(mem, d, src, len) = Patched(mem, fin, d, d + len)
<1>a. mem = [a \in Addresses |-> mem[a]]
    BY DEF Feeds
<1>b. \A a \in 0 .. d - 1 : mem[a] = fin[a + 1]
    BY DEF Feeds
<1>c. \A y \in 0 .. len - 1 : fin[d + y + 1] = Source(fin, src + y)
    BY DEF Feeds
<1>1. CASE d - src >= len /\ len >= MIN_PARALLEL_MATCH_LEN
    <2>1. MatchCopy(mem, d, src, len) =
            [a \in Addresses |-> IF a >= d /\ a < d + len THEN ReadBackRefByte(mem, src + (a - d)) ELSE mem[a]]
        BY <1>1 DEF MatchCopy, CopyAll
    <2>2. ASSUME NEW a \in Addresses, a >= d, a < d + len
          PROVE  ReadBackRefByte(mem, src + (a - d)) = fin[a + 1]
        <3> DEFINE y == a - d
        <3>1. y \in 0 .. len - 1 /\ d + y + 1 = a + 1 /\ src + y \in Int /\ src + y < d
            BY <1>1, <2>2, SizeAssumption DEF Addresses
        <3> HIDE DEF y
        <3>2. d <= DstSize
            BY SizeAssumption
        <3> DEFINE x == src + y
        <3>3. x \in Int /\ x < d
            BY <3>1
        <3> HIDE DEF x
        <3>4. ReadBackRefByte(mem, x) = Source(fin, x)
            BY <1>b, <3>2, <3>3, ReadFinal
        <3>5. fin[d + y + 1] = Source(fin, x)
            BY <1>c, <3>1 DEF x
        <3> QED BY <3>1, <3>4, <3>5 DEF x, y
    <2> QED BY <2>1, <2>2 DEF Patched
<1>2. CASE ~(d - src >= len /\ len >= MIN_PARALLEL_MATCH_LEN)
    <2> DEFINE s == CHOOSE after : CopyEquation(after, mem, d, src, len)
    <2>1. CopyEquation(s, mem, d, src, len)
        BY CopyExists
    <2>2. MatchCopy(mem, d, src, len) = s[len]
        BY <1>2 DEF MatchCopy, CopyEquation
    <2> HIDE DEF s
    <2>3. s[0] = mem
        BY <2>1 DEF CopyEquation
    <2>4. ASSUME NEW k \in 0 .. len - 1
          PROVE  s[k + 1] = [s[k] EXCEPT ![d + k] = ReadBackRefByte(s[k], src + k)]
        <3>1. k + 1 \in 0 .. len /\ k + 1 # 0 /\ (k + 1) - 1 = k /\ d + (k + 1) - 1 = d + k
              /\ src + (k + 1) - 1 = src + k
            OBVIOUS
        <3>2. s[k + 1] = [s[(k + 1) - 1] EXCEPT ![d + (k + 1) - 1] =
                            ReadBackRefByte(s[(k + 1) - 1], src + (k + 1) - 1)]
            BY <2>1, <3>1 DEF CopyEquation
        <3> QED BY <3>1, <3>2
    <2> DEFINE Done == {k \in Nat : k <= len => s[k] = Patched(mem, fin, d, d + k)}
    <2>5. 0 \in Done
        <3>1. Patched(mem, fin, d, d + 0) = mem
            BY <1>a DEF Patched, Addresses
        <3> QED BY <2>3, <3>1
    <2>6. ASSUME NEW k \in Nat, k \in Done PROVE k + 1 \in Done
        <3> SUFFICES ASSUME k + 1 <= len PROVE s[k + 1] = Patched(mem, fin, d, d + (k + 1))
            OBVIOUS
        <3> DEFINE p == Patched(mem, fin, d, d + k)
        <3>1. k \in 0 .. len - 1 /\ s[k] = p
            BY <2>6
        <3>2. s[k + 1] = [p EXCEPT ![d + k] = ReadBackRefByte(p, src + k)]
            BY <2>4, <3>1
        <3> DEFINE e == d + k
                   x == src + k
        <3>3. e \in Nat /\ e < DstSize /\ x \in Int /\ x < e /\ e \in Addresses /\ e >= d
              /\ d + (k + 1) = e + 1
            BY <3>1, SizeAssumption DEF Addresses
        <3>4. s[k + 1] = [p EXCEPT ![e] = ReadBackRefByte(p, x)] /\ p = Patched(mem, fin, d, e)
            BY <3>2
        <3>5. fin[e + 1] = Source(fin, x)
            BY <1>c, <3>1
        <3> HIDE DEF e, x, p
        <3>6. \A a \in 0 .. e - 1 : p[a] = fin[a + 1]
            <4> SUFFICES ASSUME NEW a \in 0 .. e - 1 PROVE p[a] = fin[a + 1]
                OBVIOUS
            <4>1. a \in Addresses /\ a < e /\ (a >= d \/ a \in 0 .. d - 1)
                BY <3>3, SizeAssumption DEF Addresses
            <4> QED BY <1>b, <3>4, <4>1 DEF Patched
        <3>7. ReadBackRefByte(p, x) = fin[e + 1]
            <4>1. e <= DstSize
                BY <3>3, SizeAssumption
            <4> QED BY <3>3, <3>5, <3>6, <4>1, ReadFinal
        <3>8. [p EXCEPT ![e] = fin[e + 1]] = Patched(mem, fin, d, e + 1)
            <4>1. \A a \in Addresses : (a < e + 1 <=> a < e \/ a = e)
                BY <3>3, SizeAssumption DEF Addresses
            <4> QED BY <3>3, <3>4, <4>1 DEF Patched
        <3> QED BY <3>3, <3>4, <3>7, <3>8
    <2> HIDE DEF Done
    <2>7. len \in Done
        BY <2>5, <2>6, SetInduction
    <2> QED BY <2>2, <2>7 DEF Done
<1> QED BY <1>1, <1>2

-----------------------------------------------------------------------------
(* The bytes of a window *)

\* What the serial decode leaves in the window at token m: byte y of token k.
LEMMA WindowBytes ==
    ASSUME NEW st \in Streams, NEW m \in 0 .. Len(st.cmd),
           NEW k \in 0 .. BatchSize(st, Reference(st)[m].pos) - 1, NEW y \in Nat,
           LET w == Window(st, Reference(st)[m].pos) IN y < w.lit[k] + w.match[k]
    PROVE  LET q   == Reference(st)[m].pos
               w   == Window(st, q)
               fin == Decoded(st, Reference(st))
               a   == q.dst_pos + w.dst_local[k] + y
           IN /\ w.src[k] \in Int /\ w.lit[k] \in Nat /\ w.match[k] \in Nat /\ w.copy_dst[k] \in Nat
              /\ w.copy_dst[k] = q.dst_pos + w.dst_local[k] + w.lit[k]
              /\ w.src[k] = w.copy_dst[k] + w.offset[k]
              /\ w.match[k] > 0 => w.src[k] < w.copy_dst[k]
              /\ w.copy_dst[k] + w.match[k] <= DstSize
              /\ a \in Addresses /\ q.dst_pos <= a
              /\ a < Reference(st)[m + BatchSize(st, q)].pos.dst_pos
              /\ y < w.lit[k] => fin[a + 1] = LitByte(q.lit_pos + (w.lit_local[k] + y))
              /\ ~(y < w.lit[k]) => fin[a + 1] = Source(fin, w.src[k] + (y - w.lit[k]))
<1> DEFINE r == Reference(st)
           q == r[m].pos
           n == BatchSize(st, q)
           w == Window(st, q)
           fin == Decoded(st, r)
           t == r[m + k].pos
           p == Parsed(st, t)
           d == q.dst_pos
           e == w.dst_local[k]
           l == w.lit[k]
           b == w.match[k]
           f == w.offset[k]
           g == r[m + n].pos.dst_pos
           v == w.src[k]
           u == w.copy_dst[k]
           a == d + e + y
           x == q.lit_pos
           c == w.lit_local[k]
<1>1. Len(st.cmd) \in Nat
    BY StreamsAssumption DEF WellFormed
<1>2. n \in Nat /\ m + n <= Len(st.cmd)
    BY WindowIsSerial
<1>3. k \in 0 .. n - 1 /\ y \in Nat /\ y < l + b
    OBVIOUS
<1>4. /\ d \in Nat /\ l \in Nat /\ b \in Nat /\ f \in Int /\ e \in Nat /\ c \in Nat /\ v \in Int
      /\ u = d + e + l
    BY WindowRanges
<1>5. v = u + f
    BY <1>2, WindowFields
<1>6. t.dst_pos = d + e /\ t.lit_pos = x + c /\ l = p.lit /\ b = p.match /\ f = p.offset
    <2>1. k \in 0 .. n
        BY <1>2, <1>3
    <2>2. l = p.lit
        BY WindowIsSerial
    <2>3. b = p.match
        BY WindowIsSerial
    <2>4. f = p.offset
        BY WindowIsSerial
    <2>5. t.dst_pos = d + e
        BY <2>1, WindowIsSerial
    <2>6. t.lit_pos = x + c
        BY <2>1, WindowIsSerial
    <2> QED BY <2>2, <2>3, <2>4, <2>5, <2>6
<1>7. m + k \in 0 .. Len(st.cmd) - 1 /\ m + k + 1 \in 0 .. Len(st.cmd) /\ m + n \in m + k + 1 .. Len(st.cmd)
    <2> HIDE DEF n
    <2> QED BY SMTT(40), <1>1, <1>2, <1>3
<1>8. /\ b > 0 => f < 0
      /\ r[m + k + 1].pos.dst_pos = t.dst_pos + p.lit + p.match
      /\ t.dst_pos + p.lit + p.match <= DstSize
      /\ \A z \in 0 .. p.lit - 1 : fin[t.dst_pos + z + 1] = LitByte(t.lit_pos + z)
      /\ \A z \in 0 .. p.match - 1 : fin[t.dst_pos + p.lit + z + 1] = Source(fin, t.dst_pos + p.lit + z + p.offset)
    <2> DEFINE j == m + k
    <2>1. j \in 0 .. Len(st.cmd) - 1
        BY <1>7
    <2> HIDE DEF j
    <2>2. LET s == Parsed(st, r[j].pos)
              z == r[j].pos.dst_pos
          IN /\ s.match > 0 => s.offset < 0
             /\ r[j + 1].pos.dst_pos = z + s.lit + s.match
             /\ z + s.lit + s.match <= DstSize
             /\ \A i \in 0 .. s.lit - 1 : fin[z + i + 1] = LitByte(r[j].pos.lit_pos + i)
             /\ \A i \in 0 .. s.match - 1 : fin[z + s.lit + i + 1] = Source(fin, z + s.lit + i + s.offset)
        BY <2>1, FinalToken
    <2> HIDE DEF fin, r, p
    <2> QED BY <1>6, <2>2 DEF j, p
<1>9. r[m + k + 1].pos.dst_pos <= g /\ g \in Nat
    BY <1>7, OutputsKept
<1>10. x \in Nat
    <2>1. q \in PosType
        BY SerialRegisters
    <2> HIDE DEF q
    <2> QED BY <2>1 DEF PosType
<1> HIDE DEF r, n, w, fin, t, p, d, e, l, b, f, g, v, u, a, x, c
<1>11. /\ d + e + l + b <= g /\ d + e + l + b <= DstSize
       /\ \A z \in 0 .. l - 1 : fin[d + e + z + 1] = LitByte(x + c + z)
       /\ \A z \in 0 .. b - 1 : fin[d + e + l + z + 1] = Source(fin, d + e + l + z + f)
    BY <1>6, <1>8, <1>9
<1>12. a \in Addresses /\ d <= a /\ a < g
    BY <1>3, <1>4, <1>9, <1>11, SizeAssumption DEF Addresses, a
<1>13. (b > 0 => v < u) /\ u \in Nat /\ u + b <= DstSize
    BY <1>4, <1>5, <1>8, <1>11
<1>14. ASSUME y < l PROVE fin[a + 1] = LitByte(x + (c + y))
    <2>1. y \in 0 .. l - 1 /\ d + e + y + 1 = a + 1 /\ x + c + y = x + (c + y)
        BY <1>3, <1>4, <1>10, <1>14 DEF a
    <2> QED BY <1>11, <2>1
<1>15. ASSUME ~(y < l) PROVE fin[a + 1] = Source(fin, v + (y - l))
    <2> DEFINE z == y - l
    <2>1. z \in 0 .. b - 1 /\ d + e + l + z + 1 = a + 1 /\ d + e + l + z + f = v + z
        BY <1>3, <1>4, <1>5, <1>15 DEF a
    <2> HIDE DEF z
    <2> QED BY <1>11, <2>1 DEF z
<1> QED BY <1>4, <1>5, <1>12, <1>13, <1>14, <1>15 DEF r, n, w, fin, d, e, l, b, f, g, v, u, a, x, c

-----------------------------------------------------------------------------
(* The block: its barriers, and the slots and registers between them.      *)

PCs == BlockSites \cup TeamSites \cup ParserPCs \cup TeamPCs \cup CommonPCs

\* The block barrier a warp meets next; "done" if it meets none.
Target(w) ==
    IF pc[w] = "check" THEN IF s_have[cur[w]] THEN "handoff" ELSE "stated"
    ELSE IF pc[w] \in {"prime", "prime_head", "primed", "reprime"} THEN "primed"
    ELSE IF pc[w] \in {"fill", "fill_head", "handoff"} \cup Executing THEN "handoff"
    ELSE IF pc[w] \in {"drained", "stated"} THEN "stated"
    ELSE IF pc[w] = "load" THEN IF s_state.cmd_pos >= Len(stream.cmd) THEN "done" ELSE "longset"
    ELSE IF pc[w] \in {"token", "longset"} THEN "longset"
    ELSE IF pc[w] \in {"loadlong", "rebroadcast"} THEN "rebroadcast"
    ELSE IF pc[w] = "literals" \/ (pc[w] = "longlit" /\ s_long.lit > 0) THEN "literals"
    ELSE IF pc[w] = "matched" \/ (pc[w] \in {"longlit", "longmatch"} /\ s_long.match > 0) THEN "matched"
    ELSE IF pc[w] \in {"longlit", "longmatch"} THEN "primed"
    ELSE "done"

\* The named barrier a copier warp meets next.
TeamTarget(w) ==
    IF pc[w] \in {"lit", "im", "dm", "flatdone"} \/ (pc[w] = "check" /\ s_have[cur[w]])
    THEN "flatdone"
    ELSE IF pc[w] \in {"dep", "depdone"} THEN "depdone" ELSE "outside"

PcType == /\ pc \in [Warps -> PCs]
          /\ pc[Parser] \notin Executing
          /\ \A w \in Team : pc[w] \notin ParserPCs
CurAgree == cur \in [Warps -> Stages] /\ \A v, w \in Warps : cur[v] = cur[w]
HaveType == s_have \in [Stages -> BOOLEAN]
Lockstep == \A v, w \in Warps : Target(v) = Target(w)
TeamLockstep == \A v, w \in Team : TeamTarget(v) = TeamTarget(w)

\* A warp past the broadcast of a long token holds that token.
HoldsLong == {"rebroadcast", "longlit", "literals", "longmatch", "matched", "reprime"}
LongLoaded == /\ long = [w \in Warps |-> long[w]]
              /\ \A w \in Warps : pc[w] \in HoldsLong => long[w] = s_long

IInv == PcType /\ CurAgree /\ HaveType /\ Lockstep /\ TeamLockstep /\ LongLoaded

USE DEF Parser

\* The parser is one warp and the team is the rest.
LEMMA WarpFacts == /\ Parser \in Warps /\ Parser \notin Team
                   /\ Team \subseteq Warps /\ 1 \in Team
                   /\ \A w \in Warps : w # Parser => w \in Team
BY CopiersAssumption DEF Warps, Team

\* Initially every warp is bound for the first barrier of the prime.
LEMMA InitInvariant == Init => IInv
<1> SUFFICES ASSUME Init PROVE IInv
    OBVIOUS
<1>1. PcType
    BY WarpFacts DEF Init, PcType, PCs, BlockSites, TeamSites, ParserPCs, TeamPCs, CommonPCs, Executing
<1>2. CurAgree /\ HaveType
    BY DEF Init, CurAgree, HaveType, Stages
<1>3. \A w \in Warps : Target(w) = "primed" /\ TeamTarget(w) = "outside"
    BY DEF Init, Target, TeamTarget, Executing, TeamPCs, TeamSites
<1>4. LongLoaded
    BY DEF Init, LongLoaded, HoldsLong
<1> QED BY <1>1, <1>2, <1>3, <1>4, WarpFacts DEF IInv, Lockstep, TeamLockstep

\* The parser stages a batch, or finds none: only the flag of the slot that no
\* warp is about to test changes.
LEMMA StagingStep == IInv /\ (StageLanes \/ StageHead \/ StageNothing) => IInv'
<1> SUFFICES ASSUME IInv, StageLanes \/ StageHead \/ StageNothing PROVE IInv'
    OBVIOUS
<1> USE WarpFacts DEF IInv
<1>1. pc[Parser] \in Staging
    BY DEF StageLanes, StageHead, StageNothing, Staging
<1>2. PICK label \in {"prime_head", "fill_head", "primed", "handoff"} :
          /\ pc' = [pc EXCEPT ![Parser] = label]
          /\ label \in {"prime_head", "primed"} <=> pc[Parser] \in {"prime", "prime_head"}
    BY DEF StageLanes, StageHead, StageNothing, Goto, AfterFill
<1>3. UNCHANGED <<cur, long, s_long, s_state, stream>>
    BY DEF StageLanes, StageHead, StageNothing, input
<1>4. s_have' = s_have \/ (\E b \in BOOLEAN : s_have' = [s_have EXCEPT ![Slot] = b])
    BY DEF StageLanes, StageHead, StageNothing
<1>5. PcType' /\ CurAgree' /\ HaveType'
    BY <1>2, <1>3, <1>4 DEF PcType, PCs, BlockSites, TeamSites, ParserPCs, TeamPCs, Executing, CurAgree, HaveType
<1>6. \A w \in Warps : pc[w] = "check" => s_have'[cur[w]] = s_have[cur[w]]
    BY <1>1, <1>4 DEF Lockstep, Target, Staging, Slot, Toggle, CurAgree, HaveType, Stages
<1>7. \A w \in Warps : Target(w)' = Target(w) /\ TeamTarget(w)' = TeamTarget(w)
    BY <1>1, <1>2, <1>3, <1>6 DEF Target, TeamTarget, PcType, Staging, Executing, TeamPCs, TeamSites
<1>8. LongLoaded'
    BY <1>2, <1>3 DEF LongLoaded, HoldsLong, PcType
<1> QED BY <1>5, <1>7, <1>8 DEF Lockstep, TeamLockstep

\* A copier warp moves within the batch it executes: no flag, register or
\* broadcast that decides a target changes.
LEMMA TeamMove ==
    ASSUME IInv, NEW w \in Team, NEW label,
           pc' = [pc EXCEPT ![w] = label],
           \/ pc[w] \in {"lit", "im", "dm"} /\ label \in {"im", "dm", "flatdone"}
           \/ pc[w] = "dep" /\ label = "depdone",
           UNCHANGED <<cur, long, s_have, s_long, s_state, stream>>
    PROVE  IInv'
<1> USE WarpFacts DEF IInv
<1>1. PcType' /\ CurAgree' /\ HaveType'
    BY DEF PcType, PCs, BlockSites, TeamSites, ParserPCs, TeamPCs, Executing, CurAgree, HaveType
<1>2. \A v \in Warps : Target(v)' = Target(v) /\ TeamTarget(v)' = TeamTarget(v)
    BY DEF Target, TeamTarget, PcType, Executing, TeamPCs, TeamSites
<1>3. LongLoaded'
    BY DEF LongLoaded, HoldsLong, PcType
<1> QED BY <1>1, <1>2, <1>3 DEF Lockstep, TeamLockstep

\* A step of a copier warp inside a batch keeps the lock-step invariant.
LEMMA TeamStepInv == IInv /\ (DependentMatch \/ \E w \in Team : TeamStep(w)) => IInv'
<1> SUFFICES ASSUME IInv, DependentMatch \/ \E w \in Team : TeamStep(w) PROVE IInv'
    OBVIOUS
<1> USE WarpFacts
<1>0. UNCHANGED vars => IInv'
    BY DEF IInv, PcType, CurAgree, HaveType, Lockstep, TeamLockstep, LongLoaded,
           Target, TeamTarget, vars
<1>1. CASE DependentMatch
    <2>1. UNCHANGED <<cur, long, s_have, s_long, s_state, stream>>
        BY <1>1 DEF DependentMatch, input, shared
    <2>2. pc' = [pc EXCEPT ![1] = "depdone"] \/ pc' = pc
        BY <1>1 DEF DependentMatch, Goto
    <2>3. CASE pc' = pc
        BY <2>1, <2>3 DEF IInv, PcType, CurAgree, HaveType, Lockstep, TeamLockstep,
                          LongLoaded, Target, TeamTarget
    <2> QED BY <1>1, <2>1, <2>2, <2>3, TeamMove DEF DependentMatch
<1>2. CASE \E w \in Team : TeamStep(w)
    <2> PICK w \in Team : TeamStep(w)
        BY <1>2
    <2>1. UNCHANGED <<cur, long, s_have, s_long, s_state, stream>>
        BY DEF TeamStep, FlatLiterals, FlatIndependent, FlatDict, FlatPass, input, shared
    <2>2. \/ pc' = pc
          \/ pc[w] = "lit" /\ pc' = [pc EXCEPT ![w] = "im"]
          \/ pc[w] = "im"  /\ pc' = [pc EXCEPT ![w] = "dm"]
          \/ pc[w] = "dm"  /\ pc' = [pc EXCEPT ![w] = "flatdone"]
        BY DEF TeamStep, FlatLiterals, FlatIndependent, FlatDict, FlatPass, Goto
    <2>3. CASE pc' = pc
        BY <2>1, <2>3 DEF IInv, PcType, CurAgree, HaveType, Lockstep, TeamLockstep,
                          LongLoaded, Target, TeamTarget
    <2> QED BY <2>1, <2>2, <2>3, TeamMove
<1> QED BY <1>1, <1>2

\* The block barrier: all the warps are at one site, so all resume alike.
LEMMA SyncStep == IInv /\ SyncThreads => IInv'
<1> SUFFICES ASSUME IInv, SyncThreads PROVE IInv'
    OBVIOUS
<1> USE WarpFacts DEF IInv
<1>1. \A w \in Warps : pc[w] = pc[Parser]
    <2>1. \A w \in Warps : Target(w) = pc[w]
        BY DEF SyncThreads, Target, BlockSites, Executing, TeamPCs, TeamSites
    <2> QED BY <2>1 DEF Lockstep
<1>2. PICK site \in BlockSites : \A w \in Warps : pc[w] = site
    BY <1>1 DEF SyncThreads
<1>3. UNCHANGED <<long, s_have, s_long, s_state, stream>>
    BY DEF SyncThreads, shared, input
<1>4. \A w \in Warps : pc'[w] = Resume(Parser, site)
    BY <1>2 DEF SyncThreads, Resume
<1>5. Resume(Parser, site) \in {"check", "load", "loadlong", "longlit", "longmatch", "reprime"}
    BY <1>2 DEF Resume, BlockSites
<1>6. PcType'
    BY <1>4, <1>5 DEF SyncThreads, PcType, PCs, CommonPCs, Executing, TeamPCs, TeamSites, ParserPCs
<1>7. CurAgree' /\ HaveType'
    BY <1>2, <1>3 DEF SyncThreads, CurAgree, HaveType, Stages, Toggle
<1>8. LongLoaded'
    BY <1>2, <1>3, <1>4 DEF LongLoaded, HoldsLong, Resume, BlockSites
<1>9. Lockstep' /\ TeamLockstep'
    BY <1>3, <1>4, <1>5, <1>7 DEF Lockstep, TeamLockstep, Target, TeamTarget, CurAgree
<1> QED BY <1>6, <1>7, <1>8, <1>9

\* The named barrier: all the copier warps are at one site.
LEMMA TeamBarStep == IInv /\ PipeTeamBar => IInv'
<1> SUFFICES ASSUME IInv, PipeTeamBar PROVE IInv'
    OBVIOUS
<1> USE WarpFacts DEF IInv
<1>1. PICK site \in TeamSites : \A w \in Team : pc[w] = site
    <2>1. \A w \in Team : TeamTarget(w) = pc[w]
        BY DEF PipeTeamBar, TeamTarget, TeamSites
    <2> QED BY <2>1 DEF TeamLockstep, PipeTeamBar
<1>2. UNCHANGED <<cur, long, s_have, s_long, s_state, stream>>
    BY DEF PipeTeamBar, shared, input
<1>3. /\ pc'[Parser] = pc[Parser]
      /\ \A w \in Team : pc'[w] \in {"dep", "depdone", "handoff"}
      /\ \A w \in Team : pc'[w] = "handoff" <=> site = "depdone"
    BY <1>1 DEF PipeTeamBar, Warps, TeamSites
<1>4. PcType' /\ CurAgree' /\ HaveType'
    BY <1>2, <1>3 DEF PipeTeamBar, PcType, PCs, BlockSites, TeamSites, ParserPCs, TeamPCs, Executing, CurAgree, HaveType
<1>5. \A w \in Warps : Target(w)' = Target(w)
    BY <1>1, <1>2, <1>3 DEF Target, TeamSites, Executing, TeamPCs
<1>6. \A v, w \in Team : TeamTarget(v)' = TeamTarget(w)'
    BY <1>3 DEF TeamTarget
<1>7. LongLoaded'
    BY <1>1, <1>2, <1>3 DEF LongLoaded, HoldsLong, TeamSites
<1> QED BY <1>4, <1>5, <1>6, <1>7 DEF Lockstep, TeamLockstep

\* The loop test: a warp leaves "check" for the site the flag sent it to.
LEMMA CheckStep == ASSUME IInv, NEW w \in Warps, CheckHave(w) PROVE IInv'
<1> USE WarpFacts DEF IInv
<1>1. UNCHANGED <<cur, long, s_have, s_long, s_state, stream>>
    BY DEF CheckHave, shared, input
<1>2. PICK label : /\ pc' = [pc EXCEPT ![w] = label]
                   /\ pc[w] = "check"
                   /\ s_have[cur[w]] => label = IF w = Parser THEN "fill" ELSE "lit"
                   /\ ~s_have[cur[w]] => label = IF w = Parser THEN "drained" ELSE "stated"
    BY DEF CheckHave, Goto, Have
<1>3. PcType' /\ CurAgree' /\ HaveType'
    BY <1>1, <1>2 DEF PcType, PCs, BlockSites, TeamSites, ParserPCs, TeamPCs, Executing, CurAgree, HaveType
<1>4. \A v \in Warps : Target(v)' = Target(v) /\ (v \in Team => TeamTarget(v)' = TeamTarget(v))
    BY <1>1, <1>2 DEF Target, TeamTarget, PcType, Executing, TeamPCs, TeamSites
<1>5. LongLoaded'
    BY <1>1, <1>2 DEF LongLoaded, HoldsLong, PcType
<1> QED BY <1>3, <1>4, <1>5 DEF Lockstep, TeamLockstep

\* The parser broadcasts its registers when no warp is about to load them.
LEMMA DrainStep == IInv /\ DrainBroadcast => IInv'
<1> SUFFICES ASSUME IInv, DrainBroadcast PROVE IInv'
    OBVIOUS
<1> USE WarpFacts DEF IInv
<1>1. UNCHANGED <<cur, long, s_have, s_long, stream>>
    BY DEF DrainBroadcast, input
<1>2. /\ pc[Parser] = "drained" /\ pc' = [pc EXCEPT ![Parser] = "stated"]
    BY DEF DrainBroadcast, Goto
<1>3. \A w \in Warps : pc[w] # "load"
    BY <1>2 DEF Lockstep, Target, Executing, TeamPCs, TeamSites
<1>4. PcType' /\ CurAgree' /\ HaveType'
    BY <1>1, <1>2 DEF PcType, PCs, BlockSites, TeamSites, ParserPCs, TeamPCs, Executing, CurAgree, HaveType
<1>5. \A v \in Warps : Target(v)' = Target(v) /\ TeamTarget(v)' = TeamTarget(v)
    BY <1>1, <1>2, <1>3 DEF Target, TeamTarget, PcType, Executing, TeamPCs, TeamSites
<1>6. LongLoaded'
    BY <1>1, <1>2 DEF LongLoaded, HoldsLong, PcType
<1> QED BY <1>4, <1>5, <1>6 DEF Lockstep, TeamLockstep

\* Every warp takes the same branch after loading the broadcast registers.
LEMMA LoadStep == ASSUME IInv, NEW w \in Warps, LoadState(w) PROVE IInv'
<1> USE WarpFacts DEF IInv
<1>1. UNCHANGED <<cur, long, s_have, s_long, s_state, stream>>
    BY DEF LoadState, shared, input
<1>2. PICK label : /\ pc' = [pc EXCEPT ![w] = label]
                   /\ pc[w] = "load"
                   /\ s_state.cmd_pos >= Len(stream.cmd) => label = "trail"
                   /\ ~(s_state.cmd_pos >= Len(stream.cmd)) =>
                        label = IF w = Parser THEN "token" ELSE "longset"
    BY DEF LoadState, Goto, AfterLoad
<1>3. PcType' /\ CurAgree' /\ HaveType'
    BY <1>1, <1>2 DEF PcType, PCs, BlockSites, TeamSites, ParserPCs, TeamPCs, CommonPCs,
                      Executing, CurAgree, HaveType
<1>4. \A v \in Warps : Target(v)' = Target(v) /\ TeamTarget(v)' = TeamTarget(v)
    BY <1>1, <1>2 DEF Target, TeamTarget, PcType, Executing, TeamPCs, TeamSites
<1>5. LongLoaded'
    BY <1>1, <1>2 DEF LongLoaded, HoldsLong, PcType
<1> QED BY <1>3, <1>4, <1>5 DEF Lockstep, TeamLockstep

\* The parser decodes a long token when no warp still holds the last one.
LEMMA LongTokenStep == IInv /\ LongToken => IInv'
<1> SUFFICES ASSUME IInv, LongToken PROVE IInv'
    OBVIOUS
<1> USE WarpFacts DEF IInv
<1>1. UNCHANGED <<cur, long, s_have, s_state, stream>>
    BY DEF LongToken, input
<1>2. /\ pc[Parser] = "token" /\ pc' = [pc EXCEPT ![Parser] = "longset"]
    BY DEF LongToken, Goto
<1>3. \A w \in Warps : pc[w] \notin HoldsLong
    BY <1>2 DEF Lockstep, Target, Executing, TeamPCs, TeamSites, HoldsLong
<1>4. PcType' /\ CurAgree' /\ HaveType'
    BY <1>1, <1>2 DEF PcType, PCs, BlockSites, TeamSites, ParserPCs, TeamPCs, Executing, CurAgree, HaveType
<1>5. \A v \in Warps : Target(v)' = Target(v) /\ TeamTarget(v)' = TeamTarget(v)
    BY <1>1, <1>2, <1>3 DEF Target, TeamTarget, PcType, Executing, TeamPCs, TeamSites, HoldsLong
<1>6. LongLoaded'
    BY <1>1, <1>2, <1>3 DEF LongLoaded, HoldsLong, PcType
<1> QED BY <1>4, <1>5, <1>6 DEF Lockstep, TeamLockstep

\* A warp loads the long token; the parser re-broadcasts one register of it.
LEMMA LoadLongStep == ASSUME IInv, NEW w \in Warps, LoadLong(w) PROVE IInv'
<1> USE WarpFacts DEF IInv
<1>1. UNCHANGED <<cur, s_have, s_long, stream>>
    BY DEF LoadLong, input
<1>2. /\ pc[w] = "loadlong" /\ pc' = [pc EXCEPT ![w] = "rebroadcast"]
      /\ long' = [long EXCEPT ![w] = s_long]
    BY DEF LoadLong, Goto
<1>3. \A v \in Warps : pc[v] # "load"
    BY <1>2 DEF Lockstep, Target, Executing, TeamPCs, TeamSites
<1>4. PcType' /\ CurAgree' /\ HaveType'
    BY <1>1, <1>2 DEF PcType, PCs, BlockSites, TeamSites, ParserPCs, TeamPCs, Executing, CurAgree, HaveType
<1>5. \A v \in Warps : Target(v)' = Target(v) /\ TeamTarget(v)' = TeamTarget(v)
    BY <1>1, <1>2, <1>3 DEF Target, TeamTarget, PcType, Executing, TeamPCs, TeamSites
<1>6. LongLoaded'
    BY <1>1, <1>2 DEF LongLoaded, HoldsLong, PcType
<1> QED BY <1>4, <1>5, <1>6 DEF Lockstep, TeamLockstep

\* The copies of a long token, the re-prime and the trailing literals.
LEMMA CopyStep ==
    ASSUME IInv, NEW w \in Warps,
           LongLiterals(w) \/ LongMatch(w) \/ Reprime(w) \/ TrailingLiterals(w)
    PROVE  IInv'
<1> USE WarpFacts DEF IInv
<1>1. UNCHANGED <<cur, long, s_have, s_long, s_state, stream>>
    BY DEF LongLiterals, LongMatch, Reprime, TrailingLiterals, shared, input
<1>2. pc[w] \in HoldsLong => long[w] = s_long
    BY DEF LongLoaded
<1>3. PICK label :
        /\ pc' = [pc EXCEPT ![w] = label]
        /\ \/ pc[w] = "longlit" /\ s_long.lit > 0 /\ label = "literals"
           \/ pc[w] = "longlit" /\ ~(s_long.lit > 0) /\ label = "longmatch"
           \/ pc[w] = "longmatch" /\ s_long.match > 0 /\ label = "matched"
           \/ pc[w] = "longmatch" /\ ~(s_long.match > 0) /\ label = "reprime"
           \/ pc[w] = "reprime" /\ label = IF w = Parser THEN "prime" ELSE "primed"
           \/ pc[w] = "trail" /\ label = "done"
    BY <1>2 DEF LongLiterals, LongMatch, Reprime, TrailingLiterals, Goto, HoldsLong
<1>4. PcType' /\ CurAgree' /\ HaveType'
    BY <1>1, <1>3 DEF PcType, PCs, BlockSites, TeamSites, ParserPCs, TeamPCs, CommonPCs,
                      Executing, CurAgree, HaveType
<1>5. \A v \in Warps : Target(v)' = Target(v) /\ TeamTarget(v)' = TeamTarget(v)
    BY <1>1, <1>3 DEF Target, TeamTarget, PcType, Executing, TeamPCs, TeamSites
<1>6. LongLoaded'
    BY <1>1, <1>3 DEF LongLoaded, HoldsLong, PcType
<1> QED BY <1>4, <1>5, <1>6 DEF Lockstep, TeamLockstep

\* So does a step that changes nothing.
LEMMA StutterStep == IInv /\ UNCHANGED vars => IInv'
BY DEF IInv, PcType, CurAgree, HaveType, Lockstep, TeamLockstep, LongLoaded,
       Target, TeamTarget, vars

\* The inductive invariant holds of every behaviour.
THEOREM Invariance == Spec => []IInv
<1>1. IInv /\ [Next]_vars => IInv'
    BY StagingStep, TeamStepInv, SyncStep, TeamBarStep, CheckStep, DrainStep, LoadStep,
       LongTokenStep, LoadLongStep, CopyStep, StutterStep
       DEF Next, ParserStep, AnyWarpStep, Terminated
<1> QED BY InitInvariant, <1>1, PTL DEF Spec

\* The warps that meet at a barrier are at the same call of __syncthreads, and
\* the copier warps at the same call of pipeTeamBar, for any number of warps.
THEOREM BarriersConverge == Spec => []BarrierConvergence
<1>1. IInv => BarrierConvergence
    <2> SUFFICES ASSUME IInv PROVE BarrierConvergence
        OBVIOUS
    <2> USE WarpFacts DEF IInv
    <2>1. ASSUME \A w \in Warps : pc[w] \in BlockSites, NEW v \in Warps, NEW w \in Warps
          PROVE  pc[v] = pc[w]
        <3>1. Target(v) = pc[v] /\ Target(w) = pc[w]
            BY <2>1 DEF Target, BlockSites, Executing, TeamPCs, TeamSites
        <3> QED BY <3>1 DEF Lockstep
    <2>2. ASSUME \A w \in Team : pc[w] \in TeamSites, NEW v \in Team, NEW w \in Team
          PROVE  pc[v] = pc[w]
        <3>1. TeamTarget(v) = pc[v] /\ TeamTarget(w) = pc[w]
            BY <2>2 DEF TeamTarget, TeamSites
        <3> QED BY <3>1 DEF TeamLockstep
    <2> QED BY <2>1, <2>2 DEF BarrierConvergence
<1> QED BY Invariance, <1>1, PTL

\* The copiers execute the slot that the parser does not stage.
LEMMA SlotsApart == IInv => SlotExclusive
<1> SUFFICES ASSUME IInv, pc[Parser] \in Staging, NEW w \in Team, pc[w] \in Executing
             PROVE  cur[w] # Slot
    BY DEF SlotExclusive
<1> USE WarpFacts DEF IInv
<1>1. pc[Parser] \in {"fill", "fill_head"}
    BY DEF Lockstep, Target, Staging, Executing, TeamPCs, TeamSites
<1>2. Slot = Toggle(cur[Parser])
    BY <1>1 DEF Slot
<1> QED BY <1>2 DEF CurAgree, Toggle, Stages

\* The parser never stages the slot that a copier warp is executing.
THEOREM SlotsExclusive == Spec => []SlotExclusive
BY Invariance, SlotsApart, PTL

-----------------------------------------------------------------------------
(* The registers *)

\* From the broadcast of the drained parser's registers on, s_state names the long
\* token that is copied, or the end of the tokens.
DrainPCs == {"load", "token", "longset", "loadlong", "trail", "done"} \cup HoldsLong
M        == s_state.cmd_pos
At(m)    == serial[m].pos
LongParsed == Parsed(stream, At(M))
DrainedState ==
    /\ M \in 0 .. Len(stream.cmd)
    /\ s_state = [At(M) EXCEPT !.length_offset = s_state.length_offset]
    /\ M < Len(stream.cmd) => IsLong(stream.cmd[M + 1])
LongPCs == {"token", "longset", "loadlong"} \cup HoldsLong

SerialInput == stream \in Streams /\ serial = Reference(stream)
PosTyped == pos \in [Warps -> PosType]
ParserAt ==
    pc[Parser] \in Staging \cup {"primed", "handoff", "check", "drained", "stated", "load"} =>
        pos[Parser].cmd_pos \in 0 .. Len(stream.cmd) /\ pos[Parser] = At(pos[Parser].cmd_pos)
\* The parser stages nothing only in front of a long token or of the end.
NoneStaged ==
    \/ pc[Parser] = "primed" /\ ~s_have[0]
    \/ pc[Parser] = "handoff" /\ ~s_have[Toggle(cur[Parser])]
    \/ pc[Parser] = "check" /\ ~s_have[cur[Parser]]
    \/ pc[Parser] \in {"drained", "stated", "load"}
    => ~CanStage
StateBroadcast ==
    /\ \A w \in Warps : pc[w] \in DrainPCs \/ (w = Parser /\ pc[w] = "stated") => DrainedState
    /\ \A w \in Warps : pc[w] \in LongPCs => M < Len(stream.cmd)
    /\ \A w \in Warps : pc[w] \in {"trail", "done"} => M = Len(stream.cmd)
    /\ pc[Parser] \in {"stated", "load"} => M = pos[Parser].cmd_pos
    /\ pc[Parser] \in {"stated", "load", "token", "longset", "loadlong", "trail", "done"} =>
          s_state.length_offset = At(M).length_offset
    /\ pc[Parser] \in {"rebroadcast", "longlit", "literals", "longmatch", "matched"} =>
          s_state.length_offset = LongParsed.length_offset
LongBroadcast ==
    \A w \in Warps : pc[w] \in HoldsLong \cup {"loadlong"} \/ (w = Parser /\ pc[w] = "longset") =>
        s_long = [lit |-> LongParsed.lit, match |-> LongParsed.match, offset |-> LongParsed.offset,
                  recent |-> LongParsed.recent, off16_pos |-> LongParsed.off16_pos]

\* The registers of a warp on its way from the long token to the one after it.
Fetched(w)  == [At(M) EXCEPT !.off16_pos = LongParsed.off16_pos,
                             !.length_offset = IF w = Parser THEN LongParsed.length_offset ELSE @]
Passed(w)   == [Fetched(w) EXCEPT !.cmd_pos = M + 1]
Counted     == [Passed(Parser) EXCEPT !.length_offset = LongParsed.length_offset]
LitCopied   == [Counted EXCEPT !.dst_pos = @ + LongParsed.lit, !.lit_pos = @ + LongParsed.lit]
Registers(w) ==
    /\ pc[w] \in {"token", "trail", "done"} => pos[w] = At(M)
    /\ pc[w] \in {"longset", "loadlong"} => pos[w] = IF w = Parser THEN Fetched(w) ELSE At(M)
    /\ pc[w] \in {"rebroadcast", "longlit"} => pos[w] = Passed(w)
    /\ pc[w] \in {"literals", "longmatch"} => pos[w] = Counted
    /\ pc[w] \in {"matched", "reprime"} => pos[w] = LitCopied

RInv == /\ SerialInput /\ PosTyped /\ ParserAt /\ NoneStaged /\ StateBroadcast /\ LongBroadcast
        /\ \A w \in Warps : Registers(w)

\* The states of the serial decode, which the registers are compared with, exist.
LEMMA InputFacts ==
    ASSUME SerialInput
    PROVE  /\ Len(stream.cmd) \in Nat
           /\ \A m \in 0 .. Len(stream.cmd) : At(m) \in PosType /\ At(m).cmd_pos = m
<1>1. stream \in Streams /\ serial = Reference(stream)
    BY DEF SerialInput
<1>2. Len(stream.cmd) \in Nat
    BY <1>1, StreamsAssumption DEF WellFormed
<1> QED BY <1>1, <1>2, SerialRegisters DEF At

\* What the long token at M is parsed into, and where it leads.
LEMMA LongFacts ==
    ASSUME RInv, M < Len(stream.cmd), DrainedState
    PROVE  /\ M \in 0 .. Len(stream.cmd) - 1 /\ M + 1 \in 0 .. Len(stream.cmd)
           /\ At(M) \in PosType /\ At(M).cmd_pos = M
           /\ LongParsed.lit \in Nat /\ LongParsed.match \in Nat /\ LongParsed.offset \in Int
           /\ LongParsed.recent \in BOOLEAN
           /\ LongParsed.off16_pos \in Nat /\ LongParsed.length_offset \in Nat
           /\ \/ LongParsed.lit > 0 /\ LongParsed.match = 0
              \/ LongParsed.lit = 0 /\ LongParsed.match > 0
           /\ At(M + 1) = [cmd_pos |-> M + 1, lit_pos |-> At(M).lit_pos + LongParsed.lit,
                           off16_pos |-> LongParsed.off16_pos,
                           dst_pos |-> At(M).dst_pos + LongParsed.lit + LongParsed.match,
                           recent_offset |-> IF LongParsed.recent THEN At(M).recent_offset
                                             ELSE LongParsed.offset,
                           length_offset |-> LongParsed.length_offset]
<1>1. stream \in Streams /\ serial = Reference(stream) /\ Len(stream.cmd) \in Nat
    BY InputFacts DEF RInv, SerialInput
<1>2. M \in 0 .. Len(stream.cmd) - 1 /\ M + 1 \in 0 .. Len(stream.cmd) /\ M \in 0 .. Len(stream.cmd)
      /\ IsLong(stream.cmd[M + 1])
    BY <1>1 DEF DrainedState
<1>3. At(M) \in PosType /\ At(M).cmd_pos = M
    BY <1>2, InputFacts DEF RInv
<1> HIDE DEF M
<1>4. Reference(stream)[M].pos = At(M) /\ Reference(stream)[M + 1].pos = At(M + 1)
    BY <1>1 DEF At
<1> QED BY SMTT(40), <1>1, <1>2, <1>3, <1>4, LongStep DEF LongParsed

\* The names for the long token keep their values with the token.
LEMMA LongNamed ==
    ASSUME UNCHANGED <<stream, serial>>, M' = M
    PROVE  /\ LongParsed' = LongParsed /\ At(M)' = At(M)
           /\ Counted' = Counted /\ LitCopied' = LitCopied
           /\ \A w \in Warps : Fetched(w)' = Fetched(w) /\ Passed(w)' = Passed(w)
<1>1. LongParsed' = LongParsed /\ At(M)' = At(M)
    BY DEF At, LongParsed
<1>2. \A w : Fetched(w)' = Fetched(w)
    BY <1>1 DEF Fetched
<1>3. \A w : Passed(w)' = Passed(w)
    BY <1>1, <1>2 DEF Passed
<1>4. Counted' = Counted
    BY <1>1, <1>3 DEF Counted
<1> QED BY <1>1, <1>2, <1>3, <1>4 DEF LitCopied

\* What a drained state and its long token are depends on the broadcast alone.
LEMMA LongKept ==
    ASSUME UNCHANGED <<stream, serial, s_state>>
    PROVE  /\ DrainedState' = DrainedState /\ M' = M /\ LongParsed' = LongParsed /\ At(M)' = At(M)
           /\ Counted' = Counted /\ LitCopied' = LitCopied
           /\ \A w \in Warps : Fetched(w)' = Fetched(w) /\ Passed(w)' = Passed(w)
<1>1. M' = M
    BY DEF M
<1>2. DrainedState' = DrainedState
    BY DEF DrainedState, M, At
<1> QED BY <1>1, <1>2, LongNamed

\* A warp that keeps its registers keeps what is claimed of them.
LEMMA RegistersKept ==
    ASSUME NEW w \in Warps, UNCHANGED <<stream, serial>>, M' = M, pos'[w] = pos[w],
           Registers(w), pc'[w] = pc[w] \/ pc'[w] \notin DrainPCs
    PROVE  Registers(w)'
BY LongNamed DEF Registers, DrainPCs, HoldsLong

\* Initially every warp is at the first token.
LEMMA InitRegisters == Init => RInv
<1> SUFFICES ASSUME Init PROVE RInv
    OBVIOUS
<1> USE WarpFacts
<1>1. SerialInput /\ serial = Reference(stream)
    BY DEF Init, SerialInput
<1>2. /\ pc[Parser] = "prime" /\ \A w \in Warps : pc[w] = "prime" \/ pc[w] = "primed"
      /\ pos = [w \in Warps |-> InitialPos]
    BY DEF Init
<1>3. Len(stream.cmd) \in Nat /\ At(0) \in PosType /\ At(0).cmd_pos = 0
    BY <1>1, InputFacts
<1>4. At(0) = InitialPos
    <2>1. Reference(stream)[0] = FirstState
        BY <1>3, ReferenceUnfolds
    <2>2. At(0) = FirstState.pos
        BY <1>1, <2>1 DEF At
    <2> QED BY <2>2 DEF FirstState
<1>5. PosTyped
    BY <1>2, <1>3, <1>4 DEF PosTyped
<1>6. ParserAt
    BY <1>2, <1>3, <1>4 DEF ParserAt
<1>7. NoneStaged /\ StateBroadcast /\ LongBroadcast /\ \A w \in Warps : Registers(w)
    BY <1>2 DEF NoneStaged, StateBroadcast, LongBroadcast, Registers, DrainPCs, LongPCs, HoldsLong
<1> QED BY <1>1, <1>5, <1>6, <1>7 DEF RInv

\* The parser's registers after staging a batch are the serial ones after its tokens.
LEMMA StagingRegisters == RInv /\ IInv /\ ParserStep /\ pc[Parser] \in Staging => RInv'
<1> SUFFICES ASSUME RInv, IInv, ParserStep, pc[Parser] \in Staging PROVE RInv'
    OBVIOUS
<1> USE WarpFacts
<1>1. StageLanes \/ StageHead \/ StageNothing
    BY DEF ParserStep, DrainBroadcast, LongToken, Staging
<1>2. UNCHANGED <<stream, serial, s_state, s_long, cur>>
    BY <1>1 DEF StageLanes, StageHead, StageNothing, input
<1>3. PICK label \in {"prime_head", "fill_head", "primed", "handoff"} :
          /\ pc' = [pc EXCEPT ![Parser] = label]
          /\ label = "primed" => pc[Parser] \in {"prime", "prime_head"}
          /\ label = "handoff" => pc[Parser] \in {"fill", "fill_head"}
    BY <1>1 DEF StageLanes, StageHead, StageNothing, Goto, AfterFill
<1>4. /\ pc \in [Warps -> PCs] /\ pc'[Parser] = label
      /\ \A w \in Warps : w # Parser => pc'[w] = pc[w]
    BY <1>3 DEF IInv, PcType
<1>5. pos[Parser].cmd_pos \in 0 .. Len(stream.cmd) /\ pos[Parser] = At(pos[Parser].cmd_pos)
    BY DEF RInv, ParserAt
<1>6. PICK q \in PosType :
          /\ pos' = [pos EXCEPT ![Parser] = q]
          /\ q.cmd_pos \in 0 .. Len(stream.cmd) /\ q = At(q.cmd_pos)
          /\ ~StageHead => q = pos[Parser]
    <2>1. CASE StageHead
        <3> DEFINE m == pos[Parser].cmd_pos
                   n == BatchSize(stream, At(m))
                   q == At(m + n)
        <3>1. pos' = [pos EXCEPT ![Parser] = Advance(stream, pos[Parser])]
            BY <2>1 DEF StageHead
        <3>2. stream \in Streams /\ serial = Reference(stream) /\ Len(stream.cmd) \in Nat
            BY InputFacts DEF RInv, SerialInput
        <3>3. n \in Nat /\ m + n <= Len(stream.cmd) /\ m \in 0 .. Len(stream.cmd)
            BY <1>5, <3>2, WindowIsSerial DEF At
        <3>4. Advance(stream, At(m)) = q
            BY <3>2, <3>3, AdvanceIsSerial DEF At
        <3> HIDE DEF n, m
        <3>5. m + n \in 0 .. Len(stream.cmd)
            BY <3>2, <3>3
        <3>6. q \in PosType /\ q.cmd_pos = m + n
            BY <3>5, InputFacts DEF RInv
        <3> HIDE DEF q
        <3>7. q = At(q.cmd_pos) /\ q.cmd_pos \in 0 .. Len(stream.cmd)
            BY <3>5, <3>6 DEF q
        <3>8. pos' = [pos EXCEPT ![Parser] = q]
            BY <1>5, <3>1, <3>4 DEF m
        <3> QED BY <2>1, <3>6, <3>7, <3>8
    <2>2. CASE ~StageHead
        <3>1. pos' = pos
            BY <1>1, <2>2 DEF StageLanes, StageNothing
        <3>2. pos \in [Warps -> PosType]
            BY DEF RInv, PosTyped
        <3>3. pos' = [pos EXCEPT ![Parser] = pos[Parser]] /\ pos[Parser] \in PosType
            BY <3>1, <3>2
        <3> QED BY <1>5, <2>2, <3>3
    <2> QED BY <2>1, <2>2
<1>7. PosTyped' /\ pos'[Parser] = q /\ \A w \in Warps : w # Parser => pos'[w] = pos[w]
    BY <1>6 DEF RInv, PosTyped
<1>8. ParserAt'
    BY <1>2, <1>6, <1>7 DEF ParserAt, At
<1>9. NoneStaged'
    <2>1. CASE StageLanes
        BY <1>4, <2>1 DEF NoneStaged, StageLanes, Goto
    <2>2. CASE StageHead
        <3>1. s_have'[Slot] = TRUE
            BY <2>2 DEF StageHead, IInv, HaveType, Stages, Slot, CurAgree, Toggle
        <3>2. /\ pc'[Parser] = "primed" => Slot = 0
              /\ pc'[Parser] = "handoff" => Slot = Toggle(cur'[Parser])
            BY <1>2, <1>3, <1>4 DEF Slot
        <3>3. pc'[Parser] \in {"primed", "handoff"}
            BY <1>4, <2>2 DEF StageHead, Goto, AfterFill
        <3> QED BY <3>1, <3>2, <3>3 DEF NoneStaged
    <2>3. CASE StageNothing
        <3>1. ~CanStage /\ UNCHANGED <<pos, stream>>
            BY <2>3 DEF StageNothing, input
        <3> QED BY <3>1 DEF NoneStaged, CanStage
    <2> QED BY <1>1, <2>1, <2>2, <2>3
<1>10. StateBroadcast'
    <2>1. DrainedState' = DrainedState /\ M' = M
        BY <1>2, LongKept
    <2>2. \A w \in Warps : w # Parser => pc'[w] = pc[w]
        BY <1>4
    <2>3. pc'[Parser] \in {"prime_head", "fill_head", "primed", "handoff"}
        BY <1>3, <1>4
    <2>4. /\ \A w \in Warps : pc'[w] \in DrainPCs \/ (w = Parser /\ pc'[w] = "stated") => DrainedState'
          /\ \A w \in Warps : pc'[w] \in LongPCs => M' < Len(stream'.cmd)
          /\ \A w \in Warps : pc'[w] \in {"trail", "done"} => M' = Len(stream'.cmd)
        BY <1>2, <2>1, <2>2, <2>3 DEF RInv, StateBroadcast, DrainPCs, LongPCs, HoldsLong
    <2> QED BY <2>3, <2>4 DEF StateBroadcast
<1>11. LongBroadcast'
    BY <1>2, <1>4, LongKept DEF RInv, LongBroadcast, HoldsLong
<1>12. \A w \in Warps : Registers(w)'
    <2>1. \A w \in Warps : w # Parser => Registers(w)'
        BY <1>2, <1>4, <1>7, LongKept, RegistersKept DEF RInv
    <2>2. Registers(Parser)'
        BY <1>4 DEF Registers
    <2> QED BY <2>1, <2>2
<1>13. SerialInput'
    BY <1>2 DEF RInv, SerialInput
<1> QED BY <1>7, <1>8, <1>9, <1>10, <1>11, <1>12, <1>13 DEF RInv
\* A copier warp that moves within a batch disturbs none of it.
LEMMA QuietRegisters ==
    ASSUME RInv, UNCHANGED <<stream, serial, pos, s_state, s_long, s_have, cur>>,
           pc'[Parser] = pc[Parser],
           \A w \in Team : pc'[w] = pc[w] \/ pc'[w] \notin DrainPCs
    PROVE  RInv'
<1> USE WarpFacts DEF RInv
<1>1. SerialInput' /\ PosTyped' /\ ParserAt'
    BY DEF SerialInput, PosTyped, ParserAt, At
<1>2. NoneStaged'
    BY DEF NoneStaged, CanStage
<1>3. \A w \in Warps : pc'[w] = pc[w] \/ (w # Parser /\ pc'[w] \notin DrainPCs)
    OBVIOUS
<1>4. StateBroadcast'
    <2>1. LongPCs \subseteq DrainPCs /\ "trail" \in DrainPCs /\ "done" \in DrainPCs
        BY DEF LongPCs, DrainPCs
    <2> QED BY <1>3, <2>1, LongKept DEF StateBroadcast
<1>5. LongBroadcast'
    BY <1>3, LongKept DEF LongBroadcast, DrainPCs
<1>6. \A w \in Warps : Registers(w)'
    BY <1>3, LongKept, RegistersKept
<1> QED BY <1>1, <1>2, <1>4, <1>5, <1>6

\* The copier warps execute a batch without touching the registers.
LEMMA TeamRegisters ==
    RInv /\ IInv /\ (DependentMatch \/ PipeTeamBar \/ \E w \in Team : TeamStep(w)) => RInv'
<1> SUFFICES ASSUME RInv, IInv, DependentMatch \/ PipeTeamBar \/ \E w \in Team : TeamStep(w)
             PROVE  RInv'
    OBVIOUS
<1> USE WarpFacts
<1>1. UNCHANGED <<stream, serial, pos, s_state, s_long, s_have, cur>>
    BY DEF DependentMatch, PipeTeamBar, TeamStep, FlatLiterals, FlatIndependent, FlatDict, FlatPass,
           input, shared
<1>2. pc \in [Warps -> PCs]
    BY DEF IInv, PcType
<1>3. CASE PipeTeamBar
    <2>1. pc'[Parser] = pc[Parser] /\ \A w \in Team : pc'[w] \in {"dep", "depdone", "handoff"}
        BY <1>3 DEF PipeTeamBar
    <2> QED BY <1>1, <2>1, QuietRegisters DEF DrainPCs, HoldsLong
<1>4. CASE DependentMatch \/ \E w \in Team : TeamStep(w)
    <2>1. \/ pc' = pc
          \/ \E w \in Team, label \in {"im", "dm", "flatdone", "depdone"} : pc' = [pc EXCEPT ![w] = label]
        BY <1>4 DEF DependentMatch, TeamStep, FlatLiterals, FlatIndependent, FlatDict, FlatPass, Goto
    <2>2. pc'[Parser] = pc[Parser] /\ \A w \in Team : pc'[w] = pc[w] \/ pc'[w] \notin DrainPCs
        BY <1>2, <2>1 DEF DrainPCs, HoldsLong
    <2> QED BY <1>1, <2>2, QuietRegisters
<1> QED BY <1>3, <1>4

\* The loop test: an unset flag sends the parser to the drain, in front of a long token.
LEMMA CheckRegisters == ASSUME RInv, IInv, NEW w \in Warps, CheckHave(w) PROVE RInv'
<1> USE WarpFacts
<1>1. UNCHANGED <<stream, serial, pos, s_state, s_long, s_have, cur>>
    BY DEF CheckHave, input, shared
<1>2. PICK label : /\ pc' = [pc EXCEPT ![w] = label]
                   /\ pc[w] = "check"
                   /\ s_have[cur[w]] => label = IF w = Parser THEN "fill" ELSE "lit"
                   /\ ~s_have[cur[w]] => label = IF w = Parser THEN "drained" ELSE "stated"
    BY DEF CheckHave, Goto, Have
<1>3. pc \in [Warps -> PCs]
    BY DEF IInv, PcType
<1>4. CASE w # Parser
    <2>1. pc'[Parser] = pc[Parser] /\ \A v \in Team : pc'[v] = pc[v] \/ pc'[v] \notin DrainPCs
        BY <1>2, <1>3, <1>4 DEF DrainPCs, HoldsLong
    <2> QED BY <1>1, <2>1, QuietRegisters
<1>5. CASE w = Parser
    <2> USE DEF RInv
    <2>1. pc'[Parser] = label /\ label \in {"fill", "drained"} /\ \A v \in Warps : v # Parser => pc'[v] = pc[v]
        BY <1>2, <1>3, <1>5
    <2>2. SerialInput' /\ PosTyped'
        BY <1>1 DEF SerialInput, PosTyped
    <2>3. ParserAt'
        BY <1>1, <1>2, <1>5 DEF ParserAt, At
    <2>4. NoneStaged'
        BY <1>1, <1>2, <1>5, <2>1 DEF NoneStaged, CanStage
    <2>5. \A v \in Warps : pc'[v] = pc[v] \/ (v = Parser /\ pc'[v] \in {"fill", "drained"})
        BY <2>1
    <2>6. "fill" \notin DrainPCs /\ "drained" \notin DrainPCs /\ LongPCs \subseteq DrainPCs
          /\ "trail" \in DrainPCs /\ "done" \in DrainPCs
          /\ HoldsLong \subseteq DrainPCs /\ "loadlong" \in DrainPCs
        BY DEF DrainPCs, LongPCs, HoldsLong
    <2>7. StateBroadcast'
        BY <1>1, <2>1, <2>5, <2>6, LongKept DEF StateBroadcast
    <2>8. LongBroadcast'
        BY <1>1, <2>1, <2>5, <2>6, LongKept DEF LongBroadcast
    <2>9. \A v \in Warps : Registers(v)'
        BY <1>1, <2>5, <2>6, LongKept, RegistersKept
    <2> QED BY <2>2, <2>3, <2>4, <2>7, <2>8, <2>9
<1> QED BY <1>4, <1>5

\* A block barrier hands over what the parser has just broadcast.
LEMMA SyncRegisters == RInv /\ IInv /\ SyncThreads => RInv'
<1> SUFFICES ASSUME RInv, IInv, SyncThreads PROVE RInv'
    OBVIOUS
<1> USE WarpFacts DEF RInv
<1>1. PICK site \in BlockSites : \A w \in Warps : pc[w] = site
    <2>1. \A w \in Warps : Target(w) = pc[w]
        BY DEF SyncThreads, Target, BlockSites, Executing, TeamPCs, TeamSites
    <2> QED BY <2>1 DEF IInv, Lockstep, SyncThreads
<1>2. UNCHANGED <<stream, serial, pos, s_state, s_long, s_have>>
    BY DEF SyncThreads, shared, input
<1> DEFINE label == Resume(Parser, site)
<1>3. \A w \in Warps : pc'[w] = label
    BY <1>1 DEF SyncThreads, Resume
<1>4. \/ site \in {"primed", "handoff"} /\ label = "check"
      \/ site = "stated" /\ label = "load"
      \/ site = "longset" /\ label = "loadlong"
      \/ site = "rebroadcast" /\ label = "longlit"
      \/ site = "literals" /\ label = "longmatch"
      \/ site = "matched" /\ label = "reprime"
    BY <1>1 DEF Resume, BlockSites
<1> HIDE DEF label
<1>5. SerialInput' /\ PosTyped'
    BY <1>2 DEF SerialInput, PosTyped
<1>6. ParserAt'
    BY <1>1, <1>2, <1>3, <1>4 DEF ParserAt, At, Staging
<1>7. NoneStaged'
    <2>1. CanStage' = CanStage
        BY <1>2 DEF CanStage
    <2>2. CASE site \in {"primed", "handoff"}
        <3>1. cur'[Parser] = IF site = "primed" THEN 0 ELSE Toggle(cur[Parser])
            BY <1>1, <2>2 DEF SyncThreads
        <3> QED BY <1>1, <1>2, <1>3, <1>4, <2>1, <2>2, <3>1 DEF NoneStaged
    <2>3. CASE site \notin {"primed", "handoff"}
        BY <1>1, <1>3, <1>4, <2>1, <2>3 DEF NoneStaged
    <2> QED BY <2>2, <2>3
<1>8. StateBroadcast'
    BY <1>1, <1>2, <1>3, <1>4, LongKept DEF StateBroadcast, DrainPCs, LongPCs, HoldsLong
<1>9. LongBroadcast'
    BY <1>1, <1>2, <1>3, <1>4, LongKept DEF LongBroadcast, HoldsLong
<1>10. ASSUME NEW w \in Warps PROVE Registers(w)'
    <2>1. pos'[w] = pos[w] /\ pc[w] = site /\ pc'[w] = label /\ Registers(w)
        BY <1>1, <1>2, <1>3
    <2> QED BY <1>2, <1>4, <2>1, LongKept DEF Registers
<1> QED BY <1>5, <1>6, <1>7, <1>8, <1>9, <1>10
\* The drained parser broadcasts the registers of the serial decoder in front of the
\* long token; no other warp is between a broadcast and the re-prime.
LEMMA DrainRegisters == RInv /\ IInv /\ DrainBroadcast => RInv'
<1> SUFFICES ASSUME RInv, IInv, DrainBroadcast PROVE RInv'
    OBVIOUS
<1> USE WarpFacts DEF RInv
<1>1. /\ UNCHANGED <<stream, serial, pos, s_long, s_have, cur>>
      /\ s_state' = pos[Parser] /\ pc[Parser] = "drained"
      /\ pc' = [pc EXCEPT ![Parser] = "stated"]
    BY DEF DrainBroadcast, input, Goto
<1>2. pc \in [Warps -> PCs]
    BY DEF IInv, PcType
<1>3. \A w \in Warps : pc[w] \notin DrainPCs
    <2>1. \A w \in Warps : Target(w) = "stated"
        BY <1>1 DEF IInv, Lockstep, Target, Executing, TeamPCs, TeamSites
    <2>2. ASSUME NEW w \in Warps, pc[w] \in DrainPCs PROVE Target(w) # "stated"
        BY <2>2 DEF Target, DrainPCs, HoldsLong, Executing, TeamPCs, TeamSites
    <2> QED BY <2>1, <2>2
<1>4. pc'[Parser] = "stated" /\ \A w \in Warps : pc'[w] \notin DrainPCs
    BY <1>1, <1>2, <1>3 DEF DrainPCs, HoldsLong
<1>5. SerialInput' /\ PosTyped'
    BY <1>1 DEF SerialInput, PosTyped
<1> DEFINE m == pos[Parser].cmd_pos
<1>6. m \in 0 .. Len(stream.cmd) /\ pos[Parser] = At(m) /\ ParserAt'
    BY <1>1, <1>4 DEF ParserAt, At
<1>7. ~CanStage /\ NoneStaged'
    BY <1>1, <1>4 DEF NoneStaged, CanStage
<1>8. Len(stream.cmd) \in Nat /\ At(m) \in PosType
    BY <1>6, InputFacts
<1>9. M' = m /\ At(M)' = At(m)
    BY <1>1 DEF M, At
<1>10. m < Len(stream.cmd) => IsLong(stream.cmd[m + 1])
    <2>1. ~(BatchSize(stream, pos[Parser]) > 0) \/ ~(m < Len(stream.cmd))
        BY <1>7 DEF CanStage
    <2> QED BY <1>6, <1>8, <2>1, BatchFacts
<1>11. StateBroadcast'
    <2>1. DrainedState'
        <3>1. s_state' = [At(M)' EXCEPT !.length_offset = s_state'.length_offset]
            BY <1>1, <1>6, <1>8, <1>9 DEF PosType
        <3> QED BY <1>1, <1>6, <1>9, <1>10, <3>1 DEF DrainedState
    <2>2. s_state'.length_offset = At(M)'.length_offset
        BY <1>1, <1>6, <1>9
    <2>3. \A w \in Warps : pc'[w] \notin LongPCs /\ pc'[w] \notin {"trail", "done"}
        BY <1>4 DEF DrainPCs, LongPCs
    <2> QED BY <1>1, <1>4, <1>9, <2>1, <2>2, <2>3 DEF StateBroadcast
<1>12. LongBroadcast'
    BY <1>4 DEF LongBroadcast, DrainPCs
<1>13. \A w \in Warps : Registers(w)'
    BY <1>4 DEF Registers, DrainPCs, HoldsLong
<1> QED BY <1>5, <1>6, <1>7, <1>11, <1>12, <1>13

\* A warp that moves on from one long-token site to the next, its registers updated
\* as Registers says, keeps the invariant.
LEMMA LongMove ==
    ASSUME RInv, NEW w \in Warps, NEW label, NEW q \in PosType,
           UNCHANGED <<stream, serial, s_state, s_long, s_have, cur>>,
           pc \in [Warps -> PCs], pc' = [pc EXCEPT ![w] = label], pos' = [pos EXCEPT ![w] = q],
           \/ pc[w] = "load" /\ label \in {"token", "longset", "trail"}
           \/ /\ pc[w] \in {"loadlong"} \cup HoldsLong /\ label \in HoldsLong \cup {"prime", "primed"}
              /\ pc[w] = "reprime" => label \in {"prime", "primed"},
           label = "trail" => M = Len(stream.cmd),
           label \in LongPCs => M < Len(stream.cmd),
           w = Parser => /\ label # "longset"
                         /\ label \in {"token", "trail"} => s_state.length_offset = At(M).length_offset
                         /\ label \in HoldsLong => pc[w] \in HoldsLong
                         /\ label = "primed" => FALSE
                         /\ label = "prime" => q.cmd_pos \in 0 .. Len(stream.cmd) /\ q = At(q.cmd_pos),
           label \in {"token", "longset", "trail"} => q = At(M),
           label \in {"rebroadcast", "longlit"} => q = Passed(w),
           label \in {"literals", "longmatch"} => q = Counted,
           label \in {"matched", "reprime"} => q = LitCopied,
           label = "prime" => w = Parser
    PROVE  RInv'
<1> USE WarpFacts DEF RInv
<1>1. pc'[w] = label /\ \A v \in Warps : v # w => pc'[v] = pc[v]
    OBVIOUS
<1>2. pos'[w] = q /\ \A v \in Warps : v # w => pos'[v] = pos[v]
    BY DEF PosTyped
<1>3. SerialInput' /\ PosTyped'
    BY DEF SerialInput, PosTyped
<1>4. ParserAt'
    BY <1>1, <1>2 DEF ParserAt, At, Staging, HoldsLong
<1>5. NoneStaged'
    BY <1>1, <1>2 DEF NoneStaged, CanStage, HoldsLong
<1>6. StateBroadcast'
    <2>1. label \in DrainPCs \cup {"prime", "primed"} /\ DrainedState
        BY DEF StateBroadcast, DrainPCs, LongPCs, HoldsLong
    <2>2. \A v \in Warps : pc'[v] \in DrainPCs \/ (v = Parser /\ pc'[v] = "stated") => DrainedState'
        BY <1>1, <2>1, LongKept DEF StateBroadcast, DrainPCs, HoldsLong
    <2>3. \A v \in Warps : pc'[v] \in LongPCs => M' < Len(stream'.cmd)
        BY <1>1, LongKept DEF StateBroadcast
    <2>4. \A v \in Warps : pc'[v] \in {"trail", "done"} => M' = Len(stream'.cmd)
        BY <1>1, LongKept DEF StateBroadcast, HoldsLong
    <2>5. pc'[Parser] \notin {"stated", "load"} \/ (pc'[Parser] = pc[Parser] /\ w # Parser)
        BY <1>1 DEF HoldsLong
    <2>6. pc'[Parser] \in {"stated", "load"} => M' = pos'[Parser].cmd_pos
        BY <1>2, <2>5, LongKept DEF StateBroadcast
    <2>7. pc'[Parser] \in {"stated", "load", "token", "longset", "loadlong", "trail", "done"} =>
             s_state'.length_offset = At(M)'.length_offset
        BY <1>1, LongKept DEF StateBroadcast, HoldsLong
    <2>8. pc'[Parser] \in {"rebroadcast", "longlit", "literals", "longmatch", "matched"} =>
             s_state'.length_offset = LongParsed'.length_offset
        BY <1>1, LongKept DEF StateBroadcast, HoldsLong
    <2> QED BY <2>2, <2>3, <2>4, <2>6, <2>7, <2>8 DEF StateBroadcast
<1>7. LongBroadcast'
    BY <1>1, LongKept DEF LongBroadcast, LongPCs, HoldsLong
<1>8. \A v \in Warps : Registers(v)'
    <2>1. \A v \in Warps : v # w => Registers(v)'
        BY <1>1, <1>2, LongKept, RegistersKept
    <2>2. Registers(w)'
        BY <1>1, <1>2, LongKept DEF Registers, HoldsLong
    <2> QED BY <2>1, <2>2
<1> QED BY <1>3, <1>4, <1>5, <1>6, <1>7, <1>8
\* A warp loads the broadcast registers, which still are those of the drained parser.
LEMMA LoadRegisters == ASSUME RInv, IInv, NEW w \in Warps, LoadState(w) PROVE RInv'
<1> USE WarpFacts
<1>1. UNCHANGED <<stream, serial, s_state, s_long, s_have, cur>>
    BY DEF LoadState, shared, input
<1>2. /\ pos' = [pos EXCEPT ![w] = s_state]
      /\ pc' = [pc EXCEPT ![w] = AfterLoad(w)] /\ pc[w] = "load"
    BY DEF LoadState, Goto, Loaded
<1>3. pc \in [Warps -> PCs]
    BY DEF IInv, PcType
<1>4. pc[Parser] \in {"load", "token", "longset", "trail", "done"}
    <2>1. Target(w) \in {"done", "longset"} /\ Target(Parser) = Target(w)
        BY <1>2 DEF IInv, Lockstep, Target, Executing, TeamPCs, TeamSites
    <2>2. pc[Parser] \in PCs
        BY <1>3
    <2>3. /\ Target(Parser) = "longset" => pc[Parser] \in {"load", "token", "longset"}
          /\ Target(Parser) = "done" => pc[Parser] \in {"load", "trail", "done"}
        BY <2>2 DEF Target, PCs, BlockSites, TeamSites, ParserPCs, TeamPCs, CommonPCs, Executing
    <2> QED BY <2>1, <2>3
<1>5. DrainedState /\ s_state.length_offset = At(M).length_offset
    BY <1>2, <1>4 DEF RInv, StateBroadcast, DrainPCs
<1>6. Len(stream.cmd) \in Nat /\ M \in 0 .. Len(stream.cmd) /\ At(M) \in PosType
    BY <1>5, InputFacts DEF RInv, DrainedState
<1>7. s_state = At(M)
    BY <1>5, <1>6 DEF DrainedState, PosType
<1>8. \/ M = Len(stream.cmd) /\ AfterLoad(w) = "trail"
      \/ M < Len(stream.cmd) /\ AfterLoad(w) = IF w = Parser THEN "token" ELSE "longset"
    BY <1>6 DEF AfterLoad, M
<1> HIDE DEF M
<1> QED BY <1>1, <1>2, <1>3, <1>5, <1>6, <1>7, <1>8, LongMove DEF HoldsLong, LongPCs

\* The parser decodes the long token and broadcasts what it is parsed into.
LEMMA LongTokenRegisters == RInv /\ IInv /\ LongToken => RInv'
<1> SUFFICES ASSUME RInv, IInv, LongToken PROVE RInv'
    OBVIOUS
<1> USE WarpFacts DEF RInv
<1>1. UNCHANGED <<stream, serial, s_state, s_have, cur>>
    BY DEF LongToken, input
<1>2. pc[Parser] = "token" /\ pc' = [pc EXCEPT ![Parser] = "longset"]
    BY DEF LongToken, Goto
<1>3. pc \in [Warps -> PCs]
    BY DEF IInv, PcType
<1>4. \A w \in Warps : pc[w] \notin HoldsLong \cup {"loadlong"}
    BY <1>2 DEF IInv, Lockstep, Target, Executing, TeamPCs, TeamSites, HoldsLong
<1>5. DrainedState /\ M < Len(stream.cmd) /\ pos[Parser] = At(M)
    BY <1>2 DEF StateBroadcast, DrainPCs, LongPCs, Registers
<1>6. /\ At(M) \in PosType /\ LongParsed.off16_pos \in Nat /\ LongParsed.length_offset \in Nat
    BY <1>5, LongFacts
<1>7. s_long' = [lit |-> LongParsed.lit, match |-> LongParsed.match, offset |-> LongParsed.offset,
                 recent |-> LongParsed.recent, off16_pos |-> LongParsed.off16_pos]
    BY <1>5 DEF LongToken, LongParsed
<1>8. pos' = [pos EXCEPT ![Parser] = Fetched(Parser)] /\ Fetched(Parser) \in PosType
    <2>1. pos' = [pos EXCEPT ![Parser].off16_pos = LongParsed.off16_pos,
                             ![Parser].length_offset = LongParsed.length_offset]
        BY <1>5 DEF LongToken, LongParsed
    <2>2. pos' = [pos EXCEPT ![Parser] = Fetched(Parser)]
        BY <1>5, <2>1 DEF Fetched, PosTyped
    <2>3. Fetched(Parser) \in PosType
        BY <1>6 DEF Fetched, PosType
    <2> QED BY <2>2, <2>3
<1>9. /\ pc'[Parser] = "longset" /\ \A w \in Warps : w # Parser => pc'[w] = pc[w]
      /\ pos'[Parser] = Fetched(Parser) /\ \A w \in Warps : w # Parser => pos'[w] = pos[w]
    BY <1>2, <1>3, <1>8 DEF PosTyped
<1>10. SerialInput' /\ PosTyped' /\ ParserAt' /\ NoneStaged'
    BY <1>1, <1>8, <1>9 DEF SerialInput, PosTyped, ParserAt, NoneStaged, Staging
<1>11. StateBroadcast'
    <2>1. "token" \in LongPCs /\ "token" \in DrainPCs
        BY DEF LongPCs, DrainPCs
    <2> QED BY <1>1, <1>2, <1>5, <1>9, <2>1, LongKept DEF StateBroadcast
<1>12. LongBroadcast'
    BY <1>1, <1>4, <1>7, <1>9, LongKept DEF LongBroadcast
<1>13. \A w \in Warps : Registers(w)'
    <2>1. \A w \in Warps : w # Parser => Registers(w)'
        BY <1>1, <1>9, LongKept, RegistersKept
    <2>2. Registers(Parser)'
        BY <1>1, <1>9, LongKept DEF Registers
    <2> QED BY <2>1, <2>2
<1> QED BY <1>10, <1>11, <1>12, <1>13
\* Updates of the registers, written out.
LEMMA RegisterUpdates ==
    ASSUME NEW a \in PosType, NEW x, NEW y
    PROVE  /\ [a EXCEPT !.off16_pos = x, !.length_offset = y] =
                [cmd_pos |-> a.cmd_pos, lit_pos |-> a.lit_pos, off16_pos |-> x, dst_pos |-> a.dst_pos,
                 recent_offset |-> a.recent_offset, length_offset |-> y]
           /\ [a EXCEPT !.off16_pos = x, !.cmd_pos = y] =
                [cmd_pos |-> y, lit_pos |-> a.lit_pos, off16_pos |-> x, dst_pos |-> a.dst_pos,
                 recent_offset |-> a.recent_offset, length_offset |-> a.length_offset]
           /\ [a EXCEPT !.dst_pos = x, !.lit_pos = y] =
                [cmd_pos |-> a.cmd_pos, lit_pos |-> y, off16_pos |-> a.off16_pos, dst_pos |-> x,
                 recent_offset |-> a.recent_offset, length_offset |-> a.length_offset]
<1>0. a = [cmd_pos |-> a.cmd_pos, lit_pos |-> a.lit_pos, off16_pos |-> a.off16_pos,
                dst_pos |-> a.dst_pos, recent_offset |-> a.recent_offset, length_offset |-> a.length_offset]
    BY DEF PosType
<1>1. [a EXCEPT !.off16_pos = x, !.length_offset = y] =
        [cmd_pos |-> a.cmd_pos, lit_pos |-> a.lit_pos, off16_pos |-> x,
                dst_pos |-> a.dst_pos, recent_offset |-> a.recent_offset, length_offset |-> y]
    <2> DEFINE b == [a EXCEPT !.off16_pos = x]
    <2>1. b = [cmd_pos |-> a.cmd_pos, lit_pos |-> a.lit_pos, off16_pos |-> x,
                dst_pos |-> a.dst_pos, recent_offset |-> a.recent_offset, length_offset |-> a.length_offset]
        BY <1>0
    <2>2. [a EXCEPT !.off16_pos = x, !.length_offset = y] = [b EXCEPT !.length_offset = y]
        OBVIOUS
    <2> HIDE DEF b
    <2> QED BY <2>1, <2>2
<1>2. [a EXCEPT !.off16_pos = x, !.cmd_pos = y] =
        [cmd_pos |-> y, lit_pos |-> a.lit_pos, off16_pos |-> x,
                dst_pos |-> a.dst_pos, recent_offset |-> a.recent_offset, length_offset |-> a.length_offset]
    <2> DEFINE b == [a EXCEPT !.off16_pos = x]
    <2>1. b = [cmd_pos |-> a.cmd_pos, lit_pos |-> a.lit_pos, off16_pos |-> x,
                dst_pos |-> a.dst_pos, recent_offset |-> a.recent_offset, length_offset |-> a.length_offset]
        BY <1>0
    <2>2. [a EXCEPT !.off16_pos = x, !.cmd_pos = y] = [b EXCEPT !.cmd_pos = y]
        OBVIOUS
    <2> HIDE DEF b
    <2> QED BY <2>1, <2>2
<1>3. [a EXCEPT !.dst_pos = x, !.lit_pos = y] =
        [cmd_pos |-> a.cmd_pos, lit_pos |-> y, off16_pos |-> a.off16_pos,
                dst_pos |-> x, recent_offset |-> a.recent_offset, length_offset |-> a.length_offset]
    <2> DEFINE b == [a EXCEPT !.dst_pos = x]
    <2>1. b = [cmd_pos |-> a.cmd_pos, lit_pos |-> a.lit_pos, off16_pos |-> a.off16_pos,
                dst_pos |-> x, recent_offset |-> a.recent_offset, length_offset |-> a.length_offset]
        BY <1>0
    <2>2. [a EXCEPT !.dst_pos = x, !.lit_pos = y] = [b EXCEPT !.lit_pos = y]
        OBVIOUS
    <2> HIDE DEF b
    <2> QED BY <2>1, <2>2
<1> QED BY <1>1, <1>2, <1>3

\* The registers on the way past the long token are registers.
LEMMA LongTyped ==
    ASSUME RInv, NEW w \in Warps, pc[w] \in LongPCs
    PROVE  /\ DrainedState /\ M < Len(stream.cmd) /\ At(M) \in PosType
           /\ LongParsed.lit \in Nat /\ LongParsed.match \in Nat
           /\ LongParsed.off16_pos \in Nat /\ LongParsed.length_offset \in Nat
           /\ Fetched(w) = [cmd_pos |-> M, lit_pos |-> At(M).lit_pos,
                            off16_pos |-> LongParsed.off16_pos, dst_pos |-> At(M).dst_pos,
                            recent_offset |-> At(M).recent_offset,
                            length_offset |-> IF w = Parser THEN LongParsed.length_offset
                                              ELSE At(M).length_offset]
           /\ Passed(w) = [cmd_pos |-> M + 1, lit_pos |-> At(M).lit_pos,
                           off16_pos |-> LongParsed.off16_pos, dst_pos |-> At(M).dst_pos,
                           recent_offset |-> At(M).recent_offset,
                           length_offset |-> IF w = Parser THEN LongParsed.length_offset
                                             ELSE At(M).length_offset]
           /\ Counted = [cmd_pos |-> M + 1, lit_pos |-> At(M).lit_pos,
                         off16_pos |-> LongParsed.off16_pos, dst_pos |-> At(M).dst_pos,
                         recent_offset |-> At(M).recent_offset,
                         length_offset |-> LongParsed.length_offset]
           /\ LitCopied = [cmd_pos |-> M + 1, lit_pos |-> At(M).lit_pos + LongParsed.lit,
                           off16_pos |-> LongParsed.off16_pos,
                           dst_pos |-> At(M).dst_pos + LongParsed.lit,
                           recent_offset |-> At(M).recent_offset,
                           length_offset |-> LongParsed.length_offset]
           /\ Passed(w) \in PosType /\ Counted \in PosType /\ LitCopied \in PosType
<1>1. DrainedState /\ M < Len(stream.cmd)
    BY DEF RInv, StateBroadcast, LongPCs, DrainPCs
<1>2. /\ At(M) \in PosType /\ At(M).cmd_pos = M /\ M \in Nat
      /\ LongParsed.lit \in Nat /\ LongParsed.match \in Nat
      /\ LongParsed.off16_pos \in Nat /\ LongParsed.length_offset \in Nat
    BY <1>1, LongFacts
<1> HIDE DEF M, At, LongParsed
<1>3. \A v : Fetched(v) = [cmd_pos |-> M, lit_pos |-> At(M).lit_pos,
                       off16_pos |-> LongParsed.off16_pos, dst_pos |-> At(M).dst_pos,
                       recent_offset |-> At(M).recent_offset,
                       length_offset |-> IF v = Parser THEN LongParsed.length_offset
                                         ELSE At(M).length_offset]
    <2> SUFFICES ASSUME NEW v
                 PROVE  Fetched(v) = [cmd_pos |-> M, lit_pos |-> At(M).lit_pos,
                       off16_pos |-> LongParsed.off16_pos, dst_pos |-> At(M).dst_pos,
                       recent_offset |-> At(M).recent_offset,
                       length_offset |-> IF v = Parser THEN LongParsed.length_offset
                                         ELSE At(M).length_offset]
        OBVIOUS
    <2> DEFINE a == At(M)
               o == LongParsed.off16_pos
               l == IF v = Parser THEN LongParsed.length_offset ELSE At(M).length_offset
    <2>1. Fetched(v) = [a EXCEPT !.off16_pos = o, !.length_offset = l]
        BY DEF Fetched
    <2>2. a \in PosType /\ a.cmd_pos = M
        BY <1>2
    <2> HIDE DEF a, o, l
    <2>3. [a EXCEPT !.off16_pos = o, !.length_offset = l] =
            [cmd_pos |-> a.cmd_pos, lit_pos |-> a.lit_pos, off16_pos |-> o, dst_pos |-> a.dst_pos,
             recent_offset |-> a.recent_offset, length_offset |-> l]
        BY <2>2, RegisterUpdates
    <2> QED BY <2>1, <2>2, <2>3 DEF a, o, l
<1>4. \A v : Passed(v) = [cmd_pos |-> M + 1, lit_pos |-> At(M).lit_pos,
                      off16_pos |-> LongParsed.off16_pos, dst_pos |-> At(M).dst_pos,
                      recent_offset |-> At(M).recent_offset,
                      length_offset |-> IF v = Parser THEN LongParsed.length_offset
                                        ELSE At(M).length_offset]
    BY <1>3 DEF Passed
<1>5. Counted = [cmd_pos |-> M + 1, lit_pos |-> At(M).lit_pos,
                 off16_pos |-> LongParsed.off16_pos, dst_pos |-> At(M).dst_pos,
                 recent_offset |-> At(M).recent_offset,
                 length_offset |-> LongParsed.length_offset]
    BY <1>4 DEF Counted
<1>6. LitCopied = [cmd_pos |-> M + 1, lit_pos |-> At(M).lit_pos + LongParsed.lit,
                   off16_pos |-> LongParsed.off16_pos,
                   dst_pos |-> At(M).dst_pos + LongParsed.lit,
                   recent_offset |-> At(M).recent_offset,
                   length_offset |-> LongParsed.length_offset]
    <2>1. LitCopied = [Counted EXCEPT !.dst_pos = Counted.dst_pos + LongParsed.lit,
                                      !.lit_pos = Counted.lit_pos + LongParsed.lit]
        BY DEF LitCopied
    <2> QED BY <1>5, <2>1
<1>7. /\ M + 1 \in Nat /\ At(M).lit_pos \in Nat /\ At(M).dst_pos \in Nat
      /\ At(M).recent_offset \in Int /\ At(M).length_offset \in Nat
    BY <1>2 DEF PosType
<1> DEFINE l == At(M).lit_pos
           d == At(M).dst_pos
           p == LongParsed.lit
<1>8. At(M).lit_pos + LongParsed.lit \in Nat /\ At(M).dst_pos + LongParsed.lit \in Nat
    <2>1. l \in Nat /\ d \in Nat /\ p \in Nat
        BY <1>2, <1>7
    <2> HIDE DEF l, d, p
    <2>2. l + p \in Nat /\ d + p \in Nat
        BY <2>1
    <2> QED BY <2>2 DEF l, d, p
<1>9. (IF w = Parser THEN LongParsed.length_offset ELSE At(M).length_offset) \in Nat
    BY <1>2, <1>7
<1>10. Passed(w) \in PosType /\ Counted \in PosType
    BY <1>2, <1>4, <1>5, <1>7, <1>9 DEF PosType
<1>11. LitCopied \in PosType
    BY <1>2, <1>6, <1>7, <1>8 DEF PosType
<1> QED BY <1>1, <1>2, <1>3, <1>4, <1>5, <1>6, <1>10, <1>11

\* Each warp loads the long token and passes it; the parser re-broadcasts the count of
\* run lengths that only it has.
LEMMA LoadLongRegisters == ASSUME RInv, IInv, NEW w \in Warps, LoadLong(w) PROVE RInv'
<1> USE WarpFacts
<1>1. UNCHANGED <<stream, serial, s_long, s_have, cur>>
    BY DEF LoadLong, input
<1>2. /\ pc[w] = "loadlong" /\ pc' = [pc EXCEPT ![w] = "rebroadcast"]
      /\ pc \in [Warps -> PCs] /\ "loadlong" \in LongPCs /\ "loadlong" \in DrainPCs
    BY DEF LoadLong, Goto, IInv, PcType, LongPCs, DrainPCs
<1>3. pos[w] = IF w = Parser THEN Fetched(w) ELSE At(M)
    BY <1>2 DEF RInv, Registers
<1>4. s_long.off16_pos = LongParsed.off16_pos
    BY <1>2 DEF RInv, LongBroadcast
<1>5. pos' = [pos EXCEPT ![w] = Passed(w)] /\ Passed(w) \in PosType
    <2>1. pos' = [pos EXCEPT ![w] = [pos[w] EXCEPT !.off16_pos = LongParsed.off16_pos,
                                                   !.cmd_pos = @ + 1]]
        BY <1>4 DEF LoadLong, RInv, PosTyped
    <2>2. /\ Passed(w) \in PosType /\ At(M) \in PosType /\ At(M).cmd_pos = M
          /\ Fetched(w) = [cmd_pos |-> M, lit_pos |-> At(M).lit_pos,
                            off16_pos |-> LongParsed.off16_pos, dst_pos |-> At(M).dst_pos,
                            recent_offset |-> At(M).recent_offset,
                            length_offset |-> IF w = Parser THEN LongParsed.length_offset
                                              ELSE At(M).length_offset]
          /\ Passed(w) = [cmd_pos |-> M + 1, lit_pos |-> At(M).lit_pos,
                           off16_pos |-> LongParsed.off16_pos, dst_pos |-> At(M).dst_pos,
                           recent_offset |-> At(M).recent_offset,
                           length_offset |-> IF w = Parser THEN LongParsed.length_offset
                                             ELSE At(M).length_offset]
        BY <1>2, LongTyped, LongFacts
    <2> HIDE DEF M, At, LongParsed, Fetched, Passed
    <2>3. [pos[w] EXCEPT !.off16_pos = LongParsed.off16_pos, !.cmd_pos = @ + 1] = Passed(w)
        <3> DEFINE a == pos[w]
                   o == LongParsed.off16_pos
                   c == pos[w].cmd_pos + 1
        <3>1. a \in PosType
            BY DEF RInv, PosTyped
        <3>2. [pos[w] EXCEPT !.off16_pos = LongParsed.off16_pos, !.cmd_pos = @ + 1] =
                [a EXCEPT !.off16_pos = o, !.cmd_pos = c]
            OBVIOUS
        <3> HIDE DEF a, o, c
        <3>3. [a EXCEPT !.off16_pos = o, !.cmd_pos = c] =
                [cmd_pos |-> c, lit_pos |-> a.lit_pos, off16_pos |-> o, dst_pos |-> a.dst_pos,
                 recent_offset |-> a.recent_offset, length_offset |-> a.length_offset]
            BY <3>1, RegisterUpdates
        <3>4. [a EXCEPT !.off16_pos = o, !.cmd_pos = c] = Passed(w)
            BY <1>3, <2>2, <3>3 DEF a, o, c
        <3> QED BY <3>2, <3>4
    <2> QED BY <2>1, <2>2, <2>3
<1>6. DrainedState /\ M < Len(stream.cmd)
    BY <1>2, LongTyped
<1>7. CASE w # Parser
    <2>1. UNCHANGED s_state
        BY <1>7 DEF LoadLong
    <2> QED BY <1>1, <1>2, <1>5, <1>6, <1>7, <2>1, LongMove DEF HoldsLong, LongPCs
<1>8. CASE w = Parser
    <2> USE DEF RInv
    <2>1. s_state' = [s_state EXCEPT !.length_offset = LongParsed.length_offset]
        <3>1. pos[Parser].length_offset = LongParsed.length_offset
            BY <1>2, <1>3, <1>8, LongTyped
        <3> QED BY <1>8, <3>1 DEF LoadLong
    <2>2. At(M) \in PosType /\ s_state = [At(M) EXCEPT !.length_offset = s_state.length_offset]
        BY <1>2, <1>6, LongTyped DEF DrainedState
    <2>3. M' = M
        BY <2>1, <2>2 DEF M, PosType
    <2>4. s_state' = [At(M) EXCEPT !.length_offset = s_state'.length_offset]
          /\ s_state'.length_offset = LongParsed.length_offset
        BY <2>1, <2>2 DEF PosType
    <2>5. LongParsed' = LongParsed /\ At(M)' = At(M) /\ Passed(Parser)' = Passed(Parser)
        BY <1>1, <2>3, LongNamed
    <2>6. DrainedState'
        BY <1>1, <1>6, <2>3, <2>4, <2>5 DEF DrainedState
    <2>7. /\ pc'[Parser] = "rebroadcast" /\ \A v \in Warps : v # Parser => pc'[v] = pc[v]
          /\ pos'[Parser] = Passed(Parser) /\ \A v \in Warps : v # Parser => pos'[v] = pos[v]
        BY <1>2, <1>5, <1>8 DEF PosTyped
    <2>8. SerialInput' /\ PosTyped' /\ ParserAt' /\ NoneStaged'
        BY <1>1, <1>5, <2>7 DEF SerialInput, PosTyped, ParserAt, NoneStaged, Staging
    <2>9. StateBroadcast'
        <3>1. \A v \in Warps : pc'[v] \in {"trail", "done"} => M' = Len(stream'.cmd)
            BY <1>1, <2>3, <2>7 DEF StateBroadcast
        <3> QED BY <1>1, <1>6, <2>3, <2>4, <2>5, <2>6, <2>7, <3>1 DEF StateBroadcast
    <2>10. LongBroadcast'
        BY <1>1, <1>2, <1>8, <2>5, <2>7 DEF LongBroadcast, HoldsLong
    <2>11. \A v \in Warps : Registers(v)'
        <3>1. \A v \in Warps : v # Parser => Registers(v)'
            BY <1>1, <2>3, <2>7, RegistersKept
        <3>2. Registers(Parser)'
            BY <2>5, <2>7 DEF Registers
        <3> QED BY <3>1, <3>2
    <2> QED BY <2>8, <2>9, <2>10, <2>11
<1> QED BY <1>7, <1>8

\* A warp that holds the long token holds what the parser parsed.
LEMMA HeldToken ==
    ASSUME RInv, IInv, NEW w \in Warps, pc[w] \in HoldsLong
    PROVE  /\ long[w].lit = LongParsed.lit /\ long[w].match = LongParsed.match
           /\ long[w].offset = LongParsed.offset /\ long[w].recent = LongParsed.recent
           /\ s_long.lit = LongParsed.lit /\ s_long.match = LongParsed.match
<1>1. long[w] = s_long
    BY DEF IInv, LongLoaded
<1>2. s_long = [lit |-> LongParsed.lit, match |-> LongParsed.match, offset |-> LongParsed.offset,
                recent |-> LongParsed.recent, off16_pos |-> LongParsed.off16_pos]
    BY DEF RInv, LongBroadcast
<1> HIDE DEF LongParsed
<1> QED BY <1>1, <1>2

\* The count of run lengths reaches a warp that copies the literals: the parser waits
\* for that copy before it can drain again.
LEMMA LongLiteralsRegisters == ASSUME RInv, IInv, NEW w \in Warps, LongLiterals(w) PROVE RInv'
<1> USE WarpFacts
<1>1. UNCHANGED <<stream, serial, s_state, s_long, s_have, cur>>
    BY DEF LongLiterals, shared, input
<1>2. /\ pc[w] = "longlit" /\ pc \in [Warps -> PCs] /\ "longlit" \in LongPCs /\ "longlit" \in HoldsLong
      /\ \E label \in {"literals", "longmatch"} : pc' = [pc EXCEPT ![w] = label]
    BY DEF LongLiterals, Goto, IInv, PcType, LongPCs, HoldsLong
<1>3. pos[w] = Passed(w)
    BY <1>2 DEF RInv, Registers
<1>4. s_state.length_offset = LongParsed.length_offset
    <2>1. LongParsed.lit > 0 \/ LongParsed.match > 0
        BY <1>2, LongTyped, LongFacts
    <2>2. s_long.lit > 0 \/ s_long.match > 0
        BY <1>2, <2>1, HeldToken
    <2>3. Target(w) \in {"literals", "matched"} /\ Target(Parser) = Target(w)
        BY <1>2, <2>2 DEF IInv, Lockstep, Target, Executing, TeamPCs, TeamSites
    <2>4. pc[Parser] \in {"longlit", "literals", "longmatch", "matched"}
        BY <2>3 DEF Target, Executing, TeamPCs, TeamSites
    <2> QED BY <2>4 DEF RInv, StateBroadcast
<1>5. /\ M < Len(stream.cmd) /\ At(M) \in PosType /\ Counted \in PosType /\ Passed(w) \in PosType
    BY <1>2, LongTyped
<1>6. pos' = [pos EXCEPT ![w] = Counted]
    <2>1. pos' = [pos EXCEPT ![w] = [Passed(w) EXCEPT !.length_offset = LongParsed.length_offset]]
        BY <1>3, <1>4 DEF LongLiterals, RInv, PosTyped
    <2>2. [Passed(w) EXCEPT !.length_offset = LongParsed.length_offset] = Counted
        BY <1>2, LongTyped
    <2> QED BY <2>1, <2>2
<1> HIDE DEF M
<1> QED BY <1>1, <1>2, <1>5, <1>6, LongMove DEF HoldsLong, LongPCs

\* A warp counts the literals; the parser warp also copies the match.
LEMMA LongMatchRegisters == ASSUME RInv, IInv, NEW w \in Warps, LongMatch(w) PROVE RInv'
<1> USE WarpFacts
<1>1. UNCHANGED <<stream, serial, s_state, s_long, s_have, cur>>
    BY DEF LongMatch, shared, input
<1>2. /\ pc[w] = "longmatch" /\ pc \in [Warps -> PCs] /\ "longmatch" \in LongPCs /\ "longmatch" \in HoldsLong
      /\ \E label \in {"matched", "reprime"} : pc' = [pc EXCEPT ![w] = label]
    BY DEF LongMatch, Goto, IInv, PcType, LongPCs, HoldsLong
<1>3. pos[w] = Counted /\ long[w].lit = LongParsed.lit
    BY <1>2, HeldToken DEF RInv, Registers
<1>5. /\ M < Len(stream.cmd) /\ Counted \in PosType /\ LitCopied \in PosType
    BY <1>2, LongTyped
<1>6. pos' = [pos EXCEPT ![w] = LitCopied]
    BY <1>3 DEF LongMatch, RInv, PosTyped, LitCopied
<1> HIDE DEF M
<1> QED BY <1>1, <1>2, <1>5, <1>6, LongMove DEF HoldsLong, LongPCs

\* The registers past the long token are the serial ones, and the parser primes with them.
LEMMA ReprimeRegisters == ASSUME RInv, IInv, NEW w \in Warps, Reprime(w) PROVE RInv'
<1> USE WarpFacts
<1>1. UNCHANGED <<stream, serial, s_state, s_long, s_have, cur>>
    BY DEF Reprime, shared, input
<1>2. /\ pc[w] = "reprime" /\ pc \in [Warps -> PCs] /\ "reprime" \in LongPCs /\ "reprime" \in HoldsLong
      /\ pc' = [pc EXCEPT ![w] = IF w = Parser THEN "prime" ELSE "primed"]
    BY DEF Reprime, Goto, IInv, PcType, LongPCs, HoldsLong
<1>3. /\ pos[w] = LitCopied /\ long[w].match = LongParsed.match /\ long[w].offset = LongParsed.offset
      /\ long[w].recent = LongParsed.recent
    BY <1>2, HeldToken DEF RInv, Registers
<1>4. /\ M < Len(stream.cmd) /\ DrainedState /\ At(M) \in PosType /\ LitCopied \in PosType
      /\ LitCopied = [cmd_pos |-> M + 1, lit_pos |-> At(M).lit_pos + LongParsed.lit,
                           off16_pos |-> LongParsed.off16_pos,
                           dst_pos |-> At(M).dst_pos + LongParsed.lit,
                           recent_offset |-> At(M).recent_offset,
                           length_offset |-> LongParsed.length_offset]
    BY <1>2, LongTyped
<1>5. /\ M + 1 \in 0 .. Len(stream.cmd)
      /\ At(M + 1) = [cmd_pos |-> M + 1, lit_pos |-> At(M).lit_pos + LongParsed.lit,
                           off16_pos |-> LongParsed.off16_pos,
                           dst_pos |-> At(M).dst_pos + LongParsed.lit + LongParsed.match,
                           recent_offset |-> IF LongParsed.recent THEN At(M).recent_offset
                                             ELSE LongParsed.offset,
                           length_offset |-> LongParsed.length_offset]
    BY <1>4, LongFacts
<1>6. At(M + 1) \in PosType /\ At(M + 1).cmd_pos = M + 1
    BY <1>5, InputFacts DEF RInv
<1>7. pos' = [pos EXCEPT ![w] = At(M + 1)]
    <2> HIDE DEF M, At, LongParsed, LitCopied
    <2> DEFINE x == pos[w].dst_pos + LongParsed.match
               y == IF LongParsed.recent THEN pos[w].recent_offset ELSE LongParsed.offset
               a == pos[w]
    <2>1. pos' = [pos EXCEPT ![w] = [a EXCEPT !.dst_pos = x, !.recent_offset = y]]
        BY <1>3 DEF Reprime, RInv, PosTyped
    <2>2. a \in PosType
        BY <1>3, <1>4
    <2>3. a.dst_pos = At(M).dst_pos + LongParsed.lit /\ a.recent_offset = At(M).recent_offset
          /\ a.cmd_pos = M + 1 /\ a.lit_pos = At(M).lit_pos + LongParsed.lit
          /\ a.off16_pos = LongParsed.off16_pos /\ a.length_offset = LongParsed.length_offset
        BY <1>3, <1>4
    <2>4. x = At(M).dst_pos + LongParsed.lit + LongParsed.match
          /\ y = IF LongParsed.recent THEN At(M).recent_offset ELSE LongParsed.offset
        BY <2>3
    <2> HIDE DEF x, y, a
    <2>5. [a EXCEPT !.dst_pos = x, !.recent_offset = y] =
            [cmd_pos |-> a.cmd_pos, lit_pos |-> a.lit_pos, off16_pos |-> a.off16_pos, dst_pos |-> x,
             recent_offset |-> y, length_offset |-> a.length_offset]
        <3> DEFINE b == [a EXCEPT !.dst_pos = x]
        <3>1. b = [cmd_pos |-> a.cmd_pos, lit_pos |-> a.lit_pos, off16_pos |-> a.off16_pos,
                   dst_pos |-> x, recent_offset |-> a.recent_offset, length_offset |-> a.length_offset]
            BY <2>2 DEF PosType
        <3>2. [a EXCEPT !.dst_pos = x, !.recent_offset = y] = [b EXCEPT !.recent_offset = y]
            OBVIOUS
        <3> HIDE DEF b
        <3> QED BY <3>1, <3>2
    <2>6. [a EXCEPT !.dst_pos = x, !.recent_offset = y] = At(M + 1)
        BY <1>5, <2>3, <2>4, <2>5
    <2> QED BY <2>1, <2>6
<1>8. w = Parser => At(M + 1).cmd_pos \in 0 .. Len(stream.cmd) /\ At(M + 1) = At(At(M + 1).cmd_pos)
    BY <1>5, <1>6
<1> DEFINE q == At(M + 1)
<1>9. /\ q \in PosType /\ pos' = [pos EXCEPT ![w] = q]
      /\ w = Parser => q.cmd_pos \in 0 .. Len(stream.cmd) /\ q = At(q.cmd_pos)
    BY <1>6, <1>7, <1>8
<1> HIDE DEF M, q
<1> QED BY <1>1, <1>2, <1>9, LongMove DEF HoldsLong, LongPCs

\* The trailing literals move no register.
LEMMA TrailingRegisters == ASSUME RInv, IInv, NEW w \in Warps, TrailingLiterals(w) PROVE RInv'
<1> USE WarpFacts DEF RInv
<1>1. /\ UNCHANGED <<stream, serial, pos, s_state, s_long, s_have, cur>>
      /\ pc[w] = "trail" /\ pc' = [pc EXCEPT ![w] = "done"] /\ pc \in [Warps -> PCs]
    BY DEF TrailingLiterals, shared, input, Goto, IInv, PcType
<1>2. pc'[w] = "done" /\ \A v \in Warps : v # w => pc'[v] = pc[v]
    BY <1>1
<1>3. SerialInput' /\ PosTyped'
    BY <1>1 DEF SerialInput, PosTyped
<1>4. ParserAt' /\ NoneStaged'
    BY <1>1, <1>2 DEF ParserAt, NoneStaged, CanStage, At, Staging
<1>5. StateBroadcast'
    BY <1>1, <1>2, LongKept DEF StateBroadcast, DrainPCs, LongPCs, HoldsLong
<1>6. LongBroadcast'
    BY <1>1, <1>2, LongKept DEF LongBroadcast, HoldsLong
<1>7. ASSUME NEW v \in Warps PROVE Registers(v)'
    <2>1. CASE v # w
        BY <1>1, <1>2, <2>1, LongKept, RegistersKept
    <2>2. CASE v = w
        BY <1>1, <1>2, <2>2, LongKept DEF Registers
    <2> QED BY <2>1, <2>2
<1> QED BY <1>3, <1>4, <1>5, <1>6, <1>7

\* Every step keeps the invariant of the registers.
LEMMA StepRegisters == RInv /\ IInv /\ [Next]_vars => RInv'
<1> SUFFICES ASSUME RInv, IInv, [Next]_vars PROVE RInv'
    OBVIOUS
<1>1. CASE \E w \in Warps : AnyWarpStep(w)
    BY <1>1, CheckRegisters, LoadRegisters, LoadLongRegisters, LongLiteralsRegisters,
       LongMatchRegisters, ReprimeRegisters, TrailingRegisters DEF AnyWarpStep
<1>2. CASE PipeTeamBar \/ DependentMatch \/ \E w \in Team : TeamStep(w)
    BY <1>2, TeamRegisters
<1>3. CASE ParserStep
    <2>1. pc[Parser] \in Staging \/ DrainBroadcast \/ LongToken
        BY <1>3 DEF ParserStep, StageLanes, StageHead, StageNothing, Staging
    <2> QED BY <1>3, <2>1, StagingRegisters, DrainRegisters, LongTokenRegisters
<1>4. CASE UNCHANGED vars
    BY <1>4, QuietRegisters DEF vars
<1> QED BY <1>1, <1>2, <1>3, <1>4, SyncRegisters DEF Next, Terminated

\* The registers of every warp are those of the serial decoder, at the token it has
\* reached or on the way past the long token.
THEOREM RegistersSerial == Spec => []RInv
<1>1. Init => RInv
    BY InitRegisters
<1>2. IInv /\ RInv /\ [Next]_vars => RInv'
    BY StepRegisters
<1> QED BY <1>1, <1>2, Invariance, PTL DEF Spec

\* The parser, which runs ahead of the copies on prefix sums alone, has the registers
\* of the decoder that takes one token at a time.
THEOREM ParserFollowsSerial == Spec => []ParserAgreesWithSerial
<1>1. RInv => ParserAgreesWithSerial
    BY DEF RInv, ParserAt, ParserAgreesWithSerial, At
<1> QED BY <1>1, RegistersSerial, PTL

-----------------------------------------------------------------------------
(* The slots *)

\* The batch that starts at token m is in slot s.
Staged(s, m) == lanes[s] = StagedLanes(stream, At(m)) /\ head[s] = StagedHead(stream, At(m))
HalfStaged(s) == pc[Parser] \in {"prime_head", "fill_head"} /\ s = Slot

\* A slot whose flag is set, but for the one that the parser is writing, holds a whole
\* batch; and so does the slot that the copiers execute.
SlotInv ==
    /\ DOMAIN lanes = Stages /\ DOMAIN head = Stages
    /\ \A s \in Stages : s_have[s] /\ ~HalfStaged(s) => \E m \in 0 .. Len(stream.cmd) : Staged(s, m)
    /\ pc[Parser] \in {"prime_head", "fill_head"} => lanes[Slot] = StagedLanes(stream, pos[Parser])
    /\ \A w \in Team : pc[w] \in Executing => s_have[cur[w]]

HalfPCs == {"prime_head", "fill_head"}

\* Initially no slot is staged.
LEMMA InitSlots == Init => SlotInv
<1> SUFFICES ASSUME Init PROVE SlotInv
    OBVIOUS
<1>1. DOMAIN lanes = Stages /\ DOMAIN head = Stages /\ \A s \in Stages : ~s_have[s]
    BY DEF Init
<1>2. pc[Parser] = "prime" /\ \A w \in Team : pc[w] = "primed"
    BY WarpFacts DEF Init
<1> QED BY <1>1, <1>2 DEF SlotInv, Executing, TeamPCs, TeamSites

\* Steps that write no slot: a copier warp starts to execute only what is staged.
LEMMA QuietSlots ==
    ASSUME SlotInv, UNCHANGED <<stream, serial, lanes, head, s_have>>,
           \/ pc'[Parser] = pc[Parser] /\ pos'[Parser] = pos[Parser] /\ cur'[Parser] = cur[Parser]
           \/ pc[Parser] \notin HalfPCs /\ pc'[Parser] \notin HalfPCs,
           \A w \in Team : pc'[w] \in Executing => cur'[w] = cur[w] /\ (pc[w] \in Executing \/ s_have[cur[w]])
    PROVE  SlotInv'
<1>1. \A s \in Stages : HalfStaged(s)' <=> HalfStaged(s)
    BY DEF HalfStaged, HalfPCs, Slot
<1>2. \A s, m : Staged(s, m)' <=> Staged(s, m)
    BY DEF Staged, At
<1>3. pc'[Parser] \in {"prime_head", "fill_head"} => lanes'[Slot'] = StagedLanes(stream', pos'[Parser])
    BY DEF SlotInv, HalfPCs, Slot
<1> QED BY <1>1, <1>2, <1>3 DEF SlotInv

\* The parser writes the slot that no copier executes, first the arrays and then the
\* scalars and the flag.
LEMMA StagingSlots == SlotInv /\ RInv /\ IInv /\ (StageLanes \/ StageHead \/ StageNothing) => SlotInv'
<1> SUFFICES ASSUME SlotInv, RInv, IInv, StageLanes \/ StageHead \/ StageNothing PROVE SlotInv'
    OBVIOUS
<1> USE WarpFacts
<1>1. pc[Parser] \in Staging /\ UNCHANGED <<stream, serial, cur>>
    BY DEF StageLanes, StageHead, StageNothing, input, Staging
<1>2. Slot \in Stages /\ \A w \in Team : pc[w] \in Executing => cur[w] # Slot
    BY <1>1, SlotsApart DEF SlotExclusive, Slot, Toggle, Stages, IInv, CurAgree
<1>3. \A w \in Team : pc'[w] = pc[w]
    BY DEF StageLanes, StageHead, StageNothing, Goto, IInv, PcType
<1>4. s_have \in [Stages -> BOOLEAN]
    BY DEF IInv, HaveType
<1>5. \A s \in Stages : s # Slot => lanes'[s] = lanes[s] /\ head'[s] = head[s] /\ s_have'[s] = s_have[s]
    BY <1>4 DEF SlotInv, StageLanes, StageHead, StageNothing
<1>6. \A w \in Team : pc'[w] \in Executing => s_have'[cur'[w]]
    BY <1>1, <1>2, <1>3, <1>5 DEF SlotInv, IInv, CurAgree
<1>7. \A s \in Stages : s # Slot /\ s_have'[s] => \E m \in 0 .. Len(stream.cmd) : Staged(s, m)'
    <2>1. \A s \in Stages : \A m : s # Slot => (Staged(s, m)' <=> Staged(s, m))
        BY <1>1, <1>5 DEF Staged, At
    <2> QED BY <1>5, <2>1 DEF SlotInv, HalfStaged
<1>8. DOMAIN lanes' = Stages /\ DOMAIN head' = Stages
    BY DEF SlotInv, StageLanes, StageHead, StageNothing
<1>9. CASE StageLanes
    <2>1. pc'[Parser] \in HalfPCs /\ Slot' = Slot
        BY <1>1, <1>9 DEF StageLanes, Goto, Slot, HalfPCs, IInv, PcType
    <2>2. lanes'[Slot'] = StagedLanes(stream', pos'[Parser])
        BY <1>1, <1>2, <1>9, <2>1 DEF StageLanes, SlotInv
    <2> QED BY <1>1, <1>6, <1>7, <1>8, <2>1, <2>2 DEF SlotInv, HalfStaged, HalfPCs
<1>10. CASE StageHead
    <2>1. pc'[Parser] \notin HalfPCs
        BY <1>10 DEF StageHead, Goto, AfterFill, HalfPCs, IInv, PcType
    <2>2. PICK m \in 0 .. Len(stream.cmd) : pos[Parser] = At(m)
        BY <1>1 DEF RInv, ParserAt
    <2> PICK slot \in Stages : slot = Slot
        BY <1>2
    <2>3. lanes'[slot] = StagedLanes(stream, At(m)) /\ head'[slot] = StagedHead(stream, At(m))
        BY <1>2, <1>10, <2>2 DEF StageHead, SlotInv
    <2>4. Staged(slot, m)'
        BY <1>1, <2>3 DEF Staged, At
    <2>5. \A s \in Stages : s_have'[s] => \E n \in 0 .. Len(stream'.cmd) : Staged(s, n)'
        BY <1>1, <1>7, <2>4
    <2> QED BY <1>6, <1>8, <2>1, <2>5 DEF SlotInv, HalfPCs
<1>11. CASE StageNothing
    <2>1. pc'[Parser] \notin HalfPCs /\ ~s_have'[Slot]
        BY <1>2, <1>4, <1>11 DEF StageNothing, Goto, AfterFill, HalfPCs, IInv, PcType
    <2>2. \A s \in Stages : s_have'[s] => \E n \in 0 .. Len(stream'.cmd) : Staged(s, n)'
        BY <1>1, <1>7, <2>1
    <2> QED BY <1>6, <1>8, <2>1, <2>2 DEF SlotInv, HalfPCs
<1> QED BY <1>9, <1>10, <1>11

\* No other step writes a slot.
LEMMA OtherSlots ==
    SlotInv /\ RInv /\ IInv /\ [Next]_vars /\ ~(StageLanes \/ StageHead \/ StageNothing) => SlotInv'
<1> SUFFICES ASSUME SlotInv, RInv, IInv, [Next]_vars, ~(StageLanes \/ StageHead \/ StageNothing) PROVE SlotInv'
    OBVIOUS
<1> USE WarpFacts
<1>0. pc \in [Warps -> PCs]
    BY DEF IInv, PcType
<1>1. CASE \E w \in Warps : AnyWarpStep(w)
    <2> PICK w \in Warps : AnyWarpStep(w)
        BY <1>1
    <2>1. UNCHANGED <<stream, serial, lanes, head, s_have, cur>>
        BY DEF AnyWarpStep, CheckHave, LoadState, LoadLong, LongLiterals, LongMatch, Reprime,
               TrailingLiterals, input, shared
    <2>2. PICK label : /\ pc' = [pc EXCEPT ![w] = label] /\ label \notin HalfPCs /\ pc[w] \notin HalfPCs
                       /\ label \in Executing => s_have[cur[w]]
        <3>1. CASE CheckHave(w)
            <4>1. PICK label \in {"fill", "lit", "drained", "stated"} :
                      /\ pc' = [pc EXCEPT ![w] = label] /\ pc[w] = "check"
                      /\ label = "lit" => s_have[cur[w]]
                BY <3>1 DEF CheckHave, Goto, Have
            <4>2. label \notin HalfPCs /\ pc[w] \notin HalfPCs /\ (label \in Executing => label = "lit")
                BY <4>1 DEF HalfPCs, Executing, TeamPCs, TeamSites
            <4> QED BY <4>1, <4>2
        <3>2. CASE LoadState(w)
            <4>1. PICK label \in {"trail", "token", "longset"} :
                      pc' = [pc EXCEPT ![w] = label] /\ pc[w] = "load"
                BY <3>2 DEF LoadState, Goto, AfterLoad
            <4>2. label \notin HalfPCs /\ pc[w] \notin HalfPCs /\ label \notin Executing
                BY <4>1 DEF HalfPCs, Executing, TeamPCs, TeamSites
            <4> QED BY <4>1, <4>2
        <3>3. CASE LoadLong(w) \/ Reprime(w) \/ TrailingLiterals(w)
            BY <3>3 DEF LoadLong, Reprime, TrailingLiterals, Goto, HalfPCs, Executing, TeamPCs, TeamSites
        <3>4. CASE LongLiterals(w) \/ LongMatch(w)
            BY <3>4 DEF LongLiterals, LongMatch, Goto, HalfPCs, Executing, TeamPCs, TeamSites
        <3> QED BY <3>1, <3>2, <3>3, <3>4 DEF AnyWarpStep
    <2>3. \A v \in Warps : v # w => pos'[v] = pos[v]
        BY DEF RInv, PosTyped, AnyWarpStep, CheckHave, LoadState, LoadLong, LongLiterals, LongMatch, Reprime,
               TrailingLiterals
    <2>4. pc'[w] = label /\ \A v \in Warps : v # w => pc'[v] = pc[v]
        BY <1>0, <2>2
    <2>5. \/ pc'[Parser] = pc[Parser] /\ pos'[Parser] = pos[Parser] /\ cur'[Parser] = cur[Parser]
          \/ pc[Parser] \notin HalfPCs /\ pc'[Parser] \notin HalfPCs
        BY <2>1, <2>2, <2>3, <2>4
    <2>6. \A v \in Team : pc'[v] \in Executing => cur'[v] = cur[v] /\ (pc[v] \in Executing \/ s_have[cur[v]])
        BY <2>1, <2>2, <2>4
    <2> QED BY <2>1, <2>5, <2>6, QuietSlots
<1>2. CASE DependentMatch \/ \E w \in Team : TeamStep(w)
    <2>1. UNCHANGED <<stream, serial, lanes, head, s_have, cur, pos>>
        BY <1>2 DEF DependentMatch, TeamStep, FlatLiterals, FlatIndependent, FlatDict, FlatPass,
                    input, shared
    <2>2. PICK w \in Team : pc[w] \in Executing /\ \A v \in Warps : v # w => pc'[v] = pc[v]
        BY <1>0, <1>2 DEF DependentMatch, TeamStep, FlatLiterals, FlatIndependent, FlatDict, FlatPass,
                          Goto, Executing, TeamPCs
    <2> QED BY <2>1, <2>2, QuietSlots
<1>3. CASE PipeTeamBar
    <2>1. UNCHANGED <<stream, serial, lanes, head, s_have, cur, pos>>
        BY <1>3 DEF PipeTeamBar, input, shared
    <2>2. pc'[Parser] = pc[Parser] /\ \A w \in Team : pc[w] \in Executing
        BY <1>3 DEF PipeTeamBar, Executing
    <2> QED BY <2>1, <2>2, QuietSlots
<1>4. CASE SyncThreads
    <2>1. UNCHANGED <<stream, serial, lanes, head, s_have>>
        BY <1>4 DEF SyncThreads, input, shared
    <2>2. \A w \in Warps : pc[w] \in BlockSites /\ pc'[w] = Resume(w, pc[w])
        BY <1>4 DEF SyncThreads
    <2>3. \A w \in Warps : pc[w] \notin HalfPCs /\ pc'[w] \notin HalfPCs \cup Executing
        BY <2>2 DEF BlockSites, Resume, HalfPCs, Executing, TeamPCs, TeamSites
    <2> QED BY <2>1, <2>3, QuietSlots
<1>5. CASE DrainBroadcast \/ LongToken
    <2>1. UNCHANGED <<stream, serial, lanes, head, s_have, cur>>
        BY <1>5 DEF DrainBroadcast, LongToken, input
    <2>2. /\ pc[Parser] \notin HalfPCs /\ pc'[Parser] \notin HalfPCs
          /\ \A w \in Warps : w # Parser => pc'[w] = pc[w]
        BY <1>0, <1>5 DEF DrainBroadcast, LongToken, Goto, HalfPCs
    <2> QED BY <2>1, <2>2, QuietSlots
<1>6. CASE UNCHANGED vars
    BY <1>6, QuietSlots DEF vars
<1> QED BY <1>1, <1>2, <1>3, <1>4, <1>5, <1>6 DEF Next, ParserStep, Terminated

\* What the copiers execute is a whole batch, for any number of warps and any streams.
THEOREM SlotsStaged == Spec => []SlotInv
<1>1. SlotInv /\ RInv /\ IInv /\ [Next]_vars => SlotInv'
    BY StagingSlots, OtherSlots
<1> QED BY InitSlots, <1>1, Invariance, RegistersSerial, PTL DEF Spec

-----------------------------------------------------------------------------
(* The flat passes *)

\* A flat byte belongs to the lane whose bytes start at or below it and end above it.
LEMMA OwnerFacts ==
    ASSUME NEW n \in Nat, NEW f, \A k \in 0 .. n - 1 : f[k] \in Nat,
           NEW prefix, \A k \in 0 .. n - 1 : prefix[k] = SumBelow(f, n)[k],
           NEW i \in Nat, i < SumBelow(f, n)[n]
    PROVE  LET k == Owner(prefix, n, i)
           IN /\ k \in 0 .. n - 1 /\ f[k] \in Nat
              /\ SumBelow(f, n)[k] \in Nat /\ SumBelow(f, n)[k] <= i
              /\ i - SumBelow(f, n)[k] \in Nat /\ i - SumBelow(f, n)[k] < f[k]
<1> DEFINE sum == SumBelow(f, n)
           Owns(k) == prefix[k] <= i /\ \A j \in k + 1 .. n - 1 : prefix[j] > i
           o == Owner(prefix, n, i)
<1>1. PICK k \in 0 .. n - 1 : sum[k] <= i /\ i < sum[k] + f[k] /\ \A j \in k + 1 .. n - 1 : sum[j] > i
    BY SumLocates
<1>2. \A j \in 0 .. n - 1 : sum[j] \in Nat /\ prefix[j] = sum[j]
    <2>1. \A j \in 0 .. n : sum[j] \in Nat
        BY SumGrows
    <2> QED BY <2>1
<1> HIDE DEF sum
<1>3. \E j \in 0 .. n - 1 : Owns(j)
    BY <1>1, <1>2
<1>4. o \in 0 .. n - 1 /\ Owns(o)
    <2>1. o = CHOOSE j \in 0 .. n - 1 : Owns(j)
        BY DEF Owner
    <2> HIDE DEF o, Owns
    <2> QED BY <1>3, <2>1
<1> HIDE DEF o
<1>5. o = k
    BY <1>1, <1>2, <1>4
<1>6. sum[k] \in Nat /\ f[k] \in Nat
    BY <1>2
<1> DEFINE a == sum[k]
           b == f[k]
<1>7. a \in Nat /\ b \in Nat /\ a <= i /\ i < a + b
    BY <1>1, <1>6
<1> HIDE DEF a, b
<1>8. i - a \in Nat /\ i - a < b
    BY <1>7
<1> QED BY <1>5, <1>7, <1>8 DEF o, sum, a, b

\* Byte y of what token k of the window at token m writes.
Place(m, k, y) == At(m).dst_pos + Window(stream, At(m)).dst_local[k] + y
InWindow(m, k, y) ==
    /\ k \in 0 .. BatchSize(stream, At(m)) - 1 /\ y \in Nat
    /\ y < Window(stream, At(m)).lit[k] + Window(stream, At(m)).match[k]
\* Which copy writes it.
Kind(m, k, y) ==
    LET w == Window(stream, At(m))
    IN IF y < w.lit[k] THEN "lit"
       ELSE IF k \in Independent(w, At(m)) THEN "im"
       ELSE IF k \in EntirelyDict(w) THEN "dm" ELSE "dep"
\* The flat byte that lands there.
FlatIndex(m, k, y) ==
    LET q == At(m)
        w == Window(stream, q)
        n == BatchSize(stream, q)
    IN IF y < w.lit[k] THEN w.lit_local[k] + y
       ELSE IF k \in Independent(w, q) THEN SumBelow(ImPool(stream, q), n)[k] + (y - w.lit[k])
       ELSE SumBelow(DmPool(stream, q), n)[k] + (y - w.lit[k])

\* Where a flat literal lands.
LEMMA LitLands ==
    ASSUME SerialInput, NEW s, NEW m \in 0 .. Len(stream.cmd), Staged(s, m),
           NEW i \in 0 .. head[s].total_lit - 1
    PROVE  \E k, y : /\ InWindow(m, k, y) /\ LitWrite(s, i)[1] = Place(m, k, y)
                     /\ i = FlatIndex(m, k, y) /\ Kind(m, k, y) = "lit"
<1> DEFINE q == At(m)
           n == BatchSize(stream, q)
           w == Window(stream, q)
           lit == w.lit
           k == Owner(lanes[s].lit_prefix, head[s].batch_size, i)
           sum == SumBelow(lit, n)
           y == i - sum[k]
<1>1. stream \in Streams /\ q = Reference(stream)[m].pos
    BY DEF SerialInput, At
<1>2. /\ n \in Nat /\ q.dst_pos \in Nat /\ w.lit_local = sum
      /\ \A j \in 0 .. n - 1 : lit[j] \in Nat /\ w.match[j] \in Nat /\ w.dst_local[j] \in Nat
    BY <1>1, WindowRanges
<1>3. /\ head[s].batch_size = n /\ head[s].dst_pos = q.dst_pos /\ head[s].total_lit = sum[n]
      /\ \A j \in 0 .. n - 1 : lanes[s].lit_prefix[j] = w.lit_local[j]
                               /\ lanes[s].dst_adj[j] = w.dst_local[j] - w.lit_local[j]
    BY <1>2, StagedFields DEF Staged
<1> HIDE DEF n, w, q, lit, sum
<1>4. \A j \in 0 .. n : sum[j] \in Nat
    BY <1>2, SumGrows DEF sum
<1>5. i \in Nat /\ i < sum[n]
    BY <1>2, <1>3, <1>4
<1>6. \A j \in 0 .. n - 1 : lanes[s].lit_prefix[j] = sum[j]
    BY <1>2, <1>3
<1>7. k \in 0 .. n - 1 /\ lit[k] \in Nat /\ sum[k] \in Nat /\ sum[k] <= i /\ y \in Nat /\ y < lit[k]
    <2> DEFINE prefix == lanes[s].lit_prefix
    <2>1. k = Owner(prefix, n, i)
        BY <1>3
    <2> HIDE DEF k, prefix, y
    <2>2. \A j \in 0 .. n - 1 : prefix[j] = SumBelow(lit, n)[j]
        BY <1>6 DEF sum, prefix
    <2>3. \A j \in 0 .. n - 1 : lit[j] \in Nat
        BY <1>2
    <2>4. i < SumBelow(lit, n)[n]
        BY <1>5 DEF sum
    <2> QED BY <1>2, <1>5, <2>1, <2>2, <2>3, <2>4, OwnerFacts DEF sum, y
<1> HIDE DEF k
<1>8. LitWrite(s, i)[1] = q.dst_pos + (w.dst_local[k] - sum[k]) + i
    BY <1>2, <1>3, <1>7 DEF LitWrite, k
<1> DEFINE d == q.dst_pos
           e == w.dst_local[k]
           c == sum[k]
<1>9. d \in Nat /\ e \in Nat /\ c \in Nat /\ i \in Nat /\ LitWrite(s, i)[1] = d + (e - c) + i /\ y = i - c
    BY <1>2, <1>5, <1>7, <1>8
<1> HIDE DEF d, e, c, y
<1>10. LitWrite(s, i)[1] = d + e + y /\ i = c + y
    BY <1>7, <1>9
<1>11. InWindow(m, k, y)
    <2>1. lit[k] \in Nat /\ w.match[k] \in Nat
        BY <1>2, <1>7
    <2> DEFINE a == lit[k]
               b == w.match[k]
    <2>2. a \in Nat /\ b \in Nat /\ y < a /\ y \in Nat
        BY <1>7, <2>1
    <2> HIDE DEF a, b
    <2>3. y < a + b
        BY <2>2
    <2> QED BY <1>7, <2>3 DEF InWindow, n, w, q, lit, a, b
<1>12. i = FlatIndex(m, k, y)
    BY <1>2, <1>7, <1>10 DEF FlatIndex, n, w, q, lit, c
<1>13. LitWrite(s, i)[1] = Place(m, k, y)
    BY <1>10 DEF Place, d, e, w, q
<1>14. Kind(m, k, y) = "lit"
    BY <1>7 DEF Kind, w, q, lit
<1> QED BY <1>11, <1>12, <1>13, <1>14

\* Where a byte of the independent matches lands, and that it is read below the window.
LEMMA ImLands ==
    ASSUME SerialInput, NEW s, NEW m \in 0 .. Len(stream.cmd), Staged(s, m),
           NEW i \in 0 .. head[s].total_im - 1
    PROVE  /\ \E k, y : /\ InWindow(m, k, y) /\ ImWrite(s, i)[1] = Place(m, k, y)
                        /\ i = FlatIndex(m, k, y) /\ Kind(m, k, y) = "im"
                        /\ LET w == Window(stream, At(m))
                           IN ImRead(s, i) = w.src[k] + (y - w.lit[k])
           /\ ImRead(s, i) \in Int /\ ImRead(s, i) < At(m).dst_pos
<1> DEFINE q == At(m)
           n == BatchSize(stream, q)
           w == Window(stream, q)
           pool == Independent(w, q)
           f == ImPool(stream, q)
           k == Owner(lanes[s].im_prefix, head[s].batch_size, i)
           sum == SumBelow(f, n)
           x == i - sum[k]
           y == w.lit[k] + x
<1>1. stream \in Streams /\ q = Reference(stream)[m].pos
    BY DEF SerialInput, At
<1>2. /\ n \in Nat /\ q.dst_pos \in Nat
      /\ \A j \in 0 .. n - 1 : w.lit[j] \in Nat /\ w.match[j] \in Nat /\ w.dst_local[j] \in Nat
                               /\ w.src[j] \in Int
                               /\ w.copy_dst[j] = q.dst_pos + w.dst_local[j] + w.lit[j]
    BY <1>1, WindowRanges
<1>3. /\ \A j \in 0 .. n - 1 : f[j] \in Nat /\ (f[j] > 0 => j \in pool)
      /\ pool \subseteq 0 .. n - 1
      /\ \A j \in pool : f[j] = w.match[j] /\ w.src[j] + w.match[j] <= q.dst_pos
    BY <1>1, PoolFacts
<1>4. /\ head[s].batch_size = n /\ head[s].total_im = sum[n]
      /\ \A j \in 0 .. n - 1 : /\ lanes[s].im_prefix[j] = sum[j]
                               /\ lanes[s].im_dst_adj[j] = w.copy_dst[j] - sum[j]
                               /\ lanes[s].im_src_adj[j] = w.src[j] - sum[j]
    BY <1>2, StagedFields DEF Staged
<1> HIDE DEF n, w, q, f, sum, pool
<1>5. \A j \in 0 .. n - 1 : f[j] \in Nat
    BY <1>3
<1>6. \A j \in 0 .. n : sum[j] \in Nat
    BY <1>2, <1>5, SumGrows DEF sum
<1>7. i \in Nat /\ i < sum[n]
    BY <1>2, <1>4, <1>6
<1>8. k \in 0 .. n - 1 /\ f[k] \in Nat /\ sum[k] \in Nat /\ sum[k] <= i /\ x \in Nat /\ x < f[k]
    <2> DEFINE prefix == lanes[s].im_prefix
    <2>1. k = Owner(prefix, n, i)
        BY <1>4
    <2> HIDE DEF k, prefix, x
    <2>2. \A j \in 0 .. n - 1 : prefix[j] = SumBelow(f, n)[j]
        BY <1>4 DEF sum, prefix
    <2>3. i < SumBelow(f, n)[n]
        BY <1>7 DEF sum
    <2> QED BY <1>2, <1>5, <1>7, <2>1, <2>2, <2>3, OwnerFacts DEF sum, x
<1>9. k \in pool /\ f[k] = w.match[k]
    BY <1>3, <1>8
<1> HIDE DEF k
<1>10. ImWrite(s, i)[1] = (w.copy_dst[k] - sum[k]) + i
    BY <1>4, <1>8 DEF ImWrite, k
<1> DEFINE d == q.dst_pos
           e == w.dst_local[k]
           l == w.lit[k]
           b == w.match[k]
           c == sum[k]
           u == ImWrite(s, i)[1]
<1>11. /\ d \in Nat /\ e \in Nat /\ l \in Nat /\ b \in Nat /\ c \in Nat /\ i \in Nat
       /\ u = ((d + e + l) - c) + i /\ x = i - c /\ x \in Nat /\ x < b /\ y = l + x
    <2>1. w.copy_dst[k] = d + e + l
        BY <1>2, <1>8
    <2>2. d \in Nat /\ e \in Nat /\ l \in Nat /\ b \in Nat /\ c \in Nat
        BY <1>2, <1>8
    <2>3. u = (w.copy_dst[k] - c) + i
        BY <1>10
    <2>4. x < b /\ x \in Nat
        BY <1>8, <1>9
    <2> HIDE DEF d, e, l, b, c, u
    <2> QED BY <1>7, <2>1, <2>2, <2>3, <2>4 DEF c, l
<1> HIDE DEF d, e, l, b, c, u, x, y
<1>12. u = d + e + y /\ i = c + (y - l) /\ y \in Nat /\ y < l + b /\ ~(y < l)
    BY <1>11
<1>13. InWindow(m, k, y)
    BY <1>8, <1>12 DEF InWindow, n, w, q, l, b
<1>14. i = FlatIndex(m, k, y)
    BY <1>9, <1>12 DEF FlatIndex, n, w, q, l, c, sum, f, pool
<1>15. u = Place(m, k, y)
    BY <1>12 DEF Place, d, e, w, q
<1>16. ImRead(s, i) \in Int /\ ImRead(s, i) < q.dst_pos /\ ImRead(s, i) = w.src[k] + (y - l)
    <2> DEFINE v == w.src[k]
               z == ImRead(s, i)
    <2>1. z = (v - c) + i
        BY <1>4, <1>8 DEF ImRead, k, c
    <2>2. v \in Int
        BY <1>2, <1>8
    <2>3. v + b <= d
        BY <1>3, <1>9 DEF b, d
    <2> HIDE DEF v, z
    <2>4. z \in Int /\ z < d
        BY <1>11, <2>1, <2>2, <2>3
    <2>5. z = v + (y - l)
        BY <1>11, <1>12, <2>1, <2>2
    <2> QED BY <2>4, <2>5 DEF z, d, v
<1>17. Kind(m, k, y) = "im"
    BY <1>9, <1>12 DEF Kind, w, q, l, pool
<1> QED BY <1>13, <1>14, <1>15, <1>16, <1>17 DEF u, q, l, w

\* Where a byte of the entirely-dictionary matches lands.
LEMMA DmLands ==
    ASSUME SerialInput, NEW s, NEW m \in 0 .. Len(stream.cmd), Staged(s, m),
           NEW i \in 0 .. head[s].total_dm - 1
    PROVE  \E k, y : /\ InWindow(m, k, y) /\ DmWrite(s, i)[1] = Place(m, k, y)
                     /\ i = FlatIndex(m, k, y) /\ Kind(m, k, y) = "dm"
                     /\ k \in EntirelyDict(Window(stream, At(m)))
                     /\ LET w == Window(stream, At(m))
                        IN DmWrite(s, i)[2] = DictByte(DictLen + (w.src[k] + (y - w.lit[k])))
<1> DEFINE q == At(m)
           n == BatchSize(stream, q)
           w == Window(stream, q)
           pool == EntirelyDict(w)
           f == DmPool(stream, q)
           k == Owner(lanes[s].dm_prefix, head[s].batch_size, i)
           sum == SumBelow(f, n)
           x == i - sum[k]
           y == w.lit[k] + x
<1>1. stream \in Streams /\ q = Reference(stream)[m].pos
    BY DEF SerialInput, At
<1>2. /\ n \in Nat /\ q.dst_pos \in Nat
      /\ \A j \in 0 .. n - 1 : w.lit[j] \in Nat /\ w.match[j] \in Nat /\ w.dst_local[j] \in Nat
                               /\ w.src[j] \in Int
                               /\ w.copy_dst[j] = q.dst_pos + w.dst_local[j] + w.lit[j]
    BY <1>1, WindowRanges
<1>3. /\ \A j \in 0 .. n - 1 : f[j] \in Nat /\ (f[j] > 0 => j \in pool)
      /\ pool \subseteq 0 .. n - 1
      /\ \A j \in pool : f[j] = w.match[j]
      /\ \A j \in pool : j \notin Independent(w, q)
    <2>1. pool \subseteq 0 .. n - 1
        BY <1>1, PoolFacts
    <2>4. \A j \in pool : f[j] = w.match[j]
        BY <1>1, PoolFacts
    <2>3. \A j \in 0 .. n - 1 : f[j] \in Nat /\ (f[j] > 0 => j \in pool)
        BY <1>1, PoolFacts
    <2>2. Independent(w, q) \cap pool = {}
        BY <1>1, PoolFacts
    <2> HIDE DEF n, w, q, f, pool
    <2> QED BY <2>1, <2>2, <2>3, <2>4
<1>4. /\ head[s].batch_size = n /\ head[s].total_dm = sum[n]
      /\ \A j \in 0 .. n - 1 : /\ lanes[s].dm_prefix[j] = sum[j]
                               /\ lanes[s].dm_dst_adj[j] = w.copy_dst[j] - sum[j]
                               /\ lanes[s].dm_src_adj[j] = DictLen + w.src[j] - sum[j]
    BY <1>2, StagedFields DEF Staged
<1> HIDE DEF n, w, q, f, sum, pool
<1>5. \A j \in 0 .. n - 1 : f[j] \in Nat
    BY <1>3
<1>6. \A j \in 0 .. n : sum[j] \in Nat
    BY <1>2, <1>5, SumGrows DEF sum
<1>7. i \in Nat /\ i < sum[n]
    BY <1>2, <1>4, <1>6
<1>8. k \in 0 .. n - 1 /\ f[k] \in Nat /\ sum[k] \in Nat /\ sum[k] <= i /\ x \in Nat /\ x < f[k]
    <2> DEFINE prefix == lanes[s].dm_prefix
    <2>1. k = Owner(prefix, n, i)
        BY <1>4
    <2> HIDE DEF k, prefix, x
    <2>2. \A j \in 0 .. n - 1 : prefix[j] = SumBelow(f, n)[j]
        BY <1>4 DEF sum, prefix
    <2>3. i < SumBelow(f, n)[n]
        BY <1>7 DEF sum
    <2> QED BY <1>2, <1>5, <1>7, <2>1, <2>2, <2>3, OwnerFacts DEF sum, x
<1>9. k \in pool /\ f[k] = w.match[k]
    BY <1>3, <1>8
<1> HIDE DEF k
<1>10. DmWrite(s, i)[1] = (w.copy_dst[k] - sum[k]) + i
    BY <1>4, <1>8 DEF DmWrite, k
<1> DEFINE d == q.dst_pos
           e == w.dst_local[k]
           l == w.lit[k]
           b == w.match[k]
           c == sum[k]
           u == DmWrite(s, i)[1]
<1>11. /\ d \in Nat /\ e \in Nat /\ l \in Nat /\ b \in Nat /\ c \in Nat /\ i \in Nat
       /\ u = ((d + e + l) - c) + i /\ x = i - c /\ x \in Nat /\ x < b /\ y = l + x
    <2>1. w.copy_dst[k] = d + e + l
        BY <1>2, <1>8
    <2>2. d \in Nat /\ e \in Nat /\ l \in Nat /\ b \in Nat /\ c \in Nat
        BY <1>2, <1>8
    <2>3. u = (w.copy_dst[k] - c) + i
        BY <1>10
    <2>4. x < b /\ x \in Nat
        BY <1>8, <1>9
    <2> HIDE DEF d, e, l, b, c, u
    <2> QED BY <1>7, <2>1, <2>2, <2>3, <2>4 DEF c, l
<1> HIDE DEF d, e, l, b, c, u, x, y
<1>12. u = d + e + y /\ i = c + (y - l) /\ y \in Nat /\ y < l + b /\ ~(y < l)
    BY <1>11
<1>13. InWindow(m, k, y)
    BY <1>8, <1>12 DEF InWindow, n, w, q, l, b
<1>14. i = FlatIndex(m, k, y)
    BY <1>3, <1>9, <1>12 DEF FlatIndex, n, w, q, l, c, sum, f, pool
<1>15. u = Place(m, k, y)
    BY <1>12 DEF Place, d, e, w, q
<1>16. DmWrite(s, i)[2] = DictByte(DictLen + (w.src[k] + (y - l)))
    <2> DEFINE v == w.src[k]
    <2>1. DmWrite(s, i)[2] = DictByte((DictLen + v - c) + i)
        BY <1>4, <1>8 DEF DmWrite, k, c
    <2>2. v \in Int
        BY <1>2, <1>8
    <2> HIDE DEF v
    <2>3. (DictLen + v - c) + i = DictLen + (v + (y - l))
        BY <1>11, <1>12, <2>2, SizeAssumption
    <2> QED BY <2>1, <2>3 DEF v
<1>17. Kind(m, k, y) = "dm"
    BY <1>3, <1>9, <1>12 DEF Kind, w, q, l, pool
<1> QED BY <1>9, <1>13, <1>14, <1>15, <1>16, <1>17 DEF u, q, l, w, pool

\* A write of a flat pass is the write of one byte of the window, by the lane that the
\* byte's flat index names; a read lies below the window.
LEMMA FlatAccess ==
    ASSUME SerialInput, NEW v \in Team, NEW s, cur[v] = s, NEW m \in 0 .. Len(stream.cmd), Staged(s, m),
           NEW a \in FlatAccesses(v)
    PROVE  \/ /\ a[1] = "w" /\ a[2] \div WARP_SIZE = v - 1
              /\ \E k, y : /\ InWindow(m, k, y) /\ a[3] = Place(m, k, y)
                           /\ a[2] = FlatIndex(m, k, y) % TeamThreads
           \/ a[1] = "r" /\ a[3] \in Int /\ a[3] < At(m).dst_pos
<1> DEFINE Mine(total) == {i \in 0 .. total - 1 : (i % TeamThreads) \div WARP_SIZE = v - 1}
           lit == head[s].total_lit
           im == head[s].total_im
           dm == head[s].total_dm
<1>1. \/ \E i \in Mine(lit) : a = <<"w", i % TeamThreads, LitWrite(s, i)[1]>>
      \/ \E i \in Mine(im) : a = <<"w", i % TeamThreads, ImWrite(s, i)[1]>>
      \/ \E i \in Mine(im) : a = <<"r", i % TeamThreads, ImRead(s, i)>>
      \/ \E i \in Mine(dm) : a = <<"w", i % TeamThreads, DmWrite(s, i)[1]>>
    BY DEF FlatAccesses
<1>2. CASE \E i \in Mine(lit) : a = <<"w", i % TeamThreads, LitWrite(s, i)[1]>>
    <2> PICK i \in Mine(lit) : a = <<"w", i % TeamThreads, LitWrite(s, i)[1]>>
        BY <1>2
    <2>1. \E k, y : InWindow(m, k, y) /\ LitWrite(s, i)[1] = Place(m, k, y) /\ i = FlatIndex(m, k, y)
        BY LitLands
    <2> QED BY <2>1
<1>3. CASE \E i \in Mine(im) : a = <<"w", i % TeamThreads, ImWrite(s, i)[1]>>
    <2> PICK i \in Mine(im) : a = <<"w", i % TeamThreads, ImWrite(s, i)[1]>>
        BY <1>3
    <2>1. \E k, y : InWindow(m, k, y) /\ ImWrite(s, i)[1] = Place(m, k, y) /\ i = FlatIndex(m, k, y)
        BY ImLands
    <2> QED BY <2>1
<1>4. CASE \E i \in Mine(im) : a = <<"r", i % TeamThreads, ImRead(s, i)>>
    <2> PICK i \in Mine(im) : a = <<"r", i % TeamThreads, ImRead(s, i)>>
        BY <1>4
    <2>1. ImRead(s, i) \in Int /\ ImRead(s, i) < At(m).dst_pos
        BY ImLands
    <2> QED BY <2>1
<1>5. CASE \E i \in Mine(dm) : a = <<"w", i % TeamThreads, DmWrite(s, i)[1]>>
    <2> PICK i \in Mine(dm) : a = <<"w", i % TeamThreads, DmWrite(s, i)[1]>>
        BY <1>5
    <2>1. \E k, y : InWindow(m, k, y) /\ DmWrite(s, i)[1] = Place(m, k, y) /\ i = FlatIndex(m, k, y)
        BY DmLands
    <2> QED BY <2>1
<1> QED BY <1>1, <1>2, <1>3, <1>4, <1>5

\* Two lanes never write one byte: a byte of the window has one flat index, and a flat
\* index one lane.
LEMMA SameLane ==
    ASSUME SerialInput, NEW m \in 0 .. Len(stream.cmd), NEW j, NEW y, NEW k, NEW z,
           InWindow(m, j, y), InWindow(m, k, z), Place(m, j, y) = Place(m, k, z)
    PROVE  FlatIndex(m, j, y) = FlatIndex(m, k, z)
<1> DEFINE q == At(m)
           w == Window(stream, q)
           n == BatchSize(stream, q)
           d == q.dst_pos
           dj == w.dst_local[j]
           dk == w.dst_local[k]
<1>1. stream \in Streams /\ q = Reference(stream)[m].pos
    BY DEF SerialInput, At
<1>2. /\ j \in 0 .. n - 1 /\ k \in 0 .. n - 1 /\ y \in Nat /\ z \in Nat
      /\ y < w.lit[j] + w.match[j] /\ z < w.lit[k] + w.match[k]
      /\ d + dj + y = d + dk + z
    BY SMTT(40) DEF InWindow, Place
<1>3. d \in Nat /\ dj \in Nat /\ dk \in Nat
    BY <1>1, <1>2, WindowRanges
<1>4. dj + y = dk + z
    <2>1. d + dj + y = d + dk + z /\ y \in Nat /\ z \in Nat /\ d \in Nat /\ dj \in Nat /\ dk \in Nat
        BY SMTT(40), <1>2, <1>3
    <2> HIDE DEF d, dj, dk
    <2> QED BY <2>1
<1>5. j = k /\ y = z
    BY <1>1, <1>2, <1>4, SamePlace
<1> QED BY <1>5

\* A read lies below every byte of the window.
LEMMA ReadBelow ==
    ASSUME SerialInput, NEW m \in 0 .. Len(stream.cmd), NEW j, NEW y, InWindow(m, j, y)
    PROVE  Place(m, j, y) \in Int /\ At(m).dst_pos \in Int /\ At(m).dst_pos <= Place(m, j, y)
<1> DEFINE q == At(m)
           w == Window(stream, q)
           n == BatchSize(stream, q)
           d == q.dst_pos
           dj == w.dst_local[j]
<1>1. stream \in Streams /\ q = Reference(stream)[m].pos /\ j \in 0 .. n - 1 /\ y \in Nat
    BY DEF SerialInput, At, InWindow
<1>2. d \in Nat /\ dj \in Nat
    BY <1>1, WindowRanges
<1>3. Place(m, j, y) = d + dj + y
    BY DEF Place
<1> HIDE DEF d, dj
<1>4. d + dj + y \in Int /\ d \in Int /\ d <= d + dj + y
    BY <1>1, <1>2
<1> QED BY <1>3, <1>4 DEF d

\* Between two barriers no two lanes of the copier team touch the same output byte
\* unless both read it, for any number of copier warps, any warp size and any streams.
THEOREM OutputRaceFree == Spec => []DstRaceFree
<1>1. IInv /\ RInv /\ SlotInv => DstRaceFree
    <2> SUFFICES ASSUME IInv, RInv, SlotInv, NEW v \in Team, NEW w \in Team,
                        NEW a \in Accesses(v), NEW b \in Accesses(w),
                        v # w \/ a[2] # b[2], a[3] = b[3]
                 PROVE  a[1] = "r" /\ b[1] = "r"
        BY DEF DstRaceFree
    <2> USE WarpFacts
    <2>1. /\ pc[v] \in {"lit", "im", "dm", "flatdone"} \/ (v = 1 /\ pc[v] = "dep")
          /\ pc[w] \in {"lit", "im", "dm", "flatdone"} \/ (w = 1 /\ pc[w] = "dep")
        BY DEF Accesses
    <2>2. TeamTarget(v) = TeamTarget(w)
        BY DEF IInv, TeamLockstep
    <2>3. CASE pc[v] = "dep" \/ pc[w] = "dep"
        <3>1. v = 1 /\ w = 1 /\ pc[1] = "dep"
            BY <2>1, <2>2, <2>3 DEF TeamTarget
        <3>2. a \in DependentAccesses /\ b \in DependentAccesses
            BY <3>1 DEF Accesses
        <3>3. \A c \in DependentAccesses : c[2] = 0
            BY DEF DependentAccesses
        <3> QED BY <3>1, <3>2, <3>3
    <2>4. CASE pc[v] # "dep" /\ pc[w] # "dep"
        <3>1. a \in FlatAccesses(v) /\ b \in FlatAccesses(w)
            BY <2>1, <2>4 DEF Accesses
        <3>2. pc[v] \in Executing /\ cur[v] = cur[w] /\ cur[v] \in Stages
            BY <2>1, <2>4 DEF Executing, TeamPCs, TeamSites, IInv, CurAgree
        <3>3. SerialInput
            BY DEF RInv
        <3>4. PICK m \in 0 .. Len(stream.cmd) : Staged(cur[v], m)
            <4>1. s_have[cur[v]]
                BY <3>2 DEF SlotInv
            <4>2. ~HalfStaged(cur[v])
                BY <3>2, SlotsApart DEF HalfStaged, SlotExclusive, Staging
            <4> QED BY <3>2, <4>1, <4>2 DEF SlotInv
        <3>5. \/ /\ a[1] = "w" /\ a[2] \div WARP_SIZE = v - 1
                 /\ \E k, y : InWindow(m, k, y) /\ a[3] = Place(m, k, y) /\ a[2] = FlatIndex(m, k, y) % TeamThreads
              \/ a[1] = "r" /\ a[3] \in Int /\ a[3] < At(m).dst_pos
            BY <3>1, <3>3, <3>4, FlatAccess
        <3>6. \/ /\ b[1] = "w" /\ b[2] \div WARP_SIZE = w - 1
                 /\ \E k, y : InWindow(m, k, y) /\ b[3] = Place(m, k, y) /\ b[2] = FlatIndex(m, k, y) % TeamThreads
              \/ b[1] = "r" /\ b[3] \in Int /\ b[3] < At(m).dst_pos
            BY <3>1, <3>2, <3>3, <3>4, FlatAccess
        <3>7. CASE a[1] = "w" /\ b[1] = "w"
            <4>1. a[2] = b[2]
                BY <3>3, <3>5, <3>6, <3>7, SameLane
            <4>2. v - 1 = w - 1
                BY <3>5, <3>6, <3>7, <4>1
            <4> QED BY <4>1, <4>2 DEF Team
        <3>8. ASSUME a[1] = "w", b[1] = "r" PROVE FALSE
            BY <3>3, <3>5, <3>6, <3>8, ReadBelow
        <3>9. ASSUME a[1] = "r", b[1] = "w" PROVE FALSE
            BY <3>3, <3>5, <3>6, <3>9, ReadBelow
        <3> QED BY <3>5, <3>6, <3>7, <3>8, <3>9
    <2> QED BY <2>3, <2>4
<1> QED BY <1>1, Invariance, RegistersSerial, SlotsStaged, PTL

-----------------------------------------------------------------------------
(* The output *)

\* The byte the serial decode leaves at address a, and an address that holds it.
Final(a) == Decoded(stream, serial)[a + 1]
Good(a)  == a \in Addresses /\ dst[a] = Final(a)

\* What the serial decode leaves in the window at token m.
LEMMA WindowFinal ==
    ASSUME SerialInput, NEW m \in 0 .. Len(stream.cmd), NEW k, NEW y, InWindow(m, k, y)
    PROVE  LET w == Window(stream, At(m))
               n == BatchSize(stream, At(m))
           IN /\ w.src[k] \in Int /\ w.lit[k] \in Nat /\ w.match[k] \in Nat /\ w.copy_dst[k] \in Nat
              /\ w.copy_dst[k] = Place(m, k, w.lit[k])
              /\ w.src[k] = w.copy_dst[k] + w.offset[k]
              /\ w.match[k] > 0 => w.src[k] < w.copy_dst[k]
              /\ w.copy_dst[k] + w.match[k] <= DstSize
              /\ Place(m, k, y) \in Addresses /\ At(m).dst_pos <= Place(m, k, y)
              /\ Place(m, k, y) < At(m + n).dst_pos
              /\ y < w.lit[k] => Final(Place(m, k, y)) = LitByte(At(m).lit_pos + (w.lit_local[k] + y))
              /\ ~(y < w.lit[k]) =>
                    Final(Place(m, k, y)) = Source(Decoded(stream, serial), w.src[k] + (y - w.lit[k]))
<1> DEFINE q == Reference(stream)[m].pos
           w == Window(stream, q)
           n == BatchSize(stream, q)
           fin == Decoded(stream, Reference(stream))
           a == q.dst_pos + w.dst_local[k] + y
<1>1. stream \in Streams /\ At(m) = q /\ serial = Reference(stream)
    BY DEF SerialInput, At
<1>2. k \in 0 .. n - 1 /\ y \in Nat /\ y < w.lit[k] + w.match[k]
    BY SMTT(40), <1>1 DEF InWindow
<1>3. /\ w.src[k] \in Int /\ w.lit[k] \in Nat /\ w.match[k] \in Nat /\ w.copy_dst[k] \in Nat
      /\ w.copy_dst[k] = q.dst_pos + w.dst_local[k] + w.lit[k]
      /\ w.src[k] = w.copy_dst[k] + w.offset[k]
      /\ w.match[k] > 0 => w.src[k] < w.copy_dst[k]
      /\ w.copy_dst[k] + w.match[k] <= DstSize
      /\ a \in Addresses /\ q.dst_pos <= a
      /\ a < Reference(stream)[m + n].pos.dst_pos
      /\ y < w.lit[k] => fin[a + 1] = LitByte(q.lit_pos + (w.lit_local[k] + y))
      /\ ~(y < w.lit[k]) => fin[a + 1] = Source(fin, w.src[k] + (y - w.lit[k]))
    BY <1>1, <1>2, WindowBytes
<1>4. Place(m, k, y) = a /\ Place(m, k, w.lit[k]) = q.dst_pos + w.dst_local[k] + w.lit[k]
    BY <1>1 DEF Place
<1>5. At(m + n) = Reference(stream)[m + n].pos
    BY <1>1 DEF At
<1>6. Final(a) = fin[a + 1] /\ Decoded(stream, serial) = fin
    BY <1>1 DEF Final
<1> HIDE DEF q, w, n, fin, a
<1> QED BY <1>1, <1>3, <1>4, <1>5, <1>6 DEF w, n

\* The lengths the lanes add up in the pass that writes a kind of byte, and the bytes
\* of token k before those.
PoolOf(m, kind) ==
    CASE kind = "lit" -> Window(stream, At(m)).lit
      [] kind = "im"  -> ImPool(stream, At(m))
      [] kind = "dm"  -> DmPool(stream, At(m))
Skipped(m, kind, k) == IF kind = "lit" THEN 0 ELSE Window(stream, At(m)).lit[k]
FlatKinds == {"lit", "im", "dm"}

\* A flat byte of the window is one byte of the sum over its pool.
LEMMA FlatSum ==
    ASSUME SerialInput, NEW m \in 0 .. Len(stream.cmd), NEW k, NEW y, InWindow(m, k, y),
           NEW kind \in FlatKinds, Kind(m, k, y) = kind
    PROVE  LET n == BatchSize(stream, At(m))
               f == PoolOf(m, kind)
               x == y - Skipped(m, kind, k)
           IN /\ n \in Nat /\ k \in 0 .. n - 1
              /\ \A j \in 0 .. n - 1 : f[j] \in Nat
              /\ x \in Nat /\ x < f[k] /\ FlatIndex(m, k, y) = SumBelow(f, n)[k] + x
              /\ Skipped(m, kind, k) \in Nat
<1> DEFINE q == At(m)
           n == BatchSize(stream, q)
           w == Window(stream, q)
           im == ImPool(stream, q)
           dm == DmPool(stream, q)
           sum(f) == SumBelow(f, n)
           l == w.lit[k]
           b == w.match[k]
           i == FlatIndex(m, k, y)
<1>1. stream \in Streams /\ q = Reference(stream)[m].pos
    BY DEF SerialInput, At
<1>2. n \in Nat /\ w.lit_local = sum(w.lit)
    BY <1>1, WindowRanges
<1>3. \A j \in 0 .. n - 1 : w.lit[j] \in Nat /\ w.match[j] \in Nat
    BY <1>1, WindowRanges
<1>4. \A j \in 0 .. n - 1 : im[j] \in Nat /\ dm[j] \in Nat
    BY <1>1, PoolFacts
<1>5. k \in Independent(w, q) => im[k] = w.match[k]
    BY SMTT(40), <1>1, PoolFacts
<1>6. k \in EntirelyDict(w) => dm[k] = w.match[k]
    BY SMTT(40), <1>1, PoolFacts
<1>7. k \in 0 .. n - 1 /\ y \in Nat /\ y < l + b
    BY DEF InWindow
<1>8. y < l => i = sum(w.lit)[k] + y
    BY <1>2 DEF FlatIndex
<1>9. ~(y < l) /\ k \in Independent(w, q) => i = sum(im)[k] + (y - l)
    BY DEF FlatIndex
<1>10. ~(y < l) /\ k \notin Independent(w, q) => i = sum(dm)[k] + (y - l)
    BY DEF FlatIndex
<1>11. /\ kind = "lit" => y < l
       /\ kind = "im" => ~(y < l) /\ k \in Independent(w, q)
       /\ kind = "dm" => ~(y < l) /\ k \notin Independent(w, q) /\ k \in EntirelyDict(w)
    BY DEF Kind
<1>12. /\ kind = "lit" => PoolOf(m, kind) = w.lit /\ Skipped(m, kind, k) = 0
       /\ kind = "im" => PoolOf(m, kind) = im /\ Skipped(m, kind, k) = l
       /\ kind = "dm" => PoolOf(m, kind) = dm /\ Skipped(m, kind, k) = l
    BY DEF PoolOf, Skipped
<1>13. l \in Nat /\ b \in Nat
    BY <1>3, <1>7
<1> HIDE DEF q, n, w, im, dm, sum, l, b, i
<1>14. CASE kind = "lit"
    <2>1. y - 0 = y
        BY <1>7
    <2> QED BY <1>2, <1>3, <1>7, <1>8, <1>11, <1>12, <1>14, <2>1 DEF n, q, i, sum, l
<1>15. ASSUME ~(y < l) PROVE y - l \in Nat /\ y - l < b
    BY <1>7, <1>13, <1>15
<1>16. CASE kind = "im"
    BY <1>2, <1>4, <1>5, <1>7, <1>9, <1>11, <1>12, <1>13, <1>15, <1>16 DEF n, q, i, sum, b
<1>17. CASE kind = "dm"
    BY <1>2, <1>4, <1>6, <1>7, <1>10, <1>11, <1>12, <1>13, <1>15, <1>17 DEF n, q, i, sum, b
<1> QED BY <1>14, <1>16, <1>17 DEF FlatKinds

\* Different lanes' shares of a sum do not overlap, and all lie below the total.
LEMMA SumApart ==
    ASSUME NEW n \in Nat, NEW f, \A k \in 0 .. n - 1 : f[k] \in Nat,
           NEW j \in 0 .. n - 1, NEW x \in Nat, x < f[j]
    PROVE  /\ SumBelow(f, n)[j] + x \in 0 .. SumBelow(f, n)[n] - 1
           /\ \A k \in 0 .. n - 1 : \A z \in Nat :
                 z < f[k] /\ SumBelow(f, n)[j] + x = SumBelow(f, n)[k] + z => j = k /\ x = z
<1> DEFINE s == SumBelow(f, n)
<1>1. /\ \A k \in 0 .. n : s[k] \in Nat
      /\ \A i \in 0 .. n - 1, k \in 0 .. n : i < k => s[i] + f[i] <= s[k]
    BY SumGrows
<1> HIDE DEF s
<1>2. s[j] + x \in 0 .. s[n] - 1
    <2>1. s[j] \in Nat /\ s[n] \in Nat /\ f[j] \in Nat /\ s[j] + f[j] <= s[n]
        BY <1>1
    <2> QED BY <2>1
<1>3. ASSUME NEW k \in 0 .. n - 1, NEW z \in Nat, z < f[k], s[j] + x = s[k] + z
      PROVE  j = k /\ x = z
    <2>1. s[j] \in Nat /\ s[k] \in Nat /\ f[j] \in Nat /\ f[k] \in Nat
        BY <1>1
    <2>2. (j < k => s[j] + f[j] <= s[k]) /\ (k < j => s[k] + f[k] <= s[j])
        BY <1>1
    <2>3. ~(j < k) /\ ~(k < j)
        BY <1>3, <2>1, <2>2
    <2>4. j = k
        BY <2>3
    <2> QED BY <1>3, <2>1, <2>4
<1> QED BY <1>2, <1>3 DEF s

\* The flat bytes of a kind in slot s, and the write of one.
TotalOf(s, kind) ==
    CASE kind = "lit" -> head[s].total_lit
      [] kind = "im"  -> head[s].total_im
      [] kind = "dm"  -> head[s].total_dm
WriteOf(s, kind, i) ==
    CASE kind = "lit" -> LitWrite(s, i)
      [] kind = "im"  -> ImWrite(s, i)
      [] kind = "dm"  -> DmWrite(s, i)

\* The write of a flat byte lands on a byte of the window of that kind.
LEMMA FlatLands ==
    ASSUME SerialInput, NEW s, NEW m \in 0 .. Len(stream.cmd), Staged(s, m),
           NEW kind \in FlatKinds, NEW i \in 0 .. TotalOf(s, kind) - 1
    PROVE  \E k, y : /\ InWindow(m, k, y) /\ Kind(m, k, y) = kind /\ FlatIndex(m, k, y) = i
                     /\ WriteOf(s, kind, i)[1] = Place(m, k, y)
<1>1. CASE kind = "lit"
    <2>1. i \in 0 .. head[s].total_lit - 1 /\ WriteOf(s, kind, i) = LitWrite(s, i)
        BY <1>1 DEF TotalOf, WriteOf
    <2>2. \E k, y : /\ InWindow(m, k, y) /\ LitWrite(s, i)[1] = Place(m, k, y)
                    /\ i = FlatIndex(m, k, y) /\ Kind(m, k, y) = "lit"
        BY <2>1, LitLands
    <2> QED BY <1>1, <2>1, <2>2
<1>2. CASE kind = "im"
    <2>1. i \in 0 .. head[s].total_im - 1 /\ WriteOf(s, kind, i) = ImWrite(s, i)
        BY <1>2 DEF TotalOf, WriteOf
    <2>2. \E k, y : /\ InWindow(m, k, y) /\ ImWrite(s, i)[1] = Place(m, k, y)
                    /\ i = FlatIndex(m, k, y) /\ Kind(m, k, y) = "im"
        BY <2>1, ImLands
    <2> QED BY <1>2, <2>1, <2>2
<1>3. CASE kind = "dm"
    <2>1. i \in 0 .. head[s].total_dm - 1 /\ WriteOf(s, kind, i) = DmWrite(s, i)
        BY <1>3 DEF TotalOf, WriteOf
    <2>2. \E k, y : /\ InWindow(m, k, y) /\ DmWrite(s, i)[1] = Place(m, k, y)
                    /\ i = FlatIndex(m, k, y) /\ Kind(m, k, y) = "dm"
        BY <2>1, DmLands
    <2> QED BY <1>3, <2>1, <2>2
<1> QED BY <1>1, <1>2, <1>3 DEF FlatKinds

\* Conversely, every such byte of the window is written by the flat byte of its index.
LEMMA FlatCovered ==
    ASSUME SerialInput, NEW s, NEW m \in 0 .. Len(stream.cmd), Staged(s, m),
           NEW kind \in FlatKinds, NEW k, NEW y, InWindow(m, k, y), Kind(m, k, y) = kind
    PROVE  /\ FlatIndex(m, k, y) \in 0 .. TotalOf(s, kind) - 1
           /\ WriteOf(s, kind, FlatIndex(m, k, y))[1] = Place(m, k, y)
<1> DEFINE q == At(m)
           n == BatchSize(stream, q)
           f == PoolOf(m, kind)
           i == FlatIndex(m, k, y)
           x == y - Skipped(m, kind, k)
<1>1. /\ n \in Nat /\ k \in 0 .. n - 1 /\ \A j \in 0 .. n - 1 : f[j] \in Nat
      /\ x \in Nat /\ x < f[k] /\ i = SumBelow(f, n)[k] + x
    BY FlatSum
<1>2. TotalOf(s, kind) = SumBelow(f, n)[n]
    <2>1. stream \in Streams /\ q = Reference(stream)[m].pos
        BY DEF SerialInput, At
    <2>2. Window(stream, q).lit_local = SumBelow(Window(stream, q).lit, n)
        BY <2>1, WindowRanges
    <2>3. head[s] = StagedHead(stream, q)
        BY DEF Staged
    <2>4. /\ head[s].total_lit = SumBelow(Window(stream, q).lit, n)[n]
          /\ head[s].total_im = SumBelow(ImPool(stream, q), n)[n]
          /\ head[s].total_dm = SumBelow(DmPool(stream, q), n)[n]
        BY <1>1, <2>2, <2>3, StagedFields
    <2> QED BY <2>4 DEF TotalOf, PoolOf, FlatKinds
<1> HIDE DEF f, n
<1>3. i \in 0 .. TotalOf(s, kind) - 1
    <2> HIDE DEF x, i
    <2> QED BY <1>1, <1>2, SumApart
<1>4. PICK j, z : /\ InWindow(m, j, z) /\ Kind(m, j, z) = kind /\ FlatIndex(m, j, z) = i
                  /\ WriteOf(s, kind, i)[1] = Place(m, j, z)
    BY <1>3, FlatLands
<1> DEFINE v == z - Skipped(m, kind, j)
<1>5. j \in 0 .. n - 1 /\ v \in Nat /\ v < f[j] /\ i = SumBelow(f, n)[j] + v
    BY <1>4, FlatSum DEF f, n
<1>6. Skipped(m, kind, j) \in Nat /\ Skipped(m, kind, k) \in Nat /\ y \in Nat /\ z \in Nat
    BY <1>4, FlatSum DEF InWindow
<1>7. k = j /\ x = v
    <2> HIDE DEF x, v, i
    <2> QED BY <1>1, <1>5, SumApart
<1>8. y = z
    BY <1>6, <1>7
<1> QED BY <1>3, <1>4, <1>7, <1>8

\* A flat write stores the byte of the serial decode, once the output below the window does.
LEMMA FlatStores ==
    ASSUME SerialInput, NEW s, NEW m \in 0 .. Len(stream.cmd), Staged(s, m),
           \A a \in 0 .. At(m).dst_pos - 1 : Good(a),
           NEW kind \in FlatKinds, NEW i \in 0 .. TotalOf(s, kind) - 1
    PROVE  WriteOf(s, kind, i)[2] = Final(WriteOf(s, kind, i)[1])
<1> DEFINE q == At(m)
           w == Window(stream, q)
           fin == Decoded(stream, serial)
<1>1. q \in PosType
    BY InputFacts
<1>2. q.dst_pos \in Nat /\ q.lit_pos \in Nat
    <2> HIDE DEF q
    <2> QED BY <1>1 DEF PosType
<1>3. CASE kind = "lit"
    <2>1. i \in 0 .. head[s].total_lit - 1 /\ WriteOf(s, kind, i) = LitWrite(s, i)
        BY <1>3 DEF TotalOf, WriteOf
    <2>2. PICK k, y : /\ InWindow(m, k, y) /\ LitWrite(s, i)[1] = Place(m, k, y)
                      /\ i = FlatIndex(m, k, y) /\ Kind(m, k, y) = "lit"
        BY <2>1, LitLands
    <2>3. y < w.lit[k]
        BY <2>2 DEF Kind
    <2>4. i = w.lit_local[k] + y
        BY <2>2, <2>3 DEF FlatIndex
    <2>5. Final(Place(m, k, y)) = LitByte(q.lit_pos + i)
        <3>1. Final(Place(m, k, y)) = LitByte(q.lit_pos + (w.lit_local[k] + y))
            BY <2>2, <2>3, WindowFinal
        <3> QED BY <2>4, <3>1
    <2>6. head[s].lit_pos = q.lit_pos
        BY DEF Staged, StagedHead
    <2> QED BY <2>1, <2>2, <2>5, <2>6 DEF LitWrite
<1>4. CASE kind = "im"
    <2>1. i \in 0 .. head[s].total_im - 1 /\ WriteOf(s, kind, i) = ImWrite(s, i)
        BY <1>4 DEF TotalOf, WriteOf
    <2>2. /\ \E k, y : /\ InWindow(m, k, y) /\ ImWrite(s, i)[1] = Place(m, k, y)
                       /\ i = FlatIndex(m, k, y) /\ Kind(m, k, y) = "im"
                       /\ ImRead(s, i) = w.src[k] + (y - w.lit[k])
          /\ ImRead(s, i) \in Int /\ ImRead(s, i) < q.dst_pos
        BY <2>1, ImLands
    <2>3. PICK k, y : /\ InWindow(m, k, y) /\ ImWrite(s, i)[1] = Place(m, k, y)
                      /\ Kind(m, k, y) = "im" /\ ImRead(s, i) = w.src[k] + (y - w.lit[k])
        BY <2>2
    <2> DEFINE a == ImRead(s, i)
               l == w.lit[k]
               b == w.match[k]
               v == w.src[k]
    <2>4. ~(y < l) /\ k \in Independent(w, q)
        BY <2>3 DEF Kind
    <2>5. Final(Place(m, k, y)) = Source(fin, a)
        BY <2>3, <2>4, WindowFinal
    <2>6. l \in Nat /\ b \in Nat /\ v \in Int /\ y \in Nat /\ y < l + b /\ a = v + (y - l) /\ a \in Int
        BY <2>2, <2>3, WindowFinal DEF InWindow
    <2>7. k \notin ReachesDict(w) /\ k \in DOMAIN w.src
        BY <2>4 DEF Independent
    <2>8. DictLen > 0 => ~(v < 0)
        <3>1. b > 0
            <4> HIDE DEF l, b, v, a, w
            <4> QED BY <2>4, <2>6
        <3> QED BY <2>7, <3>1 DEF ReachesDict
    <2>9. ImWrite(s, i)[2] = IF a \in Addresses THEN dst[a] ELSE Unwritten
        BY DEF ImWrite
    <2> HIDE DEF a, l, b, v, w, fin
    <2>10. DictLen > 0 => a >= 0
        BY <2>4, <2>6, <2>8
    <2>11. a >= 0 => a \in 0 .. q.dst_pos - 1 /\ a \in Addresses
        <3>1. q.dst_pos <= DstSize
            <4>1. Reference(stream)[m].pos.dst_pos <= Reference(stream)[Len(stream.cmd)].pos.dst_pos
                BY FinalOutput DEF SerialInput
            <4>2. LET last == Reference(stream)[Len(stream.cmd)].pos
                  IN /\ last.dst_pos + Trailing(stream, last) <= DstSize
                     /\ Trailing(stream, last) \in Nat /\ last.dst_pos \in Nat
                BY FinalOutput DEF SerialInput
            <4>3. q = Reference(stream)[m].pos
                BY DEF SerialInput, At
            <4> DEFINE e == Reference(stream)[Len(stream.cmd)].pos.dst_pos
                       t == Trailing(stream, Reference(stream)[Len(stream.cmd)].pos)
            <4>4. q.dst_pos <= e /\ e \in Nat /\ t \in Nat /\ e + t <= DstSize
                BY <4>1, <4>2, <4>3
            <4> HIDE DEF q, e, t
            <4> QED BY <1>2, <4>4, SizeAssumption
        <3>2. a < q.dst_pos
            BY <2>2 DEF a
        <3> HIDE DEF q
        <3> QED BY <1>2, <2>6, <3>1, <3>2, SizeAssumption DEF Addresses
    <2>12. a < 0 => a \notin Addresses
        BY DEF Addresses
    <2>13. ImWrite(s, i)[2] = Source(fin, a)
        <3>1. CASE a >= 0
            <4>1. dst[a] = fin[a + 1]
                BY <2>11, <3>1 DEF Good, Final, fin
            <4> QED BY <2>6, <2>9, <2>11, <3>1, <4>1 DEF Source
        <3>2. CASE a < 0
            BY <2>6, <2>9, <2>10, <2>12, <3>2 DEF Source
        <3> QED BY <2>6, <3>1, <3>2
    <2> QED BY <2>1, <2>3, <2>5, <2>13
<1>5. CASE kind = "dm"
    <2>1. i \in 0 .. head[s].total_dm - 1 /\ WriteOf(s, kind, i) = DmWrite(s, i)
        BY <1>5 DEF TotalOf, WriteOf
    <2>2. PICK k, y : /\ InWindow(m, k, y) /\ DmWrite(s, i)[1] = Place(m, k, y)
                      /\ Kind(m, k, y) = "dm" /\ k \in EntirelyDict(w)
                      /\ DmWrite(s, i)[2] = DictByte(DictLen + (w.src[k] + (y - w.lit[k])))
        BY <2>1, DmLands
    <2> DEFINE l == w.lit[k]
               b == w.match[k]
               v == w.src[k]
               a == v + (y - l)
    <2>3. ~(y < l)
        BY <2>2 DEF Kind
    <2>4. Final(Place(m, k, y)) = Source(fin, a)
        BY <2>2, <2>3, WindowFinal
    <2>5. l \in Nat /\ b \in Nat /\ v \in Int /\ y \in Nat /\ y < l + b
        BY <2>2, WindowFinal DEF InWindow
    <2>6. DictLen > 0 /\ v + b <= 0 /\ v + DictLen >= 0
        BY <2>2 DEF EntirelyDict, ReachesDict
    <2> HIDE DEF l, b, v
    <2>7. a \in Int /\ a < 0 /\ -a <= DictLen /\ DictLen \in Nat
        BY <2>3, <2>5, <2>6, SizeAssumption
    <2>8. DmWrite(s, i)[2] = DictByte(DictLen + a)
        BY <2>2 DEF l, v
    <2> HIDE DEF a, fin
    <2>9. Source(fin, a) = DictByte(DictLen + a)
        BY <2>6, <2>7 DEF Source
    <2> QED BY <2>1, <2>2, <2>4, <2>8, <2>9
<1> QED BY <1>3, <1>4, <1>5 DEF FlatKinds

\* Every address of the window is a byte of one of its tokens.
LEMMA WindowCovered ==
    ASSUME SerialInput, NEW m \in 0 .. Len(stream.cmd),
           NEW a \in At(m).dst_pos .. At(m + BatchSize(stream, At(m))).dst_pos - 1
    PROVE  \E k, y : InWindow(m, k, y) /\ a = Place(m, k, y)
<1> DEFINE q == Reference(stream)[m].pos
           n == BatchSize(stream, q)
           w == Window(stream, q)
           both == [k \in 0 .. n - 1 |-> w.lit[k] + w.match[k]]
           sum == SumBelow(both, n)
           e == Reference(stream)[m + n].pos.dst_pos
           d == q.dst_pos
           i == a - d
<1>1. stream \in Streams /\ At(m) = q /\ At(m + n) = Reference(stream)[m + n].pos
    BY DEF SerialInput, At
<1>2. n \in Nat /\ d \in Nat /\ \A k \in 0 .. n - 1 : w.lit[k] \in Nat /\ w.match[k] \in Nat
    BY <1>1, WindowRanges
<1>3. \A k \in 0 .. n - 1 : both[k] \in Nat /\ both[k] = w.lit[k] + w.match[k]
    <2> HIDE DEF w, n
    <2> QED BY SMTT(40), <1>2
<1>4. w.dst_local = sum
    <2> DEFINE token == [k \in 0 .. n - 1 |-> stream.cmd[q.cmd_pos + k + 1]]
    <2>1. w.dst_local = SumBelow([k \in 0 .. n - 1 |-> w.lit[k] + w.match[k]], n)
        BY ZenonT(60) DEF Window
    <2> QED BY <2>1
<1>5. e = d + w.dst_local[n]
    <2>1. \A k \in 0 .. n : Reference(stream)[m + k].pos.dst_pos = d + w.dst_local[k]
        BY <1>1, WindowIsSerial
    <2> HIDE DEF n, w, d
    <2> QED BY <1>2, <2>1 DEF n
<1>6. a \in d .. e - 1
    BY <1>1
<1> HIDE DEF both
<1>7. \A k \in 0 .. n : sum[k] \in Nat
    <2> HIDE DEF n
    <2> QED BY <1>2, <1>3, SumGrows
<1>8. i \in Nat /\ i < sum[n]
    <2> DEFINE g == w.dst_local[n]
               t == sum[n]
    <2>1. t \in Nat /\ g = t /\ e = d + g
        <3> HIDE DEF n, sum
        <3> QED BY <1>2, <1>4, <1>5, <1>7
    <2> HIDE DEF e, d, g, t
    <2> QED BY <1>2, <1>6, <2>1 DEF t
<1>9. PICK k \in 0 .. n - 1 : sum[k] <= i /\ i < sum[k] + both[k]
    <2> HIDE DEF n, i
    <2> QED BY <1>2, <1>3, <1>8, SumLocates
<1>9a. sum[k] \in Nat /\ both[k] \in Nat
    <2>1. k \in 0 .. n
        <3>1. k \in 0 .. n - 1
            OBVIOUS
        <3> HIDE DEF n
        <3> QED BY <1>2, <3>1
    <2>2. k \in 0 .. n - 1
        OBVIOUS
    <2> HIDE DEF n, sum
    <2> QED BY <1>3, <1>7, <2>1, <2>2
<1> DEFINE b == sum[k]
           c == both[k]
           y == i - b
<1>10. y \in Nat /\ y < c /\ i = b + y
    <2>1. b \in Nat /\ c \in Nat /\ i \in Nat /\ b <= i /\ i < b + c
        BY <1>8, <1>9, <1>9a
    <2> HIDE DEF b, c, i
    <2> QED BY <2>1
<1>11. a = d + b + y
    <2>1. b \in Nat /\ y \in Nat /\ i = b + y
        BY <1>9a, <1>10
    <2>2. a \in Int /\ i = a - d
        BY <1>6
    <2>3. d \in Nat
        BY <1>2
    <2> HIDE DEF b, d, y, i
    <2> QED BY <2>1, <2>2, <2>3
<1> HIDE DEF y, sum
<1>12. InWindow(m, k, y)
    <2> HIDE DEF w, n
    <2>1. y < w.lit[k] + w.match[k]
        <3>1. k \in 0 .. n - 1
            BY <1>9
        <3> QED BY <1>3, <1>10, <3>1 DEF c
    <2> QED BY <1>1, <1>9, <1>10, <2>1 DEF InWindow, w, n
<1>13. a = Place(m, k, y)
    <2>1. Place(m, k, y) = d + w.dst_local[k] + y
        BY <1>1 DEF Place
    <2>2. w.dst_local[k] = b
        BY <1>4 DEF b
    <2> HIDE DEF w, d, b
    <2> QED BY <1>11, <2>1, <2>2
<1> QED BY <1>12, <1>13

\* The lanes of the team take turns at the flat bytes.
Turn(w, n) ==
    LET first == n * TeamThreads + (w - 1) * WARP_SIZE IN first .. first + WARP_SIZE - 1

\* A row of the flat copy is the part of a turn below the total.
LEMMA RowTurn == ASSUME NEW w, NEW n, NEW total PROVE Row(w, n, total) = {i \in Turn(w, n) : i < total}
BY DEF Row, Turn

\* Every flat byte is some warp's turn.
LEMMA TurnsCover ==
    ASSUME NEW i \in Nat
    PROVE  \E w \in Team, n \in Nat : i \in Turn(w, n)
<1> DEFINE T == TeamThreads
           W == WARP_SIZE
           C == Copiers
           Covered == {x \in Nat : \E w \in Team, n \in Nat : x \in Turn(w, n)}
<1>1. W \in Nat /\ W >= 1 /\ C \in Nat /\ C >= 1 /\ T = C * W /\ T \in Nat
    BY WarpAssumption, CopiersAssumption DEF TeamThreads
<1> HIDE DEF T, W, C
<1>2. 0 \in Covered
    <2>1. 0 * T + (1 - 1) * W = 0
        BY <1>1
    <2>2. 0 \in 0 .. 0 + W - 1
        BY <1>1
    <2>3. 0 \in Turn(1, 0)
        BY <2>1, <2>2 DEF Turn, T, W
    <2> QED BY <2>3, WarpFacts
<1>3. ASSUME NEW x \in Nat, x \in Covered PROVE x + 1 \in Covered
    <2> PICK w \in Team, n \in Nat : x \in Turn(w, n)
        BY <1>3
    <2> DEFINE first == n * T + (w - 1) * W
    <2>1. w \in Nat /\ w >= 1 /\ w <= C /\ first \in Int
        <3>1. w \in Nat /\ w >= 1 /\ w <= C
            BY CopiersAssumption DEF Team, C
        <3>2. n * T \in Int /\ (w - 1) * W \in Int
            BY <1>1, <3>1
        <3> QED BY <3>1, <3>2
    <2>2. x \in first .. first + W - 1
        BY DEF Turn, T, W
    <2>3. CASE x + 1 <= first + W - 1
        <3>1. x + 1 \in first .. first + W - 1
            <4> HIDE DEF first
            <4> QED BY <1>1, <2>1, <2>2, <2>3
        <3>2. x + 1 \in Turn(w, n)
            BY <3>1 DEF Turn, T, W
        <3> QED BY <3>2
    <2>4. CASE ~(x + 1 <= first + W - 1)
        <3>1. x + 1 = first + W
            <4> HIDE DEF first
            <4> QED BY <1>1, <2>1, <2>2, <2>4
        <3>2. CASE w < C
            <4>1. w + 1 \in Team
                BY <2>1, <3>2, CopiersAssumption DEF Team, C
            <4> DEFINE other == n * T + ((w + 1) - 1) * W
            <4>2. other = first + W
                <5>1. ((w + 1) - 1) * W = (w - 1) * W + W
                    BY <1>1, <2>1
                <5>2. n * T \in Int /\ (w - 1) * W \in Int
                    BY <1>1, <2>1
                <5> DEFINE s == n * T
                           t == (w - 1) * W
                           z == ((w + 1) - 1) * W
                <5> HIDE DEF s, t, z
                <5>3. s \in Int /\ t \in Int /\ z = t + W
                    BY <5>1, <5>2 DEF s, t, z
                <5>4. s + z = s + t + W
                    BY <1>1, <5>3
                <5> QED BY <5>4 DEF s, t, z
            <4>3. x + 1 \in other .. other + W - 1
                <5> HIDE DEF first, other
                <5> QED BY <1>1, <2>1, <3>1, <4>2
            <4>4. x + 1 \in Turn(w + 1, n)
                BY <4>3 DEF Turn, T, W
            <4> QED BY <4>1, <4>4
        <3>3. CASE w = C
            <4> DEFINE other == (n + 1) * T + (1 - 1) * W
            <4>1. other = first + W
                <5>1. (n + 1) * T = n * T + T
                    BY <1>1
                <5>2. (1 - 1) * W = 0
                    BY <1>1
                <5>3. (w - 1) * W + W = C * W
                    BY <1>1, <3>3
                <5> DEFINE s == n * T
                           t == (w - 1) * W
                           z == (n + 1) * T
                           v == (1 - 1) * W
                <5>4. s \in Int /\ t \in Int
                    BY <1>1, <2>1
                <5> HIDE DEF s, t, z, v
                <5>5. z = s + T /\ v = 0 /\ t + W = T
                    BY <1>1, <5>1, <5>2, <5>3 DEF s, t, z, v
                <5>6. z + v = s + t + W
                    BY <1>1, <5>4, <5>5
                <5> QED BY <5>6 DEF s, t, z, v
            <4>2. x + 1 \in other .. other + W - 1
                <5> HIDE DEF first, other
                <5> QED BY <1>1, <2>1, <3>1, <4>1
            <4>3. x + 1 \in Turn(1, n + 1)
                BY <4>2 DEF Turn, T, W
            <4>4. 1 \in Team /\ n + 1 \in Nat
                BY WarpFacts
            <4> QED BY <4>3, <4>4
        <3> QED BY <1>1, <2>1, <3>2, <3>3
    <2> QED BY <2>3, <2>4
<1> HIDE DEF Covered
<1>4. i \in Covered
    BY <1>2, <1>3, SetInduction
<1> QED BY <1>4 DEF Covered

\* A warp whose row is empty has none left.
LEMMA TurnsEnd ==
    ASSUME NEW w \in Team, NEW n \in Nat, NEW total \in Nat, Row(w, n, total) = {},
           NEW r \in Nat, r >= n, NEW i \in Turn(w, r)
    PROVE  ~(i < total)
<1> DEFINE T == TeamThreads
           W == WARP_SIZE
           s == n * T + (w - 1) * W
           e == r * T + (w - 1) * W
<1>1. W \in Nat /\ W >= 1 /\ T \in Nat
    BY WarpAssumption, CopiersAssumption DEF TeamThreads
<1>2. w - 1 \in Nat
    BY CopiersAssumption DEF Team
<1> HIDE DEF T, W
<1>3. s \in Nat /\ e \in Nat /\ s <= e
    <2>1. r * T >= n * T
        <3>1. r = n + (r - n) /\ r - n \in Nat
            OBVIOUS
        <3>2. r * T = n * T + (r - n) * T
            BY <1>1, <3>1
        <3>3. (r - n) * T \in Nat /\ n * T \in Nat
            BY <1>1, <3>1
        <3> QED BY <3>2, <3>3
    <2>2. n * T \in Nat /\ r * T \in Nat /\ (w - 1) * W \in Nat
        BY <1>1, <1>2
    <2> QED BY <2>1, <2>2
<1>4. i \in e .. e + W - 1
    BY DEF Turn, T, W
<1>5. s \in Turn(w, n)
    <2>1. s \in s .. s + W - 1
        <3> HIDE DEF s
        <3> QED BY <1>1, <1>3
    <2> QED BY <2>1 DEF Turn, T, W
<1>6. ~(s < total)
    BY <1>5, RowTurn
<1> HIDE DEF s, e
<1> QED BY <1>1, <1>3, <1>4, <1>6

-----------------------------------------------------------------------------
(* The tokens a barrier has ordered *)

\* What the parser has staged starts at token m, or nothing is staged and it stands there.
Ahead(s, m) ==
    IF s_have[s] THEN Staged(s, m) /\ pos[Parser].cmd_pos = m + head[s].batch_size
    ELSE pos[Parser].cmd_pos = m
Executed == committed + head[cur[Parser]].batch_size

\* The count of ordered tokens, by where the parser is.
ProgressAt(label) ==
    /\ label \in {"prime", "prime_head", "drained", "stated", "load"} => pos[Parser].cmd_pos = committed
    /\ label = "primed" => Ahead(0, committed)
    /\ label = "check" => Ahead(cur[Parser], committed)
    /\ label \in {"fill", "fill_head", "handoff"} => Staged(cur[Parser], committed)
    /\ label \in {"fill", "fill_head"} => pos[Parser].cmd_pos = Executed
    /\ label = "handoff" => Ahead(Toggle(cur[Parser]), Executed)
    /\ label \in {"token", "longset", "loadlong", "rebroadcast", "longlit", "literals", "matched",
                  "trail", "done"} => committed = M
    /\ label = "literals" => LongParsed.lit > 0
    /\ label = "matched" => LongParsed.match > 0
    /\ label = "longmatch" => committed = IF LongParsed.lit > 0 THEN M + 1 ELSE M
    /\ label = "reprime" => committed = M + 1
Progress == committed \in 0 .. Len(stream.cmd) /\ ProgressAt(pc[Parser])

\* Initially no token is committed.
LEMMA InitProgress == Init => Progress
<1> SUFFICES ASSUME Init PROVE Progress
    OBVIOUS
<1> USE WarpFacts
<1>1. pc[Parser] = "prime" /\ committed = 0 /\ pos[Parser].cmd_pos = 0 /\ SerialInput
    BY DEF Init, InitialPos, SerialInput
<1>2. Len(stream.cmd) \in Nat
    BY <1>1, InputFacts
<1>3. ProgressAt("prime")
    BY <1>1 DEF ProgressAt
<1> QED BY <1>1, <1>2, <1>3 DEF Progress

\* A step that moves neither the parser nor what it has staged.
LEMMA ProgressKept ==
    ASSUME Progress, UNCHANGED <<stream, serial, lanes, head, s_have, committed>>, M' = M,
           pc'[Parser] = pc[Parser], pos'[Parser] = pos[Parser], cur'[Parser] = cur[Parser]
    PROVE  Progress'
<1>1. LongParsed' = LongParsed
    BY LongNamed
<1>2. \A s, m : Ahead(s, m)' = Ahead(s, m) /\ Staged(s, m)' = Staged(s, m)
    BY DEF Ahead, Staged, At
<1>3. Executed' = Executed
    BY DEF Executed
<1> HIDE DEF M
<1> QED BY <1>1, <1>2, <1>3 DEF Progress, ProgressAt

\* What the parser stages starts where its registers stand.
LEMMA StagingProgress ==
    Progress /\ SlotInv /\ RInv /\ IInv /\ (StageLanes \/ StageHead \/ StageNothing) => Progress'
<1> SUFFICES ASSUME Progress, SlotInv, RInv, IInv, StageLanes \/ StageHead \/ StageNothing PROVE Progress'
    OBVIOUS
<1> USE WarpFacts
<1>1. pc[Parser] \in Staging /\ UNCHANGED <<stream, serial, cur, s_state, committed>>
    BY DEF StageLanes, StageHead, StageNothing, input, Staging
<1>2. pc \in [Warps -> PCs] /\ cur[Parser] \in Stages /\ s_have \in [Stages -> BOOLEAN]
    BY DEF IInv, PcType, CurAgree, HaveType
<1>3. Slot \in Stages /\ (pc[Parser] \in {"fill", "fill_head"} => cur[Parser] # Slot /\ Slot = Toggle(cur[Parser]))
      /\ (pc[Parser] \in {"prime", "prime_head"} => Slot = 0)
    BY <1>1, <1>2 DEF Slot, Toggle, Stages, Staging
<1>4. \A s \in Stages : s # Slot => lanes'[s] = lanes[s] /\ head'[s] = head[s] /\ s_have'[s] = s_have[s]
    BY <1>2 DEF SlotInv, StageLanes, StageHead, StageNothing
<1>5. pc[Parser] \in {"fill", "fill_head"} => Staged(cur[Parser], committed)' /\ Executed' = Executed
    <2>1. ASSUME pc[Parser] \in {"fill", "fill_head"}
          PROVE  Staged(cur[Parser], committed)
        BY <2>1 DEF Progress, ProgressAt
    <2> QED BY <1>1, <1>2, <1>3, <1>4, <2>1 DEF Staged, At, Executed
<1>6. pc[Parser] \in {"prime", "prime_head"} => pos[Parser].cmd_pos = committed
    BY DEF Progress, ProgressAt
<1>7. pc[Parser] \in {"fill", "fill_head"} => pos[Parser].cmd_pos = Executed
    BY DEF Progress, ProgressAt
<1>8. committed' \in 0 .. Len(stream'.cmd)
    BY <1>1 DEF Progress
<1>9. CASE StageLanes
    <2>1. pos' = pos /\ \/ pc[Parser] = "prime" /\ pc'[Parser] = "prime_head"
                        \/ pc[Parser] = "fill" /\ pc'[Parser] = "fill_head"
        BY <1>2, <1>9 DEF StageLanes, Goto
    <2> QED BY <1>1, <1>5, <1>6, <1>7, <1>8, <2>1 DEF Progress, ProgressAt
<1>10. ASSUME StageHead \/ StageNothing,
              NEW slot \in Stages, slot = Slot, NEW m, m = pos[Parser].cmd_pos
       PROVE  Ahead(slot, m)'
    <2>1. CASE StageHead
        <3>1. pos[Parser] = At(m)
            BY <1>1, <1>10 DEF RInv, ParserAt
        <3>3. lanes'[slot] = StagedLanes(stream, At(m)) /\ head'[slot] = StagedHead(stream, At(m))
              /\ s_have'[slot]
            BY <1>2, <1>10, <2>1, <3>1 DEF StageHead, SlotInv
        <3>4. pos'[Parser].cmd_pos = m + head'[slot].batch_size
            <4>1. pos'[Parser] = Advance(stream, At(m)) /\ m \in 0 .. Len(stream.cmd) /\ SerialInput
                BY <1>1, <1>10, <2>1, <3>1 DEF StageHead, RInv, PosTyped, ParserAt
            <4>2. At(m) \in PosType /\ At(m).cmd_pos = m
                BY <4>1, InputFacts
            <4>3. Advance(stream, At(m)).cmd_pos = At(m).cmd_pos + Window(stream, At(m)).n
                BY <4>2 DEF Advance, PosType
            <4>4. head'[slot].batch_size = Window(stream, At(m)).n
                BY <3>3 DEF StagedHead
            <4> QED BY <4>1, <4>2, <4>3, <4>4
        <3>5. Staged(slot, m)'
            BY <1>1, <3>3 DEF Staged, At
        <3> QED BY <3>3, <3>4, <3>5 DEF Ahead
    <2>2. CASE StageNothing
        <3>1. ~s_have'[slot] /\ pos' = pos
            BY <1>2, <1>10, <2>2 DEF StageNothing
        <3> QED BY <1>10, <3>1 DEF Ahead
    <2> QED BY <1>10, <2>1, <2>2
<1>11. CASE StageHead \/ StageNothing
    <2> PICK slot \in Stages : slot = Slot
        BY <1>3
    <2> PICK m : m = pos[Parser].cmd_pos
        OBVIOUS
    <2>1. Ahead(slot, m)'
        BY <1>10, <1>11
    <2>2. \/ pc[Parser] \in {"prime", "prime_head"} /\ pc'[Parser] = "primed"
          \/ pc[Parser] \in {"fill", "fill_head"} /\ pc'[Parser] = "handoff"
        BY <1>1, <1>2, <1>11 DEF StageHead, StageNothing, Goto, AfterFill, Staging
    <2>3. CASE pc'[Parser] = "primed"
        <3>1. slot = 0 /\ m = committed'
            BY <1>1, <1>3, <1>6, <2>2, <2>3
        <3>2. Ahead(0, committed)'
            BY <2>1, <3>1
        <3> QED BY <1>8, <2>3, <3>2 DEF Progress, ProgressAt
    <2>4. CASE pc'[Parser] = "handoff"
        <3>1. slot = Toggle(cur'[Parser]) /\ m = Executed'
            BY <1>1, <1>3, <1>5, <1>7, <2>2, <2>4
        <3>2. Ahead(Toggle(cur[Parser]), Executed)'
            BY <2>1, <3>1
        <3> QED BY <1>5, <1>8, <2>2, <2>4, <3>2 DEF Progress, ProgressAt
    <2> QED BY <2>2, <2>3, <2>4
<1> QED BY <1>9, <1>11

\* All the warps that meet at a block barrier are at one site.
LEMMA OneSite ==
    ASSUME IInv, SyncThreads
    PROVE  \E site \in BlockSites : \A w \in Warps : pc[w] = site
<1>1. \A w \in Warps : Target(w) = pc[w]
    BY DEF SyncThreads, Target, BlockSites, Executing, TeamPCs, TeamSites
<1> QED BY <1>1, WarpFacts DEF IInv, Lockstep, SyncThreads

\* The batch in the executing slot ends within the stream.
LEMMA ExecutedFacts ==
    ASSUME SerialInput, committed \in 0 .. Len(stream.cmd), Staged(cur[Parser], committed)
    PROVE  /\ Executed \in 0 .. Len(stream.cmd) /\ committed <= Executed
           /\ Executed = committed + BatchSize(stream, At(committed))
<1> DEFINE n == BatchSize(stream, At(committed))
           b == head[cur[Parser]].batch_size
<1>1. stream \in Streams /\ At(committed) = Reference(stream)[committed].pos /\ Len(stream.cmd) \in Nat
    BY InputFacts DEF SerialInput, At
<1>2. n \in Nat /\ committed + n <= Len(stream.cmd)
    BY <1>1, WindowIsSerial
<1>3. b = n
    BY <1>2, StagedFields DEF Staged
<1>4. Executed = committed + b
    BY DEF Executed
<1> HIDE DEF n, b
<1>5. Executed = committed + n
    BY <1>3, <1>4
<1>6. Executed \in 0 .. Len(stream.cmd) /\ committed <= Executed
    BY <1>1, <1>2, <1>5
<1> QED BY <1>5, <1>6 DEF n

\* A block barrier orders the batch it hands over, or the long token.
LEMMA SyncProgress == Progress /\ RInv /\ IInv /\ SyncThreads => Progress'
<1> SUFFICES ASSUME Progress, RInv, IInv, SyncThreads PROVE Progress'
    OBVIOUS
<1> USE WarpFacts
<1>1. PICK site \in BlockSites : \A w \in Warps : pc[w] = site
    BY OneSite
<1>2. UNCHANGED <<stream, serial, pos, s_state, s_have, lanes, head>>
    BY DEF SyncThreads, shared, input
<1>3. pc'[Parser] = Resume(Parser, site)
    BY <1>1 DEF SyncThreads
<1>4. committed' = Committed
    BY DEF SyncThreads
<1>5. \A s, m : Ahead(s, m)' = Ahead(s, m)
    BY <1>2 DEF Ahead, Staged, At
<1>6. M' = M /\ LongParsed' = LongParsed
    BY <1>2, LongKept
<1>7. committed \in 0 .. Len(stream.cmd) /\ ProgressAt(site)
    BY <1>1 DEF Progress
<1>8. ASSUME site \in {"literals", "matched"}
      PROVE  M + 1 \in 0 .. Len(stream.cmd) /\ pos[Parser].cmd_pos = M + 1
    <2>1. pc[Parser] \in LongPCs
        BY <1>1, <1>8 DEF LongPCs, HoldsLong
    <2>2. M < Len(stream.cmd) /\ DrainedState /\ Counted \in PosType /\ LitCopied \in PosType
        BY <2>1, LongTyped
    <2>3. M + 1 \in 0 .. Len(stream.cmd)
        BY <2>2, LongFacts
    <2>4. Counted.cmd_pos = M + 1 /\ LitCopied.cmd_pos = M + 1
        BY <2>1, LongTyped
    <2>5. pos[Parser] = Counted \/ pos[Parser] = LitCopied
        BY <1>1, <1>8 DEF RInv, Registers
    <2> QED BY <2>3, <2>4, <2>5
<1>9. CASE site = "primed"
    <2>1. pc'[Parser] = "check" /\ cur'[Parser] = 0 /\ committed' = committed
        BY <1>1, <1>3, <1>4, <1>9 DEF Resume, SyncThreads, Committed
    <2>2. Ahead(0, committed)
        BY <1>7, <1>9 DEF ProgressAt
    <2> QED BY <1>2, <1>5, <1>7, <2>1, <2>2 DEF Progress, ProgressAt
<1>10. CASE site = "handoff"
    <2>1. pc'[Parser] = "check" /\ cur'[Parser] = Toggle(cur[Parser]) /\ committed' = Executed
        BY <1>1, <1>3, <1>4, <1>10 DEF Resume, SyncThreads, Committed, Executed
    <2>2. Ahead(Toggle(cur[Parser]), Executed) /\ Staged(cur[Parser], committed)
        BY <1>7, <1>10 DEF ProgressAt
    <2>3. committed' \in 0 .. Len(stream.cmd)
        BY <1>7, <2>1, <2>2, ExecutedFacts DEF RInv
    <2> PICK slot, m : slot = Toggle(cur[Parser]) /\ m = Executed
        OBVIOUS
    <2>4. Ahead(slot, m)'
        BY <1>5, <2>2
    <2>5. slot = cur'[Parser] /\ m = committed'
        BY <2>1
    <2>6. Ahead(cur[Parser], committed)'
        BY <2>4, <2>5
    <2> QED BY <1>2, <2>1, <2>3, <2>6 DEF Progress, ProgressAt
<1>11. CASE site = "stated"
    <2>1. pc'[Parser] = "load" /\ committed' = committed
        BY <1>1, <1>3, <1>4, <1>11 DEF Resume, Committed
    <2> QED BY <1>2, <1>7, <1>11, <2>1 DEF Progress, ProgressAt
<1>12. CASE site \in {"longset", "rebroadcast"}
    <2>1. pc'[Parser] \in {"loadlong", "longlit"} /\ committed' = committed
        BY <1>1, <1>3, <1>4, <1>12 DEF Resume, Committed
    <2>2. committed = M
        BY <1>7, <1>12 DEF ProgressAt
    <2> QED BY <1>2, <1>6, <1>7, <2>1, <2>2 DEF Progress, ProgressAt
<1>13. CASE site = "literals"
    <2>1. pc'[Parser] = "longmatch" /\ committed' = M + 1
        BY <1>1, <1>3, <1>4, <1>8, <1>13 DEF Resume, Committed
    <2>2. LongParsed.lit > 0
        BY <1>7, <1>13 DEF ProgressAt
    <2> QED BY <1>2, <1>6, <1>8, <1>13, <2>1, <2>2 DEF Progress, ProgressAt
<1>14. CASE site = "matched"
    <2>1. pc'[Parser] = "reprime" /\ committed' = M + 1
        BY <1>1, <1>3, <1>4, <1>8, <1>14 DEF Resume, Committed
    <2> QED BY <1>2, <1>6, <1>8, <1>14, <2>1 DEF Progress, ProgressAt
<1> QED BY <1>9, <1>10, <1>11, <1>12, <1>13, <1>14 DEF BlockSites

\* The parser's own steps between two barriers.
LEMMA ParserProgress ==
    ASSUME Progress, RInv, IInv,
           DrainBroadcast \/ LongToken \/ AnyWarpStep(Parser)
    PROVE  Progress'
<1> USE WarpFacts
<1>1. pc \in [Warps -> PCs] /\ pos \in [Warps -> PosType]
    BY DEF IInv, PcType, RInv, PosTyped
<1>2. UNCHANGED <<stream, serial, lanes, head, s_have, cur, committed>>
    BY DEF DrainBroadcast, LongToken, AnyWarpStep, CheckHave, LoadState, LoadLong, LongLiterals, LongMatch,
           Reprime, TrailingLiterals, input, shared
<1>3. committed \in 0 .. Len(stream.cmd) /\ ProgressAt(pc[Parser])
    BY DEF Progress
<1>4. SUFFICES ProgressAt(pc[Parser])'
    BY <1>2, <1>3 DEF Progress
<1>5. M' = M => LongParsed' = LongParsed
    BY <1>2, LongNamed
<1>6. CASE DrainBroadcast
    <2>1. pc[Parser] = "drained" /\ pc'[Parser] = "stated" /\ pos' = pos
        BY <1>1, <1>6 DEF DrainBroadcast, Goto
    <2> QED BY <1>2, <1>3, <2>1 DEF ProgressAt
<1>7. CASE LongToken
    <2>1. pc[Parser] = "token" /\ pc'[Parser] = "longset" /\ M' = M
        BY <1>1, <1>7 DEF LongToken, Goto, M
    <2> QED BY <1>2, <1>3, <2>1 DEF ProgressAt
<1>8. CASE CheckHave(Parser)
    <2>1. pc[Parser] = "check" /\ pos' = pos
          /\ pc'[Parser] = IF s_have[cur[Parser]] THEN "fill" ELSE "drained"
        BY <1>1, <1>8 DEF CheckHave, Goto, Have
    <2>2. Ahead(cur[Parser], committed)
        BY <1>3, <2>1 DEF ProgressAt
    <2>3. CASE s_have[cur[Parser]]
        <3>1. Staged(cur[Parser], committed) /\ pos[Parser].cmd_pos = Executed
            BY <2>2, <2>3 DEF Ahead, Executed
        <3>2. Staged(cur[Parser], committed)' /\ pos'[Parser].cmd_pos = Executed'
            BY <1>2, <2>1, <3>1 DEF Staged, At, Executed
        <3> QED BY <2>1, <2>3, <3>2 DEF ProgressAt
    <2>4. CASE ~s_have[cur[Parser]]
        BY <1>2, <2>1, <2>2, <2>4 DEF Ahead, ProgressAt
    <2> QED BY <2>3, <2>4
<1>9. CASE LoadState(Parser)
    <2>1. pc[Parser] = "load" /\ pc'[Parser] \in {"trail", "token"} /\ M' = M
        BY <1>1, <1>9 DEF LoadState, Goto, AfterLoad, shared, M
    <2>2. committed = M
        BY <1>3, <2>1 DEF ProgressAt, RInv, StateBroadcast
    <2> QED BY <1>2, <2>1, <2>2 DEF ProgressAt
<1>10. CASE LoadLong(Parser)
    <2>1. pc[Parser] = "loadlong" /\ pc'[Parser] = "rebroadcast"
        BY <1>1, <1>10 DEF LoadLong, Goto
    <2>2. M' = M
        <3>1. DrainedState
            BY <2>1 DEF RInv, StateBroadcast, DrainPCs
        <3>2. s_state' = [s_state EXCEPT !.length_offset = pos[Parser].length_offset]
            BY <1>10 DEF LoadLong
        <3>3. At(M) \in PosType
            BY <3>1, InputFacts DEF DrainedState, RInv
        <3> QED BY <3>1, <3>2, <3>3 DEF M, DrainedState, PosType
    <2> QED BY <1>2, <1>3, <2>1, <2>2 DEF ProgressAt
<1>11. CASE LongLiterals(Parser)
    <2>1. /\ pc[Parser] = "longlit" /\ M' = M
          /\ pc'[Parser] = IF long[Parser].lit > 0 THEN "literals" ELSE "longmatch"
        BY <1>1, <1>11 DEF LongLiterals, Goto, shared, M
    <2>2. long[Parser].lit = LongParsed.lit
        BY <2>1, HeldToken DEF HoldsLong
    <2>3. committed = M
        BY <1>3, <2>1 DEF ProgressAt
    <2> HIDE DEF M, LongParsed
    <2> QED BY <1>2, <1>5, <2>1, <2>2, <2>3 DEF ProgressAt
<1>12. CASE LongMatch(Parser)
    <2>1. /\ pc[Parser] = "longmatch" /\ M' = M
          /\ pc'[Parser] = IF long[Parser].match > 0 THEN "matched" ELSE "reprime"
        BY <1>1, <1>12 DEF LongMatch, Goto, shared, M
    <2>2. long[Parser].match = LongParsed.match
        BY <2>1, HeldToken DEF HoldsLong
    <2>3. committed = IF LongParsed.lit > 0 THEN M + 1 ELSE M
        BY <1>3, <2>1 DEF ProgressAt
    <2>4. \/ LongParsed.lit > 0 /\ LongParsed.match = 0
          \/ LongParsed.lit = 0 /\ LongParsed.match > 0
        BY <2>1, LongTyped, LongFacts DEF LongPCs, HoldsLong
    <2> HIDE DEF M, LongParsed
    <2> QED BY <1>2, <1>5, <2>1, <2>2, <2>3, <2>4 DEF ProgressAt
<1>13. CASE Reprime(Parser)
    <2>1. pc[Parser] = "reprime" /\ pc'[Parser] = "prime" /\ pos'[Parser].cmd_pos = pos[Parser].cmd_pos
        BY <1>1, <1>13 DEF Reprime, Goto, PosType
    <2>2. pos[Parser].cmd_pos = M + 1
        <3>1. pos[Parser] = LitCopied
            BY <2>1 DEF RInv, Registers
        <3>2. LitCopied.cmd_pos = M + 1
            BY <2>1, LongTyped DEF LongPCs, HoldsLong
        <3> QED BY <3>1, <3>2
    <2>3. committed = M + 1
        BY <1>3, <2>1 DEF ProgressAt
    <2> QED BY <1>2, <2>1, <2>2, <2>3 DEF ProgressAt
<1>14. CASE TrailingLiterals(Parser)
    <2>1. pc[Parser] = "trail" /\ pc'[Parser] = "done" /\ M' = M
        BY <1>1, <1>14 DEF TrailingLiterals, Goto, shared, M
    <2> QED BY <1>2, <1>3, <2>1 DEF ProgressAt
<1> QED BY <1>6, <1>7, <1>8, <1>9, <1>10, <1>11, <1>12, <1>13, <1>14 DEF AnyWarpStep

\* Every step keeps the count.
LEMMA StepProgress == Progress /\ SlotInv /\ RInv /\ IInv /\ [Next]_vars => Progress'
<1> SUFFICES ASSUME Progress, SlotInv, RInv, IInv, [Next]_vars PROVE Progress'
    OBVIOUS
<1> USE WarpFacts
<1>1. pc \in [Warps -> PCs] /\ pos \in [Warps -> PosType]
    BY DEF IInv, PcType, RInv, PosTyped
<1>2. ASSUME NEW w \in Warps, AnyWarpStep(w), w # Parser PROVE Progress'
    <2>1. UNCHANGED <<stream, serial, lanes, head, s_have, cur, committed>>
        BY <1>2 DEF AnyWarpStep, CheckHave, LoadState, LoadLong, LongLiterals, LongMatch,
                    Reprime, TrailingLiterals, input, shared
    <2>2. s_state' = s_state
        BY <1>2 DEF AnyWarpStep, CheckHave, LoadState, LoadLong, LongLiterals, LongMatch,
                    Reprime, TrailingLiterals, shared
    <2>3. pc'[Parser] = pc[Parser]
        BY <1>1, <1>2 DEF AnyWarpStep, CheckHave, LoadState, LoadLong, LongLiterals, LongMatch,
                          Reprime, TrailingLiterals, Goto
    <2>4. pos'[Parser] = pos[Parser]
        BY <1>1, <1>2 DEF AnyWarpStep, CheckHave, LoadState, LoadLong, LongLiterals, LongMatch,
                          Reprime, TrailingLiterals
    <2> QED BY <2>1, <2>2, <2>3, <2>4, ProgressKept DEF M
<1>3. CASE \E w \in Warps : AnyWarpStep(w)
    <2> PICK w \in Warps : AnyWarpStep(w)
        BY <1>3
    <2> QED BY <1>2, ParserProgress
<1>4. CASE PipeTeamBar \/ DependentMatch \/ \E w \in Team : TeamStep(w)
    <2>1. UNCHANGED <<stream, serial, lanes, head, s_have, s_state, pos, cur, committed>>
        BY <1>4 DEF DependentMatch, PipeTeamBar, TeamStep, FlatLiterals, FlatIndependent, FlatDict, FlatPass,
                    input, shared
    <2>2. pc'[Parser] = pc[Parser]
        BY <1>1, <1>4 DEF DependentMatch, PipeTeamBar, TeamStep, FlatLiterals, FlatIndependent, FlatDict,
                          FlatPass, Goto
    <2> QED BY <2>1, <2>2, ProgressKept DEF M
<1>5. CASE ParserStep
    BY <1>5, StagingProgress, ParserProgress DEF ParserStep
<1>6. CASE UNCHANGED vars
    BY <1>6, ProgressKept DEF vars, M
<1> QED BY <1>3, <1>4, <1>5, <1>6, SyncProgress DEF Next, Terminated

\* The tokens ordered so far, for any number of copier warps, any warp size and any streams.
THEOREM TokensOrdered == Spec => []Progress
<1>1. IInv /\ RInv /\ SlotInv /\ Progress /\ [Next]_vars => Progress'
    BY StepProgress
<1> QED BY <1>1, InitProgress, Invariance, RegistersSerial, SlotsStaged, PTL DEF Spec

-----------------------------------------------------------------------------
(* The output is the serial one *)

\* The passes behind a copier warp, by where it is.
PassesBefore(label) ==
    CASE label = "im" -> {"lit"} [] label = "dm" -> {"lit", "im"}
      [] label = "flatdone" -> {"lit", "im", "dm"} [] OTHER -> {}

\* Copier warp w has written byte y of token k, or knows that it is written.
Claimed(w, k, y) ==
    LET kind == Kind(committed, k, y)
        i    == FlatIndex(committed, k, y)
    IN \/ kind = pc[w] /\ kind # "dep" /\ \E n \in 0 .. row[w] - 1 : i \in Turn(w, n)
       \/ kind \in PassesBefore(pc[w]) /\ \E n \in Nat : i \in Turn(w, n)
       \/ kind # "dep" /\ pc[w] \in {"dep", "depdone"}
       \/ w = 1 /\ pc[w] = "dep" /\ k \notin dep
       \/ w = 1 /\ pc[w] = "depdone"
       \/ pc[w] = "handoff"
BatchGood(w) ==
    \A k, y : InWindow(committed, k, y) /\ Claimed(w, k, y) => Good(Place(committed, k, y))

\* The share of w of a copy by the whole block, and of the parser's long match.
ShareGood(w, d, len) == \A i \in BlockShare(w, len) : Good(d + i)
LongGood(w) ==
    /\ pc[w] = "literals" => ShareGood(w, At(M).dst_pos, LongParsed.lit)
    /\ pc[w] = "done" => ShareGood(w, At(M).dst_pos, Trailing(stream, At(M)))
    /\ w = Parser /\ pc[w] = "matched" =>
          \A y \in 0 .. LongParsed.match - 1 : Good(At(M).dst_pos + LongParsed.lit + y)

DstTyped == dst = [a \in Addresses |-> dst[a]]
PrefixGood == \A a \in 0 .. At(committed).dst_pos - 1 : Good(a)
DepLanes == pc[1] = "dep" => dep \subseteq Dependent(Window(stream, At(committed)), At(committed))
OutputInv == /\ DstTyped /\ row \in [Team -> Nat] /\ PrefixGood /\ DepLanes
             /\ \A w \in Team : BatchGood(w)
             /\ \A w \in Warps : LongGood(w)

BatchPCs == {"lit", "im", "dm", "flatdone", "dep", "depdone", "handoff"}
CopiedPCs == {"literals", "matched", "done"}

\* A step that loses no byte of the serial output.
Grows == DstTyped' /\ \A a : Good(a) => Good(a)'

\* Names of the input keep their values.
LEMMA FinalKept ==
    ASSUME UNCHANGED <<stream, serial>>
    PROVE  /\ \A a : Final(a)' = Final(a)
           /\ \A m : At(m)' = At(m)
           /\ \A m, k, y : /\ InWindow(m, k, y)' = InWindow(m, k, y) /\ Place(m, k, y)' = Place(m, k, y)
                           /\ Kind(m, k, y)' = Kind(m, k, y) /\ FlatIndex(m, k, y)' = FlatIndex(m, k, y)
<1>1. \A m : At(m)' = At(m)
    BY DEF At
<1>2. \A a : Final(a)' = Final(a)
    BY DEF Final
<1>3. \A m, k, y : Place(m, k, y)' = Place(m, k, y) /\ InWindow(m, k, y)' = InWindow(m, k, y)
    BY <1>1 DEF Place, InWindow
<1>4. \A m, k, y : Kind(m, k, y)' = Kind(m, k, y) /\ FlatIndex(m, k, y)' = FlatIndex(m, k, y)
    BY <1>1 DEF Kind, FlatIndex
<1> QED BY <1>1, <1>2, <1>3, <1>4

\* Writes of the serial bytes lose none, and leave their own.
LEMMA StoreGood ==
    ASSUME NEW writes, Store(writes), UNCHANGED <<stream, serial>>,
           \A p \in writes : p[2] = Final(p[1])
    PROVE  Grows /\ \A p \in writes : p[1] \in Addresses => Good(p[1])'
<1>1. dst' = [a \in Addresses |-> IF \E p \in writes : p[1] = a
                                  THEN (CHOOSE p \in writes : p[1] = a)[2] ELSE dst[a]]
    BY DEF Store
<1>2. DstTyped'
    BY <1>1 DEF DstTyped
<1>3. ASSUME NEW a \in Addresses, NEW q \in writes, q[1] = a
      PROVE  dst'[a] = Final(a)
    <2> DEFINE c == CHOOSE p \in writes : p[1] = a
    <2>1. c \in writes /\ c[1] = a
        BY <1>3
    <2>2. dst'[a] = c[2]
        BY <1>1, <1>3
    <2> HIDE DEF c
    <2> QED BY <2>1, <2>2
<1>4. ASSUME NEW a \in Addresses, ~\E p \in writes : p[1] = a
      PROVE  dst'[a] = dst[a]
    BY <1>1, <1>4
<1>5. ASSUME NEW a, Good(a) PROVE Good(a)'
    BY <1>3, <1>4, <1>5, FinalKept DEF Good
<1>6. ASSUME NEW p \in writes, p[1] \in Addresses PROVE Good(p[1])'
    <2> PICK a \in Addresses : a = p[1]
        BY <1>6
    <2>1. Good(a)'
        BY <1>3, FinalKept DEF Good
    <2> QED BY <2>1
<1> QED BY <1>2, <1>5, <1>6 DEF Grows

\* Initially the output is the initial copy.
LEMMA InitOutput == Init => OutputInv
<1> SUFFICES ASSUME Init PROVE OutputInv
    OBVIOUS
<1> USE WarpFacts
<1>1. SerialInput /\ serial = Reference(stream) /\ stream \in Streams /\ committed = 0 /\ dst = InitialDst
    BY DEF Init, SerialInput
<1>2. \A w \in Warps : pc[w] \in {"prime", "primed"}
    BY DEF Init
<1>3. DstTyped
    BY <1>1 DEF DstTyped, InitialDst
<1>4. row \in [Team -> Nat]
    BY DEF Init
<1>5. PrefixGood
    <2> DEFINE r == Reference(stream)
               n == Len(stream.cmd)
               e == r[n].pos.dst_pos
               t == Trailing(stream, r[n].pos)
    <2>1. n \in Nat /\ r[0] = FirstState /\ 0 \in 0 .. n
        BY <1>1, InputFacts, ReferenceUnfolds
    <2>2. r[0].pos.dst_pos = InitialCopy /\ r[0].out = [a \in 1 .. InitialCopy |-> InitByte(a - 1)]
        BY <2>1 DEF FirstState, InitialPos
    <2>3. /\ r[0].pos.dst_pos \in Nat /\ r[0].pos.dst_pos <= e
          /\ t \in Nat /\ e \in Nat /\ e + t <= DstSize
          /\ \A i \in 1 .. r[0].pos.dst_pos : Decoded(stream, r)[i] = r[0].out[i]
        BY <1>1, <2>1, FinalOutput
    <2>4. InitialCopy <= DstSize /\ InitialCopy \in Nat
        <3> HIDE DEF r, n, e, t
        <3> QED BY <2>2, <2>3, SizeAssumption
    <2>5. ASSUME NEW a \in 0 .. InitialCopy - 1 PROVE Good(a)
        <3>1. a \in Addresses /\ a + 1 \in 1 .. InitialCopy /\ (a + 1) - 1 = a /\ a < InitialCopy
            BY <2>4, SizeAssumption DEF Addresses
        <3>2. dst[a] = InitByte(a)
            BY <1>1, <3>1 DEF InitialDst
        <3>3. Decoded(stream, r)[a + 1] = InitByte(a)
            <4> HIDE DEF r
            <4> QED BY <2>2, <2>3, <3>1
        <3>4. Final(a) = Decoded(stream, r)[a + 1]
            BY <1>1 DEF Final
        <3> QED BY <3>1, <3>2, <3>3, <3>4 DEF Good
    <2>6. At(committed).dst_pos = InitialCopy
        BY <1>1, <2>2 DEF At
    <2> QED BY <2>5, <2>6 DEF PrefixGood
<1>6. DepLanes /\ \A w \in Warps : LongGood(w)
    BY <1>2 DEF DepLanes, LongGood
<1>7. \A w \in Team : BatchGood(w)
    BY <1>2 DEF BatchGood, Claimed, PassesBefore, Kind
<1> QED BY <1>3, <1>4, <1>5, <1>6, <1>7 DEF OutputInv

\* What a warp that stays where it is knows of the output stays true.
LEMMA BatchKept ==
    ASSUME UNCHANGED <<stream, serial, committed>>, Grows, NEW w \in Team, BatchGood(w),
           pc'[w] = pc[w], row'[w] = row[w], w # 1 \/ dep' = dep
    PROVE  BatchGood(w)'
<1>1. \A k, y : Claimed(w, k, y)' = Claimed(w, k, y)
    BY FinalKept DEF Claimed
<1> QED BY <1>1, FinalKept DEF BatchGood, Grows

\* A warp outside a batch claims nothing.
LEMMA BatchNone == ASSUME NEW w \in Team, pc'[w] \notin BatchPCs PROVE BatchGood(w)'
<1>1. \A k, y : Kind(committed, k, y)' \in {"lit", "im", "dm", "dep"}
    BY DEF Kind
<1>2. PassesBefore(pc[w])' = {}
    BY DEF PassesBefore, BatchPCs
<1> QED BY <1>1, <1>2 DEF BatchGood, Claimed, BatchPCs

\* What is claimed of a copied long token stays while its warp stays.
LEMMA LongGoodKept ==
    ASSUME UNCHANGED <<stream, serial>>, Grows, NEW w \in Warps, LongGood(w),
           \/ pc'[w] = pc[w] /\ M' = M
           \/ pc'[w] \notin CopiedPCs
    PROVE  LongGood(w)'
<1>1. CASE pc'[w] \notin CopiedPCs
    BY <1>1 DEF LongGood, CopiedPCs
<1>2. CASE pc'[w] = pc[w] /\ M' = M
    <2>1. LongParsed' = LongParsed /\ At(M)' = At(M)
        BY <1>2, LongNamed
    <2>2. \A d, len : ShareGood(w, d, len) => ShareGood(w, d, len)'
        BY DEF ShareGood, Grows, BlockShare
    <2> HIDE DEF M, LongParsed
    <2> QED BY <1>2, <2>1, <2>2 DEF LongGood, Grows
<1> QED BY <1>1, <1>2

\* The slot that a copier warp executes holds the batch in front of the ordered tokens.
LEMMA ExecutingStaged ==
    ASSUME IInv, Progress, NEW w \in Team, pc[w] \in Executing
    PROVE  cur[w] = cur[Parser] /\ Staged(cur[w], committed)
<1> USE WarpFacts
<1>1. cur[w] = cur[Parser]
    BY DEF IInv, CurAgree
<1>2. Target(Parser) = "handoff"
    <2>1. Target(w) = "handoff"
        BY DEF Target, Executing, TeamPCs, TeamSites
    <2> QED BY <2>1 DEF IInv, Lockstep
<1>3. pc[Parser] \in {"fill", "fill_head", "handoff"} \/ (pc[Parser] = "check" /\ s_have[cur[Parser]])
    BY <1>2 DEF Target, IInv, PcType
<1>4. Staged(cur[Parser], committed)
    BY <1>3 DEF Progress, ProgressAt, Ahead
<1> QED BY <1>1, <1>4

\* The totals in a staged head are natural numbers.
LEMMA TotalNat ==
    ASSUME SerialInput, NEW s, NEW m \in 0 .. Len(stream.cmd), Staged(s, m), NEW kind \in FlatKinds
    PROVE  TotalOf(s, kind) \in Nat
<1> DEFINE q == At(m)
           n == BatchSize(stream, q)
           f == PoolOf(m, kind)
<1>1. stream \in Streams /\ q = Reference(stream)[m].pos
    BY DEF SerialInput, At
<1>2. n \in Nat /\ Window(stream, q).lit_local = SumBelow(Window(stream, q).lit, n)
    BY <1>1, WindowRanges
<1>3. \A k \in 0 .. n - 1 : f[k] \in Nat
    <2>1. \A k \in 0 .. n - 1 : /\ Window(stream, q).lit[k] \in Nat
                                /\ ImPool(stream, q)[k] \in Nat /\ DmPool(stream, q)[k] \in Nat
        BY <1>1, WindowRanges, PoolFacts
    <2> QED BY <2>1 DEF PoolOf, FlatKinds
<1>4. TotalOf(s, kind) = SumBelow(f, n)[n]
    BY <1>2, StagedFields DEF Staged, TotalOf, PoolOf, FlatKinds
<1> HIDE DEF f, n
<1>5. n \in 0 .. n
    BY <1>2
<1> QED BY <1>2, <1>3, <1>4, <1>5, SumGrows

\* A turn consists of natural numbers.
LEMMA TurnNat == ASSUME NEW w \in Team, NEW r \in Nat PROVE Turn(w, r) \subseteq Nat
<1> DEFINE T == TeamThreads
           W == WARP_SIZE
           s == r * T + (w - 1) * W
<1>1. W \in Nat /\ T \in Nat
    BY WarpAssumption, CopiersAssumption DEF TeamThreads
<1>2. w - 1 \in Nat
    BY CopiersAssumption DEF Team
<1> HIDE DEF T, W
<1>3. s \in Nat
    <2>1. r * T \in Nat /\ (w - 1) * W \in Nat
        BY <1>1, <1>2
    <2> QED BY <2>1
<1>4. Turn(w, r) = s .. s + W - 1
    BY DEF Turn, T, W
<1> HIDE DEF s
<1> QED BY <1>1, <1>3, <1>4

\* A step of one copier warp within a batch that loses no byte: what remains to show is
\* what that warp claims afterwards.
LEMMA OutputAfter ==
    ASSUME OutputInv, UNCHANGED <<stream, serial, s_state, committed>>, Grows,
           NEW w \in Team, BatchGood(w)', DepLanes', row' \in [Team -> Nat],
           \A v \in Team : v # w => row'[v] = row[v] /\ (v # 1 \/ dep' = dep),
           \A v \in Warps : v # w => pc'[v] = pc[v],
           pc'[w] \notin CopiedPCs
    PROVE  OutputInv'
<1> USE WarpFacts
<1>1. M' = M
    BY DEF M
<1>2. PrefixGood'
    BY FinalKept DEF OutputInv, PrefixGood, Grows
<1>3. \A v \in Team : BatchGood(v)'
    <2>1. ASSUME NEW v \in Team, v # w PROVE BatchGood(v)'
        BY <2>1, BatchKept DEF OutputInv
    <2> QED BY <2>1
<1>4. \A v \in Warps : LongGood(v)'
    <2>1. ASSUME NEW v \in Warps PROVE LongGood(v)'
        <3>1. LongGood(v)
            BY DEF OutputInv
        <3>2. (pc'[v] = pc[v] /\ M' = M) \/ pc'[v] \notin CopiedPCs
            BY <1>1
        <3> HIDE DEF M
        <3> QED BY <3>1, <3>2, LongGoodKept
    <2> QED BY <2>1
<1> QED BY <1>2, <1>3, <1>4 DEF OutputInv, Grows

\* One row of a flat pass, or its end.
LEMMA FlatRow ==
    ASSUME OutputInv, Progress, RInv, IInv, NEW w \in Team, NEW kind \in FlatKinds, NEW next,
           pc[w] = kind, next \in {"im", "dm", "flatdone"},
           PassesBefore(next) = PassesBefore(kind) \cup {kind},
           UNCHANGED <<stream, serial, s_state, dep, committed>>,
           LET total == TotalOf(cur[w], kind)
               turns == Row(w, row[w], total)
           IN \/ /\ turns # {}
                 /\ Store({WriteOf(cur[w], kind, i) : i \in turns})
                 /\ row' = [row EXCEPT ![w] = @ + 1]
                 /\ UNCHANGED pc
              \/ /\ turns = {}
                 /\ row' = [row EXCEPT ![w] = 0]
                 /\ Goto(w, next)
                 /\ UNCHANGED dst
    PROVE  OutputInv'
<1> USE WarpFacts
<1> DEFINE s == cur[w]
           m == committed
           total == TotalOf(s, kind)
           r == row[w]
           turns == Row(w, r, total)
<1>1. SerialInput /\ m \in 0 .. Len(stream.cmd) /\ Staged(s, m) /\ \A a \in 0 .. At(m).dst_pos - 1 : Good(a)
    <2>1. Staged(s, m)
        BY ExecutingStaged DEF FlatKinds, Executing, TeamPCs
    <2> QED BY <2>1 DEF RInv, Progress, OutputInv, PrefixGood
<1>2. pc \in [Warps -> PCs] /\ row \in [Team -> Nat] /\ r \in Nat /\ DstTyped
    BY DEF IInv, PcType, OutputInv
<1>3. \A k, y : InWindow(m, k, y) /\ Kind(m, k, y) = kind =>
                  /\ FlatIndex(m, k, y) \in 0 .. total - 1
                  /\ WriteOf(s, kind, FlatIndex(m, k, y))[1] = Place(m, k, y)
                  /\ Place(m, k, y) \in Addresses
    BY <1>1, FlatCovered, WindowFinal
<1>4. \A i \in 0 .. total - 1 : WriteOf(s, kind, i)[2] = Final(WriteOf(s, kind, i)[1])
    BY <1>1, FlatStores
<1>5. turns \subseteq 0 .. total - 1
    <2>1. total \in Nat
        BY <1>1, TotalNat
    <2>2. \A i \in Turn(w, r) : i \in Nat
        BY <1>2, TurnNat
    <2>3. turns = {i \in Turn(w, r) : i < total}
        BY RowTurn
    <2> HIDE DEF total, turns, r
    <2> QED BY <2>1, <2>2, <2>3
<1>6. BatchGood(w)
    BY DEF OutputInv
<1> HIDE DEF s, total
<1>7. CASE /\ turns # {}
           /\ Store({WriteOf(s, kind, i) : i \in turns})
           /\ row' = [row EXCEPT ![w] = @ + 1]
           /\ UNCHANGED pc
    <2> DEFINE writes == {WriteOf(s, kind, i) : i \in turns}
    <2>1. \A p \in writes : p[2] = Final(p[1])
        BY <1>4, <1>5
    <2>2. Grows /\ \A p \in writes : p[1] \in Addresses => Good(p[1])'
        <3>1. Store(writes)
            BY <1>7
        <3> HIDE DEF writes
        <3> QED BY <2>1, <3>1, StoreGood
    <2>3. row' \in [Team -> Nat] /\ row'[w] = r + 1 /\ \A v \in Team : v # w => row'[v] = row[v]
        BY <1>2, <1>7
    <2>4. ASSUME NEW k, NEW y, InWindow(m, k, y), Claimed(w, k, y)', ~Claimed(w, k, y)
          PROVE  Good(Place(m, k, y))'
        <3>1. Kind(m, k, y) = kind /\ \E n \in 0 .. r : FlatIndex(m, k, y) \in Turn(w, n)
            BY <1>2, <1>7, <2>3, <2>4, FinalKept DEF Claimed, FlatKinds
        <3>2. FlatIndex(m, k, y) \in Turn(w, r)
            <4>1. \A n \in 0 .. r : n = r \/ n \in 0 .. r - 1
                BY <1>2
            <4> QED BY <2>4, <3>1, <4>1 DEF Claimed, FlatKinds
        <3>3. FlatIndex(m, k, y) \in turns
            <4>1. FlatIndex(m, k, y) \in 0 .. total - 1 /\ total \in Nat
                BY <1>1, <1>3, <2>4, <3>1, TotalNat DEF total
            <4>2. FlatIndex(m, k, y) < total
                BY <4>1
            <4> QED BY <3>2, <4>2, RowTurn
        <3>4. PICK a : a = Place(m, k, y)
            OBVIOUS
        <3>5. PICK p : p = WriteOf(s, kind, FlatIndex(m, k, y))
            OBVIOUS
        <3>6. p \in writes /\ p[1] = a /\ a \in Addresses
            BY <1>3, <2>4, <3>1, <3>3, <3>4, <3>5
        <3> HIDE DEF writes
        <3>7. Good(a)'
            BY <2>2, <3>6
        <3>8. a = Place(m, k, y)'
            BY <3>4, FinalKept
        <3> QED BY <3>7, <3>8
    <2>5. BatchGood(w)'
        BY <1>6, <2>2, <2>4, FinalKept DEF BatchGood, Grows
    <2>6. DepLanes'
        BY <1>7, FinalKept DEF OutputInv, DepLanes
    <2>7. pc'[w] \notin CopiedPCs
        BY <1>7 DEF CopiedPCs, FlatKinds
    <2> QED BY <1>7, <2>2, <2>3, <2>5, <2>6, <2>7, OutputAfter
<1>8. CASE /\ turns = {}
           /\ row' = [row EXCEPT ![w] = 0]
           /\ Goto(w, next)
           /\ UNCHANGED dst
    <2>1. Grows
        BY <1>2, <1>8, FinalKept DEF Grows, Good, DstTyped
    <2>2. /\ row' \in [Team -> Nat] /\ row'[w] = 0 /\ pc'[w] = next
          /\ \A v \in Team : v # w => row'[v] = row[v]
          /\ \A v \in Warps : v # w => pc'[v] = pc[v]
        BY <1>2, <1>8 DEF Goto
    <2>3. ASSUME NEW k, NEW y, InWindow(m, k, y), Claimed(w, k, y)', ~Claimed(w, k, y)
          PROVE  Good(Place(m, k, y))
        <3>1. Kind(m, k, y) = kind /\ \E n \in Nat : FlatIndex(m, k, y) \in Turn(w, n)
            <4>1. /\ Kind(m, k, y)' = Kind(m, k, y) /\ FlatIndex(m, k, y)' = FlatIndex(m, k, y)
                BY FinalKept
            <4>2. Kind(m, k, y) \in PassesBefore(next) /\ \E n \in Nat : FlatIndex(m, k, y) \in Turn(w, n)
                BY <2>2, <2>3, <4>1 DEF Claimed
            <4>3. Kind(m, k, y) \notin PassesBefore(kind)
                BY <2>3, <4>2 DEF Claimed
            <4> QED BY <4>2, <4>3
        <3>2. PICK n \in Nat : FlatIndex(m, k, y) \in Turn(w, n)
            BY <3>1
        <3>3. ~(n \in 0 .. r - 1)
            BY <2>3, <3>1, <3>2 DEF Claimed, FlatKinds
        <3>4. n >= r
            BY <1>2, <3>3
        <3>5. FlatIndex(m, k, y) \in 0 .. total - 1 /\ total \in Nat
            BY <1>1, <1>3, <2>3, <3>1, TotalNat DEF total
        <3>6. ~(FlatIndex(m, k, y) < total)
            BY <1>2, <1>8, <3>2, <3>4, <3>5, TurnsEnd
        <3> QED BY <3>5, <3>6
    <2>4. BatchGood(w)'
        BY <1>6, <2>1, <2>3, FinalKept DEF BatchGood, Grows
    <2>5. DepLanes'
        BY <2>2, FinalKept DEF OutputInv, DepLanes
    <2>6. pc'[w] \notin CopiedPCs
        BY <2>2 DEF CopiedPCs
    <2> QED BY <2>1, <2>2, <2>4, <2>5, <2>6, OutputAfter
<1> QED BY <1>7, <1>8 DEF s, total

\* An iteration of a flat pass writes serial bytes only.
LEMMA FlatOutput ==
    ASSUME OutputInv, Progress, RInv, IInv, NEW w \in Team, TeamStep(w)
    PROVE  OutputInv'
<1>1. UNCHANGED <<stream, serial, s_state, dep, committed>>
    BY DEF TeamStep, FlatLiterals, FlatIndependent, FlatDict, FlatPass, input, shared
<1>2. CASE FlatLiterals(w)
    <2>1. pc[w] = "lit" /\ TotalOf(cur[w], "lit") = head[cur[w]].total_lit
          /\ PassesBefore("im") = PassesBefore("lit") \cup {"lit"}
        BY <1>2 DEF FlatLiterals, FlatPass, TotalOf, PassesBefore
    <2>2. \A i : WriteOf(cur[w], "lit", i) = LitWrite(cur[w], i)
        BY DEF WriteOf
    <2>3. LET turns == Row(w, row[w], TotalOf(cur[w], "lit"))
          IN \/ /\ turns # {}
                /\ Store({WriteOf(cur[w], "lit", i) : i \in turns})
                /\ row' = [row EXCEPT ![w] = @ + 1] /\ UNCHANGED pc
             \/ turns = {} /\ row' = [row EXCEPT ![w] = 0] /\ Goto(w, "im") /\ UNCHANGED dst
        BY <1>2, <2>1, <2>2 DEF FlatLiterals, FlatPass
    <2> QED BY <1>1, <2>1, <2>3, FlatRow DEF FlatKinds
<1>3. CASE FlatIndependent(w)
    <2>1. pc[w] = "im" /\ TotalOf(cur[w], "im") = head[cur[w]].total_im
          /\ PassesBefore("dm") = PassesBefore("im") \cup {"im"}
        BY <1>3 DEF FlatIndependent, FlatPass, TotalOf, PassesBefore
    <2>2. \A i : WriteOf(cur[w], "im", i) = ImWrite(cur[w], i)
        BY DEF WriteOf
    <2>3. LET turns == Row(w, row[w], TotalOf(cur[w], "im"))
          IN \/ /\ turns # {}
                /\ Store({WriteOf(cur[w], "im", i) : i \in turns})
                /\ row' = [row EXCEPT ![w] = @ + 1] /\ UNCHANGED pc
             \/ turns = {} /\ row' = [row EXCEPT ![w] = 0] /\ Goto(w, "dm") /\ UNCHANGED dst
        BY <1>3, <2>1, <2>2 DEF FlatIndependent, FlatPass
    <2> QED BY <1>1, <2>1, <2>3, FlatRow DEF FlatKinds
<1>4. CASE FlatDict(w)
    <2>1. pc[w] = "dm" /\ TotalOf(cur[w], "dm") = head[cur[w]].total_dm
          /\ PassesBefore("flatdone") = PassesBefore("dm") \cup {"dm"}
        BY <1>4 DEF FlatDict, FlatPass, TotalOf, PassesBefore
    <2>2. \A i : WriteOf(cur[w], "dm", i) = DmWrite(cur[w], i)
        BY DEF WriteOf
    <2>3. LET turns == Row(w, row[w], TotalOf(cur[w], "dm"))
          IN \/ /\ turns # {}
                /\ Store({WriteOf(cur[w], "dm", i) : i \in turns})
                /\ row' = [row EXCEPT ![w] = @ + 1] /\ UNCHANGED pc
             \/ turns = {} /\ row' = [row EXCEPT ![w] = 0] /\ Goto(w, "flatdone") /\ UNCHANGED dst
        BY <1>4, <2>1, <2>2 DEF FlatDict, FlatPass
    <2> QED BY <1>1, <2>1, <2>3, FlatRow DEF FlatKinds
<1> QED BY <1>2, <1>3, <1>4 DEF TeamStep

\* The named barrier: once every copier warp has gone through its turns, every flat byte
\* of the window is written; once warp 1 is through, every byte.
LEMMA TeamBarOutput ==
    ASSUME OutputInv, Progress, RInv, IInv, PipeTeamBar
    PROVE  OutputInv'
<1> USE WarpFacts
<1> DEFINE m == committed
<1>1. PICK site \in TeamSites : \A w \in Team : pc[w] = site
    <2>1. \A w \in Team : TeamTarget(w) = pc[w]
        BY DEF PipeTeamBar, TeamTarget, TeamSites
    <2> QED BY <2>1 DEF IInv, TeamLockstep, PipeTeamBar
<1>2. UNCHANGED <<stream, serial, s_state, row, dst, committed>>
    BY DEF PipeTeamBar, input, shared
<1>3. Staged(cur[1], m) /\ SerialInput /\ m \in 0 .. Len(stream.cmd)
    <2>1. pc[1] \in Executing
        BY <1>1 DEF Executing
    <2> QED BY <2>1, ExecutingStaged DEF RInv, Progress
<1>4. \A a : Good(a)' = Good(a)
    BY <1>2, FinalKept DEF Good
<1>5. Grows
    BY <1>2, <1>4 DEF Grows, OutputInv, DstTyped
<1>6. PrefixGood' /\ DstTyped' /\ row' \in [Team -> Nat]
    BY <1>2, <1>4, FinalKept DEF PrefixGood, OutputInv, DstTyped
<1>7. pc'[Parser] = pc[Parser] /\ \A w \in Team : pc'[w] \in {"dep", "depdone", "handoff"}
    BY DEF PipeTeamBar
<1>8. \A w \in Warps : LongGood(w)'
    <2>1. ASSUME NEW w \in Warps PROVE LongGood(w)'
        <3>1. (pc'[w] = pc[w] /\ M' = M) \/ pc'[w] \notin CopiedPCs
            BY <1>2, <1>7 DEF CopiedPCs, M
        <3>2. LongGood(w)
            BY DEF OutputInv
        <3> HIDE DEF M
        <3> QED BY <1>2, <1>5, <3>1, <3>2, LongGoodKept
    <2> QED BY <2>1
<1>9. \A w \in Team : \A k, y : Claimed(w, k, y) /\ InWindow(m, k, y) => Good(Place(m, k, y))
    BY DEF OutputInv, BatchGood
<1>10. CASE site = "flatdone"
    <2>1. ASSUME NEW k, NEW y, InWindow(m, k, y), Kind(m, k, y) # "dep"
          PROVE  Good(Place(m, k, y))
        <3>1. Kind(m, k, y) \in FlatKinds
            BY <2>1 DEF Kind, FlatKinds
        <3>2. FlatIndex(m, k, y) \in Nat
            <4>1. TotalOf(cur[1], Kind(m, k, y)) \in Nat
                BY <1>3, <3>1, TotalNat
            <4>2. FlatIndex(m, k, y) \in 0 .. TotalOf(cur[1], Kind(m, k, y)) - 1
                BY <1>3, <2>1, <3>1, FlatCovered
            <4> QED BY <4>1, <4>2
        <3>3. PICK w \in Team, n \in Nat : FlatIndex(m, k, y) \in Turn(w, n)
            BY <3>2, TurnsCover
        <3>4. Kind(m, k, y) \in PassesBefore(pc[w])
            BY <1>1, <1>10, <3>1 DEF PassesBefore, FlatKinds
        <3>5. Claimed(w, k, y)
            BY <3>3, <3>4 DEF Claimed
        <3> QED BY <1>9, <2>1, <3>5
    <2>2. dep' = Dependent(Window(stream, At(m)), At(m)) /\ pc'[1] = "dep"
        BY <1>1, <1>3, <1>10 DEF PipeTeamBar, Staged, StagedHead
    <2>3. DepLanes'
        BY <1>2, <2>2, FinalKept DEF DepLanes
    <2>4. ASSUME NEW k, NEW y, InWindow(m, k, y), Kind(m, k, y) = "dep"
          PROVE  k \in dep'
        <3> DEFINE w == Window(stream, At(m))
                   l == w.lit[k]
                   b == w.match[k]
        <3>1. ~(y < l) /\ k \notin Independent(w, At(m)) /\ k \notin EntirelyDict(w)
            BY <2>4 DEF Kind
        <3>2. y \in Nat /\ y < l + b /\ k \in 0 .. BatchSize(stream, At(m)) - 1
            BY <2>4 DEF InWindow
        <3>3. l \in Nat /\ b \in Nat
            BY <1>3, <2>4, WindowFinal
        <3>4. b > 0
            <4> HIDE DEF l, b
            <4> QED BY <3>1, <3>2, <3>3
        <3>5. k \in DOMAIN w.src
            <4>1. BatchSize(stream, At(m)) \in Nat
                BY <1>3, WindowRanges DEF SerialInput, At
            <4> QED BY <3>2, <4>1, WindowFields
        <3> QED BY <2>2, <3>1, <3>4, <3>5 DEF Dependent
    <2>5. ASSUME NEW w \in Team PROVE BatchGood(w)'
        <3>1. pc'[w] = IF w = 1 THEN "dep" ELSE "depdone"
            BY <1>1, <1>10 DEF PipeTeamBar
        <3>2. ASSUME NEW k, NEW y, InWindow(m, k, y), Claimed(w, k, y)' PROVE Good(Place(m, k, y))
            <4>1. Kind(m, k, y)' = Kind(m, k, y) /\ Kind(m, k, y) \in {"lit", "im", "dm", "dep"}
                BY <1>2, FinalKept DEF Kind
            <4>2. Kind(m, k, y) # "dep" \/ k \notin dep'
                BY <1>2, <3>1, <3>2, <4>1 DEF Claimed, PassesBefore
            <4> QED BY <2>1, <2>4, <3>2, <4>2
        <3> QED BY <1>2, <1>4, <3>2, FinalKept DEF BatchGood
    <2> QED BY <1>6, <1>8, <2>3, <2>5 DEF OutputInv
<1>11. CASE site = "depdone"
    <2>1. \A k, y : InWindow(m, k, y) => Good(Place(m, k, y))
        BY <1>1, <1>9, <1>11 DEF Claimed
    <2>2. \A w \in Team : BatchGood(w)'
        BY <1>2, <1>4, <2>1, FinalKept DEF BatchGood
    <2>3. pc'[1] = "handoff"
        BY <1>1, <1>11 DEF PipeTeamBar
    <2> QED BY <1>6, <1>8, <2>2, <2>3 DEF OutputInv, DepLanes
<1> QED BY <1>10, <1>11 DEF TeamSites

\* A match copied behind a correct prefix extends it.
LEMMA MatchGood ==
    ASSUME UNCHANGED <<stream, serial>>, DstTyped,
           NEW d \in Nat, NEW len \in Nat, d + len <= DstSize, NEW src \in Int, src < d,
           \A a \in 0 .. d - 1 : Good(a),
           \A y \in 0 .. len - 1 : Final(d + y) = Source(Decoded(stream, serial), src + y),
           dst' = MatchCopy(dst, d, src, len)
    PROVE  Grows /\ \A y \in 0 .. len - 1 : Good(d + y)'
<1> DEFINE fin == Decoded(stream, serial)
<1>1. \A a : Final(a) = fin[a + 1] /\ Final(a)' = fin[a + 1]
    BY FinalKept DEF Final
<1>2. Feeds(dst, fin, d, src, len)
    BY <1>1 DEF Feeds, DstTyped, Good
<1> HIDE DEF fin
<1>3. dst' = Patched(dst, fin, d, d + len)
    BY <1>2, MatchCopied
<1>4. dst' = [a \in Addresses |-> IF a >= d /\ a < d + len THEN fin[a + 1] ELSE dst[a]]
    BY <1>3 DEF Patched
<1>5. DstTyped'
    BY <1>4 DEF DstTyped
<1>6. ASSUME NEW a, Good(a) PROVE Good(a)'
    BY <1>1, <1>4, <1>6 DEF Good
<1>7. ASSUME NEW y \in 0 .. len - 1 PROVE Good(d + y)'
    <2>1. d + y \in Addresses /\ d + y >= d /\ d + y < d + len
        BY SizeAssumption DEF Addresses
    <2> QED BY <1>1, <1>4, <2>1 DEF Good
<1> QED BY <1>5, <1>6, <1>7 DEF Grows

\* The lowest lane of the mask.
LEMMA LowestDepFacts ==
    ASSUME dep \subseteq Nat, dep # {}
    PROVE  LowestDep \in dep /\ \A j \in dep : LowestDep <= j
<1>1. \E k \in dep : \A j \in dep : k <= j
    BY Smallest
<1> QED BY <1>1 DEF LowestDep

\* What a dependent match copies.
LEMMA DependentFacts ==
    ASSUME SerialInput, NEW s, NEW m \in 0 .. Len(stream.cmd), Staged(s, m),
           NEW k \in Dependent(Window(stream, At(m)), At(m))
    PROVE  LET w == Window(stream, At(m))
               d == DepTarget(s, k)
               src == DepTarget(s, k) + lanes[s].match_offset[k]
               len == lanes[s].match_len[k]
           IN /\ k \in 0 .. BatchSize(stream, At(m)) - 1
              /\ d = w.copy_dst[k] /\ src = w.src[k] /\ len = w.match[k]
              /\ d \in Nat /\ len \in Nat /\ d + len <= DstSize /\ src \in Int /\ src < d
              /\ \A y \in 0 .. len - 1 : Final(d + y) = Source(Decoded(stream, serial), src + y)
              /\ w.lit[k] \in Nat /\ d < At(m + BatchSize(stream, At(m))).dst_pos
              /\ \A y \in Nat : InWindow(m, k, y) /\ ~(y < w.lit[k]) =>
                    y - w.lit[k] \in 0 .. len - 1 /\ Place(m, k, y) = d + (y - w.lit[k])
<1> DEFINE q == At(m)
           w == Window(stream, q)
           n == BatchSize(stream, q)
           im == SumBelow(ImPool(stream, q), n)
           l == w.lit[k]
           b == w.match[k]
           c == w.copy_dst[k]
           v == w.src[k]
           fin == Decoded(stream, serial)
<1>1. stream \in Streams /\ q = Reference(stream)[m].pos
    BY DEF SerialInput, At
<1>2. n \in Nat
    BY <1>1, WindowRanges
<1>3. k \in 0 .. n - 1 /\ b > 0
    <2>1. k \in DOMAIN w.src /\ w.match[k] > 0
        BY DEF Dependent
    <2>2. DOMAIN w.src = 0 .. n - 1
        BY <1>2, WindowFields
    <2> QED BY <2>1, <2>2
<1>4. l \in Nat /\ b \in Nat
    BY <1>1, <1>3, WindowRanges
<1>5. InWindow(m, k, l)
    <2>1. l < l + b
        BY <1>3, <1>4
    <2> QED BY <1>3, <1>4, <2>1 DEF InWindow
<1>6. v \in Int /\ c \in Nat /\ v < c /\ c + b <= DstSize /\ v = c + w.offset[k] /\ c = Place(m, k, l)
      /\ Place(m, k, l) < At(m + n).dst_pos
    BY <1>3, <1>5, WindowFinal
<1>7. im[k] \in Nat
    <2>1. \A j \in 0 .. n - 1 : ImPool(stream, q)[j] \in Nat
        BY <1>1, PoolFacts
    <2>2. \A j \in 0 .. n : SumBelow(ImPool(stream, q), n)[j] \in Nat
        <3> HIDE DEF n, q
        <3> QED BY <1>2, <2>1, SumGrows
    <2>3. k \in 0 .. n
        <3> HIDE DEF n
        <3> QED BY <1>2, <1>3
    <2> QED BY <2>2, <2>3
<1>8. /\ lanes[s].im_dst_adj[k] = c - im[k] /\ lanes[s].im_prefix[k] = im[k]
      /\ lanes[s].match_len[k] = b /\ lanes[s].match_offset[k] = w.offset[k]
    BY <1>2, <1>3, StagedFields DEF Staged
<1>9. DepTarget(s, k) = c
    <2> DEFINE i == im[k]
               d == lanes[s].im_dst_adj[k]
               p == lanes[s].im_prefix[k]
    <2>1. d = c - i /\ p = i /\ i \in Nat /\ c \in Nat
        BY <1>6, <1>7, <1>8
    <2>2. DepTarget(s, k) = d + p
        BY DEF DepTarget
    <2> HIDE DEF c, i, d, p
    <2> QED BY <2>1, <2>2
<1>10. \A y : InWindow(m, k, y) => Place(m, k, y) = At(m).dst_pos + w.dst_local[k] + y
    BY DEF Place
<1> DEFINE e == At(m).dst_pos + w.dst_local[k]
<1>11. e \in Int /\ c = e + l
    <2>1. At(m).dst_pos \in Nat /\ w.dst_local[k] \in Nat
        BY <1>1, <1>3, WindowRanges
    <2>2. c = e + l
        BY <1>6 DEF Place
    <2> QED BY <2>1, <2>2
<1> HIDE DEF e
<1>12. \A y \in Nat : InWindow(m, k, y) <=> y < l + b
    BY <1>3 DEF InWindow
<1>13. \A y \in Nat : InWindow(m, k, y) => Place(m, k, y) = e + y
    BY <1>10 DEF e
<1> HIDE DEF w, n
<1>14. ASSUME NEW y \in 0 .. b - 1 PROVE Final(c + y) = Source(fin, v + y)
    <2>1. l + y \in Nat /\ l + y < l + b /\ ~(l + y < l) /\ (l + y) - l = y /\ e + (l + y) = c + y
        <3> HIDE DEF l, b, c
        <3> QED BY <1>4, <1>11
    <2>2. InWindow(m, k, l + y)
        BY <1>12, <2>1
    <2>3. Place(m, k, l + y) = c + y
        BY <1>13, <2>1, <2>2
    <2>4. Final(Place(m, k, l + y)) = Source(fin, v + ((l + y) - l))
        BY <2>1, <2>2, WindowFinal DEF w
    <2> QED BY <2>1, <2>3, <2>4
<1>15. ASSUME NEW y \in Nat, InWindow(m, k, y), ~(y < l)
       PROVE  y - l \in 0 .. b - 1 /\ Place(m, k, y) = c + (y - l)
    <2>1. y < l + b /\ Place(m, k, y) = e + y
        BY <1>12, <1>13, <1>15
    <2> HIDE DEF l, b, c
    <2> QED BY <1>4, <1>11, <1>15, <2>1
<1>16. DepTarget(s, k) + lanes[s].match_offset[k] = v
    BY <1>6, <1>8, <1>9
<1> QED BY <1>3, <1>4, <1>6, <1>8, <1>9, <1>14, <1>15, <1>16 DEF w, n

\* Where a byte of a dependent match lies.
LEMMA DependentByte ==
    ASSUME SerialInput, NEW s, NEW m \in 0 .. Len(stream.cmd), Staged(s, m),
           NEW k \in Dependent(Window(stream, At(m)), At(m)),
           NEW y \in Nat, InWindow(m, k, y), ~(y < Window(stream, At(m)).lit[k])
    PROVE  LET w == Window(stream, At(m))
           IN /\ DepTarget(s, k) = w.copy_dst[k] /\ w.copy_dst[k] \in Nat
              /\ lanes[s].match_len[k] \in Nat
              /\ y - w.lit[k] \in 0 .. lanes[s].match_len[k] - 1
              /\ Place(m, k, y) = w.copy_dst[k] + (y - w.lit[k])
<1> DEFINE w == Window(stream, At(m))
           d == DepTarget(s, k)
           len == lanes[s].match_len[k]
<1>1. /\ d = w.copy_dst[k] /\ d \in Nat /\ len \in Nat
      /\ InWindow(m, k, y) /\ ~(y < w.lit[k]) =>
            y - w.lit[k] \in 0 .. len - 1 /\ Place(m, k, y) = d + (y - w.lit[k])
    BY DependentFacts
<1> HIDE DEF w, d, len
<1>2. y - w.lit[k] \in 0 .. len - 1 /\ Place(m, k, y) = d + (y - w.lit[k])
    BY <1>1 DEF w
<1> QED BY <1>1, <1>2 DEF w, d, len

\* The matches of a window lie in the order of its tokens.
LEMMA TargetsRise ==
    ASSUME SerialInput, NEW m \in 0 .. Len(stream.cmd),
           NEW j \in 0 .. BatchSize(stream, At(m)) - 1, NEW k \in 0 .. BatchSize(stream, At(m)) - 1, j <= k
    PROVE  LET w == Window(stream, At(m))
           IN w.copy_dst[j] <= w.copy_dst[k] /\ w.copy_dst[j] \in Nat /\ w.copy_dst[k] \in Nat
<1> DEFINE q == At(m)
           n == BatchSize(stream, q)
           w == Window(stream, q)
           d == q.dst_pos
           dj == w.dst_local[j]
           dk == w.dst_local[k]
           lj == w.lit[j]
           lk == w.lit[k]
<1>1. stream \in Streams /\ q = Reference(stream)[m].pos
    BY DEF SerialInput, At
<1>2. /\ w.copy_dst[j] = d + dj + lj /\ w.copy_dst[k] = d + dk + lk
      /\ d \in Nat /\ dj \in Nat /\ dk \in Nat /\ lj \in Nat /\ lk \in Nat /\ w.match[j] \in Nat
    BY <1>1, WindowRanges
<1>3. j < k => dj + (lj + w.match[j]) <= dk
    BY <1>1, WindowRanges
<1>4. j = k => dj = dk /\ lj = lk
    OBVIOUS
<1>5. j < k \/ j = k
    <2> HIDE DEF n
    <2>1. j \in Int /\ k \in Int
        OBVIOUS
    <2> QED BY <2>1
<1> DEFINE b == w.match[j]
<1> HIDE DEF d, dj, dk, lj, lk, b
<1>6. d + dj + lj <= d + dk + lk /\ d + dj + lj \in Nat /\ d + dk + lk \in Nat
    BY SMTT(40), <1>2, <1>3, <1>4, <1>5 DEF b
<1> QED BY <1>2, <1>6

\* The dependent matches run lowest lane first, so that each finds all it reads written.
LEMMA DependentOutput ==
    ASSUME OutputInv, Progress, RInv, IInv, DependentMatch
    PROVE  OutputInv'
<1> USE WarpFacts
<1> DEFINE m == committed
           s == cur[1]
           q == At(m)
           w == Window(stream, q)
           n == BatchSize(stream, q)
<1>1. UNCHANGED <<stream, serial, s_state, row, committed>> /\ pc[1] = "dep"
    BY DEF DependentMatch, input, shared
<1>2. Staged(s, m) /\ SerialInput /\ m \in 0 .. Len(stream.cmd)
    <2>1. pc[1] \in Executing
        BY <1>1 DEF Executing, TeamPCs
    <2> QED BY <2>1, ExecutingStaged DEF RInv, Progress
<1>3. pc \in [Warps -> PCs] /\ row \in [Team -> Nat] /\ DstTyped
    BY DEF IInv, PcType, OutputInv
<1>4. dep \subseteq Dependent(w, q)
    BY <1>1 DEF OutputInv, DepLanes
<1>5. \A k, y : InWindow(m, k, y) /\ (Kind(m, k, y) # "dep" \/ k \notin dep) => Good(Place(m, k, y))
    <2>1. \A k, y : InWindow(m, k, y) /\ Claimed(1, k, y) => Good(Place(m, k, y))
        BY DEF OutputInv, BatchGood
    <2> QED BY <1>1, <2>1 DEF Claimed
<1>6. \A k, y : Kind(m, k, y)' = Kind(m, k, y) /\ Kind(m, k, y) \in {"lit", "im", "dm", "dep"}
    BY <1>1, FinalKept DEF Kind
<1>7. CASE dep = {}
    <2>1. pc' = [pc EXCEPT ![1] = "depdone"] /\ UNCHANGED <<dst, dep>>
        BY <1>7 DEF DependentMatch, Goto
    <2>2. Grows
        BY <1>1, <1>3, <2>1, FinalKept DEF Grows, Good, DstTyped
    <2>3. \A k, y : InWindow(m, k, y) => Good(Place(m, k, y))
        BY <1>5, <1>7
    <2>4. BatchGood(1)'
        BY <1>1, <2>2, <2>3, FinalKept DEF BatchGood, Grows
    <2>5. pc'[1] = "depdone" /\ \A v \in Warps : v # 1 => pc'[v] = pc[v]
        BY <1>3, <2>1
    <2> QED BY <1>1, <1>3, <2>1, <2>2, <2>4, <2>5, OutputAfter DEF DepLanes, CopiedPCs
<1>8. CASE dep # {}
    <2> DEFINE k == LowestDep
               d == DepTarget(s, k)
               len == lanes[s].match_len[k]
               src == DepTarget(s, k) + lanes[s].match_offset[k]
    <2>1. dst' = MatchCopy(dst, d, src, len) /\ dep' = dep \ {k} /\ pc' = pc
        BY <1>8 DEF DependentMatch
    <2>2. dep \subseteq 0 .. n - 1
        BY <1>2, <1>4, DependentFacts
    <2>3. k \in dep /\ \A j \in dep : k <= j
        <3>1. dep \subseteq Nat
            <4>1. n \in Nat
                BY <1>2, WindowRanges DEF SerialInput, At
            <4> HIDE DEF n
            <4> QED BY <2>2, <4>1
        <3> QED BY <1>8, <3>1, LowestDepFacts
    <2> HIDE DEF k
    <2>4. /\ d = w.copy_dst[k] /\ d \in Nat /\ len \in Nat /\ d + len <= DstSize /\ src \in Int /\ src < d
          /\ \A y \in 0 .. len - 1 : Final(d + y) = Source(Decoded(stream, serial), src + y)
          /\ \A y \in Nat : InWindow(m, k, y) /\ ~(y < w.lit[k]) =>
                y - w.lit[k] \in 0 .. len - 1 /\ Place(m, k, y) = d + (y - w.lit[k])
        BY SMTT(40), <1>2, <1>4, <2>3, DependentFacts
    <2>5. ASSUME NEW a \in 0 .. d - 1 PROVE Good(a)
        <3>1. CASE a < q.dst_pos
            <4>1. a \in 0 .. q.dst_pos - 1
                <5>1. q.dst_pos \in Nat
                    BY <1>2, WindowRanges DEF SerialInput, At
                <5> QED BY <3>1, <5>1
            <4> QED BY <4>1 DEF OutputInv, PrefixGood
        <3>2. CASE ~(a < q.dst_pos)
            <4>1. a \in q.dst_pos .. At(m + n).dst_pos - 1
                <5>1. d < At(m + n).dst_pos
                    BY <1>2, <1>4, <2>3, DependentFacts
                <5>2. q.dst_pos \in Nat /\ At(m + n).dst_pos \in Nat
                    <6>1. n \in Nat /\ m + n <= Len(stream.cmd) /\ m \in Nat
                        <7>1. stream \in Streams /\ q = Reference(stream)[m].pos /\ Len(stream.cmd) \in Nat
                            BY <1>2, InputFacts DEF SerialInput, At
                        <7>2. m \in 0 .. Len(stream.cmd)
                            BY <1>2
                        <7>3. n \in Nat /\ m + n <= Len(stream.cmd)
                            BY <7>1, <7>2, WindowIsSerial
                        <7> HIDE DEF m, n
                        <7> QED BY <7>1, <7>2, <7>3
                    <6>2. m + n \in 0 .. Len(stream.cmd)
                        <7> HIDE DEF n, m
                        <7> QED BY <1>2, <6>1, InputFacts
                    <6>3. At(m) \in PosType /\ At(m + n) \in PosType
                        BY <1>2, <6>2, InputFacts
                    <6> HIDE DEF n
                    <6> QED BY <6>3 DEF PosType
                <5> DEFINE e == At(m + n).dst_pos
                           f == q.dst_pos
                <5>3. d < e /\ f \in Nat /\ e \in Nat /\ ~(a < f) /\ a \in 0 .. d - 1 /\ d \in Nat
                    BY <2>4, <3>2, <5>1, <5>2
                <5> HIDE DEF e, f, d
                <5>4. a \in f .. e - 1
                    BY <5>3
                <5> QED BY <5>4 DEF e, f
            <4>2. PICK j, y : InWindow(m, j, y) /\ a = Place(m, j, y)
                BY <1>2, <4>1, WindowCovered
            <4>3. CASE Kind(m, j, y) # "dep" \/ j \notin dep
                BY <1>5, <4>2, <4>3
            <4>4. CASE Kind(m, j, y) = "dep" /\ j \in dep
                <5>1. ~(y < w.lit[j]) /\ y \in Nat
                    BY <4>2, <4>4 DEF Kind, InWindow
                <5>2. /\ DepTarget(s, j) = w.copy_dst[j] /\ w.copy_dst[j] \in Nat
                      /\ lanes[s].match_len[j] \in Nat
                      /\ y - w.lit[j] \in 0 .. lanes[s].match_len[j] - 1
                      /\ Place(m, j, y) = w.copy_dst[j] + (y - w.lit[j])
                    <6>1. j \in Dependent(w, q)
                        BY <1>4, <4>4
                    <6>2. InWindow(m, j, y)
                        BY <4>2
                    <6> QED BY <1>2, <5>1, <6>1, <6>2, DependentByte
                <5>3. w.copy_dst[k] <= w.copy_dst[j]
                    BY <1>2, <1>4, <2>2, <2>3, <4>4, TargetsRise
                <5> DEFINE x == y - w.lit[j]
                           u == w.copy_dst[j]
                <5>4. d <= u /\ u \in Nat /\ x \in Nat /\ a = u + x /\ a < d /\ a \in Int
                    BY <2>4, <4>2, <5>2, <5>3
                <5> HIDE DEF x, u, d
                <5> QED BY <2>4, <5>4
            <4> QED BY <4>3, <4>4
        <3> QED BY <3>1, <3>2
    <2> PICK dd, ll, ss : dd = d /\ ll = len /\ ss = src
        OBVIOUS
    <2>6. Grows /\ \A y \in 0 .. ll - 1 : Good(dd + y)'
        <3>1. /\ dd \in Nat /\ ll \in Nat /\ dd + ll <= DstSize /\ ss \in Int /\ ss < dd
              /\ \A y \in 0 .. ll - 1 : Final(dd + y) = Source(Decoded(stream, serial), ss + y)
              /\ \A a \in 0 .. dd - 1 : Good(a)
            BY <2>4, <2>5
        <3>2. dst' = MatchCopy(dst, dd, ss, ll)
            BY <2>1
        <3> QED BY <1>1, <1>3, <3>1, <3>2, MatchGood
    <2>7. ASSUME NEW j, NEW y, InWindow(m, j, y), Claimed(1, j, y)'
          PROVE  Good(Place(m, j, y))'
        <3> PICK a : a = Place(m, j, y)
            OBVIOUS
        <3>1. Kind(m, j, y) # "dep" \/ j \notin dep \/ (j = k /\ Kind(m, j, y) = "dep")
            BY <1>1, <1>6, <2>1, <2>7 DEF Claimed, PassesBefore
        <3>2. CASE Kind(m, j, y) # "dep" \/ j \notin dep
            BY <1>1, <1>5, <2>6, <2>7, <3>2, FinalKept DEF Grows
        <3>3. CASE j = k /\ Kind(m, j, y) = "dep"
            <4>1. ~(y < w.lit[k]) /\ y \in Nat /\ InWindow(m, k, y)
                BY <2>7, <3>3 DEF Kind, InWindow
            <4>2. y - w.lit[k] \in 0 .. ll - 1 /\ a = dd + (y - w.lit[k])
                BY <2>4, <3>3, <4>1
            <4>3. PICK z \in 0 .. ll - 1 : a = dd + z
                BY <4>2
            <4>4. Good(dd + z)'
                BY <2>6
            <4>5. Good(a)'
                BY <4>3, <4>4
            <4> QED BY <1>1, <4>5, FinalKept
        <3> QED BY <3>1, <3>2, <3>3
    <2>8. BatchGood(1)'
        BY <1>1, <2>7, FinalKept DEF BatchGood
    <2>9. DepLanes'
        BY <1>1, <1>4, <2>1, FinalKept DEF DepLanes
    <2> QED BY <1>1, <1>3, <2>1, <2>6, <2>8, <2>9, OutputAfter DEF CopiedPCs
<1> QED BY <1>7, <1>8

\* Every byte that the whole block copies is some warp's.
LEMMA ShareCovers ==
    ASSUME NEW len \in Nat, NEW i \in 0 .. len - 1
    PROVE  \E w \in Warps : i \in BlockShare(w, len)
<1> DEFINE B == BlockThreads
           W == WARP_SIZE
           C == Copiers
           r == i % B
           q == r \div W
<1>1. W \in Nat \ {0} /\ C \in Nat \ {0} /\ B = (C + 1) * W
    BY WarpAssumption, CopiersAssumption DEF BlockThreads
<1>2. B \in Nat \ {0}
    <2>1. (C + 1) * W = C * W + W /\ C * W \in Nat
        BY <1>1
    <2> HIDE DEF B
    <2> QED BY <1>1, <2>1
<1> HIDE DEF B, W, C
<1>3. r \in 0 .. B - 1
    BY <1>2
<1> HIDE DEF r
<1>4. q \in Nat /\ W * q <= r
    BY <1>1, <1>2, <1>3
<1> HIDE DEF q
<1>5. W * q < (C + 1) * W
    <2>1. W * q \in Nat
        BY <1>1, <1>4
    <2> QED BY <1>1, <1>2, <1>3, <1>4, <2>1
<1>6. q <= C
    <2> SUFFICES ASSUME q >= C + 1 PROVE FALSE
        BY <1>1, <1>4
    <2>1. PICK e \in Nat : q = (C + 1) + e
        <3>1. q = (C + 1) + (q - (C + 1)) /\ q - (C + 1) \in Nat
            BY <1>1, <1>4
        <3> QED BY <3>1
    <2>2. W * q = W * (C + 1) + W * e /\ W * e \in Nat
        BY <1>1, <2>1
    <2> QED BY <1>1, <1>5, <2>2
<1>7. q \in Warps
    BY <1>1, <1>4, <1>6 DEF Warps, Team, C
<1> QED BY <1>7 DEF BlockShare, q, r, B, W

\* Steps outside a batch that lose no byte: what remains is what the moving warp claims.
LEMMA QuietOutput ==
    ASSUME OutputInv, UNCHANGED <<stream, serial, dep, committed>>, Grows, row' \in [Team -> Nat],
           \A v \in Team : \/ pc'[v] = pc[v] /\ row'[v] = row[v]
                           \/ pc'[v] \notin BatchPCs
                           \/ BatchGood(v)',
           \A v \in Warps : \/ pc'[v] = pc[v] /\ M' = M
                            \/ pc'[v] \notin CopiedPCs
                            \/ LongGood(v)',
           pc'[1] = "dep" => pc[1] = "dep"
    PROVE  OutputInv'
<1> USE WarpFacts
<1>1. PrefixGood' /\ DepLanes'
    BY FinalKept DEF OutputInv, PrefixGood, DepLanes, Grows
<1>2. \A v \in Team : BatchGood(v)'
    <2>1. ASSUME NEW v \in Team, pc'[v] = pc[v], row'[v] = row[v] PROVE BatchGood(v)'
        BY <2>1, BatchKept DEF OutputInv
    <2> QED BY <2>1, BatchNone
<1>3. \A v \in Warps : LongGood(v)'
    <2>1. ASSUME NEW v \in Warps, (pc'[v] = pc[v] /\ M' = M) \/ pc'[v] \notin CopiedPCs PROVE LongGood(v)'
        <3>1. LongGood(v)
            BY DEF OutputInv
        <3> HIDE DEF M
        <3> QED BY <2>1, <3>1, LongGoodKept
    <2> QED BY <2>1
<1> QED BY <1>1, <1>2, <1>3 DEF OutputInv, Grows

\* What the long token leaves in the output.
LEMMA LongFinal ==
    ASSUME RInv, NEW w \in Warps, pc[w] \in LongPCs
    PROVE  LET d == At(M).dst_pos
               p == LongParsed
           IN /\ d \in Nat /\ p.lit \in Nat /\ p.match \in Nat /\ p.offset \in Int
              /\ p.match > 0 => p.offset < 0
              /\ \/ p.lit > 0 /\ p.match = 0
                 \/ p.lit = 0 /\ p.match > 0
              /\ M + 1 \in 0 .. Len(stream.cmd) /\ At(M + 1).dst_pos = d + p.lit + p.match
              /\ d + p.lit + p.match <= DstSize
              /\ \A y \in 0 .. p.lit - 1 : Final(d + y) = LitByte(At(M).lit_pos + y)
              /\ \A y \in 0 .. p.match - 1 :
                    Final(d + p.lit + y) = Source(Decoded(stream, serial), d + p.lit + y + p.offset)
<1>1. DrainedState /\ M < Len(stream.cmd)
    BY LongTyped
<1>2. M \in 0 .. Len(stream.cmd) - 1 /\ M + 1 \in 0 .. Len(stream.cmd)
      /\ \/ LongParsed.lit > 0 /\ LongParsed.match = 0
         \/ LongParsed.lit = 0 /\ LongParsed.match > 0
    BY <1>1, LongFacts
<1> PICK n : n = M
    OBVIOUS
<1> DEFINE r == Reference(stream)
           p == Parsed(stream, r[n].pos)
           fin == Decoded(stream, r)
<1>3. stream \in Streams /\ serial = r /\ n \in 0 .. Len(stream.cmd) - 1
    BY <1>2 DEF RInv, SerialInput
<1>4. At(M) = r[n].pos /\ At(M + 1) = r[n + 1].pos /\ LongParsed = p
    BY <1>3 DEF At, LongParsed
<1>5. /\ r[n].pos.dst_pos \in Nat /\ p.lit \in Nat /\ p.match \in Nat /\ p.offset \in Int
      /\ p.match > 0 => p.offset < 0
      /\ r[n + 1].pos.dst_pos = r[n].pos.dst_pos + p.lit + p.match
      /\ r[n].pos.dst_pos + p.lit + p.match <= DstSize
      /\ \A y \in 0 .. p.lit - 1 : fin[r[n].pos.dst_pos + y + 1] = LitByte(r[n].pos.lit_pos + y)
      /\ \A y \in 0 .. p.match - 1 :
            fin[r[n].pos.dst_pos + p.lit + y + 1] = Source(fin, r[n].pos.dst_pos + p.lit + y + p.offset)
    BY <1>3, FinalToken
<1>6. \A a : Final(a) = fin[a + 1] /\ Decoded(stream, serial) = fin
    BY <1>3 DEF Final
<1> HIDE DEF r, p, fin, M, LongParsed
<1> QED BY <1>2, <1>4, <1>5, <1>6

\* A warp copies its share of the long token's literals.
LEMMA LongLiteralsOutput ==
    ASSUME OutputInv, RInv, IInv, NEW w \in Warps, LongLiterals(w)
    PROVE  OutputInv'
<1> USE WarpFacts
<1>1. UNCHANGED <<stream, serial, s_state, row, dep, committed>> /\ pc[w] = "longlit"
    BY DEF LongLiterals, input, shared
<1>2. pc \in [Warps -> PCs] /\ row \in [Team -> Nat] /\ DstTyped /\ M' = M
    BY <1>1 DEF IInv, PcType, OutputInv, M
<1>3. long[w].lit = LongParsed.lit /\ pc[w] \in LongPCs
    BY <1>1, HeldToken DEF HoldsLong, LongPCs
<1>4. PICK label \in {"literals", "longmatch"} : pc' = [pc EXCEPT ![w] = label]
    BY DEF LongLiterals, Goto
<1>5. pc'[w] = label /\ \A v \in Warps : v # w => pc'[v] = pc[v]
    BY <1>2, <1>4
<1>6. ASSUME Grows, label = "literals" => LongGood(w)' PROVE OutputInv'
    <2>1. \A v \in Team : (pc'[v] = pc[v] /\ row'[v] = row[v]) \/ pc'[v] \notin BatchPCs
        BY <1>1, <1>5 DEF BatchPCs
    <2>2. \A v \in Warps : (pc'[v] = pc[v] /\ M' = M) \/ pc'[v] \notin CopiedPCs \/ LongGood(v)'
        BY <1>2, <1>5, <1>6 DEF CopiedPCs
    <2>3. pc'[1] = "dep" => pc[1] = "dep"
        BY <1>5
    <2> HIDE DEF M
    <2> QED BY <1>1, <1>2, <1>6, <2>1, <2>2, <2>3, QuietOutput
<1>7. CASE long[w].lit > 0
    <2> PICK d, l, n : d = At(M).dst_pos /\ l = At(M).lit_pos /\ n = LongParsed.lit
        OBVIOUS
    <2> DEFINE writes == {<<d + i, LitByte(l + i)>> : i \in BlockShare(w, n)}
    <2>1. d \in Nat /\ n \in Nat /\ d + n <= DstSize /\ \A y \in 0 .. n - 1 : Final(d + y) = LitByte(l + y)
        <3>1. d \in Nat /\ n \in Nat /\ LongParsed.match \in Nat /\ d + n + LongParsed.match <= DstSize
              /\ \A y \in 0 .. n - 1 : Final(d + y) = LitByte(l + y)
            BY <1>3, LongFinal
        <3> PICK b : b = LongParsed.match
            OBVIOUS
        <3>2. b \in Nat /\ d + n + b <= DstSize
            BY <3>1
        <3> QED BY <3>1, <3>2, SizeAssumption
    <2>2. Store(writes)
        <3>1. pos[w].dst_pos = d /\ pos[w].lit_pos = l
            <4>1. pos[w] = Passed(w)
                BY <1>1 DEF RInv, Registers
            <4>2. Passed(w).dst_pos = At(M).dst_pos /\ Passed(w).lit_pos = At(M).lit_pos
                BY <1>3, LongTyped
            <4> QED BY <4>1, <4>2
        <3>2. CooperativeLiterals(w, n)
            BY <1>3, <1>7 DEF LongLiterals
        <3> QED BY <3>1, <3>2 DEF CooperativeLiterals
    <2>3. BlockShare(w, n) \subseteq 0 .. n - 1
        BY DEF BlockShare
    <2>4. \A p \in writes : p[2] = Final(p[1])
        BY <2>1, <2>3
    <2>5. \A i \in BlockShare(w, n) : d + i \in Addresses
        BY <2>1, <2>3, SizeAssumption DEF Addresses
    <2>6. ASSUME NEW i \in BlockShare(w, n) PROVE \E p \in writes : p[1] = d + i
        <3>1. <<d + i, LitByte(l + i)>> \in writes
            OBVIOUS
        <3>2. <<d + i, LitByte(l + i)>>[1] = d + i
            OBVIOUS
        <3> HIDE DEF writes
        <3> QED BY <3>1, <3>2
    <2> HIDE DEF writes
    <2>7. Grows /\ \A p \in writes : p[1] \in Addresses => Good(p[1])'
        BY <1>1, <2>2, <2>4, StoreGood
    <2>8. \A i \in BlockShare(w, n) : Good(d + i)'
        BY <2>5, <2>6, <2>7
    <2>9. label = "literals"
        BY <1>2, <1>4, <1>7 DEF LongLiterals, Goto
    <2>10. LongGood(w)'
        <3>1. At(M)' = At(M) /\ LongParsed' = LongParsed
            BY <1>1, LongKept
        <3>2. ShareGood(w, d, n)'
            BY <2>8 DEF ShareGood, BlockShare
        <3>3. d = At(M)'.dst_pos /\ n = LongParsed'.lit
            BY <3>1
        <3> HIDE DEF M, LongParsed
        <3> QED BY <1>5, <2>9, <3>2, <3>3 DEF LongGood
    <2> QED BY <1>6, <2>7, <2>10
<1>8. CASE ~(long[w].lit > 0)
    <2>1. dst' = dst /\ label = "longmatch"
        BY <1>2, <1>4, <1>8 DEF LongLiterals, Goto
    <2>2. Grows
        BY <1>1, <1>2, <2>1, FinalKept DEF Grows, Good, DstTyped
    <2> QED BY <1>6, <2>1, <2>2
<1> QED BY <1>7, <1>8

\* One warp moves outside the batches and no byte is lost.
LEMMA WarpOutput ==
    ASSUME OutputInv, UNCHANGED <<stream, serial, row, dep, committed>>, Grows, M' = M,
           NEW w \in Warps, NEW label, pc \in [Warps -> PCs], pc' = [pc EXCEPT ![w] = label],
           label \notin BatchPCs, label \in CopiedPCs => LongGood(w)'
    PROVE  OutputInv'
<1> USE WarpFacts
<1>1. pc'[w] = label /\ \A v \in Warps : v # w => pc'[v] = pc[v]
    OBVIOUS
<1>2. row' \in [Team -> Nat]
    BY DEF OutputInv
<1>3. \A v \in Team : (pc'[v] = pc[v] /\ row'[v] = row[v]) \/ pc'[v] \notin BatchPCs
    BY <1>1
<1>4. \A v \in Warps : (pc'[v] = pc[v] /\ M' = M) \/ pc'[v] \notin CopiedPCs \/ LongGood(v)'
    BY <1>1
<1>5. pc'[1] = "dep" => pc[1] = "dep"
    BY <1>1 DEF BatchPCs
<1> HIDE DEF M
<1> QED BY <1>2, <1>3, <1>4, <1>5, QuietOutput

\* A step that writes nothing loses nothing.
LEMMA NoStore == ASSUME UNCHANGED <<stream, serial, dst>>, DstTyped PROVE Grows
BY FinalKept DEF Grows, Good, DstTyped

\* The parser warp copies the match of the long token.
LEMMA LongMatchOutput ==
    ASSUME OutputInv, Progress, RInv, IInv, NEW w \in Warps, LongMatch(w)
    PROVE  OutputInv'
<1> USE WarpFacts
<1>1. UNCHANGED <<stream, serial, s_state, row, dep, committed>> /\ pc[w] = "longmatch"
    BY DEF LongMatch, input, shared
<1>2. pc \in [Warps -> PCs] /\ DstTyped /\ M' = M
    BY <1>1 DEF IInv, PcType, OutputInv, M
<1>3. long[w].lit = LongParsed.lit /\ long[w].match = LongParsed.match /\ long[w].offset = LongParsed.offset
      /\ pc[w] \in LongPCs
    BY <1>1, HeldToken DEF HoldsLong, LongPCs
<1>4. PICK label \in {"matched", "reprime"} : pc' = [pc EXCEPT ![w] = label]
    BY DEF LongMatch, Goto
<1>5. pc'[w] = label
    BY <1>2, <1>4
<1>6. ASSUME Grows, label = "matched" => LongGood(w)' PROVE OutputInv'
    <2> HIDE DEF M
    <2> QED BY <1>1, <1>2, <1>4, <1>6, WarpOutput DEF BatchPCs, CopiedPCs
<1>7. CASE long[w].match > 0 /\ w = Parser
    <2> PICK d, len, off : d = At(M).dst_pos /\ len = LongParsed.match /\ off = LongParsed.offset
        OBVIOUS
    <2>1. /\ d \in Nat /\ len \in Nat /\ off \in Int /\ off < 0 /\ LongParsed.lit = 0 /\ len > 0
          /\ d + 0 + len <= DstSize
          /\ \A y \in 0 .. len - 1 : Final(d + 0 + y) = Source(Decoded(stream, serial), d + 0 + y + off)
        <3>1. len > 0
            BY <1>3, <1>7
        <3>2. LongParsed.lit = 0
            <4>1. (LongParsed.lit > 0 /\ len = 0) \/ (LongParsed.lit = 0 /\ len > 0)
                BY <1>3, LongFinal
            <4> QED BY <3>1, <4>1
        <3>3. d \in Nat /\ len \in Nat /\ off \in Int /\ (len > 0 => off < 0)
            BY <1>3, LongFinal
        <3>4. d + 0 + len <= DstSize
            BY <1>3, <3>2, LongFinal
        <3>5. \A y \in 0 .. len - 1 : Final(d + 0 + y) = Source(Decoded(stream, serial), d + 0 + y + off)
            BY <1>3, <3>2, LongFinal
        <3> QED BY <3>1, <3>2, <3>3, <3>4, <3>5
    <2>2. \A y \in 0 .. len - 1 : Final(d + y) = Source(Decoded(stream, serial), (d + off) + y)
        <3>1. \A y \in 0 .. len - 1 : d + 0 + y = d + y /\ d + 0 + y + off = (d + off) + y
            BY <2>1
        <3> QED BY <2>1, <3>1
    <2>3. committed = M
        <3>1. pc[Parser] = "longmatch"
            BY <1>1, <1>7
        <3>2. committed = IF LongParsed.lit > 0 THEN M + 1 ELSE M
            BY <3>1 DEF Progress, ProgressAt
        <3> QED BY <2>1, <3>2
    <2>4. \A a \in 0 .. d - 1 : Good(a)
        BY <2>3 DEF OutputInv, PrefixGood
    <2>5. dst' = MatchCopy(dst, d, d + off, len)
        <3>1. pos[w] = Counted /\ Counted.dst_pos = d
            <4>1. pos[w] = Counted
                BY <1>1 DEF RInv, Registers
            <4>2. Counted.dst_pos = At(M).dst_pos
                BY <1>3, LongTyped
            <4> QED BY <4>1, <4>2
        <3>2. pos[w].dst_pos + long[w].lit = d
            BY <1>3, <2>1, <3>1
        <3>3. dst' = MatchCopy(dst, pos[w].dst_pos + long[w].lit, pos[w].dst_pos + long[w].lit + long[w].offset,
                               long[w].match)
            BY <1>7 DEF LongMatch
        <3> QED BY <1>3, <3>2, <3>3
    <2>6. Grows /\ \A y \in 0 .. len - 1 : Good(d + y)'
        <3>1. d + len <= DstSize /\ d + off \in Int /\ d + off < d
            BY <2>1
        <3> QED BY <1>1, <1>2, <2>1, <2>2, <2>4, <2>5, <3>1, MatchGood
    <2>7. LongGood(w)'
        <3>1. At(M)' = At(M) /\ LongParsed' = LongParsed
            BY <1>1, LongKept
        <3>2. At(M)'.dst_pos = d /\ LongParsed'.lit = 0 /\ LongParsed'.match = len
            BY <2>1, <3>1
        <3>3. \A y \in 0 .. len - 1 : d + 0 + y = d + y
            BY <2>1
        <3>4. label = "matched"
            BY <1>2, <1>4, <1>7 DEF LongMatch, Goto
        <3>5. \A y \in 0 .. len - 1 : Good(d + 0 + y)'
            BY <2>6, <3>3
        <3> HIDE DEF M, LongParsed
        <3> QED BY <1>5, <3>2, <3>4, <3>5 DEF LongGood
    <2> QED BY <1>6, <2>6, <2>7
<1>8. CASE ~(long[w].match > 0 /\ w = Parser)
    <2>1. UNCHANGED dst /\ (label = "matched" => w # Parser)
        BY <1>2, <1>4, <1>8 DEF LongMatch, Goto
    <2>2. Grows
        BY <1>1, <1>2, <2>1, NoStore
    <2>3. label = "matched" => LongGood(w)'
        BY <1>5, <2>1 DEF LongGood
    <2> QED BY <1>6, <2>2, <2>3
<1> QED BY <1>7, <1>8

\* A warp copies its share of the literals after the last token.
LEMMA TrailingOutput ==
    ASSUME OutputInv, RInv, IInv, NEW w \in Warps, TrailingLiterals(w)
    PROVE  OutputInv'
<1> USE WarpFacts
<1>1. UNCHANGED <<stream, serial, s_state, row, dep, committed>> /\ pc[w] = "trail"
    BY DEF TrailingLiterals, input, shared
<1>2. pc \in [Warps -> PCs] /\ DstTyped /\ M' = M
    BY <1>1 DEF IInv, PcType, OutputInv, M
<1>3. M = Len(stream.cmd) /\ pos[w] = At(M) /\ stream \in Streams /\ serial = Reference(stream)
    BY <1>1 DEF RInv, StateBroadcast, Registers, SerialInput
<1>4. pc' = [pc EXCEPT ![w] = "done"] /\ pc'[w] = "done"
    BY <1>2 DEF TrailingLiterals, Goto
<1> PICK d, l, n : d = At(M).dst_pos /\ l = At(M).lit_pos /\ n = Trailing(stream, At(M))
    OBVIOUS
<1>5. d \in Nat /\ n \in Nat /\ d + n <= DstSize /\ \A y \in 0 .. n - 1 : Final(d + y) = LitByte(l + y)
    <2> DEFINE r == Reference(stream)
               last == r[Len(stream.cmd)].pos
               fin == Decoded(stream, r)
    <2>1. At(M) = last /\ \A a : Final(a) = fin[a + 1]
        BY <1>3 DEF At, Final
    <2>2. /\ Trailing(stream, last) \in Nat /\ last.dst_pos \in Nat
          /\ last.dst_pos + Trailing(stream, last) <= DstSize
          /\ \A y \in 0 .. Trailing(stream, last) - 1 : fin[last.dst_pos + y + 1] = LitByte(last.lit_pos + y)
        BY <1>3, FinalOutput
    <2> HIDE DEF r, last, fin
    <2> QED BY <2>1, <2>2
<1> DEFINE writes == {<<d + i, LitByte(l + i)>> : i \in BlockShare(w, n)}
<1>6. Store(writes)
    <2>1. CooperativeLiterals(w, Trailing(stream, pos[w]))
        BY DEF TrailingLiterals
    <2> QED BY <1>3, <2>1 DEF CooperativeLiterals
<1>7. BlockShare(w, n) \subseteq 0 .. n - 1
    BY DEF BlockShare
<1>8. \A p \in writes : p[2] = Final(p[1])
    BY <1>5, <1>7
<1>9. \A i \in BlockShare(w, n) : d + i \in Addresses
    BY <1>5, <1>7, SizeAssumption DEF Addresses
<1>10. ASSUME NEW i \in BlockShare(w, n) PROVE \E p \in writes : p[1] = d + i
    <2>1. <<d + i, LitByte(l + i)>> \in writes
        OBVIOUS
    <2>2. <<d + i, LitByte(l + i)>>[1] = d + i
        OBVIOUS
    <2> HIDE DEF writes
    <2> QED BY <2>1, <2>2
<1> HIDE DEF writes
<1>11. Grows /\ \A p \in writes : p[1] \in Addresses => Good(p[1])'
    BY <1>1, <1>6, <1>8, StoreGood
<1>12. \A i \in BlockShare(w, n) : Good(d + i)'
    BY <1>9, <1>10, <1>11
<1>13. LongGood(w)'
    <2>1. At(M)' = At(M)
        BY <1>1, LongKept
    <2>2. ShareGood(w, d, n)'
        BY <1>12 DEF ShareGood, BlockShare
    <2>3. d = At(M)'.dst_pos /\ n = Trailing(stream', At(M)')
        BY <1>1, <2>1
    <2> HIDE DEF M
    <2> QED BY <1>4, <2>2, <2>3 DEF LongGood
<1> HIDE DEF M
<1> QED BY <1>1, <1>2, <1>4, <1>11, <1>13, WarpOutput DEF BatchPCs

\* A warp that leaves the output alone: the checks, the broadcasts and the staging.
LEMMA QuietWarpOutput ==
    ASSUME OutputInv, RInv, IInv, NEW w \in Warps,
           \/ CheckHave(w) \/ LoadState(w) \/ LoadLong(w) \/ Reprime(w)
           \/ w = Parser /\ (StageLanes \/ StageHead \/ StageNothing \/ LongToken)
    PROVE  OutputInv'
<1> USE WarpFacts
<1>1. UNCHANGED <<stream, serial, dst, dep, committed>>
    BY DEF CheckHave, LoadState, LoadLong, Reprime, StageLanes, StageHead, StageNothing, LongToken, input, shared
<1>2. pc \in [Warps -> PCs] /\ DstTyped /\ row \in [Team -> Nat]
    BY DEF IInv, PcType, OutputInv
<1>3. Grows
    BY <1>1, <1>2, NoStore
<1>4. CASE CheckHave(w)
    <2>1. M' = M
        BY <1>4 DEF CheckHave, shared, M
    <2>2. PICK label \in {"fill", "lit", "drained", "stated"} :
              pc' = [pc EXCEPT ![w] = label] /\ (label = "lit" => row' = [row EXCEPT ![w] = 0] /\ w \in Team)
              /\ (label # "lit" => row' = row)
        <3>1. Have(w) \/ ~Have(w)
            OBVIOUS
        <3> QED BY <1>4, <3>1 DEF CheckHave, Goto
    <2>3. CASE label # "lit"
        <3>1. label \notin BatchPCs /\ label \notin CopiedPCs
            BY <2>2, <2>3 DEF BatchPCs, CopiedPCs
        <3> HIDE DEF M
        <3> QED BY <1>1, <1>2, <1>3, <2>1, <2>2, <2>3, <3>1, WarpOutput
    <2>4. CASE label = "lit"
        <3>1. w \in Team /\ pc'[w] = "lit" /\ row'[w] = 0 /\ row' \in [Team -> Nat]
              /\ (\A v \in Warps : v # w => pc'[v] = pc[v]) /\ (\A v \in Team : v # w => row'[v] = row[v])
            BY <1>2, <2>2, <2>4
        <3>2. BatchGood(w)'
            <4>1. \A k, y : ~Claimed(w, k, y)'
                BY <3>1 DEF Claimed, PassesBefore
            <4> QED BY <4>1 DEF BatchGood
        <3>3. \A v \in Team : (pc'[v] = pc[v] /\ row'[v] = row[v]) \/ pc'[v] \notin BatchPCs \/ BatchGood(v)'
            BY <3>1, <3>2
        <3>4. \A v \in Warps : (pc'[v] = pc[v] /\ M' = M) \/ pc'[v] \notin CopiedPCs \/ LongGood(v)'
            BY <2>1, <3>1 DEF CopiedPCs
        <3>5. pc'[1] = "dep" => pc[1] = "dep"
            BY <3>1
        <3> HIDE DEF M
        <3> QED BY <1>1, <1>3, <3>1, <3>3, <3>4, <3>5, QuietOutput
    <2> QED BY <2>3, <2>4
<1>5. CASE ~CheckHave(w)
    <2>1. row' = row
        BY <1>5 DEF LoadState, LoadLong, Reprime, StageLanes, StageHead, StageNothing, LongToken
    <2>2. PICK label : /\ pc' = [pc EXCEPT ![w] = label]
                       /\ label \notin BatchPCs \cup CopiedPCs \/ (w = Parser /\ label = "handoff")
        <3>1. CASE LoadState(w) \/ LoadLong(w) \/ Reprime(w)
            <4>1. CASE LoadState(w)
                <5>1. pc' = [pc EXCEPT ![w] = AfterLoad(w)] /\ AfterLoad(w) \in {"trail", "token", "longset"}
                    BY <4>1 DEF LoadState, AfterLoad, Goto
                <5>2. AfterLoad(w) \notin BatchPCs \cup CopiedPCs
                    BY <5>1 DEF BatchPCs, CopiedPCs
                <5> QED BY <5>1, <5>2
            <4>2. CASE LoadLong(w)
                <5>1. pc' = [pc EXCEPT ![w] = "rebroadcast"]
                    BY <4>2 DEF LoadLong, Goto
                <5>2. "rebroadcast" \notin BatchPCs \cup CopiedPCs
                    BY DEF BatchPCs, CopiedPCs
                <5> QED BY <5>1, <5>2
            <4>3. CASE Reprime(w)
                <5> PICK next : next = IF w = Parser THEN "prime" ELSE "primed"
                    OBVIOUS
                <5>1. pc' = [pc EXCEPT ![w] = next]
                    BY <4>3 DEF Reprime, Goto
                <5>2. next \notin BatchPCs \cup CopiedPCs
                    BY DEF BatchPCs, CopiedPCs
                <5> QED BY <5>1, <5>2
            <4> QED BY <3>1, <4>1, <4>2, <4>3
        <3>2. CASE w = Parser /\ (StageLanes \/ StageHead \/ StageNothing \/ LongToken)
            BY <3>2 DEF StageLanes, StageHead, StageNothing, LongToken, AfterFill, Goto, BatchPCs, CopiedPCs
        <3> QED BY <1>5, <3>1, <3>2
    <2>3. M' = M
        <3>1. CASE LoadLong(w)
            <4>1. DrainedState
                BY <3>1 DEF LoadLong, RInv, StateBroadcast, DrainPCs
            <4>2. \/ s_state' = [s_state EXCEPT !.length_offset = pos[Parser].length_offset]
                  \/ s_state' = s_state
                BY <3>1 DEF LoadLong
            <4>3. At(M) \in PosType
                BY <4>1, InputFacts DEF DrainedState, RInv
            <4> QED BY <4>1, <4>2, <4>3 DEF M, DrainedState, PosType
        <3>2. CASE ~LoadLong(w)
            BY <1>5, <3>2 DEF LoadState, Reprime, StageLanes, StageHead, StageNothing, LongToken, shared, M
        <3> QED BY <3>1, <3>2
    <2>4. pc'[w] = label /\ \A v \in Warps : v # w => pc'[v] = pc[v]
        BY <1>2, <2>2
    <2>5. \A v \in Team : (pc'[v] = pc[v] /\ row'[v] = row[v]) \/ pc'[v] \notin BatchPCs
        BY <2>1, <2>2, <2>4
    <2>6. \A v \in Warps : (pc'[v] = pc[v] /\ M' = M) \/ pc'[v] \notin CopiedPCs
        BY <2>2, <2>3, <2>4 DEF CopiedPCs
    <2>7. pc'[1] = "dep" => pc[1] = "dep"
        BY <2>2, <2>4 DEF BatchPCs
    <2>8. row' \in [Team -> Nat]
        BY <1>2, <2>1
    <2> HIDE DEF M
    <2> QED BY <1>1, <1>3, <2>5, <2>6, <2>7, <2>8, QuietOutput
<1> QED BY <1>4, <1>5

\* While the parser broadcasts its registers no warp is between a long copy and its barrier.
LEMMA DrainOutput == ASSUME OutputInv, IInv, DrainBroadcast PROVE OutputInv'
<1> USE WarpFacts
<1>1. UNCHANGED <<stream, serial, dst, row, dep, committed>> /\ pc[Parser] = "drained"
    BY DEF DrainBroadcast, input
<1>2. pc \in [Warps -> PCs] /\ DstTyped /\ row \in [Team -> Nat]
    BY DEF IInv, PcType, OutputInv
<1>3. pc'[Parser] = "stated" /\ \A v \in Warps : v # Parser => pc'[v] = pc[v]
    BY <1>2 DEF DrainBroadcast, Goto
<1>4. \A v \in Warps : pc[v] \notin CopiedPCs
    <2>1. Target(Parser) = "stated"
        BY <1>1 DEF Target, Executing, TeamPCs, TeamSites
    <2>2. \A v \in Warps : Target(v) = "stated"
        BY <2>1 DEF IInv, Lockstep
    <2> QED BY <2>2 DEF Target, CopiedPCs, Executing, TeamPCs, TeamSites
<1>5. Grows
    BY <1>1, <1>2, NoStore
<1>6. \A v \in Team : (pc'[v] = pc[v] /\ row'[v] = row[v]) \/ pc'[v] \notin BatchPCs
    BY <1>1, <1>3
<1>7. \A v \in Warps : pc'[v] \notin CopiedPCs
    BY <1>3, <1>4 DEF CopiedPCs
<1>8. pc'[1] = "dep" => pc[1] = "dep"
    BY <1>3
<1> HIDE DEF M
<1> QED BY <1>1, <1>2, <1>5, <1>6, <1>7, <1>8, QuietOutput

\* A step that changes nothing.
LEMMA StutterOutput == ASSUME OutputInv, UNCHANGED vars PROVE OutputInv'
<1>1. UNCHANGED <<stream, serial, dst, row, dep, committed, pc>> /\ M' = M
    BY DEF vars, M
<1>2. Grows /\ row' \in [Team -> Nat]
    BY <1>1, NoStore DEF OutputInv
<1> HIDE DEF M
<1> QED BY <1>1, <1>2, QuietOutput

\* What the warps have copied when they meet at a barrier is all that the barrier orders.
LEMMA OrderedGood ==
    ASSUME OutputInv, Progress, RInv, IInv, SyncThreads, NEW a \in 0 .. At(Committed).dst_pos - 1
    PROVE  Good(a)
<1> USE WarpFacts
<1>1. PICK site \in BlockSites : \A w \in Warps : pc[w] = site
    BY OneSite
<1>2. SerialInput /\ committed \in 0 .. Len(stream.cmd) /\ ProgressAt(site)
    BY <1>1 DEF Progress, RInv
<1>3. At(committed) \in PosType /\ At(committed).dst_pos \in Nat
    BY <1>2, InputFacts DEF PosType
<1>4. ASSUME a < At(committed).dst_pos PROVE Good(a)
    <2>1. a \in 0 .. At(committed).dst_pos - 1
        BY <1>3, <1>4
    <2> QED BY <2>1 DEF OutputInv, PrefixGood
<1>5. CASE site = "handoff"
    <2>1. Committed = Executed /\ Staged(cur[Parser], committed)
        BY <1>1, <1>2, <1>5 DEF Committed, Executed, ProgressAt
    <2>2. Executed = committed + BatchSize(stream, At(committed))
        BY <1>2, <2>1, ExecutedFacts
    <2> PICK d, e : d = At(committed).dst_pos /\ e = At(Committed).dst_pos
        OBVIOUS
    <2>3. CASE ~(a < d)
        <3>1. a \in d .. e - 1
            BY <1>3, <2>3
        <3>2. a \in At(committed).dst_pos .. At(committed + BatchSize(stream, At(committed))).dst_pos - 1
            BY <2>1, <2>2, <3>1
        <3>3. PICK k, y : InWindow(committed, k, y) /\ a = Place(committed, k, y)
            BY <1>2, <3>2, WindowCovered
        <3>4. BatchGood(1) /\ pc[1] = "handoff"
            BY <1>1, <1>5 DEF OutputInv
        <3> QED BY <3>3, <3>4 DEF BatchGood, Claimed
    <2> QED BY <1>4, <2>3
<1>6. CASE site \in {"literals", "matched"}
    <2>1. pc[Parser] \in LongPCs /\ committed = M
        BY <1>1, <1>2, <1>6 DEF LongPCs, HoldsLong, ProgressAt
    <2>2. Committed = M + 1
        <3>1. Committed = pos[Parser].cmd_pos
            BY <1>1, <1>6 DEF Committed
        <3>2. pos[Parser] = Counted \/ pos[Parser] = LitCopied
            BY <1>1, <1>6 DEF RInv, Registers
        <3>3. Counted.cmd_pos = M + 1 /\ LitCopied.cmd_pos = M + 1
            BY <2>1, LongTyped
        <3> QED BY <3>1, <3>2, <3>3
    <2> PICK d, lit, match : d = At(M).dst_pos /\ lit = LongParsed.lit /\ match = LongParsed.match
        OBVIOUS
    <2>3. /\ d \in Nat /\ lit \in Nat /\ match \in Nat /\ At(M + 1).dst_pos = d + lit + match
          /\ (lit > 0 /\ match = 0) \/ (lit = 0 /\ match > 0)
        BY <2>1, LongFinal
    <2>4. a \in 0 .. d + lit + match - 1
        BY <2>2, <2>3
    <2>5. CASE a < d
        <3>1. a < At(committed).dst_pos
            BY <2>1, <2>5
        <3> QED BY <1>4, <3>1
    <2>6. CASE ~(a < d) /\ site = "literals"
        <3>1. lit > 0
            BY <1>2, <2>6 DEF ProgressAt
        <3>2. PICK i \in 0 .. lit - 1 : a = d + i
            <4>1. a - d \in 0 .. lit - 1 /\ a = d + (a - d)
                BY <2>3, <2>4, <2>6, <3>1
            <4> QED BY <4>1
        <3>3. PICK w \in Warps : i \in BlockShare(w, lit)
            BY <2>3, ShareCovers
        <3>4. ShareGood(w, d, lit)
            BY <1>1, <2>6 DEF OutputInv, LongGood
        <3> QED BY <3>2, <3>3, <3>4 DEF ShareGood
    <2>7. CASE ~(a < d) /\ site = "matched"
        <3>1. match > 0
            BY <1>2, <2>7 DEF ProgressAt
        <3>2. lit = 0
            BY <2>3, <3>1
        <3>3. PICK y \in 0 .. match - 1 : a = d + lit + y
            <4>1. a - d \in 0 .. match - 1 /\ a = d + lit + (a - d)
                BY <2>3, <2>4, <2>7, <3>2
            <4> QED BY <4>1
        <3>4. \A z \in 0 .. match - 1 : Good(d + lit + z)
            BY <1>1, <2>7 DEF OutputInv, LongGood
        <3> QED BY <3>3, <3>4
    <2> QED BY <1>6, <2>5, <2>6, <2>7
<1>7. CASE site \notin {"handoff", "literals", "matched"}
    <2>1. Committed = committed
        BY <1>1, <1>7 DEF Committed
    <2>2. a < At(committed).dst_pos
        BY <1>3, <2>1
    <2> QED BY <1>4, <2>2
<1> QED BY <1>5, <1>6, <1>7

\* A block barrier orders no byte that is not the serial one.
LEMMA SyncOutput == ASSUME OutputInv, Progress, RInv, IInv, SyncThreads PROVE OutputInv'
<1> USE WarpFacts
<1>1. PICK site \in BlockSites : \A w \in Warps : pc[w] = site
    BY OneSite
<1>2. UNCHANGED <<stream, serial, dst, row, dep, s_state>> /\ committed' = Committed
    BY DEF SyncThreads, shared, input
<1>3. \A w \in Warps : pc'[w] \in {"check", "load", "loadlong", "longlit", "longmatch", "reprime"}
    BY <1>1 DEF SyncThreads, Resume, BlockSites
<1>4. Grows /\ row' \in [Team -> Nat]
    BY <1>2, NoStore DEF OutputInv
<1>5. \A w \in Team : BatchGood(w)'
    <2>1. \A w \in Team : pc'[w] \notin BatchPCs
        BY <1>3 DEF BatchPCs
    <2> QED BY <2>1, BatchNone
<1>6. DepLanes' /\ \A w \in Warps : LongGood(w)'
    BY <1>3 DEF DepLanes, LongGood
<1>7. PrefixGood'
    <2> PICK m : m = Committed
        OBVIOUS
    <2>1. \A a \in 0 .. At(m).dst_pos - 1 : Good(a)
        BY OrderedGood
    <2>2. \A a \in 0 .. At(m).dst_pos - 1 : Good(a)'
        BY <1>4, <2>1 DEF Grows
    <2>3. At(m) = At(committed)'
        BY <1>2 DEF At
    <2> QED BY <2>2, <2>3 DEF PrefixGood
<1> QED BY <1>4, <1>5, <1>6, <1>7 DEF OutputInv, Grows

\* Every step keeps the output.
LEMMA StepOutput == OutputInv /\ Progress /\ SlotInv /\ RInv /\ IInv /\ [Next]_vars => OutputInv'
<1> SUFFICES ASSUME OutputInv, Progress, RInv, IInv, [Next]_vars PROVE OutputInv'
    OBVIOUS
<1> USE WarpFacts
<1>1. CASE \E w \in Warps : AnyWarpStep(w)
    BY <1>1, QuietWarpOutput, LongLiteralsOutput, LongMatchOutput, TrailingOutput DEF AnyWarpStep
<1>2. CASE \E w \in Team : TeamStep(w)
    BY <1>2, FlatOutput
<1>3. CASE ParserStep
    BY <1>3, QuietWarpOutput, DrainOutput DEF ParserStep
<1>4. CASE UNCHANGED vars
    BY <1>4, StutterOutput
<1> QED BY <1>1, <1>2, <1>3, <1>4, SyncOutput, TeamBarOutput, DependentOutput DEF Next, Terminated

\* The output is the serial one, for any number of copier warps, any warp size and any
\* streams: the bytes of the ordered tokens, and of the rest all that has been copied.
THEOREM OutputSerial == Spec => []OutputInv
<1>1. IInv /\ RInv /\ SlotInv /\ Progress /\ OutputInv /\ [Next]_vars => OutputInv'
    BY StepOutput
<1> QED BY <1>1, InitOutput, Invariance, RegistersSerial, SlotsStaged, TokensOrdered, PTL DEF Spec

-----------------------------------------------------------------------------
(* The refinement *)

\* The recursion of Reference has one solution.
LEMMA OneReference ==
    ASSUME NEW st, NEW n \in Nat, NEW r, ReferenceEquation(r, st, n), NEW s, ReferenceEquation(s, st, n)
    PROVE  r = s
<1> DEFINE Same == {k \in Nat : k <= n => r[k] = s[k]}
<1>1. \A k \in 0 .. n : /\ r[k] = IF k = 0 THEN FirstState ELSE Step(st, r[k - 1])
                        /\ s[k] = IF k = 0 THEN FirstState ELSE Step(st, s[k - 1])
    BY DEF ReferenceEquation
<1>2. 0 \in Same
    <2>1. 0 \in 0 .. n
        OBVIOUS
    <2> QED BY <1>1, <2>1
<1>3. ASSUME NEW k \in Nat, k \in Same PROVE k + 1 \in Same
    <2> SUFFICES ASSUME k + 1 <= n PROVE r[k + 1] = s[k + 1]
        OBVIOUS
    <2>1. k + 1 \in 0 .. n /\ (k + 1) - 1 = k /\ k + 1 # 0 /\ r[k] = s[k]
        BY <1>3
    <2> QED BY <1>1, <2>1
<1> HIDE DEF Same
<1>4. \A k \in Nat : k \in Same
    BY <1>2, <1>3, SetInduction
<1>5. \A k \in 0 .. n : r[k] = s[k]
    BY <1>4 DEF Same
<1>6. r = [k \in 0 .. n |-> r[k]] /\ s = [k \in 0 .. n |-> s[k]]
    BY SMTT(40) DEF ReferenceEquation
<1> QED BY <1>5, <1>6

\* The specification of a sub-chunk decode names the same serial decode.
LEMMA SameStep == ASSUME NEW st, NEW at PROVE Serial!Step(st, at) = Step(st, at)
BY DEF Serial!Step, Step, Serial!Parsed, Parsed, Serial!AppendMatch, AppendMatch,
       Serial!AppendLiterals, AppendLiterals, Serial!ReadBack, ReadBack, Serial!InitialPos, InitialPos,
       Serial!InitByte, InitByte, Serial!LitByte, LitByte, Serial!DictByte, DictByte, Serial!ZeroByte, ZeroByte,
       Serial!Unwritten, Unwritten, Serial!IsLong, IsLong, Serial!TakesOffset, TakesOffset,
       Serial!LONG_LITERAL, LONG_LITERAL, Serial!LONG_NEAR, LONG_NEAR

\* And so the same registers and output after every token.
LEMMA SameReference == ASSUME NEW st, Len(st.cmd) \in Nat PROVE Serial!Reference(st) = Reference(st)
<1> DEFINE n == Len(st.cmd)
           Solves(ref) == ref = [k \in 0 .. n |-> IF k = 0 THEN FirstState ELSE Serial!Step(st, ref[k - 1])]
<1>1. \A ref : Solves(ref) <=> ReferenceEquation(ref, st, n)
    BY SameStep DEF ReferenceEquation
<1>2. Serial!Reference(st) = CHOOSE ref : Solves(ref)
    BY DEF Serial!Reference, FirstState, Serial!InitialPos, InitialPos, Serial!InitByte, InitByte
<1>3. \E ref : ReferenceEquation(ref, st, n)
    BY ReferenceExists
<1>4. ReferenceEquation(Serial!Reference(st), st, n)
    <2> HIDE DEF Solves
    <2> QED BY <1>1, <1>2, <1>3
<1>5. ReferenceEquation(Reference(st), st, n)
    <2>1. Reference(st) = CHOOSE ref : ReferenceEquation(ref, st, n)
        BY DEF Reference, ReferenceEquation, FirstState
    <2> QED BY <1>3, <2>1
<1> QED BY <1>4, <1>5, OneReference

\* And the same whole output.
LEMMA SameDecoded == ASSUME NEW st, NEW ref PROVE Serial!Decoded(st, ref) = Decoded(st, ref)
BY DEF Serial!Decoded, Decoded, Serial!AppendLiterals, AppendLiterals, Serial!LitByte, LitByte,
       Serial!Trailing, Trailing

\* What the refinement mapping shows: the output of the ordered tokens, in the end all of it.
WrittenRight ==
    /\ AllDone => committed = Len(stream.cmd) /\ Written = Decoded(stream, serial)
    /\ ~AllDone => Written = serial[committed].out

\* The whole output is a sequence.
LEMMA DecodedSeq ==
    ASSUME NEW st \in Streams
    PROVE  LET fin == Decoded(st, Reference(st)) IN fin = [i \in 1 .. Len(fin) |-> fin[i]]
<1> DEFINE n == Len(st.cmd)
           last == Reference(st)[n]
           fin == Decoded(st, Reference(st))
<1>1. n \in Nat /\ n \in 0 .. n
    BY StreamsAssumption DEF WellFormed
<1>2. last.out \in Seq(Bytes)
    <2>1. \A k \in 0 .. n : Reference(st)[k].out \in Seq(Bytes)
        BY Outputs
    <2> HIDE DEF n
    <2> QED BY <1>1, <2>1
<1>3. last.pos.lit_pos \in Nat /\ Trailing(st, last.pos) \in Nat
    BY FinalOutput
<1>4. fin = AppendLiterals(last.out, last.pos.lit_pos, Trailing(st, last.pos))
    BY DEF Decoded
<1> HIDE DEF fin, last
<1>5. fin \in Seq(Bytes)
    BY <1>2, <1>3, <1>4, LiteralsAppended
<1>6. fin = [i \in 1 .. Len(fin) |-> fin[i]]
    BY <1>5
<1> QED BY <1>6 DEF fin

\* The invariants say what the mapping shows.
LEMMA WrittenSerial == RInv /\ Progress /\ OutputInv => WrittenRight
<1> SUFFICES ASSUME RInv, Progress, OutputInv PROVE WrittenRight
    OBVIOUS
<1> USE WarpFacts
<1> DEFINE r == Reference(stream)
           m == committed
           out == r[m].out
           fin == Decoded(stream, r)
           N == Len(stream.cmd)
<1>1. SerialInput /\ stream \in Streams /\ serial = r /\ m \in 0 .. N
    BY DEF RInv, SerialInput, Progress
<1>2. /\ out \in Seq(Bytes) /\ Len(out) = r[m].pos.dst_pos /\ r[m].pos.dst_pos \in Nat
      /\ \A i \in 1 .. r[m].pos.dst_pos : fin[i] = out[i]
    BY <1>1, Outputs, FinalOutput
<1>3. \A a : Final(a) = fin[a + 1]
    BY <1>1 DEF Final
<1>4. At(m) = r[m].pos
    BY <1>1 DEF At
<1>5. ASSUME ~AllDone PROVE Written = serial[committed].out
    <2> PICK end, o : end = r[m].pos.dst_pos /\ o = out
        OBVIOUS
    <2>1. Written = [i \in 1 .. end |-> dst[i - 1]]
        BY <1>1, <1>5 DEF Written
    <2>2. o \in Seq(Bytes) /\ Len(o) = end /\ end \in Nat
        BY <1>2
    <2>3. o = [i \in 1 .. end |-> o[i]]
        BY <2>2
    <2>4. ASSUME NEW i \in 1 .. end PROVE dst[i - 1] = o[i]
        <3>1. i - 1 \in 0 .. end - 1 /\ (i - 1) + 1 = i
            BY <2>2
        <3>2. Good(i - 1)
            BY <1>4, <3>1 DEF OutputInv, PrefixGood
        <3>3. dst[i - 1] = fin[(i - 1) + 1]
            BY <1>3, <3>2 DEF Good
        <3> HIDE DEF fin, out
        <3> QED BY <1>2, <3>1, <3>3
    <2>5. serial[committed].out = o
        BY <1>1
    <2> HIDE DEF r, fin, out, m
    <2> QED BY <2>1, <2>3, <2>4, <2>5
<1>6. ASSUME AllDone PROVE committed = Len(stream.cmd) /\ Written = Decoded(stream, serial)
    <2>1. \A w \in Warps : pc[w] = "done"
        BY <1>6 DEF AllDone
    <2>2. committed = M /\ M = N /\ pos[Parser] = At(M)
        BY <2>1 DEF Progress, ProgressAt, RInv, StateBroadcast, Registers
    <2> PICK d, t, end : d = At(M).dst_pos /\ t = Trailing(stream, At(M)) /\ end = Len(fin)
        OBVIOUS
    <2>3. d \in Nat /\ t \in Nat /\ end = d + t
        <3>1. At(M) = r[N].pos
            BY <1>1, <2>2 DEF At
        <3>2. LET last == r[N].pos
              IN Trailing(stream, last) \in Nat /\ last.dst_pos \in Nat /\ Len(fin) = last.dst_pos + Trailing(stream, last)
            BY <1>1, FinalOutput
        <3> HIDE DEF r, fin, N, M
        <3> QED BY <3>1, <3>2
    <2>4. Written = [i \in 1 .. end |-> dst[i - 1]]
        BY <1>6, <2>2, <2>3 DEF Written
    <2>5. ASSUME NEW a \in 0 .. end - 1 PROVE Good(a)
        <3>1. CASE a < d
            <4>1. a \in 0 .. d - 1 /\ d = At(committed).dst_pos
                BY <2>2, <2>3, <3>1
            <4> QED BY <4>1 DEF OutputInv, PrefixGood
        <3>2. CASE ~(a < d)
            <4>1. PICK i \in 0 .. t - 1 : a = d + i
                <5>1. a - d \in 0 .. t - 1 /\ a = d + (a - d)
                    BY <2>3, <3>2
                <5> QED BY <5>1
            <4>2. PICK w \in Warps : i \in BlockShare(w, t)
                BY <2>3, ShareCovers
            <4>3. ShareGood(w, d, t)
                BY <2>1 DEF OutputInv, LongGood
            <4> QED BY <4>1, <4>2, <4>3 DEF ShareGood
        <3> QED BY <3>1, <3>2
    <2>6. ASSUME NEW i \in 1 .. end PROVE dst[i - 1] = fin[i]
        <3>1. i - 1 \in 0 .. end - 1 /\ (i - 1) + 1 = i
            BY <2>3
        <3>2. Good(i - 1)
            BY <2>5, <3>1
        <3> HIDE DEF fin
        <3> QED BY <1>3, <3>1, <3>2 DEF Good
    <2>7. fin = [i \in 1 .. end |-> fin[i]]
        BY <1>1, DecodedSeq
    <2>8. Written = fin
        <3> HIDE DEF fin
        <3> QED BY <2>4, <2>6, <2>7
    <2> QED BY <1>1, <2>2, <2>8
<1> QED BY <1>5, <1>6 DEF WrittenRight

\* And so in the state after a step.
LEMMA WrittenNext == (RInv /\ Progress /\ OutputInv)' => WrittenRight'
BY WrittenSerial, PTL

\* A block starts where the specification does.
LEMMA InitRefines == Init => Serial!Init
<1> SUFFICES ASSUME Init PROVE Serial!Init
    OBVIOUS
<1> USE WarpFacts
<1>1. stream \in Streams /\ serial = Reference(stream) /\ committed = 0 /\ SerialInput /\ pc[Parser] = "prime"
    BY DEF Init, SerialInput
<1>2. Len(stream.cmd) \in Nat
    BY <1>1, InputFacts
<1>3. serial = Serial!Reference(stream)
    BY <1>1, <1>2, SameReference
<1>4. AllDone = FALSE
    BY <1>1 DEF AllDone
<1>5. Written = serial[0].out
    <2>1. RInv /\ OutputInv /\ Progress
        BY InitRegisters, InitOutput, InitProgress
    <2>2. WrittenRight
        BY <2>1, WrittenSerial
    <2> QED BY <1>1, <1>4, <2>2 DEF WrittenRight
<1> QED BY <1>1, <1>3, <1>4, <1>5 DEF Serial!Init

\* A barrier never takes back a token.
LEMMA OrderedGrows ==
    ASSUME Progress, RInv, IInv, SyncThreads
    PROVE  committed <= committed'
<1> USE WarpFacts
<1>1. PICK site \in BlockSites : \A w \in Warps : pc[w] = site
    BY OneSite
<1>2. committed' = Committed /\ committed \in 0 .. Len(stream.cmd) /\ ProgressAt(site)
    BY <1>1 DEF SyncThreads, Progress
<1>3. CASE site = "handoff"
    <2>1. Committed = Executed /\ Staged(cur[Parser], committed)
        BY <1>1, <1>2, <1>3 DEF Committed, Executed, ProgressAt
    <2>2. committed <= Executed
        BY <1>2, <2>1, ExecutedFacts DEF RInv
    <2> QED BY <1>2, <2>1, <2>2
<1>4. CASE site \in {"literals", "matched"}
    <2>1. pc[Parser] \in LongPCs /\ committed = M
        BY <1>1, <1>2, <1>4 DEF LongPCs, HoldsLong, ProgressAt
    <2>2. Committed = M + 1
        <3>1. Committed = pos[Parser].cmd_pos
            BY <1>1, <1>4 DEF Committed
        <3>2. pos[Parser] = Counted \/ pos[Parser] = LitCopied
            BY <1>1, <1>4 DEF RInv, Registers
        <3>3. Counted.cmd_pos = M + 1 /\ LitCopied.cmd_pos = M + 1
            BY <2>1, LongTyped
        <3> QED BY <3>1, <3>2, <3>3
    <2> QED BY <1>2, <2>1, <2>2
<1>5. CASE site \notin {"handoff", "literals", "matched"}
    BY <1>1, <1>2, <1>5 DEF Committed
<1> QED BY <1>3, <1>4, <1>5

\* Only a block barrier counts tokens, and no warp is done right after one.
LEMMA StepCounts ==
    ASSUME IInv, [Next]_vars
    PROVE  /\ UNCHANGED <<stream, serial>>
           /\ AllDone => UNCHANGED vars
           /\ UNCHANGED committed \/ (SyncThreads /\ ~AllDone')
<1> USE WarpFacts
<1>1. UNCHANGED <<stream, serial>>
    BY DEF Next, AnyWarpStep, CheckHave, LoadState, LoadLong, LongLiterals, LongMatch, Reprime, TrailingLiterals,
           TeamStep, FlatLiterals, FlatIndependent, FlatDict, FlatPass, SyncThreads, PipeTeamBar, DependentMatch,
           ParserStep, StageLanes, StageHead, StageNothing, DrainBroadcast, LongToken, Terminated, vars, input
<1>2. ASSUME AllDone PROVE UNCHANGED vars
    <2>1. \A w \in Warps : pc[w] = "done"
        BY <1>2 DEF AllDone
    <2>2. ~\E w \in Warps : AnyWarpStep(w)
        BY <2>1 DEF AnyWarpStep, CheckHave, LoadState, LoadLong, LongLiterals, LongMatch, Reprime, TrailingLiterals
    <2>3. ~(\E w \in Team : TeamStep(w)) /\ ~DependentMatch /\ ~PipeTeamBar
        BY <2>1 DEF TeamStep, FlatLiterals, FlatIndependent, FlatDict, FlatPass, DependentMatch, PipeTeamBar, TeamSites
    <2>4. ~SyncThreads /\ ~ParserStep
        BY SMTT(40), <2>1 DEF SyncThreads, BlockSites, ParserStep, StageLanes, StageHead, StageNothing, DrainBroadcast, LongToken
    <2> QED BY <2>2, <2>3, <2>4 DEF Next, Terminated
<1>3. ~SyncThreads => UNCHANGED committed
    BY DEF Next, AnyWarpStep, CheckHave, LoadState, LoadLong, LongLiterals, LongMatch, Reprime, TrailingLiterals,
           TeamStep, FlatLiterals, FlatIndependent, FlatDict, FlatPass, PipeTeamBar, DependentMatch,
           ParserStep, StageLanes, StageHead, StageNothing, DrainBroadcast, LongToken, Terminated, vars
<1>4. ASSUME SyncThreads PROVE ~AllDone'
    <2>1. PICK site \in BlockSites : \A w \in Warps : pc[w] = site
        BY <1>4, OneSite
    <2>2. pc'[Parser] # "done"
        BY <1>4, <2>1 DEF SyncThreads, Resume, BlockSites
    <2> QED BY <2>2 DEF AllDone
<1> QED BY SMTT(40), <1>1, <1>2, <1>3, <1>4

\* Every step is one of the specification, or leaves its output alone.
LEMMA StepRefines ==
    ASSUME IInv, RInv, Progress, OutputInv, Progress', WrittenRight, WrittenRight', [Next]_vars
    PROVE  [Serial!Next]_(Serial!vars)
<1>1. UNCHANGED <<stream, serial>> /\ (AllDone => UNCHANGED vars) /\ (UNCHANGED committed \/ (SyncThreads /\ ~AllDone'))
    BY StepCounts
<1>2. CASE AllDone
    <2>1. UNCHANGED vars
        BY <1>1, <1>2
    <2>2. Written' = Written /\ AllDone' = AllDone
        BY <2>1 DEF vars, Written, AllDone
    <2> QED BY <1>1, <2>1, <2>2 DEF vars, Serial!vars
<1>3. CASE ~AllDone /\ ~AllDone'
    <2>1. Written = serial[committed].out /\ Written' = serial'[committed'].out /\ AllDone' = AllDone
        BY <1>3 DEF WrittenRight, AllDone
    <2>2. CASE committed' = committed
        <3>1. Written' = Written
            BY <1>1, <2>1, <2>2
        <3> QED BY <1>1, <2>1, <2>2, <3>1 DEF Serial!vars
    <2>3. CASE committed' # committed
        <3>1. committed <= committed'
            BY <1>1, <2>3, OrderedGrows
        <3>2. committed' \in committed + 1 .. Len(stream.cmd)
            BY <1>1, <2>3, <3>1 DEF Progress
        <3> QED BY <1>1, <2>1, <3>2 DEF Serial!Next, Serial!DecodeTokens
    <2> QED BY <2>2, <2>3
<1>4. CASE ~AllDone /\ AllDone'
    <2>1. committed' = committed /\ committed' = Len(stream'.cmd) /\ Written' = Decoded(stream', serial')
        BY <1>1, <1>4 DEF WrittenRight
    <2>2. Written' = Serial!Decoded(stream, serial)
        BY <1>1, <2>1, SameDecoded
    <2> QED BY <1>1, <1>4, <2>1, <2>2 DEF Serial!Next, Serial!Finish
<1> QED BY <1>2, <1>3, <1>4

\* The pipelined kernel implements the serial decode, for any number of copier warps, any
\* warp size and any streams.
THEOREM ImplementsSerial == Spec => RefinesSerial
<1>1. /\ IInv /\ RInv /\ Progress /\ OutputInv /\ [Next]_vars
      /\ (RInv /\ Progress /\ OutputInv)'
      => [Serial!Next]_(Serial!vars)
    BY StepRefines, WrittenSerial, WrittenNext
<1> QED BY <1>1, InitRefines, Invariance, RegistersSerial, TokensOrdered, OutputSerial, PTL
        DEF Spec, RefinesSerial, Serial!Spec
=============================================================================

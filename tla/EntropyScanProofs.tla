------------------------- MODULE EntropyScanProofs -------------------------
(***************************************************************************)
(* For any calls on one context: every sub-chunk finds its own streams in  *)
(* the scratch whatever order the blocks take, no byte of the scratch has  *)
(* two writers, and the output of a call is complete, each part once.      *)
(*                                                                         *)
(* Host, prefix sum, scan, compaction and LZ kernel count sub-chunks each  *)
(* for themselves.  Idx is the number they all come to: it is injective,   *)
(* below the room the host has made, and 0 only for the first sub-chunk    *)
(* (the one behind the eight initial bytes).  The invariants follow a      *)
(* descriptor from the scan to the scratch:                                *)
(*                                                                         *)
(*   ScanInv     what is staged is the descriptor of a sub-chunk, in its   *)
(*               place, and nothing is left from the call before;          *)
(*   CompactInv  a compacted list holds each valid one of its streams once;*)
(*   MergeInv    the merged list holds the four lists behind one another,  *)
(*               each entry with a table of its own (LutInv);              *)
(*   WroteInv    the scratch holds the data of each descriptor whose block *)
(*               is through, in the slot it names;                         *)
(*   GroupInv    the output is what the groups have passed.                *)
(***************************************************************************)
EXTENDS EntropyScan, FiniteSetTheorems, TLAPS

-----------------------------------------------------------------------------
(* Induction over the naturals, as facts about sets: to show P(n) of every *)
(* n, apply SetInduction to {n \in Nat : P(n)}.                            *)

\* A non-empty set of naturals has a smallest element: the intervals 0 .. x are
\* finite, and strict inclusion of finite sets is well founded.
LEMMA Smallest ==
    ASSUME NEW T, T \subseteq Nat, T # {}
    PROVE  \E x \in T : \A y \in T : x <= y
<1> DEFINE Below == {0 .. x : x \in T}
<1>1. Below \subseteq FiniteSubsetsOf(Nat)
    <2>1. \A x \in T : 0 .. x \in SUBSET Nat /\ IsFiniteSet(0 .. x)
        BY FS_Interval
    <2> QED BY <2>1 DEF FiniteSubsetsOf
<1>2. IsWellFoundedOn(StrictSubsetOrdering(Nat), FiniteSubsetsOf(Nat))
    BY FS_StrictSubsetOrderingWellFounded
<1>3. PICK S \in Below : \A R \in Below : ~(<<R, S>> \in StrictSubsetOrdering(Nat))
    <2>1. Below # {}
        OBVIOUS
    <2> HIDE DEF Below
    <2> QED BY <1>1, <1>2, <2>1, WFMin
<1>4. PICK x \in T : S = 0 .. x
    OBVIOUS
<1>5. ASSUME NEW y \in T, y < x PROVE FALSE
    <2>1. 0 .. y \in SUBSET Nat /\ 0 .. x \in SUBSET Nat
        OBVIOUS
    <2>2. 0 .. y \subseteq 0 .. x /\ 0 .. y # 0 .. x
        BY <1>5
    <2>3. <<0 .. y, 0 .. x>> \in StrictSubsetOrdering(Nat)
        BY <2>1, <2>2 DEF StrictSubsetOrdering
    <2> QED BY <1>3, <1>4, <1>5, <2>3
<1> QED BY <1>4, <1>5

\* A set with 0 and the successors of its elements holds every natural.
LEMMA SetInduction ==
    ASSUME NEW S, 0 \in S, \A n \in Nat : n \in S => n + 1 \in S
    PROVE  \A n \in Nat : n \in S
<1> SUFFICES ASSUME NEW m \in Nat, m \notin S PROVE FALSE
    OBVIOUS
<1> DEFINE T == Nat \ S
<1>1. PICK x \in T : \A y \in T : x <= y
    BY Smallest
<1>2. x # 0 /\ x - 1 \in Nat /\ x - 1 \notin T
    BY <1>1
<1> QED BY <1>1, <1>2

-----------------------------------------------------------------------------
(* Sums and lists *)

SumsEquation(s, f, n) == s = [k \in 0 .. n |-> IF k = 0 THEN 0 ELSE s[k - 1] + f[k]]

\* The recursion of Sums has a solution.
LEMMA SumsExist ==
    ASSUME NEW n \in Nat, NEW f
    PROVE  \E s : SumsEquation(s, f, n)
<1> DEFINE Solved == {m \in Nat : \E s : SumsEquation(s, f, m)}
<1>1. 0 \in Solved
    <2>1. SumsEquation([k \in 0 .. 0 |-> 0], f, 0)
        BY DEF SumsEquation
    <2> QED BY <2>1
<1>2. ASSUME NEW m \in Nat, m \in Solved PROVE m + 1 \in Solved
    <2> PICK s : SumsEquation(s, f, m)
        BY <1>2
    <2> DEFINE t == [k \in 0 .. m + 1 |-> IF k = m + 1 THEN s[m] + f[k] ELSE s[k]]
    <2>1. \A k \in 0 .. m : s[k] = IF k = 0 THEN 0 ELSE s[k - 1] + f[k]
        BY DEF SumsEquation
    <2>2. ASSUME NEW k \in 0 .. m + 1 PROVE t[k] = IF k = 0 THEN 0 ELSE t[k - 1] + f[k]
        <3>1. CASE k = m + 1
            <4>1. t[k] = s[m] + f[k] /\ t[k - 1] = s[m] /\ k # 0
                BY <3>1
            <4> QED BY <4>1
        <3>2. CASE k = 0
            BY <2>1, <3>2
        <3>3. CASE k \in 1 .. m
            <4>1. k - 1 \in 0 .. m /\ k \in 0 .. m /\ k # 0 /\ t[k] = s[k] /\ t[k - 1] = s[k - 1]
                BY <3>3
            <4> HIDE DEF t
            <4> QED BY <2>1, <4>1
        <3> QED BY <3>1, <3>2, <3>3
    <2>3. SumsEquation(t, f, m + 1)
        BY <2>2 DEF SumsEquation
    <2> QED BY <2>3
<1> HIDE DEF Solved
<1>3. n \in Solved
    BY <1>1, <1>2, SetInduction
<1> QED BY <1>3 DEF Solved

\* Each sum is the one before it and one term more.
LEMMA SumsUnfold ==
    ASSUME NEW n \in Nat, NEW f
    PROVE  /\ Sums(f, n)[0] = 0
           /\ \A k \in 1 .. n : Sums(f, n)[k] = Sums(f, n)[k - 1] + f[k]
<1>1. SumsEquation(Sums(f, n), f, n)
    BY SumsExist DEF Sums, SumsEquation
<1> DEFINE s == Sums(f, n)
<1> HIDE DEF s
<1>2. s = [k \in 0 .. n |-> IF k = 0 THEN 0 ELSE s[k - 1] + f[k]]
    BY <1>1 DEF SumsEquation, s
<1> QED BY <1>2 DEF s

\* Sums of naturals are naturals and grow, by at least the term between.
LEMMA SumsGrow ==
    ASSUME NEW n \in Nat, NEW f, \A k \in 1 .. n : f[k] \in Nat
    PROVE  /\ \A k \in 0 .. n : Sums(f, n)[k] \in Nat
           /\ \A j \in 1 .. n, k \in 0 .. n : j <= k => Sums(f, n)[j - 1] + f[j] <= Sums(f, n)[k]
<1> DEFINE s == Sums(f, n)
           Grown == {k \in Nat : k <= n =>
                        /\ s[k] \in Nat
                        /\ \A j \in 1 .. n : j <= k => s[j - 1] \in Nat /\ s[j - 1] + f[j] <= s[k]}
<1>1. s[0] = 0 /\ \A k \in 1 .. n : s[k] = s[k - 1] + f[k]
    BY SumsUnfold
<1> HIDE DEF s
<1>2. 0 \in Grown
    BY <1>1
<1>3. ASSUME NEW k \in Nat, k \in Grown PROVE k + 1 \in Grown
    <2> SUFFICES ASSUME k + 1 <= n
                 PROVE  /\ s[k + 1] \in Nat
                        /\ \A j \in 1 .. n : j <= k + 1 => s[j - 1] \in Nat /\ s[j - 1] + f[j] <= s[k + 1]
        OBVIOUS
    <2>1. k + 1 \in 1 .. n /\ (k + 1) - 1 = k /\ s[k] \in Nat /\ f[k + 1] \in Nat /\ s[k + 1] = s[k] + f[k + 1]
        BY <1>1, <1>3
    <2>2. ASSUME NEW j \in 1 .. n, j <= k + 1 PROVE s[j - 1] \in Nat /\ s[j - 1] + f[j] <= s[k + 1]
        <3>1. CASE j = k + 1
            BY <2>1, <3>1
        <3>2. CASE j <= k
            <4>1. s[j - 1] \in Nat /\ s[j - 1] + f[j] <= s[k] /\ f[j] \in Nat
                BY <1>3, <2>1, <3>2
            <4> QED BY <2>1, <4>1
        <3> QED BY <2>2, <3>1, <3>2
    <2> QED BY <2>1, <2>2
<1> HIDE DEF Grown
<1>4. \A k \in Nat : k \in Grown
    BY <1>2, <1>3, SetInduction
<1> QED BY <1>4 DEF Grown, s

\* A sum of n terms up to b is at most n times b.
LEMMA SumsBounded ==
    ASSUME NEW n \in Nat, NEW f, NEW b \in Nat, \A k \in 1 .. n : f[k] \in Nat /\ f[k] <= b
    PROVE  Sums(f, n)[n] <= n * b
<1> DEFINE s == Sums(f, n)
           Low == {k \in Nat : k <= n => s[k] \in Nat /\ s[k] <= k * b}
<1>1. s[0] = 0 /\ \A k \in 1 .. n : s[k] = s[k - 1] + f[k]
    BY SumsUnfold
<1> HIDE DEF s
<1>2. 0 \in Low
    BY <1>1
<1>3. ASSUME NEW k \in Nat, k \in Low PROVE k + 1 \in Low
    <2> SUFFICES ASSUME k + 1 <= n PROVE s[k + 1] \in Nat /\ s[k + 1] <= (k + 1) * b
        OBVIOUS
    <2>1. k + 1 \in 1 .. n /\ (k + 1) - 1 = k /\ s[k] \in Nat /\ s[k] <= k * b
        BY <1>3
    <2>2. s[k + 1] = s[k] + f[k + 1] /\ f[k + 1] \in Nat /\ f[k + 1] <= b
        BY <1>1, <2>1
    <2>3. (k + 1) * b = k * b + b /\ k * b \in Nat
        OBVIOUS
    <2> QED BY <2>1, <2>2, <2>3
<1> HIDE DEF Low
<1>4. n \in Low
    BY <1>2, <1>3, SetInduction
<1> QED BY <1>4 DEF Low, s

KeptEquation(l, es, n) ==
    l = [i \in 0 .. n |-> IF i = 0 THEN <<>>
                          ELSE IF es[i].valid THEN Append(l[i - 1], es[i]) ELSE l[i - 1]]

\* The recursion of Kept has a solution.
LEMMA KeptExists ==
    ASSUME NEW n \in Nat, NEW es
    PROVE  \E l : KeptEquation(l, es, n)
<1> DEFINE Solved == {m \in Nat : \E l : KeptEquation(l, es, m)}
<1>1. 0 \in Solved
    <2>1. KeptEquation([k \in 0 .. 0 |-> <<>>], es, 0)
        BY DEF KeptEquation
    <2> QED BY <2>1
<1>2. ASSUME NEW m \in Nat, m \in Solved PROVE m + 1 \in Solved
    <2> PICK l : KeptEquation(l, es, m)
        BY <1>2
    <2> DEFINE step(p, i) == IF es[i].valid THEN Append(p, es[i]) ELSE p
               t == [i \in 0 .. m + 1 |-> IF i = m + 1 THEN step(l[m], i) ELSE l[i]]
    <2>1. \A i \in 0 .. m : l[i] = IF i = 0 THEN <<>> ELSE step(l[i - 1], i)
        BY DEF KeptEquation
    <2> HIDE DEF step
    <2>2. ASSUME NEW i \in 0 .. m + 1 PROVE t[i] = IF i = 0 THEN <<>> ELSE step(t[i - 1], i)
        <3>1. CASE i = m + 1
            <4>1. t[i] = step(l[m], i) /\ t[i - 1] = l[m] /\ i # 0
                BY <3>1
            <4> QED BY <4>1
        <3>2. CASE i = 0
            BY <2>1, <3>2
        <3>3. CASE i \in 1 .. m
            <4>1. i - 1 \in 0 .. m /\ i \in 0 .. m /\ i # 0 /\ t[i] = l[i] /\ t[i - 1] = l[i - 1]
                BY <3>3
            <4> HIDE DEF t
            <4> QED BY <2>1, <4>1
        <3> QED BY <3>1, <3>2, <3>3
    <2>3. t = [i \in 0 .. m + 1 |-> IF i = 0 THEN <<>> ELSE step(t[i - 1], i)]
        BY <2>2
    <2>4. KeptEquation(t, es, m + 1)
        BY <2>3 DEF KeptEquation, step
    <2> QED BY <2>4
<1> HIDE DEF Solved
<1>3. n \in Solved
    BY <1>1, <1>2, SetInduction
<1> QED BY <1>3 DEF Solved

\* l holds the valid entries among the first k of es, each once, and no others.
Keeps(l, es, k) ==
    /\ l \in Seq({es[i] : i \in 1 .. Len(es)})
    /\ \A m \in 1 .. Len(l) : \E i \in 1 .. k : es[i].valid /\ l[m] = es[i]
    /\ \A i \in 1 .. k : es[i].valid => \E m \in 1 .. Len(l) : l[m] = es[i]
    /\ \A a, b \in 1 .. Len(l) : l[a].out = l[b].out => a = b

\* No two valid entries have one place in the scratch.
Apart(es) == \A i, j \in 1 .. Len(es) : es[i].valid /\ es[j].valid /\ es[i].out = es[j].out => i = j

\* One more entry.
LEMMA KeepsOneMore ==
    ASSUME NEW es, Len(es) \in Nat, Apart(es), NEW k \in Nat, k + 1 \in 1 .. Len(es), NEW l, Keeps(l, es, k)
    PROVE  Keeps(IF es[k + 1].valid THEN Append(l, es[k + 1]) ELSE l, es, k + 1)
<1> DEFINE E == {es[i] : i \in 1 .. Len(es)}
           x == es[k + 1]
<1>1. CASE ~x.valid
    <2>1. \A i \in 1 .. k + 1 : es[i].valid => i \in 1 .. k
        BY <1>1
    <2>2. \A i \in 1 .. k : i \in 1 .. k + 1
        OBVIOUS
    <2> QED BY <1>1, <2>1, <2>2 DEF Keeps
<1>2. CASE x.valid
    <2> DEFINE t == Append(l, x)
    <2>1. l \in Seq(E) /\ Len(l) \in Nat /\ x \in E
        BY DEF Keeps
    <2> HIDE DEF E
    <2>2. /\ t \in Seq(E) /\ Len(t) = Len(l) + 1 /\ t[Len(t)] = x
          /\ \A m \in 1 .. Len(l) : t[m] = l[m]
        BY <2>1
    <2> HIDE DEF t, x
    <2>3. ASSUME NEW m \in 1 .. Len(t) PROVE \E i \in 1 .. k + 1 : es[i].valid /\ t[m] = es[i]
        <3>1. CASE m = Len(t)
            <4>1. k + 1 \in 1 .. k + 1
                OBVIOUS
            <4> QED BY <1>2, <2>2, <3>1, <4>1 DEF x
        <3>2. CASE m \in 1 .. Len(l)
            <4>1. PICK i \in 1 .. k : es[i].valid /\ l[m] = es[i]
                BY <3>2 DEF Keeps
            <4>2. i \in 1 .. k + 1
                OBVIOUS
            <4> QED BY <2>2, <3>2, <4>1, <4>2
        <3> QED BY <2>1, <2>2, <3>1, <3>2
    <2>4. ASSUME NEW i \in 1 .. k + 1, es[i].valid PROVE \E m \in 1 .. Len(t) : t[m] = es[i]
        <3>1. CASE i = k + 1
            <4>1. Len(t) \in 1 .. Len(t)
                BY <2>1, <2>2
            <4> QED BY <2>2, <3>1, <4>1 DEF x
        <3>2. CASE i \in 1 .. k
            <4>1. PICK m \in 1 .. Len(l) : l[m] = es[i]
                BY <2>4, <3>2 DEF Keeps
            <4>2. m \in 1 .. Len(t)
                BY <2>1, <2>2
            <4> QED BY <2>2, <4>1, <4>2
        <3> QED BY <3>1, <3>2
    <2>5. ASSUME NEW a \in 1 .. Len(l) PROVE t[a].out # x.out
        <3>1. PICK i \in 1 .. k : es[i].valid /\ l[a] = es[i]
            BY DEF Keeps
        <3>2. i \in 1 .. Len(es) /\ i # k + 1
            OBVIOUS
        <3> QED BY <1>2, <2>2, <3>1, <3>2 DEF x, Apart
    <2>6. ASSUME NEW a \in 1 .. Len(t), NEW b \in 1 .. Len(t), t[a].out = t[b].out PROVE a = b
        <3>1. \A c \in 1 .. Len(t) : c = Len(t) \/ c \in 1 .. Len(l)
            BY <2>1, <2>2
        <3>2. CASE a \in 1 .. Len(l) /\ b \in 1 .. Len(l)
            <4>1. l[a].out = l[b].out
                BY <2>2, <2>6, <3>2
            <4> QED BY <3>2, <4>1 DEF Keeps
        <3>3. CASE a = Len(t) /\ b = Len(t)
            BY <3>3
        <3>4. CASE a = Len(t) /\ b \in 1 .. Len(l)
            BY <2>2, <2>5, <2>6, <3>4
        <3>5. CASE a \in 1 .. Len(l) /\ b = Len(t)
            BY <2>2, <2>5, <2>6, <3>5
        <3> QED BY <3>1, <3>2, <3>3, <3>4, <3>5
    <2>7. Keeps(t, es, k + 1)
        BY <2>2, <2>3, <2>4, <2>6 DEF Keeps, E
    <2> QED BY <1>2, <2>7 DEF t, x
<1> QED BY <1>1, <1>2

\* The loop of the compaction keeps the valid entries, each once, and no others.
LEMMA KeepsValid ==
    ASSUME NEW es, Len(es) \in Nat, Apart(es)
    PROVE  Keeps(ValidOf(es), es, Len(es))
<1> DEFINE n == Len(es)
           K == Kept(es)
           Right == {k \in Nat : k <= n => Keeps(K[k], es, k)}
<1>1. KeptEquation(K, es, n)
    BY KeptExists DEF Kept, KeptEquation
<1> HIDE DEF K
<1>2. K[0] = <<>> /\ \A i \in 1 .. n : K[i] = IF es[i].valid THEN Append(K[i - 1], es[i]) ELSE K[i - 1]
    <2> HIDE DEF n
    <2>1. \A i \in 0 .. n : K[i] = IF i = 0 THEN <<>> ELSE IF es[i].valid THEN Append(K[i - 1], es[i]) ELSE K[i - 1]
        BY <1>1, Zenon DEF KeptEquation
    <2>2. 0 \in 0 .. n /\ \A i \in 1 .. n : i \in 0 .. n /\ i # 0
        BY DEF n
    <2> QED BY <2>1, <2>2, Zenon
<1>3. 0 \in Right
    <2>1. Keeps(<<>>, es, 0)
        BY DEF Keeps
    <2> QED BY <1>2, <2>1
<1>4. ASSUME NEW k \in Nat, k \in Right PROVE k + 1 \in Right
    <2> SUFFICES ASSUME k + 1 <= n PROVE Keeps(K[k + 1], es, k + 1)
        OBVIOUS
    <2>1. k + 1 \in 1 .. n /\ (k + 1) - 1 = k
        OBVIOUS
    <2>2. Keeps(K[k], es, k)
        BY <1>4, <2>1
    <2>3. K[k + 1] = IF es[k + 1].valid THEN Append(K[k], es[k + 1]) ELSE K[k]
        BY <1>2, <2>1
    <2> QED BY <2>1, <2>2, <2>3, KeepsOneMore
<1> HIDE DEF Right
<1>5. n \in Right
    BY <1>3, <1>4, SetInduction
<1> QED BY <1>5 DEF Right, ValidOf, K

-----------------------------------------------------------------------------
(* The invariants *)

\* The number all kernels come to for sub-chunk k of chunk c.
Idx(c, k) == SubSums[c - 1] + k - 1

\* The sub-chunks that are decoded: those up to the first that is not LZ.
IsLz(c)    == Chunk(c).flag = "lz" /\ Chunk(c).decomp > 0
Subs(c)    == 1 .. NSubs(Chunk(c))
InLz(c, k) == IsLz(c) /\ \A j \in 1 .. k : Sub(c, j).lz
Desc(c, k, s) == StagedAs(c, k, Idx(c, k), s)

Streams == Huffs \union Raws
Of(w)   == IF w = "raw" THEN Raws ELSE {w}

\* The kernels in their order, and what holds of the blocks' places.
Scanned   == {"compact", "merge", "build", "decode", "lz", "groups"}
Compacted == {"merge", "build", "decode", "lz", "groups"}
Merged    == {"build", "decode", "lz", "groups"}
Running   == {"prefix", "scan"} \union Scanned
Grid == CASE pc = "scan" -> Chunks [] pc = "compact" -> Compacts [] pc = "merge" -> Huffs
          [] pc \in {"build", "decode"} -> HuffGrid [] pc = "groups" -> Groups [] OTHER -> {}
ShapeInv ==
    /\ pc \in Running \union {"upload", "over"}
    /\ todo \in Seq({todo[n] : n \in DOMAIN todo}) /\ \A n \in DOMAIN todo : IsCall(todo[n])
    /\ pc # "upload" => todo # <<>>
    /\ done \subseteq Grid
    /\ DOMAIN compact = Compacts /\ DOMAIN counts = Compacts \union {"merged"}

\* The host has room for every sub-chunk the device counts.
SizeInv ==
    /\ pc \in Running => total \in Nat /\ AllSubs <= total
    /\ pc \in {"scan"} \union Scanned => first = [c \in Chunks |-> SubsBefore(c)] /\ devTotal = AllSubs
    /\ pc = "prefix" => staged = Cleared(total)
    /\ pc \in {"prefix", "scan", "compact"} => gathered = {} /\ wrote = {}
    /\ pc \in Running \ {"groups"} => out = {}

Passed(c, k) == pc = "scan" => c \in done \/ k < pos[c]
ScanPos ==
    pc = "scan" =>
        /\ DOMAIN pos = Chunks
        /\ \A c \in Chunks \ done : /\ pos[c] \in Subs(c)
                                    /\ IsLz(c) => \A j \in 1 .. pos[c] - 1 : Sub(c, j).lz
StagedShape == DOMAIN staged = Streams /\ \A s \in Streams : DOMAIN staged[s] = 0 .. total - 1
StagedOwn ==
    \A s \in Streams, i \in 0 .. total - 1 :
        \/ staged[s][i] = None
        \/ \E c \in Chunks : \E k \in Subs(c) :
              InLz(c, k) /\ i = Idx(c, k) /\ staged[s][i] = Desc(c, k, s)
StagedAll ==
    \A s \in Streams, c \in Chunks : \A k \in Subs(c) :
        InLz(c, k) /\ Passed(c, k) => staged[s][Idx(c, k)] = Desc(c, k, s)
ScanInv == ScanPos /\ (pc \in {"scan"} \union Scanned => StagedShape /\ StagedOwn /\ StagedAll)

\* A list of descriptors holds each valid one of its streams once.
Lists(l, w) ==
    /\ l \in Seq({l[n] : n \in DOMAIN l})
    /\ \A n \in 1 .. Len(l) : \E c \in Chunks : \E k \in Subs(c) : \E s \in Of(w) :
          InLz(c, k) /\ Desc(c, k, s).valid /\ l[n] = Desc(c, k, s)
    /\ \A m, n \in 1 .. Len(l) : l[m].out = l[n].out => m = n
    /\ \A c \in Chunks : \A k \in Subs(c) : \A s \in Of(w) :
          InLz(c, k) /\ Desc(c, k, s).valid => \E n \in 1 .. Len(l) : l[n] = Desc(c, k, s)
CompactInv ==
    \A w \in Compacts : pc \in Compacted \/ (pc = "compact" /\ w \in done) =>
        Lists(compact[w], w) /\ counts[w] = Len(compact[w])

AllHuffs == counts["lit"] + counts["tok"] + counts["hi"] + counts["lo"]
MergeInv ==
    /\ \A w \in Huffs : pc \in Merged \/ (pc = "merge" /\ w \in done) =>
          \A n \in 1 .. counts[w] :
             LET b == BaseOf(w) + n - 1 IN
             /\ b \in DOMAIN merged
             /\ merged[b] = [out |-> compact[w][n].out, data |-> compact[w][n].data, lut |-> b]
    /\ pc \in Merged \/ (pc = "merge" /\ "lit" \in done) => counts["merged"] = AllHuffs
LutInv ==
    \A b \in HuffGrid : pc = "decode" \/ (pc = "build" /\ b \in done) =>
        b \in DOMAIN luts /\ luts[b] = merged[b].data

HuffsThrough == CASE pc \in {"lz", "groups"} -> HuffGrid [] pc = "decode" -> done [] OTHER -> {}
GatherSlot(j) == Off16Region + compact["raw"][j].out
HuffSlot(b)   == RegionOf(b) + merged[b].out
WroteInv ==
    pc \in Compacted =>
        /\ gathered \subseteq 1 .. counts["raw"]
        /\ pc = "groups" => gathered = 1 .. counts["raw"]
        /\ wrote = {<<<<"gather", j>>, GatherSlot(j)>> : j \in gathered}
                     \union {<<<<"huff", b>>, HuffSlot(b)>> : b \in HuffsThrough}
        /\ \A j \in gathered : GatherSlot(j) \in DOMAIN scratch
                               /\ scratch[GatherSlot(j)] = compact["raw"][j].data
        /\ \A b \in HuffsThrough : HuffSlot(b) \in DOMAIN scratch
                               /\ scratch[HuffSlot(b)] = merged[b].data
OneWriter == \A x, y \in wrote : x[2] = y[2] => x = y

FirstOf(g) == (g - 1) * Call.cpg + 1
Due(c) == IF Chunk(c).decomp = 0 THEN {}
          ELSE IF Chunk(c).flag # "lz" THEN {1} ELSE {k \in Subs(c) : InLz(c, k)}
Emission(g, c, k) ==
    IF Chunk(c).flag # "lz" THEN [g |-> g, c |-> c, at |-> DstOff(c, 1), n |-> Chunk(c).decomp, what |-> Chunk(c).flag]
    ELSE [g |-> g, c |-> c, at |-> DstOff(c, k), n |-> SizeOf(c, k), what |-> <<c, k>>]
Behind(g, c, k) == pc = "over" \/ g \in done \/ c < pos[g].c \/ (c = pos[g].c /\ k < pos[g].k)
GroupPos ==
    pc = "groups" =>
        /\ DOMAIN pos = Groups
        /\ \A g \in Groups \ done :
              /\ pos[g] = [c |-> pos[g].c, k |-> pos[g].k]
              /\ pos[g].c \in FirstOf(g) .. LastOf(g) /\ pos[g].k \in Subs(pos[g].c)
              /\ IsLz(pos[g].c) => \A j \in 1 .. pos[g].k - 1 : Sub(pos[g].c, j).lz
Emitted ==
    UNION {UNION {{Emission(g, c, k) : k \in {i \in Due(c) : Behind(g, c, i)}} : c \in FirstOf(g) .. LastOf(g)}
              : g \in Groups}
GroupInv == GroupPos /\ (pc \in {"groups", "over"} => out = Emitted /\ IsFiniteSet(out))

-----------------------------------------------------------------------------
(* The number of a sub-chunk *)

\* Rounding up, for any divisor.
LEMMA CeilFacts ==
    ASSUME NEW a \in Nat, NEW b \in Nat \ {0}
    PROVE  /\ CeilDiv(a, b) \in Nat
           /\ a <= b * CeilDiv(a, b) /\ b * CeilDiv(a, b) < a + b
           /\ a > 0 => CeilDiv(a, b) >= 1
<1> DEFINE q == CeilDiv(a, b)
<1>1. q \in Nat /\ b * q <= a + b - 1 /\ a + b - 1 < b * q + b
    BY DEF CeilDiv
<1>2. a > 0 => q >= 1
    <2>1. SUFFICES ASSUME a > 0, q = 0 PROVE FALSE
        BY <1>1
    <2> QED BY <1>1, <2>1
<1> HIDE DEF q
<1>3. b * q \in Nat
    BY <1>1
<1>4. a <= b * q /\ b * q < a + b
    BY <1>1, <1>3
<1> QED BY <1>1, <1>2, <1>4 DEF q

\* Rounding up is monotonic.
LEMMA CeilGrows ==
    ASSUME NEW a \in Nat, NEW c \in Nat, a <= c, NEW b \in Nat \ {0}
    PROVE  CeilDiv(a, b) <= CeilDiv(c, b)
<1> DEFINE p == CeilDiv(a, b)
           q == CeilDiv(c, b)
<1>1. p \in Nat /\ q \in Nat /\ b * p < a + b /\ c <= b * q
    BY CeilFacts
<1> HIDE DEF p, q
<1>2. SUFFICES ASSUME q < p PROVE FALSE
    BY <1>1 DEF p, q
<1>3. b * (q + 1) <= b * p
    BY <1>1, <1>2
<1>4. b * (q + 1) = b * q + b /\ b * q \in Nat /\ b * p \in Nat
    BY <1>1
<1> QED BY <1>1, <1>3, <1>4

\* A product of naturals is a natural, and positive if both are.
LEMMA ProductFacts ==
    ASSUME NEW a \in Nat, NEW b \in Nat
    PROVE  a * b \in Nat /\ (a # 0 /\ b # 0 => a * b # 0) /\ (a = 0 => a * b = 0)
<1>1. a * b \in Nat /\ (a = 0 => a * b = 0)
    OBVIOUS
<1>2. CASE a # 0 /\ b # 0
    <2>1. PICK d \in Nat : a = d + 1
        <3>1. a - 1 \in Nat /\ a = (a - 1) + 1
            BY <1>2
        <3> QED BY <3>1
    <2>2. a * b = d * b + b /\ d * b \in Nat
        BY <2>1
    <2> QED BY <1>1, <1>2, <2>2
<1> QED BY <1>1, <1>2

\* A call of the host, and the sub-chunks of its chunks.
LEMMA CallFacts ==
    ASSUME IsCall(Call)
    PROVE  /\ Len(Call.chunks) \in Nat /\ DOMAIN Call.chunks = Chunks /\ Call.cpg \in Nat \ {0}
           /\ Call.d2d \in BOOLEAN
           /\ \A c \in Chunks : /\ IsChunk(Chunk(c)) /\ Chunk(c).decomp \in 0 .. EFF
                                /\ NSubs(Chunk(c)) \in 1 .. MAX_SUBS
                                /\ HostSubs(Chunk(c)) = NSubs(Chunk(c))
<1>1. Len(Call.chunks) \in Nat /\ DOMAIN Call.chunks = Chunks /\ Call.cpg \in Nat \ {0} /\ Call.d2d \in BOOLEAN
    BY DEF IsCall, Chunks
<1>2. ASSUME NEW c \in Chunks
      PROVE  /\ IsChunk(Chunk(c)) /\ Chunk(c).decomp \in 0 .. EFF
             /\ NSubs(Chunk(c)) \in 1 .. MAX_SUBS /\ HostSubs(Chunk(c)) = NSubs(Chunk(c))
    <2> DEFINE ch == Chunk(c)
    <2>1. IsChunk(ch)
        BY <1>1 DEF IsCall, Chunk
    <2> HIDE DEF ch
    <2>2. ch.decomp \in 0 .. EFF
        BY <2>1 DEF IsChunk
    <2>3. CAP \in Nat \ {0} /\ EFF \in Nat /\ MAX_SUBS \in Nat \ {0} /\ CeilDiv(EFF, CAP) <= MAX_SUBS
        BY ScanAssumption
    <2>4. CeilDiv(ch.decomp, CAP) \in Nat /\ CeilDiv(ch.decomp, CAP) <= MAX_SUBS
        <3>1. ch.decomp \in Nat /\ ch.decomp <= EFF
            BY <2>2, <2>3
        <3>2. CeilDiv(ch.decomp, CAP) <= CeilDiv(EFF, CAP) /\ CeilDiv(ch.decomp, CAP) \in Nat
                /\ CeilDiv(EFF, CAP) \in Nat
            BY <2>3, <3>1, CeilFacts, CeilGrows
        <3> QED BY <2>3, <3>2
    <2>5. ch.decomp # 0 => CeilDiv(ch.decomp, CAP) >= 1
        <3>1. ch.decomp \in Nat /\ (ch.decomp # 0 => ch.decomp > 0)
            BY <2>2, <2>3
        <3>2. ch.decomp > 0 => CeilDiv(ch.decomp, CAP) >= 1
            BY <2>3, <3>1, CeilFacts
        <3> QED BY <3>1, <3>2
    <2>6. NSubs(ch) \in 1 .. MAX_SUBS
        BY <2>3, <2>4, <2>5 DEF NSubs
    <2>7. HostSubs(ch) = NSubs(ch)
        BY DEF HostSubs, NSubs
    <2> QED BY <2>1, <2>2, <2>6, <2>7 DEF ch
<1> QED BY <1>1, <1>2

\* The sums of the prefix sum kernel.
LEMMA SubSumsFacts ==
    ASSUME IsCall(Call)
    PROVE  /\ SubSums[0] = 0 /\ \A c \in 0 .. Len(Call.chunks) : SubSums[c] \in Nat
           /\ \A b \in Chunks, c \in 0 .. Len(Call.chunks) :
                 b <= c => SubSums[b - 1] + NSubs(Chunk(b)) <= SubSums[c]
           /\ AllSubs \in Nat /\ AllSubs <= Len(Call.chunks) * MAX_SUBS
<1> DEFINE n == Len(Call.chunks)
           f == [c \in Chunks |-> NSubs(Chunk(c))]
<1>1. n \in Nat /\ Chunks = 1 .. n /\ MAX_SUBS \in Nat
    BY CallFacts, ScanAssumption DEF Chunks
<1>2. \A c \in 1 .. n : f[c] = NSubs(Chunk(c)) /\ f[c] \in Nat /\ f[c] <= MAX_SUBS
    BY <1>1, CallFacts
<1>3. SubSums = Sums(f, n)
    BY DEF SubSums
<1> HIDE DEF f, n
<1>4. Sums(f, n)[0] = 0
    BY <1>1, SumsUnfold
<1>5. /\ \A k \in 0 .. n : Sums(f, n)[k] \in Nat
      /\ \A j \in 1 .. n, k \in 0 .. n : j <= k => Sums(f, n)[j - 1] + f[j] <= Sums(f, n)[k]
    BY <1>1, <1>2, SumsGrow
<1>6. Sums(f, n)[n] <= n * MAX_SUBS
    BY <1>1, <1>2, SumsBounded
<1>7. n \in 0 .. n
    BY <1>1
<1> QED BY <1>1, <1>2, <1>3, <1>4, <1>5, <1>6, <1>7 DEF n, AllSubs

\* The host makes room for every sub-chunk the device counts, whether it can read the
\* descriptors or not.
LEMMA RoomForAll ==
    ASSUME IsCall(Call)
    PROVE  HostTotal \in Nat /\ AllSubs <= HostTotal
<1>1. AllSubs \in Nat /\ AllSubs <= Len(Call.chunks) * MAX_SUBS
    BY SubSumsFacts
<1>2. Len(Call.chunks) * MAX_SUBS \in Nat
    BY CallFacts, ScanAssumption
<1>3. [c \in Chunks |-> HostSubs(Chunk(c))] = [c \in Chunks |-> NSubs(Chunk(c))]
    BY CallFacts
<1>4. CASE Call.d2d
    BY <1>1, <1>2, <1>4 DEF HostTotal
<1>5. CASE ~Call.d2d
    <2>1. HostTotal = AllSubs
        BY <1>3, <1>5, Zenon DEF HostTotal, AllSubs, SubSums
    <2> QED BY <1>1, <2>1
<1> QED BY <1>4, <1>5

\* The number of a sub-chunk is its own, below the room there is for them.
LEMMA IdxFacts ==
    ASSUME IsCall(Call), NEW c \in Chunks, NEW k \in Subs(c)
    PROVE  /\ Idx(c, k) \in Nat /\ Idx(c, k) < AllSubs /\ k \in Nat
           /\ SubsBefore(c) + k - 1 = Idx(c, k)
           /\ \A b \in Chunks : \A j \in Subs(b) : Idx(b, j) = Idx(c, k) => b = c /\ j = k
<1> DEFINE n == Len(Call.chunks)
<1>1. n \in Nat /\ c \in 1 .. n /\ Chunks = 1 .. n /\ c - 1 \in 0 .. n /\ n \in 0 .. n
    BY CallFacts DEF Chunks
<1>2. \A b \in Chunks : NSubs(Chunk(b)) \in Nat
    BY CallFacts, ScanAssumption
<1>3. \A b \in Chunks : b - 1 \in 0 .. n /\ SubSums[b - 1] \in Nat
    BY <1>1, SubSumsFacts
<1>4. k \in Nat /\ k >= 1 /\ k <= NSubs(Chunk(c))
    BY <1>2 DEF Subs
<1>5. SubSums[c - 1] + NSubs(Chunk(c)) <= SubSums[n] /\ SubSums[n] \in Nat /\ AllSubs = SubSums[n]
    BY <1>1, SubSumsFacts DEF AllSubs
<1>6. Idx(c, k) \in Nat /\ Idx(c, k) < AllSubs
    BY <1>2, <1>3, <1>4, <1>5 DEF Idx
<1>7. SubsBefore(c) + k - 1 = Idx(c, k)
    BY DEF SubsBefore, Idx
<1>8. ASSUME NEW b \in Chunks, NEW j \in Subs(b), Idx(b, j) = Idx(c, k) PROVE b = c /\ j = k
    <2>1. j \in Nat /\ j >= 1 /\ j <= NSubs(Chunk(b))
        BY <1>2 DEF Subs
    <2>2. SubSums[b - 1] + j - 1 = SubSums[c - 1] + k - 1 /\ SubSums[b - 1] \in Nat /\ SubSums[c - 1] \in Nat
        BY <1>3, <1>8 DEF Idx
    <2>3. ~(b < c)
        <3>1. SUFFICES ASSUME b < c PROVE FALSE
            OBVIOUS
        <3>2. b <= c - 1
            BY <1>1, <3>1
        <3>3. SubSums[b - 1] + NSubs(Chunk(b)) <= SubSums[c - 1]
            BY <1>1, <3>2, SubSumsFacts
        <3> QED BY <1>2, <1>4, <2>1, <2>2, <3>3
    <2>4. ~(c < b)
        <3>1. SUFFICES ASSUME c < b PROVE FALSE
            OBVIOUS
        <3>2. c <= b - 1 /\ b - 1 \in 0 .. n
            BY <1>1, <1>3, <3>1
        <3>3. SubSums[c - 1] + NSubs(Chunk(c)) <= SubSums[b - 1]
            BY <1>1, <3>2, SubSumsFacts
        <3> QED BY <1>2, <1>4, <2>1, <2>2, <3>3
    <2>5. b = c
        BY <1>1, <2>3, <2>4
    <2> QED BY <1>4, <2>1, <2>2, <2>5
<1> QED BY <1>4, <1>6, <1>7, <1>8

\* The scan skips the initial bytes by number, the LZ kernel by place in the output:
\* both skip them at the first sub-chunk of the first chunk and nowhere else.
LEMMA SkipsAgree ==
    ASSUME IsCall(Call), NEW c \in Chunks, NEW k \in Subs(c)
    PROVE  ScanSkips(Idx(c, k), k) = LzSkips(c, k)
<1>1. c \in Nat /\ c >= 1 /\ k \in Nat /\ k >= 1
    BY CallFacts, IdxFacts DEF Chunks, Subs
<1>2. 1 \in Chunks
    BY <1>1, CallFacts DEF Chunks
<1>3. 1 \in Subs(1) /\ Idx(1, 1) = 0
    <2>1. 1 - 1 = 0
        OBVIOUS
    <2>2. SubSums[0] = 0
        BY SubSumsFacts
    <2>3. NSubs(Chunk(1)) \in 1 .. MAX_SUBS
        BY <1>2, CallFacts
    <2> QED BY <2>1, <2>2, <2>3, ScanAssumption DEF Subs, Idx
<1>4. Idx(c, k) = 0 <=> c = 1 /\ k = 1
    BY <1>2, <1>3, IdxFacts
<1>5. DstOff(c, k) = 0 <=> c = 1 /\ k = 1
    <2> DEFINE x == c - 1
               y == k - 1
    <2>1. x \in Nat /\ y \in Nat /\ CAP \in Nat \ {0} /\ EFF \in Nat \ {0}
        BY <1>1, ScanAssumption
    <2>2. x * EFF \in Nat /\ (x # 0 <=> x * EFF # 0)
        BY <2>1, ProductFacts
    <2>3. y * CAP \in Nat /\ (y # 0 <=> y * CAP # 0)
        BY <2>1, ProductFacts
    <2>5. DstOff(c, k) = x * EFF + y * CAP
        BY DEF DstOff
    <2>6. (x = 0 <=> c = 1) /\ (y = 0 <=> k = 1)
        BY <1>1
    <2> HIDE DEF x, y
    <2> QED BY <2>2, <2>3, <2>5, <2>6
<1> QED BY <1>4, <1>5 DEF ScanSkips, LzSkips

-----------------------------------------------------------------------------
(* What the running call fixes *)

\* Only NextCall changes the running call, and with it the chunks and their numbers.
LEMMA CallKept ==
    ASSUME todo' = todo
    PROVE  /\ Call' = Call /\ Chunks' = Chunks /\ AllSubs' = AllSubs /\ Groups' = Groups
           /\ \A c : Chunk(c)' = Chunk(c) /\ (IsLz(c)' <=> IsLz(c)) /\ Subs(c)' = Subs(c)
                     /\ SubsBefore(c)' = SubsBefore(c) /\ Due(c)' = Due(c)
           /\ \A c, k : /\ Sub(c, k)' = Sub(c, k) /\ (InLz(c, k)' <=> InLz(c, k)) /\ Idx(c, k)' = Idx(c, k)
           /\ \A c, k, s : Desc(c, k, s)' = Desc(c, k, s)
           /\ \A g : FirstOf(g)' = FirstOf(g) /\ LastOf(g)' = LastOf(g)
           /\ \A g, c, k : Emission(g, c, k)' = Emission(g, c, k)
<1>1. Call' = Call
    BY DEF Call
<1>2. Chunks' = Chunks /\ \A c : Chunk(c)' = Chunk(c)
    BY <1>1 DEF Chunks, Chunk
<1>3. SubSums' = SubSums
    BY <1>1, <1>2 DEF SubSums
<1>4. AllSubs' = AllSubs /\ \A c : SubsBefore(c)' = SubsBefore(c)
    BY <1>1, <1>3 DEF AllSubs, SubsBefore
<1>5. Groups' = Groups /\ \A g : FirstOf(g)' = FirstOf(g) /\ LastOf(g)' = LastOf(g)
    BY <1>1 DEF Groups, GroupCount, FirstOf, LastOf
<1>6. \A c, k : Sub(c, k)' = Sub(c, k) /\ Idx(c, k)' = Idx(c, k)
    BY <1>2, <1>3 DEF Sub, Idx
<1>7. \A c : (IsLz(c)' <=> IsLz(c)) /\ Subs(c)' = Subs(c)
    BY <1>2 DEF IsLz, Subs
<1>8. \A c, k : (InLz(c, k)' <=> InLz(c, k))
    BY <1>6, <1>7 DEF InLz
<1>9. ASSUME NEW c, NEW k, NEW s PROVE Desc(c, k, s)' = Desc(c, k, s)
    <2>1. Sub(c, k)' = Sub(c, k) /\ Idx(c, k)' = Idx(c, k)
        BY <1>6
    <2> QED BY <2>1, Zenon DEF Desc, StagedAs, ScanSkips, LzSkips, DstOff, OutOffset
<1>10. \A c : Due(c)' = Due(c)
    BY <1>2, <1>7, <1>8 DEF Due
<1>11. \A g, c, k : Emission(g, c, k)' = Emission(g, c, k)
    BY <1>2 DEF Emission, SizeOf
<1> QED BY <1>1, <1>2, <1>4, <1>5, <1>6, <1>7, <1>8, <1>9, <1>10, <1>11

-----------------------------------------------------------------------------
(* Descriptors *)

\* Stream s of sub-chunk k of chunk c is one that the scan hands on.
Coded(c, k, s) ==
    CASE s = "lit" -> Sub(c, k).lit = "huff"
      [] s = "tok" -> Sub(c, k).tok = "huff"
      [] s = "hi" -> Sub(c, k).hi = "huff"
      [] s = "lo" -> Sub(c, k).lo = "huff"
      [] s = "rawHi" -> Sub(c, k).hi = "plain"
      [] s = "rawLo" -> Sub(c, k).lo = "plain"

\* What the scan stages for a stream: its own place and its own data, or nothing.
LEMMA DescFacts ==
    ASSUME IsCall(Call), NEW c \in Chunks, NEW k \in Subs(c), NEW s \in Streams
    PROVE  /\ Desc(c, k, s).valid \in BOOLEAN
           /\ Coded(c, k, s) \in BOOLEAN
           /\ Desc(c, k, s).valid <=> Coded(c, k, s)
           /\ Coded(c, k, s) => Desc(c, k, s) = [valid |-> TRUE, out |-> 2 * Idx(c, k) + Plane(s), data |-> <<c, k, s>>]
           /\ ~Coded(c, k, s) => Desc(c, k, s) = None
<1>1. ScanSkips(Idx(c, k), k) = LzSkips(c, k)
    BY SkipsAgree
<1>2. Desc(c, k, s) = IF Coded(c, k, s)
                      THEN [valid |-> TRUE, out |-> 2 * Idx(c, k) + Plane(s), data |-> <<c, k, s>>]
                      ELSE None
    <2>1. CASE s = "lit"
        BY <1>1, <2>1 DEF Desc, StagedAs, Coded, OutOffset, Raws
    <2>2. CASE s = "tok"
        BY <1>1, <2>2 DEF Desc, StagedAs, Coded, OutOffset, Raws
    <2>3. CASE s = "hi"
        BY <1>1, <2>3 DEF Desc, StagedAs, Coded, OutOffset, Raws
    <2>4. CASE s = "lo"
        BY <1>1, <2>4 DEF Desc, StagedAs, Coded, OutOffset, Raws
    <2>5. CASE s = "rawHi"
        BY <1>1, <2>5 DEF Desc, StagedAs, Coded, OutOffset, Raws
    <2>6. CASE s = "rawLo"
        BY <1>1, <2>6 DEF Desc, StagedAs, Coded, OutOffset, Raws
    <2> QED BY <2>1, <2>2, <2>3, <2>4, <2>5, <2>6 DEF Streams, Huffs, Raws
<1>3. Coded(c, k, s) \in BOOLEAN
    BY DEF Coded, Streams, Huffs, Raws
<1>4. None.valid = FALSE
    BY DEF None
<1>5. CASE Coded(c, k, s)
    <2>1. Desc(c, k, s) = [valid |-> TRUE, out |-> 2 * Idx(c, k) + Plane(s), data |-> <<c, k, s>>]
        BY <1>2, <1>5
    <2>2. Desc(c, k, s).valid = TRUE
        BY <2>1
    <2> QED BY <1>3, <1>5, <2>1, <2>2, Zenon
<1>6. CASE ~Coded(c, k, s)
    <2>1. Desc(c, k, s) = None
        BY <1>2, <1>6
    <2>2. Desc(c, k, s).valid = FALSE
        BY <1>4, <2>1
    <2> QED BY <1>3, <1>6, <2>1, <2>2, Zenon
<1> QED BY <1>5, <1>6, Zenon

\* Two descriptors with one place are of one sub-chunk and one plane; in one region of
\* the scratch they are one descriptor, since a plane is coded or raw, not both.
LEMMA DescApart ==
    ASSUME IsCall(Call), NEW c \in Chunks, NEW k \in Subs(c), NEW s \in Streams,
           NEW b \in Chunks, NEW j \in Subs(b), NEW r \in Streams,
           Coded(c, k, s), Coded(b, j, r), Desc(c, k, s).out = Desc(b, j, r).out
    PROVE  /\ c = b /\ k = j /\ Plane(s) = Plane(r)
           /\ s = r \/ ~({s, r} \subseteq Raws \union {"hi", "lo"})
<1>1. Desc(c, k, s).out = 2 * Idx(c, k) + Plane(s) /\ Desc(b, j, r).out = 2 * Idx(b, j) + Plane(r)
    BY DescFacts
<1>2. Idx(c, k) \in Nat /\ Idx(b, j) \in Nat
    BY IdxFacts
<1>3. Plane(s) \in {0, 1} /\ Plane(r) \in {0, 1}
    BY DEF Plane
<1>4. Idx(c, k) = Idx(b, j) /\ Plane(s) = Plane(r)
    <2>1. \A x, y \in Nat, p, q \in {0, 1} : 2 * x + p = 2 * y + q => x = y /\ p = q
        OBVIOUS
    <2> QED BY <1>1, <1>2, <1>3, <2>1
<1>5. c = b /\ k = j
    BY <1>4, IdxFacts
<1>6. ASSUME {s, r} \subseteq Raws \union {"hi", "lo"} PROVE s = r
    <2>1. Coded(c, k, s) /\ Coded(c, k, r)
        BY <1>5
    <2>2. s \in {"rawHi", "rawLo", "hi", "lo"} /\ r \in {"rawHi", "rawLo", "hi", "lo"}
        BY <1>6 DEF Raws
    <2>3. CASE s \in {"lo", "rawLo"}
        <3>1. r \in {"lo", "rawLo"}
            BY <1>4, <2>2, <2>3 DEF Plane
        <3>2. (s = "lo" => Sub(c, k).lo = "huff") /\ (s = "rawLo" => Sub(c, k).lo = "plain")
            BY <2>1 DEF Coded
        <3>3. (r = "lo" => Sub(c, k).lo = "huff") /\ (r = "rawLo" => Sub(c, k).lo = "plain")
            BY <2>1 DEF Coded
        <3> QED BY <2>3, <3>1, <3>2, <3>3
    <2>4. CASE s \in {"hi", "rawHi"}
        <3>1. r \in {"hi", "rawHi"}
            BY <1>4, <2>2, <2>4 DEF Plane
        <3>2. (s = "hi" => Sub(c, k).hi = "huff") /\ (s = "rawHi" => Sub(c, k).hi = "plain")
            BY <2>1 DEF Coded
        <3>3. (r = "hi" => Sub(c, k).hi = "huff") /\ (r = "rawHi" => Sub(c, k).hi = "plain")
            BY <2>1 DEF Coded
        <3> QED BY <2>4, <3>1, <3>2, <3>3
    <2> QED BY <2>2, <2>3, <2>4
<1> QED BY <1>4, <1>5, <1>6

-----------------------------------------------------------------------------
(* The order of the kernels *)

\* While a call runs it is a call of the host.
LEMMA RunningCall ==
    ASSUME ShapeInv, pc # "upload"
    PROVE  IsCall(Call) /\ todo \in Seq({todo[n] : n \in DOMAIN todo}) /\ todo # <<>>
<1>1. todo \in Seq({todo[n] : n \in DOMAIN todo}) /\ todo # <<>>
    BY DEF ShapeInv
<1>2. 1 \in DOMAIN todo
    BY <1>1
<1> QED BY <1>1, <1>2 DEF ShapeInv, Call

\* Every call begins with ShapeInv and every step keeps it.
LEMMA ShapeStep ==
    ASSUME ShapeInv, [Next]_vars
    PROVE  ShapeInv'
<1> DEFINE Todo == /\ todo \in Seq({todo[n] : n \in DOMAIN todo}) /\ \A n \in DOMAIN todo : IsCall(todo[n])
<1>1. Todo /\ done \subseteq Grid /\ DOMAIN compact = Compacts /\ DOMAIN counts = Compacts \union {"merged"}
    BY DEF ShapeInv
<1> USE DEF Running, Scanned
<1> HIDE DEF Todo
<1>a. ASSUME todo' = todo PROVE Todo'
    BY <1>1, <1>a DEF Todo
<1>b. ASSUME todo' = todo, NEW b, NEW grid, NEW next, done \subseteq grid, b \in grid, Through(b, grid, next)
      PROVE  (pc' = pc /\ done' \subseteq grid) \/ (pc' = next /\ done' = {})
    BY <1>b DEF Through
<1>2. CASE Upload
    <2>1. Grid = {} /\ pc' = "prefix" /\ todo' = todo /\ done' = done /\ counts' = NoCounts
            /\ compact' = compact /\ todo # <<>>
        BY <1>2 DEF Upload, Grid
    <2> QED BY <1>1, <1>a, <2>1 DEF ShapeInv, Todo, NoCounts
<1>3. CASE PrefixSum
    <2>1. Grid = {} /\ pc' = "scan" /\ todo' = todo /\ done' = done /\ counts' = counts
            /\ compact' = compact /\ pc = "prefix"
        BY <1>3 DEF PrefixSum, Grid
    <2> QED BY <1>1, <1>a, <2>1 DEF ShapeInv, Todo
<1>4. CASE NoHuff
    <2>1. Grid = {} /\ pc' = "lz" /\ todo' = todo /\ done' = done /\ counts' = counts
            /\ compact' = compact /\ pc \in {"build", "decode"}
        BY <1>4 DEF NoHuff, Grid
    <2> QED BY <1>1, <1>a, <2>1 DEF ShapeInv, Todo
<1>5. CASE LzStart
    <2>1. Grid = {} /\ pc' = "groups" /\ todo' = todo /\ done' = done /\ counts' = counts
            /\ compact' = compact /\ pc = "lz"
        BY <1>5 DEF LzStart, Grid
    <2> QED BY <1>1, <1>a, <2>1 DEF ShapeInv, Todo
<1>6. CASE NextCall
    <2>1. Grid = {} /\ pc' = "upload" /\ todo' = Tail(todo) /\ done' = done /\ counts' = counts
            /\ compact' = compact /\ pc = "over"
        BY <1>6 DEF NextCall, Grid
    <2>2. todo # <<>>
        BY <2>1 DEF ShapeInv
    <2> DEFINE S == {todo[n] : n \in DOMAIN todo}
               t == Tail(todo)
    <2>3. \A a \in S : IsCall(a)
        BY <1>1 DEF Todo
    <2>4. t \in Seq(S)
        BY <1>1, <2>2 DEF Todo
    <2> HIDE DEF S, t
    <2>5. \A n \in DOMAIN t : t[n] \in S
        BY <2>4
    <2>6. t \in Seq({t[n] : n \in DOMAIN t})
        BY <2>4
    <2>7. Todo'
        BY <2>1, <2>3, <2>5, <2>6 DEF Todo, t
    <2> QED BY <1>1, <2>1, <2>7 DEF ShapeInv, Todo
<1>7. ASSUME NEW w \in Compacts, Compact(w) PROVE ShapeInv'
    <2>1. /\ pc = "compact" /\ Grid = Compacts /\ todo' = todo /\ todo # <<>>
          /\ DOMAIN compact' = DOMAIN compact /\ DOMAIN counts' = DOMAIN counts
        BY <1>7 DEF Compact, Grid, ShapeInv
    <2>2. (pc' = pc /\ done' \subseteq Compacts) \/ (pc' = "merge" /\ done' = {})
        BY <1>1, <1>7, <1>b, <2>1 DEF Compact
    <2> QED BY <1>1, <1>a, <2>1, <2>2 DEF ShapeInv, Todo, Grid
<1>8. ASSUME NEW w \in Huffs, Merge(w) PROVE ShapeInv'
    <2>1. /\ pc = "merge" /\ Grid = Huffs /\ todo' = todo /\ todo # <<>> /\ compact' = compact
          /\ DOMAIN counts' = DOMAIN counts
        BY <1>8 DEF Merge, Grid, ShapeInv
    <2>2. (pc' = pc /\ done' \subseteq Huffs) \/ (pc' = "build" /\ done' = {})
        BY <1>1, <1>8, <1>b, <2>1 DEF Merge
    <2> QED BY <1>1, <1>a, <2>1, <2>2 DEF ShapeInv, Todo, Grid
<1>9. ASSUME pc # "upload", NEW c \in Chunks, ScanFlagged(c) \/ ScanSub(c) PROVE ShapeInv'
    <2>1. /\ pc = "scan" /\ Grid = Chunks /\ todo' = todo /\ todo # <<>> /\ compact' = compact /\ counts' = counts
        BY <1>9 DEF ScanFlagged, ScanSub, Grid, ShapeInv
    <2>2. (pc' = pc /\ done' \subseteq Chunks) \/ (pc' = "compact" /\ done' = {})
        <3>1. Through(c, Chunks, "compact") \/ (done' = done /\ pc' = pc)
            BY <1>9 DEF ScanFlagged, ScanSub, ScanOver
        <3> QED BY <1>1, <1>b, <2>1, <3>1
    <2>3. Chunks' = Chunks
        BY <2>1, CallKept
    <2> QED BY <1>1, <1>a, <2>1, <2>2, <2>3 DEF ShapeInv, Todo, Grid
<1>10. ASSUME NEW j \in 1 .. counts["raw"], Gather(j) PROVE ShapeInv'
    <2>1. /\ todo' = todo /\ todo # <<>> /\ compact' = compact /\ counts' = counts /\ pc' = pc
          /\ done' = done /\ pc # "upload" /\ pc # "groups"
          /\ pc # "scan"
        BY <1>10 DEF Gather, ShapeInv
    <2>2. Grid' = Grid
        BY <2>1 DEF Grid, HuffGrid
    <2> QED BY <1>1, <1>a, <2>1, <2>2 DEF ShapeInv, Todo
<1>11. ASSUME NEW b \in HuffGrid, BuildLut(b) \/ HuffDecode(b) PROVE ShapeInv'
    <2>1. /\ pc \in {"build", "decode"} /\ Grid = HuffGrid /\ todo' = todo /\ todo # <<>>
          /\ compact' = compact /\ counts' = counts
        BY <1>11 DEF BuildLut, HuffDecode, Grid, ShapeInv
    <2>2. (pc' = pc /\ done' \subseteq HuffGrid) \/ (pc' \in {"decode", "lz"} /\ done' = {})
        <3>1. Through(b, HuffGrid, "decode") \/ Through(b, HuffGrid, "lz")
            BY <1>11 DEF BuildLut, HuffDecode
        <3> QED BY <1>1, <1>b, <2>1, <3>1
    <2>3. HuffGrid' = HuffGrid
        BY <2>1 DEF HuffGrid
    <2> QED BY <1>1, <1>a, <2>1, <2>2, <2>3 DEF ShapeInv, Todo, Grid
<1>12. ASSUME pc = "groups", NEW g \in Groups, LzFlagged(g) \/ LzSub(g) PROVE ShapeInv'
    <2>1. /\ Grid = Groups /\ todo' = todo /\ todo # <<>> /\ compact' = compact /\ counts' = counts
        BY <1>12 DEF LzFlagged, LzSub, Grid, ShapeInv, LzRest
    <2>2. (pc' = pc /\ done' \subseteq Groups) \/ (pc' = "over" /\ done' = {})
        <3>1. Through(g, Groups, "over") \/ (done' = done /\ pc' = pc)
            BY <1>12 DEF LzFlagged, LzSub, NextChunk
        <3> QED BY <1>1, <1>b, <2>1, <3>1
    <2>3. Groups' = Groups
        BY <2>1, CallKept
    <2> QED BY <1>1, <1>12, <1>a, <2>1, <2>2, <2>3 DEF ShapeInv, Todo, Grid
<1>13. CASE UNCHANGED vars
    <2>1. /\ todo' = todo /\ compact' = compact /\ counts' = counts /\ pc' = pc /\ done' = done
        BY <1>13 DEF vars
    <2>2. Grid' = Grid
        BY <2>1, CallKept DEF Grid, HuffGrid
    <2> QED BY <1>1, <1>a, <2>1, <2>2 DEF ShapeInv, Todo
<1> QED BY <1>2, <1>3, <1>4, <1>5, <1>6, <1>7, <1>8, <1>9, <1>10, <1>11, <1>12, <1>13 DEF Next

\* Between the prefix sum and the next call nothing changes but what the running kernel
\* writes, and the kernels follow one another.
After == {<<"scan", "compact">>, <<"compact", "merge">>, <<"merge", "build">>, <<"build", "decode">>,
          <<"build", "lz">>, <<"decode", "lz">>, <<"lz", "groups">>, <<"groups", "over">>}

\* What a step of the kernels between the prefix sum and the next call leaves alone.
LEMMA BodyStep ==
    ASSUME [Next]_vars, ~Upload, ~PrefixSum, ~NextCall
    PROVE  /\ UNCHANGED <<todo, total, first, devTotal>>
           /\ pc' = pc \/ <<pc, pc'>> \in After
           /\ pc # "scan" => staged' = staged
           /\ pc # "compact" => compact' = compact
           /\ pc # "merge" => merged' = merged
           /\ pc # "build" => luts' = luts
           /\ pc \notin {"compact", "merge"} => counts' = counts
           /\ pc \notin {"merge", "build", "decode", "lz"} => UNCHANGED <<gathered, wrote, scratch>>
           /\ pc # "groups" => out' = out
           /\ pc' # pc => done' = {} \/ done' = done
<1> DEFINE Goal == /\ UNCHANGED <<todo, total, first, devTotal>>
                   /\ pc' = pc \/ <<pc, pc'>> \in After
                   /\ pc # "scan" => staged' = staged
                   /\ pc # "compact" => compact' = compact
                   /\ pc # "merge" => merged' = merged
                   /\ pc # "build" => luts' = luts
                   /\ pc \notin {"compact", "merge"} => counts' = counts
                   /\ pc \notin {"merge", "build", "decode", "lz"} => UNCHANGED <<gathered, wrote, scratch>>
                   /\ pc # "groups" => out' = out
                   /\ pc' # pc => done' = {} \/ done' = done
<1>1. CASE NoHuff
    BY <1>1 DEF NoHuff, After
<1>2. CASE LzStart
    BY <1>2 DEF LzStart, After
<1>3. ASSUME NEW w \in Compacts, Compact(w) PROVE Goal
    BY <1>3 DEF Compact, Through, After
<1>4. ASSUME NEW w \in Huffs, Merge(w) PROVE Goal
    BY <1>4 DEF Merge, Through, After
<1>5. ASSUME NEW c \in Chunks, ScanFlagged(c) PROVE Goal
    BY <1>5 DEF ScanFlagged, ScanOver, Through, After
<1>6. ASSUME NEW c \in Chunks, ScanSub(c) PROVE Goal
    <2>1. Through(c, Chunks, "compact") \/ (done' = done /\ pc' = pc)
        BY <1>6 DEF ScanSub, ScanOver
    <2>2. pc = "scan"
            /\ UNCHANGED <<todo, total, first, devTotal, compact, counts, merged, luts, gathered, scratch, wrote, out>>
        BY <1>6 DEF ScanSub
    <2> QED BY <2>1, <2>2 DEF Through, After
<1>7. ASSUME NEW j \in 1 .. counts["raw"], Gather(j) PROVE Goal
    BY <1>7 DEF Gather, Write, After
<1>8. ASSUME NEW b \in HuffGrid, BuildLut(b) PROVE Goal
    BY <1>8 DEF BuildLut, Through, After
<1>9. ASSUME NEW b \in HuffGrid, HuffDecode(b) PROVE Goal
    BY <1>9 DEF HuffDecode, Write, Through, After
<1>10. ASSUME NEW g \in Groups, LzFlagged(g) \/ LzSub(g) PROVE Goal
    <2>1. Through(g, Groups, "over") \/ (done' = done /\ pc' = pc)
        BY <1>10 DEF LzFlagged, LzSub, NextChunk
    <2>2. pc = "groups" /\ UNCHANGED LzRest
        BY <1>10 DEF LzFlagged, LzSub
    <2> QED BY <2>1, <2>2 DEF Through, After, LzRest
<1>11. CASE UNCHANGED vars
    BY <1>11 DEF vars
<1> QED BY <1>1, <1>2, <1>3, <1>4, <1>5, <1>6, <1>7, <1>8, <1>9, <1>10, <1>11 DEF Next

\* The three steps that change a call's own sizes.
LEMMA EdgeStep ==
    ASSUME ShapeInv, Upload \/ PrefixSum \/ NextCall
    PROVE  \/ Upload /\ pc' = "prefix" /\ todo' = todo /\ done' = {} /\ IsCall(Call)
           \/ PrefixSum /\ pc' = "scan" /\ todo' = todo /\ done' = {} /\ IsCall(Call)
           \/ NextCall /\ pc' = "upload"
<1>1. CASE Upload
    <2>1. todo # <<>> /\ 1 \in DOMAIN todo
        BY <1>1 DEF Upload, ShapeInv
    <2> QED BY <1>1, <2>1 DEF Upload, ShapeInv, Grid, Call
<1>2. CASE PrefixSum
    BY <1>2, RunningCall DEF PrefixSum, ShapeInv, Grid
<1>3. CASE NextCall
    BY <1>3 DEF NextCall
<1> QED BY <1>1, <1>2, <1>3

\* The host's room, kept through a call.
LEMMA SizeStep ==
    ASSUME ShapeInv, SizeInv, [Next]_vars
    PROVE  SizeInv'
<1> USE DEF Running, Scanned
<1>1. CASE Upload
    <2>1. pc' = "prefix" /\ todo' = todo /\ IsCall(Call)
        BY <1>1, EdgeStep DEF Upload, PrefixSum, NextCall
    <2>2. total' = HostTotal /\ staged' = Cleared(HostTotal) /\ gathered' = {} /\ wrote' = {} /\ out' = {}
        BY <1>1 DEF Upload
    <2>3. AllSubs' = AllSubs /\ HostTotal \in Nat /\ AllSubs <= HostTotal
        BY <2>1, CallKept, RoomForAll
    <2>4. staged' = Cleared(total')
        BY <2>2
    <2>5. staged' = Cleared(total)'
        BY <2>4 DEF Cleared, None
    <2> QED BY <2>1, <2>2, <2>3, <2>5 DEF SizeInv
<1>2. CASE PrefixSum
    <2>1. /\ pc = "prefix" /\ pc' = "scan" /\ UNCHANGED <<todo, total, gathered, wrote, out>>
          /\ first' = [c \in Chunks |-> SubsBefore(c)] /\ devTotal' = AllSubs
        BY <1>2 DEF PrefixSum
    <2>2. AllSubs' = AllSubs /\ Chunks' = Chunks /\ \A c : SubsBefore(c)' = SubsBefore(c)
        BY <2>1, CallKept
    <2>3. first' = [c \in Chunks |-> SubsBefore(c)]'
        BY <2>1, <2>2
    <2> QED BY <2>1, <2>2, <2>3 DEF SizeInv
<1>3. CASE NextCall
    BY <1>3 DEF NextCall, SizeInv
<1>4. CASE ~Upload /\ ~PrefixSum /\ ~NextCall
    <2>1. UNCHANGED <<todo, total, first, devTotal>> /\ (pc' = pc \/ <<pc, pc'>> \in After)
        BY <1>4, BodyStep
    <2>2. AllSubs' = AllSubs /\ [c \in Chunks |-> SubsBefore(c)]' = [c \in Chunks |-> SubsBefore(c)]
        BY <2>1, CallKept
    <2>3. Cleared(total)' = Cleared(total)
        BY <2>1 DEF Cleared, None
    <2>4. pc' \in Running => pc \in Running /\ (pc' # "prefix" => pc # "prefix") /\ (pc' = "prefix" => pc = "prefix")
        BY <2>1 DEF After
    <2>5. pc' \in Running => total' \in Nat /\ AllSubs' <= total'
        BY <2>1, <2>2, <2>4 DEF SizeInv
    <2>6. pc' \in {"scan"} \union Scanned => first' = [c \in Chunks |-> SubsBefore(c)]' /\ devTotal' = AllSubs'
        <3>1. pc' \in {"scan"} \union Scanned => pc \in {"scan"} \union Scanned
            BY <2>1 DEF After
        <3> QED BY <2>1, <2>2, <3>1 DEF SizeInv
    <2>7. pc' = "prefix" => staged' = Cleared(total)'
        <3>1. pc # "scan" => staged' = staged
            BY <1>4, BodyStep
        <3> QED BY <2>1, <2>3, <3>1 DEF SizeInv, After
    <2>8. pc' \in {"prefix", "scan", "compact"} => gathered' = {} /\ wrote' = {}
        <3>1. pc \notin {"merge", "build", "decode", "lz"} => UNCHANGED <<gathered, wrote>>
            BY <1>4, BodyStep
        <3>2. pc' \in {"prefix", "scan", "compact"} => pc \in {"prefix", "scan", "compact"}
            BY <2>1 DEF After
        <3> QED BY <3>1, <3>2 DEF SizeInv
    <2>9. pc' \in Running \ {"groups"} => out' = {}
        <3>1. pc # "groups" => out' = out
            BY <1>4, BodyStep
        <3>2. pc' \in Running \ {"groups"} => pc \in Running \ {"groups"}
            BY <2>1 DEF After
        <3> QED BY <3>1, <3>2 DEF SizeInv
    <2> QED BY <2>5, <2>6, <2>7, <2>8, <2>9 DEF SizeInv
<1> QED BY <1>1, <1>2, <1>3, <1>4

-----------------------------------------------------------------------------
(* The scan *)

\* The entries D of sub-chunk k0 of chunk c0 are staged, and nothing else is passed.
Stages(c0, k0, D) ==
    /\ \A s \in Streams : D[s] = None \/ (InLz(c0, k0) /\ D[s] = Desc(c0, k0, s))
    /\ staged' = [s \in Streams |-> [staged[s] EXCEPT ![Idx(c0, k0)] = D[s]]]
    /\ \A c \in Chunks : \A k \in Subs(c) : InLz(c, k) /\ Passed(c, k)' =>
           \/ Passed(c, k) /\ (c # c0 \/ k # k0)
           \/ c = c0 /\ k = k0 /\ \A s \in Streams : D[s] = Desc(c, k, s)

\* A scan thread writes the entry of one sub-chunk: what the others have staged stays.
LEMMA ScanWrites ==
    ASSUME ShapeInv, SizeInv, ScanInv, pc = "scan", todo' = todo, total' = total,
           NEW c0 \in Chunks, NEW k0 \in Subs(c0), NEW D, Stages(c0, k0, D)
    PROVE  (StagedShape /\ StagedOwn /\ StagedAll)'
<1>1. StagedShape /\ StagedOwn /\ StagedAll /\ AllSubs <= total /\ AllSubs \in Nat /\ total \in Nat
    BY RunningCall, SubSumsFacts DEF ScanInv, SizeInv, Running
<1>2. Idx(c0, k0) \in 0 .. total - 1
    BY <1>1, RunningCall, IdxFacts
<1>3. /\ Chunks' = Chunks /\ \A c : Subs(c)' = Subs(c)
      /\ \A c, k : (InLz(c, k)' <=> InLz(c, k)) /\ Idx(c, k)' = Idx(c, k)
      /\ \A c, k, s : Desc(c, k, s)' = Desc(c, k, s)
    BY CallKept
<1>4. /\ \A s \in Streams : staged'[s][Idx(c0, k0)] = D[s] /\ DOMAIN staged'[s] = 0 .. total - 1
      /\ \A s \in Streams, i \in 0 .. total - 1 : i # Idx(c0, k0) => staged'[s][i] = staged[s][i]
      /\ DOMAIN staged' = Streams
    BY <1>1, <1>2 DEF Stages, StagedShape
<1>5. StagedShape'
    BY <1>4 DEF StagedShape
<1>6. ASSUME NEW s \in Streams, NEW i \in 0 .. total - 1
      PROVE  \/ staged'[s][i] = None
             \/ \E c \in Chunks : \E k \in Subs(c) :
                   InLz(c, k) /\ i = Idx(c, k) /\ staged'[s][i] = Desc(c, k, s)
    <2>1. CASE i = Idx(c0, k0)
        BY <1>4, <2>1 DEF Stages
    <2>2. CASE i # Idx(c0, k0)
        <3>1. staged'[s][i] = staged[s][i]
            BY <1>4, <2>2
        <3>2. \/ staged[s][i] = None
              \/ \E c \in Chunks : \E k \in Subs(c) :
                    InLz(c, k) /\ i = Idx(c, k) /\ staged[s][i] = Desc(c, k, s)
            BY <1>1 DEF StagedOwn
        <3> QED BY <3>1, <3>2, Zenon
    <2> QED BY <2>1, <2>2
<1>7. StagedOwn'
    <2>1. None' = None
        BY DEF None
    <2> QED BY <1>3, <1>6, <2>1 DEF StagedOwn
<1>8. ASSUME NEW s \in Streams, NEW c \in Chunks, NEW k \in Subs(c), InLz(c, k), Passed(c, k)'
      PROVE  staged'[s][Idx(c, k)] = Desc(c, k, s)
    <2>1. CASE c = c0 /\ k = k0 /\ D[s] = Desc(c, k, s)
        BY <1>4, <2>1
    <2>2. CASE Passed(c, k) /\ (c # c0 \/ k # k0)
        <3>1. Idx(c, k) # Idx(c0, k0) /\ Idx(c, k) \in 0 .. total - 1
            BY <1>1, <2>2, RunningCall, IdxFacts
        <3>2. staged[s][Idx(c, k)] = Desc(c, k, s)
            BY <1>1, <1>8, <2>2 DEF StagedAll
        <3> QED BY <1>4, <3>1, <3>2
    <2> QED BY <1>8, <2>1, <2>2 DEF Stages
<1>9. StagedAll'
    BY <1>3, <1>8 DEF StagedAll
<1> QED BY <1>5, <1>7, <1>9

\* The end of a scan thread: its chunk is through, and with the last the scan.
LEMMA ScanOverPassed ==
    ASSUME pc = "scan", done \subseteq Chunks, NEW c0 \in Chunks, ScanOver(c0), todo' = todo
    PROVE  /\ pc' \in {"scan", "compact"} /\ pos' = pos
           /\ pc' = "scan" => done' = done \union {c0}
           /\ \A c \in Chunks : \A k : Passed(c, k)' => c = c0 \/ Passed(c, k)
<1>1. pc' \in {"scan", "compact"} /\ pos' = pos /\ (pc' = "scan" => done' = done \union {c0})
      /\ (pc' = "compact" => done \union {c0} = Chunks)
    BY DEF ScanOver, Through
<1> QED BY <1>1 DEF Passed

\* What the prefix sum finds, and what each step of a scan thread keeps.
LEMMA ScanStep ==
    ASSUME ShapeInv, SizeInv, ScanInv, [Next]_vars
    PROVE  ScanInv'
<1> USE DEF Running, Scanned
<1>1. CASE Upload
    BY <1>1 DEF Upload, ScanInv, ScanPos
<1>2. CASE NextCall
    BY <1>2 DEF NextCall, ScanInv, ScanPos
<1>3. CASE PrefixSum
    <2>1. /\ pc = "prefix" /\ pc' = "scan" /\ todo' = todo /\ total' = total /\ staged' = staged
          /\ pos' = [c \in Chunks |-> 1] /\ done' = {} /\ IsCall(Call)
        BY <1>3, EdgeStep DEF PrefixSum, Upload, NextCall
    <2>2. Chunks' = Chunks /\ \A c : Subs(c)' = Subs(c)
        BY <2>1, CallKept
    <2>3. \A c \in Chunks : 1 \in Subs(c)
        BY <2>1, CallFacts, ScanAssumption DEF Subs
    <2>4. ScanPos'
        BY <2>1, <2>2, <2>3 DEF ScanPos
    <2>5. staged' = Cleared(total) /\ total \in Nat
        BY <2>1 DEF SizeInv
    <2>6. StagedShape'
        BY <2>1, <2>5 DEF StagedShape, Cleared, Streams
    <2>7. StagedOwn'
        <3>1. \A s \in Streams, i \in 0 .. total - 1 : staged'[s][i] = None
            BY <2>5 DEF Cleared, Streams
        <3>2. None' = None
            BY DEF None
        <3> QED BY <2>1, <3>1, <3>2 DEF StagedOwn
    <2>8. \A c \in Chunks : \A k \in Subs(c) : ~Passed(c, k)'
        BY <2>1, CallFacts, IdxFacts DEF Passed, Subs
    <2>9. StagedAll'
        BY <2>2, <2>8 DEF StagedAll
    <2> QED BY <2>4, <2>6, <2>7, <2>9 DEF ScanInv
<1>4. ASSUME NEW c0 \in Chunks, ScanFlagged(c0) PROVE ScanInv'
    <2>1. /\ pc = "scan" /\ c0 \notin done /\ UNCHANGED <<todo, total>> /\ ScanOver(c0)
          /\ staged' = [s \in Streams |-> [staged[s] EXCEPT ![first[c0]] = None]]
        BY <1>4 DEF ScanFlagged, Stage, Streams
    <2>2. IsCall(Call) /\ 1 \in Subs(c0) /\ Idx(c0, 1) = first[c0] /\ done \subseteq Chunks
        <3>1. IsCall(Call) /\ 1 \in Subs(c0)
            BY <2>1, RunningCall, CallFacts, ScanAssumption DEF Subs
        <3>2. first[c0] = SubsBefore(c0) /\ done \subseteq Chunks
            BY <2>1 DEF SizeInv, ShapeInv, Grid
        <3>3. SubsBefore(c0) + 1 - 1 = Idx(c0, 1) /\ SubsBefore(c0) \in Nat
            <4>1. c0 - 1 \in 0 .. Len(Call.chunks)
                BY <3>1, CallFacts DEF Chunks
            <4> QED BY <3>1, <4>1, IdxFacts, SubSumsFacts DEF SubsBefore
        <3> QED BY <3>1, <3>2, <3>3
    <2>3. \A k : ~InLz(c0, k)
        <3>1. ~IsLz(c0)
            <4>1. Chunk(c0).decomp \in Nat
                BY <2>2, CallFacts, ScanAssumption
            <4> QED BY <1>4, <4>1 DEF ScanFlagged, IsLz
        <3> QED BY <3>1 DEF InLz
    <2>D. PICK D : D = [s \in Streams |-> None]
        OBVIOUS
    <2>4. staged' = [s \in Streams |-> [staged[s] EXCEPT ![Idx(c0, 1)] = D[s]]]
        BY <2>1, <2>2, <2>D
    <2>5. pc' \in {"scan", "compact"} /\ pos' = pos /\ (pc' = "scan" => done' = done \union {c0})
          /\ \A c \in Chunks : \A k : Passed(c, k)' => c = c0 \/ Passed(c, k)
        BY <2>1, <2>2, ScanOverPassed
    <2>6. \A s \in Streams : D[s] = None
        BY <2>D
    <2>7. \A c \in Chunks : \A k \in Subs(c) : InLz(c, k) /\ Passed(c, k)' => Passed(c, k) /\ (c # c0 \/ k # 1)
        BY <2>3, <2>5
    <2>8. (StagedShape /\ StagedOwn /\ StagedAll)'
        <3>1. Stages(c0, 1, D)
            BY <2>4, <2>6, <2>7 DEF Stages
        <3> QED BY <2>1, <2>2, <3>1, ScanWrites
    <2>9. ScanPos'
        <3>1. /\ Chunks' = Chunks /\ \A c : Subs(c)' = Subs(c) /\ (IsLz(c)' <=> IsLz(c))
              /\ \A c, j : Sub(c, j)' = Sub(c, j)
            BY <2>1, CallKept
        <3> QED BY <2>1, <2>5, <3>1 DEF ScanPos, ScanInv
    <2> QED BY <2>8, <2>9 DEF ScanInv
<1>5. ASSUME NEW c0 \in Chunks, ScanSub(c0) PROVE ScanInv'
    <2>0. PICK k0 : k0 = pos[c0]
        OBVIOUS
    <2>1. /\ pc = "scan" /\ c0 \notin done /\ UNCHANGED <<todo, total>> /\ IsLz(c0)
        BY <1>5 DEF ScanSub, IsLz
    <2>2. /\ IsCall(Call) /\ k0 \in Subs(c0) /\ first[c0] + k0 - 1 = Idx(c0, k0) /\ done \subseteq Chunks
          /\ DOMAIN pos = Chunks /\ \A j \in 1 .. k0 - 1 : Sub(c0, j).lz
        <3>1. IsCall(Call) /\ k0 \in Subs(c0) /\ DOMAIN pos = Chunks /\ \A j \in 1 .. k0 - 1 : Sub(c0, j).lz
            BY <2>0, <2>1, RunningCall DEF ScanInv, ScanPos
        <3>2. first[c0] = SubsBefore(c0) /\ done \subseteq Chunks
            BY <2>1 DEF SizeInv, ShapeInv, Grid
        <3> QED BY <3>1, <3>2, IdxFacts
    <2>3. k0 \in Nat /\ k0 >= 1 /\ NSubs(Chunk(c0)) \in Nat /\ k0 <= NSubs(Chunk(c0))
        BY <2>2, CallFacts, IdxFacts, ScanAssumption DEF Subs
    <2>4. /\ Chunks' = Chunks /\ \A c : Subs(c)' = Subs(c) /\ (IsLz(c)' <=> IsLz(c))
          /\ \A c, j : Sub(c, j)' = Sub(c, j)
        BY <2>1, CallKept
    <2>5. CASE ~Sub(c0, k0).lz
        <3>D. PICK D : D = [s \in Streams |-> None]
            OBVIOUS
        <3>1. staged' = [s \in Streams |-> [staged[s] EXCEPT ![first[c0] + k0 - 1] = None]] /\ ScanOver(c0)
            BY <1>5, <2>0, <2>5 DEF ScanSub, Stage, Streams
        <3>2. staged' = [s \in Streams |-> [staged[s] EXCEPT ![Idx(c0, k0)] = D[s]]]
            BY <2>2, <3>1, <3>D
        <3>3. \A s \in Streams : D[s] = None
            BY <3>D
        <3>4. pc' \in {"scan", "compact"} /\ pos' = pos /\ (pc' = "scan" => done' = done \union {c0})
              /\ \A c \in Chunks : \A k : Passed(c, k)' => c = c0 \/ Passed(c, k)
            BY <2>1, <2>2, <3>1, ScanOverPassed
        <3>5. ASSUME NEW k \in Subs(c0), InLz(c0, k) PROVE k < k0 /\ Passed(c0, k)
            <4>1. k \in Nat /\ \A j \in 1 .. k : Sub(c0, j).lz
                BY <2>2, <3>5, IdxFacts DEF InLz
            <4>2. k < k0
                BY <2>3, <2>5, <4>1
            <4> QED BY <2>0, <4>2 DEF Passed
        <3>6. \A c \in Chunks : \A k \in Subs(c) : InLz(c, k) /\ Passed(c, k)' => Passed(c, k) /\ (c # c0 \/ k # k0)
            BY <2>3, <3>4, <3>5
        <3>7. (StagedShape /\ StagedOwn /\ StagedAll)'
            <4>1. Stages(c0, k0, D)
                BY <3>2, <3>3, <3>6 DEF Stages
            <4> QED BY <2>1, <2>2, <4>1, ScanWrites
        <3>8. ScanPos'
            BY <2>1, <2>4, <3>4 DEF ScanPos, ScanInv
        <3> QED BY <3>7, <3>8 DEF ScanInv
    <2>6. CASE Sub(c0, k0).lz
        <3>D. PICK D : D = [s \in Streams |-> Desc(c0, k0, s)]
            OBVIOUS
        <3>1. staged' = [s \in Streams |-> [staged[s] EXCEPT ![Idx(c0, k0)] = D[s]]]
            <4>1. first[c0] + pos[c0] - 1 = Idx(c0, pos[c0])
                BY <2>0, <2>2
            <4>2. staged' = [s \in Streams |-> [staged[s] EXCEPT ![first[c0] + pos[c0] - 1] =
                                 StagedAs(c0, pos[c0], first[c0] + pos[c0] - 1, s)]]
                BY <1>5, <2>0, <2>6 DEF ScanSub, Stage, Streams
            <4> QED BY <2>0, <3>D, <4>1, <4>2 DEF Desc
        <3>2. \A s \in Streams : D[s] = Desc(c0, k0, s)
            BY <3>D
        <3>3. InLz(c0, k0)
            <4>1. \A j \in 1 .. k0 : j = k0 \/ j \in 1 .. k0 - 1
                BY <2>3
            <4> QED BY <2>1, <2>2, <2>6, <4>1 DEF InLz
        <3>4. CASE k0 = NSubs(Chunk(c0)) \/ k0 = Len(Chunk(c0).subs)
            <4>1. k0 = NSubs(Chunk(c0))
                <5>1. Len(Chunk(c0).subs) = NSubs(Chunk(c0))
                    BY <2>1, <2>2, CallFacts DEF IsChunk, IsLz
                <5> QED BY <3>4, <5>1
            <4>2. ScanOver(c0)
                BY <1>5, <2>0, <2>6, <3>4 DEF ScanSub
            <4>3. pc' \in {"scan", "compact"} /\ pos' = pos /\ (pc' = "scan" => done' = done \union {c0})
                  /\ \A c \in Chunks : \A k : Passed(c, k)' => c = c0 \/ Passed(c, k)
                BY <2>1, <2>2, <4>2, ScanOverPassed
            <4>4. ASSUME NEW k \in Subs(c0) PROVE k = k0 \/ (k # k0 /\ Passed(c0, k))
                BY <2>0, <2>3, <4>1 DEF Passed, Subs
            <4>5. \A c \in Chunks : \A k \in Subs(c) : InLz(c, k) /\ Passed(c, k)' =>
                      \/ Passed(c, k) /\ (c # c0 \/ k # k0)
                      \/ c = c0 /\ k = k0 /\ \A s \in Streams : D[s] = Desc(c, k, s)
                BY <3>2, <4>3, <4>4
            <4>6. (StagedShape /\ StagedOwn /\ StagedAll)'
                <5>1. Stages(c0, k0, D)
                    BY <3>1, <3>2, <3>3, <4>5 DEF Stages
                <5> QED BY <2>1, <2>2, <5>1, ScanWrites
            <4>7. ScanPos'
                BY <2>1, <2>4, <4>3 DEF ScanPos, ScanInv
            <4> QED BY <4>6, <4>7 DEF ScanInv
        <3>5. CASE ~(k0 = NSubs(Chunk(c0)) \/ k0 = Len(Chunk(c0).subs))
            <4>1. pos' = [pos EXCEPT ![c0] = k0 + 1] /\ UNCHANGED <<done, pc>>
                BY <1>5, <2>0, <2>6, <3>5 DEF ScanSub
            <4>2. k0 + 1 \in Subs(c0)
                BY <2>3, <3>5 DEF Subs
            <4>3. ASSUME NEW c \in Chunks, NEW k \in Subs(c), Passed(c, k)'
                  PROVE  (Passed(c, k) /\ (c # c0 \/ k # k0)) \/ (c = c0 /\ k = k0)
                <5>1. CASE c # c0
                    BY <2>0, <2>1, <2>2, <4>1, <4>3, <5>1 DEF Passed
                <5>2. CASE c = c0
                    <6>1. k \in Nat /\ k < k0 + 1
                        BY <2>1, <2>2, <4>1, <4>3, <5>2, IdxFacts DEF Passed
                    <6> QED BY <2>0, <2>3, <5>2, <6>1 DEF Passed
                <5> QED BY <5>1, <5>2
            <4>5. \A c \in Chunks : \A k \in Subs(c) : InLz(c, k) /\ Passed(c, k)' =>
                      \/ Passed(c, k) /\ (c # c0 \/ k # k0)
                      \/ c = c0 /\ k = k0 /\ \A s \in Streams : D[s] = Desc(c, k, s)
                BY <3>2, <4>3
            <4>6. (StagedShape /\ StagedOwn /\ StagedAll)'
                <5>1. Stages(c0, k0, D)
                    BY <3>1, <3>2, <3>3, <4>5 DEF Stages
                <5> QED BY <2>1, <2>2, <5>1, ScanWrites
            <4>7. ScanPos'
                <5>1. ASSUME NEW c \in Chunks \ done
                      PROVE  pos'[c] \in Subs(c) /\ (IsLz(c) => \A j \in 1 .. pos'[c] - 1 : Sub(c, j).lz)
                    <6>1. CASE c # c0
                        <7>1. pos'[c] = pos[c]
                            BY <2>2, <4>1, <6>1
                        <7> QED BY <2>1, <7>1 DEF ScanPos, ScanInv
                    <6>2. CASE c = c0
                        <7>1. pos'[c] = k0 + 1
                            BY <2>2, <4>1, <6>2
                        <7>2. \A j \in 1 .. (k0 + 1) - 1 : Sub(c0, j).lz
                            <8>1. (k0 + 1) - 1 = k0
                                BY <2>3
                            <8> QED BY <3>3, <8>1 DEF InLz
                        <7> QED BY <4>2, <6>2, <7>1, <7>2
                    <6> QED BY <6>1, <6>2
                <5>2. DOMAIN pos' = Chunks
                    BY <2>2, <4>1
                <5> QED BY <2>4, <4>1, <5>1, <5>2 DEF ScanPos
            <4> QED BY <4>6, <4>7 DEF ScanInv
        <3> QED BY <3>4, <3>5
    <2> QED BY <2>5, <2>6
<1>6. CASE ~Upload /\ ~PrefixSum /\ ~NextCall /\ pc # "scan"
    <2>1. UNCHANGED <<todo, total, staged>> /\ (pc' = pc \/ <<pc, pc'>> \in After)
        BY <1>6, BodyStep
    <2>2. pc' # "scan" /\ (pc' \in Scanned => pc \in Scanned)
        BY <1>6, <2>1 DEF After
    <2>3. ScanPos'
        BY <2>2 DEF ScanPos
    <2>4. ASSUME pc' \in Scanned PROVE (StagedShape /\ StagedOwn /\ StagedAll)'
        <3>1. StagedShape /\ StagedOwn /\ StagedAll
            BY <2>2, <2>4 DEF ScanInv
        <3>2. /\ Chunks' = Chunks /\ \A c : Subs(c)' = Subs(c)
              /\ \A c, k : (InLz(c, k)' <=> InLz(c, k)) /\ Idx(c, k)' = Idx(c, k)
              /\ \A c, k, s : Desc(c, k, s)' = Desc(c, k, s)
            BY <2>1, CallKept
        <3>3. \A c, k : Passed(c, k)
            BY <1>6 DEF Passed
        <3>4. StagedShape'
            BY <2>1, <3>1 DEF StagedShape
        <3>5. StagedOwn'
            BY <2>1, <3>1, <3>2 DEF StagedOwn, None
        <3>6. StagedAll'
            BY <2>1, <3>1, <3>2, <3>3 DEF StagedAll
        <3> QED BY <3>4, <3>5, <3>6
    <2> QED BY <2>2, <2>3, <2>4 DEF ScanInv
<1>7. CASE UNCHANGED vars
    <2>1. UNCHANGED <<todo, total, staged, pc, done, pos>>
        BY <1>7 DEF vars
    <2>2. /\ Chunks' = Chunks /\ \A c : Subs(c)' = Subs(c) /\ (IsLz(c)' <=> IsLz(c))
          /\ \A c, k : (InLz(c, k)' <=> InLz(c, k)) /\ Idx(c, k)' = Idx(c, k) /\ Sub(c, k)' = Sub(c, k)
          /\ \A c, k, s : Desc(c, k, s)' = Desc(c, k, s)
        BY <2>1, CallKept
    <2>3. \A c, k : Passed(c, k)' <=> Passed(c, k)
        BY <2>1 DEF Passed
    <2>4. ScanPos'
        BY <2>1, <2>2 DEF ScanInv, ScanPos
    <2>5. pc' \in {"scan"} \union Scanned => StagedShape'
        BY <2>1 DEF ScanInv, StagedShape
    <2>6. pc' \in {"scan"} \union Scanned => StagedOwn'
        BY <2>1, <2>2 DEF ScanInv, StagedOwn, None
    <2>7. pc' \in {"scan"} \union Scanned => StagedAll'
        BY <2>1, <2>2, <2>3 DEF ScanInv, StagedAll
    <2> QED BY <2>4, <2>5, <2>6, <2>7 DEF ScanInv
<1>8. pc = "scan" => \/ Upload \/ PrefixSum \/ NextCall \/ UNCHANGED vars
                     \/ \E c \in Chunks : ScanFlagged(c) \/ ScanSub(c)
    BY DEF Next, NoHuff, LzStart, Compact, Merge, Gather, BuildLut, HuffDecode
<1> QED BY <1>1, <1>2, <1>3, <1>4, <1>5, <1>6, <1>7, <1>8

-----------------------------------------------------------------------------
(* The compaction *)

\* What is staged when the scan is through, by its place and by its sub-chunk.
LEMMA StagedAt ==
    ASSUME ShapeInv, SizeInv, ScanInv, pc = "compact", NEW s \in Streams, NEW i \in 0 .. devTotal - 1, staged[s][i].valid
    PROVE  /\ \E c \in Chunks : \E k \in Subs(c) : InLz(c, k) /\ Desc(c, k, s).valid /\ staged[s][i] = Desc(c, k, s)
           /\ staged[s][i].out = 2 * i + Plane(s)
<1>1. IsCall(Call) /\ StagedOwn /\ devTotal = AllSubs /\ AllSubs <= total /\ AllSubs \in Nat /\ total \in Nat
    BY RunningCall, SubSumsFacts DEF ScanInv, SizeInv, Running, Scanned
<1>2. i \in 0 .. total - 1
    BY <1>1
<1>3. staged[s][i] # None
    BY DEF None
<1>4. PICK c \in Chunks : \E k \in Subs(c) : InLz(c, k) /\ i = Idx(c, k) /\ staged[s][i] = Desc(c, k, s)
    BY <1>1, <1>2, <1>3 DEF StagedOwn
<1> PICK k \in Subs(c) : InLz(c, k) /\ i = Idx(c, k) /\ staged[s][i] = Desc(c, k, s)
    BY <1>4
<1>5. Coded(c, k, s) /\ Desc(c, k, s) = [valid |-> TRUE, out |-> 2 * Idx(c, k) + Plane(s), data |-> <<c, k, s>>]
    BY <1>1, <1>4, DescFacts
<1>6. Desc(c, k, s).valid /\ Desc(c, k, s).out = 2 * i + Plane(s)
    BY <1>5
<1> QED BY <1>6

\* And for each stream of a sub-chunk that is LZ its descriptor is staged at its number.
LEMMA StagedFor ==
    ASSUME ShapeInv, SizeInv, ScanInv, pc = "compact", NEW c \in Chunks, NEW k \in Subs(c),
        NEW s \in Streams, InLz(c, k)
    PROVE  Idx(c, k) \in 0 .. devTotal - 1 /\ staged[s][Idx(c, k)] = Desc(c, k, s)
<1>1. IsCall(Call) /\ StagedAll /\ devTotal = AllSubs /\ AllSubs \in Nat
    BY RunningCall, SubSumsFacts DEF ScanInv, SizeInv, Running, Scanned
<1>2. Passed(c, k)
    BY DEF Passed
<1> QED BY <1>1, <1>2, IdxFacts DEF StagedAll

\* A list of entries from which the compaction takes those of kind w.
Sources(es, w) ==
    /\ Len(es) \in Nat /\ Apart(es)
    /\ \A i \in 1 .. Len(es) : es[i].valid =>
          \E c \in Chunks : \E k \in Subs(c) : \E s \in Of(w) :
              InLz(c, k) /\ Desc(c, k, s).valid /\ es[i] = Desc(c, k, s)
    /\ \A c \in Chunks : \A k \in Subs(c) : \A s \in Of(w) :
          InLz(c, k) /\ Desc(c, k, s).valid => \E i \in 1 .. Len(es) : es[i] = Desc(c, k, s)

\* The entries of one Huffman stream.
LEMMA EntriesAre ==
    ASSUME ShapeInv, SizeInv, ScanInv, pc = "compact", NEW w \in Huffs
    PROVE  Sources(Entries(w), w)
<1> DEFINE es == Entries(w)
<1>1. devTotal \in Nat
    BY RunningCall, SubSumsFacts DEF SizeInv, Scanned
<1>2. Len(es) = devTotal /\ \A i \in 1 .. devTotal : es[i] = staged[w][i - 1] /\ i - 1 \in 0 .. devTotal - 1
    BY <1>1 DEF Entries
<1>3. w \in Streams /\ Of(w) = {w}
    BY DEF Streams, Of, Huffs
<1> HIDE DEF es
<1>4. ASSUME NEW i \in 1 .. Len(es), es[i].valid
      PROVE  /\ es[i].out = 2 * (i - 1) + Plane(w)
             /\ \E c \in Chunks : \E k \in Subs(c) : InLz(c, k) /\ Desc(c, k, w).valid /\ es[i] = Desc(c, k, w)
    <2>1. es[i] = staged[w][i - 1] /\ i - 1 \in 0 .. devTotal - 1
        BY <1>2
    <2> QED BY <1>3, <1>4, <2>1, StagedAt
<1>5. Apart(es)
    <2>1. ASSUME NEW i \in 1 .. Len(es), NEW j \in 1 .. Len(es), es[i].valid, es[j].valid, es[i].out = es[j].out
          PROVE  i = j
        <3>1. 2 * (i - 1) + Plane(w) = 2 * (j - 1) + Plane(w) /\ Plane(w) \in Nat
            BY <1>4, <2>1 DEF Plane
        <3> QED BY <1>1, <1>2, <3>1
    <2> QED BY <2>1 DEF Apart
<1>6. ASSUME NEW c \in Chunks, NEW k \in Subs(c), InLz(c, k)
      PROVE  \E i \in 1 .. Len(es) : es[i] = Desc(c, k, w)
    <2>1. Idx(c, k) \in 0 .. devTotal - 1 /\ staged[w][Idx(c, k)] = Desc(c, k, w)
        BY <1>3, <1>6, StagedFor
    <2>2. Idx(c, k) + 1 \in 1 .. devTotal /\ (Idx(c, k) + 1) - 1 = Idx(c, k)
        BY <1>1, <2>1
    <2> QED BY <1>2, <2>1, <2>2
<1>7. Sources(es, w)
    BY <1>1, <1>2, <1>3, <1>4, <1>5, <1>6 DEF Sources
<1> QED BY <1>7 DEF es

\* The entries of the two raw planes, one behind the other for each sub-chunk.
LEMMA InterleavedAre ==
    ASSUME ShapeInv, SizeInv, ScanInv, pc = "compact"
    PROVE  Sources(Interleaved, "raw")
<1> DEFINE es == Interleaved
           plane(i) == IF i % 2 = 1 THEN "rawHi" ELSE "rawLo"
<1>1. devTotal \in Nat
    BY RunningCall, SubSumsFacts DEF SizeInv, Scanned
<1>2. Len(es) = 2 * devTotal /\ \A i \in 1 .. 2 * devTotal : es[i] = staged[plane(i)][(i - 1) \div 2]
    BY <1>1 DEF Interleaved
<1>3. \A i \in 1 .. 2 * devTotal : /\ (i - 1) \div 2 \in 0 .. devTotal - 1 /\ plane(i) \in Raws
                                   /\ 2 * ((i - 1) \div 2) + Plane(plane(i)) = i - 1
    BY <1>1 DEF Plane, Raws
<1>4. Of("raw") = Raws /\ Raws \subseteq Streams
    BY DEF Of, Streams
<1> HIDE DEF es, plane
<1>5. ASSUME NEW i \in 1 .. Len(es), es[i].valid
      PROVE  /\ es[i].out = i - 1
             /\ \E c \in Chunks : \E k \in Subs(c) : \E s \in Raws :
                   InLz(c, k) /\ Desc(c, k, s).valid /\ es[i] = Desc(c, k, s)
    <2>1. /\ es[i] = staged[plane(i)][(i - 1) \div 2] /\ (i - 1) \div 2 \in 0 .. devTotal - 1
          /\ plane(i) \in Raws /\ plane(i) \in Streams /\ 2 * ((i - 1) \div 2) + Plane(plane(i)) = i - 1
        BY <1>2, <1>3, <1>4
    <2>2. PICK s \in Raws, j \in 0 .. devTotal - 1 : s = plane(i) /\ j = (i - 1) \div 2
        BY <2>1
    <2>3. s \in Streams /\ es[i] = staged[s][j] /\ 2 * j + Plane(s) = i - 1
        BY <2>1, <2>2
    <2>4. /\ \E c \in Chunks : \E k \in Subs(c) : InLz(c, k) /\ Desc(c, k, s).valid /\ staged[s][j] = Desc(c, k, s)
          /\ staged[s][j].out = 2 * j + Plane(s)
        BY <1>5, <2>3, StagedAt
    <2> QED BY <2>2, <2>3, <2>4
<1>6. Apart(es)
    <2>1. ASSUME NEW i \in 1 .. Len(es), NEW j \in 1 .. Len(es), es[i].valid, es[j].valid, es[i].out = es[j].out
          PROVE  i = j
        <3>1. i - 1 = j - 1
            BY <1>5, <2>1
        <3> QED BY <1>1, <1>2, <3>1
    <2> QED BY <2>1 DEF Apart
<1>7. ASSUME NEW c \in Chunks, NEW k \in Subs(c), NEW s \in Raws, InLz(c, k)
      PROVE  \E i \in 1 .. Len(es) : es[i] = Desc(c, k, s)
    <2>1. Idx(c, k) \in 0 .. devTotal - 1 /\ staged[s][Idx(c, k)] = Desc(c, k, s)
        BY <1>4, <1>7, StagedFor
    <2> DEFINE i == 2 * Idx(c, k) + Plane(s) + 1
    <2>2. i \in 1 .. 2 * devTotal /\ (i - 1) \div 2 = Idx(c, k) /\ plane(i) = s
        BY <1>1, <2>1 DEF Plane, plane, Raws
    <2> QED BY <1>2, <2>1, <2>2
<1>8. Sources(es, "raw")
    BY <1>1, <1>2, <1>4, <1>5, <1>6, <1>7 DEF Sources
<1> QED BY <1>8 DEF es

\* The compaction makes a list of its sources.
LEMMA ListOfSources ==
    ASSUME NEW es, NEW w, Sources(es, w)
    PROVE  Lists(ValidOf(es), w)
<1> DEFINE l == ValidOf(es)
           E == {es[i] : i \in 1 .. Len(es)}
<1>1. Keeps(l, es, Len(es))
    BY KeepsValid DEF Sources
<1> HIDE DEF l
<1>2. l \in Seq({l[n] : n \in DOMAIN l})
    <2>1. l \in Seq(E)
        BY <1>1 DEF Keeps
    <2> HIDE DEF E
    <2> QED BY <2>1
<1>3. \A n \in 1 .. Len(l) : \E c \in Chunks : \E k \in Subs(c) : \E s \in Of(w) :
          InLz(c, k) /\ Desc(c, k, s).valid /\ l[n] = Desc(c, k, s)
    <2> SUFFICES ASSUME NEW n \in 1 .. Len(l)
                 PROVE  \E c \in Chunks : \E k \in Subs(c) : \E s \in Of(w) :
                            InLz(c, k) /\ Desc(c, k, s).valid /\ l[n] = Desc(c, k, s)
        OBVIOUS
    <2>1. PICK i \in 1 .. Len(es) : es[i].valid /\ l[n] = es[i]
        BY <1>1 DEF Keeps
    <2> QED BY <2>1 DEF Sources
<1>4. \A m, n \in 1 .. Len(l) : l[m].out = l[n].out => m = n
    BY <1>1 DEF Keeps
<1>5. ASSUME NEW c \in Chunks, NEW k \in Subs(c), NEW s \in Of(w), InLz(c, k), Desc(c, k, s).valid
      PROVE  \E n \in 1 .. Len(l) : l[n] = Desc(c, k, s)
    <2>1. PICK i \in 1 .. Len(es) : es[i] = Desc(c, k, s)
        BY <1>5 DEF Sources
    <2>2. es[i].valid
        BY <1>5, <2>1
    <2>3. \E n \in 1 .. Len(l) : l[n] = es[i]
        BY <1>1, <2>2 DEF Keeps
    <2> QED BY <2>1, <2>3
<1>6. Lists(l, w)
    BY <1>2, <1>3, <1>4, <1>5 DEF Lists
<1> QED BY <1>6 DEF l

\* A list stays one while its call runs.
LEMMA ListsKept ==
    ASSUME todo' = todo, NEW l, NEW w, Lists(l, w)
    PROVE  Lists(l, w)'
<1>1. /\ Chunks' = Chunks /\ \A c : Subs(c)' = Subs(c) /\ Of(w)' = Of(w)
      /\ \A c, k : (InLz(c, k)' <=> InLz(c, k))
      /\ \A c, k, s : Desc(c, k, s)' = Desc(c, k, s)
    BY CallKept DEF Of
<1>2. \A n \in 1 .. Len(l) : \E c \in Chunks' : \E k \in Subs(c)' : \E s \in Of(w)' :
          InLz(c, k)' /\ Desc(c, k, s)'.valid /\ l[n] = Desc(c, k, s)'
    <2> SUFFICES ASSUME NEW n \in 1 .. Len(l)
                 PROVE  \E c \in Chunks : \E k \in Subs(c)' : \E s \in Of(w)' :
                            InLz(c, k)' /\ Desc(c, k, s)'.valid /\ l[n] = Desc(c, k, s)'
        BY <1>1
    <2>1. PICK c \in Chunks : \E k \in Subs(c) : \E s \in Of(w) :
              InLz(c, k) /\ Desc(c, k, s).valid /\ l[n] = Desc(c, k, s)
        BY DEF Lists
    <2> QED BY <1>1, <2>1
<1>3. ASSUME NEW c \in Chunks, NEW k \in Subs(c), NEW s \in Of(w), InLz(c, k)', Desc(c, k, s)'.valid
      PROVE  \E n \in 1 .. Len(l) : l[n] = Desc(c, k, s)'
    BY <1>1, <1>3 DEF Lists
<1> QED BY <1>1, <1>2, <1>3 DEF Lists

\* The list of kind w is complete, and its length known.
ListDone(w) == pc \in Compacted \/ (pc = "compact" /\ w \in done)

\* A complete list stays so while neither it nor its count changes.
LEMMA ListDoneKept ==
    ASSUME todo' = todo, NEW w, Lists(compact[w], w), counts[w] = Len(compact[w]),
           compact'[w] = compact[w], counts'[w] = counts[w]
    PROVE  (Lists(compact[w], w) /\ counts[w] = Len(compact[w]))'
<1>1. PICK l : l = compact[w]
    OBVIOUS
<1>2. Lists(l, w)'
    BY <1>1, ListsKept
<1>3. Lists(compact[w], w)'
    BY <1>1, <1>2 DEF Lists
<1> QED BY <1>3

\* The lists are what the scan has staged.
LEMMA CompactStep ==
    ASSUME ShapeInv, SizeInv, ScanInv, CompactInv, [Next]_vars
    PROVE  CompactInv'
<1> USE DEF Compacted
<1> SUFFICES ASSUME NEW w \in Compacts, pc' \in Compacted \/ (pc' = "compact" /\ w \in done')
             PROVE  (Lists(compact[w], w) /\ counts[w] = Len(compact[w]))'
    BY DEF CompactInv
<1>1. CASE Upload \/ PrefixSum \/ NextCall
    BY <1>1 DEF Upload, PrefixSum, NextCall
<1>2. ASSUME NEW v \in Compacts, Compact(v) PROVE (Lists(compact[w], w) /\ counts[w] = Len(compact[w]))'
    <2> DEFINE es == IF v = "raw" THEN Interleaved ELSE Entries(v)
    <2>1. /\ pc = "compact" /\ todo' = todo /\ compact' = [compact EXCEPT ![v] = ValidOf(es)]
          /\ counts' = [counts EXCEPT ![v] = Len(compact'[v])] /\ Through(v, Compacts, "merge")
        BY <1>2 DEF Compact
    <2>2. DOMAIN compact = Compacts /\ DOMAIN counts = Compacts \union {"merged"}
        BY DEF ShapeInv
    <2>3. CASE w = v
        <3>1. Sources(es, v)
            BY <2>1, EntriesAre, InterleavedAre DEF Compacts
        <3> HIDE DEF es
        <3>2. PICK l : l = ValidOf(es)
            OBVIOUS
        <3>3. Lists(l, v)
            BY <3>1, <3>2, ListOfSources
        <3>4. Lists(l, v)'
            BY <2>1, <3>3, ListsKept
        <3>5. l = compact'[w] /\ counts'[w] = Len(compact'[w])
            BY <2>1, <2>2, <2>3, <3>2
        <3>6. Lists(compact[w], w)'
            BY <2>3, <3>4, <3>5 DEF Lists
        <3> QED BY <3>5, <3>6
    <2>4. CASE w # v
        <3>1. w \in done
            BY <2>1, <2>4 DEF Through
        <3>2. compact'[w] = compact[w] /\ counts'[w] = counts[w]
            BY <2>1, <2>2, <2>4
        <3>3. Lists(compact[w], w) /\ counts[w] = Len(compact[w])
            BY <2>1, <3>1 DEF CompactInv
        <3> QED BY <2>1, <3>2, <3>3, ListDoneKept
    <2> QED BY <2>3, <2>4
<1>3. ASSUME NEW v \in Huffs, Merge(v) PROVE (Lists(compact[w], w) /\ counts[w] = Len(compact[w]))'
    <2>1. pc = "merge" /\ todo' = todo /\ compact' = compact
        BY <1>3 DEF Merge
    <2>2. counts'[w] = counts[w]
        <3>1. w # "merged" /\ DOMAIN counts = Compacts \union {"merged"}
            BY DEF Compacts, Huffs, ShapeInv
        <3> QED BY <1>3, <3>1 DEF Merge
    <2>3. Lists(compact[w], w) /\ counts[w] = Len(compact[w])
        BY <2>1 DEF CompactInv
    <2> QED BY <2>1, <2>2, <2>3, ListDoneKept
<1>4. CASE ~Upload /\ ~PrefixSum /\ ~NextCall /\ pc \notin {"compact", "merge"}
    <2>1. UNCHANGED <<todo, compact, counts>> /\ (pc' = pc \/ <<pc, pc'>> \in After)
            /\ (pc' # pc => done' = {} \/ done' = done)
        BY <1>4, BodyStep
    <2>2. CASE pc = "scan"
        <3>1. w \notin done'
            <4>1. pc' = "compact"
                BY <2>1, <2>2 DEF After
            <4>2. \E c \in Chunks : ScanFlagged(c) \/ ScanSub(c)
                BY <1>4, <2>2, <4>1 DEF Next, NoHuff, LzStart, Compact, Merge, Gather, BuildLut, HuffDecode, vars
            <4>3. done' = {}
                BY <2>2, <4>1, <4>2 DEF ScanFlagged, ScanSub, ScanOver, Through
            <4> QED BY <4>3
        <3> QED BY <2>1, <2>2, <3>1 DEF After
    <2>3. CASE pc # "scan"
        <3>1. pc \in Compacted
            BY <1>4, <2>1, <2>3 DEF After
        <3>2. Lists(compact[w], w) /\ counts[w] = Len(compact[w])
            BY <3>1 DEF CompactInv
        <3> QED BY <2>1, <3>2, ListDoneKept
    <2> QED BY <2>2, <2>3
<1>5. CASE pc \in {"compact", "merge"} /\ ~(\E v \in Compacts : Compact(v)) /\ ~(\E v \in Huffs : Merge(v))
    <2>1. UNCHANGED <<todo, compact, counts, pc, done>>
        <3>1. pc # "scan" /\ ~(\E b \in HuffGrid : BuildLut(b) \/ HuffDecode(b)) /\ ~NoHuff
            BY <1>5 DEF BuildLut, HuffDecode, NoHuff
        <3>2. ~Upload /\ ~PrefixSum /\ ~NextCall /\ ~LzStart /\ pc # "groups"
            BY <1>5 DEF Upload, PrefixSum, NextCall, LzStart
        <3>3. ~\E c \in Chunks : ScanFlagged(c) \/ ScanSub(c)
            BY <3>1 DEF ScanFlagged, ScanSub
        <3>4. (\E j \in 1 .. counts["raw"] : Gather(j)) \/ UNCHANGED vars
            BY <1>5, <3>1, <3>2, <3>3 DEF Next
        <3> QED BY <3>4 DEF Gather, vars
    <2>2. Lists(compact[w], w) /\ counts[w] = Len(compact[w])
        BY <2>1 DEF CompactInv
    <2> QED BY <2>1, <2>2, ListDoneKept
<1> QED BY <1>1, <1>2, <1>3, <1>4, <1>5

-----------------------------------------------------------------------------
(* The merge and the tables *)

\* When the lists are complete, their lengths are known.
LEMMA ListCounts ==
    ASSUME CompactInv, pc \in Compacted, NEW w \in Compacts
    PROVE  Lists(compact[w], w) /\ counts[w] = Len(compact[w]) /\ counts[w] \in Nat
<1>1. Lists(compact[w], w) /\ counts[w] = Len(compact[w])
    BY DEF CompactInv
<1>2. Len(compact[w]) \in Nat
    BY <1>1 DEF Lists
<1> QED BY <1>1, <1>2

\* Where a Huffman descriptor lies in the merged list.
InSegment(w, n, b) == w \in Huffs /\ n \in 1 .. counts[w] /\ b = BaseOf(w) + n - 1

\* The four lists lie behind one another and fill the merged list.
LEMMA Segments ==
    ASSUME \A w \in Huffs : counts[w] \in Nat
    PROVE  /\ AllHuffs \in Nat
           /\ \A w \in Huffs : BaseOf(w) \in Nat
           /\ \A b \in 0 .. AllHuffs - 1 : \E w \in Huffs : \E n \in 1 .. counts[w] : InSegment(w, n, b)
           /\ \A v, w \in Huffs : \A m, n, b : InSegment(v, m, b) /\ InSegment(w, n, b) => v = w /\ m = n
           /\ \A w \in Huffs : \A n, b : InSegment(w, n, b) => b \in 0 .. AllHuffs - 1
<1> DEFINE l == counts["lit"]
           t == counts["tok"]
           h == counts["hi"]
           o == counts["lo"]
<1>1. l \in Nat /\ t \in Nat /\ h \in Nat /\ o \in Nat
    BY DEF Huffs
<1>2. /\ BaseOf("lit") = 0 /\ BaseOf("tok") = l /\ BaseOf("hi") = l + t /\ BaseOf("lo") = l + t + h
      /\ AllHuffs = l + t + h + o
    BY DEF BaseOf, AllHuffs
<1> HIDE DEF l, t, h, o
<1>3. /\ \A n, b : InSegment("lit", n, b) <=> n \in 1 .. l /\ b = n - 1
      /\ \A n, b : InSegment("tok", n, b) <=> n \in 1 .. t /\ b = l + n - 1
      /\ \A n, b : InSegment("hi", n, b) <=> n \in 1 .. h /\ b = l + t + n - 1
      /\ \A n, b : InSegment("lo", n, b) <=> n \in 1 .. o /\ b = l + t + h + n - 1
    BY <1>1, <1>2 DEF InSegment, Huffs, l, t, h, o
<1>4. AllHuffs \in Nat /\ \A w \in Huffs : BaseOf(w) \in Nat
    BY <1>1, <1>2 DEF Huffs
<1>5. ASSUME NEW b \in 0 .. AllHuffs - 1 PROVE \E w \in Huffs : \E n \in 1 .. counts[w] : InSegment(w, n, b)
    <2>1. CASE b < l
        <3>1. b + 1 \in 1 .. l /\ b = (b + 1) - 1
            BY <1>1, <2>1
        <3> QED BY <1>3, <3>1 DEF l, InSegment
    <2>2. CASE b >= l /\ b < l + t
        <3>1. b - l + 1 \in 1 .. t /\ b = l + (b - l + 1) - 1
            BY <1>1, <2>2
        <3> QED BY <1>3, <3>1 DEF t, InSegment
    <2>3. CASE b >= l + t /\ b < l + t + h
        <3>1. b - l - t + 1 \in 1 .. h /\ b = l + t + (b - l - t + 1) - 1
            BY <1>1, <2>3
        <3> QED BY <1>3, <3>1 DEF h, InSegment
    <2>4. CASE b >= l + t + h
        <3>1. b - l - t - h + 1 \in 1 .. o /\ b = l + t + h + (b - l - t - h + 1) - 1
            BY <1>1, <1>2, <2>4
        <3> QED BY <1>3, <3>1 DEF o, InSegment
    <2> QED BY <1>1, <2>1, <2>2, <2>3, <2>4
<1>6. ASSUME NEW v \in Huffs, NEW w \in Huffs, NEW m, NEW n, NEW b, InSegment(v, m, b), InSegment(w, n, b)
      PROVE  v = w /\ m = n
    <2>1. \A n1, b1 : InSegment("lit", n1, b1) => n1 \in Nat /\ b1 >= 0 /\ b1 < l /\ b1 = n1 - 1
        BY <1>1, <1>3
    <2>2. \A n1, b1 : InSegment("tok", n1, b1) => n1 \in Nat /\ b1 >= l /\ b1 < l + t /\ b1 = l + n1 - 1
        BY <1>1, <1>3
    <2>3. \A n1, b1 : InSegment("hi", n1, b1) => n1 \in Nat /\ b1 >= l + t /\ b1 < l + t + h /\ b1 = l + t + n1 - 1
        BY <1>1, <1>3
    <2>4. \A n1, b1 : InSegment("lo", n1, b1) => n1 \in Nat /\ b1 >= l + t + h /\ b1 = l + t + h + n1 - 1
        BY <1>1, <1>3
    <2>5. b \in Int
        BY <1>1, <1>4, <1>6 DEF InSegment
    <2>6. CASE v = "lit"
        BY <1>1, <1>6, <2>1, <2>2, <2>3, <2>4, <2>5, <2>6 DEF Huffs
    <2>7. CASE v = "tok"
        BY <1>1, <1>6, <2>1, <2>2, <2>3, <2>4, <2>5, <2>7 DEF Huffs
    <2>8. CASE v = "hi"
        BY <1>1, <1>6, <2>1, <2>2, <2>3, <2>4, <2>5, <2>8 DEF Huffs
    <2>9. CASE v = "lo"
        BY <1>1, <1>6, <2>1, <2>2, <2>3, <2>4, <2>5, <2>9 DEF Huffs
    <2> QED BY <2>6, <2>7, <2>8, <2>9 DEF Huffs
<1>7. ASSUME NEW w \in Huffs, NEW n, NEW b, InSegment(w, n, b) PROVE b \in 0 .. AllHuffs - 1
    BY <1>1, <1>2, <1>3, <1>7 DEF Huffs
<1> QED BY <1>4, <1>5, <1>6, <1>7

\* The entry of the merged list for place n of list w.
MergedAs(w, n, b) ==
    /\ b \in DOMAIN merged
    /\ merged[b] = [out |-> compact[w][n].out, data |-> compact[w][n].data, lut |-> b]

\* The invariant of the merge, put entry by entry of the merged list.
LEMMA MergeInvMeans ==
    ASSUME \A w \in Huffs : counts[w] \in Nat
    PROVE  MergeInv <=> /\ \A w \in Huffs : \A n, b : (pc \in Merged \/ (pc = "merge" /\ w \in done)) /\ InSegment(w, n, b)
                                                     => MergedAs(w, n, b)
                        /\ pc \in Merged \/ (pc = "merge" /\ "lit" \in done) => counts["merged"] = AllHuffs
<1> DEFINE Far(w) == pc \in Merged \/ (pc = "merge" /\ w \in done)
<1> HIDE DEF Far
<1>1. MergeInv <=> /\ \A w \in Huffs : Far(w) => \A n \in 1 .. counts[w] : MergedAs(w, n, BaseOf(w) + n - 1)
                   /\ Far("lit") => counts["merged"] = AllHuffs
    BY DEF MergeInv, MergedAs, Far
<1>2. \A w \in Huffs : \A n, b : InSegment(w, n, b) <=> n \in 1 .. counts[w] /\ b = BaseOf(w) + n - 1
    BY DEF InSegment
<1> QED BY <1>1, <1>2 DEF Far

\* The merge puts each list in its place.
LEMMA MergeStep ==
    ASSUME ShapeInv, CompactInv, MergeInv, [Next]_vars
    PROVE  MergeInv'
<1> USE DEF Compacted, Merged
<1>1. CASE Upload \/ PrefixSum \/ NextCall
    BY <1>1 DEF Upload, PrefixSum, NextCall, MergeInv
<1>2. ASSUME NEW v \in Huffs, Merge(v) PROVE MergeInv'
    <2> DEFINE slots == BaseOf(v) .. BaseOf(v) + counts[v] - 1
               d(b) == compact[v][b - BaseOf(v) + 1]
    <2>1. /\ pc = "merge" /\ compact' = compact /\ Through(v, Huffs, "build")
          /\ merged' = [b \in DOMAIN merged \union slots |->
                           IF b \in slots THEN [out |-> d(b).out, data |-> d(b).data, lut |-> b] ELSE merged[b]]
          /\ counts' = IF v = "lit" THEN [counts EXCEPT !["merged"] = BaseOf("lo") + counts["lo"]] ELSE counts
        BY <1>2 DEF Merge
    <2>2. \A w \in Compacts : counts[w] \in Nat
        BY <2>1, ListCounts
    <2>3. (\A w \in Compacts : counts'[w] = counts[w]) /\ (v = "lit" => counts'["merged"] = AllHuffs)
          /\ (v # "lit" => counts'["merged"] = counts["merged"])
        <3>1. DOMAIN counts = Compacts \union {"merged"} /\ "merged" \notin Compacts
            BY DEF ShapeInv, Compacts, Huffs
        <3>2. BaseOf("lo") + counts["lo"] = AllHuffs
            BY DEF BaseOf, AllHuffs
        <3> QED BY <2>1, <3>1, <3>2
    <2>4. \A w \in Huffs : w \in Compacts /\ counts[w] \in Nat /\ counts'[w] = counts[w] /\ BaseOf(w)' = BaseOf(w)
        BY <2>2, <2>3 DEF Compacts, Huffs, BaseOf
    <2>5. AllHuffs' = AllHuffs /\ \A w, n, b : (InSegment(w, n, b)' <=> InSegment(w, n, b))
        BY <2>4 DEF AllHuffs, Huffs, InSegment
    <2>6. \A n, b : InSegment(v, n, b) => b \in slots /\ b - BaseOf(v) + 1 = n
        BY <2>4, Segments DEF InSegment
    <2>7. ASSUME NEW w \in Huffs, NEW n, NEW b, w \in done, w # v, InSegment(w, n, b) PROVE b \notin slots
        <3>1. SUFFICES ASSUME b \in slots PROVE FALSE
            OBVIOUS
        <3>2. InSegment(v, b - BaseOf(v) + 1, b)
            BY <2>4, <3>1, Segments DEF InSegment
        <3> QED BY <2>4, <2>7, <3>2, Segments
    <2> HIDE DEF slots
    <2>8. ASSUME NEW w \in Huffs, NEW n, NEW b, pc' \in Merged \/ (pc' = "merge" /\ w \in done'), InSegment(w, n, b)
          PROVE  MergedAs(w, n, b)'
        <3>1. CASE w = v
            <4>1. b \in slots /\ b - BaseOf(v) + 1 = n
                BY <2>6, <2>8, <3>1
            <4>2. merged'[b] = [out |-> d(b).out, data |-> d(b).data, lut |-> b] /\ b \in DOMAIN merged'
                BY <2>1, <4>1
            <4> QED BY <2>1, <3>1, <4>1, <4>2 DEF MergedAs
        <3>2. CASE w # v
            <4>1. w \in done
                BY <2>1, <2>8, <3>2 DEF Through
            <4>2. b \notin slots /\ MergedAs(w, n, b)
                BY <2>1, <2>4, <2>7, <2>8, <3>2, <4>1, MergeInvMeans
            <4> QED BY <2>1, <4>2 DEF MergedAs
        <3> QED BY <3>1, <3>2
    <2>9. ASSUME pc' \in Merged \/ (pc' = "merge" /\ "lit" \in done') PROVE counts'["merged"] = AllHuffs
        <3>1. "lit" = v \/ "lit" \in done
            BY <2>1, <2>9 DEF Through, Huffs
        <3> QED BY <2>1, <2>3, <3>1 DEF MergeInv
    <2> QED BY <2>4, <2>5, <2>8, <2>9 DEF MergeInv, MergedAs, InSegment
<1>3. CASE ~Upload /\ ~PrefixSum /\ ~NextCall /\ pc \notin {"compact", "merge"}
    <2>1. UNCHANGED <<compact, counts, merged>> /\ (pc' = pc \/ <<pc, pc'>> \in After)
        BY <1>3, BodyStep
    <2>2. BaseOf("lit")' = BaseOf("lit") /\ AllHuffs' = AllHuffs /\ \A w : BaseOf(w)' = BaseOf(w)
        BY <2>1 DEF BaseOf, AllHuffs
    <2>3. pc' # "merge" /\ (pc' \in Merged => pc \in Merged)
        BY <1>3, <2>1 DEF After
    <2> QED BY <2>1, <2>2, <2>3 DEF MergeInv
<1>4. ASSUME NEW v \in Compacts, Compact(v) PROVE MergeInv'
    <2>1. pc = "compact" /\ (pc' = pc \/ (pc' = "merge" /\ done' = {}))
        BY <1>4 DEF Compact, Through
    <2> QED BY <2>1 DEF MergeInv
<1>5. CASE pc \in {"compact", "merge"} /\ ~(\E v \in Compacts : Compact(v)) /\ ~(\E v \in Huffs : Merge(v))
    <2>1. UNCHANGED <<compact, counts, merged, pc, done>>
        <3>1. pc # "scan" /\ ~(\E b \in HuffGrid : BuildLut(b) \/ HuffDecode(b)) /\ ~NoHuff
            BY <1>5 DEF BuildLut, HuffDecode, NoHuff
        <3>2. ~Upload /\ ~PrefixSum /\ ~NextCall /\ ~LzStart /\ pc # "groups"
            BY <1>5 DEF Upload, PrefixSum, NextCall, LzStart
        <3>3. ~\E c \in Chunks : ScanFlagged(c) \/ ScanSub(c)
            BY <3>1 DEF ScanFlagged, ScanSub
        <3>4. (\E j \in 1 .. counts["raw"] : Gather(j)) \/ UNCHANGED vars
            BY <1>5, <3>1, <3>2, <3>3 DEF Next
        <3> QED BY <3>4 DEF Gather, vars
    <2>2. AllHuffs' = AllHuffs /\ \A w : BaseOf(w)' = BaseOf(w)
        BY <2>1 DEF BaseOf, AllHuffs
    <2> QED BY <2>1, <2>2 DEF MergeInv
<1> QED BY <1>1, <1>2, <1>3, <1>4, <1>5

\* An entry of the merged list comes from one place of one list, and names a table of
\* its own.
LEMMA MergedFrom ==
    ASSUME CompactInv, MergeInv, pc \in Merged, NEW b \in HuffGrid
    PROVE  \E w \in Huffs : \E n \in 1 .. counts[w] : InSegment(w, n, b) /\ MergedAs(w, n, b)
<1>1. pc \in Compacted /\ \A w \in Huffs : w \in Compacts
    BY DEF Compacted, Merged, Compacts
<1>2. \A w \in Huffs : counts[w] \in Nat
    BY <1>1, ListCounts
<1>3. counts["merged"] = AllHuffs /\ b \in 0 .. AllHuffs - 1
    BY DEF MergeInv, HuffGrid
<1>4. PICK w \in Huffs : \E n \in 1 .. counts[w] : InSegment(w, n, b)
    BY <1>2, <1>3, Segments
<1> PICK n \in 1 .. counts[w] : InSegment(w, n, b)
    BY <1>4
<1>5. MergedAs(w, n, b)
    BY <1>2, MergeInvMeans
<1> QED BY <1>5

\* The tables are built from the merged list.
LEMMA LutStep ==
    ASSUME ShapeInv, CompactInv, MergeInv, LutInv, [Next]_vars
    PROVE  LutInv'
<1>1. CASE Upload \/ PrefixSum \/ NextCall
    BY <1>1 DEF Upload, PrefixSum, NextCall, LutInv
<1>2. ASSUME NEW b0 \in HuffGrid, BuildLut(b0) PROVE LutInv'
    <2>1. /\ pc = "build" /\ luts' = Put(luts, merged[b0].lut, merged[b0].data) /\ UNCHANGED <<counts, merged>>
          /\ Through(b0, HuffGrid, "decode")
        BY <1>2 DEF BuildLut
    <2>2. merged[b0].lut = b0
        <3>1. PICK w \in Huffs, n \in Nat : MergedAs(w, n, b0)
            <4>1. \A w \in Huffs : w \in Compacts /\ counts[w] \in Nat
                BY <2>1, ListCounts DEF Compacted, Compacts
            <4>2. \E w \in Huffs : \E n \in 1 .. counts[w] : InSegment(w, n, b0) /\ MergedAs(w, n, b0)
                BY <2>1, MergedFrom DEF Merged
            <4> QED BY <4>1, <4>2
        <3> QED BY <3>1 DEF MergedAs
    <2>3. HuffGrid' = HuffGrid
        BY <2>1 DEF HuffGrid
    <2>4. /\ b0 \in DOMAIN luts' /\ luts'[b0] = merged[b0].data
          /\ \A b \in DOMAIN luts : b # b0 => b \in DOMAIN luts' /\ luts'[b] = luts[b]
        BY <2>1, <2>2 DEF Put
    <2>5. ASSUME NEW b \in HuffGrid, pc' = "decode" \/ (pc' = "build" /\ b \in done')
          PROVE  b = b0 \/ b \in done
        BY <2>1, <2>5 DEF Through
    <2> QED BY <2>1, <2>3, <2>4, <2>5 DEF LutInv
<1>3. ASSUME NEW w \in Huffs, Merge(w) PROVE LutInv'
    <2>1. pc' = "merge" \/ (pc' = "build" /\ done' = {})
        BY <1>3 DEF Merge, Through
    <2> QED BY <2>1 DEF LutInv
<1>4. ASSUME NEW b0 \in HuffGrid, HuffDecode(b0) PROVE LutInv'
    <2>1. pc = "decode" /\ UNCHANGED <<counts, merged, luts>>
        BY <1>4 DEF HuffDecode
    <2>2. HuffGrid' = HuffGrid
        BY <2>1 DEF HuffGrid
    <2>3. pc' = "decode" \/ pc' = "lz"
        BY <2>1, <1>4 DEF HuffDecode, Through
    <2> QED BY <2>1, <2>2, <2>3 DEF LutInv
<1>5. CASE NoHuff
    BY <1>5 DEF NoHuff, LutInv
<1>6. CASE (\E j \in 1 .. counts["raw"] : Gather(j)) \/ UNCHANGED vars
    <2>1. UNCHANGED <<pc, done, counts, merged, luts>>
        BY <1>6 DEF Gather, vars
    <2> QED BY <2>1 DEF LutInv, HuffGrid
<1>7. CASE /\ ~Upload /\ ~PrefixSum /\ ~NextCall /\ ~NoHuff
           /\ ~(\E b \in HuffGrid : BuildLut(b) \/ HuffDecode(b)) /\ ~(\E w \in Huffs : Merge(w))
           /\ ~(\E j \in 1 .. counts["raw"] : Gather(j)) /\ ~UNCHANGED vars
    <2>1. pc \notin {"merge", "build", "decode"}
        BY <1>7 DEF Next, LzStart, Compact, ScanFlagged, ScanSub
    <2>2. pc' \notin {"build", "decode"}
        BY <1>7, <2>1, BodyStep DEF After
    <2> QED BY <2>2 DEF LutInv
<1> QED BY <1>1, <1>2, <1>3, <1>4, <1>5, <1>6, <1>7

-----------------------------------------------------------------------------
(* The scratch *)

\* The place of a stream in the scratch is its own, and within the scratch.
LEMMA SlotsApart ==
    ASSUME IsCall(Call), total \in Nat, AllSubs <= total,
           NEW c \in Chunks, NEW k \in Subs(c), NEW s \in Streams, Coded(c, k, s)
    PROVE  /\ At(Idx(c, k), s) \in Nat /\ At(Idx(c, k), s) < 6 * total
           /\ \A b \in Chunks : \A j \in Subs(b) : \A r \in Streams :
                 Coded(b, j, r) /\ At(Idx(b, j), r) = At(Idx(c, k), s) => b = c /\ j = k /\ r = s
<1> DEFINE Off == Raws \union {"hi", "lo"}
           Up(q) == CASE q = "lit" -> 0 [] q = "tok" -> 1 [] OTHER -> 2
<1>1. AllSubs \in Nat
    BY SubSumsFacts
<1>2. \A q \in Streams : /\ Up(q) \in {0, 1, 2} /\ Plane(q) \in {0, 1}
                         /\ (Up(q) = 0 <=> q = "lit") /\ (Up(q) = 1 <=> q = "tok")
                         /\ (Up(q) = 2 <=> q \in Off)
    BY DEF Streams, Huffs, Raws, Plane
<1>3. \A q \in Streams, i \in Nat : At(i, q) = 2 * Up(q) * total + 2 * i + Plane(q)
    <2>1. \A q \in Streams : q = "lit" \/ q = "tok" \/ (q # "lit" /\ q # "tok")
        OBVIOUS
    <2> QED BY <2>1 DEF At, TokRegion, Off16Region, Plane
<1> HIDE DEF Up, Off
<1>4. \A b \in Chunks : \A j \in Subs(b) : Idx(b, j) \in Nat /\ Idx(b, j) < total
    BY <1>1, IdxFacts
<1>5. \A u, v \in {0, 1, 2}, x, y \in Nat, p, q \in {0, 1} :
          x < total /\ y < total /\ 2 * u * total + 2 * x + p = 2 * v * total + 2 * y + q => u = v /\ 2 * x + p = 2 * y + q
    <2>1. SUFFICES ASSUME NEW u \in {0, 1, 2}, NEW v \in {0, 1, 2}, NEW x \in Nat, NEW y \in Nat,
                          NEW p \in {0, 1}, NEW q \in {0, 1}, x < total, y < total,
                          2 * u * total + 2 * x + p = 2 * v * total + 2 * y + q
                   PROVE  u = v /\ 2 * x + p = 2 * y + q
        OBVIOUS
    <2>2. \A w \in {0, 1, 2} : w = 0 \/ w = 1 \/ w = 2
        OBVIOUS
    <2>3. CASE u = 0
        BY <2>1, <2>2, <2>3
    <2>4. CASE u = 1
        BY <2>1, <2>2, <2>4
    <2>5. CASE u = 2
        BY <2>1, <2>2, <2>5
    <2> QED BY <2>2, <2>3, <2>4, <2>5
<1>6. At(Idx(c, k), s) \in Nat /\ At(Idx(c, k), s) < 6 * total
    <2>1. At(Idx(c, k), s) = 2 * Up(s) * total + 2 * Idx(c, k) + Plane(s) /\ Idx(c, k) \in Nat /\ Idx(c, k) < total
        BY <1>3, <1>4
    <2>2. Up(s) \in {0, 1, 2} /\ Plane(s) \in {0, 1}
        BY <1>2
    <2> QED BY <2>1, <2>2
<1>7. ASSUME NEW b \in Chunks, NEW j \in Subs(b), NEW r \in Streams, Coded(b, j, r),
             At(Idx(b, j), r) = At(Idx(c, k), s)
      PROVE  b = c /\ j = k /\ r = s
    <2>1. Up(r) = Up(s) /\ 2 * Idx(b, j) + Plane(r) = 2 * Idx(c, k) + Plane(s)
        <3>1. /\ Up(r) \in {0, 1, 2} /\ Up(s) \in {0, 1, 2} /\ Plane(r) \in {0, 1} /\ Plane(s) \in {0, 1}
              /\ Idx(b, j) \in Nat /\ Idx(b, j) < total /\ Idx(c, k) \in Nat /\ Idx(c, k) < total
            BY <1>2, <1>4
        <3>2. 2 * Up(r) * total + 2 * Idx(b, j) + Plane(r) = 2 * Up(s) * total + 2 * Idx(c, k) + Plane(s)
            BY <1>3, <1>7, <3>1
        <3> QED BY <1>5, <3>1, <3>2
    <2>2. Desc(b, j, r).out = Desc(c, k, s).out
        <3>1. Desc(b, j, r).out = 2 * Idx(b, j) + Plane(r)
            BY <1>7, DescFacts
        <3>2. Desc(c, k, s).out = 2 * Idx(c, k) + Plane(s)
            BY DescFacts
        <3> QED BY <2>1, <3>1, <3>2
    <2>3. b = c /\ j = k /\ (s = r \/ ~({r, s} \subseteq Raws \union {"hi", "lo"}))
        BY <1>7, <2>2, DescApart
    <2>4. r = s
        BY <1>2, <2>1, <2>3 DEF Off
    <2> QED BY <2>3, <2>4
<1> QED BY <1>6, <1>7

\* The call is one of the host's, and there is room for its sub-chunks.
LEMMA CompactedCall ==
    ASSUME ShapeInv, SizeInv, pc \in Compacted
    PROVE  /\ IsCall(Call) /\ total \in Nat /\ AllSubs <= total /\ AllSubs \in Nat
           /\ \A c \in Chunks : first[c] = SubsBefore(c)
    BY RunningCall, SubSumsFacts DEF SizeInv, Compacted, Running, Scanned

\* A block of the gather copies a raw plane of one sub-chunk to its place.
GatherIs(j, c, k, s) ==
    /\ InLz(c, k) /\ Coded(c, k, s)
    /\ compact["raw"][j] = Desc(c, k, s)
    /\ compact["raw"][j].data = <<c, k, s>> /\ GatherSlot(j) = At(Idx(c, k), s)

\* An entry of the raw list leads its block of the gather to the place of that plane.
LEMMA GatherMeans ==
    ASSUME ShapeInv, SizeInv, CompactInv, pc \in Compacted, NEW j, NEW c \in Chunks, NEW k \in Subs(c), NEW s \in Raws,
           InLz(c, k), Desc(c, k, s).valid, compact["raw"][j] = Desc(c, k, s)
    PROVE  GatherIs(j, c, k, s)
<1>1. IsCall(Call) /\ total \in Nat /\ s \in Streams /\ Idx(c, k) \in Nat
    BY CompactedCall, IdxFacts DEF Streams
<1>2. Coded(c, k, s) /\ Desc(c, k, s) = [valid |-> TRUE, out |-> 2 * Idx(c, k) + Plane(s), data |-> <<c, k, s>>]
    BY <1>1, DescFacts
<1>3. compact["raw"][j].out = 2 * Idx(c, k) + Plane(s) /\ compact["raw"][j].data = <<c, k, s>>
    BY <1>2
<1>4. At(Idx(c, k), s) = Off16Region + (2 * Idx(c, k) + Plane(s))
    BY <1>1 DEF At, Off16Region, Raws, Plane
<1> QED BY <1>2, <1>3, <1>4 DEF GatherIs, GatherSlot

\* Every block of the gather has a plane of its own to copy.
LEMMA GatherFrom ==
    ASSUME ShapeInv, SizeInv, CompactInv, pc \in Compacted, NEW j \in 1 .. counts["raw"]
    PROVE  \E c \in Chunks : \E k \in Subs(c) : \E s \in Raws : GatherIs(j, c, k, s)
<1>1. "raw" \in Compacts /\ Of("raw") = Raws
    BY DEF Compacts, Of
<1>2. Lists(compact["raw"], "raw") /\ j \in 1 .. Len(compact["raw"])
    BY <1>1, ListCounts
<1>3. PICK c \in Chunks : \E k \in Subs(c) : \E s \in Raws :
          InLz(c, k) /\ Desc(c, k, s).valid /\ compact["raw"][j] = Desc(c, k, s)
    BY <1>1, <1>2 DEF Lists
<1> PICK k \in Subs(c), s \in Raws : InLz(c, k) /\ Desc(c, k, s).valid /\ compact["raw"][j] = Desc(c, k, s)
    BY <1>3
<1> QED BY GatherMeans

\* A block of the Huffman decoder writes a coded stream of one sub-chunk to its place.
HuffIs(b, w, n, c, k) ==
    /\ InLz(c, k) /\ Coded(c, k, w) /\ InSegment(w, n, b) /\ b \in HuffGrid
    /\ compact[w][n] = Desc(c, k, w)
    /\ merged[b].data = <<c, k, w>> /\ merged[b].lut = b /\ HuffSlot(b) = At(Idx(c, k), w)

\* An entry of list w leads the block of its place in the merged list to the place
\* of that stream.
LEMMA HuffMeans ==
    ASSUME ShapeInv, SizeInv, CompactInv, MergeInv, pc \in Merged, NEW w \in Huffs, NEW n, NEW b,
           InSegment(w, n, b), NEW c \in Chunks, NEW k \in Subs(c),
           InLz(c, k), Desc(c, k, w).valid, compact[w][n] = Desc(c, k, w)
    PROVE  HuffIs(b, w, n, c, k)
<1>1. pc \in Compacted /\ w \in Streams /\ \A v \in Huffs : v \in Compacts
    BY DEF Merged, Compacted, Streams, Compacts
<1>2. IsCall(Call) /\ total \in Nat /\ Idx(c, k) \in Nat
    BY <1>1, CompactedCall, IdxFacts
<1>3. \A v \in Huffs : counts[v] \in Nat
    BY <1>1, ListCounts
<1>4. MergedAs(w, n, b) /\ counts["merged"] = AllHuffs /\ b \in 0 .. AllHuffs - 1
    BY <1>3, MergeInvMeans, Segments
<1>5. Coded(c, k, w) /\ Desc(c, k, w) = [valid |-> TRUE, out |-> 2 * Idx(c, k) + Plane(w), data |-> <<c, k, w>>]
    BY <1>1, <1>2, DescFacts
<1>6. merged[b].out = 2 * Idx(c, k) + Plane(w) /\ merged[b].data = <<c, k, w>> /\ merged[b].lut = b
    BY <1>4, <1>5 DEF MergedAs
<1>7. RegionOf(b) = CASE w = "lit" -> 0 [] w = "tok" -> TokRegion [] OTHER -> Off16Region
    <2>1. counts["lit"] \in Nat /\ counts["tok"] \in Nat /\ counts["hi"] \in Nat /\ counts["lo"] \in Nat
        BY <1>3 DEF Huffs
    <2>2. n \in 1 .. counts[w] /\ b = BaseOf(w) + n - 1
        BY DEF InSegment
    <2>3. CASE w = "lit"
        BY <2>1, <2>2, <2>3 DEF BaseOf, RegionOf
    <2>4. CASE w = "tok"
        BY <2>1, <2>2, <2>4 DEF BaseOf, RegionOf
    <2>5. CASE w = "hi"
        BY <2>1, <2>2, <2>5 DEF BaseOf, RegionOf
    <2>6. CASE w = "lo"
        BY <2>1, <2>2, <2>6 DEF BaseOf, RegionOf
    <2> QED BY <2>3, <2>4, <2>5, <2>6 DEF Huffs
<1>8. At(Idx(c, k), w) = RegionOf(b) + (2 * Idx(c, k) + Plane(w))
    <2>1. At(Idx(c, k), w) = RegionOf(b) + 2 * Idx(c, k) + Plane(w)
        BY <1>7 DEF At
    <2>2. RegionOf(b) \in Nat /\ Plane(w) \in Nat
        BY <1>2 DEF RegionOf, TokRegion, Off16Region, Plane
    <2> QED BY <1>2, <2>1, <2>2
<1>9. b \in HuffGrid
    BY <1>4 DEF HuffGrid
<1> QED BY <1>5, <1>6, <1>8, <1>9 DEF HuffIs, HuffSlot

\* Every block of the Huffman decoder has a stream to decode.
LEMMA HuffFrom ==
    ASSUME ShapeInv, SizeInv, CompactInv, MergeInv, pc \in Merged, NEW b \in HuffGrid
    PROVE  \E w \in Huffs : \E n \in 1 .. counts[w], c \in Chunks : \E k \in Subs(c) : HuffIs(b, w, n, c, k)
<1>1. PICK w \in Huffs : \E n \in 1 .. counts[w] : InSegment(w, n, b) /\ MergedAs(w, n, b)
    BY MergedFrom
<1> PICK n \in 1 .. counts[w] : InSegment(w, n, b)
    BY <1>1
<1>2. w \in Compacts /\ Of(w) = {w} /\ pc \in Compacted
    BY DEF Compacts, Of, Huffs, Compacted, Merged
<1>3. Lists(compact[w], w) /\ n \in 1 .. Len(compact[w])
    BY <1>2, ListCounts
<1>4. PICK c \in Chunks : \E k \in Subs(c) : InLz(c, k) /\ Desc(c, k, w).valid /\ compact[w][n] = Desc(c, k, w)
    BY <1>2, <1>3 DEF Lists
<1> PICK k \in Subs(c) : InLz(c, k) /\ Desc(c, k, w).valid /\ compact[w][n] = Desc(c, k, w)
    BY <1>4
<1>5. HuffIs(b, w, n, c, k)
    BY HuffMeans
<1> QED BY <1>5

\* No two blocks write one place.
LEMMA GatherApart ==
    ASSUME ShapeInv, SizeInv, CompactInv, pc \in Compacted,
           NEW i \in 1 .. counts["raw"], NEW j \in 1 .. counts["raw"], GatherSlot(i) = GatherSlot(j)
    PROVE  i = j
<1>1. PICK c \in Chunks : \E k \in Subs(c) : \E s \in Raws : GatherIs(i, c, k, s)
    BY GatherFrom
<1> PICK k \in Subs(c), s \in Raws : GatherIs(i, c, k, s)
    BY <1>1
<1>2. PICK b \in Chunks : \E m \in Subs(b) : \E r \in Raws : GatherIs(j, b, m, r)
    BY GatherFrom
<1> PICK m \in Subs(b), r \in Raws : GatherIs(j, b, m, r)
    BY <1>2
<1>3. s \in Streams /\ r \in Streams
    BY DEF Streams
<1>4. At(Idx(c, k), s) = At(Idx(b, m), r) /\ Coded(c, k, s) /\ Coded(b, m, r)
    BY DEF GatherIs
<1>5. b = c /\ m = k /\ r = s
    BY <1>3, <1>4, CompactedCall, SlotsApart
<1>6. compact["raw"][i].out = compact["raw"][j].out
    BY <1>5 DEF GatherIs
<1>7. Lists(compact["raw"], "raw") /\ counts["raw"] = Len(compact["raw"])
    BY ListCounts DEF Compacts
<1> QED BY <1>6, <1>7 DEF Lists

\* Two blocks of the Huffman decoder write different slots.
LEMMA HuffApart ==
    ASSUME ShapeInv, SizeInv, CompactInv, MergeInv, pc \in Merged,
           NEW a \in HuffGrid, NEW b \in HuffGrid, HuffSlot(a) = HuffSlot(b)
    PROVE  a = b
<1>1. PICK v \in Huffs : \E m \in 1 .. counts[v], c \in Chunks : \E k \in Subs(c) : HuffIs(a, v, m, c, k)
    BY HuffFrom
<1>2. PICK m \in 1 .. counts[v], c \in Chunks : \E k \in Subs(c) : HuffIs(a, v, m, c, k)
    BY <1>1
<1> PICK k \in Subs(c) : HuffIs(a, v, m, c, k)
    BY <1>2
<1>3. PICK w \in Huffs : \E n \in 1 .. counts[w], d \in Chunks : \E j \in Subs(d) : HuffIs(b, w, n, d, j)
    BY HuffFrom
<1>4. PICK n \in 1 .. counts[w], d \in Chunks : \E j \in Subs(d) : HuffIs(b, w, n, d, j)
    BY <1>3
<1> PICK j \in Subs(d) : HuffIs(b, w, n, d, j)
    BY <1>4
<1>5. v \in Streams /\ w \in Streams /\ pc \in Compacted /\ v \in Compacts
    BY DEF Streams, Merged, Compacted, Compacts
<1>6. At(Idx(c, k), v) = At(Idx(d, j), w) /\ Coded(c, k, v) /\ Coded(d, j, w)
    BY DEF HuffIs
<1>7. d = c /\ j = k /\ w = v
    BY <1>5, <1>6, CompactedCall, SlotsApart
<1>8. compact[v][m].out = compact[v][n].out
    BY <1>7 DEF HuffIs
<1>9. Lists(compact[v], v) /\ counts[v] = Len(compact[v])
    BY <1>5, ListCounts
<1>10. m = n
    BY <1>7, <1>8, <1>9 DEF Lists
<1> QED BY <1>7, <1>10 DEF HuffIs, InSegment

\* A block of the gather and one of the Huffman decoder write different slots.
LEMMA GatherHuffApart ==
    ASSUME ShapeInv, SizeInv, CompactInv, MergeInv, pc \in Merged,
           NEW j \in 1 .. counts["raw"], NEW b \in HuffGrid
    PROVE  GatherSlot(j) # HuffSlot(b)
<1>1. pc \in Compacted
    BY DEF Merged, Compacted
<1>2. PICK c \in Chunks : \E k \in Subs(c) : \E s \in Raws : GatherIs(j, c, k, s)
    BY <1>1, GatherFrom
<1> PICK k \in Subs(c), s \in Raws : GatherIs(j, c, k, s)
    BY <1>2
<1>3. PICK w \in Huffs : \E n \in 1 .. counts[w], d \in Chunks : \E i \in Subs(d) : HuffIs(b, w, n, d, i)
    BY HuffFrom
<1>4. PICK n \in 1 .. counts[w], d \in Chunks : \E i \in Subs(d) : HuffIs(b, w, n, d, i)
    BY <1>3
<1> PICK i \in Subs(d) : HuffIs(b, w, n, d, i)
    BY <1>4
<1>5. s \in Streams /\ w \in Streams /\ s # w
    BY DEF Streams, Huffs, Raws
<1>6. /\ At(Idx(c, k), s) = GatherSlot(j) /\ Coded(c, k, s)
      /\ At(Idx(d, i), w) = HuffSlot(b) /\ Coded(d, i, w)
    BY DEF GatherIs, HuffIs
<1> QED BY <1>1, <1>5, <1>6, CompactedCall, SlotsApart

\* Blocks that are through are blocks of the grid.
LEMMA ThroughGrid ==
    ASSUME ShapeInv
    PROVE  HuffsThrough \subseteq HuffGrid
BY DEF ShapeInv, Grid, HuffsThrough

\* Where the entries lie does not change once they are merged.
LEMMA SlotsKept ==
    ASSUME UNCHANGED <<total, compact, counts, merged>>
    PROVE  /\ \A j : GatherSlot(j)' = GatherSlot(j)
           /\ \A b : HuffSlot(b)' = HuffSlot(b) /\ HuffGrid' = HuffGrid
BY DEF GatherSlot, HuffSlot, Off16Region, TokRegion, RegionOf, HuffGrid

\* The scratch holds what has been written, and what each block writes.
WroteBody ==
    /\ gathered \subseteq 1 .. counts["raw"]
    /\ wrote = {<<<<"gather", j>>, GatherSlot(j)>> : j \in gathered}
                 \union {<<<<"huff", b>>, HuffSlot(b)>> : b \in HuffsThrough}
    /\ \A j \in gathered : GatherSlot(j) \in DOMAIN scratch
                           /\ scratch[GatherSlot(j)] = compact["raw"][j].data
    /\ \A b \in HuffsThrough : HuffSlot(b) \in DOMAIN scratch
                           /\ scratch[HuffSlot(b)] = merged[b].data

\* One more block of the gather.
LEMMA GatherWrites ==
    ASSUME ShapeInv, SizeInv, CompactInv, MergeInv, WroteBody, NEW j0 \in 1 .. counts["raw"], Gather(j0)
    PROVE  WroteBody'
<1>1. /\ pc \in {"merge", "build", "decode", "lz"} /\ j0 \notin gathered /\ gathered' = gathered \union {j0}
      /\ UNCHANGED <<pc, done, total, compact, counts, merged>>
      /\ scratch' = Put(scratch, GatherSlot(j0), compact["raw"][j0].data)
      /\ wrote' = wrote \union {<<<<"gather", j0>>, GatherSlot(j0)>>}
    BY DEF Gather, Write, GatherSlot
<1>2. /\ \A j : GatherSlot(j)' = GatherSlot(j)
      /\ \A b : HuffSlot(b)' = HuffSlot(b) /\ HuffGrid' = HuffGrid
    BY <1>1, SlotsKept
<1>3. HuffsThrough' = HuffsThrough
    BY <1>1, <1>2 DEF HuffsThrough
<1>4. pc \in Compacted /\ (HuffsThrough # {} => pc \in Merged) /\ HuffsThrough \subseteq HuffGrid
    BY <1>1, ThroughGrid DEF Compacted, Merged, HuffsThrough
<1>5. \A a : a \in DOMAIN scratch /\ a # GatherSlot(j0) => a \in DOMAIN scratch' /\ scratch'[a] = scratch[a]
    BY <1>1 DEF Put
<1>6. GatherSlot(j0) \in DOMAIN scratch' /\ scratch'[GatherSlot(j0)] = compact["raw"][j0].data
    BY <1>1 DEF Put
<1>7. ASSUME NEW j \in gathered' PROVE GatherSlot(j) \in DOMAIN scratch'
        /\ scratch'[GatherSlot(j)] = compact["raw"][j].data
    <2>1. CASE j = j0
        BY <1>6, <2>1
    <2>2. CASE j # j0
        <3>1. j \in gathered /\ j \in 1 .. counts["raw"]
            BY <1>1, <2>2 DEF WroteBody
        <3>2. GatherSlot(j) # GatherSlot(j0)
            BY <1>4, <2>2, <3>1, GatherApart
        <3> QED BY <1>5, <3>1, <3>2 DEF WroteBody
    <2> QED BY <2>1, <2>2
<1>8. ASSUME NEW b \in HuffsThrough PROVE HuffSlot(b) \in DOMAIN scratch' /\ scratch'[HuffSlot(b)] = merged[b].data
    <2>1. HuffSlot(b) # GatherSlot(j0)
        BY <1>4, GatherHuffApart
    <2> QED BY <1>5, <2>1 DEF WroteBody
<1>9. gathered' \subseteq 1 .. counts["raw"]
    BY <1>1 DEF WroteBody
<1>10. wrote' = {<<<<"gather", j>>, GatherSlot(j)>> : j \in gathered'}
                 \union {<<<<"huff", b>>, HuffSlot(b)>> : b \in HuffsThrough}
    BY <1>1 DEF WroteBody
<1> QED BY <1>1, <1>2, <1>3, <1>7, <1>8, <1>9, <1>10 DEF WroteBody

\* One more block of the Huffman decoder: its table is the one of its stream.
LEMMA HuffWrites ==
    ASSUME ShapeInv, SizeInv, CompactInv, MergeInv, LutInv, WroteBody, NEW b0 \in HuffGrid, HuffDecode(b0)
    PROVE  WroteBody'
<1>1. /\ pc = "decode" /\ b0 \notin done /\ Through(b0, HuffGrid, "lz")
      /\ UNCHANGED <<total, compact, counts, merged, luts, gathered>>
    BY DEF HuffDecode
<1>2. pc \in Merged /\ pc \in Compacted
    BY <1>1 DEF Merged, Compacted
<1>3. luts[merged[b0].lut] = merged[b0].data
    <2>1. merged[b0].lut = b0
        <3>1. PICK w \in Huffs : \E n \in 1 .. counts[w], c \in Chunks : \E k \in Subs(c) : HuffIs(b0, w, n, c, k)
            BY <1>2, HuffFrom
        <3> QED BY <3>1 DEF HuffIs
    <2> QED BY <1>1, <2>1 DEF LutInv
<1>4. /\ scratch' = Put(scratch, HuffSlot(b0), merged[b0].data)
      /\ wrote' = wrote \union {<<<<"huff", b0>>, HuffSlot(b0)>>}
    BY <1>3 DEF HuffDecode, Write, HuffSlot
<1>5. /\ \A j : GatherSlot(j)' = GatherSlot(j)
      /\ \A b : HuffSlot(b)' = HuffSlot(b) /\ HuffGrid' = HuffGrid
    BY <1>1, SlotsKept
<1>6. HuffsThrough = done /\ HuffsThrough' = done \union {b0} /\ done \subseteq HuffGrid
    BY <1>1, <1>5, ThroughGrid DEF HuffsThrough, Through
<1>7. \A a : a \in DOMAIN scratch /\ a # HuffSlot(b0) => a \in DOMAIN scratch' /\ scratch'[a] = scratch[a]
    BY <1>4 DEF Put
<1>8. HuffSlot(b0) \in DOMAIN scratch' /\ scratch'[HuffSlot(b0)] = merged[b0].data
    BY <1>4 DEF Put
<1>9. ASSUME NEW j \in gathered PROVE GatherSlot(j) \in DOMAIN scratch'
        /\ scratch'[GatherSlot(j)] = compact["raw"][j].data
    <2>1. j \in 1 .. counts["raw"]
        BY DEF WroteBody
    <2>2. GatherSlot(j) # HuffSlot(b0)
        BY <1>2, <2>1, GatherHuffApart
    <2> QED BY <1>7, <2>2 DEF WroteBody
<1>10. ASSUME NEW b \in done \union {b0} PROVE HuffSlot(b) \in DOMAIN scratch' /\ scratch'[HuffSlot(b)] = merged[b].data
    <2>1. CASE b = b0
        BY <1>8, <2>1
    <2>2. CASE b # b0
        <3>1. b \in HuffsThrough /\ b \in HuffGrid
            BY <1>6, <2>2
        <3>2. HuffSlot(b) # HuffSlot(b0)
            BY <1>2, <2>2, <3>1, HuffApart
        <3> QED BY <1>7, <3>1, <3>2 DEF WroteBody
    <2> QED BY <2>1, <2>2
<1>11. wrote' = {<<<<"gather", j>>, GatherSlot(j)>> : j \in gathered}
                 \union {<<<<"huff", b>>, HuffSlot(b)>> : b \in done \union {b0}}
    BY <1>4, <1>6 DEF WroteBody
<1> QED BY <1>1, <1>5, <1>6, <1>9, <1>10, <1>11 DEF WroteBody

\* A step of a kernel that writes no scratch.
LEMMA WroteKept ==
    ASSUME WroteBody, UNCHANGED <<total, compact, counts, merged, gathered, wrote, scratch>>,
        HuffsThrough' = HuffsThrough
    PROVE  WroteBody'
<1>1. \A j, b : GatherSlot(j)' = GatherSlot(j) /\ HuffSlot(b)' = HuffSlot(b)
    BY SlotsKept
<1> QED BY <1>1 DEF WroteBody

\* Every step keeps the record of what was written, and what is in the scratch.
LEMMA WroteStep ==
    ASSUME ShapeInv, SizeInv, CompactInv, MergeInv, LutInv, WroteInv, [Next]_vars
    PROVE  WroteInv'
<1> SUFFICES ASSUME pc' \in Compacted PROVE WroteBody' /\ (pc' = "groups" => gathered' = 1 .. counts'["raw"])
    BY DEF WroteInv, WroteBody
<1> USE DEF Compacted
<1>0. pc \in Compacted => WroteBody /\ (pc = "groups" => gathered = 1 .. counts["raw"])
    BY DEF WroteInv, WroteBody
<1>1. CASE Upload \/ PrefixSum \/ NextCall
    BY <1>1 DEF Upload, PrefixSum, NextCall
<1>2. ASSUME NEW w \in Compacts, Compact(w) PROVE WroteBody' /\ pc' # "groups"
    <2>1. pc = "compact" /\ pc' = "merge" /\ UNCHANGED <<gathered, wrote>>
        BY <1>2 DEF Compact, Through
    <2>2. gathered' = {} /\ wrote' = {} /\ HuffsThrough' = {}
        BY <2>1 DEF SizeInv, HuffsThrough
    <2> QED BY <2>1, <2>2 DEF WroteBody
<1>3. ASSUME NEW w \in Huffs, Merge(w) PROVE WroteBody' /\ pc' # "groups"
    <2>1. /\ pc = "merge" /\ pc' \in {"merge", "build"} /\ UNCHANGED <<total, compact, gathered, wrote, scratch>>
        BY <1>3 DEF Merge, Through
    <2>2. counts'["raw"] = counts["raw"]
        <3>1. DOMAIN counts = Compacts \union {"merged"} /\ "raw" \in Compacts
            BY DEF ShapeInv, Compacts
        <3> QED BY <1>3, <3>1 DEF Merge
    <2>3. HuffsThrough = {} /\ HuffsThrough' = {}
        <3>1. pc' = "build" => done' = {}
            BY <1>3, <2>1 DEF Merge, Through
        <3> QED BY <2>1, <3>1 DEF HuffsThrough
    <2>4. \A j : GatherSlot(j)' = GatherSlot(j)
        BY <2>1 DEF GatherSlot, Off16Region
    <2> QED BY <1>0, <2>1, <2>2, <2>3, <2>4 DEF WroteBody
<1>4. ASSUME NEW j \in 1 .. counts["raw"], Gather(j) PROVE WroteBody' /\ pc' # "groups"
    <2>1. pc \in {"merge", "build", "decode", "lz"} /\ pc' = pc
        BY <1>4 DEF Gather
    <2> QED BY <1>0, <1>4, <2>1, GatherWrites
<1>5. ASSUME NEW b \in HuffGrid, HuffDecode(b) PROVE WroteBody' /\ pc' # "groups"
    <2>1. pc = "decode" /\ pc' \in {"decode", "lz"}
        BY <1>5 DEF HuffDecode, Through
    <2> QED BY <1>0, <1>5, <2>1, HuffWrites
<1>6. ASSUME NEW b \in HuffGrid, BuildLut(b) PROVE WroteBody' /\ pc' # "groups"
    <2>1. /\ pc = "build" /\ pc' \in {"build", "decode"} /\ (pc' = "decode" => done' = {})
          /\ UNCHANGED <<total, compact, counts, merged, gathered, wrote, scratch>>
        BY <1>6 DEF BuildLut, Through
    <2>2. HuffsThrough' = HuffsThrough
        BY <2>1 DEF HuffsThrough
    <2> QED BY <1>0, <2>1, <2>2, WroteKept
<1>7. CASE NoHuff
    <2>1. /\ pc \in {"build", "decode"} /\ pc' = "lz" /\ HuffGrid = {}
          /\ UNCHANGED <<total, compact, counts, merged, gathered, wrote, scratch, done>>
        BY <1>7 DEF NoHuff
    <2>2. HuffsThrough = {} /\ HuffsThrough' = {}
        BY <2>1, SlotsKept, ThroughGrid DEF HuffsThrough
    <2> QED BY <1>0, <2>1, <2>2, WroteKept
<1>8. CASE LzStart
    <2>1. /\ pc = "lz" /\ pc' = "groups" /\ Cardinality(gathered) = counts["raw"]
          /\ UNCHANGED <<total, compact, counts, merged, gathered, wrote, scratch>>
        BY <1>8 DEF LzStart
    <2>2. HuffsThrough' = HuffsThrough
        BY <2>1, SlotsKept DEF HuffsThrough
    <2>3. gathered = 1 .. counts["raw"]
        <3>1. counts["raw"] \in Nat /\ gathered \subseteq 1 .. counts["raw"]
            BY <1>0, <2>1, ListCounts DEF Compacts, WroteBody
        <3>2. IsFiniteSet(1 .. counts["raw"]) /\ Cardinality(1 .. counts["raw"]) = counts["raw"]
            BY <3>1, FS_Interval
        <3> QED BY <2>1, <3>1, <3>2, FS_Subset
    <2> QED BY <1>0, <2>1, <2>2, <2>3, WroteKept
<1>9. CASE pc = "groups" \/ UNCHANGED vars
    <2>1. UNCHANGED <<total, compact, counts, merged, gathered, wrote, scratch>>
            /\ HuffsThrough' = HuffsThrough /\ pc' = pc
        <3>1. CASE UNCHANGED vars
            BY <3>1 DEF vars, HuffsThrough, HuffGrid
        <3>2. CASE pc = "groups"
            <4>1. ~Upload /\ ~PrefixSum /\ ~NextCall
                BY <3>2 DEF Upload, PrefixSum, NextCall
            <4>2. UNCHANGED <<total, compact, counts, merged, gathered, wrote, scratch>> /\ pc' = pc
                BY <3>2, <4>1, BodyStep DEF After
            <4> QED BY <3>2, <4>2 DEF HuffsThrough, HuffGrid
        <3> QED BY <1>9, <3>1, <3>2
    <2> QED BY <1>0, <2>1, WroteKept
<1>10. CASE pc # "groups" /\ \E c \in Chunks : ScanFlagged(c) \/ ScanSub(c)
    <2>1. pc = "scan"
        BY <1>10 DEF ScanFlagged, ScanSub
    <2>2. ~Upload /\ ~PrefixSum /\ ~NextCall
        BY <2>1 DEF Upload, PrefixSum, NextCall
    <2> QED BY <2>1, <2>2, BodyStep DEF After
<1> QED BY <1>1, <1>2, <1>3, <1>4, <1>5, <1>6, <1>7, <1>8, <1>9, <1>10 DEF Next

\* Two blocks never write one place, and none behind the end.
LEMMA WritersApart ==
    ASSUME ShapeInv, SizeInv, CompactInv, MergeInv, WroteInv, pc \in Compacted
    PROVE  OneWriter /\ \A x \in wrote : x[2] < 6 * total
<1>1. WroteBody /\ HuffsThrough \subseteq HuffGrid /\ (HuffsThrough # {} => pc \in Merged)
    BY ThroughGrid DEF WroteInv, WroteBody, Merged, HuffsThrough
<1> DEFINE GatherBlock(x) == \E j \in 1 .. counts["raw"] : x = <<<<"gather", j>>, GatherSlot(j)>>
           HuffBlock(x) == \E b \in HuffGrid : pc \in Merged /\ x = <<<<"huff", b>>, HuffSlot(b)>>
<1>2. ASSUME NEW x \in wrote PROVE GatherBlock(x) \/ HuffBlock(x)
    BY <1>1 DEF WroteBody
<1>3. ASSUME NEW x \in wrote, NEW y \in wrote, x[2] = y[2] PROVE x = y
    <2>1. CASE GatherBlock(x) /\ GatherBlock(y)
        <3>1. PICK i \in 1 .. counts["raw"] : x = <<<<"gather", i>>, GatherSlot(i)>>
            BY <2>1
        <3>2. PICK j \in 1 .. counts["raw"] : y = <<<<"gather", j>>, GatherSlot(j)>>
            BY <2>1
        <3>3. GatherSlot(i) = GatherSlot(j)
            BY <1>3, <3>1, <3>2
        <3>4. i = j
            BY <3>3, GatherApart
        <3> QED BY <3>1, <3>2, <3>4
    <2>2. CASE HuffBlock(x) /\ HuffBlock(y)
        <3>1. PICK a \in HuffGrid : x = <<<<"huff", a>>, HuffSlot(a)>>
            BY <2>2
        <3>2. PICK b \in HuffGrid : y = <<<<"huff", b>>, HuffSlot(b)>>
            BY <2>2
        <3>3. HuffSlot(a) = HuffSlot(b)
            BY <1>3, <3>1, <3>2
        <3>4. a = b
            BY <2>2, <3>3, HuffApart
        <3> QED BY <3>1, <3>2, <3>4
    <2>3. ASSUME NEW u \in wrote, NEW v \in wrote, GatherBlock(u), HuffBlock(v) PROVE u[2] # v[2]
        <3>1. PICK j \in 1 .. counts["raw"] : u = <<<<"gather", j>>, GatherSlot(j)>>
            BY <2>3
        <3>2. PICK b \in HuffGrid : v = <<<<"huff", b>>, HuffSlot(b)>>
            BY <2>3
        <3>3. GatherSlot(j) # HuffSlot(b)
            BY <2>3, GatherHuffApart
        <3> QED BY <3>1, <3>2, <3>3
    <2> HIDE DEF GatherBlock, HuffBlock
    <2> QED BY <1>2, <1>3, <2>1, <2>2, <2>3
<1>4. ASSUME NEW x \in wrote PROVE x[2] < 6 * total
    <2>1. CASE GatherBlock(x)
        <3>1. PICK j \in 1 .. counts["raw"] : x = <<<<"gather", j>>, GatherSlot(j)>>
            BY <2>1
        <3>2. PICK c \in Chunks : \E k \in Subs(c) : \E s \in Raws : GatherIs(j, c, k, s)
            BY GatherFrom
        <3> PICK k \in Subs(c), s \in Raws : GatherIs(j, c, k, s)
            BY <3>2
        <3>3. s \in Streams /\ Coded(c, k, s) /\ x[2] = At(Idx(c, k), s)
            BY <3>1 DEF GatherIs, Streams
        <3> QED BY <3>3, CompactedCall, SlotsApart
    <2>2. CASE HuffBlock(x)
        <3>1. PICK b \in HuffGrid : x = <<<<"huff", b>>, HuffSlot(b)>>
            BY <2>2
        <3>2. PICK w \in Huffs : \E n \in 1 .. counts[w], c \in Chunks : \E k \in Subs(c) : HuffIs(b, w, n, c, k)
            BY <2>2, HuffFrom
        <3>3. PICK n \in 1 .. counts[w], c \in Chunks : \E k \in Subs(c) : HuffIs(b, w, n, c, k)
            BY <3>2
        <3> PICK k \in Subs(c) : HuffIs(b, w, n, c, k)
            BY <3>3
        <3>4. w \in Streams /\ Coded(c, k, w) /\ x[2] = At(Idx(c, k), w)
            BY <3>1 DEF HuffIs, Streams
        <3> QED BY <3>4, CompactedCall, SlotsApart
    <2> HIDE DEF GatherBlock, HuffBlock
    <2> QED BY <1>2, <2>1, <2>2
<1> QED BY <1>3, <1>4 DEF OneWriter

\* When the LZ kernel starts, each coded or split stream lies in its place.
LEMMA StreamsReady ==
    ASSUME ShapeInv, SizeInv, CompactInv, MergeInv, WroteInv, pc = "groups",
           NEW c \in Chunks, NEW k \in Subs(c), InLz(c, k), NEW s \in Streams, Coded(c, k, s)
    PROVE  At(Idx(c, k), s) \in DOMAIN scratch /\ scratch[At(Idx(c, k), s)] = <<c, k, s>>
<1>1. pc \in Compacted /\ pc \in Merged /\ WroteBody /\ gathered = 1 .. counts["raw"] /\ HuffsThrough = HuffGrid
    BY DEF Compacted, Merged, WroteInv, WroteBody, HuffsThrough
<1>2. IsCall(Call) /\ Desc(c, k, s).valid
    BY <1>1, CompactedCall, DescFacts
<1>3. CASE s \in Raws
    <2>1. "raw" \in Compacts /\ Of("raw") = Raws
        BY DEF Compacts, Of
    <2>2. Lists(compact["raw"], "raw") /\ counts["raw"] = Len(compact["raw"])
        BY <1>1, <2>1, ListCounts
    <2>3. PICK j \in 1 .. counts["raw"] : compact["raw"][j] = Desc(c, k, s)
        BY <1>2, <1>3, <2>1, <2>2 DEF Lists
    <2>4. GatherIs(j, c, k, s)
        BY <1>1, <1>2, <1>3, <2>3, GatherMeans
    <2>5. j \in gathered
        BY <1>1
    <2> QED BY <1>1, <2>4, <2>5 DEF GatherIs, WroteBody
<1>4. CASE s \in Huffs
    <2>1. s \in Compacts /\ Of(s) = {s}
        BY <1>4 DEF Compacts, Of, Huffs
    <2>2. Lists(compact[s], s) /\ counts[s] = Len(compact[s])
        BY <1>1, <2>1, ListCounts
    <2>3. PICK n \in 1 .. counts[s] : compact[s][n] = Desc(c, k, s)
        BY <1>2, <2>1, <2>2 DEF Lists
    <2>4. PICK b : b = BaseOf(s) + n - 1
        OBVIOUS
    <2>5. InSegment(s, n, b)
        BY <1>4, <2>4 DEF InSegment
    <2>6. HuffIs(b, s, n, c, k)
        BY <1>1, <1>2, <1>4, <2>3, <2>5, HuffMeans
    <2>7. b \in HuffsThrough
        BY <1>1, <2>6 DEF HuffIs
    <2> QED BY <1>1, <2>6, <2>7 DEF HuffIs, WroteBody
<1> QED BY <1>3, <1>4 DEF Streams

\* So a group finds what it looks for.
LEMMA DecodedOwn ==
    ASSUME ShapeInv, SizeInv, CompactInv, MergeInv, WroteInv, pc = "groups",
           NEW c \in Chunks, NEW k \in Subs(c), InLz(c, k)
    PROVE  Decoded(c, k) = <<c, k>>
<1>1. IsCall(Call) /\ first[c] + k - 1 = Idx(c, k)
    BY CompactedCall, IdxFacts DEF Compacted
<1>2. Sub(c, k) \in SubChunks
    <2>1. IsChunk(Chunk(c)) /\ Chunk(c).flag = "lz" /\ Chunk(c).decomp > 0
        BY <1>1, CallFacts DEF InLz, IsLz
    <2>2. Chunk(c).subs \in Seq(SubChunks) /\ k \in 1 .. Len(Chunk(c).subs)
        BY <2>1 DEF IsChunk, Subs
    <2> QED BY <2>2 DEF Sub
<1>3. \A s \in Streams : Coded(c, k, s) => At(Idx(c, k), s) \in DOMAIN scratch /\ scratch[At(Idx(c, k), s)] = <<c, k, s>>
    BY StreamsReady
<1> DEFINE i == Idx(c, k)
<1>4. At(i, "hi") = At(i, "rawHi") /\ At(i, "lo") = At(i, "rawLo")
    BY DEF At, Plane
<1>5. /\ "lit" \in Streams /\ "tok" \in Streams /\ "hi" \in Streams /\ "lo" \in Streams
      /\ "rawHi" \in Streams /\ "rawLo" \in Streams
    BY DEF Streams, Huffs, Raws
<1>6. /\ (Coded(c, k, "lit") <=> Sub(c, k).lit = "huff")
      /\ (Coded(c, k, "tok") <=> Sub(c, k).tok = "huff")
      /\ (Coded(c, k, "hi") <=> Sub(c, k).hi = "huff")
      /\ (Coded(c, k, "lo") <=> Sub(c, k).lo = "huff")
      /\ (Coded(c, k, "rawHi") <=> Sub(c, k).hi = "plain")
      /\ (Coded(c, k, "rawLo") <=> Sub(c, k).lo = "plain")
    BY DEF Coded
<1>7. Sub(c, k).hi \in {"huff", "plain", "none"} /\ Sub(c, k).lo \in {"huff", "plain", "none"}
    BY <1>2 DEF SubChunks
<1> HIDE DEF i
<1>8. Reads(c, k, i, "lit")
    BY <1>3, <1>5, <1>6 DEF Reads, i
<1>9. Reads(c, k, i, "tok")
    BY <1>3, <1>5, <1>6 DEF Reads, i
<1>10. Reads(c, k, i, "hi")
    BY <1>3, <1>4, <1>5, <1>6, <1>7 DEF Reads, i
<1>11. Reads(c, k, i, "lo")
    BY <1>3, <1>4, <1>5, <1>6, <1>7 DEF Reads, i
<1>12. \A s \in Huffs : Reads(c, k, i, s)
    BY <1>8, <1>9, <1>10, <1>11 DEF Huffs
<1> QED BY <1>1, <1>12 DEF Decoded, i

-----------------------------------------------------------------------------
(* The groups *)

\* k full parts of b cover a exactly from the rounded-up quotient on.
LEMMA CeilBoundary ==
    ASSUME NEW a \in Nat, NEW b \in Nat \ {0}, NEW k \in Nat
    PROVE  k * b >= a <=> k >= CeilDiv(a, b)
<1> DEFINE q == CeilDiv(a, b)
<1>1. q \in Nat /\ a <= b * q /\ b * q < a + b
    BY CeilFacts
<1> HIDE DEF q
<1>2. b * q \in Nat /\ k * b \in Nat /\ b * k = k * b
    BY <1>1
<1>3. CASE k >= q
    <2>1. PICK d \in Nat : k = q + d
        <3>1. k - q \in Nat /\ k = q + (k - q)
            BY <1>1, <1>3
        <3> QED BY <3>1
    <2>2. b * k = b * q + b * d /\ b * d \in Nat
        BY <1>1, <2>1
    <2>3. k * b >= a
        BY <1>1, <1>2, <2>2
    <2> QED BY <1>3, <2>3 DEF q
<1>4. CASE k < q
    <2>1. PICK d \in Nat : q = k + 1 + d
        <3>1. q - k - 1 \in Nat /\ q = k + 1 + (q - k - 1)
            BY <1>1, <1>4
        <3> QED BY <3>1
    <2>2. b * q = b * k + b + b * d /\ b * d \in Nat
        BY <1>1, <2>1
    <2>3. k * b < a
        BY <1>1, <1>2, <2>2
    <2>4. ~(k * b >= a) /\ ~(k >= q)
        BY <1>1, <1>2, <1>4, <2>3
    <2> QED BY <2>4 DEF q
<1> QED BY <1>1, <1>3, <1>4

\* A group's chunks are chunks of the call, at least one; every chunk is in one group.
LEMMA GroupFacts ==
    ASSUME IsCall(Call)
    PROVE  /\ \A g \in Groups : /\ FirstOf(g) \in Chunks /\ LastOf(g) \in Chunks /\ FirstOf(g) <= LastOf(g)
                                /\ \A c \in FirstOf(g) .. LastOf(g) : c \in Chunks
           /\ \A c \in Chunks : \E g \in Groups : c \in FirstOf(g) .. LastOf(g)
           /\ \A g, h \in Groups : \A c \in FirstOf(g) .. LastOf(g) : c \in FirstOf(h) .. LastOf(h) => g = h
<1> DEFINE n == Len(Call.chunks)
           p == Call.cpg
<1>1. n \in Nat /\ p \in Nat \ {0} /\ Chunks = 1 .. n
    BY CallFacts DEF Chunks
<1>2. /\ Groups = 1 .. CeilDiv(n, p) /\ \A g : FirstOf(g) = (g - 1) * p + 1
      /\ \A g : LastOf(g) = IF g * p > n THEN n ELSE g * p
    BY DEF Groups, GroupCount, FirstOf, LastOf
<1> HIDE DEF n, p
<1>3. CeilDiv(n, p) \in Nat
    BY <1>1, CeilFacts
<1>4. ASSUME NEW g \in Groups
      PROVE  /\ g \in Nat /\ g - 1 \in Nat /\ (g - 1) * p \in Nat /\ (g - 1) * p < n /\ g * p = (g - 1) * p + p
             /\ FirstOf(g) \in 1 .. n /\ LastOf(g) \in 1 .. n /\ FirstOf(g) <= LastOf(g) /\ LastOf(g) <= g * p
    <2>1. g \in Nat /\ g >= 1 /\ g <= CeilDiv(n, p)
        <3>1. g \in 1 .. CeilDiv(n, p)
            BY <1>2
        <3> QED BY <1>3, <3>1
    <2>2. PICK f \in Nat : g = f + 1
        <3>1. g - 1 \in Nat /\ g = (g - 1) + 1
            BY <2>1
        <3> QED BY <3>1
    <2>3. f = g - 1 /\ ~(f >= CeilDiv(n, p))
        BY <1>3, <2>1, <2>2
    <2>4. f * p \in Nat /\ f * p < n /\ g * p = f * p + p
        <3>1. f * p \in Nat /\ (f + 1) * p = f * p + p
            BY <1>1
        <3>2. ~(f * p >= n)
            BY <1>1, <2>3, CeilBoundary
        <3> QED BY <1>1, <2>2, <3>1, <3>2
    <2>5. FirstOf(g) = f * p + 1 /\ LastOf(g) = IF g * p > n THEN n ELSE g * p
        BY <1>2, <2>3
    <2>6. FirstOf(g) \in 1 .. n /\ LastOf(g) \in 1 .. n /\ FirstOf(g) <= LastOf(g) /\ LastOf(g) <= g * p
        BY <1>1, <2>4, <2>5
    <2> QED BY <2>1, <2>3, <2>4, <2>6
<1>5. ASSUME NEW c \in Chunks PROVE \E g \in Groups : c \in FirstOf(g) .. LastOf(g)
    <2> DEFINE g == CeilDiv(c, p)
    <2>1. c \in Nat /\ c >= 1 /\ c <= n
        BY <1>1
    <2>2. g \in Nat /\ g >= 1 /\ g <= CeilDiv(n, p)
        <3>1. c > 0 /\ p \in Nat \ {0} /\ n \in Nat
            BY <1>1, <2>1
        <3>2. CeilDiv(c, p) \in Nat /\ CeilDiv(c, p) >= 1
            BY <2>1, <3>1, CeilFacts
        <3>3. CeilDiv(c, p) <= CeilDiv(n, p)
            BY <2>1, <3>1, CeilGrows
        <3> QED BY <3>2, <3>3
    <2>3. g * p >= c
        BY <1>1, <2>1, <2>2, CeilBoundary
    <2>4. (g - 1) * p < c
        <3>1. g - 1 \in Nat /\ ~(g - 1 >= CeilDiv(c, p))
            BY <2>2
        <3>2. ~((g - 1) * p >= c) /\ (g - 1) * p \in Nat
            BY <1>1, <2>1, <3>1, CeilBoundary
        <3> QED BY <2>1, <3>2
    <2> HIDE DEF g
    <2>5. g \in Groups
        BY <1>2, <1>3, <2>2
    <2>6. FirstOf(g) = (g - 1) * p + 1 /\ LastOf(g) = (IF g * p > n THEN n ELSE g * p)
            /\ (g - 1) * p \in Nat /\ g * p \in Nat
        BY <1>1, <1>2, <1>4, <2>5
    <2> QED BY <1>1, <2>1, <2>3, <2>4, <2>5, <2>6
<1>6. ASSUME NEW g \in Groups, NEW h \in Groups, g < h PROVE LastOf(g) < FirstOf(h)
    <2>1. g \in Nat /\ h - 1 \in Nat /\ (h - 1) * p \in Nat /\ LastOf(g) <= g * p /\ FirstOf(h) = (h - 1) * p + 1
          /\ LastOf(g) \in Nat /\ h \in Nat
        BY <1>1, <1>2, <1>4
    <2>2. PICK d \in Nat : h - 1 = g + d
        <3>1. h - 1 - g \in Nat /\ h - 1 = g + (h - 1 - g)
            BY <1>6, <2>1
        <3> QED BY <3>1
    <2>3. (h - 1) * p = g * p + d * p /\ d * p \in Nat /\ g * p \in Nat
        BY <1>1, <2>1, <2>2
    <2> QED BY <2>1, <2>3
<1>7. ASSUME NEW g \in Groups, NEW h \in Groups, NEW c \in FirstOf(g) .. LastOf(g), c \in FirstOf(h) .. LastOf(h)
      PROVE  g = h
    <2>1. /\ g \in Nat /\ h \in Nat /\ FirstOf(g) \in Nat /\ LastOf(g) \in Nat
          /\ FirstOf(h) \in Nat /\ LastOf(h) \in Nat
        <3>1. g \in Nat /\ FirstOf(g) \in 1 .. n /\ LastOf(g) \in 1 .. n
            BY <1>4
        <3>2. h \in Nat /\ FirstOf(h) \in 1 .. n /\ LastOf(h) \in 1 .. n
            BY <1>4
        <3> QED BY <1>1, <3>1, <3>2
    <2>2. ~(g < h) /\ ~(h < g)
        BY <1>6, <1>7, <2>1
    <2> QED BY <2>1, <2>2
<1>8. \A g \in Groups : \A c \in FirstOf(g) .. LastOf(g) : c \in Chunks
    BY <1>1, <1>4
<1> QED BY <1>1, <1>4, <1>5, <1>7, <1>8

\* A part has been emitted by the group of its chunk.
LEMMA EmittedMeans ==
    \A x : x \in Emitted <=> \E g \in Groups : \E c \in FirstOf(g) .. LastOf(g) : \E k \in Due(c) :
                                 Behind(g, c, k) /\ x = Emission(g, c, k)
BY DEF Emitted

\* Group g0 passes the parts N of chunk c0, no other group passes any.
Passes(g0, c0, N) ==
    /\ out' = out \union {Emission(g0, c0, k) : k \in N}
    /\ \A g \in Groups : \A c \in FirstOf(g) .. LastOf(g) : \A k \in Due(c) :
          Behind(g, c, k)' <=> Behind(g, c, k) \/ (g = g0 /\ c = c0 /\ k \in N)

\* A group that passes parts of a chunk and writes them keeps the output what the
\* groups' places say.
LEMMA EmittedStep ==
    ASSUME todo' = todo, out = Emitted, NEW g0 \in Groups, NEW c0 \in FirstOf(g0) .. LastOf(g0),
           NEW N, N \subseteq Due(c0), Passes(g0, c0, N)
    PROVE  out' = Emitted'
<1>1. /\ Groups' = Groups /\ \A g : FirstOf(g)' = FirstOf(g) /\ LastOf(g)' = LastOf(g)
      /\ \A c : Due(c)' = Due(c) /\ \A g, k : Emission(g, c, k)' = Emission(g, c, k)
    BY CallKept
<1>2. Emitted' = UNION {UNION {{Emission(g, c, k) : k \in {i \in Due(c) : Behind(g, c, i)'}}
                                  : c \in FirstOf(g) .. LastOf(g)} : g \in Groups}
    BY <1>1 DEF Emitted
<1>3. \A x : x \in Emitted' <=> \E g \in Groups : \E c \in FirstOf(g) .. LastOf(g) : \E k \in Due(c) :
                                    Behind(g, c, k)' /\ x = Emission(g, c, k)
    BY <1>2
<1>4. ASSUME NEW x \in out' PROVE x \in Emitted'
    <2>1. CASE x \in out
        <3>1. PICK g \in Groups : \E c \in FirstOf(g) .. LastOf(g) : \E k \in Due(c) :
                  Behind(g, c, k) /\ x = Emission(g, c, k)
            BY <2>1, EmittedMeans
        <3>2. PICK c \in FirstOf(g) .. LastOf(g) : \E k \in Due(c) : Behind(g, c, k) /\ x = Emission(g, c, k)
            BY <3>1
        <3>3. PICK k \in Due(c) : Behind(g, c, k) /\ x = Emission(g, c, k)
            BY <3>2
        <3>4. Behind(g, c, k)'
            BY <3>3 DEF Passes
        <3> QED BY <1>3, <3>3, <3>4
    <2>2. CASE x \notin out
        <3>1. PICK k \in N : x = Emission(g0, c0, k)
            BY <1>4, <2>2 DEF Passes
        <3>2. k \in Due(c0) /\ Behind(g0, c0, k)'
            BY DEF Passes
        <3> QED BY <1>3, <3>1, <3>2
    <2> QED BY <2>1, <2>2
<1>5. ASSUME NEW x \in Emitted' PROVE x \in out'
    <2>1. PICK g \in Groups : \E c \in FirstOf(g) .. LastOf(g) : \E k \in Due(c) :
              Behind(g, c, k)' /\ x = Emission(g, c, k)
        BY <1>3
    <2>2. PICK c \in FirstOf(g) .. LastOf(g) : \E k \in Due(c) : Behind(g, c, k)' /\ x = Emission(g, c, k)
        BY <2>1
    <2>3. PICK k \in Due(c) : Behind(g, c, k)' /\ x = Emission(g, c, k)
        BY <2>2
    <2>4. CASE Behind(g, c, k)
        <3>1. x \in Emitted
            BY <2>3, <2>4, EmittedMeans
        <3> QED BY <3>1 DEF Passes
    <2>5. CASE ~Behind(g, c, k)
        <3>1. g = g0 /\ c = c0 /\ k \in N
            BY <2>3, <2>5 DEF Passes
        <3> QED BY <2>3, <3>1 DEF Passes
    <2> QED BY <2>4, <2>5
<1> QED BY <1>4, <1>5

\* What GroupPos says of a group that is still at work.
LEMMA GroupAt ==
    ASSUME ShapeInv, GroupPos, pc = "groups", NEW g \in Groups \ done
    PROVE  \E c \in FirstOf(g) .. LastOf(g) : \E k \in Subs(c) :
               /\ pos[g] = [c |-> c, k |-> k] /\ pos[g].c = c /\ pos[g].k = k
               /\ c \in Chunks /\ k \in Nat /\ k >= 1 /\ k <= NSubs(Chunk(c)) /\ NSubs(Chunk(c)) \in Nat
               /\ IsLz(c) => \A j \in 1 .. k - 1 : Sub(c, j).lz
<1>1. IsCall(Call)
    BY RunningCall
<1>2. pos[g] = [c |-> pos[g].c, k |-> pos[g].k] /\ pos[g].c \in FirstOf(g) .. LastOf(g)
      /\ pos[g].k \in Subs(pos[g].c) /\ (IsLz(pos[g].c) => \A j \in 1 .. pos[g].k - 1 : Sub(pos[g].c, j).lz)
    BY DEF GroupPos
<1>3. PICK c \in FirstOf(g) .. LastOf(g) : c = pos[g].c
    BY <1>2
<1>4. PICK k \in Subs(c) : k = pos[g].k
    BY <1>2, <1>3
<1>5. c \in Chunks
    BY <1>1, GroupFacts
<1>6. NSubs(Chunk(c)) \in Nat /\ k \in 1 .. NSubs(Chunk(c))
    BY <1>1, <1>5, CallFacts, ScanAssumption DEF Subs
<1>7. pos[g] = [c |-> c, k |-> k]
    BY <1>2, <1>3, <1>4
<1> QED BY <1>2, <1>3, <1>4, <1>5, <1>6, <1>7

\* A group goes on within its chunk.
LEMMA NextSubPasses ==
    ASSUME ShapeInv, GroupInv, pc = "groups", todo' = todo, NEW g0 \in Groups \ done,
           NEW c0 \in FirstOf(g0) .. LastOf(g0), NEW k0 \in Subs(c0), pos[g0] = [c |-> c0, k |-> k0],
           pos' = [pos EXCEPT ![g0].k = k0 + 1], UNCHANGED <<done, pc>>,
           k0 + 1 \in Subs(c0), \A j \in 1 .. k0 : Sub(c0, j).lz, k0 \in Due(c0),
           out' = out \union {Emission(g0, c0, k0)}
    PROVE  GroupInv'
<1>1. IsCall(Call) /\ GroupPos /\ out = Emitted /\ IsFiniteSet(out) /\ DOMAIN pos = Groups
    BY RunningCall DEF GroupInv, GroupPos
<1>2. c0 \in Chunks /\ k0 \in Nat /\ \A c \in Chunks : \A k \in Subs(c) : k \in Nat /\ c \in Nat /\ k >= 1
    BY <1>1, GroupFacts, CallFacts, IdxFacts DEF Subs, Chunks
<1>3. pos'[g0] = [c |-> c0, k |-> k0 + 1] /\ DOMAIN pos' = Groups /\ \A g \in Groups : g # g0 => pos'[g] = pos[g]
    BY <1>1
<1>4. /\ Groups' = Groups /\ \A g : FirstOf(g)' = FirstOf(g) /\ LastOf(g)' = LastOf(g)
      /\ \A c : Subs(c)' = Subs(c) /\ (IsLz(c)' <=> IsLz(c))
      /\ \A c, j : Sub(c, j)' = Sub(c, j)
    BY CallKept
<1>5. ASSUME NEW g \in Groups \ done
      PROVE  /\ pos'[g] = [c |-> pos'[g].c, k |-> pos'[g].k]
             /\ pos'[g].c \in FirstOf(g) .. LastOf(g) /\ pos'[g].k \in Subs(pos'[g].c)
             /\ IsLz(pos'[g].c) => \A j \in 1 .. pos'[g].k - 1 : Sub(pos'[g].c, j).lz
    <2>1. CASE g = g0
        <3>1. pos'[g].c = c0 /\ pos'[g].k = k0 + 1 /\ (k0 + 1) - 1 = k0
            BY <1>2, <1>3, <2>1
        <3> QED BY <1>3, <2>1, <3>1
    <2>2. CASE g # g0
        <3>1. pos'[g] = pos[g]
            BY <1>3, <2>2
        <3> QED BY <1>1, <3>1 DEF GroupPos
    <2> QED BY <2>1, <2>2
<1>6. GroupPos'
    BY <1>3, <1>4, <1>5 DEF GroupPos
<1>7. ASSUME NEW g \in Groups, NEW c \in FirstOf(g) .. LastOf(g), NEW k \in Due(c)
      PROVE  Behind(g, c, k)' <=> Behind(g, c, k) \/ (g = g0 /\ c = c0 /\ k \in {k0})
    <2>1. CASE g = g0
        <3>1. c \in Nat /\ k \in Nat /\ c0 \in Nat
            <4>1. k = 1 \/ k \in Subs(c)
                BY <1>1, GroupFacts DEF Due
            <4>2. c \in Chunks
                BY <1>1, GroupFacts
            <4> QED BY <1>2, <4>1, <4>2, CallFacts, <1>1 DEF Chunks
        <3>2. pos[g].c = c0 /\ pos[g].k = k0 /\ pos'[g].c = c0 /\ pos'[g].k = k0 + 1
            BY <1>3, <2>1
        <3> QED BY <1>2, <2>1, <3>1, <3>2 DEF Behind
    <2>2. CASE g # g0
        BY <1>3, <2>2 DEF Behind
    <2> QED BY <2>1, <2>2
<1>8. PICK N : N = {k0}
    OBVIOUS
<1>9. Passes(g0, c0, N) /\ N \subseteq Due(c0)
    BY <1>7, <1>8 DEF Passes
<1>10. out' = Emitted'
    BY <1>1, <1>9, EmittedStep
<1>11. IsFiniteSet(out')
    BY <1>1, FS_AddElement
<1> QED BY <1>6, <1>10, <1>11 DEF GroupInv

\* A group goes on to its next chunk, or is through.
LEMMA NextChunkPasses ==
    ASSUME ShapeInv, GroupInv, pc = "groups", todo' = todo, NEW g0 \in Groups \ done,
           NEW c0 \in FirstOf(g0) .. LastOf(g0), NEW k0 \in Subs(c0), pos[g0] = [c |-> c0, k |-> k0],
           NextChunk(g0, c0), NEW N, N \subseteq Due(c0), \A k \in Due(c0) : k >= k0 <=> k \in N,
           out' = out \union {Emission(g0, c0, k) : k \in N}, IsFiniteSet(out')
    PROVE  GroupInv'
<1>1. IsCall(Call) /\ GroupPos /\ out = Emitted /\ DOMAIN pos = Groups /\ done \subseteq Groups
    BY RunningCall DEF GroupInv, GroupPos, ShapeInv, Grid
<1>2. c0 \in Chunks /\ k0 \in Nat /\ c0 \in Nat
    BY <1>1, GroupFacts, CallFacts, IdxFacts DEF Chunks
<1>3. pos' = [pos EXCEPT ![g0] = [c |-> c0 + 1, k |-> 1]]
    BY DEF NextChunk
<1>4. pos'[g0] = [c |-> c0 + 1, k |-> 1] /\ DOMAIN pos' = Groups /\ \A g \in Groups : g # g0 => pos'[g] = pos[g]
    BY <1>1, <1>3
<1>5. /\ Groups' = Groups /\ \A g : FirstOf(g)' = FirstOf(g) /\ LastOf(g)' = LastOf(g)
      /\ \A c : Subs(c)' = Subs(c) /\ (IsLz(c)' <=> IsLz(c))
      /\ \A c, j : Sub(c, j)' = Sub(c, j)
    BY CallKept
<1>6. \/ c0 # LastOf(g0) /\ pc' = "groups" /\ done' = done
      \/ c0 = LastOf(g0) /\ pc' = "groups" /\ done' = done \union {g0}
      \/ c0 = LastOf(g0) /\ pc' = "over" /\ done \union {g0} = Groups
    BY DEF NextChunk, Through
<1>7. ASSUME pc' = "groups", NEW g \in Groups \ done'
      PROVE  /\ pos'[g] = [c |-> pos'[g].c, k |-> pos'[g].k]
             /\ pos'[g].c \in FirstOf(g) .. LastOf(g) /\ pos'[g].k \in Subs(pos'[g].c)
             /\ IsLz(pos'[g].c) => \A j \in 1 .. pos'[g].k - 1 : Sub(pos'[g].c, j).lz
    <2>1. CASE g = g0
        <3>1. c0 # LastOf(g0)
            BY <1>6, <1>7, <2>1
        <3>2. FirstOf(g0) \in Nat /\ LastOf(g0) \in Nat /\ g0 \in Groups
            <4>1. g0 \in Groups /\ FirstOf(g0) \in Chunks /\ LastOf(g0) \in Chunks
                BY <1>1, GroupFacts
            <4>2. Chunks \subseteq Nat
                BY DEF Chunks
            <4> QED BY <4>1, <4>2
        <3>3. c0 + 1 \in FirstOf(g0) .. LastOf(g0)
            BY <3>1, <3>2
        <3>4. 1 \in Subs(c0 + 1)
            <4>1. c0 + 1 \in Chunks
                BY <1>1, <3>2, <3>3, GroupFacts
            <4> QED BY <1>1, <4>1, CallFacts, ScanAssumption DEF Subs
        <3>5. pos'[g].c = c0 + 1 /\ pos'[g].k = 1 /\ \A j \in 1 .. 1 - 1 : FALSE
            BY <1>4, <2>1
        <3> QED BY <1>4, <2>1, <3>3, <3>4, <3>5
    <2>2. CASE g # g0
        <3>1. pos'[g] = pos[g] /\ g \notin done
            BY <1>4, <1>6, <1>7, <2>2
        <3> QED BY <1>1, <3>1 DEF GroupPos
    <2> QED BY <2>1, <2>2
<1>8. GroupPos'
    BY <1>4, <1>5, <1>7 DEF GroupPos
<1>9. ASSUME NEW g \in Groups, NEW c \in FirstOf(g) .. LastOf(g), NEW k \in Due(c)
      PROVE  Behind(g, c, k)' <=> Behind(g, c, k) \/ (g = g0 /\ c = c0 /\ k \in N)
    <2>1. CASE g = g0
        <3>1. c \in Nat /\ k \in Nat /\ k >= 1 /\ LastOf(g) \in Nat /\ c <= LastOf(g)
            <4>1. c \in Chunks /\ LastOf(g) \in Chunks /\ FirstOf(g) \in Chunks
                BY <1>1, GroupFacts
            <4>2. k = 1 \/ k \in Subs(c)
                BY DEF Due
            <4>3. k \in Nat /\ k >= 1
                BY <1>1, <4>1, <4>2, CallFacts, IdxFacts DEF Subs
            <4> QED BY <1>1, <4>1, <4>3, CallFacts DEF Chunks
        <3>2. pos[g].c = c0 /\ pos[g].k = k0 /\ pos'[g].c = c0 + 1 /\ pos'[g].k = 1
            BY <1>4, <2>1
        <3>3. Behind(g, c, k) <=> c < c0 \/ (c = c0 /\ k < k0)
            BY <2>1, <3>2 DEF Behind
        <3>4. Behind(g, c, k)' <=> c <= c0
            <4>1. CASE c0 # LastOf(g0)
                <5>1. pc' = "groups" /\ g \notin done'
                    BY <1>6, <2>1, <4>1
                <5>2. Behind(g, c, k)' <=> c < c0 + 1 \/ (c = c0 + 1 /\ k < 1)
                    BY <3>2, <5>1 DEF Behind
                <5> QED BY <1>2, <3>1, <5>2
            <4>2. CASE c0 = LastOf(g0)
                <5>1. pc' = "over" \/ g \in done'
                    BY <1>6, <2>1, <4>2
                <5>2. Behind(g, c, k)'
                    BY <5>1 DEF Behind
                <5> QED BY <2>1, <3>1, <4>2, <5>2
            <4> QED BY <4>1, <4>2
        <3>5. c = c0 => (k \in N <=> ~(k < k0))
            BY <1>2, <3>1
        <3> QED BY <1>2, <2>1, <3>1, <3>3, <3>4, <3>5
    <2>2. CASE g # g0
        <3>1. pos'[g] = pos[g]
            BY <1>4, <2>2
        <3>2. pc' = "over" => g \in done
            BY <1>6, <2>2
        <3>3. pc' # "over" => pc' = pc /\ (g \in done' <=> g \in done)
            BY <1>6, <2>2
        <3> QED BY <2>2, <3>1, <3>2, <3>3 DEF Behind
    <2> QED BY <2>1, <2>2
<1>10. Passes(g0, c0, N)
    BY <1>9 DEF Passes
<1>11. out' = Emitted'
    BY <1>1, <1>10, EmittedStep
<1> QED BY <1>8, <1>11 DEF GroupInv

\* The output is what the groups have passed.
LEMMA GroupStep ==
    ASSUME ShapeInv, SizeInv, CompactInv, MergeInv, WroteInv, GroupInv, [Next]_vars
    PROVE  GroupInv'
<1>1. CASE LzStart
    <2>1. /\ pc = "lz" /\ pc' = "groups" /\ todo' = todo /\ done' = done /\ out' = out
          /\ pos' = [g \in Groups |-> [c |-> FirstOf(g), k |-> 1]]
        BY <1>1 DEF LzStart, FirstOf
    <2>2. IsCall(Call) /\ done = {} /\ out = {}
        BY <2>1, RunningCall DEF ShapeInv, Grid, SizeInv, Running, Scanned
    <2>3. /\ Groups' = Groups /\ \A g : FirstOf(g)' = FirstOf(g) /\ LastOf(g)' = LastOf(g)
          /\ \A c : Subs(c)' = Subs(c) /\ (IsLz(c)' <=> IsLz(c)) /\ Due(c)' = Due(c)
          /\ \A c, j : Sub(c, j)' = Sub(c, j)
          /\ \A g, c, k : Emission(g, c, k)' = Emission(g, c, k)
        BY <2>1, CallKept
    <2>4. GroupPos'
        <3>1. ASSUME NEW g \in Groups
              PROVE  FirstOf(g) \in FirstOf(g) .. LastOf(g) /\ 1 \in Subs(FirstOf(g))
            <4>1. FirstOf(g) \in Chunks /\ LastOf(g) \in Chunks /\ FirstOf(g) <= LastOf(g)
                BY <2>2, GroupFacts
            <4> QED BY <2>2, <4>1, CallFacts, ScanAssumption DEF Subs, Chunks
        <3>2. \A g \in Groups : pos'[g] = [c |-> FirstOf(g), k |-> 1] /\ pos'[g].c = FirstOf(g) /\ pos'[g].k = 1
            BY <2>1
        <3>3. DOMAIN pos' = Groups /\ \A j \in 1 .. 1 - 1 : FALSE
            BY <2>1
        <3> QED BY <2>3, <3>1, <3>2, <3>3 DEF GroupPos
    <2>5. ASSUME NEW g \in Groups, NEW c \in FirstOf(g) .. LastOf(g), NEW k \in Due(c) PROVE ~Behind(g, c, k)'
        <3>1. pos'[g].c = FirstOf(g) /\ pos'[g].k = 1
            BY <2>1
        <3>2. c \in Chunks /\ FirstOf(g) \in Chunks /\ LastOf(g) \in Chunks
            BY <2>2, GroupFacts
        <3>3. k = 1 \/ k \in Subs(c)
            BY DEF Due
        <3>4. k \in Nat /\ k >= 1
            BY <2>2, <3>2, <3>3, IdxFacts DEF Subs
        <3> QED BY <2>1, <2>2, <3>1, <3>2, <3>4, CallFacts DEF Behind, Chunks
    <2>6. Emitted' = {}
        <3>1. Emitted' = UNION {UNION {{Emission(g, c, k) : k \in {i \in Due(c) : Behind(g, c, i)'}}
                                          : c \in FirstOf(g) .. LastOf(g)} : g \in Groups}
            BY <2>3 DEF Emitted
        <3> QED BY <2>5, <3>1
    <2> QED BY <2>1, <2>2, <2>4, <2>6, FS_EmptySet DEF GroupInv
<1>2. ASSUME pc = "groups", NEW g0 \in Groups, LzFlagged(g0) \/ LzSub(g0) PROVE GroupInv'
    <2>1. g0 \in Groups \ done /\ todo' = todo /\ GroupPos /\ IsFiniteSet(out) /\ IsCall(Call)
        BY <1>2, RunningCall DEF LzFlagged, LzSub, LzRest, GroupInv
    <2>2. PICK c0 \in FirstOf(g0) .. LastOf(g0) : \E k \in Subs(c0) :
               /\ pos[g0] = [c |-> c0, k |-> k] /\ pos[g0].c = c0 /\ pos[g0].k = k
               /\ c0 \in Chunks /\ k \in Nat /\ k >= 1 /\ k <= NSubs(Chunk(c0)) /\ NSubs(Chunk(c0)) \in Nat
               /\ IsLz(c0) => \A j \in 1 .. k - 1 : Sub(c0, j).lz
        BY <1>2, <2>1, GroupAt
    <2>3. PICK k0 \in Subs(c0) :
               /\ pos[g0] = [c |-> c0, k |-> k0] /\ pos[g0].c = c0 /\ pos[g0].k = k0
               /\ c0 \in Chunks /\ k0 \in Nat /\ k0 >= 1 /\ k0 <= NSubs(Chunk(c0)) /\ NSubs(Chunk(c0)) \in Nat
               /\ IsLz(c0) => \A j \in 1 .. k0 - 1 : Sub(c0, j).lz
        BY <2>2
    <2>4. IsChunk(Chunk(c0)) /\ Chunk(c0).decomp \in Nat
        BY <2>1, <2>3, CallFacts, ScanAssumption
    <2>5. CASE LzFlagged(g0)
        <3>1. /\ Chunk(c0).flag # "lz" \/ Chunk(c0).decomp = 0
              /\ NextChunk(g0, c0)
              /\ IF Chunk(c0).decomp = 0 THEN out' = out
                 ELSE out' = out \union {[g |-> g0, c |-> c0, at |-> DstOff(c0, 1), n |-> Chunk(c0).decomp, what |-> Chunk(c0).flag]}
            BY <2>3, <2>5 DEF LzFlagged, Emit
        <3>2. NSubs(Chunk(c0)) = 1 /\ k0 = 1
            BY <2>3, <3>1 DEF NSubs
        <3>3. PICK N : N = Due(c0)
            OBVIOUS
        <3>4. \A k \in Due(c0) : k >= k0
            BY <2>3, <3>1, <3>2 DEF Due
        <3>5. out' = out \union {Emission(g0, c0, k) : k \in N} /\ IsFiniteSet(out')
            <4>1. CASE Chunk(c0).decomp = 0
                <5>1. N = {}
                    BY <3>3, <4>1 DEF Due
                <5> QED BY <2>1, <3>1, <4>1, <5>1
            <4>2. CASE Chunk(c0).decomp # 0
                <5>1. N = {1} /\ Emission(g0, c0, 1) = [g |-> g0, c |-> c0, at |-> DstOff(c0, 1), n |-> Chunk(c0).decomp, what |-> Chunk(c0).flag]
                    BY <3>1, <3>3, <4>2 DEF Due, Emission
                <5>2. out' = out \union {Emission(g0, c0, 1)}
                    BY <3>1, <4>2, <5>1
                <5> QED BY <2>1, <5>1, <5>2, FS_AddElement
            <4> QED BY <4>1, <4>2
        <3> QED BY <1>2, <2>1, <2>3, <3>1, <3>3, <3>4, <3>5, NextChunkPasses
    <2>6. CASE LzSub(g0)
        <3>1. /\ IsLz(c0) /\ Chunk(c0).flag = "lz"
              /\ IF ~Sub(c0, k0).lz THEN out' = out /\ NextChunk(g0, c0)
                 ELSE /\ out' = out \union {[g |-> g0, c |-> c0, at |-> DstOff(c0, k0), n |-> SizeOf(c0, k0), what |-> Decoded(c0, k0)]}
                      /\ IF k0 * CAP >= Chunk(c0).decomp THEN NextChunk(g0, c0)
                         ELSE pos' = [pos EXCEPT ![g0].k = k0 + 1] /\ UNCHANGED <<done, pc>>
            BY <2>3, <2>6 DEF LzSub, Emit, IsLz
        <3>2. Due(c0) = {k \in Subs(c0) : InLz(c0, k)}
            <4>1. Chunk(c0).decomp # 0
                BY <2>4, <3>1 DEF IsLz
            <4> QED BY <3>1, <4>1 DEF Due
        <3>3. \A k \in Subs(c0) : k \in Nat /\ k >= 1 /\ k <= NSubs(Chunk(c0))
            BY <2>3 DEF Subs
        <3>4. CASE ~Sub(c0, k0).lz
            <4>1. ASSUME NEW k \in Due(c0) PROVE ~(k >= k0)
                BY <2>3, <3>2, <3>3, <3>4, <4>1 DEF InLz
            <4>2. PICK N : N = {}
                OBVIOUS
            <4>3. out' = out \union {Emission(g0, c0, k) : k \in N} /\ IsFiniteSet(out')
                BY <2>1, <3>1, <3>4, <4>2
            <4>4. N \subseteq Due(c0) /\ \A k \in Due(c0) : k >= k0 <=> k \in N
                BY <4>1, <4>2
            <4>5. NextChunk(g0, c0)
                BY <3>1, <3>4
            <4> QED BY <1>2, <2>1, <2>3, <4>3, <4>4, <4>5, NextChunkPasses
        <3>5. CASE Sub(c0, k0).lz
            <4>1. InLz(c0, k0) /\ \A j \in 1 .. k0 : Sub(c0, j).lz
                <5>1. \A j \in 1 .. k0 : j = k0 \/ j \in 1 .. k0 - 1
                    BY <2>3
                <5> QED BY <2>3, <3>1, <3>5, <5>1 DEF InLz
            <4>2. k0 \in Due(c0)
                BY <3>2, <4>1
            <4>3. Decoded(c0, k0) = <<c0, k0>>
                BY <1>2, <2>3, <4>1, DecodedOwn
            <4>4. out' = out \union {Emission(g0, c0, k0)}
                BY <3>1, <3>5, <4>3 DEF Emission
            <4>5. k0 * CAP >= Chunk(c0).decomp <=> k0 >= NSubs(Chunk(c0))
                <5>1. NSubs(Chunk(c0)) = CeilDiv(Chunk(c0).decomp, CAP)
                    BY <2>4, <3>1 DEF NSubs, IsLz
                <5> QED BY <2>3, <2>4, <5>1, CeilBoundary, ScanAssumption
            <4>6. CASE k0 * CAP >= Chunk(c0).decomp
                <5>1. k0 = NSubs(Chunk(c0))
                    BY <2>3, <4>5, <4>6
                <5>2. PICK N : N = {k0}
                    OBVIOUS
                <5>3. out' = out \union {Emission(g0, c0, k) : k \in N} /\ IsFiniteSet(out')
                    BY <2>1, <4>4, <5>2, FS_AddElement
                <5>4. N \subseteq Due(c0) /\ \A k \in Due(c0) : k >= k0 <=> k \in N
                    BY <3>2, <3>3, <4>2, <5>1, <5>2, <2>3
                <5>5. NextChunk(g0, c0)
                    BY <3>1, <3>5, <4>6
                <5> QED BY <1>2, <2>1, <2>3, <5>3, <5>4, <5>5, NextChunkPasses
            <4>7. CASE ~(k0 * CAP >= Chunk(c0).decomp)
                <5>1. pos' = [pos EXCEPT ![g0].k = k0 + 1] /\ UNCHANGED <<done, pc>>
                    BY <3>1, <3>5, <4>7
                <5>2. k0 + 1 \in Subs(c0)
                    BY <2>3, <4>5, <4>7 DEF Subs
                <5> QED BY <1>2, <2>1, <2>3, <4>1, <4>2, <4>4, <5>1, <5>2, NextSubPasses
            <4> QED BY <4>6, <4>7
        <3> QED BY <3>4, <3>5
    <2> QED BY <1>2, <2>5, <2>6
<1>3. CASE UNCHANGED vars
    <2>1. UNCHANGED <<todo, pc, done, pos, out>>
        BY <1>3 DEF vars
    <2>2. /\ Groups' = Groups /\ \A g : FirstOf(g)' = FirstOf(g) /\ LastOf(g)' = LastOf(g)
          /\ \A c : Subs(c)' = Subs(c) /\ (IsLz(c)' <=> IsLz(c)) /\ Due(c)' = Due(c)
          /\ \A c, j : Sub(c, j)' = Sub(c, j)
          /\ \A g, c, k : Emission(g, c, k)' = Emission(g, c, k)
        BY <2>1, CallKept
    <2>3. GroupPos'
        BY <2>1, <2>2 DEF GroupInv, GroupPos
    <2>4. \A g, c, k : Behind(g, c, k)' <=> Behind(g, c, k)
        BY <2>1 DEF Behind
    <2>5. Emitted' = Emitted
        BY <2>2, <2>4 DEF Emitted
    <2> QED BY <2>1, <2>3, <2>5 DEF GroupInv
<1>4. CASE ~LzStart /\ ~(pc = "groups" /\ \E g \in Groups : LzFlagged(g) \/ LzSub(g)) /\ ~UNCHANGED vars
    <2>1. pc # "groups"
        BY <1>4 DEF Next, Upload, PrefixSum, NoHuff, NextCall, Compact, Merge, ScanFlagged, ScanSub,
            Gather, BuildLut, HuffDecode
    <2>2. pc' \notin {"groups", "over"}
        <3>1. CASE Upload \/ PrefixSum \/ NextCall
            BY <3>1 DEF Upload, PrefixSum, NextCall
        <3>2. CASE ~(Upload \/ PrefixSum \/ NextCall)
            <4>1. pc' = pc \/ <<pc, pc'>> \in After
                BY <3>2, BodyStep
            <4>2. pc # "over"
                BY <1>4, <3>2 DEF Next, NoHuff, Compact, Merge, ScanFlagged, ScanSub, Gather, BuildLut, HuffDecode
            <4>3. pc = "lz" => pc' = pc
                <5>1. SUFFICES ASSUME pc = "lz" PROVE pc' = pc
                    OBVIOUS
                <5>2. \E j \in 1 .. counts["raw"] : Gather(j)
                    BY <1>4, <3>2, <5>1 DEF Next, NoHuff, Compact, Merge, ScanFlagged, ScanSub, BuildLut, HuffDecode
                <5> QED BY <5>2 DEF Gather
            <4> QED BY <2>1, <4>1, <4>2, <4>3 DEF After
        <3> QED BY <3>1, <3>2
    <2> QED BY <2>2 DEF GroupInv, GroupPos
<1> QED BY <1>1, <1>2, <1>3, <1>4

-----------------------------------------------------------------------------
(* The theorems *)

IInv == ShapeInv /\ SizeInv /\ ScanInv /\ CompactInv /\ MergeInv /\ LutInv /\ WroteInv /\ GroupInv

\* Before the first upload there is nothing to be wrong.
LEMMA InitInv ==
    ASSUME Init
    PROVE  IInv /\ OneWriter
<1>1. pc = "upload" /\ todo \in Calls /\ done = {} /\ wrote = {} /\ counts = NoCounts
        /\ compact = [w \in Compacts |-> <<>>]
    BY DEF Init
<1>2. ShapeInv
    <2>1. todo \in Seq({todo[n] : n \in DOMAIN todo}) /\ \A n \in DOMAIN todo : IsCall(todo[n])
        BY <1>1, CallsAssumption
    <2> QED BY <1>1, <2>1 DEF ShapeInv, NoCounts
<1>3. SizeInv /\ ScanInv
    BY <1>1 DEF SizeInv, ScanInv, ScanPos, Running, Scanned
<1>4. CompactInv /\ MergeInv /\ LutInv /\ WroteInv
    BY <1>1 DEF CompactInv, MergeInv, LutInv, WroteInv, Compacted, Merged
<1>5. GroupInv /\ OneWriter
    BY <1>1 DEF GroupInv, GroupPos, OneWriter
<1> QED BY <1>2, <1>3, <1>4, <1>5 DEF IInv

\* The invariants keep each other.
LEMMA StepInv ==
    ASSUME IInv, [Next]_vars
    PROVE  IInv'
<1>1. ShapeInv' /\ SizeInv' /\ ScanInv'
    BY ShapeStep, SizeStep, ScanStep DEF IInv
<1>2. CompactInv' /\ MergeInv' /\ LutInv'
    BY CompactStep, MergeStep, LutStep DEF IInv
<1>3. WroteInv' /\ GroupInv'
    BY WroteStep, GroupStep DEF IInv
<1> QED BY <1>1, <1>2, <1>3 DEF IInv

\* For any calls the kernels keep the invariants, whatever order their blocks take.
THEOREM ScanInvariant == Spec => []IInv
<1>1. Init => IInv
    BY InitInv
<1>2. IInv /\ [Next]_vars => IInv'
    BY StepInv
<1> QED BY <1>1, <1>2, PTL DEF Spec

\* While anything writes, OneWriter follows from the invariants; before and after, the
\* record of the writers is empty or stays.
WritingApart == pc \in Compacted => OneWriter

\* No step gives a slot a second writer.
LEMMA OneWriterStep ==
    ASSUME IInv, IInv', WritingApart', OneWriter, [Next]_vars
    PROVE  OneWriter'
<1>1. CASE pc' \in Compacted
    BY <1>1 DEF WritingApart
<1>2. CASE pc' \in {"prefix", "scan", "compact"}
    <2>1. wrote' = {}
        BY <1>2 DEF IInv, SizeInv
    <2> QED BY <2>1 DEF OneWriter
<1>3. CASE pc' \in {"upload", "over"}
    <2>1. wrote' = wrote
        <3>1. CASE Upload \/ PrefixSum \/ NextCall
            BY <1>3, <3>1 DEF Upload, PrefixSum, NextCall
        <3>2. CASE ~(Upload \/ PrefixSum \/ NextCall)
            <4>1. pc' = pc \/ <<pc, pc'>> \in After
                BY <3>2, BodyStep
            <4>2. pc \notin {"merge", "build", "decode", "lz"}
                BY <1>3, <4>1 DEF After
            <4> QED BY <3>2, <4>2, BodyStep
        <3> QED BY <3>1, <3>2
    <2> QED BY <2>1 DEF OneWriter
<1>4. pc' \in {"upload", "over", "prefix", "scan", "compact"} \union Compacted
    BY DEF IInv, ShapeInv, Running, Scanned, Compacted
<1> QED BY <1>1, <1>2, <1>3, <1>4

\* No byte of the scratch has two writers in a call, and none is beyond its end: the
\* gather may run beside the Huffman kernels.
THEOREM ScratchOneWriter == Spec => []ScratchDisjoint
<1>1. Init => OneWriter
    BY InitInv
<1>2. IInv => WritingApart /\ (pc \in {"lz", "groups"} => \A x \in wrote : x[2] < 6 * total)
    BY WritersApart DEF IInv, WritingApart, Compacted
<1>3. IInv /\ IInv' /\ WritingApart' /\ OneWriter /\ [Next]_vars => OneWriter'
    BY OneWriterStep
<1>4. OneWriter /\ (pc \in {"lz", "groups"} => \A x \in wrote : x[2] < 6 * total) => ScratchDisjoint
    BY DEF OneWriter, ScratchDisjoint
<1> DEFINE Within == pc \in {"lz", "groups"} => \A x \in wrote : x[2] < 6 * total
<1> HIDE DEF Within
<1>5. IInv => Within
    BY <1>2 DEF Within
<1>6. IInv => WritingApart
    BY <1>2
<1>7. OneWriter /\ Within => ScratchDisjoint
    BY <1>4 DEF Within
<1>8. Spec => []IInv
    BY ScanInvariant
<1> QED BY <1>1, <1>3, <1>5, <1>6, <1>7, <1>8, PTL DEF Spec

\* What a group has to write of a chunk is what is wanted of it.
Part(w) == <<w.c, w.at, w.n, w.what>>

\* The set that OutputComplete asks for, and the parts that are due of a chunk, agree.
LEMMA WantedIs ==
    ASSUME IsCall(Call), NEW g, NEW c \in Chunks
    PROVE  Wanted(c) = {Part(Emission(g, c, k)) : k \in Due(c)}
<1> DEFINE ch == Chunk(c)
           stop == {k \in 1 .. NSubs(ch) : ~ch.subs[k].lz}
<1>1. ch.decomp \in Nat /\ NSubs(ch) \in Nat /\ Subs(c) = 1 .. NSubs(ch)
    BY CallFacts, ScanAssumption DEF Subs
<1>2. CASE ch.decomp = 0
    BY <1>2 DEF Wanted, Due
<1>3. CASE ch.decomp # 0 /\ ch.flag # "lz"
    <2>1. Due(c) = {1} /\ Part(Emission(g, c, 1)) = <<c, DstOff(c, 1), ch.decomp, ch.flag>>
        BY <1>3 DEF Due, Emission, Part
    <2>2. Wanted(c) = {<<c, DstOff(c, 1), ch.decomp, ch.flag>>}
        BY <1>3 DEF Wanted
    <2> QED BY <2>1, <2>2
<1>4. CASE ch.decomp # 0 /\ ch.flag = "lz"
    <2>1. IsLz(c)
        BY <1>1, <1>4 DEF IsLz
    <2>2. ASSUME NEW k \in Subs(c) PROVE (\A s \in stop : k < s) <=> InLz(c, k)
        <3>1. k \in Nat /\ k >= 1 /\ k <= NSubs(ch)
            BY <1>1
        <3>2. ASSUME \A s \in stop : k < s, NEW j \in 1 .. k PROVE Sub(c, j).lz
            <4>1. j \in 1 .. NSubs(ch) /\ ~(k < j)
                BY <1>1, <3>1
            <4> QED BY <3>2, <4>1 DEF Sub
        <3>3. ASSUME InLz(c, k), NEW s \in stop PROVE k < s
            <4>1. s \in 1 .. NSubs(ch) /\ ~Sub(c, s).lz
                BY DEF Sub
            <4>2. s \notin 1 .. k
                BY <3>3, <4>1 DEF InLz
            <4> QED BY <1>1, <3>1, <4>1, <4>2
        <3> HIDE DEF stop
        <3>4. (\A s \in stop : k < s) => InLz(c, k)
            BY <2>1, <3>2 DEF InLz
        <3>5. InLz(c, k) => \A s \in stop : k < s
            BY <3>3
        <3> QED BY <3>4, <3>5
    <2>3. Due(c) = {k \in Subs(c) : \A s \in stop : k < s}
        BY <1>4, <2>2 DEF Due
    <2>4. Wanted(c) = {<<c, DstOff(c, k), SizeOf(c, k), <<c, k>>>> : k \in {j \in 1 .. NSubs(ch) : \A s \in stop : j < s}}
        BY <1>4 DEF Wanted
    <2>5. Wanted(c) = {<<c, DstOff(c, k), SizeOf(c, k), <<c, k>>>> : k \in Due(c)}
        BY <1>1, <2>3, <2>4
    <2>6. \A k : Part(Emission(g, c, k)) = <<c, DstOff(c, k), SizeOf(c, k), <<c, k>>>>
        BY <1>4 DEF Emission, Part
    <2> QED BY <2>5, <2>6
<1> QED BY <1>2, <1>3, <1>4

\* What has been written of a chunk names its chunk and its group.
LEMMA EmissionNames ==
    \A g, c, k : Emission(g, c, k).g = g /\ Emission(g, c, k).c = c
                 /\ Emission(g, c, k) = [g |-> g, c |-> c, at |-> Emission(g, c, k).at, n |-> Emission(g, c, k).n,
                                         what |-> Emission(g, c, k).what]
BY DEF Emission

\* When the groups are through, their output is what is wanted, each part once.
LEMMA AllOut ==
    ASSUME IInv
    PROVE  OutputComplete
<1> SUFFICES ASSUME pc = "over" PROVE OutputComplete
    BY DEF OutputComplete
<1> DEFINE W == UNION {Wanted(c) : c \in Chunks}
<1>1. IsCall(Call) /\ out = Emitted /\ IsFiniteSet(out)
    BY RunningCall DEF IInv, GroupInv
<1>2. \A x : x \in out <=> \E g \in Groups : \E c \in FirstOf(g) .. LastOf(g) : \E k \in Due(c) : x = Emission(g, c, k)
    BY <1>1, EmittedMeans DEF Behind
<1>3. ASSUME NEW x \in out
      PROVE  /\ x.g \in Groups /\ x.c \in FirstOf(x.g) .. LastOf(x.g) /\ x.c \in Chunks
             /\ x = [g |-> x.g, c |-> x.c, at |-> x.at, n |-> x.n, what |-> x.what]
             /\ Part(x) \in W
    <2>1. PICK g \in Groups : \E c \in FirstOf(g) .. LastOf(g) : \E k \in Due(c) : x = Emission(g, c, k)
        BY <1>2
    <2>2. PICK c \in FirstOf(g) .. LastOf(g) : \E k \in Due(c) : x = Emission(g, c, k)
        BY <2>1
    <2>3. PICK k \in Due(c) : x = Emission(g, c, k)
        BY <2>2
    <2>4. x.g = g /\ x.c = c /\ x = [g |-> x.g, c |-> x.c, at |-> x.at, n |-> x.n, what |-> x.what]
        BY <2>3, EmissionNames
    <2>5. c \in Chunks
        BY <1>1, GroupFacts
    <2>6. Part(x) \in Wanted(c)
        BY <1>1, <2>3, <2>5, WantedIs
    <2> QED BY <2>4, <2>5, <2>6
<1>4. ASSUME NEW y \in W PROVE \E x \in out : Part(x) = y
    <2>1. PICK c \in Chunks : y \in Wanted(c)
        OBVIOUS
    <2>2. PICK g \in Groups : c \in FirstOf(g) .. LastOf(g)
        BY <1>1, GroupFacts
    <2>3. PICK k \in Due(c) : y = Part(Emission(g, c, k))
        BY <1>1, <2>1, WantedIs
    <2>4. Emission(g, c, k) \in out
        BY <1>2, <2>2
    <2> QED BY <2>3, <2>4
<1>5. ASSUME NEW x \in out, NEW y \in out, Part(x) = Part(y) PROVE x = y
    <2>1. x.c = y.c /\ x.at = y.at /\ x.n = y.n /\ x.what = y.what
        BY <1>5 DEF Part
    <2>2. x.g = y.g
        <3>1. x.c \in FirstOf(x.g) .. LastOf(x.g) /\ x.c \in FirstOf(y.g) .. LastOf(y.g)
                /\ x.g \in Groups /\ y.g \in Groups
            BY <1>3, <2>1
        <3> QED BY <1>1, <3>1, GroupFacts
    <2> QED BY <1>3, <2>1, <2>2
<1> HIDE DEF W
<1>6. {Part(x) : x \in out} = W
    <2>1. \A x \in out : Part(x) \in W
        BY <1>3
    <2> QED BY <1>4, <2>1
<1>7. Cardinality(W) = Cardinality(out)
    <2> DEFINE f == [x \in out |-> Part(x)]
    <2>1. f \in [out -> W]
        BY <1>3
    <2>2. \A x, y \in out : f[x] = f[y] => x = y
        BY <1>5
    <2>3. \A y \in W : \E x \in out : f[x] = y
        BY <1>4
    <2> HIDE DEF f
    <2>4. f \in Bijection(out, W)
        BY <2>1, <2>2, <2>3 DEF Bijection, Injection, Surjection, IsInjective
    <2>5. ExistsBijection(out, W)
        BY <2>4 DEF ExistsBijection
    <2> QED BY <1>1, <2>5, FS_Bijection
<1> QED BY <1>6, <1>7 DEF OutputComplete, Part, W

\* For any calls, when a call is over its output is complete, each part written once,
\* from streams of its own.
THEOREM EveryCallComplete == Spec => []OutputComplete
<1>1. IInv => OutputComplete
    BY AllOut
<1>2. Spec => []IInv
    BY ScanInvariant
<1> QED BY <1>1, <1>2, PTL

=============================================================================

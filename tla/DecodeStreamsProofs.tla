------------------------- MODULE DecodeStreamsProofs -------------------------
(***************************************************************************)
(* The order in which the device runs what the calls of a handle queue,    *)
(* for every plan of calls: no two operations that touch the same memory,  *)
(* one of them writing, ever run side by side; a synchronous call returns  *)
(* with nothing of its own queued; a caller that has synchronised its      *)
(* stream has waited for its calls; and no asynchronous call overtakes     *)
(* what its caller queued before it.                                       *)
(*                                                                         *)
(* The device keeps, for each operation, the operations it was put behind. *)
(* Upto closes that relation: what must have finished before an operation  *)
(* starts.  The inductive invariant OrderInv says that conflicting         *)
(* operations are ordered by it (Ordered), and what makes every further    *)
(* launch keep that so: which streams are behind which operations          *)
(* (BehindNull, BehindCaller, BehindFree), and which operations can still  *)
(* be queued at all once the host has waited for what it waits for (Gone). *)
(* Each action of the host has a lemma of its own: the chain of launches   *)
(* it makes, and that OrderInv holds after it.                             *)
(*                                                                         *)
(* The second half adds the data: what an operation reads is what its own  *)
(* call left there, and the calls are answered in order.                   *)
(***************************************************************************)
EXTENDS EncodeStreams, TLAPS

-----------------------------------------------------------------------------
(* The order of the queue *)

\* A set of operations with everything they wait for.
Closed(a, Y) == Y \subseteq DOMAIN a /\ \A j \in Y : a[j] \subseteq Y

\* The operations of X and everything that finishes before one of them starts.
Upto(d, X) == {i \in Cuda!Queued(d) : \A Y \in SUBSET Cuda!Queued(d) :
                  Closed(d.after, Y) /\ X \subseteq Y => i \in Y}
Ahead(d, s) == Upto(d, d.front[s])

\* What finishes before the next operation on s starts.
Legacy(d) == Ahead(d, "null") \cup Ahead(d, "caller") \cup Ahead(d, "gather")
Cover(d, s) == IF s = "null" THEN Legacy(d) ELSE Ahead(d, s)

\* Whatever a queued operation waits for is queued.
WellQueued(d) == \A j \in Cuda!Queued(d) : d.after[j] \subseteq Cuda!Queued(d)

\* What must finish before X is closed under that, and X is part of it.
LEMMA UptoClosed ==
    ASSUME NEW d, NEW X, WellQueued(d)
    PROVE  /\ Closed(d.after, Upto(d, X))
           /\ X \subseteq Cuda!Queued(d) => X \subseteq Upto(d, X)
<1>1. ASSUME NEW j \in Upto(d, X), NEW i \in d.after[j] PROVE i \in Upto(d, X)
    BY <1>1 DEF Upto, Closed, WellQueued
<1> QED BY <1>1 DEF Upto, Closed, Cuda!Queued

\* It is the least such set.
LEMMA UptoLeast ==
    ASSUME NEW d, NEW X, NEW Y, Closed(d.after, Y), X \subseteq Y
    PROVE  Upto(d, X) \subseteq Y
BY DEF Upto, Closed, Cuda!Queued

\* What finishes before something before X finishes before X.
LEMMA UptoWithin ==
    ASSUME NEW d, NEW X, NEW Z, WellQueued(d), X \subseteq Upto(d, Z)
    PROVE  Upto(d, X) \subseteq Upto(d, Z)
BY UptoClosed, UptoLeast

\* What must finish before two sets is what must finish before either.
LEMMA UptoUnion ==
    ASSUME NEW d, NEW X, NEW Z, WellQueued(d), X \subseteq Cuda!Queued(d), Z \subseteq Cuda!Queued(d)
    PROVE  Upto(d, X \cup Z) = Upto(d, X) \cup Upto(d, Z)
<1>1. Closed(d.after, Upto(d, X) \cup Upto(d, Z)) /\ X \cup Z \subseteq Upto(d, X) \cup Upto(d, Z)
    BY UptoClosed DEF Closed
<1>2. Upto(d, X \cup Z) \subseteq Upto(d, X) \cup Upto(d, Z)
    BY <1>1, UptoLeast
<1>3. X \cup Z \subseteq Upto(d, X \cup Z)
    BY UptoClosed
<1>4. Upto(d, X) \subseteq Upto(d, X \cup Z) /\ Upto(d, Z) \subseteq Upto(d, X \cup Z)
    BY <1>3, UptoWithin
<1> QED BY <1>2, <1>4

\* Nothing is before nothing, or before an operation that waits for nothing.
LEMMA UptoNone == ASSUME NEW d PROVE Upto(d, {}) = {}
<1>1. Closed(d.after, {})
    BY DEF Closed
<1> QED BY <1>1, UptoLeast

\* Nothing but itself must finish before an operation that is behind none.
LEMMA UptoFirst ==
    ASSUME NEW d, WellQueued(d), NEW x \in Cuda!Queued(d), d.after[x] = {}
    PROVE  Upto(d, {x}) = {x}
<1>1. Closed(d.after, {x})
    BY DEF Closed, Cuda!Queued
<1> QED BY <1>1, UptoLeast, UptoClosed

\* Only what is queued must finish.
LEMMA UptoQueued == ASSUME NEW d, NEW X PROVE Upto(d, X) \subseteq Cuda!Queued(d)
BY DEF Upto

\* e is d with an operation put behind those of B: it changes no other order.
Appended(d, e, id, B) ==
    /\ WellQueued(d) /\ id \notin Cuda!Queued(d) /\ B \subseteq Cuda!Queued(d)
    /\ Cuda!Queued(e) = Cuda!Queued(d) \cup {id} /\ e.after[id] = B
    /\ \A j \in Cuda!Queued(d) : e.after[j] = d.after[j]

\* Work appended to the queue is behind what it was put behind, and changes no earlier order.
LEMMA LaunchOrder ==
    ASSUME NEW d, NEW e, NEW id, NEW B, Appended(d, e, id, B)
    PROVE  /\ WellQueued(e)
           /\ \A X \in SUBSET Cuda!Queued(d) : Upto(e, X) = Upto(d, X)
           /\ Upto(e, {id}) = {id} \cup Upto(d, B)
<1>0. WellQueued(d) /\ id \notin Cuda!Queued(d) /\ B \subseteq Cuda!Queued(d)
    BY DEF Appended
<1>1. /\ DOMAIN e.after = DOMAIN d.after \cup {id}
      /\ e.after[id] = B /\ \A j \in DOMAIN d.after : e.after[j] = d.after[j]
    BY DEF Appended, Cuda!Queued
<1>2. WellQueued(e) /\ Cuda!Queued(e) = Cuda!Queued(d) \cup {id}
    BY <1>0, <1>1 DEF WellQueued, Cuda!Queued
<1>3. ASSUME NEW X \in SUBSET Cuda!Queued(d) PROVE Upto(e, X) = Upto(d, X)
    <2>1. Closed(e.after, Upto(d, X)) /\ X \subseteq Upto(d, X)
        BY <1>0, <1>1, UptoClosed DEF Closed, Cuda!Queued
    <2>2. Closed(d.after, Upto(e, X) \ {id})
        BY <1>0, <1>1, <1>2, UptoClosed DEF Closed, WellQueued, Cuda!Queued
    <2>3. X \subseteq Upto(e, X) \ {id}
        BY <1>0, <1>2, UptoClosed
    <2>4. Upto(e, X) \subseteq Upto(d, X)
        BY <2>1, UptoLeast
    <2>5. Upto(d, X) \subseteq Upto(e, X) \ {id}
        BY <2>2, <2>3, UptoLeast
    <2> QED BY <2>4, <2>5
<1>4. Upto(e, {id}) = {id} \cup Upto(d, B)
    <2>1. Closed(e.after, {id} \cup Upto(d, B))
        BY <1>0, <1>1, UptoClosed DEF Closed, Cuda!Queued
    <2>2. Closed(e.after, Upto(e, {id})) /\ id \in Upto(e, {id})
        BY <1>0, <1>2, UptoClosed
    <2>3. B \subseteq Upto(e, {id})
        BY <1>0, <1>1, <2>2 DEF Closed
    <2>4. Upto(d, B) \subseteq Upto(e, {id})
        BY <1>0, <1>2, <1>3, <2>3, UptoWithin
    <2> QED BY <2>1, <2>2, <2>4, UptoLeast
<1> QED BY <1>2, <1>3, <1>4

\* An operation that finishes leaves the order of the others as it was.
LEMMA FinishOrder ==
    ASSUME NEW d, NEW e, NEW x \in Cuda!Queued(d), WellQueued(d), d.after[x] = {},
           e.after = [j \in Cuda!Queued(d) \ {x} |-> d.after[j] \ {x}]
    PROVE  /\ WellQueued(e) /\ Cuda!Queued(e) = Cuda!Queued(d) \ {x}
           /\ \A X \in SUBSET Cuda!Queued(d) : Upto(e, X \ {x}) = Upto(d, X) \ {x}
<1>1. WellQueued(e) /\ Cuda!Queued(e) = Cuda!Queued(d) \ {x}
    BY DEF WellQueued, Cuda!Queued
<1>2. ASSUME NEW X \in SUBSET Cuda!Queued(d) PROVE Upto(e, X \ {x}) = Upto(d, X) \ {x}
    <2>1. Closed(d.after, Upto(d, X)) /\ X \subseteq Upto(d, X)
        BY UptoClosed
    <2>2. Closed(e.after, Upto(d, X) \ {x})
        BY <1>1, <2>1 DEF Closed, Cuda!Queued
    <2>3. Closed(e.after, Upto(e, X \ {x})) /\ X \ {x} \subseteq Upto(e, X \ {x})
        BY <1>1, UptoClosed
    <2>4. Closed(d.after, Upto(e, X \ {x}) \cup {x})
        BY <1>1, <2>3 DEF Closed, Cuda!Queued
    <2>5. X \subseteq Upto(e, X \ {x}) \cup {x}
        BY <2>3
    <2>6. Upto(d, X) \subseteq Upto(e, X \ {x}) \cup {x}
        BY ZenonT(60), <2>4, <2>5, UptoLeast
    <2>7. Upto(e, X \ {x}) \subseteq Upto(d, X) \ {x}
        BY <2>1, <2>2, UptoLeast
    <2> QED BY <2>6, <2>7
<1> QED BY <1>1, <1>2

-----------------------------------------------------------------------------
(* Two operations of which one writes what the other touches are ordered *)

Conflict(i, j) == \/ Writes(i) \cap (Reads(j) \cup Writes(j)) # {}
                  \/ Writes(j) \cap Reads(i) # {}
Ordered(d) == \A i, j \in Cuda!Queued(d) :
                 i # j /\ Conflict(i, j) => i \in Upto(d, {j}) \/ j \in Upto(d, {i})

-----------------------------------------------------------------------------
(* The operations of CudaDevice *)

Shape(d) ==
    /\ d = [after |-> d.after, front |-> d.front, event |-> d.event, running |-> d.running]
    /\ WellQueued(d)
    /\ d.front \in [Streams -> SUBSET Cuda!Queued(d)]
    /\ d.event \in [Events -> SUBSET Cuda!Queued(d)]
    /\ d.running \subseteq Cuda!Queued(d)
    /\ \A j \in d.running : d.after[j] = {}

\* What the next operation of a stream waits for, with all that finishes before.
LEMMA BeforeIsCover ==
    ASSUME NEW d, Shape(d), NEW s \in Streams
    PROVE  Cuda!Before(d, s) \subseteq Cuda!Queued(d) /\ Upto(d, Cuda!Before(d, s)) = Cover(d, s)
<1>1. \A t \in Streams : d.front[t] \subseteq Cuda!Queued(d)
    BY DEF Shape
<1>2. CASE s # "null"
    BY <1>1, <1>2 DEF Cuda!Before, Cover, Ahead
<1>3. CASE s = "null"
    <2> DEFINE n == d.front["null"]
               c == d.front["caller"]
               g == d.front["gather"]
    <2>1. Cuda!Before(d, "null") = (n \cup c) \cup g
        BY DEF Cuda!Before, Blocking
    <2>2. n \subseteq Cuda!Queued(d) /\ c \subseteq Cuda!Queued(d) /\ g \subseteq Cuda!Queued(d)
        BY <1>1 DEF Streams
    <2>3. Legacy(d) = (Upto(d, n) \cup Upto(d, c)) \cup Upto(d, g)
        BY DEF Legacy, Ahead
    <2> HIDE DEF n, c, g
    <2>a. WellQueued(d)
        BY DEF Shape
    <2>4. Upto(d, n \cup c) = Upto(d, n) \cup Upto(d, c) /\ n \cup c \subseteq Cuda!Queued(d)
        BY <2>a, <2>2, UptoUnion
    <2>5. Upto(d, (n \cup c) \cup g) = Upto(d, n \cup c) \cup Upto(d, g)
        BY <2>a, <2>2, <2>4, UptoUnion
    <2> QED BY <1>3, <2>1, <2>2, <2>3, <2>4, <2>5 DEF Cover
<1> QED BY <1>2, <1>3

\* A launch: the new operation is behind what its stream covers, and its stream (with
\* the blocking ones, for the null stream) is behind it.
Moves(s, t) == t = s \/ (s = "null" /\ t \in Blocking)
AfterLaunch(d, e, s, id) ==
    /\ Shape(e) /\ Cuda!Queued(e) = Cuda!Queued(d) \cup {id}
    /\ e.event = d.event /\ e.running = d.running
    /\ \A X \in SUBSET Cuda!Queued(d) : Upto(e, X) = Upto(d, X)
    /\ \A i \in Cuda!Queued(d) : Upto(e, {i}) = Upto(d, {i})
    /\ Upto(e, {id}) = {id} \cup Cover(d, s)
    /\ \A t \in Streams : Ahead(e, t) = IF Moves(s, t) THEN {id} \cup Cover(d, s) ELSE Ahead(d, t)
    /\ \A t \in Streams : e.front[t] = IF Moves(s, t) THEN {id} ELSE d.front[t]

\* What a launch on stream s does to the order: the operation is behind all its stream
\* covers, and the legacy null stream's implicit ordering shows in what every stream covers.
LEMMA Launched ==
    ASSUME NEW d, NEW s \in Streams, NEW id, Shape(d), id \notin Cuda!Queued(d),
           NEW e, e = Cuda!Launch(d, s, id)
    PROVE  AfterLaunch(d, e, s, id)
<1> DEFINE B == Cuda!Before(d, s)
           Q == Cuda!Queued(d)
<1>0. B \subseteq Q /\ Upto(d, B) = Cover(d, s)
    BY BeforeIsCover
<1>1. /\ e.after = [j \in Q \cup {id} |-> IF j = id THEN B ELSE d.after[j]]
      /\ e.front = [t \in Streams |-> IF Moves(s, t) THEN {id} ELSE d.front[t]]
      /\ e.event = d.event /\ e.running = d.running
      /\ e = [after |-> e.after, front |-> e.front, event |-> e.event, running |-> e.running]
    <2>1. d = [after |-> d.after, front |-> d.front, event |-> d.event, running |-> d.running]
        BY DEF Shape
    <2> DEFINE a == d.after
               f == d.front
               v == d.event
               r == d.running
    <2>2. d = [after |-> a, front |-> f, event |-> v, running |-> r]
        BY <2>1
    <2>3. e = [d EXCEPT !.after = [j \in Q \cup {id} |-> IF j = id THEN B ELSE a[j]],
                        !.front = [t \in Streams |->
                                     IF Moves(s, t) THEN {id} ELSE f[t]]]
        BY DEF Cuda!Launch, Moves
    <2> HIDE DEF a, f, v, r, B, Q
    <2>4. e = [after |-> [j \in Q \cup {id} |-> IF j = id THEN B ELSE a[j]],
               front |-> [t \in Streams |->
                             IF Moves(s, t) THEN {id} ELSE f[t]],
               event |-> v, running |-> r]
        BY <2>2, <2>3
    <2> QED BY <2>4 DEF a, f, v, r
<1> HIDE DEF B
<1>2. /\ WellQueued(e) /\ Cuda!Queued(e) = Q \cup {id}
      /\ \A X \in SUBSET Q : Upto(e, X) = Upto(d, X)
      /\ Upto(e, {id}) = {id} \cup Upto(d, B)
    <2>1. WellQueued(d)
        BY DEF Shape
    <2>2. Cuda!Queued(e) = Cuda!Queued(d) \cup {id} /\ e.after[id] = B
        BY <1>1 DEF Cuda!Queued
    <2>3. \A j \in Cuda!Queued(d) : e.after[j] = d.after[j]
        BY <1>1
    <2>4. Appended(d, e, id, B)
        BY <1>0, <2>1, <2>2, <2>3 DEF Appended
    <2> QED BY <2>2, <2>4, LaunchOrder
<1>3. e.front \in [Streams -> SUBSET Cuda!Queued(e)] /\ e.event \in [Events -> SUBSET Cuda!Queued(e)]
    BY <1>1, <1>2 DEF Shape
<1>4. e.running \subseteq Cuda!Queued(e) /\ \A j \in e.running : e.after[j] = {}
    BY <1>1, <1>2 DEF Shape
<1>5. Shape(e)
    BY <1>1, <1>2, <1>3, <1>4 DEF Shape
<1>6. ASSUME NEW t \in Streams
      PROVE  Ahead(e, t) = IF Moves(s, t)
                           THEN {id} \cup Cover(d, s) ELSE Ahead(d, t)
    <2>1. CASE Moves(s, t)
        <3>1. e.front[t] = {id}
            BY <1>1, <2>1
        <3> QED BY <1>0, <1>2, <2>1, <3>1 DEF Ahead
    <2>2. CASE ~(Moves(s, t))
        <3>1. e.front[t] = d.front[t] /\ d.front[t] \in SUBSET Q
            BY <1>1, <2>2 DEF Shape
        <3> QED BY <1>2, <2>2, <3>1 DEF Ahead
    <2> QED BY <2>1, <2>2
<1>7. \A i \in Q : Upto(e, {i}) = Upto(d, {i})
    BY <1>2
<1> QED BY <1>0, <1>1, <1>2, <1>5, <1>6, <1>7 DEF AfterLaunch

\* An operation finishes: it is gone from every set, and nothing else changes.
AfterFinish(d, e, x) ==
    /\ Shape(e) /\ Cuda!Queued(e) = Cuda!Queued(d) \ {x} /\ x \in Cuda!Queued(d)
    /\ e.running = d.running \ {x}
    /\ Upto(d, {x}) = {x}
    /\ \A X \in SUBSET Cuda!Queued(d) : Upto(e, X \ {x}) = Upto(d, X) \ {x}
    /\ \A i \in Cuda!Queued(d) \ {x} : Upto(e, {i}) = Upto(d, {i}) \ {x}
    /\ \A s \in Streams : Ahead(e, s) = Ahead(d, s) \ {x} /\ e.front[s] = d.front[s] \ {x}
    /\ \A v \in Events : e.event[v] = d.event[v] \ {x}

\* A finished operation leaves the order, and the rest keep theirs.
LEMMA Finishes ==
    ASSUME NEW d, Shape(d), NEW x \in d.running, NEW e, e = Cuda!Finished(d, x)
    PROVE  AfterFinish(d, e, x)
<1> DEFINE Q == Cuda!Queued(d)
<1>0. x \in Q /\ d.after[x] = {} /\ WellQueued(d)
    BY DEF Shape
<1>1. /\ e.after = [j \in Q \ {x} |-> d.after[j] \ {x}]
      /\ e.front = [s \in Streams |-> d.front[s] \ {x}]
      /\ e.event = [v \in Events |-> d.event[v] \ {x}]
      /\ e.running = d.running \ {x}
      /\ e = [after |-> e.after, front |-> e.front, event |-> e.event, running |-> e.running]
    BY DEF Cuda!Finished
<1>2. /\ WellQueued(e) /\ Cuda!Queued(e) = Q \ {x}
      /\ \A X \in SUBSET Q : Upto(e, X \ {x}) = Upto(d, X) \ {x}
    BY <1>0, <1>1, FinishOrder
<1>3. e.front \in [Streams -> SUBSET Cuda!Queued(e)] /\ e.event \in [Events -> SUBSET Cuda!Queued(e)]
    BY <1>1, <1>2 DEF Shape
<1>4. e.running \subseteq Cuda!Queued(e) /\ \A j \in e.running : e.after[j] = {}
    BY <1>1, <1>2 DEF Shape
<1>5. Shape(e)
    BY <1>1, <1>2, <1>3, <1>4 DEF Shape
<1>6. ASSUME NEW s \in Streams PROVE Ahead(e, s) = Ahead(d, s) \ {x} /\ e.front[s] = d.front[s] \ {x}
    <2>1. e.front[s] = d.front[s] \ {x} /\ d.front[s] \in SUBSET Q
        BY <1>1 DEF Shape
    <2> QED BY <1>2, <2>1 DEF Ahead
<1>7. \A v \in Events : e.event[v] = d.event[v] \ {x}
    BY <1>1
<1>8. Upto(d, {x}) = {x}
    BY <1>0, UptoFirst
<1>9. ASSUME NEW i \in Q \ {x} PROVE Upto(e, {i}) = Upto(d, {i}) \ {x}
    <2>1. {i} \in SUBSET Q /\ {i} \ {x} = {i}
        OBVIOUS
    <2> QED BY <1>2, <2>1
<1> QED BY <1>0, <1>1, <1>2, <1>5, <1>6, <1>7, <1>8, <1>9 DEF AfterFinish

\* To start is to run: no order changes.
LEMMA Starts ==
    ASSUME NEW d, NEW e, Shape(d), NEW x \in Cuda!Startable(d),
           e = Cuda!Started(d, x)
    PROVE  /\ Shape(e) /\ Cuda!Queued(e) = Cuda!Queued(d)
           /\ e.running = d.running \cup {x} /\ Upto(d, {x}) = {x}
           /\ e.after = d.after /\ e.front = d.front /\ e.event = d.event
<1>1. /\ e.after = d.after /\ e.front = d.front /\ e.event = d.event
      /\ e.running = d.running \cup {x}
      /\ e = [after |-> e.after, front |-> e.front, event |-> e.event, running |-> e.running]
    BY DEF Shape, Cuda!Started
<1>2. x \in Cuda!Queued(d) /\ d.after[x] = {}
    BY DEF Cuda!Startable
<1>3. Cuda!Queued(e) = Cuda!Queued(d)
    BY <1>1 DEF Cuda!Queued
<1>4. Shape(e)
    BY <1>1, <1>2, <1>3 DEF Shape, WellQueued
<1>5. Upto(d, {x}) = {x}
    BY <1>2, UptoFirst DEF Shape
<1> QED BY <1>1, <1>3, <1>4, <1>5

\* The order is a matter of the queue alone.
LEMMA SameOrder ==
    ASSUME NEW d, NEW e, e.after = d.after
    PROVE  Cuda!Queued(e) = Cuda!Queued(d) /\ \A X : Upto(e, X) = Upto(d, X)
BY DEF Upto, Cuda!Queued

\* An event holds what its stream covers, and a stream that waits is behind it.
LEMMA Recorded ==
    ASSUME NEW d, NEW e, Shape(d), NEW s \in Streams, NEW v \in Events,
           e = Cuda!Record(d, v, s)
    PROVE  /\ Shape(e) /\ e.after = d.after /\ e.front = d.front /\ e.running = d.running
           /\ Upto(e, e.event[v]) = Cover(d, s)
           /\ \A u \in Events : u # v => e.event[u] = d.event[u]
<1> DEFINE B == Cuda!Before(d, s)
<1>0. B \subseteq Cuda!Queued(d) /\ Upto(d, B) = Cover(d, s)
    BY BeforeIsCover
<1>1. /\ e.after = d.after /\ e.front = d.front /\ e.running = d.running
      /\ e.event = [d.event EXCEPT ![v] = B]
      /\ e = [after |-> e.after, front |-> e.front, event |-> e.event, running |-> e.running]
    BY DEF Shape, Cuda!Record
<1> HIDE DEF B
<1>2. Cuda!Queued(e) = Cuda!Queued(d) /\ Upto(e, B) = Upto(d, B)
    BY <1>1, SameOrder
<1>3. e.event \in [Events -> SUBSET Cuda!Queued(e)]
    BY <1>0, <1>1, <1>2 DEF Shape
<1>4. Shape(e)
    BY <1>1, <1>2, <1>3 DEF Shape, WellQueued
<1>5. e.event[v] = B /\ \A u \in Events : u # v => e.event[u] = d.event[u]
    BY <1>1 DEF Shape
<1> QED BY <1>0, <1>1, <1>2, <1>4, <1>5

\* A stream that waits for an event is behind what the event's stream covered.
LEMMA Awaited ==
    ASSUME NEW d, NEW e, Shape(d), NEW s \in Streams, NEW v \in Events,
           e = Cuda!WaitEvent(d, s, v)
    PROVE  /\ Shape(e) /\ e.after = d.after /\ e.event = d.event /\ e.running = d.running
           /\ Ahead(e, s) = Ahead(d, s) \cup Upto(d, d.event[v])
           /\ \A t \in Streams : t # s => e.front[t] = d.front[t]
<1>1. /\ e.after = d.after /\ e.event = d.event /\ e.running = d.running
      /\ e.front = [d.front EXCEPT ![s] = @ \cup d.event[v]]
      /\ e = [after |-> e.after, front |-> e.front, event |-> e.event, running |-> e.running]
    BY DEF Shape, Cuda!WaitEvent
<1>2. Cuda!Queued(e) = Cuda!Queued(d) /\ \A X : Upto(e, X) = Upto(d, X)
    BY <1>1, SameOrder
<1>3. d.front[s] \subseteq Cuda!Queued(d) /\ d.event[v] \subseteq Cuda!Queued(d)
    BY DEF Shape
<1>4. e.front[s] = d.front[s] \cup d.event[v] /\ \A t \in Streams : t # s => e.front[t] = d.front[t]
    BY <1>1 DEF Shape
<1>5. e.front \in [Streams -> SUBSET Cuda!Queued(e)]
    BY <1>1, <1>2, <1>3 DEF Shape
<1>6. Shape(e)
    BY <1>1, <1>2, <1>5 DEF Shape, WellQueued
<1>7. Ahead(e, s) = Ahead(d, s) \cup Upto(d, d.event[v])
    BY <1>2, <1>3, <1>4, UptoUnion DEF Ahead, Shape
<1> QED BY <1>1, <1>4, <1>6, <1>7

\* All that conflicts with an operation finishes before the stream's next one starts.
Covered(d, s, id) == \A i \in Cuda!Queued(d) : Conflict(i, id) => i \in Cover(d, s)

\* A launch behind all it conflicts with keeps the conflicts ordered, a completion too.
LEMMA LaunchOrders ==
    ASSUME NEW d, Shape(d), NEW s \in Streams, NEW id, id \notin Cuda!Queued(d),
           Ordered(d), Covered(d, s, id),
           NEW e, e = Cuda!Launch(d, s, id)
    PROVE  Ordered(e)
<1>1. /\ Cuda!Queued(e) = Cuda!Queued(d) \cup {id}
      /\ \A i \in Cuda!Queued(d) : Upto(e, {i}) = Upto(d, {i})
      /\ Upto(e, {id}) = {id} \cup Cover(d, s)
    <2> AfterLaunch(d, e, s, id)
        BY Launched
    <2> QED BY DEF AfterLaunch
<1>2. SUFFICES ASSUME NEW i \in Cuda!Queued(e), NEW j \in Cuda!Queued(e), i # j, Conflict(i, j)
               PROVE  i \in Upto(e, {j}) \/ j \in Upto(e, {i})
    BY DEF Ordered
<1>3. CASE i \in Cuda!Queued(d) /\ j \in Cuda!Queued(d)
    BY <1>1, <1>2, <1>3 DEF Ordered
<1>4. CASE j = id
    BY <1>1, <1>2, <1>4 DEF Covered
<1>5. CASE i = id
    <2>1. Conflict(j, i)
        BY <1>2 DEF Conflict
    <2> QED BY <1>1, <1>2, <1>5, <2>1 DEF Covered
<1> QED BY <1>1, <1>3, <1>4, <1>5

\* A finished operation leaves conflicting operations ordered.
LEMMA FinishOrders ==
    ASSUME NEW d, Shape(d), Ordered(d), NEW x \in d.running, NEW e, e = Cuda!Finished(d, x)
    PROVE  Ordered(e)
<1>1. /\ Cuda!Queued(e) = Cuda!Queued(d) \ {x}
      /\ \A j \in Cuda!Queued(d) \ {x} : Upto(e, {j}) = Upto(d, {j}) \ {x}
    <2> AfterFinish(d, e, x)
        BY Finishes
    <2> QED BY DEF AfterFinish
<1> QED BY ZenonT(60), <1>1 DEF Ordered

-----------------------------------------------------------------------------
(* Queue, one operation after the other *)

\* A queue of one operation is one launch.
LEMMA Queue1 ==
    ASSUME NEW d, NEW s, NEW a
    PROVE  Queue(d, s, <<a>>) = Cuda!Launch(d, s, Op(a))
BY DEF Queue

\* A queue of two is two launches.
LEMMA Queue2 ==
    ASSUME NEW d, NEW s, NEW a, NEW b
    PROVE  Queue(d, s, <<a, b>>) = Cuda!Launch(Cuda!Launch(d, s, Op(a)), s, Op(b))
BY DEF Queue

\* A queue of three is three launches.
LEMMA Queue3 ==
    ASSUME NEW d, NEW s, NEW a, NEW b, NEW c
    PROVE  Queue(d, s, <<a, b, c>>) =
             Cuda!Launch(Cuda!Launch(Cuda!Launch(d, s, Op(a)), s, Op(b)), s, Op(c))
BY DEF Queue

\* A queue of four is four launches.
LEMMA Queue4 ==
    ASSUME NEW d, NEW s, NEW a, NEW b, NEW c, NEW f
    PROVE  Queue(d, s, <<a, b, c, f>>) =
             Cuda!Launch(Cuda!Launch(Cuda!Launch(Cuda!Launch(d, s, Op(a)), s, Op(b)), s, Op(c)), s, Op(f))
BY DEF Queue

-----------------------------------------------------------------------------
(* Where the host is, and what it may have queued by then *)

Rank == [submit |-> 1, header |-> 2, dict |-> 3, walk |-> 4, descs |-> 5, block |-> 6, stage |-> 7,
         scan |-> 8, gather |-> 9, merge |-> 10, barrier |-> 11, groups |-> 12, huff |-> 13,
         lz |-> 14, settle |-> 15, merkle |-> 16, verdict |-> 17, status |-> 18,
         wrap |-> 2, input |-> 3, encode |-> 4, hash |-> 5, sizes |-> 6, lit |-> 7, tok |-> 8,
         off16 |-> 9, measure |-> 10, write |-> 11, layout |-> 12, frame |-> 13, table |-> 14,
         root |-> 15, finalize |-> 19, download |-> 19, return |-> 20]
OpRank == [UploadFrame |-> 1, ReadHeader |-> 2, UploadDict |-> 3, ZeroMeta |-> 4, Walk |-> 4,
           CopyDescs |-> 5, PrefixSum |-> 6, CopyBlock |-> 6, ZeroStaged |-> 7, CopyCount |-> 7,
           ScanParse |-> 8, ZeroCounts |-> 8, Compact |-> 8, Gather |-> 9, Merge |-> 10,
           CopyGroups |-> 12, HuffBuild |-> 13, HuffDecode |-> 13, Lz |-> 14, ScPrefix |-> 16,
           SegHash |-> 16, ChunkCombine |-> 16, Verdict |-> 16, ReadVerdict |-> 17,
           ReadStatus |-> 18, UploadInput |-> 1, WrapInput |-> 2, CopyInput |-> 3,
           CopyEncDescs |-> 3, ZeroSizes |-> 3, LzEncode |-> 4, EncSegHash |-> 5,
           EncCombine |-> 5, ReadSizes |-> 6, ReadRaw |-> 6, DescsLit |-> 7, TablesLit |-> 7,
           EncodeLit |-> 7, SizesLit |-> 7, DescsTok |-> 8, TablesTok |-> 8, EncodeTok |-> 8,
           SizesTok |-> 8, DescsOff16 |-> 9, TablesOff16 |-> 9, EncodeOff16 |-> 9,
           SizesOff16 |-> 9, CopyAsmDescs |-> 10, Measure |-> 10, ReadAsmSizes |-> 10,
           CopyOffsets |-> 11, AsmWrite |-> 11, CopyLayout |-> 12, FrameAssemble |-> 13,
           SizeTable |-> 14, RootWrite |-> 15, Download |-> 19]

DecodeOps == {"UploadFrame", "ReadHeader", "UploadDict", "ZeroMeta", "Walk", "CopyDescs", "PrefixSum",
              "CopyBlock", "ZeroStaged", "CopyCount", "ScanParse", "ZeroCounts", "Compact", "Gather",
              "Merge", "CopyGroups", "HuffBuild", "HuffDecode", "Lz", "ScPrefix", "SegHash",
              "ChunkCombine", "Verdict", "ReadVerdict", "ReadStatus", "Download"}
EncodeOps == {"UploadInput", "WrapInput", "CopyInput", "CopyEncDescs", "ZeroSizes", "LzEncode",
              "EncSegHash", "EncCombine", "ReadSizes", "ReadRaw", "DescsLit", "TablesLit",
              "EncodeLit", "SizesLit", "DescsTok", "TablesTok", "EncodeTok", "SizesTok",
              "DescsOff16", "TablesOff16", "EncodeOff16", "SizesOff16", "CopyAsmDescs", "Measure",
              "ReadAsmSizes", "CopyOffsets", "AsmWrite", "CopyLayout", "FrameAssemble", "SizeTable",
              "RootWrite", "Download"}
Ops(r) == IF r.job = "decompress" THEN DecodeOps ELSE EncodeOps

If(b, S) == IF b THEN S ELSE {}

\* The steps a request may take.
Route(r) ==
    {"submit", "return"}
      \cup If(r.source = "host", {"finalize"}) \cup If(r.source = "device", {"download"})
      \cup If(r.job = "decompress",
              {"dict", "descs", "block", "barrier", "groups", "lz", "settle"}
                \cup If(r.source = "device", {"header", "walk", "status"})
                \cup If(r.entropy, {"stage", "scan", "gather", "merge", "huff"})
                \cup If(r.source = "host" /\ r.merkle # "none", {"merkle"})
                \cup If(r.source = "host" /\ r.merkle = "verdict", {"verdict"}))
      \cup If(r.job = "compress",
              {"input", "encode", "sizes", "measure", "write", "layout", "frame"}
                \cup If(r.source = "host", {"wrap", "table"})
                \cup If(r.entropy, HuffPasses)
                \cup If(r.merkle = "root", {"hash", "root"}))

HostTyped ==
    /\ plan \in Plans /\ call \in 1 .. Len(plan) + 1 /\ waiting \subseteq Cuda!Queued(device)
    /\ IF call \in Calls THEN step \in Route(Req) ELSE step = "submit"
    /\ overlap \in BOOLEAN /\ gatherPending \in BOOLEAN /\ dictCached \in Nat
    /\ refused \subseteq 1 .. call - 1

\* An operation is queued by its call, at the step of its kind.
Known(id) ==
    /\ id = [call |-> id.call, op |-> id.op]
    /\ id.call \in Calls /\ id.call <= call /\ id.op \in Ops(plan[id.call])
    /\ id.call = call => OpRank[id.op] <= Rank[step]

-----------------------------------------------------------------------------
(* Which streams are behind which operations *)

IsSync(r) == r.stream = "null"

\* Operations on the application's non-blocking stream.
IsFree(id) == plan[id.call].stream = "free" /\ id.op \in {"FrameAssemble", "Download"}
BehindFree(d, id) == IsFree(id) => id \in Ahead(d, "free")

\* The null stream is behind all but those and the current back half.
BackSteps == {"huff", "lz", "settle", "merkle"}
InBackHalf(d, id) == /\ id.call = call /\ Req.job = "decompress" /\ IsSync(Req)
                     /\ step \in BackSteps /\ id \in Ahead(d, "pipeline")
BehindNull(d, id) == id \in Legacy(d) \/ IsFree(id) \/ InBackHalf(d, id)

\* The caller's stream is behind all but what is on the library's own streams.
OffStream == {"Gather", "HuffBuild", "HuffDecode", "Lz", "ScPrefix", "SegHash", "ChunkCombine", "Verdict"}
GatherSteps == {"merge", "barrier", "groups", "huff", "lz"}
GatherPends(d, id) == /\ id.call = call /\ step \in GatherSteps
                      /\ gatherPending /\ id \in Upto(d, d.event["gather_done"])
Gathers(id) == id.call = call /\ step = "gather"
BehindCaller(d, id) ==
    \/ id \in Ahead(d, "caller") \/ IsFree(id)
    \/ id.op \in OffStream /\ plan[id.call].stream = "null"
    \/ id.op = "Gather" /\ (id.call \in refused \/ Gathers(id) \/ GatherPends(d, id))

\* What an earlier call may have left.
Leaves(id) == id.call < call /\ id.call \notin refused =>
    /\ id.op # "Download" => IsAsync(id.call)
    /\ plan[id.call].stream = "free" => IsFree(id)

UploadsFirst(d) == \A j \in Cuda!Queued(d) : j.op \in Uploads =>
    /\ j \in Ahead(d, "caller")
    /\ \A i \in Cuda!Queued(d) : IsAsync(i.call) /\ j.call <= i.call => j \in Upto(d, {i})

Sound(d) ==
    /\ Shape(d) /\ Ordered(d) /\ UploadsFirst(d)
    /\ \A id \in Cuda!Queued(d) : Known(id) /\ BehindFree(d, id) /\ BehindCaller(d, id) /\ Leaves(id)

-----------------------------------------------------------------------------
(* What is left once the host no longer waits *)

Left == Cuda!Queued(device) \ Upto(device, waiting)

\* The steps that may find the work of earlier calls.
Opening(r) == {"submit", "header", "wrap", "input"}
                \cup If(r.job = "decompress" /\ r.source = "host", {"dict", "descs"})
Own(id) == id.call = call \/ (IsFree(id) /\ Req.job = "decompress")

\* Those that find no work of this handle on any of its streams.
QuietSteps(r) ==
    If(r.job = "decompress" /\ IsSync(r),
       {"groups", "huff", "lz", "settle", "merkle", "verdict", "status", "download", "return"})
      \cup If(r.job = "compress", {"frame", "table", "finalize"})
      \cup If(r.job = "compress" /\ r.stream # "caller", {"root", "download", "return"})
Aside(d, id) == \/ IsFree(id) \/ InBackHalf(d, id)
                \/ step = "return" /\ id.call = call /\ id.op = "Download"

Gone(id) ==
    /\ BehindNull(device, id)
    /\ call \in Calls /\ step \notin Opening(Req) => Own(id)
    /\ call \in Calls /\ step \in QuietSteps(Req) => Aside(device, id)

\* The null stream ends the front half, so that to drain it is to drain all.
BarrierOnNull == call \in Calls /\ step = "barrier" /\ IsSync(Req) =>
    \A t \in Blocking : device.front[t] \subseteq device.front["null"]

Fresh == \A id \in Cuda!Queued(device) : id.call = call => OpRank[id.op] < Rank[step]

OrderInv == /\ HostTyped /\ Sound(device) /\ Fresh /\ BarrierOnNull
            /\ \A id \in Left : Gone(id)

-----------------------------------------------------------------------------
(* A launch keeps what is known of the operations already queued *)

\* What the host knows while it queues work: it has stopped waiting.
Working(d) ==
    /\ Sound(d)
    /\ \A id \in Cuda!Queued(d) : /\ BehindNull(d, id)
                                  /\ step \notin Opening(Req) => Own(id)

\* The streams only get behind more.
Grown(d, e, s, id) ==
    /\ \A t \in Streams : Ahead(d, t) \subseteq Ahead(e, t)
    /\ Legacy(d) \subseteq Legacy(e) /\ Cover(d, s) \subseteq Ahead(e, s)
    /\ id \in Ahead(e, s) /\ (s \in {"null", "caller", "gather"} => id \in Legacy(e))
    /\ s = "null" => /\ \A t \in Blocking : Ahead(e, t) = {id} \cup Legacy(d)
                     /\ Legacy(e) = {id} \cup Legacy(d) /\ Upto(e, {id}) = Legacy(e)

\* After a launch every stream covers what it covered, and its own stream the new operation.
LEMMA LaunchGrows ==
    ASSUME NEW d, NEW s \in Streams, NEW id, NEW e, Shape(d), AfterLaunch(d, e, s, id)
    PROVE  Grown(d, e, s, id)
<1>1. ASSUME NEW t \in Streams PROVE Ahead(d, t) \subseteq Ahead(e, t)
    BY DEF AfterLaunch, Moves, Cover, Legacy, Blocking
<1>2. Legacy(d) \subseteq Legacy(e)
    BY <1>1 DEF Legacy, Streams
<1>3. Cover(d, s) \subseteq Ahead(e, s) /\ id \in Ahead(e, s)
    BY DEF AfterLaunch, Moves
<1>4. s \in {"null", "caller", "gather"} => id \in Legacy(e)
    BY <1>3 DEF Legacy
<1>5. ASSUME s = "null"
      PROVE  /\ \A t \in Blocking : Ahead(e, t) = {id} \cup Legacy(d)
             /\ Legacy(e) = {id} \cup Legacy(d) /\ Upto(e, {id}) = Legacy(e)
    <2>1. Cover(d, s) = Legacy(d)
        BY <1>5 DEF Cover
    <2>2. \A t \in Blocking \cup {"null"} : t \in Streams /\ Moves(s, t)
        BY <1>5 DEF Moves, Blocking, Streams
    <2>3. \A t \in Blocking \cup {"null"} : Ahead(e, t) = {id} \cup Legacy(d)
        BY <2>1, <2>2 DEF AfterLaunch
    <2>4. Legacy(e) = {id} \cup Legacy(d)
        BY <2>3 DEF Legacy, Blocking
    <2>5. Upto(e, {id}) = {id} \cup Legacy(d)
        BY <2>1 DEF AfterLaunch
    <2> QED BY <2>3, <2>4, <2>5
<1> QED BY <1>1, <1>2, <1>3, <1>4, <1>5 DEF Grown

\* What may be queued on a stream, and finds there what it conflicts with.
Safe(d, s, o) ==
    /\ Shape(d) /\ s \in Streams /\ Op(o) \notin Cuda!Queued(d) /\ Covered(d, s, Op(o))
    /\ o \in Ops(Req) /\ OpRank[o] <= Rank[step]
    /\ IF o \in Uploads
       THEN s \in {"null", "caller"} /\ \A i \in Cuda!Queued(d) : i.call # call
       ELSE IsAsync(call) => \A j \in Cuda!Queued(d) : j.op \in Uploads => j \in Cover(d, s)

\* All that is known of a queued operation stays known.
LEMMA LaunchKeeps ==
    ASSUME NEW d, NEW s, NEW o, NEW e, Working(d), call \in Calls, Safe(d, s, o),
           e = Cuda!Launch(d, s, Op(o))
    PROVE  /\ AfterLaunch(d, e, s, Op(o))
           /\ Shape(e) /\ Ordered(e) /\ UploadsFirst(e) /\ Cuda!Queued(e) = Cuda!Queued(d) \cup {Op(o)}
           /\ \A id \in Cuda!Queued(d) :
                 /\ Known(id) /\ BehindFree(e, id) /\ BehindCaller(e, id) /\ Leaves(id)
                 /\ BehindNull(e, id) /\ (step \notin Opening(Req) => Own(id))
           /\ Known(Op(o)) /\ Leaves(Op(o)) /\ Own(Op(o))
<1>0. Shape(d) /\ Ordered(d) /\ UploadsFirst(d) /\ s \in Streams /\ Op(o) \notin Cuda!Queued(d)
    BY DEF Working, Sound, Safe
<1>1. AfterLaunch(d, e, s, Op(o))
    BY <1>0, Launched
<1>2. Shape(e) /\ Cuda!Queued(e) = Cuda!Queued(d) \cup {Op(o)}
    BY <1>1 DEF AfterLaunch
<1>3. Ordered(e)
    BY <1>0, LaunchOrders DEF Safe
<1>4. /\ \A t \in Streams : Ahead(d, t) \subseteq Ahead(e, t)
      /\ Legacy(d) \subseteq Legacy(e) /\ Op(o) \in Ahead(e, s)
      /\ s = "null" => \A t \in Blocking : Ahead(e, t) = {Op(o)} \cup Legacy(d)
    <2> Grown(d, e, s, Op(o))
        BY <1>0, <1>1, LaunchGrows
    <2> QED BY DEF Grown
<1>5. Op(o).call = call /\ Op(o).op = o /\ Op(o) = [call |-> Op(o).call, op |-> Op(o).op]
    BY DEF Op
<1>6. Known(Op(o)) /\ Leaves(Op(o)) /\ Own(Op(o))
    <2>1. call <= call /\ ~(call < call)
        BY DEF Calls
    <2> QED BY <1>5, <2>1 DEF Known, Leaves, Own, Safe, Req
<1>7. ASSUME NEW id \in Cuda!Queued(d)
      PROVE  /\ Known(id) /\ BehindFree(e, id) /\ BehindCaller(e, id) /\ Leaves(id)
             /\ BehindNull(e, id) /\ (step \notin Opening(Req) => Own(id))
    <2>1. BehindFree(d, id) /\ BehindCaller(d, id) /\ BehindNull(d, id)
        BY DEF Working, Sound
    <2>2. BehindFree(e, id)
        BY <1>4, <2>1 DEF BehindFree, Streams
    <2>3. BehindNull(e, id)
        BY <1>4, <2>1 DEF BehindNull, InBackHalf, Streams
    <2>4. GatherPends(d, id) => GatherPends(e, id)
        <3>1. d.event["gather_done"] \in SUBSET Cuda!Queued(d)
            BY <1>0 DEF Shape, Events
        <3>2. Upto(e, e.event["gather_done"]) = Upto(d, d.event["gather_done"])
            BY <1>1, <3>1 DEF AfterLaunch
        <3> QED BY <3>2 DEF GatherPends
    <2>5. BehindCaller(e, id)
        BY <1>4, <2>1, <2>4 DEF BehindCaller, Streams
    <2> QED BY <2>2, <2>3, <2>5 DEF Working, Sound
<1>8. UploadsFirst(e)
    <2>1. SUFFICES ASSUME NEW j \in Cuda!Queued(e), j.op \in Uploads
                   PROVE  /\ j \in Ahead(e, "caller")
                          /\ \A i \in Cuda!Queued(e) :
                                IsAsync(i.call) /\ j.call <= i.call => j \in Upto(e, {i})
        BY DEF UploadsFirst
    <2>2. /\ \A i \in Cuda!Queued(d) : Upto(e, {i}) = Upto(d, {i})
          /\ Upto(e, {Op(o)}) = {Op(o)} \cup Cover(d, s)
        BY <1>1 DEF AfterLaunch
    <2>3. CASE j = Op(o)
        <3>1. s \in {"null", "caller"} /\ \A i \in Cuda!Queued(d) : i.call # call
            BY <1>5, <2>1, <2>3 DEF Safe
        <3>2. j \in Ahead(e, "caller")
            BY <1>4, <2>3, <3>1 DEF Blocking
        <3>3. ASSUME NEW i \in Cuda!Queued(d), j.call <= i.call PROVE FALSE
            <4>1. i.call <= call /\ i.call # call /\ i.call \in Calls
                BY <1>7, <3>1 DEF Known
            <4>2. call \in Nat /\ i.call \in Nat
                BY <4>1 DEF Calls
            <4> QED BY <1>5, <2>3, <3>3, <4>1, <4>2
        <3> QED BY <1>2, <2>2, <2>3, <3>2, <3>3
    <2>4. CASE j \in Cuda!Queued(d)
        <3>1. j \in Ahead(e, "caller")
            BY <1>0, <1>4, <2>1, <2>4 DEF UploadsFirst, Streams
        <3>2. ASSUME NEW i \in Cuda!Queued(d), IsAsync(i.call), j.call <= i.call PROVE j \in Upto(e, {i})
            BY <1>0, <2>1, <2>2, <2>4, <3>2 DEF UploadsFirst
        <3>3. IsAsync(Op(o).call) => j \in Upto(e, {Op(o)})
            <4>1. CASE o \in Uploads
                BY <1>0, <1>2, <2>1, <2>2, <2>4, <4>1 DEF UploadsFirst, Safe, Cover, Legacy
            <4>2. CASE o \notin Uploads
                BY <1>5, <2>1, <2>2, <2>4, <4>2 DEF Safe
            <4> QED BY <4>1, <4>2
        <3> QED BY <1>2, <3>1, <3>2, <3>3
    <2> QED BY <1>2, <2>3, <2>4
<1> QED BY <1>1, <1>2, <1>3, <1>6, <1>7, <1>8

-----------------------------------------------------------------------------
(* What each operation reads and writes *)

LzOutput(r) == IF r.source = "device" THEN "target" ELSE "output"
AsmReads(r) == {"enc_raw", "asm_descs"} \union Bodies(r)

\* What each operation of a decompression reads and writes.
LEMMA DecodeAccesses ==
    \A r :
      /\ DecodeAccess("UploadFrame", r) = [reads |-> {}, writes |-> {"frame"}]
      /\ DecodeAccess("ReadHeader", r) = [reads |-> {"frame"}, writes |-> {}]
      /\ DecodeAccess("UploadDict", r) = [reads |-> {}, writes |-> {"dict"}]
      /\ DecodeAccess("ZeroMeta", r) = [reads |-> {}, writes |-> {"meta"}]
      /\ DecodeAccess("Walk", r) = [reads |-> {"frame"}, writes |-> {"meta", "walk_chunks"}]
      /\ DecodeAccess("CopyDescs", r) = [reads |-> FromDevice(r, "walk_chunks"), writes |-> {"descs"} \cup PutsBack(r)]
      /\ DecodeAccess("PrefixSum", r) = [reads |-> {"descs"}, writes |-> {"first_sub"}]
      /\ DecodeAccess("CopyBlock", r) = [reads |-> FromDevice(r, "frame"), writes |-> {"block"}]
      /\ DecodeAccess("ZeroStaged", r) = [reads |-> {}, writes |-> {"staged"}]
      /\ DecodeAccess("CopyCount", r) = [reads |-> {}, writes |-> {"n_chunks"}]
      /\ DecodeAccess("ScanParse", r) = [reads |-> {"block", "descs", "first_sub", "n_chunks", "staged"}, writes |-> {"staged"}]
      /\ DecodeAccess("ZeroCounts", r) = [reads |-> {}, writes |-> {"counts", "n_merged"}]
      /\ DecodeAccess("Compact", r) = [reads |-> {"staged", "first_sub"}, writes |-> {"huff_lists", "raw_list", "counts"}]
      /\ DecodeAccess("Gather", r) = [reads |-> {"block", "raw_list", "counts"}, writes |-> {"raw_scratch"}]
      /\ DecodeAccess("Merge", r) = [reads |-> {"huff_lists", "counts"}, writes |-> {"huff_descs", "n_merged"}]
      /\ DecodeAccess("CopyGroups", r) = [reads |-> {}, writes |-> {"n_groups"}]
      /\ DecodeAccess("HuffBuild", r) = [reads |-> {"block", "huff_descs", "n_merged"}, writes |-> {"huff_lut"}]
      /\ DecodeAccess("HuffDecode", r) = [reads |-> {"block", "huff_descs", "huff_lut", "n_merged", "counts"}, writes |-> {"huff_scratch"}]
      /\ DecodeAccess("Lz", r) = [reads |-> LzReads(r), writes |-> {LzOutput(r)}]
      /\ DecodeAccess("ScPrefix", r) = [reads |-> {"block", "output"}, writes |-> {"output"}]
      /\ DecodeAccess("SegHash", r) = [reads |-> {"output"}, writes |-> {"segments"}]
      /\ DecodeAccess("ChunkCombine", r) = [reads |-> {"segments"}, writes |-> {"hashes"}]
      /\ DecodeAccess("Verdict", r) = [reads |-> {"hashes"}, writes |-> {"verdict"}]
      /\ DecodeAccess("ReadVerdict", r) = [reads |-> {"verdict"}, writes |-> {}]
      /\ DecodeAccess("ReadStatus", r) = [reads |-> {"meta"}, writes |-> {}]
      /\ DecodeAccess("Download", r) = [reads |-> {LzOutput(r)}, writes |-> {"result"}]
BY DEF DecodeAccess, LzOutput

\* Which operation of a Huffman pass is which.
LEMMA HuffOperations ==
    \A op : /\ IsHuff(op, 1) <=> op \in {"DescsLit", "DescsTok", "DescsOff16"}
            /\ IsHuff(op, 2) <=> op \in {"TablesLit", "TablesTok", "TablesOff16"}
            /\ IsHuff(op, 3) <=> op \in {"EncodeLit", "EncodeTok", "EncodeOff16"}
            /\ IsHuff(op, 4) <=> op \in {"SizesLit", "SizesTok", "SizesOff16"}
BY DEF IsHuff, HuffOps, HuffPasses

\* The body each Huffman pass writes.
LEMMA HuffBodies == /\ BodyWritten("EncodeLit") = {"body_lit"}
                    /\ BodyWritten("EncodeTok") = {"body_tok"}
                    /\ BodyWritten("EncodeOff16") = {"body_off16"}
<1>1. HuffOps["lit"][3] = "EncodeLit" /\ HuffOps["tok"][3] = "EncodeTok" /\ HuffOps["off16"][3] = "EncodeOff16"
    BY DEF HuffOps
<1>2. BodyOf["lit"] = "body_lit" /\ BodyOf["tok"] = "body_tok" /\ BodyOf["off16"] = "body_off16"
    BY DEF BodyOf
<1> QED BY <1>1, <1>2 DEF BodyWritten, HuffPasses

\* What each operation of a compression reads and writes.
LEMMA EncodeAccesses ==
    \A r :
      /\ EncodeAccess("UploadInput", r) = [reads |-> {}, writes |-> {"input"}]
      /\ EncodeAccess("WrapInput", r) = [reads |-> {}, writes |-> {"wrap_input"}]
      /\ EncodeAccess("CopyInput", r) = [reads |-> {Input(r)}, writes |-> {"enc_input"}]
      /\ EncodeAccess("CopyEncDescs", r) = [reads |-> {}, writes |-> {"enc_descs"}]
      /\ EncodeAccess("ZeroSizes", r) = [reads |-> {}, writes |-> {"enc_sizes"}]
      /\ EncodeAccess("LzEncode", r) = [reads |-> {"enc_input", "enc_descs"}, writes |-> {"enc_raw", "enc_sizes"}]
      /\ EncodeAccess("EncSegHash", r) = [reads |-> {"enc_input"}, writes |-> {"enc_segments"}]
      /\ EncodeAccess("EncCombine", r) = [reads |-> {"enc_segments"}, writes |-> {"enc_hashes"}]
      /\ EncodeAccess("ReadSizes", r) = [reads |-> {"enc_sizes"}, writes |-> {}]
      /\ EncodeAccess("ReadRaw", r) = [reads |-> {"enc_raw"}, writes |-> {}]
      /\ EncodeAccess("CopyAsmDescs", r) = [reads |-> {}, writes |-> {"asm_descs"}]
      /\ EncodeAccess("Measure", r) = [reads |-> AsmReads(r), writes |-> {"asm_sizes"}]
      /\ EncodeAccess("ReadAsmSizes", r) = [reads |-> {"asm_sizes"}, writes |-> {}]
      /\ EncodeAccess("CopyOffsets", r) = [reads |-> {}, writes |-> {"asm_descs"}]
      /\ EncodeAccess("AsmWrite", r) = [reads |-> AsmReads(r), writes |-> {"asm_out"}]
      /\ EncodeAccess("CopyLayout", r) = [reads |-> {}, writes |-> {"layout"}]
      /\ EncodeAccess("FrameAssemble", r) = [reads |-> {"asm_out", "layout", Input(r)}, writes |-> {"target"}]
      /\ EncodeAccess("SizeTable", r) = [reads |-> {"target"}, writes |-> {"target"}]
      /\ EncodeAccess("RootWrite", r) = [reads |-> {"enc_hashes"}, writes |-> {"trailer"}]
      /\ EncodeAccess("Download", r) = [reads |-> FrameParts(r), writes |-> {"result"}]
BY HuffOperations DEF EncodeAccess, AsmReads

\* Where a named place is.
LEMMA PlaceIs ==
    ASSUME NEW n, NEW c
    PROVE  Place(n, c) = IF n = "frame" /\ plan[c].of # 0 THEN <<"target", plan[c].of>>
                         ELSE IF n = "target" /\ plan[c].source = "device" THEN <<"target", c>>
                         ELSE <<n, IF n \in {"frame", "result", "input", "trailer"} THEN c ELSE 0>>
BY DEF Place, OfTheCaller, EncodeOfTheCaller

\* The requests of a plan are requests.
LEMMA Requests ==
    ASSUME plan \in Plans, NEW c \in Calls
    PROVE  plan[c] \in Request /\ (plan[c].source = "host" => plan[c].stream = "null")
<1>1. plan \in Seq(Request) /\ \A i \in DOMAIN plan : plan[i].source = "host" => plan[i].stream = "null"
    BY PlansAssumption
<1>2. DOMAIN plan = Calls
    BY <1>1 DEF Calls
<1> QED BY <1>1, <1>2

\* What an operation on the non-blocking stream touches.
Free(c) == {<<"asm_out", 0>>, <<"layout", 0>>, <<"input", c>>, <<"target", c>>, <<"trailer", c>>, <<"result", c>>}

\* What is on the application's non-blocking stream touches that call's own memory only.
LEMMA FreeTouches ==
    ASSUME plan \in Plans, NEW id, id.call \in Calls, IsFree(id)
    PROVE  /\ plan[id.call].job = "compress" /\ plan[id.call].stream = "free"
           /\ Reads(id) \cup Writes(id) \subseteq Free(id.call)
<1> DEFINE r == plan[id.call]
<1>1. r \in Request /\ (r.source = "host" => r.stream = "null") /\ r.stream = "free"
    BY Requests DEF IsFree
<1>2. \A i \in DOMAIN plan : plan[i].stream = "free" => plan[i].job = "compress"
    BY CallersAssumption
<1>3. DOMAIN plan = Calls
    BY PlansAssumption DEF Calls
<1>4. r.job = "compress" /\ r.source = "device"
    BY <1>1, <1>2, <1>3 DEF Request
<1>5. Input(r) = "input" /\ FrameParts(r) \subseteq {"target", "trailer"}
    BY <1>4 DEF Input, FrameParts
<1>6. Access(id.op, r) = EncodeAccess(id.op, r)
    BY <1>4 DEF Access
<1>7. /\ Place("asm_out", id.call) = <<"asm_out", 0>> /\ Place("layout", id.call) = <<"layout", 0>>
      /\ Place("input", id.call) = <<"input", id.call>> /\ Place("trailer", id.call) = <<"trailer", id.call>>
      /\ Place("target", id.call) = <<"target", id.call>> /\ Place("result", id.call) = <<"result", id.call>>
    BY <1>4, PlaceIs
<1> HIDE DEF r
<1>8. CASE id.op = "FrameAssemble"
    <2>1. Access(id.op, r) = [reads |-> {"asm_out", "layout", "input"}, writes |-> {"target"}]
        BY <1>5, <1>6, <1>8, EncodeAccesses
    <2> QED BY <1>1, <1>4, <1>7, <2>1 DEF Reads, Writes, Free, r
<1>9. CASE id.op = "Download"
    <2>1. Access(id.op, r) = [reads |-> FrameParts(r), writes |-> {"result"}]
        BY <1>6, <1>9, EncodeAccesses
    <2> QED BY <1>1, <1>4, <1>5, <1>7, <2>1 DEF Reads, Writes, Free, r
<1> QED BY <1>1, <1>4, <1>8, <1>9 DEF IsFree, r

\* A decompression has nothing to do with the frame assembly.
LEMMA DecodeTouches ==
    ASSUME plan \in Plans, NEW c \in Calls, plan[c].job = "decompress", NEW o \in DecodeOps,
           NEW p \in Reads([call |-> c, op |-> o]) \cup Writes([call |-> c, op |-> o])
    PROVE  \/ p[2] = 0 /\ p[1] \notin {"asm_out", "layout"}
           \/ p[2] = c
           \/ p = <<"target", plan[c].of>> /\ plan[c].of # 0
<1> DEFINE r == plan[c]
           id == [call |-> c, op |-> o]
           Names == {"frame", "target", "result"} \cup Scratch
<1>1. Access(o, r) = DecodeAccess(o, r)
    BY DEF Access
<1>2. Reads(id) = {Place(n, c) : n \in DecodeAccess(o, r).reads}
    BY <1>1 DEF Reads
<1>3. Writes(id) = {Place(n, c) : n \in DecodeAccess(o, r).writes}
    BY <1>1 DEF Writes
<1>4. DecodeAccess(o, r).reads \cup DecodeAccess(o, r).writes \subseteq Names
    <2>1. FromDevice(r, "walk_chunks") \subseteq Names /\ FromDevice(r, "frame") \subseteq Names
          /\ LzReads(r) \subseteq Names /\ LzOutput(r) \in Names /\ PutsBack(r) \subseteq Names
        BY DEF FromDevice, LzReads, LzOutput, PutsBack, Scratch
    <2> HIDE DEF r
    <2>2. \A n \in {"dict", "meta", "walk_chunks", "descs", "first_sub", "block", "staged",
            "n_chunks", "huff_lists", "raw_list", "counts", "n_merged", "huff_descs",
            "huff_lut", "huff_scratch", "raw_scratch", "n_groups", "output",
            "segments", "hashes", "verdict", "frame", "target", "result"} : n \in Names
        BY DEF Scratch
    <2> HIDE DEF Names
    <2> QED BY <2>1, <2>2, DecodeAccesses DEF DecodeOps
<1>5. PICK n \in Names : p = Place(n, c)
    BY <1>2, <1>3, <1>4
<1>6. n # "asm_out" /\ n # "layout"
    BY <1>5 DEF Scratch
<1>7. p = IF n = "frame" /\ plan[c].of # 0 THEN <<"target", plan[c].of>>
          ELSE IF n = "target" /\ plan[c].source = "device" THEN <<"target", c>>
          ELSE <<n, IF n \in {"frame", "result", "input", "trailer"} THEN c ELSE 0>>
    BY <1>5, PlaceIs
<1> HIDE DEF r, Names, id
<1>8. \/ p = <<"target", plan[c].of>> /\ plan[c].of # 0
      \/ p = <<"target", c>> \/ p = <<n, c>> \/ p = <<n, 0>>
    BY <1>7
<1> QED BY <1>6, <1>8

-----------------------------------------------------------------------------
(* Operations that have nothing to order *)

\* Operations that conflict share a place.
LEMMA ConflictPlace ==
    ASSUME NEW i, NEW j, Conflict(i, j)
    PROVE  \E p \in Reads(i) \cup Writes(i) : p \in Reads(j) \cup Writes(j)
BY DEF Conflict

\* No operation of a decompression conflicts with what runs on a non-blocking stream.
LEMMA FreeApartDecode ==
    ASSUME plan \in Plans, NEW i, i.call \in Calls, IsFree(i),
           call \in Calls, Req.job = "decompress", NEW o \in DecodeOps
    PROVE  ~Conflict(i, Op(o))
<1> SUFFICES ASSUME Conflict(i, Op(o)) PROVE FALSE
    OBVIOUS
<1>1. PICK p \in Reads(i) \cup Writes(i) : p \in Reads(Op(o)) \cup Writes(Op(o))
    BY ConflictPlace
<1>2. p \in Free(i.call) /\ plan[i.call].job = "compress" /\ plan[i.call].stream = "free"
    BY FreeTouches
<1>3. \/ p[2] = 0 /\ p[1] \notin {"asm_out", "layout"}
      \/ p[2] = call
      \/ p = <<"target", plan[call].of>> /\ plan[call].of # 0
    BY <1>1, DecodeTouches DEF Op, Req
<1>4. i.call # call /\ i.call # 0 /\ call # 0
    BY <1>2 DEF Req, Calls
<1>5. DOMAIN plan = Calls
    BY PlansAssumption DEF Calls
<1>6. p[2] \in {0, i.call} /\ (p[2] = 0 => p[1] \in {"asm_out", "layout"})
    BY <1>2, <1>4 DEF Free
<1>7. p = <<"target", plan[call].of>> /\ plan[call].of # 0
    BY <1>3, <1>4, <1>6
<1>8. plan[call].of = i.call
    BY <1>2, <1>7 DEF Free
<1>9. plan[call].of # 0 => plan[plan[call].of].stream # "free"
    BY <1>5, CallersAssumption
<1> QED BY <1>2, <1>4, <1>8, <1>9

\* The first operations of a compression only touch what they fill.
LEMMA FreeApartOpening ==
    ASSUME plan \in Plans, NEW i, i.call \in Calls, IsFree(i), i.call # call, call \in Calls,
           Req.job = "compress", NEW o \in {"UploadInput", "WrapInput", "CopyInput", "CopyEncDescs", "ZeroSizes"}
    PROVE  ~Conflict(i, Op(o))
<1> SUFFICES ASSUME Conflict(i, Op(o)) PROVE FALSE
    OBVIOUS
<1> DEFINE Names == {"input", "wrap_input", "enc_input", "enc_descs", "enc_sizes"}
<1>1. PICK p \in Reads(i) \cup Writes(i) : p \in Reads(Op(o)) \cup Writes(Op(o))
    BY ConflictPlace
<1>2. p \in Free(i.call)
    BY FreeTouches
<1>3. Access(o, Req).reads \cup Access(o, Req).writes \subseteq Names
    <2>1. Access(o, Req) = EncodeAccess(o, Req) /\ Input(Req) \in Names
        BY DEF Access, Input
    <2> QED BY <2>1, EncodeAccesses
<1>4. PICK n \in Names : p = Place(n, call)
    BY <1>1, <1>3 DEF Reads, Writes, Op, Req
<1>5. p \in {<<"input", call>>, <<"wrap_input", 0>>, <<"enc_input", 0>>, <<"enc_descs", 0>>, <<"enc_sizes", 0>>}
    BY <1>4, PlaceIs
<1>6. call # 0
    BY DEF Calls
<1> QED BY <1>2, <1>5, <1>6 DEF Free

\* The Merkle root goes behind the frame.
LEMMA FreeApartRoot ==
    ASSUME plan \in Plans, call \in Calls, Req.job = "compress"
    PROVE  ~Conflict(Op("FrameAssemble"), Op("RootWrite"))
<1>1. /\ Access("FrameAssemble", Req) = [reads |-> {"asm_out", "layout", Input(Req)}, writes |-> {"target"}]
      /\ Access("RootWrite", Req) = [reads |-> {"enc_hashes"}, writes |-> {"trailer"}]
    BY EncodeAccesses DEF Access
<1>2. /\ Place("asm_out", call) = <<"asm_out", 0>> /\ Place("layout", call) = <<"layout", 0>>
      /\ Place(Input(Req), call) \in {<<"input", call>>, <<"wrap_input", 0>>}
      /\ Place("target", call) \in {<<"target", call>>, <<"target", 0>>}
      /\ Place("enc_hashes", call) = <<"enc_hashes", 0>> /\ Place("trailer", call) = <<"trailer", call>>
    BY PlaceIs DEF Input
<1>3. /\ Reads(Op("FrameAssemble")) = {Place("asm_out", call), Place("layout", call), Place(Input(Req), call)}
      /\ Writes(Op("FrameAssemble")) = {Place("target", call)}
      /\ Reads(Op("RootWrite")) = {Place("enc_hashes", call)} /\ Writes(Op("RootWrite")) = {Place("trailer", call)}
    BY <1>1 DEF Reads, Writes, Op, Req
<1> QED BY <1>2, <1>3 DEF Conflict

\* The caller's upload is to a place of the call alone.
LEMMA UploadApart ==
    ASSUME plan \in Plans, NEW i, i.call \in Calls, i.call # call, call \in Calls,
           NEW o, \/ Req.job = "decompress" /\ Req.of = 0 /\ o = "UploadFrame"
                  \/ Req.job = "compress" /\ o = "UploadInput"
    PROVE  ~Conflict(i, Op(o))
<1> SUFFICES ASSUME Conflict(i, Op(o)) PROVE FALSE
    OBVIOUS
<1>1. PICK p \in Reads(i) \cup Writes(i) : p \in Reads(Op(o)) \cup Writes(Op(o))
    BY ConflictPlace
<1>2. PICK n : p = Place(n, i.call)
    BY <1>1 DEF Reads, Writes
<1>3. Access(o, Req) = [reads |-> {}, writes |-> IF o = "UploadFrame" THEN {"frame"} ELSE {"input"}]
    BY ZenonT(60), DecodeAccesses, EncodeAccesses DEF Access
<1>4. p = Place(IF o = "UploadFrame" THEN "frame" ELSE "input", call)
    BY <1>1, <1>3 DEF Reads, Writes, Op, Req
<1>5. p \in {<<"frame", call>>, <<"input", call>>}
    BY <1>4, PlaceIs DEF Req
<1>6. p = IF n = "frame" /\ plan[i.call].of # 0 THEN <<"target", plan[i.call].of>>
          ELSE IF n = "target" /\ plan[i.call].source = "device" THEN <<"target", i.call>>
          ELSE <<n, IF n \in {"frame", "result", "input", "trailer"} THEN i.call ELSE 0>>
    BY <1>2, PlaceIs
<1>7. call # 0
    BY DEF Calls
<1> QED BY <1>5, <1>6, <1>7

\* What is decoded while the gather runs.
LEMMA GatherApart ==
    ASSUME plan \in Plans, call \in Calls, Req.job = "decompress", NEW o \in {"Merge", "HuffBuild", "HuffDecode"}
    PROVE  ~Conflict(Op("Gather"), Op(o))
<1>1. \A n \in Scratch : Place(n, call) = <<n, 0>>
    BY PlaceIs DEF Scratch
<1>2. /\ Access("Gather", Req) = [reads |-> {"block", "raw_list", "counts"}, writes |-> {"raw_scratch"}]
      /\ Access(o, Req).reads \subseteq {"huff_lists", "counts", "block", "huff_descs", "n_merged", "huff_lut"}
      /\ Access(o, Req).writes \subseteq {"huff_descs", "n_merged", "huff_lut", "huff_scratch"}
    BY DecodeAccesses DEF Access
<1>3. /\ Reads(Op("Gather")) = {<<"block", 0>>, <<"raw_list", 0>>, <<"counts", 0>>}
      /\ Writes(Op("Gather")) = {<<"raw_scratch", 0>>}
    <2>1. Access("Gather", Req).reads \subseteq Scratch /\ "raw_scratch" \in Scratch
        BY <1>2 DEF Scratch
    <2> QED BY <1>1, <1>2, <2>1 DEF Reads, Writes, Op, Req
<1>4. /\ Reads(Op(o)) \subseteq {<<"huff_lists", 0>>, <<"counts", 0>>, <<"block", 0>>, <<"huff_descs", 0>>,
                                 <<"n_merged", 0>>, <<"huff_lut", 0>>}
      /\ Writes(Op(o)) \subseteq {<<"huff_descs", 0>>, <<"n_merged", 0>>, <<"huff_lut", 0>>, <<"huff_scratch", 0>>}
    <2>1. {"huff_lists", "counts", "block", "huff_descs", "n_merged", "huff_lut", "huff_scratch"} \subseteq Scratch
        BY DEF Scratch
    <2> QED BY <1>1, <1>2, <2>1 DEF Reads, Writes, Op, Req
<1> QED BY <1>3, <1>4 DEF Conflict

-----------------------------------------------------------------------------
(* Launches that keep what the host knows, stream by stream *)

Fits(s, o) ==
    \/ s \in {"null", "caller"} /\ ~IsFree(Op(o))
    \/ s = "gather" /\ o \in OffStream /\ IsSync(Req)
    \/ s = "gather" /\ o = "Gather" /\ step = "gather"
    \/ s = "pipeline" /\ o \in OffStream /\ IsSync(Req) /\ Req.job = "decompress" /\ step \in BackSteps
    \/ s = "free" /\ IsFree(Op(o))

Launching(d, e, s, o) ==
    /\ Safe(d, s, o) /\ Working(e)
    /\ AfterLaunch(d, e, s, Op(o)) /\ Grown(d, e, s, Op(o))

\* A launch that is ordered after what it conflicts with leaves the host's picture true.
LEMMA LaunchWorks ==
    ASSUME NEW d, NEW s, NEW o, NEW e, Working(d), call \in Calls, Safe(d, s, o), Fits(s, o),
           e = Cuda!Launch(d, s, Op(o))
    PROVE  Launching(d, e, s, o)
<1>1. /\ AfterLaunch(d, e, s, Op(o)) /\ Shape(e) /\ Ordered(e) /\ UploadsFirst(e)
      /\ Cuda!Queued(e) = Cuda!Queued(d) \cup {Op(o)}
      /\ \A id \in Cuda!Queued(d) :
            /\ Known(id) /\ BehindFree(e, id) /\ BehindCaller(e, id) /\ Leaves(id)
            /\ BehindNull(e, id) /\ (step \notin Opening(Req) => Own(id))
      /\ Known(Op(o)) /\ Leaves(Op(o)) /\ Own(Op(o))
    BY LaunchKeeps
<1>2. Shape(d) /\ s \in Streams
    BY DEF Safe
<1>3. Grown(d, e, s, Op(o))
    BY <1>1, <1>2, LaunchGrows
<1>4. /\ Op(o) \in Ahead(e, s) /\ (s \in {"null", "caller", "gather"} => Op(o) \in Legacy(e))
      /\ s = "null" => \A t \in Blocking : Ahead(e, t) = {Op(o)} \cup Legacy(d)
    BY <1>3 DEF Grown
<1>5. Op(o).call = call /\ Op(o).op = o
    BY DEF Op
<1>6. BehindFree(e, Op(o))
    BY <1>4, <1>5 DEF Fits, BehindFree, OffStream, IsFree
<1>7. BehindCaller(e, Op(o))
    BY <1>4, <1>5 DEF Fits, BehindCaller, Gathers, IsSync, Req, Blocking
<1>8. BehindNull(e, Op(o))
    BY <1>4, <1>5 DEF Fits, BehindNull, InBackHalf
<1>9. Working(e)
    BY <1>1, <1>6, <1>7, <1>8 DEF Working, Sound
<1> QED BY <1>1, <1>3, <1>9 DEF Launching

\* The null stream is behind all that could conflict.
LEMMA NullCovers ==
    ASSUME NEW d, NEW o, Working(d), step \notin BackSteps,
           \A i \in Cuda!Queued(d) : IsFree(i) => ~Conflict(i, Op(o))
    PROVE  /\ Covered(d, "null", Op(o))
           /\ \A j \in Cuda!Queued(d) : j.op \in Uploads => j \in Cover(d, "null")
<1>1. Covered(d, "null", Op(o))
    <2>1. SUFFICES ASSUME NEW i \in Cuda!Queued(d), Conflict(i, Op(o)) PROVE i \in Legacy(d)
        BY DEF Covered, Cover
    <2>2. BehindNull(d, i)
        BY DEF Working
    <2> QED BY <2>1, <2>2 DEF BehindNull, InBackHalf
<1>2. \A j \in Cuda!Queued(d) : j.op \in Uploads => j \in Cover(d, "null")
    BY DEF Working, Sound, UploadsFirst, Cover, Legacy
<1> QED BY <1>1, <1>2

\* Work on the null stream is ordered after all but what it does not conflict with.
LEMMA NullWorks ==
    ASSUME NEW d, NEW o, NEW e, Working(d), call \in Calls, step \notin BackSteps,
           o \in Ops(Req), OpRank[o] <= Rank[step], Op(o) \notin Cuda!Queued(d), ~IsFree(Op(o)),
           o \in Uploads => \A i \in Cuda!Queued(d) : i.call # call,
           \A i \in Cuda!Queued(d) : IsFree(i) => ~Conflict(i, Op(o)),
           e = Cuda!Launch(d, "null", Op(o))
    PROVE  Launching(d, e, "null", o)
<1>1. /\ Covered(d, "null", Op(o))
      /\ \A j \in Cuda!Queued(d) : j.op \in Uploads => j \in Cover(d, "null")
    BY NullCovers
<1>3. Safe(d, "null", o)
    BY <1>1 DEF Safe, Working, Sound, Streams
<1>4. Fits("null", o)
    BY DEF Fits
<1> QED BY <1>3, <1>4, LaunchWorks

\* For a decompression that is always so.
LEMMA NullWorksDecode ==
    ASSUME plan \in Plans, NEW d, NEW o, NEW e, Working(d), call \in Calls, step \notin BackSteps,
           Req.job = "decompress", o \in DecodeOps, OpRank[o] <= Rank[step],
           Op(o) \notin Cuda!Queued(d),
           o \in Uploads => \A i \in Cuda!Queued(d) : i.call # call,
           e = Cuda!Launch(d, "null", Op(o))
    PROVE  Launching(d, e, "null", o)
<1>1. ~IsFree(Op(o))
    <2>1. Op(o).call = call /\ call \in DOMAIN plan
        BY PlansAssumption DEF Op, Calls
    <2>2. Req.stream # "free"
        BY <2>1, CallersAssumption DEF Req
    <2> QED BY <2>1, <2>2 DEF IsFree, Req
<1>2. \A i \in Cuda!Queued(d) : IsFree(i) => ~Conflict(i, Op(o))
    BY FreeApartDecode DEF Working, Sound, Known
<1>3. o \in Ops(Req)
    BY DEF Ops
<1> QED BY <1>1, <1>2, <1>3, NullWorks

\* The caller's stream is behind the call's own work but for a gather, and what other
\* calls have left there is none of its business.
LEMMA CallerCovers ==
    ASSUME plan \in Plans, NEW d, NEW o, Working(d), call \in Calls, Req.stream = "caller",
           refused \subseteq 1 .. call - 1, step \notin Opening(Req),
           o \in Ops(Req), Op(o) \notin Cuda!Queued(d), step # "gather" \/ o = "Gather",
           \/ Req.job = "compress" \/ step \notin GatherSteps
           \/ o \in {"Merge", "HuffBuild", "HuffDecode"}
           \/ \A i \in Cuda!Queued(d) : GatherPends(d, i) => i \in Ahead(d, "caller")
    PROVE  /\ Covered(d, "caller", Op(o))
           /\ \A j \in Cuda!Queued(d) : j.op \in Uploads => j \in Cover(d, "caller")
<1>1. Req \in Request /\ Op(o).call = call
    BY Requests DEF Req, Op
<1>3. Covered(d, "caller", Op(o))
    <2>1. SUFFICES ASSUME NEW i \in Cuda!Queued(d), Conflict(i, Op(o)) PROVE i \in Ahead(d, "caller")
        BY DEF Covered, Cover
    <2>2. BehindCaller(d, i) /\ Own(i) /\ Known(i)
        BY DEF Working, Sound
    <2>3. ~IsFree(i)
        <3>1. SUFFICES ASSUME IsFree(i) PROVE FALSE
            OBVIOUS
        <3>2. CASE Req.job = "decompress"
            BY <2>1, <2>2, <3>1, <3>2, FreeApartDecode DEF Ops, Known
        <3>3. CASE Req.job # "decompress"
            BY <2>2, <3>1, <3>3 DEF Own, IsFree, Req
        <3> QED BY <3>2, <3>3
    <2>4. i.call = call
        BY <2>2, <2>3 DEF Own
    <2>5. i.call \notin refused /\ plan[i.call].stream # "null"
        BY <2>4 DEF Req, Calls
    <2>6. ASSUME GatherPends(d, i), i.op = "Gather" PROVE i \in Ahead(d, "caller")
        <3>1. step \in GatherSteps /\ i = Op("Gather")
            BY <2>2, <2>4, <2>6 DEF GatherPends, Known, Op
        <3>2. Req.job = "decompress"
            BY <1>1, <2>2, <2>4, <2>6 DEF Known, Ops, EncodeOps, Req
        <3>3. o \notin {"Merge", "HuffBuild", "HuffDecode"}
            BY <2>1, <3>1, <3>2, GatherApart
        <3> QED BY <2>6, <3>1, <3>2, <3>3
    <2>7. ~(i.op = "Gather" /\ Gathers(i))
        BY <2>2, <2>4 DEF Gathers, Known, Op
    <2> QED BY <2>2, <2>3, <2>5, <2>6, <2>7 DEF BehindCaller
<1>4. \A j \in Cuda!Queued(d) : j.op \in Uploads => j \in Cover(d, "caller")
    BY DEF Working, Sound, UploadsFirst, Cover
<1> QED BY <1>3, <1>4

\* Work on the caller's stream is ordered after all it conflicts with.
LEMMA CallerWorks ==
    ASSUME plan \in Plans, NEW d, NEW o, NEW e, Working(d), call \in Calls, Req.stream = "caller",
           refused \subseteq 1 .. call - 1, step \notin Opening(Req),
           o \in Ops(Req), OpRank[o] <= Rank[step], Op(o) \notin Cuda!Queued(d), o \notin Uploads,
           step # "gather" \/ o = "Gather",
           \/ Req.job = "compress" \/ step \notin GatherSteps
           \/ o \in {"Merge", "HuffBuild", "HuffDecode"}
           \/ \A i \in Cuda!Queued(d) : GatherPends(d, i) => i \in Ahead(d, "caller"),
           e = Cuda!Launch(d, "caller", Op(o))
    PROVE  Launching(d, e, "caller", o)
<1>1. /\ Covered(d, "caller", Op(o))
      /\ \A j \in Cuda!Queued(d) : j.op \in Uploads => j \in Cover(d, "caller")
    BY CallerCovers
<1>2. Safe(d, "caller", o)
    BY <1>1 DEF Safe, Working, Sound, Streams
<1>3. Fits("caller", o)
    BY DEF Fits, IsFree, Op, Req
<1> QED BY <1>2, <1>3, LaunchWorks

-----------------------------------------------------------------------------
(* From one step of the host to the next *)

\* The steps in the order they are taken.
LEMMA StepRanks ==
    /\ Rank["submit"] = 1 /\ Rank["header"] = 2 /\ Rank["dict"] = 3 /\ Rank["walk"] = 4 /\ Rank["descs"] = 5
    /\ Rank["block"] = 6 /\ Rank["stage"] = 7 /\ Rank["scan"] = 8 /\ Rank["gather"] = 9
    /\ Rank["merge"] = 10 /\ Rank["barrier"] = 11 /\ Rank["groups"] = 12 /\ Rank["huff"] = 13
    /\ Rank["lz"] = 14 /\ Rank["settle"] = 15 /\ Rank["merkle"] = 16 /\ Rank["verdict"] = 17
    /\ Rank["status"] = 18 /\ Rank["wrap"] = 2 /\ Rank["input"] = 3 /\ Rank["encode"] = 4
    /\ Rank["hash"] = 5 /\ Rank["sizes"] = 6 /\ Rank["lit"] = 7 /\ Rank["tok"] = 8 /\ Rank["off16"] = 9
    /\ Rank["measure"] = 10 /\ Rank["write"] = 11 /\ Rank["layout"] = 12 /\ Rank["frame"] = 13
    /\ Rank["table"] = 14 /\ Rank["root"] = 15 /\ Rank["finalize"] = 19 /\ Rank["download"] = 19
    /\ Rank["return"] = 20
BY DEF Rank

\* The operations at the step that queues them.
LEMMA OpRanks ==
    /\ OpRank["UploadFrame"] = 1 /\ OpRank["ReadHeader"] = 2 /\ OpRank["UploadDict"] = 3
    /\ OpRank["ZeroMeta"] = 4 /\ OpRank["Walk"] = 4 /\ OpRank["CopyDescs"] = 5 /\ OpRank["PrefixSum"] = 6
    /\ OpRank["CopyBlock"] = 6 /\ OpRank["ZeroStaged"] = 7 /\ OpRank["CopyCount"] = 7
    /\ OpRank["ScanParse"] = 8 /\ OpRank["ZeroCounts"] = 8 /\ OpRank["Compact"] = 8 /\ OpRank["Gather"] = 9
    /\ OpRank["Merge"] = 10 /\ OpRank["CopyGroups"] = 12 /\ OpRank["HuffBuild"] = 13
    /\ OpRank["HuffDecode"] = 13 /\ OpRank["Lz"] = 14 /\ OpRank["ScPrefix"] = 16 /\ OpRank["SegHash"] = 16
    /\ OpRank["ChunkCombine"] = 16 /\ OpRank["Verdict"] = 16 /\ OpRank["ReadVerdict"] = 17
    /\ OpRank["ReadStatus"] = 18 /\ OpRank["UploadInput"] = 1 /\ OpRank["WrapInput"] = 2
    /\ OpRank["CopyInput"] = 3 /\ OpRank["CopyEncDescs"] = 3 /\ OpRank["ZeroSizes"] = 3
    /\ OpRank["LzEncode"] = 4 /\ OpRank["EncSegHash"] = 5 /\ OpRank["EncCombine"] = 5
    /\ OpRank["ReadSizes"] = 6 /\ OpRank["ReadRaw"] = 6 /\ OpRank["DescsLit"] = 7 /\ OpRank["TablesLit"] = 7
    /\ OpRank["EncodeLit"] = 7 /\ OpRank["SizesLit"] = 7 /\ OpRank["DescsTok"] = 8
    /\ OpRank["TablesTok"] = 8 /\ OpRank["EncodeTok"] = 8 /\ OpRank["SizesTok"] = 8
    /\ OpRank["DescsOff16"] = 9 /\ OpRank["TablesOff16"] = 9 /\ OpRank["EncodeOff16"] = 9
    /\ OpRank["SizesOff16"] = 9 /\ OpRank["CopyAsmDescs"] = 10 /\ OpRank["Measure"] = 10
    /\ OpRank["ReadAsmSizes"] = 10 /\ OpRank["CopyOffsets"] = 11 /\ OpRank["AsmWrite"] = 11
    /\ OpRank["CopyLayout"] = 12 /\ OpRank["FrameAssemble"] = 13 /\ OpRank["SizeTable"] = 14
    /\ OpRank["RootWrite"] = 15 /\ OpRank["Download"] = 19
BY DEF OpRank

\* Every step and operation has its rank.
LEMMA RanksTyped == \A r : /\ \A s \in Route(r) : Rank[s] \in Nat
                           /\ \A o \in Ops(r) : OpRank[o] \in Nat /\ OpRank[o] >= 1
<1>1. \A r : \A s \in Route(r) : Rank[s] \in Nat
    BY StepRanks DEF Route, If, HuffPasses
<1>2. \A o \in DecodeOps : OpRank[o] \in Nat /\ OpRank[o] >= 1
    BY OpRanks DEF DecodeOps
<1>3. \A o \in EncodeOps : OpRank[o] \in Nat /\ OpRank[o] >= 1
    BY OpRanks DEF EncodeOps
<1> QED BY <1>1, <1>2, <1>3 DEF Ops

\* The host at a step: nothing is waited for, and the operations of the step are not queued.
LEMMA AtWork ==
    ASSUME OrderInv, call \in Calls, waiting = {}
    PROVE  /\ Working(device) /\ plan \in Plans /\ refused \subseteq 1 .. call - 1 /\ step \in Route(Req)
           /\ Req \in Request /\ (Req.source = "host" => Req.stream = "null")
           /\ \A o : ~(OpRank[o] < Rank[step]) => Op(o) \notin Cuda!Queued(device)
           /\ step \in QuietSteps(Req) => \A id \in Cuda!Queued(device) : Aside(device, id)
<1>1. Left = Cuda!Queued(device)
    BY UptoNone DEF Left
<1>2. \A id \in Cuda!Queued(device) : Gone(id)
    BY <1>1 DEF OrderInv
<1>3. Working(device)
    BY <1>2 DEF Working, Gone, OrderInv
<1>4. plan \in Plans /\ refused \subseteq 1 .. call - 1 /\ step \in Route(Req)
    BY DEF OrderInv, HostTyped
<1>5. ASSUME NEW o, Op(o) \in Cuda!Queued(device) PROVE OpRank[o] < Rank[step]
    <2>1. Op(o).call = call /\ Op(o).op = o
        BY DEF Op
    <2> QED BY <1>5, <2>1 DEF OrderInv, Fresh
<1>6. Req \in Request /\ (Req.source = "host" => Req.stream = "null")
    BY <1>4, Requests DEF Req
<1>7. step \in QuietSteps(Req) => \A id \in Cuda!Queued(device) : Aside(device, id)
    BY <1>2 DEF Gone
<1> QED BY <1>3, <1>4, <1>5, <1>6, <1>7

SameCall == plan' = plan /\ call' = call /\ refused' = refused

\* The host moves on within a call: what it has to have waited for, and what it may leave.
LEMMA Advance ==
    ASSUME OrderInv, call \in Calls, SameCall, Working(device'),
           step' \in Route(Req), Rank[step] < Rank[step'], waiting' \subseteq Cuda!Queued(device'),
           overlap' \in BOOLEAN, gatherPending' \in BOOLEAN, dictCached' \in Nat,
           \A id \in Cuda!Queued(device') :
               GatherPends(device', id) => \/ IsSync(Req) \/ id \in Ahead(device', "caller")
                                           \/ step' \in GatherSteps /\ gatherPending',
           \A id \in Cuda!Queued(device') \ Upto(device', waiting') :
               /\ InBackHalf(device', id) => step' \in BackSteps \/ id \in Legacy(device') \/ IsFree(id)
               /\ step' \notin Opening(Req) => Own(id)
               /\ step' \in QuietSteps(Req) =>
                     \/ IsFree(id) \/ (InBackHalf(device', id) /\ step' \in BackSteps)
                     \/ step' = "return" /\ id.call = call /\ id.op = "Download",
           step' = "barrier" /\ IsSync(Req) =>
               \A t \in Blocking : device'.front[t] \subseteq device'.front["null"],
           step = "gather" =>
               \/ IsSync(Req) \/ Op("Gather") \in Ahead(device', "caller")
               \/ /\ step' \in GatherSteps /\ gatherPending'
                  /\ Op("Gather") \in Upto(device', device'.event["gather_done"])
    PROVE  OrderInv'
<1> DEFINE e == device'
<1>0. /\ Req' = Req /\ Calls' = Calls /\ plan' = plan /\ call' = call /\ refused' = refused
      /\ \A id : /\ (IsFree(id))' = IsFree(id) /\ (IsAsync(id.call))' = IsAsync(id.call)
                 /\ (Own(id))' = Own(id)
    BY DEF SameCall, Req, Calls, IsFree, IsAsync, Own
<1>1. HostTyped'
    BY <1>0 DEF OrderInv, HostTyped
<1>2. ASSUME NEW id \in Cuda!Queued(e)
      PROVE  /\ (Known(id) /\ BehindFree(device, id) /\ BehindCaller(device, id) /\ Leaves(id))'
             /\ id.call = call => OpRank[id.op] < Rank[step']
    <2>1. Known(id) /\ BehindFree(e, id) /\ BehindCaller(e, id) /\ Leaves(id)
        BY DEF Working, Sound
    <2>2. Rank[step] \in Nat /\ Rank[step'] \in Nat /\ OpRank[id.op] \in Nat
        <3>1. step \in Route(Req)
            BY DEF OrderInv, HostTyped
        <3> QED BY <2>1, <3>1, RanksTyped DEF Known
    <2>3. id.call = call => OpRank[id.op] < Rank[step']
        BY <2>1, <2>2 DEF Known
    <2>4. Known(id)'
        BY <1>0, <2>1, <2>2, <2>3 DEF Known
    <2>5. BehindFree(device, id)'
        BY <1>0, <2>1 DEF BehindFree
    <2>6. BehindCaller(device, id)'
        <3>1. id.op = "Gather" /\ Gathers(id) =>
                 \/ IsSync(Req) \/ id \in Ahead(e, "caller") \/ GatherPends(device, id)'
            <4>1. id.op = "Gather" /\ Gathers(id) => id = Op("Gather") /\ step = "gather"
                BY <2>1 DEF Known, Gathers, Op
            <4> QED BY <1>0, <4>1 DEF GatherPends, Op
        <3>2. id.op = "Gather" /\ Gathers(id) /\ IsSync(Req) => plan[id.call].stream = "null" /\ id.op \in OffStream
            BY DEF Gathers, IsSync, Req, OffStream
        <3>3. GatherPends(e, id) /\ IsSync(Req) => plan[id.call].stream = "null"
            BY DEF GatherPends, IsSync, Req
        <3>4. id.op = "Gather" => id.op \in OffStream
            BY DEF OffStream
        <3> QED BY <1>0, <2>1, <3>1, <3>2, <3>3, <3>4 DEF BehindCaller, GatherPends
    <2>7. Leaves(id)'
        BY <1>0, <2>1 DEF Leaves
    <2> QED BY <2>3, <2>4, <2>5, <2>6, <2>7
<1>3. Sound(device)'
    <2>1. Shape(e) /\ Ordered(e) /\ UploadsFirst(e)
        BY DEF Working, Sound
    <2>2. UploadsFirst(device)'
        BY <1>0, <2>1 DEF UploadsFirst
    <2>3. Ordered(device)'
        <3>1. \A i : (Reads(i))' = Reads(i) /\ (Writes(i))' = Writes(i)
            BY <1>0 DEF Reads, Writes, Place
        <3> QED BY <2>1, <3>1 DEF Ordered, Conflict
    <2> QED BY <1>2, <2>1, <2>2, <2>3 DEF Sound
<1>4. Fresh'
    BY <1>0, <1>2 DEF Fresh
<1>5. BarrierOnNull'
    BY <1>0 DEF BarrierOnNull
<1>6. ASSUME NEW id \in Left' PROVE Gone(id)'
    <2>1. id \in Cuda!Queued(e) \ Upto(e, waiting')
        BY DEF Left
    <2>2. BehindNull(e, id)
        BY <2>1 DEF Working
    <2>3. /\ InBackHalf(device', id) => step' \in BackSteps \/ id \in Legacy(device') \/ IsFree(id)
          /\ step' \notin Opening(Req) => Own(id)
          /\ step' \in QuietSteps(Req) =>
                \/ IsFree(id) \/ (InBackHalf(device', id) /\ step' \in BackSteps)
                \/ step' = "return" /\ id.call = call /\ id.op = "Download"
        BY <2>1
    <2>4. InBackHalf(e, id) /\ step' \in BackSteps => InBackHalf(device, id)'
        BY <1>0 DEF InBackHalf
    <2>5. BehindNull(device, id)'
        BY <1>0, <2>2, <2>3, <2>4 DEF BehindNull
    <2>6. (call \in Calls /\ step \notin Opening(Req) => Own(id))'
        BY <1>0, <2>3
    <2>7. (call \in Calls /\ step \in QuietSteps(Req) => Aside(device, id))'
        BY <1>0, <2>3, <2>4 DEF Aside
    <2> QED BY <2>5, <2>6, <2>7 DEF Gone
<1> QED BY <1>1, <1>3, <1>4, <1>5, <1>6 DEF OrderInv

FlagsTyped == overlap \in BOOLEAN /\ gatherPending \in BOOLEAN /\ dictCached \in Nat

\* A pending gather stays pending until the LZ kernel.
GatherStays == step # "gather" /\ (step \in GatherSteps => step' \in GatherSteps /\ gatherPending' = gatherPending)

Steps == /\ call \in Calls /\ SameCall /\ step' \in Route(Req) /\ Rank[step] < Rank[step']
         /\ FlagsTyped' /\ GatherStays

\* A gather that pends still does at the next step.
LEMMA GatherStaysPending ==
    ASSUME GatherStays, NEW d, NEW id, GatherPends(d, id)
    PROVE  step' \in GatherSteps /\ gatherPending'
BY DEF GatherStays, GatherPends

\* The host goes on without waiting.
LEMMA Continues ==
    ASSUME OrderInv, Steps, Working(device'), waiting' = {},
           step \notin BackSteps \/ step' \in BackSteps,
           step' \in Opening(Req) \/ step \notin Opening(Req),
           step' \in QuietSteps(Req) =>
               \A id \in Cuda!Queued(device') :
                   \/ IsFree(id) \/ (InBackHalf(device', id) /\ step' \in BackSteps)
                   \/ step' = "return" /\ id.call = call /\ id.op = "Download",
           step' = "barrier" /\ IsSync(Req) =>
               \A t \in Blocking : device'.front[t] \subseteq device'.front["null"]
    PROVE  OrderInv'
<1>1. FlagsTyped' /\ call \in Calls /\ SameCall /\ step' \in Route(Req) /\ Rank[step] < Rank[step']
    BY DEF Steps
<1>2. \A id \in Cuda!Queued(device') :
          GatherPends(device', id) => \/ id \in Ahead(device', "caller")
                                      \/ step' \in GatherSteps /\ gatherPending'
    BY GatherStaysPending DEF Steps
<1>3. ASSUME NEW id \in Cuda!Queued(device') \ Upto(device', waiting')
      PROVE  /\ InBackHalf(device', id) => step' \in BackSteps \/ id \in Legacy(device') \/ IsFree(id)
             /\ step' \notin Opening(Req) => Own(id)
             /\ step' \in QuietSteps(Req) =>
                   \/ IsFree(id) \/ (InBackHalf(device', id) /\ step' \in BackSteps)
                   \/ step' = "return" /\ id.call = call /\ id.op = "Download"
    BY DEF InBackHalf, Working
<1> QED BY <1>1, <1>2, <1>3, Advance DEF FlagsTyped, Steps, GatherStays

\* The host waits for what it has queued on the null stream: of this handle nothing is
\* left but what is on a non-blocking stream.
LEMMA Waits ==
    ASSUME OrderInv, Steps, NEW d, NEW o, Launching(d, device', "null", o), waiting' = {Op(o)},
           step \notin BackSteps,
           Req.job = "decompress" \/ step' \in Opening(Req) \/ step \notin Opening(Req)
    PROVE  OrderInv'
<1>1. FlagsTyped' /\ call \in Calls /\ SameCall /\ step' \in Route(Req) /\ Rank[step] < Rank[step']
    BY DEF Steps
<1>2. \A id \in Cuda!Queued(device') :
          GatherPends(device', id) => \/ id \in Ahead(device', "caller")
                                      \/ step' \in GatherSteps /\ gatherPending'
    BY GatherStaysPending DEF Steps
<1>3. Working(device') /\ Op(o) \in Cuda!Queued(device') /\ Upto(device', {Op(o)}) = Legacy(device')
    BY DEF Launching, AfterLaunch, Grown
<1>4. \A t \in Blocking : device'.front[t] = device'.front["null"]
    BY DEF Launching, AfterLaunch, Moves, Blocking, Streams
<1>5. ASSUME NEW id \in Cuda!Queued(device') \ Upto(device', waiting')
      PROVE  /\ InBackHalf(device', id) => step' \in BackSteps \/ id \in Legacy(device') \/ IsFree(id)
             /\ step' \notin Opening(Req) => Own(id)
             /\ step' \in QuietSteps(Req) =>
                   \/ IsFree(id) \/ (InBackHalf(device', id) /\ step' \in BackSteps)
                   \/ step' = "return" /\ id.call = call /\ id.op = "Download"
    <2>1. id \in Cuda!Queued(device') /\ id \notin Legacy(device')
        BY <1>3
    <2>2. BehindNull(device', id) /\ (step \notin Opening(Req) => Own(id))
        BY <1>3, <2>1 DEF Working
    <2>3. IsFree(id)
        BY <2>1, <2>2 DEF BehindNull, InBackHalf
    <2> QED BY <2>2, <2>3 DEF Own
<1> QED BY <1>1, <1>2, <1>3, <1>4, <1>5, Advance DEF FlagsTyped, Steps, GatherStays

\* The host waits for everything in the context.
LEMMA Drains ==
    ASSUME OrderInv, Steps, Working(device'), waiting' = Cuda!Queued(device'), step' # "barrier"
    PROVE  OrderInv'
<1>1. FlagsTyped' /\ call \in Calls /\ SameCall /\ step' \in Route(Req) /\ Rank[step] < Rank[step']
    BY DEF Steps
<1>2. \A id \in Cuda!Queued(device') :
          GatherPends(device', id) => \/ id \in Ahead(device', "caller")
                                      \/ step' \in GatherSteps /\ gatherPending'
    BY GatherStaysPending DEF Steps
<1>3. Cuda!Queued(device') \ Upto(device', waiting') = {}
    BY UptoClosed DEF Working, Sound, Shape
<1> QED BY <1>1, <1>2, <1>3, Advance DEF FlagsTyped, Steps, GatherStays

\* What the step says of the request.
LEMMA StepOf ==
    ASSUME Req \in Request, step \in Route(Req)
    PROVE  /\ Req.job \in {"decompress", "compress"} /\ Req.source \in {"host", "device"}
           /\ Req.stream \in {"null", "caller", "free"}
           /\ step \in {"header", "walk", "status", "dict", "descs", "block", "barrier", "groups", "lz",
                        "settle", "stage", "scan", "gather", "merge", "huff", "merkle", "verdict"}
                => Req.job = "decompress"
           /\ step \in {"header", "walk", "status", "download"} => Req.source = "device"
           /\ step \in {"merkle", "verdict", "finalize", "wrap", "table"} => Req.source = "host"
           /\ step \in {"stage", "scan", "gather", "merge", "huff"} => Req.entropy
           /\ step = "merkle" => Req.merkle # "none"
           /\ step = "verdict" => Req.merkle = "verdict"
           /\ step \in {"input", "encode", "sizes", "measure", "write", "layout", "frame", "wrap",
                        "table", "lit", "tok", "off16", "hash", "root"} => Req.job = "compress"
           /\ step \in {"lit", "tok", "off16"} => Req.entropy
           /\ step \in {"hash", "root"} => Req.merkle = "root"
<1>1. /\ Req.job \in {"decompress", "compress"} /\ Req.source \in {"host", "device"}
      /\ Req.stream \in {"null", "caller", "free"}
    BY DEF Request
<1> QED BY <1>1 DEF Route, If, HuffPasses

\* One operation on the null stream, waited for.
LEMMA NullWait ==
    ASSUME OrderInv, Steps, waiting = {}, step \notin BackSteps, Req.job = "decompress",
           NEW o \in DecodeOps \ Uploads, OpRank[o] = Rank[step],
           device' = Queue(device, "null", <<o>>), waiting' = {Op(o)}
    PROVE  OrderInv' /\ Launching(device, device', "null", o)
<1>1. device' = Cuda!Launch(device, "null", Op(o))
    BY Queue1
<1>2. Working(device) /\ plan \in Plans /\ Op(o) \notin Cuda!Queued(device) /\ call \in Calls
    <2>1. ~(OpRank[o] < Rank[step]) /\ OpRank[o] <= Rank[step]
        BY RanksTyped DEF Ops
    <2> QED BY <2>1, AtWork DEF Steps
<1>3. OpRank[o] <= Rank[step]
    <2>1. OpRank[o] \in Nat
        BY RanksTyped DEF Ops
    <2> QED BY <2>1
<1>4. Launching(device, device', "null", o)
    BY <1>1, <1>2, <1>3, NullWorksDecode
<1> QED BY <1>4, Waits

-----------------------------------------------------------------------------
(* The steps of a decompression *)

\* A step that goes on to the next one.
LEMMA Going ==
    ASSUME OrderInv, waiting = {}, call \in Calls, NEW there, Goto(there), SameFlags \/ FlagsTyped',
           there \in Route(Req), Rank[step] < Rank[there], GatherStays
    PROVE  Steps /\ step' = there
<1>1. SameCall /\ step' = there
    BY DEF Goto, host, SameCall
<1>2. FlagsTyped'
    BY DEF SameFlags, FlagsTyped, OrderInv, HostTyped
<1> QED BY <1>1, <1>2 DEF Steps

\* ReadHeader, the blocking copy of a device frame's header.
LEMMA ReadHeaderStep ==
    ASSUME OrderInv, ReadHeader
    PROVE  OrderInv' /\ Launching(device, device', "null", "ReadHeader")
<1>1. step = "header" /\ waiting = {} /\ call \in Calls /\ Goto("dict") /\ SameFlags
    BY DEF ReadHeader, At
<1>2. Req \in Request /\ step \in Route(Req)
    BY <1>1, AtWork
<1>3. Req.job = "decompress" /\ Req.source = "device"
    BY <1>1, <1>2, StepOf
<1>4. "dict" \in Route(Req)
    BY <1>3 DEF Route, If
<1>5. Steps /\ step' = "dict"
    BY <1>1, <1>4, Going, StepRanks DEF GatherStays, GatherSteps
<1>6. device' = Queue(device, "null", <<"ReadHeader">>) /\ waiting' = {Op("ReadHeader")}
    BY DEF ReadHeader, HeaderStream, Blocks
<1>7. "ReadHeader" \in DecodeOps \ Uploads /\ OpRank["ReadHeader"] = Rank[step] /\ step \notin BackSteps
    BY <1>1, StepRanks, OpRanks DEF DecodeOps, Uploads, BackSteps
<1> QED BY <1>1, <1>3, <1>5, <1>6, <1>7, NullWait

\* EnsureDict, the dictionary's blocking upload unless it is resident.
LEMMA EnsureDictStep ==
    ASSUME OrderInv, EnsureDict
    PROVE  OrderInv' /\ (~DictResident => Launching(device, device', "null", "UploadDict"))
<1> DEFINE there == IF Req.source = "device" THEN "walk" ELSE "descs"
<1>1. step = "dict" /\ waiting = {} /\ call \in Calls /\ Goto(there)
      /\ UNCHANGED <<overlap, gatherPending>>
    BY DEF EnsureDict, At
<1>2. Req \in Request /\ step \in Route(Req) /\ Working(device)
    BY <1>1, AtWork
<1>3. Req.job = "decompress" /\ Req.source \in {"host", "device"}
    BY <1>1, <1>2, StepOf
<1>4. there \in Route(Req) /\ Rank[step] < Rank[there]
    BY <1>1, <1>3, StepRanks DEF Route, If
<1>5. FlagsTyped'
    <2>1. dictCached' \in Nat
        BY <1>2 DEF EnsureDict, OrderInv, HostTyped, Request
    <2> QED BY <1>1, <2>1 DEF FlagsTyped, OrderInv, HostTyped
<1>6. Steps /\ step' = there
    <2> HIDE DEF there
    <2> QED BY <1>1, <1>4, <1>5, Going DEF GatherStays, GatherSteps
<1>7. CASE DictResident
    <2>1. device' = device /\ waiting' = {}
        BY <1>7 DEF EnsureDict, Returns
    <2>2. there \in Opening(Req) \/ step \notin Opening(Req)
        BY <1>1, <1>3 DEF Opening, If
    <2>3. there \notin QuietSteps(Req) /\ there # "barrier" /\ step \notin BackSteps
        BY <1>1, <1>3 DEF QuietSteps, If, BackSteps
    <2> HIDE DEF there
    <2> QED BY <1>2, <1>6, <1>7, <2>1, <2>2, <2>3, Continues
<1>8. CASE ~DictResident
    <2>1. device' = Queue(device, "null", <<"UploadDict">>) /\ waiting' = {Op("UploadDict")}
        BY <1>8 DEF EnsureDict, Blocks
    <2>2. "UploadDict" \in DecodeOps \ Uploads /\ OpRank["UploadDict"] = Rank[step] /\ step \notin BackSteps
        BY <1>1, StepRanks, OpRanks DEF DecodeOps, Uploads, BackSteps
    <2> QED BY <1>1, <1>3, <1>6, <2>1, <2>2, NullWait
<1> QED BY <1>7, <1>8

\* Work on the stream of the call, once the null stream is behind earlier calls.
LEMMA WorkWorks ==
    ASSUME plan \in Plans, NEW d, NEW o, NEW e, Working(d), call \in Calls,
           refused \subseteq 1 .. call - 1, Req.job = "decompress",
           step \notin BackSteps, step \notin Opening(Req) \/ IsSync(Req),
           o \in DecodeOps \ Uploads, OpRank[o] <= Rank[step], Op(o) \notin Cuda!Queued(d),
           step \notin GatherSteps \/ o \in {"Merge", "HuffBuild", "HuffDecode"},
           step # "gather" \/ o = "Gather",
           e = Cuda!Launch(d, WorkStream, Op(o))
    PROVE  Launching(d, e, WorkStream, o)
<1>1. Req \in Request /\ Req.stream # "free"
    <2>1. call \in DOMAIN plan
        BY PlansAssumption DEF Calls
    <2> QED BY <2>1, Requests, CallersAssumption DEF Req
<1>2. CASE Req.stream = "null"
    BY <1>2, NullWorksDecode DEF WorkStream
<1>3. CASE Req.stream = "caller"
    <2>1. o \in Ops(Req) /\ o \notin Uploads /\ step \notin Opening(Req)
        BY <1>3 DEF Ops, IsSync
    <2> QED BY <1>3, <2>1, CallerWorks DEF WorkStream
<1> QED BY <1>1, <1>2, <1>3 DEF Request

\* The operations of a step are not queued before it, and each only once.
LEMMA NotYet ==
    ASSUME OrderInv, call \in Calls, waiting = {}, Req.job = "decompress",
           NEW o \in DecodeOps, OpRank[o] = Rank[step]
    PROVE  Op(o) \notin Cuda!Queued(device) /\ OpRank[o] <= Rank[step]
<1>1. OpRank[o] \in Nat
    BY RanksTyped DEF Ops
<1>2. ~(OpRank[o] < Rank[step]) /\ OpRank[o] <= Rank[step]
    BY <1>1
<1> QED BY <1>2, AtWork

\* A launch queues its operation and no other.
LEMMA QueuedByLaunch ==
    ASSUME NEW d, NEW e, NEW s, NEW o, Launching(d, e, s, o)
    PROVE  /\ Cuda!Queued(e) = Cuda!Queued(d) \cup {Op(o)} /\ Working(e)
           /\ \A a : a # o => Op(a) # Op(o)
BY DEF Launching, AfterLaunch, Op

\* Every blocking stream is behind the last operation of the null stream.
LEMMA NullFronts ==
    ASSUME NEW d, NEW e, NEW o, Launching(d, e, "null", o)
    PROVE  \A t \in Blocking : e.front[t] \subseteq e.front["null"]
BY DEF Launching, AfterLaunch, Moves, Blocking, Streams

\* WalkFrame zeroes the walk's results on the null stream and walks on the caller's.
LEMMA WalkStep ==
    ASSUME OrderInv, WalkFrame
    PROVE  /\ OrderInv'
           /\ \E d : Launching(device, d, "null", "ZeroMeta") /\ Launching(d, device', WorkStream, "Walk")
<1>1. step = "walk" /\ waiting = {} /\ call \in Calls /\ Goto("descs") /\ SameFlags /\ waiting' = {}
    BY DEF WalkFrame, At, Returns
<1>2. Req \in Request /\ step \in Route(Req) /\ Working(device) /\ plan \in Plans /\ refused \subseteq 1 .. call - 1
    BY <1>1, AtWork
<1>3. Req.job = "decompress" /\ Req.source = "device"
    BY <1>1, <1>2, StepOf
<1>4. "descs" \in Route(Req)
    BY <1>3 DEF Route, If
<1>5. Steps /\ step' = "descs"
    BY <1>1, <1>4, Going, StepRanks DEF GatherStays, GatherSteps
<1>6. PICK d : d = Cuda!Launch(device, "null", Op("ZeroMeta"))
    OBVIOUS
<1>7. device' = Cuda!Launch(d, WorkStream, Op("Walk"))
    BY <1>6, Queue1 DEF WalkFrame
<1>8. /\ \A o \in {"ZeroMeta", "Walk"} : o \in DecodeOps /\ o \notin Uploads /\ OpRank[o] = Rank[step]
      /\ step \notin BackSteps /\ step \notin Opening(Req) /\ step \notin GatherSteps
    BY <1>1, <1>3, StepRanks, OpRanks DEF DecodeOps, Uploads, BackSteps, GatherSteps, Opening, If
<1>9. \A o \in {"ZeroMeta", "Walk"} : Op(o) \notin Cuda!Queued(device) /\ OpRank[o] <= Rank[step]
    BY <1>1, <1>3, <1>8, NotYet
<1>10. Launching(device, d, "null", "ZeroMeta")
    BY <1>1, <1>2, <1>3, <1>6, <1>8, <1>9, NullWorksDecode
<1>11. Working(d) /\ Op("Walk") \notin Cuda!Queued(d)
    BY <1>9, <1>10, QueuedByLaunch
<1>12. Launching(d, device', WorkStream, "Walk")
    BY <1>1, <1>2, <1>3, <1>7, <1>8, <1>9, <1>11, WorkWorks
<1>13. OrderInv'
    <2>1. "descs" \notin QuietSteps(Req)
        BY DEF QuietSteps, If
    <2> QED BY <1>1, <1>5, <1>8, <1>12, <2>1, QueuedByLaunch, Continues
<1> QED BY <1>10, <1>12, <1>13

\* One operation on the stream of the call.
LEMMA WorkOn ==
    ASSUME OrderInv, waiting = {}, call \in Calls, Req.job = "decompress",
           step \notin BackSteps, step \notin Opening(Req) \/ IsSync(Req),
           NEW o \in DecodeOps \ Uploads, OpRank[o] = Rank[step],
           step \notin GatherSteps \/ o \in {"Merge", "HuffBuild", "HuffDecode"},
           step # "gather" \/ o = "Gather",
           NEW e, e = Queue(device, WorkStream, <<o>>)
    PROVE  Launching(device, e, WorkStream, o)
<1>1. Working(device) /\ plan \in Plans /\ refused \subseteq 1 .. call - 1
    BY AtWork
<1>2. e = Cuda!Launch(device, WorkStream, Op(o))
    BY Queue1
<1>3. Op(o) \notin Cuda!Queued(device) /\ OpRank[o] <= Rank[step]
    BY NotYet
<1> QED BY <1>1, <1>2, <1>3, WorkWorks

\* UploadDescs.
LEMMA DescsStep ==
    ASSUME OrderInv, UploadDescs
    PROVE  OrderInv' /\ Launching(device, device', WorkStream, "CopyDescs")
<1>1. step = "descs" /\ waiting = {} /\ call \in Calls /\ Goto("block") /\ SameFlags
    BY DEF UploadDescs, At
<1>2. Req \in Request /\ step \in Route(Req) /\ (Req.source = "host" => Req.stream = "null")
    BY <1>1, AtWork
<1>3. Req.job = "decompress" /\ Req.source \in {"host", "device"}
    BY <1>1, <1>2, StepOf
<1>4. "block" \in Route(Req)
    BY <1>3 DEF Route, If
<1>5. Steps /\ step' = "block"
    BY <1>1, <1>4, Going, StepRanks DEF GatherStays, GatherSteps
<1>6. /\ "CopyDescs" \in DecodeOps \ Uploads /\ OpRank["CopyDescs"] = Rank[step]
      /\ step \notin BackSteps /\ step \notin GatherSteps
    BY <1>1, StepRanks, OpRanks DEF DecodeOps, Uploads, BackSteps, GatherSteps
<1>7. CASE Req.source = "device"
    <2>1. device' = Queue(device, WorkStream, <<"CopyDescs">>) /\ waiting' = {}
        BY <1>7 DEF UploadDescs, Returns
    <2>2. step \notin Opening(Req) /\ "block" \notin QuietSteps(Req)
        BY <1>1, <1>7 DEF Opening, QuietSteps, If
    <2>3. Launching(device, device', WorkStream, "CopyDescs")
        BY <1>1, <1>3, <1>6, <2>1, <2>2, WorkOn
    <2> QED BY <1>5, <1>6, <2>1, <2>2, <2>3, QueuedByLaunch, Continues
<1>8. CASE Req.source = "host"
    <2>1. device' = Queue(device, "null", <<"CopyDescs">>) /\ waiting' = {Op("CopyDescs")}
        BY <1>8 DEF UploadDescs, Blocks
    <2> QED BY <1>1, <1>2, <1>3, <1>5, <1>6, <1>8, <2>1, NullWait DEF WorkStream
<1> QED BY <1>3, <1>7, <1>8

\* PrefixSumAndUploadBlock.
LEMMA BlockStep ==
    ASSUME OrderInv, PrefixSumAndUploadBlock
    PROVE  /\ OrderInv'
           /\ \E d : Launching(device, d, WorkStream, "PrefixSum") /\ Launching(d, device', WorkStream, "CopyBlock")
<1> DEFINE there == IF Req.entropy THEN "stage" ELSE "barrier"
<1>1. step = "block" /\ waiting = {} /\ call \in Calls /\ Goto(there) /\ SameFlags
    BY DEF PrefixSumAndUploadBlock, At
<1>2. /\ Req \in Request /\ step \in Route(Req) /\ (Req.source = "host" => Req.stream = "null")
      /\ Working(device) /\ plan \in Plans /\ refused \subseteq 1 .. call - 1
    BY <1>1, AtWork
<1>3. Req.job = "decompress" /\ Req.source \in {"host", "device"}
    BY <1>1, <1>2, StepOf
<1>4. there \in Route(Req) /\ Rank[step] < Rank[there] /\ there \notin QuietSteps(Req) /\ there \notin Opening(Req)
    BY <1>1, <1>3, StepRanks DEF Route, QuietSteps, Opening, If
<1>5. Steps /\ step' = there
    <2> HIDE DEF there
    <2> QED BY <1>1, <1>4, Going DEF GatherStays, GatherSteps
<1>6. /\ \A o \in {"PrefixSum", "CopyBlock"} : o \in DecodeOps /\ o \notin Uploads /\ OpRank[o] = Rank[step]
      /\ step \notin BackSteps /\ step \notin Opening(Req) /\ step \notin GatherSteps
    BY <1>1, <1>3, StepRanks, OpRanks DEF DecodeOps, Uploads, BackSteps, GatherSteps, Opening, If
<1>7. \A o \in {"PrefixSum", "CopyBlock"} : Op(o) \notin Cuda!Queued(device) /\ OpRank[o] <= Rank[step]
    BY <1>1, <1>3, <1>6, NotYet
<1>8. PICK d : d = Cuda!Launch(device, WorkStream, Op("PrefixSum"))
    OBVIOUS
<1>9. device' = Cuda!Launch(d, WorkStream, Op("CopyBlock"))
    BY <1>2, <1>3, <1>8, Queue1 DEF PrefixSumAndUploadBlock, WorkStream
<1>10. Launching(device, d, WorkStream, "PrefixSum")
    BY <1>1, <1>2, <1>3, <1>6, <1>7, <1>8, WorkWorks
<1>11. Working(d) /\ Op("CopyBlock") \notin Cuda!Queued(d)
    BY <1>7, <1>10, QueuedByLaunch
<1>12. Launching(d, device', WorkStream, "CopyBlock")
    BY <1>1, <1>2, <1>3, <1>6, <1>7, <1>9, <1>11, WorkWorks
<1>13. Working(device') /\ (IsSync(Req) => \A t \in Blocking : device'.front[t] \subseteq device'.front["null"])
    BY <1>12, QueuedByLaunch, NullFronts DEF WorkStream, IsSync
<1>14. OrderInv'
    <2>1. CASE Req.source = "device"
        <3>1. waiting' = {}
            BY <2>1 DEF PrefixSumAndUploadBlock, Returns
        <3> HIDE DEF there
        <3> QED BY <1>4, <1>5, <1>6, <1>13, <3>1, Continues
    <2>2. CASE Req.source = "host"
        <3>1. waiting' = {Op("CopyBlock")} /\ Launching(d, device', "null", "CopyBlock")
            BY <1>2, <1>12, <2>2 DEF PrefixSumAndUploadBlock, Blocks, WorkStream
        <3> HIDE DEF there
        <3> QED BY <1>3, <1>5, <1>6, <3>1, Waits
    <2> QED BY <1>3, <2>1, <2>2
<1> QED BY <1>10, <1>12, <1>14

\* StageScan, the null stream's memset and count before the scan.
LEMMA StageStep ==
    ASSUME OrderInv, StageScan
    PROVE  /\ OrderInv'
           /\ \E d : Launching(device, d, "null", "ZeroStaged") /\ Launching(d, device', "null", "CopyCount")
<1>1. step = "stage" /\ waiting = {} /\ call \in Calls /\ Goto("scan") /\ SameFlags
    BY DEF StageScan, At
<1>2. Req \in Request /\ step \in Route(Req) /\ Working(device) /\ plan \in Plans
    BY <1>1, AtWork
<1>3. Req.job = "decompress" /\ Req.entropy
    BY <1>1, <1>2, StepOf
<1>4. "scan" \in Route(Req)
    BY <1>3 DEF Route, If
<1>5. Steps /\ step' = "scan"
    BY <1>1, <1>4, Going, StepRanks DEF GatherStays, GatherSteps
<1>6. /\ \A o \in {"ZeroStaged", "CopyCount"} : o \in DecodeOps /\ o \notin Uploads /\ OpRank[o] = Rank[step]
      /\ step \notin BackSteps
    BY <1>1, StepRanks, OpRanks DEF DecodeOps, Uploads, BackSteps
<1>7. \A o \in {"ZeroStaged", "CopyCount"} : Op(o) \notin Cuda!Queued(device) /\ OpRank[o] <= Rank[step]
    BY <1>1, <1>3, <1>6, NotYet
<1>8. PICK d : d = Cuda!Launch(device, "null", Op("ZeroStaged"))
    OBVIOUS
<1>9. device' = Cuda!Launch(d, "null", Op("CopyCount")) /\ waiting' = {Op("CopyCount")}
    BY <1>8, Queue2 DEF StageScan, Blocks
<1>10. Launching(device, d, "null", "ZeroStaged")
    BY <1>1, <1>2, <1>3, <1>6, <1>7, <1>8, NullWorksDecode
<1>11. Working(d) /\ Op("CopyCount") \notin Cuda!Queued(d)
    BY <1>7, <1>10, QueuedByLaunch
<1>12. Launching(d, device', "null", "CopyCount")
    BY <1>1, <1>2, <1>3, <1>6, <1>7, <1>9, <1>11, NullWorksDecode
<1>13. OrderInv'
    BY <1>3, <1>5, <1>6, <1>9, <1>12, Waits
<1> QED BY <1>10, <1>12, <1>13

\* ScanChunks, whose memset is on the null stream between two kernels of the caller's.
LEMMA ScanStep ==
    ASSUME OrderInv, ScanChunks
    PROVE  /\ OrderInv'
           /\ \E d, e : /\ Launching(device, d, WorkStream, "ScanParse") /\ Launching(d, e, "null", "ZeroCounts")
                        /\ Launching(e, device', WorkStream, "Compact")
<1>1. step = "scan" /\ waiting = {} /\ call \in Calls /\ Goto("gather") /\ SameFlags /\ waiting' = {}
    BY DEF ScanChunks, At, Returns
<1>2. Req \in Request /\ step \in Route(Req) /\ Working(device) /\ plan \in Plans /\ refused \subseteq 1 .. call - 1
    BY <1>1, AtWork
<1>3. Req.job = "decompress" /\ Req.entropy
    BY <1>1, <1>2, StepOf
<1>4. "gather" \in Route(Req)
    BY <1>3 DEF Route, If
<1>5. Steps /\ step' = "gather"
    BY <1>1, <1>4, Going, StepRanks DEF GatherStays, GatherSteps
<1> DEFINE Names == {"ScanParse", "ZeroCounts", "Compact"}
<1>6. /\ \A o \in Names : o \in DecodeOps /\ o \notin Uploads /\ OpRank[o] = Rank[step]
      /\ step \notin BackSteps /\ step \notin Opening(Req) /\ step \notin GatherSteps /\ step # "gather"
    BY <1>1, <1>3, StepRanks, OpRanks DEF DecodeOps, Uploads, BackSteps, GatherSteps, Opening, If
<1>7. \A o \in Names : Op(o) \notin Cuda!Queued(device) /\ OpRank[o] <= Rank[step]
    BY <1>1, <1>3, <1>6, NotYet
<1>8. PICK d : d = Cuda!Launch(device, WorkStream, Op("ScanParse"))
    OBVIOUS
<1>9. PICK e : e = Cuda!Launch(d, "null", Op("ZeroCounts"))
    OBVIOUS
<1>10. device' = Cuda!Launch(e, WorkStream, Op("Compact"))
    BY <1>8, <1>9, Queue1 DEF ScanChunks, ScanAndCompact
<1>11. Launching(device, d, WorkStream, "ScanParse")
    BY <1>1, <1>2, <1>3, <1>6, <1>7, <1>8, WorkWorks
<1>12. Working(d) /\ Op("ZeroCounts") \notin Cuda!Queued(d) /\ Op("Compact") \notin Cuda!Queued(d)
    BY <1>7, <1>11, QueuedByLaunch
<1>13. Launching(d, e, "null", "ZeroCounts")
    BY <1>1, <1>2, <1>3, <1>6, <1>7, <1>9, <1>12, NullWorksDecode
<1>14. Working(e) /\ Op("Compact") \notin Cuda!Queued(e)
    BY <1>12, <1>13, QueuedByLaunch
<1>15. Launching(e, device', WorkStream, "Compact")
    BY <1>1, <1>2, <1>3, <1>6, <1>7, <1>10, <1>14, WorkWorks
<1>16. OrderInv'
    <2>1. "gather" \notin QuietSteps(Req)
        BY DEF QuietSteps, If
    <2> QED BY <1>1, <1>5, <1>6, <1>15, <2>1, QueuedByLaunch, Continues
<1> QED BY <1>11, <1>13, <1>15, <1>16

\* MergeHuffDescs, while a gather may be on its own stream.
LEMMA MergeStep ==
    ASSUME OrderInv, MergeHuffDescs
    PROVE  OrderInv' /\ Launching(device, device', WorkStream, "Merge")
<1>1. step = "merge" /\ waiting = {} /\ call \in Calls /\ Goto("barrier") /\ SameFlags /\ waiting' = {}
      /\ device' = Queue(device, WorkStream, <<"Merge">>)
    BY DEF MergeHuffDescs, At, Returns
<1>2. Req \in Request /\ step \in Route(Req)
    BY <1>1, AtWork
<1>3. Req.job = "decompress" /\ Req.entropy
    BY <1>1, <1>2, StepOf
<1>4. "barrier" \in Route(Req) /\ "barrier" \notin QuietSteps(Req)
    BY <1>3 DEF Route, QuietSteps, If
<1>5. Steps /\ step' = "barrier"
    BY <1>1, <1>4, Going, StepRanks DEF GatherStays, GatherSteps, SameFlags, Goto
<1>6. /\ "Merge" \in DecodeOps \ Uploads /\ OpRank["Merge"] = Rank[step]
      /\ step \notin BackSteps /\ step \notin Opening(Req) /\ step # "gather"
    BY <1>1, <1>3, StepRanks, OpRanks DEF DecodeOps, Uploads, BackSteps, Opening, If
<1>7. Launching(device, device', WorkStream, "Merge")
    BY <1>1, <1>3, <1>6, WorkOn
<1>8. Working(device') /\ (IsSync(Req) => \A t \in Blocking : device'.front[t] \subseteq device'.front["null"])
    BY <1>7, QueuedByLaunch, NullFronts DEF WorkStream, IsSync
<1>9. OrderInv'
    BY <1>1, <1>4, <1>5, <1>6, <1>8, Continues
<1> QED BY <1>7, <1>9

\* The stream given is the null stream or the caller's.
LEMMA DecodeStream ==
    ASSUME plan \in Plans, call \in Calls, Req.job = "decompress"
    PROVE  Req.stream \in {"null", "caller"}
<1>1. call \in DOMAIN plan
    BY PlansAssumption DEF Calls
<1> QED BY ZenonT(60), <1>1, Requests, CallersAssumption DEF Req, Request

\* CrossStreamBarrier queues nothing: the host drains the null stream.
LEMMA BarrierStep ==
    ASSUME OrderInv, CrossStreamBarrier
    PROVE  OrderInv' /\ device' = device
<1>1. step = "barrier" /\ waiting = {} /\ call \in Calls /\ Goto("groups") /\ SameFlags /\ device' = device
    BY DEF CrossStreamBarrier, At
<1>2. Req \in Request /\ step \in Route(Req) /\ Working(device) /\ plan \in Plans
    BY <1>1, AtWork
<1>3. Req.job = "decompress"
    BY <1>1, <1>2, StepOf
<1>4. "groups" \in Route(Req) /\ step \notin Opening(Req) /\ step \notin BackSteps
    BY <1>1, <1>3 DEF Route, Opening, BackSteps, If
<1>5. Steps /\ step' = "groups"
    BY <1>1, <1>4, Going, StepRanks DEF GatherStays, GatherSteps, SameFlags, Goto
<1>6. CASE IsSync(Req)
    <2>1. waiting' = device.front["null"]
        BY <1>6 DEF CrossStreamBarrier, DrainsFrontHalf, HeavyStream, WorkStream, IsSync
    <2>2. Shape(device) /\ Legacy(device) \subseteq Ahead(device, "null")
        <3>1. Shape(device) /\ WellQueued(device)
            BY <1>2 DEF Working, Sound, Shape
        <3>2. \A t \in Blocking : device.front[t] \subseteq device.front["null"]
            BY <1>1, <1>6 DEF OrderInv, BarrierOnNull
        <3>3. device.front["null"] \subseteq Upto(device, device.front["null"])
            BY <3>1, UptoClosed DEF Shape, Streams
        <3>4. \A t \in Blocking : Ahead(device, t) \subseteq Ahead(device, "null")
            BY <3>1, <3>2, <3>3, UptoWithin DEF Ahead
        <3> QED BY <3>1, <3>4 DEF Legacy, Blocking
    <2>3. ASSUME NEW id \in Cuda!Queued(device) \ Upto(device, waiting') PROVE IsFree(id) /\ Own(id)
        <3>1. id \notin Legacy(device) /\ id \in Cuda!Queued(device)
            BY <2>1, <2>2, <2>3 DEF Ahead
        <3> QED BY <1>2, <1>3, <1>4, <3>1 DEF Working, BehindNull, InBackHalf, Own
    <2>4. waiting' \subseteq Cuda!Queued(device)
        BY <2>1, <2>2 DEF Shape, Streams
    <2>5. step # "gather" /\ step' # "barrier" /\ FlagsTyped' /\ SameCall /\ step' \in Route(Req) /\ Rank[step] < Rank[step']
        BY <1>1, <1>5 DEF Steps
    <2>6. \A id \in Cuda!Queued(device') :
              GatherPends(device', id) => \/ id \in Ahead(device', "caller")
                                          \/ step' \in GatherSteps /\ gatherPending'
        BY <1>5, GatherStaysPending DEF Steps
    <2> QED BY <1>1, <1>2, <2>3, <2>4, <2>5, <2>6, Advance DEF FlagsTyped
<1>7. CASE ~IsSync(Req)
    <2>1. Req.stream = "caller"
        BY <1>1, <1>2, <1>3, <1>7, DecodeStream DEF IsSync
    <2>2. waiting' = {}
        BY <2>1 DEF CrossStreamBarrier, DrainsFrontHalf, HeavyStream, WorkStream
    <2>3. "groups" \notin QuietSteps(Req)
        BY <1>7 DEF QuietSteps, If
    <2> QED BY <1>1, <1>2, <1>4, <1>5, <2>2, <2>3, Continues
<1> QED BY <1>1, <1>6, <1>7

\* StageGroupCount, a blocking copy that only the host path makes.
LEMMA GroupsStep ==
    ASSUME OrderInv, StageGroupCount
    PROVE  /\ OrderInv'
           /\ Req.source = "device" => device' = device
           /\ Req.source = "host" => Launching(device, device', "null", "CopyGroups")
<1> DEFINE there == IF Req.entropy THEN "huff" ELSE "lz"
<1>1. step = "groups" /\ waiting = {} /\ call \in Calls /\ Goto(there) /\ SameFlags
    BY DEF StageGroupCount, At
<1>2. /\ Req \in Request /\ step \in Route(Req) /\ Working(device) /\ plan \in Plans
      /\ step \in QuietSteps(Req) => \A id \in Cuda!Queued(device) : Aside(device, id)
    BY <1>1, AtWork
<1>3. Req.job = "decompress" /\ Req.source \in {"host", "device"}
    BY <1>1, <1>2, StepOf
<1>4. /\ there \in Route(Req) /\ Rank[step] < Rank[there] /\ there \notin Opening(Req) /\ there \in GatherSteps
      /\ there \in QuietSteps(Req) => step \in QuietSteps(Req)
      /\ step \notin BackSteps /\ step \notin Opening(Req) /\ there # "barrier"
    BY <1>1, <1>3, StepRanks DEF Route, QuietSteps, Opening, GatherSteps, BackSteps, If
<1>5. Steps /\ step' = there
    <2> HIDE DEF there
    <2> QED BY <1>1, <1>4, Going DEF GatherStays, SameFlags, Goto
<1>6. CASE Req.source = "device"
    <2>1. device' = device /\ waiting' = {}
        BY <1>6 DEF StageGroupCount, Returns
    <2>2. step \in QuietSteps(Req) => \A id \in Cuda!Queued(device) : IsFree(id)
        BY <1>1, <1>2, <1>4 DEF Aside, InBackHalf
    <2> HIDE DEF there
    <2> QED BY <1>2, <1>4, <1>5, <1>6, <2>1, <2>2, Continues
<1>7. CASE Req.source = "host"
    <2>1. device' = Queue(device, "null", <<"CopyGroups">>) /\ waiting' = {Op("CopyGroups")}
        BY <1>7 DEF StageGroupCount, Blocks
    <2>2. "CopyGroups" \in DecodeOps \ Uploads /\ OpRank["CopyGroups"] = Rank[step] /\ step \notin BackSteps
        BY <1>1, StepRanks, OpRanks DEF DecodeOps, Uploads, BackSteps
    <2> QED BY <1>1, <1>3, <1>5, <1>7, <2>1, <2>2, NullWait
<1> QED BY <1>3, <1>6, <1>7

-----------------------------------------------------------------------------
(* The back half of a synchronous decompression, on the library's streams *)

OnStream(d, s) == \A id \in Cuda!Queued(d) : IsFree(id) \/ id \in Ahead(d, s)

\* The back half's work on one of the library's own streams of a drained context.
LEMMA LibraryWorks ==
    ASSUME plan \in Plans, NEW d, NEW s \in {"pipeline", "gather"}, NEW o \in OffStream, NEW e,
           Working(d), call \in Calls, Req.job = "decompress", IsSync(Req), step \in BackSteps,
           OpRank[o] <= Rank[step], Op(o) \notin Cuda!Queued(d), OnStream(d, s),
           e = Cuda!Launch(d, s, Op(o))
    PROVE  Launching(d, e, s, o) /\ OnStream(e, s)
<1>1. o \in DecodeOps /\ o \in Ops(Req) /\ o \notin Uploads
    BY DEF Ops, DecodeOps, OffStream, Uploads
<1>2. Covered(d, s, Op(o))
    <2>1. SUFFICES ASSUME NEW i \in Cuda!Queued(d), Conflict(i, Op(o)) PROVE i \in Cover(d, s)
        BY DEF Covered
    <2>2. ~IsFree(i)
        BY <1>1, <2>1, FreeApartDecode DEF Working, Sound, Known
    <2> QED BY <2>1, <2>2 DEF OnStream, Cover
<1>3. Safe(d, s, o)
    BY <1>1, <1>2 DEF Safe, Working, Sound, Streams, IsSync, IsAsync, Req
<1>4. Fits(s, o)
    BY DEF Fits
<1>5. Launching(d, e, s, o)
    BY <1>3, <1>4, LaunchWorks
<1>6. Cuda!Queued(e) = Cuda!Queued(d) \cup {Op(o)} /\ Ahead(d, s) \subseteq Ahead(e, s) /\ Op(o) \in Ahead(e, s)
    BY <1>5 DEF Launching, AfterLaunch, Grown, Streams
<1> QED BY <1>5, <1>6 DEF OnStream

\* An event recorded, a stream made to wait: what is known stays known.
LEMMA RecordWorks ==
    ASSUME NEW d, NEW e, Working(d), NEW s \in Streams, NEW v \in Events,
           v # "gather_done" \/ step \notin GatherSteps, e = Cuda!Record(d, v, s)
    PROVE  /\ Working(e) /\ Cuda!Queued(e) = Cuda!Queued(d)
           /\ \A t \in Streams : Ahead(e, t) = Ahead(d, t) /\ Cover(e, t) = Cover(d, t)
<1>1. /\ Shape(e) /\ e.after = d.after /\ e.front = d.front /\ e.running = d.running
      /\ \A u \in Events : u # v => e.event[u] = d.event[u]
    BY Recorded DEF Working, Sound
<1>2. Cuda!Queued(e) = Cuda!Queued(d) /\ \A X : Upto(e, X) = Upto(d, X)
    BY <1>1, SameOrder
<1>3. \A t : Ahead(e, t) = Ahead(d, t)
    BY <1>1, <1>2 DEF Ahead
<1>4. Legacy(e) = Legacy(d) /\ \A t : Cover(e, t) = Cover(d, t)
    BY <1>3 DEF Legacy, Cover
<1>5. Ordered(e) /\ UploadsFirst(e)
    BY <1>2, <1>3 DEF Working, Sound, Ordered, UploadsFirst
<1>6. ASSUME NEW id \in Cuda!Queued(d)
      PROVE  /\ BehindFree(e, id) /\ BehindNull(e, id) /\ BehindCaller(e, id)
    <2>1. BehindFree(d, id) /\ BehindNull(d, id) /\ BehindCaller(d, id)
        BY DEF Working, Sound
    <2>2. BehindFree(e, id) /\ BehindNull(e, id)
        BY <1>3, <1>4, <2>1 DEF BehindFree, BehindNull, InBackHalf
    <2>3. GatherPends(d, id) => GatherPends(e, id)
        BY <1>1, <1>2 DEF GatherPends, Events
    <2> QED BY <1>3, <2>1, <2>2, <2>3 DEF BehindCaller
<1>7. Working(e)
    BY <1>1, <1>2, <1>5, <1>6 DEF Working, Sound
<1> QED BY <1>2, <1>3, <1>4, <1>7

\* A stream that waits for an event is only behind more.
LEMMA WaitWorks ==
    ASSUME NEW d, NEW e, Working(d), NEW s \in Streams, NEW v \in Events, e = Cuda!WaitEvent(d, s, v)
    PROVE  /\ Working(e) /\ Cuda!Queued(e) = Cuda!Queued(d)
           /\ \A t \in Streams : Ahead(d, t) \subseteq Ahead(e, t)
           /\ Upto(d, d.event[v]) \subseteq Ahead(e, s)
<1>1. /\ Shape(e) /\ e.after = d.after /\ e.event = d.event /\ e.running = d.running
      /\ Ahead(e, s) = Ahead(d, s) \cup Upto(d, d.event[v])
      /\ \A t \in Streams : t # s => e.front[t] = d.front[t]
    BY Awaited DEF Working, Sound
<1>2. Cuda!Queued(e) = Cuda!Queued(d) /\ \A X : Upto(e, X) = Upto(d, X)
    BY <1>1, SameOrder
<1>3. \A t \in Streams : Ahead(d, t) \subseteq Ahead(e, t)
    BY <1>1, <1>2 DEF Ahead
<1>4. Legacy(d) \subseteq Legacy(e)
    BY <1>3 DEF Legacy, Streams
<1>5. Ordered(e) /\ UploadsFirst(e)
    BY <1>2, <1>3 DEF Working, Sound, Ordered, UploadsFirst, Streams
<1>6. ASSUME NEW id \in Cuda!Queued(d)
      PROVE  /\ BehindFree(e, id) /\ BehindNull(e, id) /\ BehindCaller(e, id)
    <2>1. BehindFree(d, id) /\ BehindNull(d, id) /\ BehindCaller(d, id)
        BY DEF Working, Sound
    <2>2. BehindFree(e, id) /\ BehindNull(e, id)
        BY <1>3, <1>4, <2>1 DEF BehindFree, BehindNull, InBackHalf, Streams
    <2>3. GatherPends(d, id) => GatherPends(e, id)
        BY <1>1, <1>2 DEF GatherPends
    <2> QED BY <1>3, <2>1, <2>2, <2>3 DEF BehindCaller, Streams
<1>7. Working(e)
    BY <1>1, <1>2, <1>5, <1>6 DEF Working, Sound
<1> QED BY <1>1, <1>2, <1>3, <1>7

\* Once the front half has drained, the pipeline stream is behind what is left.
LEMMA QuietBack ==
    ASSUME OrderInv, call \in Calls, waiting = {}, Req.job = "decompress", IsSync(Req), step \in BackSteps
    PROVE  OnStream(device, "pipeline")
<1>1. step \in QuietSteps(Req) /\ step # "return"
    BY DEF QuietSteps, BackSteps, If
<1>2. \A id \in Cuda!Queued(device) : IsFree(id) \/ InBackHalf(device, id)
    BY <1>1, AtWork DEF Aside
<1> QED BY <1>2 DEF OnStream, InBackHalf

\* In a synchronous back half all that is queued is on the pipeline stream.
LEMMA InTheBackHalf ==
    ASSUME Working(device'), OnStream(device', "pipeline"), Req.job = "decompress", IsSync(Req),
           step \in BackSteps, NEW id \in Cuda!Queued(device')
    PROVE  IsFree(id) \/ InBackHalf(device', id)
<1>1. step \notin Opening(Req)
    BY DEF Opening, BackSteps, If
<1> QED BY <1>1 DEF OnStream, InBackHalf, Working, Own

\* The heavy stream takes one more operation of the back half.
LEMMA HeavyWorks ==
    ASSUME plan \in Plans, NEW d, NEW o \in {"HuffBuild", "HuffDecode", "Lz"}, NEW e, Working(d), call \in Calls,
           refused \subseteq 1 .. call - 1, Req.job = "decompress", step \in {"huff", "lz"},
           OpRank[o] <= Rank[step], Op(o) \notin Cuda!Queued(d),
           IsSync(Req) => OnStream(d, "pipeline"),
           \/ o # "Lz" \/ \A i \in Cuda!Queued(d) : GatherPends(d, i) => i \in Ahead(d, HeavyStream),
           e = Cuda!Launch(d, HeavyStream, Op(o))
    PROVE  Launching(d, e, HeavyStream, o) /\ (IsSync(Req) => OnStream(e, "pipeline"))
<1>1. o \in OffStream /\ o \in DecodeOps /\ o \in Ops(Req) /\ o \notin Uploads /\ step \in BackSteps
      /\ step \notin Opening(Req) /\ step # "gather"
    BY DEF OffStream, DecodeOps, Uploads, Ops, BackSteps, Opening, If
<1>2. CASE IsSync(Req)
    <2>1. HeavyStream = "pipeline"
        BY <1>2 DEF HeavyStream, IsSync
    <2> QED BY <1>1, <1>2, <2>1, LibraryWorks
<1>3. CASE ~IsSync(Req)
    <2>1. Req.stream = "caller" /\ HeavyStream = "caller"
        BY <1>3, DecodeStream DEF HeavyStream, IsSync
    <2>2. \/ o \in {"Merge", "HuffBuild", "HuffDecode"}
          \/ \A i \in Cuda!Queued(d) : GatherPends(d, i) => i \in Ahead(d, "caller")
        BY <2>1
    <2>3. Launching(d, e, "caller", o)
        BY <1>1, <2>1, <2>2, CallerWorks
    <2> QED BY <1>3, <2>1, <2>3
<1> QED BY <1>2, <1>3

\* HuffBuildAndDecode.
LEMMA HuffStep ==
    ASSUME OrderInv, HuffBuildAndDecode
    PROVE  /\ OrderInv'
           /\ \E d : Launching(device, d, HeavyStream, "HuffBuild") /\ Launching(d, device', HeavyStream, "HuffDecode")
<1>1. step = "huff" /\ waiting = {} /\ call \in Calls /\ Goto("lz") /\ SameFlags /\ waiting' = {}
    BY DEF HuffBuildAndDecode, At, Returns
<1>2. Req \in Request /\ step \in Route(Req) /\ Working(device) /\ plan \in Plans /\ refused \subseteq 1 .. call - 1
    BY <1>1, AtWork
<1>3. Req.job = "decompress"
    BY <1>1, <1>2, StepOf
<1>4. "lz" \in Route(Req) /\ step \in BackSteps
    BY <1>1, <1>3 DEF Route, BackSteps, If
<1>5. Steps /\ step' = "lz"
    BY <1>1, <1>4, Going, StepRanks DEF GatherStays, GatherSteps, SameFlags, Goto
<1>6. \A o \in {"HuffBuild", "HuffDecode"} : o \in DecodeOps /\ OpRank[o] = Rank[step]
    BY <1>1, StepRanks, OpRanks DEF DecodeOps
<1>7. \A o \in {"HuffBuild", "HuffDecode"} : Op(o) \notin Cuda!Queued(device) /\ OpRank[o] <= Rank[step]
    BY <1>1, <1>3, <1>6, NotYet
<1>8. PICK d : d = Cuda!Launch(device, HeavyStream, Op("HuffBuild"))
    OBVIOUS
<1>9. device' = Cuda!Launch(d, HeavyStream, Op("HuffDecode"))
    BY <1>8, Queue2 DEF HuffBuildAndDecode
<1>10. IsSync(Req) => OnStream(device, "pipeline")
    BY <1>1, <1>3, <1>4, QuietBack
<1>11. Launching(device, d, HeavyStream, "HuffBuild") /\ (IsSync(Req) => OnStream(d, "pipeline"))
    BY <1>1, <1>2, <1>3, <1>7, <1>8, <1>10, HeavyWorks
<1>12. Working(d) /\ Op("HuffDecode") \notin Cuda!Queued(d)
    BY <1>7, <1>11, QueuedByLaunch
<1>13. Launching(d, device', HeavyStream, "HuffDecode") /\ (IsSync(Req) => OnStream(device', "pipeline"))
    BY <1>1, <1>2, <1>3, <1>7, <1>9, <1>11, <1>12, HeavyWorks
<1>14. OrderInv'
    <2>1. Working(device')
        BY <1>13, QueuedByLaunch
    <2>2. "lz" \in QuietSteps(Req) => \A id \in Cuda!Queued(device') : IsFree(id) \/ InBackHalf(device', id)
        <3>1. "lz" \in QuietSteps(Req) => IsSync(Req)
            BY <1>3 DEF QuietSteps, If
        <3> QED BY <1>3, <1>4, <1>13, <2>1, <3>1, InTheBackHalf
    <2>3. step \notin Opening(Req) /\ "lz" \in BackSteps
        BY <1>1 DEF Opening, BackSteps, If
    <2> QED BY <1>1, <1>5, <2>1, <2>2, <2>3, Continues
<1> QED BY <1>11, <1>13, <1>14

\* LzPipeline, which waits for a pending gather's event first.
LEMMA LzStep ==
    ASSUME OrderInv, LzPipeline
    PROVE  /\ OrderInv'
           /\ \E d : /\ d = device \/ (gatherPending /\ d = Cuda!WaitEvent(device, HeavyStream, "gather_done"))
                     /\ Launching(d, device', HeavyStream, "Lz")
<1>1. /\ step = "lz" /\ waiting = {} /\ call \in Calls /\ Goto("settle") /\ waiting' = {}
      /\ gatherPending' = FALSE /\ UNCHANGED <<overlap, dictCached>>
    BY DEF LzPipeline, At, Returns
<1>2. Req \in Request /\ step \in Route(Req) /\ Working(device) /\ plan \in Plans /\ refused \subseteq 1 .. call - 1
    BY <1>1, AtWork
<1>3. Req.job = "decompress"
    BY <1>1, <1>2, StepOf
<1>4. "settle" \in Route(Req) /\ step \in BackSteps /\ "settle" \in BackSteps
    BY <1>1, <1>3 DEF Route, BackSteps, If
<1>5. SameCall /\ step' = "settle" /\ FlagsTyped' /\ Rank[step] < Rank[step'] /\ step' \in Route(Req)
    <2>1. SameCall /\ step' = "settle"
        BY <1>1 DEF Goto, host, SameCall
    <2>2. overlap' \in BOOLEAN /\ gatherPending' \in BOOLEAN /\ dictCached' \in Nat
        BY <1>1 DEF OrderInv, HostTyped
    <2> QED BY <1>1, <1>4, <2>1, <2>2, StepRanks DEF FlagsTyped
<1>6. Op("Lz") \notin Cuda!Queued(device) /\ OpRank["Lz"] <= Rank[step]
    BY <1>1, <1>3, NotYet, StepRanks, OpRanks DEF DecodeOps
<1>7. HeavyStream \in Streams
    BY <1>1, <1>2, <1>3, DecodeStream DEF HeavyStream, Streams
<1>8. PICK d : d = JoinGather(device)
    OBVIOUS
<1>9. device' = Cuda!Launch(d, HeavyStream, Op("Lz"))
    BY <1>8, Queue1 DEF LzPipeline
<1>10. /\ Working(d) /\ Cuda!Queued(d) = Cuda!Queued(device)
       /\ \A t \in Streams : Ahead(device, t) \subseteq Ahead(d, t)
       /\ \A i \in Cuda!Queued(d) : GatherPends(d, i) => i \in Ahead(d, HeavyStream)
       /\ d = device \/ (gatherPending /\ d = Cuda!WaitEvent(device, HeavyStream, "gather_done"))
    <2>1. CASE gatherPending
        <3>1. d = Cuda!WaitEvent(device, HeavyStream, "gather_done")
            BY <1>8, <2>1 DEF JoinGather
        <3>2. /\ Working(d) /\ Cuda!Queued(d) = Cuda!Queued(device)
              /\ \A t \in Streams : Ahead(device, t) \subseteq Ahead(d, t)
              /\ Upto(device, device.event["gather_done"]) \subseteq Ahead(d, HeavyStream)
            BY <1>2, <1>7, <3>1, WaitWorks DEF Events
        <3>3. d.after = device.after /\ d.event = device.event
            BY <1>2, <1>7, <3>1, Awaited DEF Events, Working, Sound
        <3>4. Upto(d, d.event["gather_done"]) = Upto(device, device.event["gather_done"])
            BY <3>3, SameOrder
        <3> QED BY <2>1, <3>1, <3>2, <3>4 DEF GatherPends
    <2>2. CASE ~gatherPending
        BY <1>2, <1>8, <2>2 DEF JoinGather, GatherPends
    <2> QED BY <2>1, <2>2
<1>11. IsSync(Req) => OnStream(d, "pipeline")
    BY <1>1, <1>3, <1>4, <1>10, QuietBack DEF OnStream, Streams
<1>12. Launching(d, device', HeavyStream, "Lz") /\ (IsSync(Req) => OnStream(device', "pipeline"))
    BY <1>1, <1>2, <1>3, <1>6, <1>9, <1>10, <1>11, HeavyWorks
<1>13. OrderInv'
    <2>1. Working(device') /\ Cuda!Queued(device') = Cuda!Queued(d) \cup {Op("Lz")}
        BY <1>12, QueuedByLaunch
    <2>2. step \notin Opening(Req) /\ step # "gather" /\ step' # "barrier"
        BY <1>1, <1>5 DEF Opening, If
    <2>3. ASSUME NEW id \in Cuda!Queued(device'), GatherPends(device', id)
          PROVE  id \in Ahead(device', "caller") \/ IsSync(Req)
        <3>1. CASE IsSync(Req)
            BY <3>1
        <3>2. CASE ~IsSync(Req)
            <4>1. HeavyStream = "caller"
                BY <1>1, <1>2, <1>3, <3>2, DecodeStream DEF HeavyStream, IsSync
            <4>2. device'.event["gather_done"] = d.event["gather_done"] /\ d.event["gather_done"] \in SUBSET Cuda!Queued(d)
                  /\ \A X \in SUBSET Cuda!Queued(d) : Upto(device', X) = Upto(d, X)
                BY <1>10, <1>12 DEF Launching, AfterLaunch, Working, Sound, Shape, Events
            <4>3. GatherPends(d, id) /\ id \in Cuda!Queued(d)
                BY <2>3, <4>2, UptoQueued DEF GatherPends
            <4>4. Ahead(d, "caller") \subseteq Ahead(device', "caller")
                BY <1>12 DEF Launching, Grown, Streams
            <4> QED BY <1>10, <4>1, <4>3, <4>4
        <3> QED BY <3>1, <3>2
    <2>4. "settle" \in QuietSteps(Req) => IsSync(Req)
        BY <1>3 DEF QuietSteps, If
    <2>5. IsSync(Req) => \A id \in Cuda!Queued(device') : IsFree(id) \/ InBackHalf(device', id)
        BY <1>3, <1>4, <1>12, <2>1, InTheBackHalf
    <2>6. \A id \in Cuda!Queued(device') : Own(id)
        BY <2>1, <2>2 DEF Working
    <2>7. overlap' \in BOOLEAN /\ gatherPending' \in BOOLEAN /\ dictCached' \in Nat
        BY <1>5 DEF FlagsTyped
    <2>8. waiting' \subseteq Cuda!Queued(device') /\ Cuda!Queued(device') \ Upto(device', waiting') \subseteq Cuda!Queued(device')
        BY <1>1
    <2>9. ASSUME NEW id \in Cuda!Queued(device') \ Upto(device', waiting')
          PROVE  /\ InBackHalf(device', id) => step' \in BackSteps \/ id \in Legacy(device') \/ IsFree(id)
                 /\ step' \notin Opening(Req) => Own(id)
                 /\ step' \in QuietSteps(Req) =>
                      \/ IsFree(id) \/ (InBackHalf(device', id) /\ step' \in BackSteps)
                      \/ step' = "return" /\ id.call = call /\ id.op = "Download"
        BY <1>4, <1>5, <2>4, <2>5, <2>6
    <2>10. \A id \in Cuda!Queued(device') :
               GatherPends(device', id) => \/ IsSync(Req) \/ id \in Ahead(device', "caller")
                                           \/ step' \in GatherSteps /\ gatherPending'
        BY <2>3
    <2>11. call \in Calls
        BY <1>1
    <2> QED BY <1>5, <2>1, <2>2, <2>7, <2>8, <2>9, <2>10, <2>11, Advance
<1> QED BY <1>10, <1>12, <1>13

\* SettleBackHalf drains the pipeline stream.
LEMMA SettleStep ==
    ASSUME OrderInv, SettleBackHalf
    PROVE  OrderInv' /\ device' = device
<1> DEFINE there == IF Direct THEN "status" ELSE IF Req.merkle = "none" THEN "finalize" ELSE "merkle"
<1>1. step = "settle" /\ waiting = {} /\ call \in Calls /\ Goto(there) /\ SameFlags /\ device' = device
    BY DEF SettleBackHalf, At
<1>2. Req \in Request /\ step \in Route(Req) /\ Working(device) /\ plan \in Plans
    BY <1>1, AtWork
<1>3. Req.job = "decompress" /\ Req.source \in {"host", "device"}
    BY <1>1, <1>2, StepOf
<1>4. /\ there \in Route(Req) /\ Rank[step] < Rank[there] /\ there \notin {"barrier", "return"}
      /\ step \in BackSteps /\ step \notin Opening(Req)
      /\ there \in QuietSteps(Req) => IsSync(Req)
    BY <1>1, <1>3, StepRanks DEF Route, BackSteps, Opening, QuietSteps, Direct, If
<1>5. Steps /\ step' = there /\ FlagsTyped' /\ SameCall
    <2> HIDE DEF there
    <2> QED BY <1>1, <1>4, Going DEF GatherStays, GatherSteps, Steps
<1> HIDE DEF there
<1>6. /\ SameCall /\ step' \in Route(Req) /\ Rank[step] < Rank[step'] /\ step # "gather" /\ step' # "barrier"
      /\ overlap' \in BOOLEAN /\ gatherPending' \in BOOLEAN /\ dictCached' \in Nat
    BY <1>1, <1>4, <1>5 DEF FlagsTyped
<1>7. \A id \in Cuda!Queued(device') : ~GatherPends(device', id)
    BY <1>1 DEF GatherPends, GatherSteps
<1>8. CASE IsSync(Req)
    <2>1. waiting' = device.front["pipeline"]
        BY <1>8 DEF SettleBackHalf, SettlesBackHalf, HeavyStream, WorkStream, IsSync
    <2>2. waiting' \subseteq Cuda!Queued(device)
        BY <1>2, <2>1 DEF Working, Sound, Shape, Streams
    <2>3. OnStream(device, "pipeline")
        BY <1>1, <1>3, <1>4, <1>8, QuietBack
    <2>4. ASSUME NEW id \in Cuda!Queued(device) \ Upto(device, waiting') PROVE IsFree(id) /\ Own(id)
        BY <1>3, <2>1, <2>3 DEF OnStream, Ahead, Own
    <2>5. \A id \in Cuda!Queued(device') \ Upto(device', waiting') : IsFree(id) /\ Own(id)
        BY <1>1, <2>4
    <2> QED BY <1>1, <1>2, <1>6, <1>7, <2>2, <2>5, Advance
<1>9. CASE ~IsSync(Req)
    <2>1. waiting' = {}
        BY <1>9 DEF SettleBackHalf, SettlesBackHalf, WorkStream, IsSync
    <2>2. \A id \in Cuda!Queued(device') \ Upto(device', waiting') : ~InBackHalf(device', id) /\ Own(id)
        BY <1>1, <1>2, <1>4, <1>9 DEF InBackHalf, Working
    <2>3. step' \notin QuietSteps(Req)
        BY <1>4, <1>5, <1>9
    <2> QED BY <1>1, <1>2, <1>6, <1>7, <1>9, <2>1, <2>2, <2>3, Advance
<1> QED BY <1>1, <1>8, <1>9

\* ReadVerdict, a blocking copy.
LEMMA VerdictStep ==
    ASSUME OrderInv, ReadVerdict
    PROVE  OrderInv' /\ Launching(device, device', "null", "ReadVerdict")
<1>1. step = "verdict" /\ waiting = {} /\ call \in Calls /\ Goto("finalize") /\ SameFlags
    BY DEF ReadVerdict, At
<1>2. Req \in Request /\ step \in Route(Req)
    BY <1>1, AtWork
<1>3. Req.job = "decompress" /\ Req.source = "host"
    BY <1>1, <1>2, StepOf
<1>4. "finalize" \in Route(Req)
    BY <1>3 DEF Route, If
<1>5. Steps /\ step' = "finalize"
    BY <1>1, <1>4, Going, StepRanks DEF GatherStays, GatherSteps
<1>6. device' = Queue(device, "null", <<"ReadVerdict">>) /\ waiting' = {Op("ReadVerdict")}
    BY DEF ReadVerdict, Blocks
<1>7. "ReadVerdict" \in DecodeOps \ Uploads /\ OpRank["ReadVerdict"] = Rank[step] /\ step \notin BackSteps
    BY <1>1, StepRanks, OpRanks DEF DecodeOps, Uploads, BackSteps
<1> QED BY <1>1, <1>3, <1>5, <1>6, <1>7, NullWait

\* WalkStatus, which only a synchronous call can read.
LEMMA StatusStep ==
    ASSUME OrderInv, WalkStatus
    PROVE  /\ OrderInv'
           /\ IsSync(Req) => Launching(device, device', "null", "ReadStatus")
           /\ ~IsSync(Req) => device' = device
<1>1. step = "status" /\ waiting = {} /\ call \in Calls /\ Goto("download") /\ SameFlags
    BY DEF WalkStatus, At
<1>2. Req \in Request /\ step \in Route(Req) /\ Working(device)
    BY <1>1, AtWork
<1>3. Req.job = "decompress" /\ Req.source = "device"
    BY <1>1, <1>2, StepOf
<1>4. /\ "download" \in Route(Req) /\ step \notin BackSteps /\ step \notin Opening(Req)
      /\ "download" \in QuietSteps(Req) => IsSync(Req)
    BY <1>1, <1>3 DEF Route, BackSteps, Opening, QuietSteps, If
<1>5. Steps /\ step' = "download"
    BY <1>1, <1>4, Going, StepRanks DEF GatherStays, GatherSteps
<1>6. CASE IsSync(Req)
    <2>1. device' = Queue(device, "null", <<"ReadStatus">>) /\ waiting' = {Op("ReadStatus")}
        BY <1>6 DEF WalkStatus, Blocks, WorkStream, IsSync
    <2>2. "ReadStatus" \in DecodeOps \ Uploads /\ OpRank["ReadStatus"] = Rank[step]
        BY <1>1, StepRanks, OpRanks DEF DecodeOps, Uploads
    <2> QED BY <1>1, <1>3, <1>4, <1>5, <1>6, <2>1, <2>2, NullWait
<1>7. CASE ~IsSync(Req)
    <2>1. device' = device /\ waiting' = {}
        BY <1>7 DEF WalkStatus, Returns, WorkStream, IsSync
    <2> QED BY <1>2, <1>4, <1>5, <1>7, <2>1, Continues
<1> QED BY <1>6, <1>7

\* The front half's work stream is behind all that the next operation conflicts with.
LEMMA WorkCovers ==
    ASSUME plan \in Plans, NEW d, NEW o \in DecodeOps, Working(d), call \in Calls,
           refused \subseteq 1 .. call - 1, Req.job = "decompress",
           step \notin BackSteps, step \notin Opening(Req), Op(o) \notin Cuda!Queued(d),
           step \notin GatherSteps, step # "gather" \/ o = "Gather"
    PROVE  /\ WorkStream \in {"null", "caller"} /\ Covered(d, WorkStream, Op(o))
           /\ \A j \in Cuda!Queued(d) : j.op \in Uploads => j \in Cover(d, WorkStream)
<1>1. Req.stream \in {"null", "caller"} /\ o \in Ops(Req)
    BY DecodeStream DEF Ops
<1>2. CASE Req.stream = "null"
    <2>1. \A i \in Cuda!Queued(d) : IsFree(i) => ~Conflict(i, Op(o))
        BY FreeApartDecode DEF Working, Sound, Known
    <2> QED BY <1>2, <2>1, NullCovers DEF WorkStream
<1>3. CASE Req.stream = "caller"
    BY <1>1, <1>3, CallerCovers DEF WorkStream
<1> QED BY <1>1, <1>2, <1>3

\* The gather on its own stream, after the compaction.
Forked(d) == \E a, b, e : /\ a = Cuda!Record(device, "compact_done", WorkStream)
                          /\ b = Cuda!WaitEvent(a, "gather", "compact_done")
                          /\ e = Cuda!Launch(b, "gather", Op("Gather"))
                          /\ d = Cuda!Record(e, "gather_done", "gather")
                          /\ Launching(b, e, "gather", "Gather")

\* GatherRawOff16 runs the gather on the work stream, or forks it to the gather stream.
LEMMA GatherStep ==
    ASSUME OrderInv, GatherRawOff16
    PROVE  /\ OrderInv'
           /\ Launching(device, device', WorkStream, "Gather") \/ Forked(device')
<1>1. step = "gather" /\ waiting = {} /\ call \in Calls /\ Goto("merge") /\ waiting' = {} /\ dictCached' = dictCached
    BY DEF GatherRawOff16, At, Returns
<1>2. Req \in Request /\ step \in Route(Req) /\ Working(device) /\ plan \in Plans /\ refused \subseteq 1 .. call - 1
    BY <1>1, AtWork
<1>3. Req.job = "decompress" /\ Req.entropy
    BY <1>1, <1>2, StepOf
<1>4. PICK created \in MayBeCreated :
          /\ overlap' = created /\ gatherPending' = created
          /\ device' = IF created
              THEN Cuda!Record(Queue(ForkGather(device), "gather", <<"Gather">>), "gather_done", "gather")
              ELSE Queue(device, WorkStream, <<"Gather">>)
    BY DEF GatherRawOff16, PendingAfter
<1>5. created \in BOOLEAN
    <2>1. AuxCreated[plan] \in {{TRUE}, {FALSE}, BOOLEAN}
        BY <1>2, PlansAssumption
    <2> QED BY <2>1 DEF MayBeCreated
<1>6. /\ SameCall /\ step' = "merge" /\ Rank[step] < Rank[step'] /\ step' \in Route(Req)
      /\ overlap' \in BOOLEAN /\ gatherPending' \in BOOLEAN /\ dictCached' \in Nat
    <2>1. "merge" \in Route(Req)
        BY <1>3 DEF Route, If
    <2>2. SameCall /\ step' = "merge"
        BY <1>1 DEF Goto, host, SameCall
    <2> QED BY <1>1, <1>4, <1>5, <2>1, <2>2, StepRanks DEF OrderInv, HostTyped
<1>7. /\ "Gather" \in DecodeOps /\ "Gather" \notin Uploads /\ OpRank["Gather"] <= Rank[step]
      /\ Op("Gather") \notin Cuda!Queued(device)
      /\ step \notin BackSteps /\ step \notin Opening(Req) /\ step \notin GatherSteps
      /\ step' \notin QuietSteps(Req) /\ step' \in GatherSteps
    <2>1. "Gather" \in DecodeOps /\ "Gather" \notin Uploads /\ OpRank["Gather"] = Rank[step]
        BY <1>1, StepRanks, OpRanks DEF DecodeOps, Uploads
    <2>2. OpRank["Gather"] <= Rank[step] /\ Op("Gather") \notin Cuda!Queued(device)
        BY <1>1, <1>3, <2>1, NotYet
    <2> QED BY <1>1, <1>3, <1>6, <2>1, <2>2 DEF BackSteps, Opening, GatherSteps, QuietSteps, If
<1>8. ASSUME Working(device'),
             \/ IsSync(Req) \/ Op("Gather") \in Ahead(device', "caller")
             \/ created /\ Op("Gather") \in Upto(device', device'.event["gather_done"])
      PROVE  OrderInv'
    <2>1. \A id \in Cuda!Queued(device') : ~GatherPends(device', id)
        BY <1>7 DEF GatherPends
    <2>2. \A id \in Cuda!Queued(device') : ~InBackHalf(device', id) /\ Own(id)
        BY <1>7, <1>8 DEF InBackHalf, Working
    <2>3. waiting' \subseteq Cuda!Queued(device') /\ step' # "barrier" /\ (created => gatherPending')
        BY <1>1, <1>4, <1>6
    <2> QED BY <1>1, <1>6, <1>7, <1>8, <2>1, <2>2, <2>3, Advance
<1>9. CASE ~created
    <2>1. Launching(device, device', WorkStream, "Gather")
        BY <1>1, <1>2, <1>3, <1>4, <1>7, <1>9, Queue1, WorkWorks
    <2>2. Working(device') /\ (Req.stream = "caller" => Op("Gather") \in Ahead(device', "caller"))
        BY <2>1 DEF Launching, Grown, WorkStream
    <2>3. IsSync(Req) \/ Req.stream = "caller"
        BY <1>1, <1>2, <1>3, DecodeStream DEF IsSync
    <2> QED BY <1>8, <2>1, <2>2, <2>3
<1>10. CASE created
    <2>1. /\ WorkStream \in {"null", "caller"} /\ Covered(device, WorkStream, Op("Gather"))
          /\ \A j \in Cuda!Queued(device) : j.op \in Uploads => j \in Cover(device, WorkStream)
        BY <1>1, <1>2, <1>3, <1>7, WorkCovers
    <2>2. PICK a : a = Cuda!Record(device, "compact_done", WorkStream)
        OBVIOUS
    <2>3. PICK b : b = Cuda!WaitEvent(a, "gather", "compact_done")
        OBVIOUS
    <2>4. PICK e : e = Cuda!Launch(b, "gather", Op("Gather"))
        OBVIOUS
    <2>5. device' = Cuda!Record(e, "gather_done", "gather")
        BY <1>4, <1>10, <2>2, <2>3, <2>4, Queue1 DEF ForkGather
    <2>6. WorkStream \in Streams /\ "compact_done" \in Events /\ "gather_done" \in Events /\ "gather" \in Streams
        BY <2>1 DEF Streams, Events
    <2>7. Working(a) /\ Cuda!Queued(a) = Cuda!Queued(device)
        BY <1>2, <1>7, <2>2, <2>6, RecordWorks
    <2>8. Upto(a, a.event["compact_done"]) = Cover(device, WorkStream)
        BY <1>2, <2>2, <2>6, Recorded DEF Working, Sound
    <2>9. Working(b) /\ Cuda!Queued(b) = Cuda!Queued(device) /\ Cover(device, WorkStream) \subseteq Ahead(b, "gather")
        BY <2>3, <2>6, <2>7, <2>8, WaitWorks
    <2>10. Safe(b, "gather", "Gather")
        <3>1. Cover(b, "gather") = Ahead(b, "gather") /\ "Gather" \in Ops(Req) /\ Shape(b)
            BY <1>3, <1>7, <2>9 DEF Cover, Ops, Working, Sound
        <3>2. Covered(b, "gather", Op("Gather"))
            BY <2>1, <2>9, <3>1 DEF Covered
        <3> QED BY <1>7, <2>1, <2>6, <2>9, <3>1, <3>2 DEF Safe
    <2>11. Launching(b, e, "gather", "Gather")
        <3>1. Fits("gather", "Gather")
            BY <1>1 DEF Fits
        <3> QED BY <1>1, <2>4, <2>9, <2>10, <3>1, LaunchWorks
    <2>12. Working(e) /\ Op("Gather") \in Ahead(e, "gather")
        BY <2>11 DEF Launching, Grown
    <2>13. Working(device') /\ Upto(device', device'.event["gather_done"]) = Ahead(e, "gather")
        <3>1. Working(device')
            BY <1>7, <2>5, <2>6, <2>12, RecordWorks
        <3>2. Upto(device', device'.event["gather_done"]) = Cover(e, "gather")
            BY <2>5, <2>6, <2>12, Recorded DEF Working, Sound
        <3> QED BY <3>1, <3>2 DEF Cover
    <2>14. OrderInv'
        BY <1>8, <1>10, <2>12, <2>13
    <2> QED BY <2>2, <2>3, <2>4, <2>5, <2>11, <2>14 DEF Forked
<1> QED BY <1>5, <1>9, <1>10

\* The Merkle chain, on the gather stream or behind the LZ kernel.
Chained(d, e, s) == \E a, b : /\ Launching(d, a, s, "ScPrefix") /\ Launching(a, b, s, "SegHash")
                              /\ Launching(b, e, s, "ChunkCombine")

\* The Merkle chain's kernels one behind the other.
LEMMA ChainWorks ==
    ASSUME plan \in Plans, NEW d, NEW s \in {"pipeline", "gather"}, NEW e, Working(d), call \in Calls,
           Req.job = "decompress", IsSync(Req), step = "merkle", OnStream(d, s),
           \A o \in {"ScPrefix", "SegHash", "ChunkCombine", "Verdict"} : Op(o) \notin Cuda!Queued(d),
           e = Queue(d, s, <<"ScPrefix", "SegHash", "ChunkCombine">>)
    PROVE  /\ Chained(d, e, s) /\ Working(e) /\ OnStream(e, s) /\ Op("Verdict") \notin Cuda!Queued(e)
           /\ Ahead(d, "pipeline") \subseteq Ahead(e, "pipeline")
<1>1. PICK a : a = Cuda!Launch(d, s, Op("ScPrefix"))
    OBVIOUS
<1>2. PICK b : b = Cuda!Launch(a, s, Op("SegHash"))
    OBVIOUS
<1>3. e = Cuda!Launch(b, s, Op("ChunkCombine"))
    BY <1>1, <1>2, Queue3
<1>4. /\ \A o \in {"ScPrefix", "SegHash", "ChunkCombine"} : o \in OffStream /\ OpRank[o] <= Rank[step]
      /\ step \in BackSteps
    BY StepRanks, OpRanks DEF OffStream, BackSteps
<1>5. Launching(d, a, s, "ScPrefix") /\ OnStream(a, s)
    BY <1>1, <1>4, LibraryWorks
<1>6. Working(a) /\ \A o \in {"SegHash", "ChunkCombine", "Verdict"} : Op(o) \notin Cuda!Queued(a)
    BY <1>5, QueuedByLaunch
<1>7. Launching(a, b, s, "SegHash") /\ OnStream(b, s)
    BY <1>2, <1>4, <1>5, <1>6, LibraryWorks
<1>8. Working(b) /\ \A o \in {"ChunkCombine", "Verdict"} : Op(o) \notin Cuda!Queued(b)
    BY <1>6, <1>7, QueuedByLaunch
<1>9. Launching(b, e, s, "ChunkCombine") /\ OnStream(e, s)
    BY <1>3, <1>4, <1>7, <1>8, LibraryWorks
<1>10. Working(e) /\ Op("Verdict") \notin Cuda!Queued(e)
    BY <1>8, <1>9, QueuedByLaunch
<1>11. Ahead(d, "pipeline") \subseteq Ahead(e, "pipeline")
    BY <1>5, <1>7, <1>9 DEF Launching, Grown, Streams
<1> QED BY <1>5, <1>7, <1>9, <1>10, <1>11 DEF Chained

\* The chain is on the gather stream, behind the LZ kernel, or on the heavy stream.
Branched(d, s) == \/ s = "pipeline" /\ d = device
                  \/ /\ s = "gather"
                     /\ \E a : /\ a = Cuda!Record(device, "lz_done", "pipeline")
                               /\ d = Cuda!WaitEvent(a, "gather", "lz_done")

\* MerkleVerify, on the pipeline stream or branched from it.
LEMMA MerkleStep ==
    ASSUME OrderInv, MerkleVerify
    PROVE  /\ OrderInv'
           /\ \E s, d, e : /\ Branched(d, s) /\ Chained(d, e, s)
                           /\ \/ Req.merkle # "verdict" /\ device' = e
                              \/ Req.merkle = "verdict" /\ Launching(e, device', s, "Verdict")
<1>1. step = "merkle" /\ waiting = {} /\ call \in Calls /\ UNCHANGED <<gatherPending, dictCached>>
    BY DEF MerkleVerify, At
<1>2. Req \in Request /\ step \in Route(Req) /\ Working(device) /\ plan \in Plans
      /\ (Req.source = "host" => Req.stream = "null")
    BY <1>1, AtWork
<1>3. Req.job = "decompress" /\ Req.source = "host" /\ Req.merkle # "none"
    BY <1>1, <1>2, StepOf
<1>4. IsSync(Req) /\ HeavyStream = "pipeline" /\ step \in BackSteps /\ step \notin Opening(Req)
    BY <1>1, <1>2, <1>3 DEF IsSync, HeavyStream, BackSteps, Opening, If
<1>5. OnStream(device, "pipeline")
    BY <1>1, <1>3, <1>4, QuietBack
<1>5a. PICK gather \in MayBeCreated, event \in MayHaveEvent :
        LET created == gather /\ event
            s == IF created THEN "gather" ELSE "pipeline"
            d == Queue(ForkMerkle(device, created), s, <<"ScPrefix", "SegHash", "ChunkCombine">>)
        IN /\ overlap' = gather
           /\ IF Req.merkle = "verdict"
                THEN device' = Queue(d, s, <<"Verdict">>) /\ waiting' = device'.front[s] /\ Goto("verdict")
                ELSE device' = d /\ waiting' = {} /\ Goto("finalize")
    BY <1>4 DEF MerkleVerify, Returns
<1>5b. PICK created \in BOOLEAN : created = (gather /\ event)
    OBVIOUS
<1>6. LET s == IF created THEN "gather" ELSE "pipeline"
          d == Queue(ForkMerkle(device, created), s, <<"ScPrefix", "SegHash", "ChunkCombine">>)
      IN /\ overlap' = gather
         /\ IF Req.merkle = "verdict"
              THEN device' = Queue(d, s, <<"Verdict">>) /\ waiting' = device'.front[s] /\ Goto("verdict")
              ELSE device' = d /\ waiting' = {} /\ Goto("finalize")
    BY <1>5a, <1>5b
<1>7. gather \in BOOLEAN /\ created \in BOOLEAN /\ (Req.merkle # "verdict" => created)
    <2>1. AuxCreated[plan] \in {{TRUE}, {FALSE}, BOOLEAN}
        BY <1>2, PlansAssumption
    <2>2. call \in DOMAIN plan
        BY <1>1, <1>2, PlansAssumption DEF Calls
    <2>3. Req.merkle # "verdict" => AuxCreated[plan] = {TRUE}
        BY <1>2, <1>3, <2>2, CallersAssumption DEF Req
    <2> QED BY <1>5a, <1>5b, <2>1, <2>3 DEF MayBeCreated, MayHaveEvent
<1> DEFINE there == IF Req.merkle = "verdict" THEN "verdict" ELSE "finalize"
<1>8. /\ SameCall /\ step' = there /\ Rank[step] < Rank[there] /\ there \in Route(Req)
      /\ overlap' \in BOOLEAN /\ gatherPending' \in BOOLEAN /\ dictCached' \in Nat
      /\ Req.merkle # "verdict" => there \notin QuietSteps(Req)
    <2>1. there \in Route(Req) /\ Rank[step] < Rank[there] /\ (Req.merkle # "verdict" => there \notin QuietSteps(Req))
        BY <1>1, <1>3, StepRanks DEF Route, QuietSteps, If
    <2>2. Goto(there)
        BY <1>6
    <2>3. SameCall /\ step' = there
        <3> HIDE DEF there
        <3> QED BY <2>2 DEF Goto, host, SameCall
    <2>4. gatherPending' \in BOOLEAN /\ dictCached' \in Nat
        BY <1>1 DEF OrderInv, HostTyped
    <2>5. overlap' \in BOOLEAN
        BY <1>6, <1>7
    <2> QED BY <2>1, <2>3, <2>4, <2>5
<1>9. PICK s \in {"pipeline", "gather"} : s = IF created THEN "gather" ELSE "pipeline"
    OBVIOUS
<1>10. PICK d : d = ForkMerkle(device, created)
    OBVIOUS
<1>11. PICK e : e = Queue(d, s, <<"ScPrefix", "SegHash", "ChunkCombine">>)
    OBVIOUS
<1>12. IF Req.merkle = "verdict"
        THEN device' = Queue(e, s, <<"Verdict">>) /\ waiting' = device'.front[s]
        ELSE device' = e /\ waiting' = {}
    BY <1>6, <1>9, <1>10, <1>11
<1>13. \A o \in {"ScPrefix", "SegHash", "ChunkCombine", "Verdict"} : Op(o) \notin Cuda!Queued(device)
    <2>1. \A o \in {"ScPrefix", "SegHash", "ChunkCombine", "Verdict"} : o \in DecodeOps /\ OpRank[o] = Rank[step]
        BY <1>1, StepRanks, OpRanks DEF DecodeOps
    <2> QED BY <1>1, <1>3, <2>1, NotYet
<1>14. /\ Working(d) /\ Cuda!Queued(d) = Cuda!Queued(device) /\ OnStream(d, s) /\ Branched(d, s)
       /\ (s = "gather" => Ahead(d, "pipeline") \subseteq Ahead(d, "gather"))
    <2>1. CASE created
        <3>1. PICK a : a = Cuda!Record(device, "lz_done", "pipeline")
            OBVIOUS
        <3>2. d = Cuda!WaitEvent(a, "gather", "lz_done")
            BY <1>4, <1>10, <2>1, <3>1 DEF ForkMerkle
        <3>3. "pipeline" \in Streams /\ "gather" \in Streams /\ "lz_done" \in Events
            BY DEF Streams, Events
        <3>4. Working(a) /\ Cuda!Queued(a) = Cuda!Queued(device) /\ Ahead(a, "pipeline") = Ahead(device, "pipeline")
            BY <1>2, <3>1, <3>3, RecordWorks
        <3>5. Upto(a, a.event["lz_done"]) = Ahead(device, "pipeline")
            <4>1. Shape(device)
                BY <1>2 DEF Working, Sound
            <4>2. Upto(a, a.event["lz_done"]) = Cover(device, "pipeline")
                BY SMTT(60), <3>1, <3>3, <4>1, Recorded
            <4> QED BY <4>2 DEF Cover
        <3>6. Working(d) /\ Cuda!Queued(d) = Cuda!Queued(device) /\ Ahead(device, "pipeline") \subseteq Ahead(d, "gather")
            BY <3>2, <3>3, <3>4, <3>5, WaitWorks
        <3>7. Ahead(d, "pipeline") = Ahead(a, "pipeline")
            <4>1. d.after = a.after /\ d.front["pipeline"] = a.front["pipeline"]
                BY <3>2, <3>3, <3>4, Awaited DEF Working, Sound
            <4> QED BY <4>1, SameOrder DEF Ahead
        <3>8. s = "gather"
            BY <1>9, <2>1
        <3> QED BY <1>5, <3>1, <3>2, <3>4, <3>6, <3>7, <3>8 DEF OnStream, Branched
    <2>2. CASE ~created
        <3>1. d = device /\ s = "pipeline"
            BY <1>9, <1>10, <2>2 DEF ForkMerkle
        <3> QED BY <1>2, <1>5, <3>1 DEF Branched
    <2> QED BY <1>7, <2>1, <2>2
<1>15. /\ Chained(d, e, s) /\ Working(e) /\ OnStream(e, s) /\ Op("Verdict") \notin Cuda!Queued(e)
    BY <1>1, <1>2, <1>3, <1>4, <1>11, <1>13, <1>14, ChainWorks
<1>16. step # "gather" /\ there # "barrier" /\ \A id \in Cuda!Queued(device') : ~GatherPends(device', id)
    BY <1>1 DEF GatherPends, GatherSteps
<1>17. CASE Req.merkle # "verdict"
    <2>1. device' = e /\ waiting' = {} /\ s = "gather"
        BY <1>7, <1>9, <1>12, <1>17
    <2>2. \A id \in Cuda!Queued(device') \ Upto(device', waiting') :
              (id \in Legacy(device') \/ IsFree(id)) /\ Own(id)
        BY <1>4, <1>15, <2>1 DEF OnStream, Legacy, Working
    <2>3. waiting' \subseteq Cuda!Queued(device') /\ Working(device')
        BY <1>15, <2>1
    <2>4. step' \notin QuietSteps(Req)
        BY <1>8, <1>17
    <2>5. OrderInv'
        <3> HIDE DEF there
        <3> QED BY <1>1, <1>8, <1>16, <2>2, <2>3, <2>4, Advance
    <2> QED BY <1>14, <1>15, <1>17, <2>1, <2>5
<1>18. CASE Req.merkle = "verdict"
    <2>1. device' = Cuda!Launch(e, s, Op("Verdict")) /\ waiting' = device'.front[s]
        BY <1>12, <1>18, Queue1
    <2>2. "Verdict" \in OffStream /\ OpRank["Verdict"] <= Rank[step]
        BY <1>1, StepRanks, OpRanks DEF OffStream
    <2>3. Launching(e, device', s, "Verdict") /\ OnStream(device', s)
        BY <1>1, <1>2, <1>3, <1>4, <1>15, <2>1, <2>2, LibraryWorks
    <2>4. Working(device')
        BY <2>3, QueuedByLaunch
    <2>5. waiting' \subseteq Cuda!Queued(device')
        BY <2>1, <2>4 DEF Working, Sound, Shape, Streams
    <2>6. \A id \in Cuda!Queued(device') \ Upto(device', waiting') : IsFree(id) /\ Own(id)
        BY <1>3, <2>1, <2>3 DEF OnStream, Ahead, Own
    <2>7. OrderInv'
        <3> HIDE DEF there
        <3> QED BY <1>1, <1>8, <1>16, <2>4, <2>5, <2>6, Advance
    <2> QED BY <1>14, <1>15, <1>18, <2>3, <2>7
<1> QED BY <1>17, <1>18

-----------------------------------------------------------------------------
(* The caller's own copies, and the steps of a compression *)

\* The upload finds nothing of its call before it.
LEMMA UploadWorks ==
    ASSUME OrderInv, step = "submit", waiting = {}, call \in Calls, NEW o, CallerUpload(o),
           \/ Req.job = "decompress" /\ o = "UploadFrame"
           \/ Req.job = "compress" /\ o = "UploadInput"
    PROVE  /\ Working(device')
           /\ IF Req.source = "device" /\ ~Req.settled /\ Req.of = 0
              THEN Launching(device, device', WorkStream, o) ELSE device' = device
<1>1. /\ Req \in Request /\ step \in Route(Req) /\ Working(device) /\ plan \in Plans
      /\ \A a : ~(OpRank[a] < Rank[step]) => Op(a) \notin Cuda!Queued(device)
    BY AtWork
<1>2. CASE Req.source = "device" /\ ~Req.settled /\ Req.of = 0
    <2>1. device' = Cuda!Launch(device, WorkStream, Op(o))
        BY <1>2, Queue1 DEF CallerUpload
    <2>2. WorkStream \in {"null", "caller"}
        <3>1. call \in DOMAIN plan
            BY <1>1, PlansAssumption DEF Calls
        <3> QED BY <1>1, <1>2, <3>1, CallersAssumption DEF Req, WorkStream, Request
    <2>3. \A i \in Cuda!Queued(device) : i.call # call /\ i.call \in Calls
        <3>1. SUFFICES ASSUME NEW i \in Cuda!Queued(device) PROVE i.call # call /\ i.call \in Calls
            OBVIOUS
        <3>2. Known(i)
            BY <1>1 DEF Working, Sound
        <3>3. OpRank[i.op] \in Nat /\ OpRank[i.op] >= 1
            BY <3>2, RanksTyped DEF Known
        <3>4. i.call = call => OpRank[i.op] < 1
            BY StepRanks DEF OrderInv, Fresh
        <3> QED BY <3>2, <3>3, <3>4 DEF Known
    <2>4. o \in Ops(Req) /\ o \in Uploads /\ OpRank[o] = 1 /\ Rank[step] = 1
        BY StepRanks, OpRanks DEF Ops, DecodeOps, EncodeOps, Uploads
    <2>5. Covered(device, WorkStream, Op(o))
        BY <1>1, <1>2, <2>3, UploadApart DEF Covered
    <2>6. Op(o) \notin Cuda!Queued(device)
        BY <1>1, <2>4
    <2>7. Safe(device, WorkStream, o)
        BY <1>1, <2>2, <2>3, <2>4, <2>5, <2>6 DEF Safe, Working, Sound, Streams
    <2>8. Fits(WorkStream, o)
        BY <2>2, <2>4 DEF Fits, IsFree, Op, Uploads
    <2>9. Launching(device, device', WorkStream, o)
        BY <1>1, <2>1, <2>7, <2>8, LaunchWorks
    <2> QED BY <1>2, <2>9, QueuedByLaunch
<1>3. CASE ~(Req.source = "device" /\ ~Req.settled /\ Req.of = 0)
    BY <1>1, <1>3 DEF CallerUpload
<1> QED BY <1>2, <1>3

\* Submit, with the application's own copy on its stream when its frame is not settled.
LEMMA SubmitStep ==
    ASSUME OrderInv, Submit
    PROVE  /\ OrderInv'
           /\ IF Req.source = "device" /\ ~Req.settled /\ Req.of = 0
              THEN Launching(device, device', WorkStream, "UploadFrame") ELSE device' = device
<1> DEFINE there == IF Req.source = "device" THEN "header" ELSE "dict"
<1>1. step = "submit" /\ waiting = {} /\ call \in Calls /\ Goto(there) /\ SameFlags /\ waiting' = {}
      /\ Req.job = "decompress" /\ CallerUpload("UploadFrame")
    BY DEF Submit, At, Returns
<1>2. Req \in Request /\ Req.source \in {"host", "device"}
    BY <1>1, AtWork DEF Request
<1>3. there \in Route(Req) /\ Rank[step] < Rank[there] /\ there \in Opening(Req) /\ there \notin QuietSteps(Req)
      /\ there # "barrier"
    BY <1>1, <1>2, StepRanks DEF Route, Opening, QuietSteps, If
<1>4. Steps /\ step' = there
    <2> HIDE DEF there
    <2> QED BY <1>1, <1>3, Going DEF GatherStays, GatherSteps
<1> HIDE DEF there
<1>5. /\ Working(device')
      /\ IF Req.source = "device" /\ ~Req.settled /\ Req.of = 0
         THEN Launching(device, device', WorkStream, "UploadFrame") ELSE device' = device
    BY <1>1, UploadWorks
<1>6. step \notin BackSteps
    BY <1>1 DEF BackSteps
<1>7. OrderInv'
    BY <1>1, <1>3, <1>4, <1>5, <1>6, Continues
<1> QED BY <1>5, <1>7

\* SubmitInput, the same of a compression's input.
LEMMA SubmitInputStep ==
    ASSUME OrderInv, SubmitInput
    PROVE  /\ OrderInv'
           /\ IF Req.source = "device" /\ ~Req.settled /\ Req.of = 0
              THEN Launching(device, device', WorkStream, "UploadInput") ELSE device' = device
<1> DEFINE there == IF Req.source = "device" THEN "input" ELSE "wrap"
<1>1. step = "submit" /\ waiting = {} /\ call \in Calls /\ Goto(there) /\ SameFlags /\ waiting' = {}
      /\ Req.job = "compress" /\ CallerUpload("UploadInput")
    BY DEF SubmitInput, Compresses, At, Returns
<1>2. Req \in Request /\ Req.source \in {"host", "device"}
    BY <1>1, AtWork DEF Request
<1>3. there \in Route(Req) /\ Rank[step] < Rank[there] /\ there \in Opening(Req) /\ there \notin QuietSteps(Req)
      /\ there # "barrier"
    BY <1>1, <1>2, StepRanks DEF Route, Opening, QuietSteps, If
<1>4. Steps /\ step' = there
    <2> HIDE DEF there
    <2> QED BY <1>1, <1>3, Going DEF GatherStays, GatherSteps
<1> HIDE DEF there
<1>5. /\ Working(device')
      /\ IF Req.source = "device" /\ ~Req.settled /\ Req.of = 0
         THEN Launching(device, device', WorkStream, "UploadInput") ELSE device' = device
    BY <1>1, UploadWorks
<1>6. step \notin BackSteps
    BY <1>1 DEF BackSteps
<1>7. OrderInv'
    BY <1>1, <1>3, <1>4, <1>5, <1>6, Continues
<1> QED BY <1>5, <1>7

\* The encoder queues on the null stream, and of operations on a non-blocking stream it
\* can only meet those of earlier calls.
NoFree(d) == \A i \in Cuda!Queued(d) : IsFree(i) => i.call # call

\* Work of a compression is on the null stream, and nothing of the handle is on a free one.
LEMMA EncodeWorks ==
    ASSUME plan \in Plans, NEW d, NEW o \in EncodeOps, NEW e, Working(d), NoFree(d), call \in Calls,
           Req.job = "compress", step \notin BackSteps, o \notin Uploads,
           o \notin {"FrameAssemble", "Download"} \/ IsSync(Req),
           OpRank[o] <= Rank[step], Op(o) \notin Cuda!Queued(d),
           step \notin Opening(Req) \/ o \in {"WrapInput", "CopyInput", "CopyEncDescs", "ZeroSizes"},
           e = Cuda!Launch(d, "null", Op(o))
    PROVE  Launching(d, e, "null", o) /\ NoFree(e)
<1>1. ~IsFree(Op(o)) /\ o \in Ops(Req)
    BY DEF IsFree, Op, Ops, IsSync, Req
<1>2. ASSUME NEW i \in Cuda!Queued(d), IsFree(i) PROVE ~Conflict(i, Op(o))
    <2>1. i.call # call /\ Known(i) /\ (step \notin Opening(Req) => Own(i))
        BY <1>2 DEF NoFree, Working, Sound
    <2>2. o \in {"WrapInput", "CopyInput", "CopyEncDescs", "ZeroSizes"}
        BY <2>1 DEF Own
    <2> QED BY <1>2, <2>1, <2>2, FreeApartOpening DEF Known
<1>3. Launching(d, e, "null", o)
    BY <1>1, <1>2, NullWorks
<1>4. NoFree(e)
    BY <1>1, <1>3, QueuedByLaunch DEF NoFree, Op
<1> QED BY <1>3, <1>4

\* Before the frame is assembled nothing of the call is on a non-blocking stream.
LEMMA EncodeStart ==
    ASSUME OrderInv, call \in Calls, waiting = {}, Req.job = "compress",
           IsSync(Req) \/ Rank[step] <= 13
    PROVE  NoFree(device)
<1>1. SUFFICES ASSUME NEW i \in Cuda!Queued(device), IsFree(i), i.call = call PROVE FALSE
    BY DEF NoFree
<1>2. i.op \in {"FrameAssemble", "Download"} /\ ~IsSync(Req)
    BY <1>1 DEF IsFree, IsSync, Req
<1>3. OpRank[i.op] \in Nat /\ OpRank[i.op] >= 13
    BY <1>2, OpRanks
<1>4. OpRank[i.op] < Rank[step] /\ Rank[step] \in Nat
    BY <1>1, RanksTyped DEF OrderInv, Fresh, HostTyped
<1> QED BY <1>2, <1>3, <1>4

\* An operation of this step is not queued yet.
LEMMA EncodeNotYet ==
    ASSUME OrderInv, call \in Calls, waiting = {}, Req.job = "compress",
           NEW o \in EncodeOps, OpRank[o] = Rank[step]
    PROVE  Op(o) \notin Cuda!Queued(device) /\ OpRank[o] <= Rank[step]
<1>1. OpRank[o] \in Nat
    BY RanksTyped DEF Ops
<1>2. ~(OpRank[o] < Rank[step]) /\ OpRank[o] <= Rank[step]
    BY <1>1
<1> QED BY <1>2, AtWork

\* Up to four operations of a compression on the null stream.
Encodes(o) == /\ o \in EncodeOps \ Uploads /\ OpRank[o] = Rank[step]
              /\ o \notin {"FrameAssemble", "Download"} \/ IsSync(Req)
              /\ step \notin Opening(Req) \/ o \in {"WrapInput", "CopyInput", "CopyEncDescs", "ZeroSizes"}
Encoding == /\ waiting = {} /\ call \in Calls /\ Req.job = "compress"
            /\ IsSync(Req) \/ Rank[step] <= 13

\* A compression's step finds the device as the lemmas below need it.
LEMMA EncodeReady ==
    ASSUME OrderInv, Encoding
    PROVE  /\ Working(device) /\ plan \in Plans /\ call \in Calls /\ NoFree(device) /\ step \notin BackSteps
           /\ \A o : Encodes(o) => Op(o) \notin Cuda!Queued(device) /\ OpRank[o] <= Rank[step]
<1>1. /\ Req \in Request /\ step \in Route(Req) /\ Working(device) /\ plan \in Plans
    BY AtWork DEF Encoding
<1>2. step \notin BackSteps
    BY <1>1, StepOf DEF Encoding, BackSteps
<1>3. NoFree(device)
    BY EncodeStart DEF Encoding
<1>4. \A o : Encodes(o) => Op(o) \notin Cuda!Queued(device) /\ OpRank[o] <= Rank[step]
    BY EncodeNotYet DEF Encodes, Encoding
<1> QED BY <1>1, <1>2, <1>3, <1>4 DEF Encoding

\* One more operation of a compression's step.
LEMMA EncodesNext ==
    ASSUME plan \in Plans, NEW d, NEW o, NEW e, Working(d), NoFree(d), Encoding, step \notin BackSteps,
           Encodes(o), OpRank[o] <= Rank[step], Op(o) \notin Cuda!Queued(d),
           e = Cuda!Launch(d, "null", Op(o))
    PROVE  /\ Launching(d, e, "null", o) /\ NoFree(e) /\ Working(e)
           /\ \A a : Op(a) \notin Cuda!Queued(d) /\ a # o => Op(a) \notin Cuda!Queued(e)
<1>1. Launching(d, e, "null", o) /\ NoFree(e)
    BY EncodeWorks DEF Encodes, Encoding
<1> QED BY <1>1, QueuedByLaunch

\* A step of one operation.
LEMMA Encode1 ==
    ASSUME OrderInv, Encoding, NEW o, Encodes(o), OnNull(<<o>>)
    PROVE  Launching(device, device', "null", o)
<1>1. device' = Cuda!Launch(device, "null", Op(o))
    BY Queue1 DEF OnNull
<1> QED BY <1>1, EncodeReady, EncodesNext

Encoded2(d, e, o, p) == \E a : Launching(d, a, "null", o) /\ Launching(a, e, "null", p)
\* A step of two operations.
LEMMA Encode2 ==
    ASSUME OrderInv, Encoding, NEW o, NEW p, Encodes(o), Encodes(p), o # p, OnNull(<<o, p>>)
    PROVE  Encoded2(device, device', o, p)
<1>1. PICK a : a = Cuda!Launch(device, "null", Op(o))
    OBVIOUS
<1>2. device' = Cuda!Launch(a, "null", Op(p))
    BY <1>1, Queue2 DEF OnNull
<1>3. Launching(device, a, "null", o) /\ NoFree(a) /\ Working(a) /\ Op(p) \notin Cuda!Queued(a)
    BY <1>1, EncodeReady, EncodesNext
<1>4. Launching(a, device', "null", p)
    BY <1>2, <1>3, EncodeReady, EncodesNext
<1> QED BY <1>3, <1>4 DEF Encoded2

Encoded3(d, e, o, p, q) == \E a, b : /\ Launching(d, a, "null", o) /\ Launching(a, b, "null", p)
                                     /\ Launching(b, e, "null", q)
\* A step of three operations.
LEMMA Encode3 ==
    ASSUME OrderInv, Encoding, NEW o, NEW p, NEW q, Encodes(o), Encodes(p), Encodes(q),
           o # p, o # q, p # q, OnNull(<<o, p, q>>)
    PROVE  Encoded3(device, device', o, p, q)
<1>1. PICK a : a = Cuda!Launch(device, "null", Op(o))
    OBVIOUS
<1>2. PICK b : b = Cuda!Launch(a, "null", Op(p))
    OBVIOUS
<1>3. device' = Cuda!Launch(b, "null", Op(q))
    BY <1>1, <1>2, Queue3 DEF OnNull
<1>4. Launching(device, a, "null", o) /\ NoFree(a) /\ Working(a) /\ Op(p) \notin Cuda!Queued(a) /\ Op(q) \notin Cuda!Queued(a)
    BY <1>1, EncodeReady, EncodesNext
<1>5. Launching(a, b, "null", p) /\ NoFree(b) /\ Working(b) /\ Op(q) \notin Cuda!Queued(b)
    BY <1>2, <1>4, EncodeReady, EncodesNext
<1>6. Launching(b, device', "null", q)
    BY <1>3, <1>5, EncodeReady, EncodesNext
<1> QED BY <1>4, <1>5, <1>6 DEF Encoded3

Encoded4(d, e, o, p, q, r) == \E a, b, c : /\ Launching(d, a, "null", o) /\ Launching(a, b, "null", p)
                                           /\ Launching(b, c, "null", q) /\ Launching(c, e, "null", r)
\* A step of four operations.
LEMMA Encode4 ==
    ASSUME OrderInv, Encoding, NEW o, NEW p, NEW q, NEW r, Encodes(o), Encodes(p), Encodes(q), Encodes(r),
           o # p, o # q, o # r, p # q, p # r, q # r, OnNull(<<o, p, q, r>>)
    PROVE  Encoded4(device, device', o, p, q, r)
<1>1. PICK a : a = Cuda!Launch(device, "null", Op(o))
    OBVIOUS
<1>2. PICK b : b = Cuda!Launch(a, "null", Op(p))
    OBVIOUS
<1>3. PICK c : c = Cuda!Launch(b, "null", Op(q))
    OBVIOUS
<1>4. device' = Cuda!Launch(c, "null", Op(r))
    BY <1>1, <1>2, <1>3, Queue4 DEF OnNull
<1>5. /\ Launching(device, a, "null", o) /\ NoFree(a) /\ Working(a) /\ Op(p) \notin Cuda!Queued(a)
      /\ Op(q) \notin Cuda!Queued(a) /\ Op(r) \notin Cuda!Queued(a)
    BY <1>1, EncodeReady, EncodesNext
<1>6. /\ Launching(a, b, "null", p) /\ NoFree(b) /\ Working(b) /\ Op(q) \notin Cuda!Queued(b)
      /\ Op(r) \notin Cuda!Queued(b)
    BY <1>2, <1>5, EncodeReady, EncodesNext
<1>7. Launching(b, c, "null", q) /\ NoFree(c) /\ Working(c) /\ Op(r) \notin Cuda!Queued(c)
    BY <1>3, <1>6, EncodeReady, EncodesNext
<1>8. Launching(c, device', "null", r)
    BY <1>4, <1>7, EncodeReady, EncodesNext
<1> QED BY <1>5, <1>6, <1>7, <1>8 DEF Encoded4

\* A step of a compression goes on to the next one.
LEMMA EncodeGoing ==
    ASSUME OrderInv, NEW here, NEW there, Compresses(here), Goto(there), SameFlags,
           there \in Route(Req), Rank[here] < Rank[there]
    PROVE  Steps /\ step' = there /\ step = here /\ waiting = {} /\ call \in Calls /\ Req.job = "compress"
           /\ step \notin BackSteps /\ Req \in Request /\ step \in Route(Req)
<1>1. step = here /\ waiting = {} /\ call \in Calls /\ Req.job = "compress"
    BY DEF Compresses, At
<1>2. Req \in Request /\ step \in Route(Req)
    BY <1>1, AtWork
<1>3. step \notin BackSteps /\ step \notin GatherSteps /\ step # "gather"
    BY <1>1, <1>2, StepOf DEF BackSteps, GatherSteps
<1>4. Steps /\ step' = there
    BY <1>1, <1>3, Going DEF GatherStays
<1> QED BY <1>1, <1>2, <1>3, <1>4

\* WrapInput, the host's wrapping copy of its input.
LEMMA WrapStep ==
    ASSUME OrderInv, WrapInput
    PROVE  OrderInv' /\ Launching(device, device', "null", "WrapInput")
<1>1. /\ Compresses("wrap") /\ Goto("input") /\ SameFlags
      /\ OnNull(<<"WrapInput">>) /\ waiting' = {Op("WrapInput")}
    BY DEF WrapInput, Blocks
<1>2. step = "wrap" /\ Req.job = "compress" /\ Req \in Request /\ step \in Route(Req) /\ waiting = {} /\ call \in Calls
    BY <1>1, AtWork DEF Compresses, At
<1>3. "input" \in Route(Req) /\ Rank["wrap"] < Rank["input"] /\ "input" # "barrier"
    BY <1>2, StepOf, StepRanks DEF Route, HuffPasses, If
<1>4. Steps /\ step' = "input" /\ step \notin BackSteps
    BY <1>1, <1>3, EncodeGoing
<1>5. \A o \in {"WrapInput"} : Encodes(o)
    <2>1. step \notin Opening(Req) \/ {"WrapInput"} \subseteq {"WrapInput", "CopyInput", "CopyEncDescs", "ZeroSizes"}
        BY <1>2 DEF Opening, If
    <2>2. \A o \in {"WrapInput"} : o \in EncodeOps /\ o \notin Uploads /\ OpRank[o] = Rank[step] /\ o \notin {"FrameAssemble", "Download"}
        BY <1>2, StepRanks, OpRanks DEF EncodeOps, Uploads
    <2> QED BY <2>1, <2>2 DEF Encodes
<1>6. Encoding
    BY <1>2, StepRanks DEF Encoding
<1>7. Launching(device, device', "null", "WrapInput")
    BY <1>1, <1>5, <1>6, Encode1
<1>8. \E d : Launching(d, device', "null", "WrapInput")
    BY <1>7
<1>9. "input" \in Opening(Req) \/ step \notin Opening(Req)
    BY <1>2 DEF Opening, If
<1>10. OrderInv'
    BY <1>1, <1>4, <1>8, <1>9, Waits
<1> QED BY <1>7, <1>10

\* StageInput.
LEMMA InputStep ==
    ASSUME OrderInv, StageInput
    PROVE  OrderInv' /\ Encoded3(device, device', "CopyInput", "CopyEncDescs", "ZeroSizes")
<1>1. /\ Compresses("input") /\ Goto("encode") /\ SameFlags
      /\ OnNull(<<"CopyInput", "CopyEncDescs", "ZeroSizes">>) /\ waiting' = Cuda!Queued(device')
    BY DEF StageInput, DrainsContext
<1>2. step = "input" /\ Req.job = "compress" /\ Req \in Request /\ step \in Route(Req) /\ waiting = {} /\ call \in Calls
    BY <1>1, AtWork DEF Compresses, At
<1>3. "encode" \in Route(Req) /\ Rank["input"] < Rank["encode"] /\ "encode" # "barrier"
    BY <1>2, StepOf, StepRanks DEF Route, HuffPasses, If
<1>4. Steps /\ step' = "encode" /\ step \notin BackSteps
    BY <1>1, <1>3, EncodeGoing
<1>5. \A o \in {"CopyInput", "CopyEncDescs", "ZeroSizes"} : Encodes(o)
    <2>1. step \notin Opening(Req) \/ {"CopyInput", "CopyEncDescs", "ZeroSizes"} \subseteq {"WrapInput", "CopyInput", "CopyEncDescs", "ZeroSizes"}
        BY <1>2 DEF Opening, If
    <2>2. \A o \in {"CopyInput", "CopyEncDescs", "ZeroSizes"} : o \in EncodeOps /\ o \notin Uploads /\ OpRank[o] = Rank[step] /\ o \notin {"FrameAssemble", "Download"}
        BY <1>2, StepRanks, OpRanks DEF EncodeOps, Uploads
    <2> QED BY <2>1, <2>2 DEF Encodes
<1>6. Encoding
    BY <1>2, StepRanks DEF Encoding
<1>7. Encoded3(device, device', "CopyInput", "CopyEncDescs", "ZeroSizes")
    BY <1>1, <1>5, <1>6, Encode3
<1>8. Working(device')
    BY <1>7, QueuedByLaunch DEF Encoded3
<1>9. OrderInv'
    BY <1>1, <1>3, <1>4, <1>8, Drains
<1> QED BY <1>7, <1>9

\* LzEncode.
LEMMA LzEncodeStep ==
    ASSUME OrderInv, LzEncode
    PROVE  OrderInv' /\ Launching(device, device', "null", "LzEncode")
<1> DEFINE there == IF Req.merkle = "root" THEN "hash" ELSE "sizes"
<1>1. /\ Compresses("encode") /\ Goto(there) /\ SameFlags
      /\ OnNull(<<"LzEncode">>) /\ waiting' = Cuda!Queued(device')
    BY DEF LzEncode, DrainsContext
<1>2. step = "encode" /\ Req.job = "compress" /\ Req \in Request /\ step \in Route(Req) /\ waiting = {} /\ call \in Calls
    BY <1>1, AtWork DEF Compresses, At
<1>3. there \in Route(Req) /\ Rank["encode"] < Rank[there] /\ there # "barrier"
    BY <1>2, StepOf, StepRanks DEF Route, HuffPasses, If
<1>4. Steps /\ step' = there /\ step \notin BackSteps
    <2> HIDE DEF there
    <2> QED BY <1>1, <1>3, EncodeGoing
<1>5. \A o \in {"LzEncode"} : Encodes(o)
    <2>1. step \notin Opening(Req) \/ {"LzEncode"} \subseteq {"WrapInput", "CopyInput", "CopyEncDescs", "ZeroSizes"}
        BY <1>2 DEF Opening, If
    <2>2. \A o \in {"LzEncode"} : o \in EncodeOps /\ o \notin Uploads /\ OpRank[o] = Rank[step] /\ o \notin {"FrameAssemble", "Download"}
        BY <1>2, StepRanks, OpRanks DEF EncodeOps, Uploads
    <2> QED BY <2>1, <2>2 DEF Encodes
<1>6. Encoding
    BY <1>2, StepRanks DEF Encoding
<1>7. Launching(device, device', "null", "LzEncode")
    <2> HIDE DEF there
    <2> QED BY <1>1, <1>5, <1>6, Encode1
<1>8. Working(device')
    BY <1>7, QueuedByLaunch
<1>9. OrderInv'
    <2> HIDE DEF there
    <2> QED BY <1>1, <1>3, <1>4, <1>8, Drains
<1> QED BY <1>7, <1>9

\* HashChunks.
LEMMA HashStep ==
    ASSUME OrderInv, HashChunks
    PROVE  OrderInv' /\ Encoded2(device, device', "EncSegHash", "EncCombine")
<1>1. /\ Compresses("hash") /\ Goto("sizes") /\ SameFlags
      /\ OnNull(<<"EncSegHash", "EncCombine">>) /\ waiting' = {}
    BY DEF HashChunks, Returns
<1>2. step = "hash" /\ Req.job = "compress" /\ Req \in Request /\ step \in Route(Req) /\ waiting = {} /\ call \in Calls
    BY <1>1, AtWork DEF Compresses, At
<1>3. "sizes" \in Route(Req) /\ Rank["hash"] < Rank["sizes"] /\ "sizes" # "barrier"
    BY <1>2, StepOf, StepRanks DEF Route, HuffPasses, If
<1>4. Steps /\ step' = "sizes" /\ step \notin BackSteps
    BY <1>1, <1>3, EncodeGoing
<1>5. \A o \in {"EncSegHash", "EncCombine"} : Encodes(o)
    <2>1. step \notin Opening(Req) \/ {"EncSegHash", "EncCombine"} \subseteq {"WrapInput", "CopyInput", "CopyEncDescs", "ZeroSizes"}
        BY <1>2 DEF Opening, If
    <2>2. \A o \in {"EncSegHash", "EncCombine"} : o \in EncodeOps /\ o \notin Uploads /\ OpRank[o] = Rank[step] /\ o \notin {"FrameAssemble", "Download"}
        BY <1>2, StepRanks, OpRanks DEF EncodeOps, Uploads
    <2> QED BY <2>1, <2>2 DEF Encodes
<1>6. Encoding
    BY <1>2, StepRanks DEF Encoding
<1>7. Encoded2(device, device', "EncSegHash", "EncCombine")
    BY <1>1, <1>5, <1>6, Encode2
<1>8. Working(device')
    BY <1>7, QueuedByLaunch DEF Encoded2
<1>9. step \notin Opening(Req) /\ "sizes" \notin QuietSteps(Req)
    BY <1>2 DEF Opening, QuietSteps, If
<1>10. OrderInv'
    BY <1>1, <1>3, <1>4, <1>8, <1>9, Continues
<1> QED BY <1>7, <1>10

\* HuffEncode of the literals.
LEMMA HuffLitStep ==
    ASSUME OrderInv, HuffEncode("lit")
    PROVE  OrderInv' /\ Encoded4(device, device', "DescsLit", "TablesLit", "EncodeLit", "SizesLit")
<1>1. /\ Compresses("lit") /\ Goto("tok") /\ SameFlags
      /\ OnNull(<<"DescsLit", "TablesLit", "EncodeLit", "SizesLit">>) /\ waiting' = Cuda!Queued(device')
    BY DEF HuffEncode, DrainsContext, HuffOps, AfterPass
<1>2. step = "lit" /\ Req.job = "compress" /\ Req \in Request /\ step \in Route(Req) /\ waiting = {} /\ call \in Calls
    BY <1>1, AtWork DEF Compresses, At
<1>3. "tok" \in Route(Req) /\ Rank["lit"] < Rank["tok"] /\ "tok" # "barrier"
    BY <1>2, StepOf, StepRanks DEF Route, HuffPasses, If
<1>4. Steps /\ step' = "tok" /\ step \notin BackSteps
    BY <1>1, <1>3, EncodeGoing
<1>5. \A o \in {"DescsLit", "TablesLit", "EncodeLit", "SizesLit"} : Encodes(o)
    <2>1. step \notin Opening(Req) \/ {"DescsLit", "TablesLit", "EncodeLit", "SizesLit"} \subseteq {"WrapInput", "CopyInput", "CopyEncDescs", "ZeroSizes"}
        BY <1>2 DEF Opening, If
    <2>2. \A o \in {"DescsLit", "TablesLit", "EncodeLit", "SizesLit"} : o \in EncodeOps /\ o \notin Uploads /\ OpRank[o] = Rank[step] /\ o \notin {"FrameAssemble", "Download"}
        BY <1>2, StepRanks, OpRanks DEF EncodeOps, Uploads
    <2> QED BY <2>1, <2>2 DEF Encodes
<1>6. Encoding
    BY <1>2, StepRanks DEF Encoding
<1>7. Encoded4(device, device', "DescsLit", "TablesLit", "EncodeLit", "SizesLit")
    BY <1>1, <1>5, <1>6, Encode4
<1>8. Working(device')
    BY <1>7, QueuedByLaunch DEF Encoded4
<1>9. OrderInv'
    BY <1>1, <1>3, <1>4, <1>8, Drains
<1> QED BY <1>7, <1>9

\* HuffEncode of the tokens.
LEMMA HuffTokStep ==
    ASSUME OrderInv, HuffEncode("tok")
    PROVE  OrderInv' /\ Encoded4(device, device', "DescsTok", "TablesTok", "EncodeTok", "SizesTok")
<1>1. /\ Compresses("tok") /\ Goto("off16") /\ SameFlags
      /\ OnNull(<<"DescsTok", "TablesTok", "EncodeTok", "SizesTok">>) /\ waiting' = Cuda!Queued(device')
    BY DEF HuffEncode, DrainsContext, HuffOps, AfterPass
<1>2. step = "tok" /\ Req.job = "compress" /\ Req \in Request /\ step \in Route(Req) /\ waiting = {} /\ call \in Calls
    BY <1>1, AtWork DEF Compresses, At
<1>3. "off16" \in Route(Req) /\ Rank["tok"] < Rank["off16"] /\ "off16" # "barrier"
    BY <1>2, StepOf, StepRanks DEF Route, HuffPasses, If
<1>4. Steps /\ step' = "off16" /\ step \notin BackSteps
    BY <1>1, <1>3, EncodeGoing
<1>5. \A o \in {"DescsTok", "TablesTok", "EncodeTok", "SizesTok"} : Encodes(o)
    <2>1. step \notin Opening(Req) \/ {"DescsTok", "TablesTok", "EncodeTok", "SizesTok"} \subseteq {"WrapInput", "CopyInput", "CopyEncDescs", "ZeroSizes"}
        BY <1>2 DEF Opening, If
    <2>2. \A o \in {"DescsTok", "TablesTok", "EncodeTok", "SizesTok"} : o \in EncodeOps /\ o \notin Uploads /\ OpRank[o] = Rank[step] /\ o \notin {"FrameAssemble", "Download"}
        BY <1>2, StepRanks, OpRanks DEF EncodeOps, Uploads
    <2> QED BY <2>1, <2>2 DEF Encodes
<1>6. Encoding
    BY <1>2, StepRanks DEF Encoding
<1>7. Encoded4(device, device', "DescsTok", "TablesTok", "EncodeTok", "SizesTok")
    BY <1>1, <1>5, <1>6, Encode4
<1>8. Working(device')
    BY <1>7, QueuedByLaunch DEF Encoded4
<1>9. OrderInv'
    BY <1>1, <1>3, <1>4, <1>8, Drains
<1> QED BY <1>7, <1>9

\* HuffEncode of the offsets.
LEMMA HuffOff16Step ==
    ASSUME OrderInv, HuffEncode("off16")
    PROVE  OrderInv' /\ Encoded4(device, device', "DescsOff16", "TablesOff16", "EncodeOff16", "SizesOff16")
<1>1. /\ Compresses("off16") /\ Goto("measure") /\ SameFlags
      /\ OnNull(<<"DescsOff16", "TablesOff16", "EncodeOff16", "SizesOff16">>) /\ waiting' = Cuda!Queued(device')
    BY DEF HuffEncode, DrainsContext, HuffOps, AfterPass
<1>2. step = "off16" /\ Req.job = "compress" /\ Req \in Request /\ step \in Route(Req) /\ waiting = {} /\ call \in Calls
    BY <1>1, AtWork DEF Compresses, At
<1>3. "measure" \in Route(Req) /\ Rank["off16"] < Rank["measure"] /\ "measure" # "barrier"
    BY <1>2, StepOf, StepRanks DEF Route, HuffPasses, If
<1>4. Steps /\ step' = "measure" /\ step \notin BackSteps
    BY <1>1, <1>3, EncodeGoing
<1>5. \A o \in {"DescsOff16", "TablesOff16", "EncodeOff16", "SizesOff16"} : Encodes(o)
    <2>1. step \notin Opening(Req) \/ {"DescsOff16", "TablesOff16", "EncodeOff16", "SizesOff16"} \subseteq {"WrapInput", "CopyInput", "CopyEncDescs", "ZeroSizes"}
        BY <1>2 DEF Opening, If
    <2>2. \A o \in {"DescsOff16", "TablesOff16", "EncodeOff16", "SizesOff16"} : o \in EncodeOps /\ o \notin Uploads /\ OpRank[o] = Rank[step] /\ o \notin {"FrameAssemble", "Download"}
        BY <1>2, StepRanks, OpRanks DEF EncodeOps, Uploads
    <2> QED BY <2>1, <2>2 DEF Encodes
<1>6. Encoding
    BY <1>2, StepRanks DEF Encoding
<1>7. Encoded4(device, device', "DescsOff16", "TablesOff16", "EncodeOff16", "SizesOff16")
    BY <1>1, <1>5, <1>6, Encode4
<1>8. Working(device')
    BY <1>7, QueuedByLaunch DEF Encoded4
<1>9. OrderInv'
    BY <1>1, <1>3, <1>4, <1>8, Drains
<1> QED BY <1>7, <1>9

\* AssembleMeasure.
LEMMA MeasureStep ==
    ASSUME OrderInv, AssembleMeasure
    PROVE  OrderInv' /\ Encoded3(device, device', "CopyAsmDescs", "Measure", "ReadAsmSizes")
<1>1. /\ Compresses("measure") /\ Goto("write") /\ SameFlags
      /\ OnNull(<<"CopyAsmDescs", "Measure", "ReadAsmSizes">>) /\ waiting' = Cuda!Queued(device')
    BY DEF AssembleMeasure, DrainsContext
<1>2. step = "measure" /\ Req.job = "compress" /\ Req \in Request /\ step \in Route(Req) /\ waiting = {} /\ call \in Calls
    BY <1>1, AtWork DEF Compresses, At
<1>3. "write" \in Route(Req) /\ Rank["measure"] < Rank["write"] /\ "write" # "barrier"
    BY <1>2, StepOf, StepRanks DEF Route, HuffPasses, If
<1>4. Steps /\ step' = "write" /\ step \notin BackSteps
    BY <1>1, <1>3, EncodeGoing
<1>5. \A o \in {"CopyAsmDescs", "Measure", "ReadAsmSizes"} : Encodes(o)
    <2>1. step \notin Opening(Req) \/ {"CopyAsmDescs", "Measure", "ReadAsmSizes"} \subseteq {"WrapInput", "CopyInput", "CopyEncDescs", "ZeroSizes"}
        BY <1>2 DEF Opening, If
    <2>2. \A o \in {"CopyAsmDescs", "Measure", "ReadAsmSizes"} : o \in EncodeOps /\ o \notin Uploads /\ OpRank[o] = Rank[step] /\ o \notin {"FrameAssemble", "Download"}
        BY <1>2, StepRanks, OpRanks DEF EncodeOps, Uploads
    <2> QED BY <2>1, <2>2 DEF Encodes
<1>6. Encoding
    BY <1>2, StepRanks DEF Encoding
<1>7. Encoded3(device, device', "CopyAsmDescs", "Measure", "ReadAsmSizes")
    BY <1>1, <1>5, <1>6, Encode3
<1>8. Working(device')
    BY <1>7, QueuedByLaunch DEF Encoded3
<1>9. OrderInv'
    BY <1>1, <1>3, <1>4, <1>8, Drains
<1> QED BY <1>7, <1>9

\* AssembleWrite.
LEMMA WriteStep ==
    ASSUME OrderInv, AssembleWrite
    PROVE  OrderInv' /\ Encoded2(device, device', "CopyOffsets", "AsmWrite")
<1>1. /\ Compresses("write") /\ Goto("layout") /\ SameFlags
      /\ OnNull(<<"CopyOffsets", "AsmWrite">>) /\ waiting' = Cuda!Queued(device')
    BY DEF AssembleWrite, DrainsContext
<1>2. step = "write" /\ Req.job = "compress" /\ Req \in Request /\ step \in Route(Req) /\ waiting = {} /\ call \in Calls
    BY <1>1, AtWork DEF Compresses, At
<1>3. "layout" \in Route(Req) /\ Rank["write"] < Rank["layout"] /\ "layout" # "barrier"
    BY <1>2, StepOf, StepRanks DEF Route, HuffPasses, If
<1>4. Steps /\ step' = "layout" /\ step \notin BackSteps
    BY <1>1, <1>3, EncodeGoing
<1>5. \A o \in {"CopyOffsets", "AsmWrite"} : Encodes(o)
    <2>1. step \notin Opening(Req) \/ {"CopyOffsets", "AsmWrite"} \subseteq {"WrapInput", "CopyInput", "CopyEncDescs", "ZeroSizes"}
        BY <1>2 DEF Opening, If
    <2>2. \A o \in {"CopyOffsets", "AsmWrite"} : o \in EncodeOps /\ o \notin Uploads /\ OpRank[o] = Rank[step] /\ o \notin {"FrameAssemble", "Download"}
        BY <1>2, StepRanks, OpRanks DEF EncodeOps, Uploads
    <2> QED BY <2>1, <2>2 DEF Encodes
<1>6. Encoding
    BY <1>2, StepRanks DEF Encoding
<1>7. Encoded2(device, device', "CopyOffsets", "AsmWrite")
    BY <1>1, <1>5, <1>6, Encode2
<1>8. Working(device')
    BY <1>7, QueuedByLaunch DEF Encoded2
<1>9. OrderInv'
    BY <1>1, <1>3, <1>4, <1>8, Drains
<1> QED BY <1>7, <1>9

\* CopyLayout, after which the context is drained.
LEMMA LayoutStep ==
    ASSUME OrderInv, CopyLayout
    PROVE  OrderInv' /\ Launching(device, device', "null", "CopyLayout")
<1>1. /\ Compresses("layout") /\ Goto("frame") /\ SameFlags
      /\ OnNull(<<"CopyLayout">>) /\ waiting' = {Op("CopyLayout")}
    BY DEF CopyLayout, Blocks
<1>2. step = "layout" /\ Req.job = "compress" /\ Req \in Request /\ step \in Route(Req) /\ waiting = {} /\ call \in Calls
    BY <1>1, AtWork DEF Compresses, At
<1>3. "frame" \in Route(Req) /\ Rank["layout"] < Rank["frame"] /\ "frame" # "barrier"
    BY <1>2, StepOf, StepRanks DEF Route, HuffPasses, If
<1>4. Steps /\ step' = "frame" /\ step \notin BackSteps
    BY <1>1, <1>3, EncodeGoing
<1>5. \A o \in {"CopyLayout"} : Encodes(o)
    <2>1. step \notin Opening(Req) \/ {"CopyLayout"} \subseteq {"WrapInput", "CopyInput", "CopyEncDescs", "ZeroSizes"}
        BY <1>2 DEF Opening, If
    <2>2. \A o \in {"CopyLayout"} : o \in EncodeOps /\ o \notin Uploads /\ OpRank[o] = Rank[step] /\ o \notin {"FrameAssemble", "Download"}
        BY <1>2, StepRanks, OpRanks DEF EncodeOps, Uploads
    <2> QED BY <2>1, <2>2 DEF Encodes
<1>6. Encoding
    BY <1>2, StepRanks DEF Encoding
<1>7. Launching(device, device', "null", "CopyLayout")
    BY <1>1, <1>5, <1>6, Encode1
<1>8. \E d : Launching(d, device', "null", "CopyLayout")
    BY <1>7
<1>9. "frame" \in Opening(Req) \/ step \notin Opening(Req)
    BY <1>2 DEF Opening, If
<1>10. OrderInv'
    BY <1>1, <1>4, <1>8, <1>9, Waits
<1> QED BY <1>7, <1>10

\* SizeTable.
LEMMA TableStep ==
    ASSUME OrderInv, SizeTable
    PROVE  OrderInv' /\ Launching(device, device', "null", "SizeTable")
<1> DEFINE there == IF Req.merkle = "root" THEN "root" ELSE "finalize"
<1>1. /\ Compresses("table") /\ Goto(there) /\ SameFlags
      /\ OnNull(<<"SizeTable">>) /\ waiting' = {Op("SizeTable")}
    BY DEF SizeTable, Blocks
<1>2. step = "table" /\ Req.job = "compress" /\ Req \in Request /\ step \in Route(Req) /\ waiting = {} /\ call \in Calls
    BY <1>1, AtWork DEF Compresses, At
<1>3. there \in Route(Req) /\ Rank["table"] < Rank[there] /\ there # "barrier"
    BY <1>2, StepOf, StepRanks DEF Route, HuffPasses, If
<1>4. Steps /\ step' = there /\ step \notin BackSteps
    <2> HIDE DEF there
    <2> QED BY <1>1, <1>3, EncodeGoing
<1>5. \A o \in {"SizeTable"} : Encodes(o)
    <2>1. step \notin Opening(Req) \/ {"SizeTable"} \subseteq {"WrapInput", "CopyInput", "CopyEncDescs", "ZeroSizes"}
        BY <1>2 DEF Opening, If
    <2>2. \A o \in {"SizeTable"} : o \in EncodeOps /\ o \notin Uploads /\ OpRank[o] = Rank[step] /\ o \notin {"FrameAssemble", "Download"}
        BY <1>2, StepRanks, OpRanks DEF EncodeOps, Uploads
    <2> QED BY <2>1, <2>2 DEF Encodes
<1>6. Encoding
    BY <1>2, AtWork, StepOf DEF Encoding, IsSync
<1>7. Launching(device, device', "null", "SizeTable")
    <2> HIDE DEF there
    <2> QED BY <1>1, <1>5, <1>6, Encode1
<1>8. \E d : Launching(d, device', "null", "SizeTable")
    BY <1>7
<1>9. there \in Opening(Req) \/ step \notin Opening(Req)
    BY <1>2 DEF Opening, If
<1>10. OrderInv'
    <2> HIDE DEF there
    <2> QED BY <1>1, <1>4, <1>8, <1>9, Waits
<1> QED BY <1>7, <1>10

\* ReadBack, the blocking copies of sizes and raw streams.
LEMMA ReadBackStep ==
    ASSUME OrderInv, ReadBack
    PROVE  /\ OrderInv'
           /\ IF Req.entropy THEN Encoded2(device, device', "ReadSizes", "ReadRaw")
              ELSE Launching(device, device', "null", "ReadSizes")
<1> DEFINE there == IF Req.entropy THEN "lit" ELSE "measure"
           ops == IF Req.entropy THEN <<"ReadSizes", "ReadRaw">> ELSE <<"ReadSizes">>
<1>1. Compresses("sizes") /\ Goto(there) /\ SameFlags /\ OnNull(ops) /\ waiting' = {Op(o) : o \in Range(ops)}
    BY DEF ReadBack, Blocks
<1>2. step = "sizes" /\ Req.job = "compress" /\ Req \in Request /\ step \in Route(Req) /\ waiting = {} /\ call \in Calls
    BY <1>1, AtWork DEF Compresses, At
<1>3. there \in Route(Req) /\ Rank["sizes"] < Rank[there] /\ there \notin QuietSteps(Req)
    BY <1>2, StepRanks DEF Route, QuietSteps, HuffPasses, If
<1>4. Steps /\ step' = there /\ step \notin BackSteps
    <2> HIDE DEF there, ops
    <2> QED BY <1>1, <1>3, EncodeGoing
<1>5. \A o \in {"ReadSizes", "ReadRaw"} : Encodes(o)
    BY <1>2, StepRanks, OpRanks DEF Encodes, EncodeOps, Uploads, Opening, If
<1>6. Encoding /\ step \notin Opening(Req)
    BY <1>2, StepRanks DEF Encoding, Opening, If
<1>7. CASE Req.entropy
    <2>1. Encoded2(device, device', "ReadSizes", "ReadRaw")
        BY <1>1, <1>5, <1>6, <1>7, Encode2
    <2>2. PICK d : Launching(device, d, "null", "ReadSizes") /\ Launching(d, device', "null", "ReadRaw")
        BY <2>1 DEF Encoded2
    <2>3. waiting' = {Op("ReadSizes"), Op("ReadRaw")}
        <3>1. Range(<<"ReadSizes", "ReadRaw">>) = {"ReadSizes", "ReadRaw"}
            BY DEF Range
        <3> QED BY <1>1, <1>7, <3>1
    <2>4. waiting' \subseteq Cuda!Queued(device') /\ Working(device')
        <3>1. Op("ReadSizes") \in Cuda!Queued(d) /\ Op("ReadRaw") \in Cuda!Queued(device') /\ Working(device')
              /\ Cuda!Queued(d) \subseteq Cuda!Queued(device')
            BY <2>2, QueuedByLaunch
        <3> QED BY <2>3, <3>1
    <2>5. Upto(device', {Op("ReadRaw")}) = Legacy(device')
        BY <2>2 DEF Launching, Grown
    <2>6. ASSUME NEW id \in Cuda!Queued(device') \ Upto(device', waiting') PROVE IsFree(id) /\ Own(id)
        <3>1. Upto(device', {Op("ReadRaw")}) \subseteq Upto(device', waiting')
            <4>1. WellQueued(device') /\ Op("ReadRaw") \in Upto(device', waiting')
                BY <2>3, <2>4, UptoClosed DEF Working, Sound, Shape
            <4> QED BY <4>1, UptoWithin
        <3>2. id \notin Legacy(device') /\ BehindNull(device', id) /\ Own(id)
            BY <1>6, <2>4, <2>5, <2>6, <3>1 DEF Working
        <3> QED BY <1>2, <3>2 DEF BehindNull, InBackHalf
    <2>7. /\ SameCall /\ step' \in Route(Req) /\ Rank[step] < Rank[step'] /\ FlagsTyped' /\ step # "gather"
          /\ step' # "barrier" /\ \A id \in Cuda!Queued(device') : ~GatherPends(device', id)
        BY <1>2, <1>3, <1>4 DEF Steps, GatherPends, GatherSteps
    <2>8. OrderInv'
        BY <1>2, <2>4, <2>6, <2>7, Advance DEF FlagsTyped
    <2> QED BY <1>7, <2>1, <2>8
<1>8. CASE ~Req.entropy
    <2>1. OnNull(<<"ReadSizes">>) /\ waiting' = {Op("ReadSizes")}
        <3>1. Range(<<"ReadSizes">>) = {"ReadSizes"}
            BY DEF Range
        <3> QED BY <1>1, <1>8, <3>1
    <2>2. Launching(device, device', "null", "ReadSizes")
        BY <1>5, <1>6, <2>1, Encode1
    <2> QED BY <1>4, <1>6, <1>8, <2>1, <2>2, Waits
<1> QED BY <1>7, <1>8

\* HuffEncode of any of the three.
LEMMA HuffEncodeStep ==
    ASSUME OrderInv, NEW x \in HuffPasses, HuffEncode(x)
    PROVE  /\ OrderInv'
           /\ x = "lit" => Encoded4(device, device', "DescsLit", "TablesLit", "EncodeLit", "SizesLit")
           /\ x = "tok" => Encoded4(device, device', "DescsTok", "TablesTok", "EncodeTok", "SizesTok")
           /\ x = "off16" => Encoded4(device, device', "DescsOff16", "TablesOff16", "EncodeOff16", "SizesOff16")
BY HuffLitStep, HuffTokStep, HuffOff16Step DEF HuffPasses

\* When the frame is assembled the context has been drained: nothing of the handle is queued.
LEMMA NothingQueued ==
    ASSUME OrderInv, waiting = {}, call \in Calls, Req.job = "compress",
           \/ step = "frame"
           \/ IsSync(Req) /\ step \in {"table", "finalize", "download"}
    PROVE  Cuda!Queued(device) = {}
<1>1. /\ Req \in Request /\ step \in Route(Req) /\ Working(device)
      /\ step \in QuietSteps(Req) => \A id \in Cuda!Queued(device) : Aside(device, id)
    BY AtWork
<1>2. step \in QuietSteps(Req) /\ step \notin Opening(Req) /\ step # "return"
    BY DEF QuietSteps, Opening, IsSync, If
<1>3. \A id \in Cuda!Queued(device) : IsFree(id) /\ id.call = call
    BY <1>1, <1>2 DEF Aside, InBackHalf, Working, Own
<1>4. NoFree(device)
    BY EncodeStart, StepRanks
<1> QED BY <1>3, <1>4 DEF NoFree

\* With nothing queued the caller's stream takes what it is given.
LEMMA AloneWorks ==
    ASSUME OrderInv, waiting = {}, call \in Calls, Cuda!Queued(device) = {},
           NEW o \in Ops(Req) \cap {"FrameAssemble", "Download"}, OpRank[o] <= Rank[step],
           NEW e, e = Cuda!Launch(device, WorkStream, Op(o))
    PROVE  Launching(device, e, WorkStream, o)
<1>1. Req \in Request /\ Working(device)
    BY AtWork
<1>2. WorkStream \in {"null", "caller", "free"}
    BY <1>1 DEF WorkStream, Request
<1>3. Safe(device, WorkStream, o)
    BY <1>1, <1>2 DEF Safe, Working, Sound, Streams, Covered, Uploads
<1>4. Fits(WorkStream, o)
    BY <1>2 DEF Fits, IsFree, Op, Req, WorkStream
<1> QED BY <1>1, <1>3, <1>4, LaunchWorks

\* FrameAssemble, the only kernel of a compression on the caller's stream.
LEMMA FrameStep ==
    ASSUME OrderInv, FrameAssemble
    PROVE  OrderInv' /\ Launching(device, device', WorkStream, "FrameAssemble") /\ Cuda!Queued(device) = {}
<1> DEFINE there == AfterFrame(Req)
<1>1. Compresses("frame") /\ Goto(there) /\ SameFlags /\ device' = Cuda!Launch(device, WorkStream, Op("FrameAssemble"))
      /\ waiting' = IF WorkStream = "null" THEN Cuda!Queued(device') ELSE {}
    BY Queue1 DEF FrameAssemble
<1>2. step = "frame" /\ Req.job = "compress" /\ Req \in Request /\ step \in Route(Req) /\ waiting = {} /\ call \in Calls
      /\ (Req.source = "host" => Req.stream = "null") /\ Req.source \in {"host", "device"}
      /\ Req.stream \in {"null", "caller", "free"}
    BY <1>1, AtWork, StepOf DEF Compresses, At
<1>3. there \in Route(Req) /\ Rank["frame"] < Rank[there] /\ there \notin {"barrier", "return"}
    BY <1>2, StepRanks DEF AfterFrame, Route, If
<1>4. Steps /\ step' = there /\ step \notin BackSteps
    <2> HIDE DEF there
    <2> QED BY <1>1, <1>3, EncodeGoing
<1>5. Cuda!Queued(device) = {}
    BY <1>2, NothingQueued
<1>6. "FrameAssemble" \in Ops(Req) /\ OpRank["FrameAssemble"] <= Rank[step]
    BY <1>2, StepRanks, OpRanks DEF Ops, EncodeOps
<1>7. Launching(device, device', WorkStream, "FrameAssemble")
    BY <1>1, <1>2, <1>5, <1>6, AloneWorks
<1>8. Working(device') /\ Cuda!Queued(device') = {Op("FrameAssemble")}
    BY <1>5, <1>7, QueuedByLaunch
<1>9. CASE WorkStream = "null"
    <2>1. waiting' = Cuda!Queued(device')
        BY <1>1, <1>9
    <2> HIDE DEF there
    <2> QED BY <1>3, <1>4, <1>5, <1>7, <1>8, <2>1, Drains
<1>10. CASE WorkStream # "null"
    <2>1. waiting' = {} /\ step \notin Opening(Req)
        BY <1>1, <1>2, <1>10 DEF Opening, If
    <2>2. there \in QuietSteps(Req) => \A id \in Cuda!Queued(device') : IsFree(id)
        <3>1. there \in QuietSteps(Req) => Req.stream = "free"
            BY <1>2, <1>10 DEF AfterFrame, QuietSteps, WorkStream, If
        <3> QED BY <1>8, <3>1 DEF IsFree, Op, Req
    <2> HIDE DEF there
    <2> QED BY <1>3, <1>4, <1>5, <1>7, <1>8, <2>1, <2>2, Continues
<1> QED BY <1>5, <1>7, <1>9, <1>10

\* RootWrite is on the null stream while the assembly may still run on the caller's.
LEMMA RootStep ==
    ASSUME OrderInv, RootWrite
    PROVE  OrderInv' /\ Launching(device, device', "null", "RootWrite")
<1> DEFINE there == IF Req.source = "host" THEN "finalize" ELSE "download"
<1>1. Compresses("root") /\ Goto(there) /\ SameFlags /\ device' = Cuda!Launch(device, "null", Op("RootWrite"))
      /\ waiting' = Cuda!Queued(device')
    BY Queue1 DEF RootWrite, OnNull, DrainsContext
<1>2. step = "root" /\ Req.job = "compress" /\ Req \in Request /\ step \in Route(Req) /\ waiting = {} /\ call \in Calls
      /\ Req.source \in {"host", "device"} /\ plan \in Plans /\ Working(device)
    BY <1>1, AtWork, StepOf DEF Compresses, At
<1>3. there \in Route(Req) /\ Rank["root"] < Rank[there] /\ there # "barrier"
    BY <1>2, StepRanks DEF Route, If
<1>4. Steps /\ step' = there /\ step \notin BackSteps
    <2> HIDE DEF there
    <2> QED BY <1>1, <1>3, EncodeGoing
<1>5. "RootWrite" \in EncodeOps /\ "RootWrite" \in Ops(Req) /\ "RootWrite" \notin Uploads
      /\ OpRank["RootWrite"] = Rank[step] /\ step \notin Opening(Req)
    BY <1>2, StepRanks, OpRanks DEF Ops, EncodeOps, Uploads, Opening, If
<1>6. Op("RootWrite") \notin Cuda!Queued(device) /\ OpRank["RootWrite"] <= Rank[step]
    BY <1>2, <1>5, EncodeNotYet
<1>7. ASSUME NEW i \in Cuda!Queued(device), IsFree(i) PROVE ~Conflict(i, Op("RootWrite"))
    <2>1. i.call = call /\ i = [call |-> i.call, op |-> i.op]
        BY <1>2, <1>5, <1>7 DEF Working, Sound, Known, Own
    <2>2. OpRank[i.op] < Rank[step]
        BY <2>1 DEF OrderInv, Fresh
    <2>3. i.op # "Download"
        BY <1>2, <2>2, StepRanks, OpRanks
    <2>4. i = Op("FrameAssemble")
        BY <1>7, <2>1, <2>3 DEF IsFree, Op
    <2> QED BY <1>2, <2>4, FreeApartRoot
<1>8. Launching(device, device', "null", "RootWrite")
    <2>1. ~IsFree(Op("RootWrite"))
        BY DEF IsFree, Op
    <2> QED BY <1>1, <1>2, <1>4, <1>5, <1>6, <1>7, <2>1, NullWorks
<1>9. Working(device')
    BY <1>8, QueuedByLaunch
<1>10. OrderInv'
    <2> HIDE DEF there
    <2> QED BY <1>1, <1>3, <1>4, <1>9, Drains
<1> QED BY <1>8, <1>10

-----------------------------------------------------------------------------
(* The end of a call *)

\* FinalizeOutput, the host path's blocking copy of the result.
LEMMA FinalizeStep ==
    ASSUME OrderInv, FinalizeOutput
    PROVE  OrderInv' /\ Launching(device, device', "null", "Download")
<1>1. step = "finalize" /\ waiting = {} /\ call \in Calls /\ Goto("return") /\ SameFlags
      /\ device' = Queue(device, "null", <<"Download">>) /\ waiting' = {Op("Download")}
    BY DEF FinalizeOutput, At, Blocks
<1>2. Req \in Request /\ step \in Route(Req) /\ (Req.source = "host" => Req.stream = "null")
    BY <1>1, AtWork
<1>3. Req.job \in {"decompress", "compress"} /\ Req.source = "host" /\ IsSync(Req)
    BY <1>1, <1>2, StepOf DEF IsSync
<1>4. "return" \in Route(Req) /\ step \notin BackSteps /\ step \notin Opening(Req)
    BY <1>1 DEF Route, BackSteps, Opening, If
<1>5. Steps /\ step' = "return"
    BY <1>1, <1>4, Going, StepRanks DEF GatherStays, GatherSteps
<1>6. CASE Req.job = "decompress"
    <2>1. "Download" \in DecodeOps \ Uploads /\ OpRank["Download"] = Rank[step]
        BY <1>1, StepRanks, OpRanks DEF DecodeOps, Uploads
    <2> QED BY <1>1, <1>4, <1>5, <1>6, <2>1, NullWait
<1>7. CASE Req.job = "compress"
    <2>1. Encoding /\ Encodes("Download") /\ OnNull(<<"Download">>)
        BY <1>1, <1>3, <1>4, <1>7, StepRanks, OpRanks DEF Encoding, Encodes, EncodeOps, Uploads, OnNull
    <2>2. Launching(device, device', "null", "Download")
        BY <2>1, Encode1
    <2> QED BY <1>1, <1>4, <1>5, <2>2, Waits
<1> QED BY <1>3, <1>6, <1>7

\* CallerDownload, the application's copy of the result on its own stream.
LEMMA DownloadStep ==
    ASSUME OrderInv, CallerDownload
    PROVE  OrderInv' /\ Launching(device, device', WorkStream, "Download")
<1>1. step = "download" /\ waiting = {} /\ call \in Calls /\ Goto("return") /\ SameFlags
      /\ device' = Cuda!Launch(device, WorkStream, Op("Download")) /\ waiting' = {}
    BY Queue1 DEF CallerDownload, At, Returns
<1>2. /\ Req \in Request /\ step \in Route(Req) /\ Working(device) /\ plan \in Plans /\ refused \subseteq 1 .. call - 1
      /\ step \in QuietSteps(Req) => \A id \in Cuda!Queued(device) : Aside(device, id)
    BY <1>1, AtWork
<1>3. Req.job \in {"decompress", "compress"} /\ Req.stream \in {"null", "caller", "free"}
    BY <1>2, StepOf
<1>4. /\ "return" \in Route(Req) /\ step \notin BackSteps /\ step \notin Opening(Req) /\ step \notin GatherSteps
      /\ "return" \in QuietSteps(Req) => step \in QuietSteps(Req)
    BY <1>1 DEF Route, BackSteps, Opening, GatherSteps, QuietSteps, If
<1>5. Steps /\ step' = "return"
    BY <1>1, <1>4, Going, StepRanks DEF GatherStays, GatherSteps
<1>6. /\ "Download" \in Ops(Req) /\ "Download" \notin Uploads /\ OpRank["Download"] <= Rank[step]
      /\ Op("Download") \notin Cuda!Queued(device) /\ "Download" \in DecodeOps /\ "Download" \in EncodeOps
    <2>1. "Download" \in DecodeOps /\ "Download" \in EncodeOps /\ "Download" \notin Uploads
          /\ OpRank["Download"] = Rank[step]
        BY <1>1, StepRanks, OpRanks DEF DecodeOps, EncodeOps, Uploads
    <2> QED BY <1>1, <1>3, <2>1, NotYet, EncodeNotYet DEF Ops
<1>7. Launching(device, device', WorkStream, "Download")
    <2>1. CASE Req.stream = "caller"
        BY <1>1, <1>2, <1>4, <1>6, <2>1, CallerWorks DEF WorkStream
    <2>2. CASE Req.stream = "null" /\ Req.job = "decompress"
        BY <1>1, <1>2, <1>4, <1>6, <2>2, NullWorksDecode DEF WorkStream
    <2>3. CASE Req.stream = "null" /\ Req.job = "compress"
        <3>1. Cuda!Queued(device) = {}
            BY <1>1, <2>3, NothingQueued DEF IsSync
        <3> QED BY <1>1, <1>6, <3>1, AloneWorks
    <2>4. CASE Req.stream = "free"
        <3>1. Req.job = "compress"
            BY <1>1, <1>2, <1>3, <2>4, DecodeStream
        <3>2. \A i \in Cuda!Queued(device) : i \in Ahead(device, "free") /\ i.op \notin Uploads
            <4>1. step \in QuietSteps(Req)
                BY <1>1, <2>4, <3>1 DEF QuietSteps, If
            <4> QED BY <1>1, <1>2, <3>1, <4>1 DEF Aside, InBackHalf, Working, Sound, BehindFree, IsFree, Uploads
        <3>3. Safe(device, "free", "Download") /\ Fits("free", "Download")
            BY <1>2, <1>6, <2>4, <3>2 DEF Safe, Working, Sound, Streams, Covered, Cover, Fits, IsFree, Op, Req
        <3> QED BY <1>1, <1>2, <2>4, <3>3, LaunchWorks DEF WorkStream
    <2> QED BY <1>3, <2>1, <2>2, <2>3, <2>4
<1>8. OrderInv'
    <2>1. Working(device') /\ Cuda!Queued(device') = Cuda!Queued(device) \cup {Op("Download")}
        BY <1>7, QueuedByLaunch
    <2>2. "return" \in QuietSteps(Req) =>
              \A id \in Cuda!Queued(device') : IsFree(id) \/ (id.call = call /\ id.op = "Download")
        <3>1. Op("Download").call = call /\ Op("Download").op = "Download"
            BY DEF Op
        <3> QED BY <1>1, <1>2, <1>4, <2>1, <3>1 DEF Aside, InBackHalf
    <2> QED BY <1>1, <1>4, <1>5, <2>1, <2>2, Continues
<1> QED BY <1>7, <1>8

\* The host goes on to the next call: this one has left nothing it should not, or is refused.
LEMMA NextCallKeeps ==
    ASSUME OrderInv, waiting = {}, call \in Calls, step \notin BackSteps, NextCall,
           refused' = refused \/ refused' = refused \cup {call}, dictCached' \in Nat,
           step \in GatherSteps \/ step = "gather" => call \in refused',
           call \notin refused' =>
               \A id \in Cuda!Queued(device) :
                   id.call = call => /\ id.op # "Download" => IsAsync(call)
                                     /\ Req.stream = "free" => IsFree(id)
    PROVE  OrderInv'
<1>1. /\ plan' = plan /\ call' = call + 1 /\ step' = "submit" /\ waiting' = {} /\ device' = device
      /\ overlap' = overlap /\ gatherPending' = gatherPending
    BY DEF NextCall
<1>2. /\ Working(device) /\ plan \in Plans /\ refused \subseteq 1 .. call - 1
    BY AtWork
<1>3. call \in Nat /\ call >= 1 /\ call <= Len(plan) /\ Len(plan) \in Nat /\ Calls' = Calls
    BY <1>1, <1>2, PlansAssumption DEF Calls
<1>4. HostTyped'
    <2>1. IF (call \in Calls)' THEN (step \in Route(Req))' ELSE (step = "submit")'
        BY <1>1 DEF Route
    <2>2. refused' \subseteq 1 .. call' - 1 /\ call' \in 1 .. Len(plan') + 1
        <3>1. call' - 1 = call /\ call' \in 1 .. Len(plan') + 1
            BY <1>1, <1>3
        <3>2. \A x \in refused : x \in 1 .. call
            BY <1>2, <1>3
        <3>3. call \in 1 .. call
            BY <1>3
        <3> QED BY <3>1, <3>2, <3>3
    <2>3. overlap' \in BOOLEAN /\ gatherPending' \in BOOLEAN
        BY <1>1 DEF OrderInv, HostTyped
    <2> QED BY <1>1, <1>2, <2>1, <2>2, <2>3 DEF HostTyped
<1>5. ASSUME NEW id \in Cuda!Queued(device)
      PROVE  /\ id.call \in Calls /\ id.call <= call /\ id.call \in Nat
             /\ (Known(id) /\ BehindFree(device, id) /\ BehindCaller(device, id) /\ Leaves(id) /\ BehindNull(device, id))'
    <2>1. Known(id) /\ BehindFree(device, id) /\ BehindCaller(device, id) /\ Leaves(id) /\ BehindNull(device, id)
        BY <1>2 DEF Working, Sound
    <2>2. id.call \in Calls /\ id.call <= call /\ id.call \in Nat /\ id.call # call'
        BY <1>1, <1>3, <2>1 DEF Known, Calls
    <2>3. Known(id)'
        BY <1>1, <1>3, <2>1, <2>2 DEF Known
    <2>4. BehindFree(device, id)'
        BY <1>1, <2>1 DEF BehindFree, IsFree
    <2>5. BehindCaller(device, id)'
        <3>1. Gathers(id) \/ GatherPends(device, id) => id.call \in refused'
            BY DEF Gathers, GatherPends
        <3>2. refused \subseteq refused' /\ (IsFree(id))' = IsFree(id)
            BY <1>1 DEF IsFree
        <3> QED BY <1>1, <2>1, <3>1, <3>2 DEF BehindCaller
    <2>6. Leaves(id)'
        <3>1. CASE id.call < call
            BY <1>1, <2>1, <3>1 DEF Leaves, IsAsync, IsFree
        <3>2. CASE id.call = call
            <4>1. IsAsync(id.call)' = IsAsync(call) /\ IsFree(id)' = IsFree(id) /\ plan'[id.call] = Req
                BY <1>1, <3>2 DEF IsAsync, IsFree, Req
            <4> QED BY <1>1, <3>2, <4>1 DEF Leaves
        <3>3. id.call < call \/ id.call = call
            BY <1>3, <2>2
        <3> QED BY <3>1, <3>2, <3>3
    <2>7. BehindNull(device, id)'
        BY <1>1, <2>1 DEF BehindNull, InBackHalf, IsFree
    <2> QED BY <2>2, <2>3, <2>4, <2>5, <2>6, <2>7
<1>6. Sound(device)'
    <2>1. Shape(device) /\ Ordered(device) /\ UploadsFirst(device)
        BY <1>2 DEF Working, Sound
    <2>2. UploadsFirst(device)'
        BY <1>1, <2>1 DEF UploadsFirst, IsAsync
    <2>3. Ordered(device)'
        <3>1. \A i : (Reads(i))' = Reads(i) /\ (Writes(i))' = Writes(i)
            BY <1>1 DEF Reads, Writes, Place
        <3> QED BY <1>1, <2>1, <3>1 DEF Ordered, Conflict
    <2> QED BY <1>1, <1>5, <2>1, <2>2, <2>3 DEF Sound
<1>7. Fresh'
    BY <1>1, <1>3, <1>5 DEF Fresh
<1>8. BarrierOnNull'
    BY <1>1 DEF BarrierOnNull
<1>9. \A id \in Left' : Gone(id)'
    <2>1. Left' \subseteq Cuda!Queued(device)
        BY <1>1 DEF Left
    <2>2. step' \in Opening(Req') /\ step' \notin QuietSteps(Req')
        BY <1>1 DEF Opening, QuietSteps, If
    <2> QED BY <1>5, <2>1, <2>2 DEF Gone
<1> QED BY <1>4, <1>6, <1>7, <1>8, <1>9 DEF OrderInv

\* Return.
LEMMA ReturnStep ==
    ASSUME OrderInv, Return
    PROVE  OrderInv'
<1>1. step = "return" /\ waiting = {} /\ call \in Calls /\ NextCall /\ refused' = refused /\ dictCached' = dictCached
    BY DEF Return, At
<1>2. /\ Req \in Request /\ step \in Route(Req) /\ Working(device) /\ plan \in Plans
      /\ step \in QuietSteps(Req) => \A id \in Cuda!Queued(device) : Aside(device, id)
    BY <1>1, AtWork
<1>3. Req.job \in {"decompress", "compress"} /\ Req.stream \in {"null", "caller", "free"}
    BY <1>2, StepOf
<1>4. step \notin BackSteps /\ step \notin GatherSteps /\ step # "gather" /\ dictCached' \in Nat
    BY <1>1 DEF BackSteps, GatherSteps, OrderInv, HostTyped
<1>5. ASSUME NEW id \in Cuda!Queued(device), id.call = call
      PROVE  /\ id.op # "Download" => IsAsync(call)
             /\ Req.stream = "free" => IsFree(id)
    <2>1. CASE Req.stream = "caller"
        BY <2>1 DEF IsAsync, Req
    <2>2. CASE Req.stream = "null"
        <3>1. step \in QuietSteps(Req)
            BY <1>1, <1>3, <2>2 DEF QuietSteps, IsSync, If
        <3> QED BY <1>1, <1>2, <1>5, <2>2, <3>1 DEF Aside, InBackHalf, BackSteps, IsFree, Req
    <2>3. CASE Req.stream = "free"
        <3>1. Req.job = "compress"
            BY <1>1, <1>2, <1>3, <2>3, DecodeStream
        <3>2. step \in QuietSteps(Req)
            BY <1>1, <2>3, <3>1 DEF QuietSteps, If
        <3>3. IsFree(id)
            BY <1>2, <1>5, <2>3, <3>1, <3>2 DEF Aside, InBackHalf, IsFree, Req
        <3> QED BY <2>3, <3>3 DEF IsAsync, Req
    <2> QED BY <1>3, <2>1, <2>2, <2>3
<1> QED BY <1>1, <1>4, <1>5, NextCallKeeps

\* NothingToRead.
LEMMA NothingStep ==
    ASSUME OrderInv, NothingToRead
    PROVE  OrderInv'
<1>1. step = "submit" /\ waiting = {} /\ call \in Calls /\ NextCall /\ refused' = refused \cup {call}
      /\ dictCached' = dictCached
    BY DEF NothingToRead, At
<1>2. step \notin BackSteps /\ step \notin GatherSteps /\ step # "gather" /\ dictCached' \in Nat
    BY <1>1 DEF BackSteps, GatherSteps, OrderInv, HostTyped
<1> QED BY <1>1, <1>2, NextCallKeeps

\* Fail: a call that is refused leaves what it queued, and waits for none of it.
LEMMA FailStep ==
    ASSUME OrderInv, Fail
    PROVE  OrderInv'
<1>1. waiting = {} /\ call \in Calls /\ NextCall /\ refused' = refused \cup {call} /\ step \in FailingSteps
      /\ dictCached' \in {0, dictCached}
    BY DEF Fail, At, ForgottenDict
<1>2. step \notin BackSteps /\ dictCached' \in Nat
    BY <1>1, PlansAssumption DEF BackSteps, FrontHalf, OrderInv, HostTyped
<1> QED BY <1>1, <1>2, NextCallKeeps

-----------------------------------------------------------------------------
(* The device starts and finishes operations *)

\* The queue only gets shorter, in the order it had.
Shorter(d, e) ==
    /\ Shape(e) /\ Ordered(e) /\ Cuda!Queued(e) \subseteq Cuda!Queued(d)
    /\ \A s \in Streams : \A id \in Cuda!Queued(e) : id \in Ahead(d, s) => id \in Ahead(e, s)
    /\ \A v \in Events : \A id \in Cuda!Queued(e) :
           id \in Upto(d, d.event[v]) => id \in Upto(e, e.event[v])
    /\ \A i, j \in Cuda!Queued(e) : i \in Upto(d, {j}) => i \in Upto(e, {j})
    /\ \A s, t \in Streams : d.front[s] \subseteq d.front[t] => e.front[s] \subseteq e.front[t]
HostRests == /\ UNCHANGED <<plan, call, step, overlap, gatherPending, dictCached, refused>>
             /\ waiting' \subseteq Cuda!Queued(device') /\ Left' \subseteq Left

\* A device that only makes progress keeps the invariant.
LEMMA DeviceKeeps ==
    ASSUME OrderInv, Shorter(device, device'), HostRests
    PROVE  OrderInv'
<1> DEFINE d == device
           e == device'
<1>1. /\ plan' = plan /\ call' = call /\ step' = step /\ overlap' = overlap /\ gatherPending' = gatherPending
      /\ dictCached' = dictCached /\ refused' = refused /\ Req' = Req /\ Calls' = Calls
      /\ waiting' \subseteq Cuda!Queued(device') /\ Left' \subseteq Left
    BY DEF HostRests, Req, Calls
<1>2. /\ Cuda!Queued(e) \subseteq Cuda!Queued(d)
      /\ \A s \in Streams : \A id \in Cuda!Queued(e) : id \in Ahead(d, s) => id \in Ahead(e, s)
    BY DEF Shorter
<1>3. HostTyped'
    BY <1>1 DEF OrderInv, HostTyped
<1>4. \A id \in Cuda!Queued(e) : id \in Legacy(d) => id \in Legacy(e)
    BY <1>2 DEF Legacy, Streams
<1>5. ASSUME NEW id \in Cuda!Queued(e)
      PROVE  /\ (Known(id) /\ BehindFree(device, id) /\ BehindCaller(device, id) /\ Leaves(id))'
             /\ BehindNull(d, id) => BehindNull(device, id)'
             /\ Aside(d, id) => Aside(device, id)'
    <2>1. Known(id) /\ BehindFree(d, id) /\ BehindCaller(d, id) /\ Leaves(id)
        BY <1>2 DEF OrderInv, Sound
    <2>2. (Known(id) /\ Leaves(id))' /\ (IsFree(id))' = IsFree(id)
        BY <1>1, <2>1 DEF Known, Leaves, IsAsync, IsFree
    <2>3. InBackHalf(d, id) => InBackHalf(device, id)'
        BY <1>1, <1>2 DEF InBackHalf, Streams
    <2>4. BehindFree(device, id)'
        BY <1>2, <2>1, <2>2 DEF BehindFree, Streams
    <2>5. GatherPends(d, id) => GatherPends(device, id)'
        BY <1>1 DEF GatherPends, Shorter, Events
    <2>6. (Gathers(id))' = Gathers(id)
        BY <1>1 DEF Gathers
    <2>7. id \in Ahead(d, "caller") => id \in Ahead(e, "caller")
        BY <1>2 DEF Streams
    <2>8. BehindCaller(device, id)'
        BY <1>1, <2>1, <2>2, <2>5, <2>6, <2>7 DEF BehindCaller
    <2>9. BehindNull(d, id) => BehindNull(device, id)'
        BY <1>4, <2>2, <2>3 DEF BehindNull
    <2>10. Aside(d, id) => Aside(device, id)'
        BY <1>1, <2>2, <2>3 DEF Aside
    <2> QED BY <2>2, <2>4, <2>8, <2>9, <2>10
<1>6. Sound(device)'
    <2>1. Ordered(device)'
        <3>1. \A i : (Reads(i))' = Reads(i) /\ (Writes(i))' = Writes(i)
            BY <1>1 DEF Reads, Writes, Place
        <3> QED BY <3>1 DEF Shorter, Ordered, Conflict
    <2>2. UploadsFirst(device)'
        <3>1. \A i : (IsAsync(i.call))' = IsAsync(i.call)
            BY <1>1 DEF IsAsync
        <3> QED BY <1>2, <3>1 DEF OrderInv, Sound, UploadsFirst, Shorter, Streams
    <2> QED BY <1>5, <2>1, <2>2 DEF Sound, Shorter
<1>7. Fresh'
    BY <1>1, <1>2 DEF OrderInv, Fresh
<1>8. BarrierOnNull'
    BY <1>1 DEF OrderInv, BarrierOnNull, Shorter, Streams, Blocking
<1>9. ASSUME NEW id \in Left' PROVE Gone(id)'
    <2>1. Gone(id) /\ id \in Cuda!Queued(e)
        BY <1>1 DEF OrderInv, Left
    <2>2. (Own(id))' = Own(id)
        BY <1>1 DEF Own, IsFree
    <2> QED BY <1>1, <1>5, <2>1, <2>2 DEF Gone
<1> QED BY <1>3, <1>6, <1>7, <1>8, <1>9 DEF OrderInv

\* Start.
LEMMA StartStep ==
    ASSUME OrderInv, Start
    PROVE  OrderInv'
<1>1. PICK x \in Cuda!Startable(device) : device' = Cuda!Started(device, x)
    BY DEF Start
<1>2. Shape(device) /\ Ordered(device)
    BY DEF OrderInv, Sound
<1>3. /\ Shape(device') /\ device'.after = device.after /\ device'.front = device.front
      /\ device'.event = device.event
    BY <1>1, <1>2, Starts
<1>4. Cuda!Queued(device') = Cuda!Queued(device) /\ \A X : Upto(device', X) = Upto(device, X)
    BY <1>3, SameOrder
<1>5. Ordered(device')
    BY <1>2, <1>4 DEF Ordered
<1>6. Shorter(device, device')
    BY <1>3, <1>4, <1>5 DEF Shorter, Ahead
<1>7. HostRests
    BY <1>4 DEF Start, HostRests, Left, OrderInv, HostTyped
<1> QED BY <1>6, <1>7, DeviceKeeps

\* Finish.
LEMMA FinishStep ==
    ASSUME OrderInv, Finish
    PROVE  OrderInv'
<1>1. PICK x \in device.running : device' = Cuda!Finished(device, x) /\ waiting' = waiting \ {x}
    BY DEF Finish
<1>2. Shape(device) /\ Ordered(device) /\ waiting \subseteq Cuda!Queued(device)
    BY DEF OrderInv, Sound, HostTyped
<1>3. AfterFinish(device, device', x)
    BY <1>1, <1>2, Finishes
<1>4. Ordered(device')
    BY <1>1, <1>2, FinishOrders
<1>5. Shorter(device, device')
    <2>1. \A v \in Events : Upto(device', device'.event[v]) = Upto(device, device.event[v]) \ {x}
        BY <1>2, <1>3 DEF AfterFinish, Shape
    <2> QED BY <1>3, <1>4, <2>1 DEF AfterFinish, Shorter
<1>6. HostRests
    <2>1. Upto(device', waiting \ {x}) = Upto(device, waiting) \ {x} /\ Cuda!Queued(device') = Cuda!Queued(device) \ {x}
        BY <1>2, <1>3 DEF AfterFinish
    <2> QED BY <1>1, <1>2, <2>1 DEF Finish, HostRests, Left
<1> QED BY <1>5, <1>6, DeviceKeeps

\* Nothing is queued at the start.
LEMMA Initially == Init => OrderInv
<1> SUFFICES ASSUME Init PROVE OrderInv
    OBVIOUS
<1>1. /\ plan \in Plans /\ call = 1 /\ step = "submit" /\ waiting = {} /\ device = Cuda!IdleDevice
      /\ overlap = FALSE /\ gatherPending = FALSE /\ dictCached = 0 /\ refused = {}
    BY DEF Init
<1>2. Cuda!Queued(device) = {}
    BY <1>1 DEF Cuda!IdleDevice, Cuda!Queued
<1>3. Shape(device)
    BY <1>1, <1>2 DEF Cuda!IdleDevice, Shape, WellQueued
<1>4. Sound(device) /\ Fresh /\ BarrierOnNull /\ Left = {}
    BY <1>1, <1>2, <1>3 DEF Sound, Ordered, UploadsFirst, Fresh, BarrierOnNull, Left
<1>5. HostTyped
    <2>1. plan \in Seq(Request) /\ Len(plan) \in Nat
        BY <1>1, PlansAssumption
    <2>2. call \in 1 .. Len(plan) + 1 /\ refused \subseteq 1 .. call - 1 /\ waiting \subseteq Cuda!Queued(device)
        BY <1>1, <2>1
    <2>3. step = "submit" /\ "submit" \in Route(Req)
        BY <1>1 DEF Route
    <2>4. overlap \in BOOLEAN /\ gatherPending \in BOOLEAN /\ dictCached \in Nat
        BY <1>1
    <2> QED BY <1>1, <2>2, <2>3, <2>4 DEF HostTyped
<1> QED BY <1>4, <1>5 DEF OrderInv

\* OrderInv is inductive.
LEMMA Inductive == OrderInv /\ [Next]_vars => OrderInv'
<1> SUFFICES ASSUME OrderInv, [Next]_vars PROVE OrderInv'
    OBVIOUS
<1>1. CASE HostStep
    <2>1. ASSUME Submit \/ ReadHeader \/ EnsureDict \/ WalkFrame \/ UploadDescs \/ PrefixSumAndUploadBlock
          PROVE  OrderInv'
        BY <2>1, SubmitStep, ReadHeaderStep, EnsureDictStep, WalkStep, DescsStep, BlockStep
    <2>2. ASSUME StageScan \/ ScanChunks \/ GatherRawOff16 \/ MergeHuffDescs \/ CrossStreamBarrier \/ StageGroupCount
          PROVE  OrderInv'
        BY <2>2, StageStep, ScanStep, GatherStep, MergeStep, BarrierStep, GroupsStep
    <2>3. ASSUME HuffBuildAndDecode \/ LzPipeline \/ SettleBackHalf \/ MerkleVerify \/ ReadVerdict \/ FinalizeOutput
          PROVE  OrderInv'
        BY <2>3, HuffStep, LzStep, SettleStep, MerkleStep, VerdictStep, FinalizeStep
    <2>4. ASSUME WalkStatus \/ CallerDownload \/ Return \/ NothingToRead \/ Fail
          PROVE  OrderInv'
        BY <2>4, StatusStep, DownloadStep, ReturnStep, NothingStep, FailStep
    <2> QED BY <1>1, <2>1, <2>2, <2>3, <2>4 DEF HostStep
<1>2. CASE CompressStep
    BY <1>2, SubmitInputStep, WrapStep, InputStep, LzEncodeStep, HashStep, ReadBackStep, HuffEncodeStep,
       MeasureStep, WriteStep, LayoutStep, FrameStep, TableStep, RootStep DEF CompressStep
<1>3. CASE Start
    BY <1>3, StartStep
<1>4. CASE Finish
    BY <1>4, FinishStep
<1>5. CASE UNCHANGED vars
    <2>1. Shorter(device, device') /\ HostRests
        BY <1>5 DEF vars, Shorter, HostRests, OrderInv, Sound, HostTyped, Left
    <2> QED BY <2>1, DeviceKeeps
<1> QED BY <1>1, <1>2, <1>3, <1>4, <1>5 DEF Next, Done

\* On every run the order of the queue is as it should be.
THEOREM QueueOrdered == Spec => []OrderInv
BY Initially, Inductive, PTL DEF Spec

\* (DataRaceFree) Two operations that run side by side have finished all that comes before
\* them, so neither comes before the other, and what conflicts is ordered.
THEOREM RaceFree == Spec => []DataRaceFree
<1>1. OrderInv => DataRaceFree
    <2>1. SUFFICES ASSUME OrderInv, NEW i \in device.running, NEW j \in device.running, i # j,
                          Writes(i) \cap (Reads(j) \cup Writes(j)) # {}
                   PROVE  FALSE
        BY DEF DataRaceFree
    <2>2. Shape(device) /\ Ordered(device) /\ i \in Cuda!Queued(device) /\ j \in Cuda!Queued(device)
        BY <2>1 DEF OrderInv, Sound, Shape
    <2>3. Upto(device, {i}) = {i} /\ Upto(device, {j}) = {j}
        BY <2>1, <2>2, UptoFirst DEF Shape
    <2> QED BY <2>1, <2>2, <2>3 DEF Ordered, Conflict
<1> QED BY <1>1, QueueOrdered, PTL

\* (SynchronousCallSettles) A call on the default stream that has returned has left nothing.
THEOREM Settles == Spec => []SynchronousCallSettles
<1>1. OrderInv => SynchronousCallSettles
    <2>1. SUFFICES ASSUME OrderInv, NEW id \in Cuda!Queued(device),
                          id.call < call \/ (id.call = call /\ step = "download" /\ waiting = {}),
                          id.call \notin refused, id.op # "Download"
                   PROVE  IsAsync(id.call)
        BY DEF SynchronousCallSettles
    <2>2. Leaves(id) /\ Known(id)
        BY <2>1 DEF OrderInv, Sound
    <2>3. CASE id.call < call
        BY <2>1, <2>2, <2>3 DEF Leaves
    <2>4. CASE id.call = call /\ step = "download" /\ waiting = {}
        <3>1. call \in Calls
            BY <2>2, <2>4 DEF Known
        <3>2. /\ Req \in Request /\ step \in Route(Req)
              /\ step \in QuietSteps(Req) => \A a \in Cuda!Queued(device) : Aside(device, a)
            BY <2>1, <2>4, <3>1, AtWork
        <3>3. SUFFICES ASSUME Req.stream = "null" PROVE FALSE
            BY <2>4 DEF IsAsync, Req
        <3>4. step \in QuietSteps(Req)
            BY <2>4, <3>2, <3>3, StepOf DEF QuietSteps, IsSync, If
        <3> QED BY <2>1, <2>4, <3>2, <3>3, <3>4 DEF Aside, InBackHalf, BackSteps, IsFree, Req
    <2> QED BY <2>1, <2>3, <2>4
<1> QED BY <1>1, QueueOrdered, PTL

\* (CallersSyncSuffices) A caller that has synchronised its stream has waited for its calls.
THEOREM SyncSuffices == Spec => []CallersSyncSuffices
<1>1. OrderInv => CallersSyncSuffices
    <2>1. SUFFICES ASSUME OrderInv, NEW s \in {"caller", "free"}, device.front[s] = {},
                          NEW id \in Cuda!Queued(device), id.call < call, plan[id.call].stream = s
                   PROVE  id.call \in refused
        BY DEF CallersSyncSuffices
    <2>2. BehindFree(device, id) /\ BehindCaller(device, id) /\ Leaves(id) /\ Known(id)
        BY <2>1 DEF OrderInv, Sound
    <2>3. Ahead(device, s) = {}
        BY <2>1, UptoNone DEF Ahead
    <2>4. id.call # call
        BY <2>1, <2>2 DEF Known, Calls
    <2>5. CASE s = "caller"
        BY <2>1, <2>2, <2>3, <2>4, <2>5 DEF BehindCaller, Gathers, GatherPends, IsFree
    <2>6. CASE s = "free"
        BY <2>1, <2>2, <2>3, <2>6 DEF Leaves, BehindFree
    <2> QED BY <2>5, <2>6
<1> QED BY <1>1, QueueOrdered, PTL

\* (QueuedOnCallersStream) No asynchronous call runs before what its caller queued first.
THEOREM UploadedFirst == Spec => []QueuedOnCallersStream
<1>1. OrderInv => QueuedOnCallersStream
    <2>1. SUFFICES ASSUME OrderInv, NEW i \in device.running, NEW j \in Cuda!Queued(device),
                          IsAsync(i.call), j.op \in Uploads, j.call <= i.call
                   PROVE  i = j
        BY DEF QueuedOnCallersStream
    <2>2. Shape(device) /\ UploadsFirst(device) /\ i \in Cuda!Queued(device)
        BY <2>1 DEF OrderInv, Sound, Shape
    <2>3. Upto(device, {i}) = {i}
        BY <2>1, <2>2, UptoFirst DEF Shape
    <2>4. j \in Upto(device, {i})
        BY <2>1, <2>2 DEF UploadsFirst
    <2> QED BY <2>3, <2>4
<1> QED BY <1>1, QueueOrdered, PTL

-----------------------------------------------------------------------------
(***************************************************************************)
(* What the operations of a handle's calls find in memory, and what comes  *)
(* of it for the caller, for every plan of calls: an operation that runs   *)
(* reads what its own call put there, and the calls are answered in order, *)
(* each with its own data.                                                 *)
(*                                                                         *)
(* Every two operations that touch one place are in order (OrderInv): so   *)
(* the queue is read as a promise, that a place will hold what the last of *)
(* its queued writers leaves, or what it holds now if there is none        *)
(* (Supplied, Holds).  The invariant DataInv says that every queued        *)
(* operation will find its inputs that way (Fed), and that at each step of *)
(* the host the places the rest of the call still reads will hold its data *)
(* (Needs, Stocked), with the frames of other calls and the cached         *)
(* dictionary.  A launch appends a writer that all earlier ones are before;*)
(* an operation that finishes is the first, and leaves what it was to      *)
(* leave because what it read was right.                                   *)
(*                                                                         *)
(* AnswersInv adds that no two downloads are under way and that every call *)
(* the host has done with is answered, refused or about to be answered:    *)
(* with the other two it makes each step one of DecodeCalls, or none.      *)
(***************************************************************************)

-----------------------------------------------------------------------------
(* What an operation reads was left by the last writer before it *)

\* What finishes before j starts, and the value v that operation i leaves in p.
Earlier(d, j) == Upto(d, {j}) \ {j}
Gives(i, p, v) == ~Clears(i) /\ Owner(p, i.call) = v

\* Once the operations of X have finished p holds v: the last of them to write p leaves it.
Supplied(d, m, X, p, v) ==
    LET W == {i \in X : p \in Writes(i)}
    IN  IF W = {} THEN m[p] = v
        ELSE \E i \in W : Gives(i, p, v) /\ \A k \in W : k \in Upto(d, {i})

\* When all that is queued has finished, p holds v.
Holds(d, m, p, v) == Supplied(d, m, Cuda!Queued(d), p, v)

\* Every queued operation will find what it is to read.
Fed(d, m) == \A j \in Cuda!Queued(d) : \A p \in Reads(j) :
                Supplied(d, m, Earlier(d, j), p, Owner(p, j.call))

\* Who supplies p depends on the writers of p alone.
LEMMA SuppliedByWriters ==
    ASSUME NEW d, NEW e, NEW m, NEW n, NEW X, NEW Y, NEW p, NEW v, n[p] = m[p],
           {i \in X : p \in Writes(i)} = {i \in Y : p \in Writes(i)},
           \A i \in X : Upto(e, {i}) = Upto(d, {i})
    PROVE  Supplied(d, m, X, p, v) => Supplied(e, n, Y, p, v)
<1> SUFFICES ASSUME Supplied(d, m, X, p, v) PROVE Supplied(e, n, Y, p, v)
    OBVIOUS
<1> DEFINE W == {i \in X : p \in Writes(i)}
<1>1. W = {i \in Y : p \in Writes(i)}
    OBVIOUS
<1>2. CASE W = {}
    BY <1>1, <1>2 DEF Supplied
<1>3. CASE W # {}
    <2>1. PICK i \in W : Gives(i, p, v) /\ \A k \in W : k \in Upto(d, {i})
        BY <1>3 DEF Supplied
    <2>2. \A k \in W : k \in Upto(e, {i})
        BY <2>1
    <2> QED BY <1>1, <1>3, <2>1, <2>2 DEF Supplied
<1> QED BY <1>2, <1>3

\* A launch leaves every queued operation what it reads, and finds its own there.
LEMMA LaunchFeeds ==
    ASSUME NEW d, NEW m, NEW s, NEW id, NEW e, id \notin Cuda!Queued(d),
           Fed(d, m), Covered(d, s, id), \A p \in Reads(id) : Holds(d, m, p, Owner(p, id.call)),
           AfterLaunch(d, e, s, id)
    PROVE  Fed(e, m)
<1> DEFINE Q == Cuda!Queued(d)
<1>1. /\ Cuda!Queued(e) = Q \cup {id}
      /\ \A i \in Q : Upto(e, {i}) = Upto(d, {i})
      /\ Upto(e, {id}) = {id} \cup Cover(d, s)
    BY DEF AfterLaunch
<1>0. Cover(d, s) \subseteq Q
    BY UptoQueued DEF Cover, Legacy, Ahead
<1>2. SUFFICES ASSUME NEW j \in Cuda!Queued(e), NEW p \in Reads(j)
               PROVE  Supplied(e, m, Earlier(e, j), p, Owner(p, j.call))
    BY DEF Fed
<1>3. CASE j \in Q
    <2>1. Earlier(e, j) = Earlier(d, j) /\ Earlier(d, j) \subseteq Q
        BY <1>1, <1>3, UptoQueued DEF Earlier
    <2>2. Supplied(d, m, Earlier(d, j), p, Owner(p, j.call))
        BY <1>3 DEF Fed
    <2> QED BY <1>1, <2>1, <2>2, SuppliedByWriters
<1>4. CASE j = id
    <2>1. Earlier(e, j) = Cover(d, s)
        BY <1>0, <1>1, <1>4 DEF Earlier
    <2>2. \A i \in Q : p \in Writes(i) => i \in Cover(d, s)
        BY <1>4 DEF Covered, Conflict
    <2>3. {i \in Q : p \in Writes(i)} = {i \in Cover(d, s) : p \in Writes(i)}
        BY <1>0, <2>2
    <2>4. Supplied(d, m, Q, p, Owner(p, j.call))
        BY <1>4 DEF Holds
    <2> QED BY <1>1, <2>1, <2>3, <2>4, SuppliedByWriters
<1> QED BY <1>1, <1>3, <1>4

\* A place holds what it held when another is written ...
LEMMA LaunchKeepsHeld ==
    ASSUME NEW d, NEW m, NEW s, NEW id, NEW e, AfterLaunch(d, e, s, id),
           NEW p, NEW v, p \notin Writes(id), Holds(d, m, p, v)
    PROVE  Holds(e, m, p, v)
<1>1. /\ Cuda!Queued(e) = Cuda!Queued(d) \cup {id}
      /\ \A i \in Cuda!Queued(d) : Upto(e, {i}) = Upto(d, {i})
    BY DEF AfterLaunch
<1>2. {i \in Cuda!Queued(d) : p \in Writes(i)} = {i \in Cuda!Queued(e) : p \in Writes(i)}
    BY <1>1
<1> QED BY <1>1, <1>2, SuppliedByWriters DEF Holds

\* ... and what was written to it.
LEMMA LaunchHolds ==
    ASSUME NEW d, NEW m, NEW s, NEW id, NEW e, AfterLaunch(d, e, s, id),
           Covered(d, s, id), NEW p \in Writes(id), ~Clears(id)
    PROVE  Holds(e, m, p, Owner(p, id.call))
<1> DEFINE W == {i \in Cuda!Queued(e) : p \in Writes(i)}
<1>1. /\ Cuda!Queued(e) = Cuda!Queued(d) \cup {id}
      /\ Upto(e, {id}) = {id} \cup Cover(d, s)
    BY DEF AfterLaunch
<1>2. id \in W /\ Gives(id, p, Owner(p, id.call))
    BY <1>1 DEF Gives
<1>3. ASSUME NEW k \in W PROVE k \in Upto(e, {id})
    BY <1>1 DEF Covered, Conflict
<1> QED BY <1>2, <1>3 DEF Holds, Supplied

\* What the completion of x leaves in memory, when x read what it should have.
Completed(m, n, x) == \A p \in DOMAIN m :
    n[p] = IF p \notin Writes(x) THEN m[p] ELSE IF Clears(x) THEN 0 ELSE Owner(p, x.call)

\* Among the writers of p the one that finishes is the first: what supplied p before it still does.
LEMMA FinishSupplies ==
    ASSUME NEW d, NEW m, NEW n, Shape(d), NEW x \in d.running, Completed(m, n, x),
           NEW X \in SUBSET Cuda!Queued(d), NEW p \in DOMAIN m, NEW v,
           x \in X \/ p \notin Writes(x), Supplied(d, m, X, p, v),
           NEW e, e = Cuda!Finished(d, x)
    PROVE  Supplied(e, n, X \ {x}, p, v)
<1> DEFINE W == {i \in X : p \in Writes(i)}
           V == {i \in X \ {x} : p \in Writes(i)}
<1>1. /\ Upto(d, {x}) = {x}
      /\ \A Y \in SUBSET Cuda!Queued(d) : Upto(e, Y \ {x}) = Upto(d, Y) \ {x}
    <2> AfterFinish(d, e, x)
        BY Finishes
    <2> QED BY DEF AfterFinish
<1>2. V = W \ {x}
    OBVIOUS
<1>3. CASE W = {}
    <2>1. p \notin Writes(x) /\ m[p] = v
        BY <1>3 DEF Supplied
    <2>2. n[p] = v
        BY <2>1 DEF Completed
    <2> QED BY <1>2, <1>3, <2>2 DEF Supplied
<1>4. CASE W # {}
    <2>1. PICK i \in W : Gives(i, p, v) /\ \A k \in W : k \in Upto(d, {i})
        BY <1>4 DEF Supplied
    <2>2. CASE i = x
        <3>1. V = {}
            BY <1>1, <1>2, <2>1, <2>2
        <3>2. n[p] = v
            BY <2>1, <2>2 DEF Completed, Gives
        <3> QED BY <3>1, <3>2 DEF Supplied
    <2>3. CASE i # x
        <3>1. Upto(e, {i}) = Upto(d, {i}) \ {x}
            <4>1. {i} \in SUBSET Cuda!Queued(d) /\ {i} \ {x} = {i}
                BY <2>3
            <4> QED BY <1>1, <4>1
        <3>2. i \in V /\ \A k \in V : k \in Upto(e, {i})
            BY <1>2, <2>1, <2>3, <3>1
        <3>3. V # {}
            BY <3>2
        <3> QED BY <2>1, <3>2, <3>3 DEF Supplied
    <2> QED BY <2>2, <2>3
<1> QED BY <1>3, <1>4

\* When an operation finishes, what memory will hold in the end is the same.
LEMMA FinishHolds ==
    ASSUME NEW d, NEW m, NEW n, Shape(d), NEW x \in d.running, Completed(m, n, x),
           NEW p \in DOMAIN m, NEW v, Holds(d, m, p, v),
           NEW e, e = Cuda!Finished(d, x)
    PROVE  Holds(e, n, p, v)
<1>1. x \in Cuda!Queued(d) /\ Cuda!Queued(e) = Cuda!Queued(d) \ {x}
    <2> AfterFinish(d, e, x)
        BY Finishes
    <2> QED BY DEF AfterFinish
<1>2. Supplied(e, n, Cuda!Queued(d) \ {x}, p, v)
    BY <1>1, FinishSupplies DEF Holds
<1> QED BY <1>1, <1>2 DEF Holds

\* An operation that finishes leaves the others what they are to read: whoever reads what it
\* wrote was behind it (Ordered).
LEMMA FinishFeeds ==
    ASSUME NEW d, NEW m, NEW n, Shape(d), Ordered(d), Fed(d, m), NEW x \in d.running,
           Completed(m, n, x), \A j \in Cuda!Queued(d) : Reads(j) \subseteq DOMAIN m,
           NEW e, e = Cuda!Finished(d, x)
    PROVE  Fed(e, n)
<1> DEFINE Q == Cuda!Queued(d)
<1>1. /\ Cuda!Queued(e) = Q \ {x} /\ Upto(d, {x}) = {x} /\ x \in Q
      /\ \A Y \in SUBSET Q : Upto(e, Y \ {x}) = Upto(d, Y) \ {x}
    <2> AfterFinish(d, e, x)
        BY Finishes
    <2> QED BY DEF AfterFinish
<1>2. ASSUME NEW j \in Q \ {x} PROVE Upto(e, {j}) = Upto(d, {j}) \ {x}
    <2>1. {j} \in SUBSET Q /\ {j} \ {x} = {j}
        OBVIOUS
    <2> QED BY <1>1, <2>1
<1>4. ASSUME NEW j \in Q \ {x}, NEW p \in Reads(j)
      PROVE  Supplied(e, n, Earlier(e, j), p, Owner(p, j.call))
    <2>1. Earlier(e, j) = Earlier(d, j) \ {x} /\ Earlier(d, j) \in SUBSET Q
        BY <1>2, UptoQueued DEF Earlier
    <2>2. x \in Earlier(d, j) \/ p \notin Writes(x)
        BY <1>1, <1>4 DEF Ordered, Conflict, Earlier
    <2>3. Supplied(d, m, Earlier(d, j), p, Owner(p, j.call)) /\ p \in DOMAIN m
        BY <1>4 DEF Fed
    <2>4. Supplied(e, n, Earlier(d, j) \ {x}, p, Owner(p, j.call))
        BY <2>1, <2>2, <2>3, FinishSupplies
    <2> QED BY <2>1, <2>4
<1> QED BY <1>1, <1>4 DEF Fed

\* A running operation finds in memory what it is to read.
LEMMA RunningIsCurrent ==
    ASSUME NEW d, NEW m, Shape(d), Fed(d, m), NEW x \in d.running, NEW p \in Reads(x)
    PROVE  m[p] = Owner(p, x.call)
<1>1. Upto(d, {x}) = {x} /\ x \in Cuda!Queued(d)
    BY UptoFirst DEF Shape
<1>2. Earlier(d, x) = {}
    BY <1>1 DEF Earlier
<1>3. Supplied(d, m, {}, p, Owner(p, x.call))
    BY <1>1, <1>2 DEF Fed
<1> QED BY <1>3 DEF Supplied

-----------------------------------------------------------------------------
(* The names of the device memory a call works with *)

Names == {"target"} \cup Scratch \cup EncodeScratch \cup OfTheCaller

\* Every name of a call is a place.
LEMMA NamedPlaces ==
    ASSUME NEW n \in Names, NEW c \in Calls
    PROVE  Place(n, c) \in Places
BY DEF Places, Names

\* Different names of a call are different places.
LEMMA PlacesApart ==
    ASSUME plan \in Plans, NEW c \in Calls, NEW n, NEW k, Place(n, c) = Place(k, c)
    PROVE  n = k
<1>1. plan[c].of # c /\ (plan[c].of # 0 => plan[c].source = "device") /\ plan[c].of \in Nat
    <2>1. c \in DOMAIN plan
        BY PlansAssumption DEF Calls
    <2>2. plan[c] \in Request
        BY Requests
    <2>3. plan[c].of # 0 => plan[c].of < c /\ plan[c].source = "device"
        BY <2>1, CallersAssumption
    <2>4. c \in Nat /\ c # 0
        BY PlansAssumption DEF Calls
    <2> QED BY <2>2, <2>3, <2>4 DEF Request
<1> DEFINE of == plan[c].of
           fromDevice == plan[c].source = "device"
           last(a) == IF a \in {"frame", "result", "input", "trailer"} THEN c ELSE 0
<1>2. \A a : Place(a, c) = IF a = "frame" /\ of # 0 THEN <<"target", of>>
                           ELSE IF a = "target" /\ fromDevice THEN <<"target", c>> ELSE <<a, last(a)>>
    BY PlaceIs
<1>3. of # c /\ (of # 0 => fromDevice)
    BY <1>1
<1> HIDE DEF of, fromDevice, last
<1> QED BY <1>2, <1>3

\* A decompression touches these names only.
LEMMA DecodeNames ==
    ASSUME NEW o \in DecodeOps, NEW r
    PROVE  DecodeAccess(o, r).reads \cup DecodeAccess(o, r).writes \subseteq Names
<1>1. \A n \in {"dict", "meta", "walk_chunks", "descs", "first_sub", "block", "staged",
            "n_chunks", "huff_lists", "raw_list", "counts", "n_merged", "huff_descs",
            "huff_lut", "huff_scratch", "raw_scratch", "n_groups", "output",
            "segments", "hashes", "verdict", "frame", "target", "result"} : n \in Names
    BY DEF Names, Scratch, OfTheCaller
<1>2. FromDevice(r, "walk_chunks") \subseteq Names /\ FromDevice(r, "frame") \subseteq Names
      /\ LzReads(r) \subseteq Names /\ LzOutput(r) \in Names /\ PutsBack(r) \subseteq Names
    BY <1>1 DEF FromDevice, LzReads, LzOutput, PutsBack
<1> QED BY <1>1, <1>2, DecodeAccesses DEF DecodeOps

\* What each operation of a Huffman pass reads and writes.
LEMMA HuffAccesses ==
    \A r :
      /\ EncodeAccess("DescsLit", r) = [reads |-> {}, writes |-> {"huff_descs_enc"}]
      /\ EncodeAccess("DescsTok", r) = [reads |-> {}, writes |-> {"huff_descs_enc"}]
      /\ EncodeAccess("DescsOff16", r) = [reads |-> {}, writes |-> {"huff_descs_enc"}]
      /\ EncodeAccess("TablesLit", r) = [reads |-> {"enc_raw", "huff_descs_enc"}, writes |-> {"huff_codes"}]
      /\ EncodeAccess("TablesTok", r) = [reads |-> {"enc_raw", "huff_descs_enc"}, writes |-> {"huff_codes"}]
      /\ EncodeAccess("TablesOff16", r) = [reads |-> {"enc_raw", "huff_descs_enc"}, writes |-> {"huff_codes"}]
      /\ EncodeAccess("EncodeLit", r) =
             [reads |-> {"enc_raw", "huff_descs_enc", "huff_codes"}, writes |-> {"huff_sizes", "body_lit"}]
      /\ EncodeAccess("EncodeTok", r) =
             [reads |-> {"enc_raw", "huff_descs_enc", "huff_codes"}, writes |-> {"huff_sizes", "body_tok"}]
      /\ EncodeAccess("EncodeOff16", r) =
             [reads |-> {"enc_raw", "huff_descs_enc", "huff_codes"}, writes |-> {"huff_sizes", "body_off16"}]
      /\ EncodeAccess("SizesLit", r) = [reads |-> {"huff_sizes"}, writes |-> {}]
      /\ EncodeAccess("SizesTok", r) = [reads |-> {"huff_sizes"}, writes |-> {}]
      /\ EncodeAccess("SizesOff16", r) = [reads |-> {"huff_sizes"}, writes |-> {}]
<1> TAKE r
<1>1. \A op \in {"DescsLit", "DescsTok", "DescsOff16"} :
         EncodeAccess(op, r) = [reads |-> {}, writes |-> {"huff_descs_enc"}]
    BY HuffOperations DEF EncodeAccess
<1>2. \A op \in {"TablesLit", "TablesTok", "TablesOff16"} :
         EncodeAccess(op, r) = [reads |-> {"enc_raw", "huff_descs_enc"}, writes |-> {"huff_codes"}]
    BY HuffOperations DEF EncodeAccess
<1>3. \A op \in {"EncodeLit", "EncodeTok", "EncodeOff16"} :
         EncodeAccess(op, r) = [reads |-> {"enc_raw", "huff_descs_enc", "huff_codes"}, writes |-> {"huff_sizes"} \union BodyWritten(op)]
    BY HuffOperations DEF EncodeAccess
<1>4. \A op \in {"SizesLit", "SizesTok", "SizesOff16"} :
         EncodeAccess(op, r) = [reads |-> {"huff_sizes"}, writes |-> {}]
    BY HuffOperations DEF EncodeAccess
<1> QED BY <1>1, <1>2, <1>3, <1>4, HuffBodies

\* So does a compression.
LEMMA EncodeNames ==
    ASSUME NEW o \in EncodeOps, NEW r
    PROVE  EncodeAccess(o, r).reads \cup EncodeAccess(o, r).writes \subseteq Names
<1>1. \A n \in {"input", "trailer", "result", "target", "wrap_input", "enc_input", "enc_descs", "enc_sizes",
                "enc_raw", "enc_segments", "enc_hashes", "huff_descs_enc", "huff_codes", "huff_sizes",
                "body_lit", "body_tok", "body_off16", "asm_descs", "asm_sizes", "asm_out", "layout"} : n \in Names
    BY DEF Names, EncodeScratch, OfTheCaller, EncodeOfTheCaller
<1>2. Bodies(r) \subseteq {"body_lit", "body_tok", "body_off16"}
    <2>1. BodyOf["lit"] = "body_lit" /\ BodyOf["tok"] = "body_tok" /\ BodyOf["off16"] = "body_off16"
        BY DEF BodyOf
    <2> QED BY <2>1 DEF Bodies, HuffPasses
<1>3. Input(r) \in Names /\ AsmReads(r) \subseteq Names /\ FrameParts(r) \subseteq Names
    BY <1>1, <1>2 DEF Input, AsmReads, FrameParts
<1>4. CASE o \in {"UploadInput", "WrapInput", "CopyInput", "CopyEncDescs", "ZeroSizes", "LzEncode",
                  "EncSegHash", "EncCombine", "ReadSizes", "ReadRaw"}
    BY <1>1, <1>3, <1>4, EncodeAccesses
<1>5. CASE o \in {"CopyAsmDescs", "Measure", "ReadAsmSizes", "CopyOffsets", "AsmWrite", "CopyLayout",
                  "FrameAssemble", "SizeTable", "RootWrite", "Download"}
    BY <1>1, <1>3, <1>5, EncodeAccesses
<1>6. CASE o \in {"DescsLit", "TablesLit", "EncodeLit", "SizesLit", "DescsTok", "TablesTok", "EncodeTok",
                  "SizesTok", "DescsOff16", "TablesOff16", "EncodeOff16", "SizesOff16"}
    BY <1>1, <1>6, HuffAccesses
<1> QED BY <1>4, <1>5, <1>6 DEF EncodeOps

\* What a queued operation touches is in the memory of the run.
LEMMA InPlaces ==
    ASSUME plan \in Plans, NEW c \in Calls, NEW o \in Ops(plan[c])
    PROVE  Reads([call |-> c, op |-> o]) \cup Writes([call |-> c, op |-> o]) \subseteq Places
<1>1. plan[c].job \in {"decompress", "compress"}
    BY Requests DEF Request
<1>2. Access(o, plan[c]).reads \cup Access(o, plan[c]).writes \subseteq Names
    BY <1>1, DecodeNames, EncodeNames DEF Access, Ops
<1> QED BY <1>2, NamedPlaces DEF Reads, Writes

-----------------------------------------------------------------------------
(* What the host may count on while it queues work *)

\* What name stands for in call c will be there when all that is queued has finished.
Ready(d, m, name, c) ==
    /\ Place(name, c) \in Places
    /\ Holds(d, m, Place(name, c), Owner(Place(name, c), c))

\* What was there before the first call, and what a call has made for the later ones.
Given(r) == IF r.job = "decompress" THEN "frame" ELSE "input"
GivenDirectly(r) == r.source = "device" /\ r.settled /\ r.of = 0
Produced(c) == c < call /\ c \notin refused /\ plan[c].job = "compress" /\ plan[c].source = "device"

\* The names of N are ready for the current call, dictionary v is on the device.
Stocked(d, m, N, v) ==
    /\ DOMAIN m = Places /\ Fed(d, m)
    /\ \A i \in Cuda!Queued(d) : \A p \in Writes(i) : p[2] \in {0, i.call}
    /\ \A n \in N : Ready(d, m, n, call)
    /\ \A c \in Calls : /\ c > call /\ GivenDirectly(plan[c]) => Ready(d, m, Given(plan[c]), c)
                        /\ Produced(c) => Ready(d, m, "target", c)
    /\ v # 0 => Holds(d, m, <<"dict", 0>>, v)

\* Operation o reads the names R and writes the names W.
Uses(o, R, W) == Access(o, Req) = [reads |-> R, writes |-> W]

\* What another call has in memory is not touched by a launch.
LEMMA Elsewhere ==
    ASSUME plan \in Plans, call \in Calls, NEW o, NEW R, NEW W, Uses(o, R, W), "frame" \in W => Req.of = 0
    PROVE  \A p \in Writes(Op(o)) : p[2] \in {0, call}
<1>1. SUFFICES ASSUME NEW n \in W PROVE Place(n, call)[2] \in {0, call}
    BY DEF Writes, Op, Uses, Req
<1>2. Place(n, call) = IF n = "frame" /\ plan[call].of # 0 THEN <<"target", plan[call].of>>
                       ELSE IF n = "target" /\ plan[call].source = "device" THEN <<"target", call>>
                       ELSE <<n, IF n \in {"frame", "result", "input", "trailer"} THEN call ELSE 0>>
    BY PlaceIs
<1> DEFINE fromDevice == plan[call].source = "device"
           last == IF n \in {"frame", "result", "input", "trailer"} THEN call ELSE 0
<1>3. Place(n, call) = IF n = "target" /\ fromDevice THEN <<"target", call>> ELSE <<n, last>>
    BY <1>1, <1>2 DEF Req
<1>4. last \in {0, call}
    OBVIOUS
<1> HIDE DEF last, fromDevice
<1> QED BY <1>3, <1>4

\* A name that o does not write stays ready, for this call and the others.
LEMMA StaysReady ==
    ASSUME plan \in Plans, call \in Calls, NEW o, NEW R, NEW W, Uses(o, R, W),
           NEW d, NEW e, NEW s, AfterLaunch(d, e, s, Op(o)), NEW n, n \notin W, Ready(d, memory, n, call)
    PROVE  Ready(e, memory, n, call)
<1>1. Place(n, call) \notin Writes(Op(o))
    BY PlacesApart DEF Writes, Op, Uses, Req
<1> QED BY <1>1, LaunchKeepsHeld DEF Ready

\* Given and produced frames have places of their own.
LEMMA OthersPlaces ==
    ASSUME NEW c \in Calls, c # call
    PROVE  /\ GivenDirectly(plan[c]) => Place(Given(plan[c]), c)[2] \notin {0, call}
           /\ Produced(c) => Place("target", c)[2] \notin {0, call}
<1>1. c # 0
    BY DEF Calls
<1>2. ASSUME GivenDirectly(plan[c])
      PROVE  Place(Given(plan[c]), c) = <<Given(plan[c]), c>>
    BY <1>2, PlaceIs DEF Given, GivenDirectly
<1>3. ASSUME Produced(c)
      PROVE  Place("target", c) = <<"target", c>>
    BY <1>3, PlaceIs DEF Produced
<1> QED BY <1>1, <1>2, <1>3

\* After a launch what it does not write is still stocked.
LEMMA KeepsStock ==
    ASSUME plan \in Plans, call \in Calls, NEW o, NEW R, NEW W, Uses(o, R, W), "frame" \in W => Req.of = 0,
           NEW d, NEW e, NEW s, Launching(d, e, s, o),
           NEW N, NEW v, Stocked(d, memory, N, v), R \subseteq N, "dict" \in W => v = 0
    PROVE  Stocked(e, memory, N \ W, v)
<1>1. /\ Op(o) \notin Cuda!Queued(d) /\ Covered(d, s, Op(o)) /\ AfterLaunch(d, e, s, Op(o))
      /\ Cuda!Queued(e) = Cuda!Queued(d) \cup {Op(o)} /\ Op(o).call = call
    BY DEF Launching, Safe, AfterLaunch, Op
<1>2. DOMAIN memory = Places /\ Fed(d, memory)
    BY DEF Stocked
<1>3. Fed(e, memory)
    <2>1. ASSUME NEW p \in Reads(Op(o)) PROVE Holds(d, memory, p, Owner(p, call))
        <3>1. PICK n \in R : p = Place(n, call)
            BY DEF Reads, Op, Uses, Req
        <3> QED BY <3>1 DEF Stocked, Ready
    <2> QED BY <1>1, <1>2, <2>1, LaunchFeeds
<1>4. \A p \in Writes(Op(o)) : p[2] \in {0, call}
    BY Elsewhere
<1>5. \A i \in Cuda!Queued(e) : \A p \in Writes(i) : p[2] \in {0, i.call}
    BY <1>1, <1>4 DEF Stocked
<1>6. \A n \in N \ W : Ready(e, memory, n, call)
    BY <1>1, StaysReady DEF Stocked
<1>7. ASSUME NEW c \in Calls, NEW n, Place(n, c)[2] \notin {0, call}, Ready(d, memory, n, c)
      PROVE  Ready(e, memory, n, c)
    <2>1. Place(n, c) \notin Writes(Op(o))
        BY <1>4, <1>7
    <2> QED BY <1>1, <1>7, <2>1, LaunchKeepsHeld DEF Ready
<1>8. ASSUME NEW c \in Calls
      PROVE  /\ c > call /\ GivenDirectly(plan[c]) => Ready(e, memory, Given(plan[c]), c)
             /\ Produced(c) => Ready(e, memory, "target", c)
    <2>1. /\ c > call /\ GivenDirectly(plan[c]) => Ready(d, memory, Given(plan[c]), c)
          /\ Produced(c) => Ready(d, memory, "target", c)
        BY DEF Stocked
    <2>2. (c > call => c # call) /\ (Produced(c) => c # call)
        BY DEF Produced, Calls
    <2> QED BY <1>7, <2>1, <2>2, OthersPlaces
<1>9. v # 0 => Holds(e, memory, <<"dict", 0>>, v)
    <2>1. SUFFICES ASSUME v # 0 PROVE Holds(e, memory, <<"dict", 0>>, v)
        OBVIOUS
    <2>2. "dict" \notin W /\ Place("dict", call) = <<"dict", 0>>
        BY <2>1, PlaceIs
    <2>3. <<"dict", 0>> \notin Writes(Op(o))
        BY <2>2, PlacesApart DEF Writes, Op, Uses, Req
    <2> QED BY <1>1, <2>1, <2>3, LaunchKeepsHeld DEF Stocked
<1> QED BY <1>2, <1>3, <1>5, <1>6, <1>8, <1>9 DEF Stocked

\* A kernel or copy adds what it writes.
LEMMA Feeds ==
    ASSUME plan \in Plans, call \in Calls, NEW o, NEW R, NEW W, Uses(o, R, W), "frame" \in W => Req.of = 0,
           NEW d, NEW e, NEW s, Launching(d, e, s, o), o \notin {"ZeroMeta", "ZeroCounts", "ZeroSizes"},
           NEW N, NEW v, Stocked(d, memory, N, v), R \subseteq N, "dict" \in W => v = 0
    PROVE  Stocked(e, memory, N \cup W, v)
<1>1. Stocked(e, memory, N \ W, v)
    BY KeepsStock
<1>2. /\ Covered(d, s, Op(o)) /\ AfterLaunch(d, e, s, Op(o)) /\ o \in Ops(Req)
      /\ Op(o).call = call /\ Op(o) = [call |-> call, op |-> o] /\ ~Clears(Op(o))
    BY DEF Launching, Safe, Op, Clears
<1>3. ASSUME NEW n \in W PROVE Ready(e, memory, n, call)
    <2>1. Place(n, call) \in Writes(Op(o))
        BY <1>2 DEF Writes, Uses, Req
    <2>2. Place(n, call) \in Places
        BY <1>2, <2>1, InPlaces DEF Req
    <2> QED BY <1>2, <2>1, <2>2, LaunchHolds DEF Ready
<1> QED BY <1>1, <1>3 DEF Stocked

\* Less is stocked as well, and the same after a change of no order.
LEMMA StocksLess ==
    ASSUME NEW d, NEW e, NEW N, NEW K, NEW v, Stocked(d, memory, N, v), K \subseteq N, e.after = d.after
    PROVE  Stocked(e, memory, K, v)
<1>1. Cuda!Queued(e) = Cuda!Queued(d) /\ \A X : Upto(e, X) = Upto(d, X)
    BY SameOrder
<1>2. \A X, p, x : Supplied(d, memory, X, p, x) => Supplied(e, memory, X, p, x)
    BY <1>1, SuppliedByWriters
<1>3. \A p, x : Holds(d, memory, p, x) => Holds(e, memory, p, x)
    BY <1>1, <1>2 DEF Holds
<1>4. \A n, c : Ready(d, memory, n, c) => Ready(e, memory, n, c)
    BY <1>3 DEF Ready
<1>5. Fed(d, memory) => Fed(e, memory)
    BY <1>1, <1>2 DEF Fed, Earlier
<1> QED BY <1>1, <1>3, <1>4, <1>5 DEF Stocked

-----------------------------------------------------------------------------
(* What each step of a call has ready *)

\* The names that are ready when a decompression is at step s, and will still be read.
DecodeNeeds(s, r) ==
    LET frame == If(r.source = "device", {"frame"})
        meta  == If(r.source = "device", {"meta"})
        walk  == If(r.source = "device", {"walk_chunks"})
        dict  == If(r.dict # 0, {"dict"})
        base  == {"block", "descs"} \cup meta \cup dict
        heavy == If(r.entropy, {"first_sub", "raw_scratch", "huff_descs", "n_merged", "counts"})
        group == If(r.source = "host", {"n_groups"})
    IN CASE s = "submit" -> If(GivenDirectly(r), {"frame"})
         [] s = "header" -> frame
         [] s = "dict"   -> frame
         [] s = "walk"   -> frame \cup dict
         [] s = "descs"  -> frame \cup meta \cup walk \cup dict
         [] s = "block"  -> frame \cup meta \cup dict \cup {"descs"}
         [] s = "stage"  -> base \cup {"first_sub"}
         [] s = "scan"   -> base \cup {"first_sub", "staged", "n_chunks"}
         [] s = "gather" -> base \cup {"first_sub", "huff_lists", "raw_list", "counts"}
         [] s = "merge"  -> base \cup {"first_sub", "huff_lists", "counts", "raw_scratch"}
         [] s \in {"barrier", "groups"} -> base \cup heavy
         [] s = "huff"   -> base \cup heavy \cup group
         [] s = "lz"     -> base \cup group \cup If(r.entropy, {"first_sub", "raw_scratch", "huff_scratch"})
         [] s = "settle" -> IF r.source = "device" THEN {"target", "meta"} ELSE {"output", "block"}
         [] s = "status" -> {"target", "meta"}
         [] s = "download" -> {"target"}
         [] s = "merkle"  -> {"output", "block"}
         [] s = "verdict" -> {"output", "verdict"}
         [] s = "finalize" -> {"output"}
         [] OTHER -> {}

\* The same of a compression.
EncodeNeeds(s, r) ==
    LET input  == {Input(r)}
        hashes == If(r.merkle = "root", {"enc_hashes"})
    IN CASE s = "submit"  -> If(GivenDirectly(r), {"input"})
         [] s = "input"   -> input
         [] s = "encode"  -> input \cup {"enc_input", "enc_descs"}
         [] s = "hash"    -> input \cup {"enc_input", "enc_raw", "enc_sizes"}
         [] s = "sizes"   -> input \cup {"enc_raw", "enc_sizes"} \cup hashes
         [] s = "lit"     -> input \cup {"enc_raw"} \cup hashes
         [] s = "tok"     -> input \cup {"enc_raw", "body_lit"} \cup hashes
         [] s = "off16"   -> input \cup {"enc_raw", "body_lit", "body_tok"} \cup hashes
         [] s \in {"measure", "write"} -> input \cup {"enc_raw"} \cup Bodies(r) \cup hashes
         [] s = "layout"  -> input \cup {"asm_out"} \cup hashes
         [] s = "frame"   -> input \cup {"asm_out", "layout"} \cup hashes
         [] s \in {"table", "root"} -> {"target"} \cup hashes
         [] s \in {"finalize", "download"} -> FrameParts(r)
         [] s = "return"  -> If(r.source = "device", {"target"})
         [] OTHER -> {}

Needs(s, r) == IF r.job = "decompress" THEN DecodeNeeds(s, r) ELSE EncodeNeeds(s, r)

\* The inductive invariant, with OrderInv.
DataInv ==
    Stocked(device, memory, IF call \in Calls THEN Needs(step, Req) ELSE {}, dictCached)

\* What the next state has in memory is told in the names of this one.
LEMMA Carried ==
    ASSUME SameCall, NEW N, Stocked(device', memory', N, dictCached'),
           call \in Calls => Needs(step', Req) \subseteq N
    PROVE  DataInv'
<1>1. plan' = plan /\ call' = call /\ refused' = refused /\ Calls' = Calls /\ Req' = Req /\ Places' = Places
    BY DEF SameCall, Calls, Req, Places, Place
<1>2. \A n, c : Place(n, c)' = Place(n, c) /\ \A p : Owner(p, c)' = Owner(p, c)
    BY <1>1 DEF Place, Owner
<1>3. \A i : Reads(i)' = Reads(i) /\ Writes(i)' = Writes(i) /\ \A p, v : Gives(i, p, v)' = Gives(i, p, v)
    BY <1>1, <1>2 DEF Reads, Writes, Gives
<1>4. Fed(device, memory)'
    <2>1. Fed(device', memory')
        BY DEF Stocked
    <2> QED BY <1>2, <1>3, <2>1 DEF Fed, Supplied, Gives, Upto, Earlier
<1>5. \A p, v : Holds(device', memory', p, v) => Holds(device, memory, p, v)'
    BY <1>3 DEF Holds, Supplied
<1>6. \A n, c : Ready(device', memory', n, c) => Ready(device, memory, n, c)'
    BY <1>1, <1>2, <1>5 DEF Ready
<1>7. \A c : Produced(c)' <=> Produced(c)
    BY <1>1 DEF Produced
<1> QED BY <1>1, <1>2, <1>3, <1>4, <1>5, <1>6, <1>7 DEF DataInv, Stocked

\* The host goes on within a call with what its step has left.
LEMMA Carries ==
    ASSUME SameCall, memory' = memory, call \in Calls, NEW N, Stocked(device', memory, N, dictCached'),
           Needs(step', Req) \subseteq N
    PROVE  DataInv'
<1>1. Stocked(device', memory', N, dictCached')
    OBVIOUS
<1> QED BY <1>1, Carried

\* A kernel or copy that has nothing to do with dictionaries and given frames.
Plain(o, R, W) == /\ Uses(o, R, W) /\ "frame" \notin W /\ "dict" \notin W
                  /\ o \notin {"ZeroMeta", "ZeroCounts", "ZeroSizes"}

\* What such an operation writes is ready, beside what was.
LEMMA Fills ==
    ASSUME plan \in Plans, call \in Calls, NEW o, NEW R, NEW W, Plain(o, R, W),
           NEW d, NEW e, NEW s, Launching(d, e, s, o),
           NEW N, NEW v, Stocked(d, memory, N, v), R \subseteq N
    PROVE  Stocked(e, memory, N \cup W, v)
<1>1. /\ Uses(o, R, W) /\ o \notin {"ZeroMeta", "ZeroCounts", "ZeroSizes"}
      /\ "frame" \in W => Req.of = 0
      /\ "dict" \in W => v = 0
    BY DEF Plain
<1> QED BY <1>1, Feeds

\* The host goes on, with the dictionary it had.
LEMMA MovesOn ==
    ASSUME call \in Calls, NEW there, Goto(there), dictCached' = dictCached,
           NEW N, Stocked(device', memory, N, dictCached), Needs(there, Req) \subseteq N
    PROVE  DataInv'
<1>1. SameCall /\ memory' = memory /\ step' = there
    BY DEF Goto, host, SameCall
<1> QED BY <1>1, Carries

\* What a decompression finds at one of its steps.
Decoding(s) == /\ step = s /\ waiting = {} /\ call \in Calls /\ plan \in Plans
               /\ Req \in Request /\ step \in Route(Req) /\ Req.job = "decompress"
               /\ Req.source \in {"host", "device"} /\ (Req.source = "host" => Req.stream = "null")
               /\ Stocked(device, memory, DecodeNeeds(s, Req), dictCached)

\* A decompression at one of its steps has ready what the step needs.
LEMMA DecodeAt ==
    ASSUME OrderInv, DataInv, NEW s \in {"header", "walk", "status", "dict", "descs", "block", "barrier",
                                         "groups", "lz", "settle", "stage", "scan", "gather", "merge",
                                         "huff", "merkle", "verdict"}, At(s)
    PROVE  Decoding(s)
<1>1. step = s /\ waiting = {} /\ call \in Calls
    BY DEF At
<1>2. plan \in Plans /\ Req \in Request /\ step \in Route(Req) /\ (Req.source = "host" => Req.stream = "null")
    BY <1>1, AtWork
<1>3. Req.job = "decompress" /\ Req.source \in {"host", "device"}
    BY <1>1, <1>2, StepOf
<1> QED BY <1>1, <1>2, <1>3 DEF Decoding, DataInv, Needs

\* What it reads and writes.
LEMMA DecodeUses ==
    ASSUME Req.job = "decompress", NEW o, NEW R, NEW W, DecodeAccess(o, Req) = [reads |-> R, writes |-> W],
           "frame" \notin W, "dict" \notin W, o \notin {"ZeroMeta", "ZeroCounts", "ZeroSizes"}
    PROVE  Plain(o, R, W)
BY DEF Plain, Uses, Access

\* The host goes on to a step that needs what was there and what the operations have added.
DecodeGoes(here, there) == /\ At(here) /\ Goto(there) /\ dictCached' = dictCached

\* It goes on to a step that needs no more than is ready after this one.
LEMMA DecodeGoesOn ==
    ASSUME NEW here, Decoding(here), NEW there, DecodeGoes(here, there),
           NEW N, Stocked(device', memory, N, dictCached), DecodeNeeds(there, Req) \subseteq N
    PROVE  DataInv'
<1>1. Needs(there, Req) = DecodeNeeds(there, Req) /\ call \in Calls
    BY DEF Decoding, Needs
<1> QED BY <1>1, MovesOn DEF DecodeGoes

\* A step that queues one operation.
LEMMA OneFeeds ==
    ASSUME NEW here, Decoding(here), NEW there, DecodeGoes(here, there),
           NEW s, NEW o, NEW R, NEW W, Launching(device, device', s, o), Plain(o, R, W),
           R \subseteq DecodeNeeds(here, Req),
           DecodeNeeds(there, Req) \subseteq DecodeNeeds(here, Req) \cup W
    PROVE  DataInv'
<1> DEFINE N == DecodeNeeds(here, Req)
<1>1. /\ Stocked(device, memory, N, dictCached) /\ plan \in Plans /\ call \in Calls
      /\ R \subseteq N /\ DecodeNeeds(there, Req) \subseteq N \cup W
    BY DEF Decoding
<1> HIDE DEF N
<1>2. Stocked(device', memory, N \cup W, dictCached)
    BY <1>1, Fills
<1> QED BY <1>1, <1>2, DecodeGoesOn

\* A step that queues nothing.
LEMMA NoneFeeds ==
    ASSUME NEW here, Decoding(here), NEW there, DecodeGoes(here, there),
           device' = device, DecodeNeeds(there, Req) \subseteq DecodeNeeds(here, Req)
    PROVE  DataInv'
<1>1. Stocked(device', memory, DecodeNeeds(here, Req), dictCached)
    BY DEF Decoding
<1> QED BY <1>1, DecodeGoesOn

\* ReadHeader.
LEMMA HeaderFeeds ==
    ASSUME OrderInv, DataInv, ReadHeader
    PROVE  DataInv'
<1>1. Decoding("header") /\ DecodeGoes("header", "dict")
    BY DecodeAt DEF ReadHeader, SameFlags, DecodeGoes
<1>2. Req.source = "device"
    BY <1>1, StepOf DEF Decoding
<1>3. Launching(device, device', "null", "ReadHeader")
    BY ReadHeaderStep
<1>4. Plain("ReadHeader", {"frame"}, {})
    BY <1>1, DecodeAccesses, DecodeUses DEF Decoding
<1>5. {"frame"} \subseteq DecodeNeeds("header", Req) /\ DecodeNeeds("dict", Req) \subseteq DecodeNeeds("header", Req) \cup {}
    BY <1>2 DEF DecodeNeeds, If
<1> QED BY <1>1, <1>3, <1>4, <1>5, OneFeeds

\* UploadDescs.
LEMMA DescsFeeds ==
    ASSUME OrderInv, DataInv, UploadDescs
    PROVE  DataInv'
<1>1. Decoding("descs") /\ DecodeGoes("descs", "block")
    BY DecodeAt DEF UploadDescs, SameFlags, DecodeGoes
<1>2. Launching(device, device', WorkStream, "CopyDescs")
    BY DescsStep
<1>3. Plain("CopyDescs", FromDevice(Req, "walk_chunks"), {"descs"} \cup PutsBack(Req))
    <2>1. "frame" \notin {"descs"} \cup PutsBack(Req) /\ "dict" \notin {"descs"} \cup PutsBack(Req)
        BY DEF PutsBack
    <2> QED BY <1>1, <2>1, DecodeAccesses, DecodeUses DEF Decoding
<1>4. FromDevice(Req, "walk_chunks") \subseteq DecodeNeeds("descs", Req)
    BY DEF DecodeNeeds, FromDevice, If
<1>5. DecodeNeeds("block", Req) \subseteq DecodeNeeds("descs", Req) \cup ({"descs"} \cup PutsBack(Req))
    BY DEF DecodeNeeds, If
<1> QED BY <1>1, <1>2, <1>3, <1>4, <1>5, OneFeeds

\* PrefixSumAndUploadBlock.
LEMMA BlockFeeds ==
    ASSUME OrderInv, DataInv, PrefixSumAndUploadBlock
    PROVE  DataInv'
<1> DEFINE there == IF Req.entropy THEN "stage" ELSE "barrier"
           N == DecodeNeeds("block", Req)
<1>1. Decoding("block") /\ DecodeGoes("block", there)
    BY DecodeAt DEF PrefixSumAndUploadBlock, SameFlags, DecodeGoes
<1>2. PICK d : Launching(device, d, WorkStream, "PrefixSum") /\ Launching(d, device', WorkStream, "CopyBlock")
    BY BlockStep
<1>3. Plain("PrefixSum", {"descs"}, {"first_sub"}) /\ Plain("CopyBlock", FromDevice(Req, "frame"), {"block"})
    BY <1>1, DecodeAccesses, DecodeUses DEF Decoding
<1>4. {"descs"} \subseteq N /\ FromDevice(Req, "frame") \subseteq N
    BY DEF DecodeNeeds, FromDevice, If
<1>5. DecodeNeeds(there, Req) \subseteq (N \cup {"first_sub"}) \cup {"block"}
    BY DEF DecodeNeeds, If
<1>6. plan \in Plans /\ call \in Calls /\ Stocked(device, memory, N, dictCached)
    BY <1>1 DEF Decoding
<1> HIDE DEF N, there
<1>7. Stocked(d, memory, N \cup {"first_sub"}, dictCached)
    BY <1>2, <1>3, <1>4, <1>6, Fills
<1>8. FromDevice(Req, "frame") \subseteq N \cup {"first_sub"}
    BY <1>4
<1>9. Stocked(device', memory, (N \cup {"first_sub"}) \cup {"block"}, dictCached)
    BY <1>2, <1>3, <1>6, <1>7, <1>8, Fills
<1> QED BY <1>1, <1>5, <1>9, DecodeGoesOn

\* MergeHuffDescs.
LEMMA MergeFeeds ==
    ASSUME OrderInv, DataInv, MergeHuffDescs
    PROVE  DataInv'
<1>1. Decoding("merge") /\ DecodeGoes("merge", "barrier")
    BY DecodeAt DEF MergeHuffDescs, SameFlags, DecodeGoes
<1>2. Launching(device, device', WorkStream, "Merge")
    BY MergeStep
<1>3. Plain("Merge", {"huff_lists", "counts"}, {"huff_descs", "n_merged"})
    BY <1>1, DecodeAccesses, DecodeUses DEF Decoding
<1>4. {"huff_lists", "counts"} \subseteq DecodeNeeds("merge", Req)
    BY DEF DecodeNeeds
<1>5. DecodeNeeds("barrier", Req) \subseteq DecodeNeeds("merge", Req) \cup {"huff_descs", "n_merged"}
    BY DEF DecodeNeeds, If
<1> QED BY <1>1, <1>2, <1>3, <1>4, <1>5, OneFeeds

\* CrossStreamBarrier and SettleBackHalf queue nothing.
LEMMA BarrierFeeds ==
    ASSUME OrderInv, DataInv, CrossStreamBarrier
    PROVE  DataInv'
<1>1. Decoding("barrier") /\ DecodeGoes("barrier", "groups") /\ device' = device
    BY DecodeAt DEF CrossStreamBarrier, SameFlags, DecodeGoes
<1>2. DecodeNeeds("groups", Req) \subseteq DecodeNeeds("barrier", Req)
    BY DEF DecodeNeeds
<1> QED BY <1>1, <1>2, NoneFeeds

\* SettleBackHalf.
LEMMA SettleFeeds ==
    ASSUME OrderInv, DataInv, SettleBackHalf
    PROVE  DataInv'
<1> DEFINE there == IF Direct THEN "status" ELSE IF Req.merkle = "none" THEN "finalize" ELSE "merkle"
<1>1. Decoding("settle") /\ DecodeGoes("settle", there) /\ device' = device
    BY DecodeAt DEF SettleBackHalf, SameFlags, DecodeGoes
<1>2. DecodeNeeds(there, Req) \subseteq DecodeNeeds("settle", Req)
    BY DEF DecodeNeeds, Direct
<1> HIDE DEF there
<1> QED BY <1>1, <1>2, NoneFeeds

\* StageGroupCount.
LEMMA GroupsFeeds ==
    ASSUME OrderInv, DataInv, StageGroupCount
    PROVE  DataInv'
<1> DEFINE there == IF Req.entropy THEN "huff" ELSE "lz"
<1>1. Decoding("groups") /\ DecodeGoes("groups", there)
    BY DecodeAt DEF StageGroupCount, SameFlags, DecodeGoes
<1>2. Req.source \in {"host", "device"}
    BY <1>1 DEF Decoding
<1>3. CASE Req.source = "device"
    <2>1. device' = device
        BY <1>3, GroupsStep
    <2>2. DecodeNeeds(there, Req) \subseteq DecodeNeeds("groups", Req)
        BY <1>3 DEF DecodeNeeds, If
    <2> HIDE DEF there
    <2> QED BY <1>1, <2>1, <2>2, NoneFeeds
<1>4. CASE Req.source = "host"
    <2>1. Launching(device, device', "null", "CopyGroups")
        BY <1>4, GroupsStep
    <2>2. Plain("CopyGroups", {}, {"n_groups"})
        BY <1>1, DecodeAccesses, DecodeUses DEF Decoding
    <2>3. DecodeNeeds(there, Req) \subseteq DecodeNeeds("groups", Req) \cup {"n_groups"}
        BY <1>4 DEF DecodeNeeds, If
    <2>4. {} \subseteq DecodeNeeds("groups", Req)
        OBVIOUS
    <2> HIDE DEF there
    <2> QED BY <1>1, <2>1, <2>2, <2>3, <2>4, OneFeeds
<1> QED BY <1>2, <1>3, <1>4

\* ReadVerdict and WalkStatus read back.
LEMMA VerdictFeeds ==
    ASSUME OrderInv, DataInv, ReadVerdict
    PROVE  DataInv'
<1>1. Decoding("verdict") /\ DecodeGoes("verdict", "finalize")
    BY DecodeAt DEF ReadVerdict, SameFlags, DecodeGoes
<1>2. Launching(device, device', "null", "ReadVerdict")
    BY VerdictStep
<1>3. Plain("ReadVerdict", {"verdict"}, {})
    BY <1>1, DecodeAccesses, DecodeUses DEF Decoding
<1>4. {"verdict"} \subseteq DecodeNeeds("verdict", Req)
    BY DEF DecodeNeeds
<1>5. DecodeNeeds("finalize", Req) \subseteq DecodeNeeds("verdict", Req) \cup {}
    BY DEF DecodeNeeds
<1> QED BY <1>1, <1>2, <1>3, <1>4, <1>5, OneFeeds

\* WalkStatus, read back by a synchronous call only.
LEMMA StatusFeeds ==
    ASSUME OrderInv, DataInv, WalkStatus
    PROVE  DataInv'
<1>1. Decoding("status") /\ DecodeGoes("status", "download")
    BY DecodeAt DEF WalkStatus, SameFlags, DecodeGoes
<1>2. CASE IsSync(Req)
    <2>1. Launching(device, device', "null", "ReadStatus")
        BY <1>2, StatusStep
    <2>2. Plain("ReadStatus", {"meta"}, {})
        BY <1>1, DecodeAccesses, DecodeUses DEF Decoding
    <2>3. {"meta"} \subseteq DecodeNeeds("status", Req)
        BY DEF DecodeNeeds
    <2>4. DecodeNeeds("download", Req) \subseteq DecodeNeeds("status", Req) \cup {}
        BY DEF DecodeNeeds
    <2> QED BY <1>1, <2>1, <2>2, <2>3, <2>4, OneFeeds
<1>3. CASE ~IsSync(Req)
    <2>1. DecodeNeeds("download", Req) \subseteq DecodeNeeds("status", Req)
        BY DEF DecodeNeeds
    <2>2. device' = device
        BY <1>3, StatusStep
    <2> QED BY <1>1, <2>1, <2>2, NoneFeeds
<1> QED BY <1>2, <1>3

\* A step that queues two operations.
LEMMA TwoFeed ==
    ASSUME NEW here, Decoding(here), NEW there, DecodeGoes(here, there),
           NEW s, NEW o, NEW R, NEW W, Plain(o, R, W), NEW t, NEW p, NEW S, NEW X, Plain(p, S, X),
           NEW d, Launching(device, d, s, o), Launching(d, device', t, p),
           R \subseteq DecodeNeeds(here, Req), S \subseteq DecodeNeeds(here, Req) \cup W,
           DecodeNeeds(there, Req) \subseteq DecodeNeeds(here, Req) \cup (W \cup X)
    PROVE  DataInv'
<1> DEFINE N == DecodeNeeds(here, Req)
<1>1. /\ Stocked(device, memory, N, dictCached) /\ plan \in Plans /\ call \in Calls
      /\ R \subseteq N /\ S \subseteq N \cup W /\ DecodeNeeds(there, Req) \subseteq N \cup (W \cup X)
    BY DEF Decoding
<1> HIDE DEF N
<1>2. Stocked(d, memory, N \cup W, dictCached)
    BY <1>1, Fills
<1> DEFINE M == N \cup W
<1>3. Stocked(device', memory, M \cup X, dictCached)
    <2>1. Stocked(d, memory, M, dictCached) /\ S \subseteq M
        BY <1>1, <1>2
    <2> HIDE DEF M
    <2> QED BY <1>1, <2>1, Fills
<1>4. DecodeNeeds(there, Req) \subseteq M \cup X
    BY <1>1
<1> HIDE DEF M
<1> QED BY <1>3, <1>4, DecodeGoesOn

\* StageScan.
LEMMA StageFeeds ==
    ASSUME OrderInv, DataInv, StageScan
    PROVE  DataInv'
<1>1. Decoding("stage") /\ DecodeGoes("stage", "scan")
    BY DecodeAt DEF StageScan, SameFlags, DecodeGoes
<1>2. PICK d : Launching(device, d, "null", "ZeroStaged") /\ Launching(d, device', "null", "CopyCount")
    BY StageStep
<1>3. Plain("ZeroStaged", {}, {"staged"}) /\ Plain("CopyCount", {}, {"n_chunks"})
    BY <1>1, DecodeAccesses, DecodeUses DEF Decoding
<1>4. DecodeNeeds("scan", Req) \subseteq DecodeNeeds("stage", Req) \cup ({"staged"} \cup {"n_chunks"})
    BY DEF DecodeNeeds
<1>5. {} \subseteq DecodeNeeds("stage", Req) /\ {} \subseteq DecodeNeeds("stage", Req) \cup {"staged"}
    OBVIOUS
<1> QED BY <1>1, <1>2, <1>3, <1>4, <1>5, TwoFeed

\* HuffBuildAndDecode.
LEMMA HuffFeeds ==
    ASSUME OrderInv, DataInv, HuffBuildAndDecode
    PROVE  DataInv'
<1>1. Decoding("huff") /\ DecodeGoes("huff", "lz")
    BY DecodeAt DEF HuffBuildAndDecode, SameFlags, DecodeGoes
<1>2. PICK d : Launching(device, d, HeavyStream, "HuffBuild") /\ Launching(d, device', HeavyStream, "HuffDecode")
    BY HuffStep
<1>3. Req.entropy
    BY <1>1, StepOf DEF Decoding
<1>4. /\ Plain("HuffBuild", {"block", "huff_descs", "n_merged"}, {"huff_lut"})
      /\ Plain("HuffDecode", {"block", "huff_descs", "huff_lut", "n_merged", "counts"}, {"huff_scratch"})
    BY <1>1, DecodeAccesses, DecodeUses DEF Decoding
<1>5. /\ {"block", "huff_descs", "n_merged"} \subseteq DecodeNeeds("huff", Req)
      /\ {"block", "huff_descs", "huff_lut", "n_merged", "counts"} \subseteq DecodeNeeds("huff", Req) \cup {"huff_lut"}
    BY <1>3 DEF DecodeNeeds, If
<1>6. DecodeNeeds("lz", Req) \subseteq DecodeNeeds("huff", Req) \cup ({"huff_lut"} \cup {"huff_scratch"})
    BY <1>3 DEF DecodeNeeds, If
<1> QED BY <1>1, <1>2, <1>4, <1>5, <1>6, TwoFeed

\* A buffer that is cleared is of no use until it is filled.
LEMMA Clearing ==
    ASSUME plan \in Plans, call \in Calls, NEW o, NEW W, Uses(o, {}, W), "frame" \notin W, "dict" \notin W,
           NEW d, NEW e, NEW s, Launching(d, e, s, o), NEW N, NEW v, Stocked(d, memory, N, v)
    PROVE  Stocked(e, memory, N \ W, v)
<1>1. ("frame" \in W => Req.of = 0) /\ ("dict" \in W => v = 0) /\ {} \subseteq N
    OBVIOUS
<1> QED BY <1>1, KeepsStock

\* WalkFrame.
LEMMA WalkFeeds ==
    ASSUME OrderInv, DataInv, WalkFrame
    PROVE  DataInv'
<1> DEFINE N == DecodeNeeds("walk", Req)
           M == N \ {"meta"}
           W == {"meta", "walk_chunks"}
<1>1. Decoding("walk") /\ DecodeGoes("walk", "descs")
    BY DecodeAt DEF WalkFrame, SameFlags, DecodeGoes
<1>2. PICK d : Launching(device, d, "null", "ZeroMeta") /\ Launching(d, device', WorkStream, "Walk")
    BY WalkStep
<1>3. Req.source = "device"
    BY <1>1, StepOf DEF Decoding
<1>4. Plain("Walk", {"frame"}, W)
    BY <1>1, DecodeAccesses, DecodeUses DEF Decoding
<1>5. Uses("ZeroMeta", {}, {"meta"})
    BY <1>1, DecodeAccesses DEF Uses, Access, Decoding
<1>6. {"frame"} \subseteq M /\ DecodeNeeds("descs", Req) \subseteq M \cup W
    BY <1>3 DEF DecodeNeeds, If
<1>7. plan \in Plans /\ call \in Calls /\ Stocked(device, memory, N, dictCached)
    BY <1>1 DEF Decoding
<1>8. Stocked(d, memory, M, dictCached)
    <2> HIDE DEF N
    <2> QED BY <1>2, <1>5, <1>7, Clearing
<1> HIDE DEF N, M, W
<1>9. Stocked(device', memory, M \cup W, dictCached)
    BY <1>2, <1>4, <1>6, <1>7, <1>8, Fills
<1> QED BY <1>1, <1>6, <1>9, DecodeGoesOn

\* ScanChunks.
LEMMA ScanFeeds ==
    ASSUME OrderInv, DataInv, ScanChunks
    PROVE  DataInv'
<1> DEFINE N == DecodeNeeds("scan", Req)
           R == {"block", "descs", "first_sub", "n_chunks", "staged"}
           S == {"staged"}
           Z == {"counts", "n_merged"}
           M == (N \cup S) \ Z
           W == {"huff_lists", "raw_list", "counts"}
<1>1. Decoding("scan") /\ DecodeGoes("scan", "gather")
    BY DecodeAt DEF ScanChunks, SameFlags, DecodeGoes
<1>2. PICK d, e : /\ Launching(device, d, WorkStream, "ScanParse") /\ Launching(d, e, "null", "ZeroCounts")
                  /\ Launching(e, device', WorkStream, "Compact")
    BY ScanStep
<1>3. Plain("ScanParse", R, S) /\ Plain("Compact", {"staged", "first_sub"}, W)
    BY <1>1, DecodeAccesses, DecodeUses DEF Decoding
<1>4. Uses("ZeroCounts", {}, Z)
    BY <1>1, DecodeAccesses DEF Uses, Access, Decoding
<1>5. R \subseteq N /\ {"staged", "first_sub"} \subseteq M /\ DecodeNeeds("gather", Req) \subseteq M \cup W
    BY DEF DecodeNeeds, If
<1>6. plan \in Plans /\ call \in Calls /\ Stocked(device, memory, N, dictCached)
      /\ "frame" \notin Z /\ "dict" \notin Z
    BY <1>1 DEF Decoding
<1> HIDE DEF N, R, W, Z, S
<1>7. Stocked(d, memory, N \cup S, dictCached)
    BY <1>2, <1>3, <1>5, <1>6, Fills
<1>8. Stocked(e, memory, M, dictCached)
    BY <1>2, <1>4, <1>6, <1>7, Clearing
<1> HIDE DEF M
<1>9. Stocked(device', memory, M \cup W, dictCached)
    BY <1>2, <1>3, <1>5, <1>6, <1>8, Fills
<1> QED BY <1>1, <1>5, <1>9, DecodeGoesOn

\* LzPipeline.
LEMMA LzFeeds ==
    ASSUME OrderInv, DataInv, LzPipeline
    PROVE  DataInv'
<1> DEFINE N == DecodeNeeds("lz", Req)
<1>1. Decoding("lz") /\ DecodeGoes("lz", "settle")
    BY DecodeAt DEF LzPipeline, DecodeGoes
<1>2. PICK d : /\ d = device \/ (gatherPending /\ d = Cuda!WaitEvent(device, HeavyStream, "gather_done"))
               /\ Launching(d, device', HeavyStream, "Lz")
    BY LzStep
<1>3. Shape(device) /\ HeavyStream \in Streams /\ "gather_done" \in Events
    BY <1>1, DecodeStream DEF OrderInv, Sound, Decoding, HeavyStream, Streams, Events
<1>4. d.after = device.after
    BY <1>2, <1>3, Awaited
<1>5. Plain("Lz", LzReads(Req), {LzOutput(Req)})
    BY <1>1, DecodeAccesses, DecodeUses DEF Decoding, LzOutput
<1>6. LzReads(Req) \subseteq N
    BY <1>1 DEF DecodeNeeds, If, LzReads, Decoding
<1>7. DecodeNeeds("settle", Req) \subseteq N \cup {LzOutput(Req)}
    BY DEF DecodeNeeds, If, LzOutput
<1>8. plan \in Plans /\ call \in Calls /\ Stocked(device, memory, N, dictCached)
    BY <1>1 DEF Decoding
<1> HIDE DEF N
<1>9. Stocked(d, memory, N, dictCached)
    BY <1>4, <1>8, StocksLess
<1>10. Stocked(device', memory, N \cup {LzOutput(Req)}, dictCached)
    BY <1>2, <1>5, <1>6, <1>8, <1>9, Fills
<1> QED BY <1>1, <1>7, <1>10, DecodeGoesOn

\* GatherRawOff16.
LEMMA GatherFeeds ==
    ASSUME OrderInv, DataInv, GatherRawOff16
    PROVE  DataInv'
<1> DEFINE N == DecodeNeeds("gather", Req)
           R == {"block", "raw_list", "counts"}
           W == {"raw_scratch"}
<1>1. Decoding("gather") /\ DecodeGoes("gather", "merge")
    BY DecodeAt DEF GatherRawOff16, DecodeGoes
<1>2. Plain("Gather", R, W)
    BY <1>1, DecodeAccesses, DecodeUses DEF Decoding
<1>3. R \subseteq N /\ DecodeNeeds("merge", Req) \subseteq N \cup W
    BY DEF DecodeNeeds
<1>4. Launching(device, device', WorkStream, "Gather") \/ Forked(device')
    BY GatherStep
<1>5. CASE Launching(device, device', WorkStream, "Gather")
    <2> HIDE DEF R, W
    <2> QED BY <1>1, <1>2, <1>3, <1>5, OneFeeds
<1>6. CASE Forked(device')
    <2>1. PICK a, b, e : /\ a = Cuda!Record(device, "compact_done", WorkStream)
                         /\ b = Cuda!WaitEvent(a, "gather", "compact_done")
                         /\ e = Cuda!Launch(b, "gather", Op("Gather"))
                         /\ device' = Cuda!Record(e, "gather_done", "gather")
                         /\ Launching(b, e, "gather", "Gather")
        BY <1>6 DEF Forked
    <2>2. Shape(device) /\ WorkStream \in Streams /\ "gather" \in Streams
          /\ "compact_done" \in Events /\ "gather_done" \in Events
        BY <1>1, DecodeStream DEF OrderInv, Sound, Decoding, WorkStream, Streams, Events
    <2>3. Shape(a) /\ a.after = device.after
        BY <2>1, <2>2, Recorded
    <2>4. b.after = device.after
        BY <2>1, <2>2, <2>3, Awaited
    <2>5. Shape(e)
        BY <2>1 DEF Launching, AfterLaunch
    <2>6. device'.after = e.after
        BY <2>1, <2>2, <2>5, Recorded
    <2>7. plan \in Plans /\ call \in Calls /\ Stocked(device, memory, N, dictCached)
        BY <1>1 DEF Decoding
    <2> HIDE DEF N, R, W
    <2>8. Stocked(b, memory, N, dictCached)
        BY <2>4, <2>7, StocksLess
    <2>9. Stocked(e, memory, N \cup W, dictCached)
        BY <1>2, <1>3, <2>1, <2>7, <2>8, Fills
    <2>10. Stocked(device', memory, N \cup W, dictCached)
        BY <2>6, <2>9, StocksLess
    <2> QED BY <1>1, <1>3, <2>10, DecodeGoesOn
<1> QED BY <1>4, <1>5, <1>6

\* The Merkle chain is behind the output that it verifies.
LEMMA ChainFeeds ==
    ASSUME Req.job = "decompress", plan \in Plans, call \in Calls, NEW d, NEW e, NEW s, Chained(d, e, s),
           Stocked(d, memory, {"output", "block"}, dictCached)
    PROVE  Stocked(e, memory, {"output", "hashes"}, dictCached)
<1>1. PICK a, b : /\ Launching(d, a, s, "ScPrefix") /\ Launching(a, b, s, "SegHash")
                  /\ Launching(b, e, s, "ChunkCombine")
    BY DEF Chained
<1>2. /\ Plain("ScPrefix", {"block", "output"}, {"output"}) /\ Plain("SegHash", {"output"}, {"segments"})
      /\ Plain("ChunkCombine", {"segments"}, {"hashes"})
    BY DecodeAccesses, DecodeUses
<1> DEFINE N == {"output", "block"}
           M == N \cup {"output"}
           L == M \cup {"segments"}
           K == L \cup {"hashes"}
<1>3. {"block", "output"} \subseteq N /\ {"output"} \subseteq M /\ {"segments"} \subseteq L /\ {"output", "hashes"} \subseteq K
    OBVIOUS
<1>4. Stocked(d, memory, N, dictCached)
    OBVIOUS
<1> HIDE DEF N
<1>5. Stocked(a, memory, M, dictCached)
    BY <1>1, <1>2, <1>3, <1>4, Fills
<1> HIDE DEF M
<1>6. Stocked(b, memory, L, dictCached)
    BY <1>1, <1>2, <1>3, <1>5, Fills
<1> HIDE DEF L
<1>7. Stocked(e, memory, K, dictCached)
    BY <1>1, <1>2, <1>3, <1>6, Fills
<1> HIDE DEF K
<1> QED BY <1>3, <1>7, StocksLess

\* MerkleVerify.
LEMMA MerkleFeeds ==
    ASSUME OrderInv, DataInv, MerkleVerify
    PROVE  DataInv'
<1> DEFINE there == IF Req.merkle = "verdict" THEN "verdict" ELSE "finalize"
           N == {"output", "hashes"}
<1>1. Decoding("merkle") /\ DecodeGoes("merkle", there)
    BY DecodeAt DEF MerkleVerify, DecodeGoes
<1>2. PICK s, d, e : /\ Branched(d, s) /\ Chained(d, e, s)
                     /\ \/ Req.merkle # "verdict" /\ device' = e
                        \/ Req.merkle = "verdict" /\ Launching(e, device', s, "Verdict")
    BY MerkleStep
<1>3. d.after = device.after
    <2>1. Shape(device) /\ "pipeline" \in Streams /\ "gather" \in Streams /\ "lz_done" \in Events
        BY DEF OrderInv, Sound, Streams, Events
    <2>2. CASE d = device
        BY <2>2
    <2>3. ASSUME NEW a, a = Cuda!Record(device, "lz_done", "pipeline"),
                 d = Cuda!WaitEvent(a, "gather", "lz_done")
          PROVE  d.after = device.after
        <3>1. Shape(a) /\ a.after = device.after
            BY <2>1, <2>3, Recorded
        <3> QED BY <2>1, <2>3, <3>1, Awaited
    <2> QED BY <1>2, <2>2, <2>3 DEF Branched
<1>4. /\ plan \in Plans /\ call \in Calls /\ Req.job = "decompress"
      /\ Stocked(device, memory, {"output", "block"}, dictCached)
    BY <1>1 DEF Decoding, DecodeNeeds
<1>5. Stocked(d, memory, {"output", "block"}, dictCached)
    BY <1>3, <1>4, StocksLess
<1>6. Stocked(e, memory, N, dictCached)
    BY <1>2, <1>4, <1>5, ChainFeeds
<1>7. CASE Req.merkle # "verdict"
    <2>1. device' = e /\ DecodeNeeds(there, Req) \subseteq N
        BY <1>2, <1>7 DEF DecodeNeeds
    <2> HIDE DEF N, there
    <2> QED BY <1>1, <1>6, <2>1, DecodeGoesOn
<1>8. CASE Req.merkle = "verdict"
    <2>1. Plain("Verdict", {"hashes"}, {"verdict"})
        BY <1>4, DecodeAccesses, DecodeUses
    <2>2. Launching(e, device', s, "Verdict")
        BY <1>2, <1>8
    <2>3. {"hashes"} \subseteq N /\ DecodeNeeds(there, Req) \subseteq N \cup {"verdict"}
        BY <1>8 DEF DecodeNeeds
    <2> HIDE DEF N, there
    <2>4. Stocked(device', memory, N \cup {"verdict"}, dictCached)
        BY <1>4, <1>6, <2>1, <2>2, <2>3, Fills
    <2> QED BY <1>1, <2>3, <2>4, DecodeGoesOn
<1> QED BY <1>7, <1>8

\* What the dictionary buffer holds is ready for a call that names it.
LEMMA DictReady ==
    ASSUME call \in Calls, NEW d, Holds(d, memory, <<"dict", 0>>, Req.dict)
    PROVE  Ready(d, memory, "dict", call)
<1>1. Place("dict", call) = <<"dict", 0>>
    BY PlaceIs
<1>2. Owner(<<"dict", 0>>, call) = Req.dict
    BY DEF Owner, Req
<1>3. Place("dict", call) \in Places
    BY NamedPlaces DEF Names, Scratch
<1> QED BY <1>1, <1>2, <1>3 DEF Ready

\* EnsureDict: the cached dictionary is the one the frame names, or that one is uploaded.
LEMMA DictFeeds ==
    ASSUME OrderInv, DataInv, EnsureDict
    PROVE  DataInv'
<1> DEFINE there == IF Req.source = "device" THEN "walk" ELSE "descs"
           N == DecodeNeeds("dict", Req)
<1>1. Decoding("dict") /\ Goto(there)
    BY DecodeAt DEF EnsureDict
<1>2. plan \in Plans /\ call \in Calls /\ Stocked(device, memory, N, dictCached) /\ Req.job = "decompress"
      /\ Req.source \in {"host", "device"}
    BY <1>1 DEF Decoding
<1>3. Needs(there, Req) \subseteq N \cup If(Req.dict # 0, {"dict"})
    BY <1>2 DEF Needs, DecodeNeeds, If
<1>4. SameCall /\ memory' = memory /\ step' = there
    BY <1>1 DEF Goto, host, SameCall
<1> HIDE DEF there, N
<1>5. CASE DictResident
    <2>1. device' = device /\ dictCached' = dictCached
        BY <1>5 DEF EnsureDict
    <2>2. ASSUME Req.dict # 0 PROVE Ready(device, memory, "dict", call)
        <3>1. dictCached = Req.dict
            BY <1>5, <2>2 DEF DictResident
        <3>2. Holds(device, memory, <<"dict", 0>>, Req.dict)
            BY <1>2, <2>2, <3>1 DEF Stocked
        <3> QED BY <1>2, <3>2, DictReady
    <2>3. Stocked(device, memory, N \cup If(Req.dict # 0, {"dict"}), dictCached)
        BY <1>2, <2>2 DEF Stocked, If
    <2> QED BY <1>2, <1>3, <1>4, <2>1, <2>3, Carries
<1>6. CASE ~DictResident
    <2>1. dictCached' = Req.dict /\ Launching(device, device', "null", "UploadDict")
        BY <1>6, EnsureDictStep DEF EnsureDict
    <2>2. Uses("UploadDict", {}, {"dict"})
        BY <1>2, DecodeAccesses DEF Uses, Access
    <2>3. Stocked(device, memory, N, 0)
        BY <1>2 DEF Stocked
    <2>4. "frame" \notin {"dict"} /\ {} \subseteq N /\ "UploadDict" \notin {"ZeroMeta", "ZeroCounts", "ZeroSizes"}
        OBVIOUS
    <2>5. Stocked(device', memory, N \cup {"dict"}, 0)
        BY <1>2, <2>1, <2>2, <2>3, <2>4, Feeds
    <2>6. Ready(device', memory, "dict", call)
        BY <2>5 DEF Stocked
    <2>7. Holds(device', memory, <<"dict", 0>>, Req.dict)
        <3>1. Place("dict", call) = <<"dict", 0>>
            BY PlaceIs
        <3>2. Owner(<<"dict", 0>>, call) = Req.dict
            BY DEF Owner, Req
        <3> QED BY <2>6, <3>1, <3>2 DEF Ready
    <2>8. Stocked(device', memory, N \cup {"dict"}, dictCached')
        BY <2>1, <2>5, <2>7 DEF Stocked
    <2>9. Needs(there, Req) \subseteq N \cup {"dict"}
        BY <1>3 DEF If
    <2> QED BY <1>2, <1>4, <2>8, <2>9, Carries
<1> QED BY <1>5, <1>6

\* Submit: the frame was there, an earlier call makes it, or the caller uploads it.
LEMMA SubmitFeeds ==
    ASSUME OrderInv, DataInv, Submit
    PROVE  DataInv'
<1> DEFINE there == IF Req.source = "device" THEN "header" ELSE "dict"
           M == If(Req.source = "device", {"frame"})
<1>1. /\ step = "submit" /\ waiting = {} /\ call \in Calls /\ Goto(there) /\ dictCached' = dictCached
      /\ Req.job = "decompress" /\ Req.of \notin refused
    BY DEF Submit, At, SameFlags
<1>2. plan \in Plans /\ Req \in Request
    BY <1>1, AtWork
<1>3. /\ Stocked(device, memory, If(GivenDirectly(Req), {"frame"}), dictCached)
      /\ Needs(there, Req) \subseteq M
    BY <1>1 DEF DataInv, Needs, DecodeNeeds, If
<1>4. IF Req.source = "device" /\ ~Req.settled /\ Req.of = 0
      THEN Launching(device, device', WorkStream, "UploadFrame") ELSE device' = device
    BY SubmitStep
<1> HIDE DEF there
<1>5. Stocked(device', memory, M, dictCached)
    <2>1. CASE Req.source # "device" \/ GivenDirectly(Req)
        <3>1. M \subseteq If(GivenDirectly(Req), {"frame"})
            BY <2>1 DEF If
        <3>2. device' = device
            BY <1>4, <2>1 DEF GivenDirectly
        <3> HIDE DEF M
        <3> QED BY <1>3, <3>1, <3>2, StocksLess
    <2>2. CASE Req.source = "device" /\ ~Req.settled /\ Req.of = 0
        <3>1. Uses("UploadFrame", {}, {"frame"})
            BY <1>1, DecodeAccesses DEF Uses, Access
        <3> DEFINE N == If(GivenDirectly(Req), {"frame"})
        <3>2. /\ {} \subseteq N /\ M \subseteq N \cup {"frame"} /\ "dict" \notin {"frame"} /\ Req.of = 0
              /\ "UploadFrame" \notin {"ZeroMeta", "ZeroCounts", "ZeroSizes"}
            BY <2>2 DEF If
        <3>3. Launching(device, device', WorkStream, "UploadFrame")
            BY <1>4, <2>2
        <3>4. Stocked(device, memory, N, dictCached)
            BY <1>3
        <3> HIDE DEF M, N
        <3>5. Stocked(device', memory, N \cup {"frame"}, dictCached)
            BY <1>1, <1>2, <3>1, <3>2, <3>3, <3>4, Feeds
        <3> QED BY <3>2, <3>5, StocksLess
    <2>3. CASE Req.source = "device" /\ Req.of # 0
        <3> DEFINE of == Req.of
        <3>1. call \in DOMAIN plan
            BY <1>1, <1>2, PlansAssumption DEF Calls
        <3>2. /\ of # 0 /\ of \in Nat /\ of < call /\ plan[of].job = "compress" /\ plan[of].source = "device"
            BY ZenonT(60), <1>2, <2>3, <3>1, CallersAssumption DEF Req, Request
        <3>3. of \in Calls
            BY <1>1, <3>2 DEF Calls
        <3>4. Produced(of)
            BY <1>1, <3>2 DEF Produced
        <3>5. Ready(device, memory, "target", of)
            BY <1>3, <3>3, <3>4 DEF Stocked
        <3>6. Place("target", of) = <<"target", of>> /\ Place("frame", call) = <<"target", of>>
            BY <2>3, <3>2, PlaceIs DEF Req
        <3>7. Owner(<<"target", of>>, of) = of /\ Owner(<<"target", of>>, call) = of
            BY <3>2 DEF Owner
        <3>8. Ready(device, memory, "frame", call)
            BY <3>5, <3>6, <3>7 DEF Ready
        <3>9. M \subseteq {"frame"}
            BY DEF If
        <3>10. Stocked(device, memory, M, dictCached)
            BY <1>3, <3>8, <3>9 DEF Stocked
        <3>11. device' = device
            BY <1>4, <2>3
        <3> QED BY <3>10, <3>11
    <2> QED BY <2>1, <2>2, <2>3 DEF GivenDirectly
<1> HIDE DEF M
<1> QED BY <1>1, <1>3, <1>5, MovesOn

-----------------------------------------------------------------------------
(* The same of a compression *)

\* One, two, three or four operations, one behind the other.
LEMMA Fill1 ==
    ASSUME plan \in Plans, call \in Calls, NEW d, NEW e, NEW s, NEW o, NEW R, NEW W, Plain(o, R, W),
           Launching(d, e, s, o), NEW N, NEW v, Stocked(d, memory, N, v), R \subseteq N,
           NEW K, K \subseteq N \cup W
    PROVE  Stocked(e, memory, K, v)
<1>1. Stocked(e, memory, N \cup W, v)
    BY Fills
<1> QED BY <1>1, StocksLess

\* Two operations on the null stream fill what they write, the second with what the first wrote.
LEMMA Fill2 ==
    ASSUME plan \in Plans, call \in Calls, NEW d, NEW e, NEW o, NEW p, Encoded2(d, e, o, p),
           NEW R, NEW W, Plain(o, R, W), NEW S, NEW X, Plain(p, S, X),
           NEW N, NEW v, Stocked(d, memory, N, v), R \subseteq N, S \subseteq N \cup W,
           NEW K, K \subseteq N \cup W \cup X
    PROVE  Stocked(e, memory, K, v)
<1>1. PICK a : Launching(d, a, "null", o) /\ Launching(a, e, "null", p)
    BY DEF Encoded2
<1> DEFINE M == N \cup W
<1>2. Stocked(a, memory, M, v)
    BY <1>1, Fills
<1>3. S \subseteq M /\ K \subseteq M \cup X
    OBVIOUS
<1> HIDE DEF M
<1> QED BY <1>1, <1>2, <1>3, Fill1

\* Three operations.
LEMMA Fill3 ==
    ASSUME plan \in Plans, call \in Calls, NEW d, NEW e, NEW o, NEW p, NEW q, Encoded3(d, e, o, p, q),
           NEW R, NEW W, Plain(o, R, W), NEW S, NEW X, Plain(p, S, X), NEW T, NEW Y, Plain(q, T, Y),
           NEW N, NEW v, Stocked(d, memory, N, v), R \subseteq N, S \subseteq N \cup W,
           T \subseteq N \cup W \cup X, NEW K, K \subseteq N \cup W \cup X \cup Y
    PROVE  Stocked(e, memory, K, v)
<1>1. PICK a, b : Launching(d, a, "null", o) /\ Launching(a, b, "null", p) /\ Launching(b, e, "null", q)
    BY DEF Encoded3
<1> DEFINE M == N \cup W
<1>2. Stocked(a, memory, M, v) /\ S \subseteq M /\ T \subseteq M \cup X /\ K \subseteq M \cup X \cup Y
    BY <1>1, Fills
<1> HIDE DEF M
<1> DEFINE L == M \cup X
<1>3. Stocked(b, memory, L, v) /\ T \subseteq L /\ K \subseteq L \cup Y
    BY <1>1, <1>2, Fills
<1> HIDE DEF L
<1> QED BY <1>1, <1>3, Fill1

\* Four operations, a Huffman pass.
LEMMA Fill4 ==
    ASSUME plan \in Plans, call \in Calls, NEW d, NEW e, NEW o, NEW p, NEW q, NEW r, Encoded4(d, e, o, p, q, r),
           NEW R, NEW W, Plain(o, R, W), NEW S, NEW X, Plain(p, S, X),
           NEW T, NEW Y, Plain(q, T, Y), NEW U, NEW Z, Plain(r, U, Z),
           NEW N, NEW v, Stocked(d, memory, N, v), R \subseteq N, S \subseteq N \cup W,
           T \subseteq N \cup W \cup X, U \subseteq N \cup W \cup X \cup Y,
           NEW K, K \subseteq N \cup W \cup X \cup Y \cup Z
    PROVE  Stocked(e, memory, K, v)
<1>1. PICK a, b, c : /\ Launching(d, a, "null", o) /\ Launching(a, b, "null", p)
                     /\ Launching(b, c, "null", q) /\ Launching(c, e, "null", r)
    BY DEF Encoded4
<1>2. Encoded3(d, c, o, p, q)
    BY <1>1 DEF Encoded3
<1> DEFINE L == N \cup W \cup X \cup Y
<1>3. L \subseteq N \cup W \cup X \cup Y /\ U \subseteq L /\ K \subseteq L \cup Z
    OBVIOUS
<1> HIDE DEF L
<1>4. Stocked(c, memory, L, v)
    BY <1>2, <1>3, Fill3
<1> QED BY <1>1, <1>3, <1>4, Fill1

\* What a compression finds at one of its steps, and where it goes.
Compressing(here, there) ==
    /\ step = here /\ waiting = {} /\ call \in Calls /\ plan \in Plans
    /\ Req \in Request /\ step \in Route(Req) /\ Req.job = "compress" /\ Req.source \in {"host", "device"}
    /\ Stocked(device, memory, EncodeNeeds(here, Req), dictCached)
    /\ Goto(there) /\ dictCached' = dictCached

\* A compression at one of its steps has ready what the step needs.
LEMMA EncodeAt ==
    ASSUME OrderInv, DataInv, NEW here, Compresses(here), NEW there, Goto(there), SameFlags
    PROVE  Compressing(here, there)
<1>1. step = here /\ waiting = {} /\ call \in Calls /\ Req.job = "compress" /\ dictCached' = dictCached
    BY DEF Compresses, At, SameFlags
<1>2. plan \in Plans /\ Req \in Request /\ step \in Route(Req)
    BY <1>1, AtWork
<1>3. Req.source \in {"host", "device"}
    BY <1>2, StepOf
<1> QED BY <1>1, <1>2, <1>3 DEF Compressing, DataInv, Needs

\* It goes on to a step that has what it needs.
LEMMA EncodeGoesOn ==
    ASSUME NEW here, NEW there, Compressing(here, there),
           Stocked(device', memory, EncodeNeeds(there, Req), dictCached)
    PROVE  DataInv'
<1>1. Needs(there, Req) = EncodeNeeds(there, Req) /\ call \in Calls /\ Goto(there) /\ dictCached' = dictCached
    BY DEF Compressing, Needs
<1> QED BY <1>1, MovesOn

\* The operations of a compression have to do with neither dictionaries nor given frames.
LEMMA EncodeUses ==
    ASSUME Req.job = "compress", NEW o, NEW R, NEW W, EncodeAccess(o, Req) = [reads |-> R, writes |-> W],
           "frame" \notin W, "dict" \notin W, o \notin {"ZeroMeta", "ZeroCounts", "ZeroSizes"}
    PROVE  Plain(o, R, W)
BY DEF Plain, Uses, Access

\* SubmitInput: the input was there, or the caller uploads it.
LEMMA SubmitInputFeeds ==
    ASSUME OrderInv, DataInv, SubmitInput
    PROVE  DataInv'
<1> DEFINE there == IF Req.source = "device" THEN "input" ELSE "wrap"
           N == EncodeNeeds("submit", Req)
           K == EncodeNeeds(there, Req)
<1>1. Compressing("submit", there)
    BY EncodeAt DEF SubmitInput
<1>2. IF Req.source = "device" /\ ~Req.settled /\ Req.of = 0
      THEN Launching(device, device', WorkStream, "UploadInput") ELSE device' = device
    BY SubmitInputStep
<1>3. plan \in Plans /\ call \in Calls /\ Stocked(device, memory, N, dictCached)
      /\ Req.job = "compress" /\ Req \in Request
    BY <1>1 DEF Compressing
<1>4. Req.of = 0
    <2>1. call \in DOMAIN plan
        BY <1>3, PlansAssumption DEF Calls
    <2> QED BY <1>3, <2>1, CallersAssumption DEF Req
<1>5. Stocked(device', memory, K, dictCached)
    <2>1. CASE Req.source # "device" \/ GivenDirectly(Req)
        <3>1. K \subseteq N
            BY <2>1 DEF EncodeNeeds, If, Input, GivenDirectly
        <3>2. device' = device
            BY <1>2, <2>1 DEF GivenDirectly
        <3> HIDE DEF N, K
        <3> QED BY <1>3, <3>1, <3>2, StocksLess
    <2>2. CASE Req.source = "device" /\ ~Req.settled
        <3>1. Launching(device, device', WorkStream, "UploadInput")
            BY <1>2, <1>4, <2>2
        <3>2. Plain("UploadInput", {}, {"input"})
            BY <1>3, EncodeAccesses, EncodeUses
        <3>3. {} \subseteq N /\ K \subseteq N \cup {"input"}
            BY <2>2 DEF EncodeNeeds, If, Input
        <3> HIDE DEF N, K
        <3> QED BY <1>3, <3>1, <3>2, <3>3, Fill1
    <2> QED BY <1>4, <2>1, <2>2 DEF GivenDirectly
<1> HIDE DEF there
<1> QED BY <1>1, <1>5, EncodeGoesOn

\* WrapInput.
LEMMA WrapFeeds ==
    ASSUME OrderInv, DataInv, WrapInput
    PROVE  DataInv'
<1> DEFINE N == EncodeNeeds("wrap", Req)
           K == EncodeNeeds("input", Req)
<1>1. Compressing("wrap", "input")
    BY EncodeAt DEF WrapInput
<1>2. Launching(device, device', "null", "WrapInput")
    BY WrapStep
<1>3. plan \in Plans /\ call \in Calls /\ Stocked(device, memory, N, dictCached)
      /\ Req.job = "compress" /\ Req.source = "host"
    BY <1>1, StepOf DEF Compressing
<1>4. Plain("WrapInput", {}, {"wrap_input"})
    BY <1>3, EncodeAccesses, EncodeUses
<1>5. {} \subseteq N /\ K \subseteq N \cup {"wrap_input"}
    BY <1>3 DEF EncodeNeeds, Input
<1>6. Stocked(device', memory, K, dictCached)
    <2> HIDE DEF N, K
    <2> QED BY <1>2, <1>3, <1>4, <1>5, Fill1
<1> QED BY <1>1, <1>6, EncodeGoesOn

\* StageInput.
LEMMA InputFeeds ==
    ASSUME OrderInv, DataInv, StageInput
    PROVE  DataInv'
<1> DEFINE N == EncodeNeeds("input", Req)
           L == N \cup {"enc_input"} \cup {"enc_descs"}
           Z == {"enc_sizes"}
           K == EncodeNeeds("encode", Req)
<1>1. Compressing("input", "encode")
    BY EncodeAt DEF StageInput
<1>2. PICK a, b : /\ Launching(device, a, "null", "CopyInput") /\ Launching(a, b, "null", "CopyEncDescs")
                  /\ Launching(b, device', "null", "ZeroSizes")
    BY InputStep DEF Encoded3
<1>3. plan \in Plans /\ call \in Calls /\ Stocked(device, memory, N, dictCached) /\ Req.job = "compress"
    BY <1>1 DEF Compressing
<1>4. Plain("CopyInput", {Input(Req)}, {"enc_input"}) /\ Plain("CopyEncDescs", {}, {"enc_descs"})
    BY <1>3, EncodeAccesses, EncodeUses
<1>5. Uses("ZeroSizes", {}, Z) /\ "frame" \notin Z /\ "dict" \notin Z
    BY <1>3, EncodeAccesses DEF Uses, Access
<1>6. /\ {Input(Req)} \subseteq N /\ {} \subseteq N \cup {"enc_input"} /\ L \subseteq N \cup {"enc_input"} \cup {"enc_descs"}
      /\ K \subseteq L \ Z
    BY DEF EncodeNeeds, Input
<1>7. Encoded2(device, b, "CopyInput", "CopyEncDescs")
    BY <1>2 DEF Encoded2
<1> HIDE DEF N, L, K, Z
<1>8. Stocked(b, memory, L, dictCached)
    BY <1>3, <1>4, <1>6, <1>7, Fill2
<1>9. Stocked(device', memory, L \ Z, dictCached)
    BY <1>2, <1>3, <1>5, <1>8, Clearing
<1>10. Stocked(device', memory, K, dictCached)
    BY <1>6, <1>9, StocksLess
<1> QED BY <1>1, <1>10, EncodeGoesOn DEF K

\* The buffers of the entropy passes.
LEMMA BodyNames == \A r : Bodies(r) = If(r.entropy, {"body_lit", "body_tok", "body_off16"})
<1>1. BodyOf["lit"] = "body_lit" /\ BodyOf["tok"] = "body_tok" /\ BodyOf["off16"] = "body_off16"
    BY DEF BodyOf
<1> QED BY <1>1 DEF Bodies, HuffPasses, If

\* LzEncode.
LEMMA LzEncodeFeeds ==
    ASSUME OrderInv, DataInv, LzEncode
    PROVE  DataInv'
<1> DEFINE there == IF Req.merkle = "root" THEN "hash" ELSE "sizes"
           N == EncodeNeeds("encode", Req)
           K == EncodeNeeds(there, Req)
<1>1. Compressing("encode", there)
    BY EncodeAt DEF LzEncode
<1>2. Launching(device, device', "null", "LzEncode")
    BY LzEncodeStep
<1>3. /\ plan \in Plans /\ call \in Calls /\ Stocked(device, memory, N, dictCached) /\ Req.job = "compress"
      /\ Req \in Request /\ step = "encode" /\ step \in Route(Req)
    BY <1>1 DEF Compressing
<1>4. Plain("LzEncode", {"enc_input", "enc_descs"}, {"enc_raw", "enc_sizes"})
    BY <1>3, EncodeAccesses, EncodeUses
<1>5. {"enc_input", "enc_descs"} \subseteq N /\ K \subseteq N \cup {"enc_raw", "enc_sizes"}
    BY <1>3, StepOf DEF EncodeNeeds, If
<1>6. Stocked(device', memory, K, dictCached)
    <2> HIDE DEF N, K
    <2> QED BY <1>2, <1>3, <1>4, <1>5, Fill1
<1> HIDE DEF there
<1> QED BY <1>1, <1>6, EncodeGoesOn

\* HashChunks.
LEMMA HashFeeds ==
    ASSUME OrderInv, DataInv, HashChunks
    PROVE  DataInv'
<1> DEFINE N == EncodeNeeds("hash", Req)
           K == EncodeNeeds("sizes", Req)
<1>1. Compressing("hash", "sizes")
    BY EncodeAt DEF HashChunks
<1>2. Encoded2(device, device', "EncSegHash", "EncCombine")
    BY HashStep
<1>3. /\ plan \in Plans /\ call \in Calls /\ Stocked(device, memory, N, dictCached) /\ Req.job = "compress"
      /\ Req \in Request /\ step = "hash" /\ step \in Route(Req)
    BY <1>1 DEF Compressing
<1>4. /\ Plain("EncSegHash", {"enc_input"}, {"enc_segments"})
      /\ Plain("EncCombine", {"enc_segments"}, {"enc_hashes"})
    BY <1>3, EncodeAccesses, EncodeUses
<1>5. /\ {"enc_input"} \subseteq N
      /\ {"enc_segments"} \subseteq N \cup {"enc_segments"}
      /\ K \subseteq N \cup {"enc_segments"} \cup {"enc_hashes"}
    BY <1>3, StepOf DEF EncodeNeeds, If
<1>6. Stocked(device', memory, K, dictCached)
    <2> HIDE DEF N, K
    <2> QED BY <1>2, <1>3, <1>4, <1>5, Fill2
<1> QED BY <1>1, <1>6, EncodeGoesOn

\* HuffEncode of the literals.
LEMMA HuffLitFeeds ==
    ASSUME OrderInv, DataInv, HuffEncode("lit")
    PROVE  DataInv'
<1> DEFINE N == EncodeNeeds("lit", Req)
           K == EncodeNeeds("tok", Req)
<1>1. Compressing("lit", "tok")
    BY EncodeAt DEF HuffEncode, AfterPass
<1>2. Encoded4(device, device', "DescsLit", "TablesLit", "EncodeLit", "SizesLit")
    BY HuffLitStep
<1>3. /\ plan \in Plans /\ call \in Calls /\ Stocked(device, memory, N, dictCached) /\ Req.job = "compress"
      /\ Req \in Request /\ step = "lit" /\ step \in Route(Req)
    BY <1>1 DEF Compressing
<1>4. /\ Plain("DescsLit", {}, {"huff_descs_enc"})
      /\ Plain("TablesLit", {"enc_raw", "huff_descs_enc"}, {"huff_codes"})
      /\ Plain("EncodeLit", {"enc_raw", "huff_descs_enc", "huff_codes"}, {"huff_sizes", "body_lit"})
      /\ Plain("SizesLit", {"huff_sizes"}, {})
    BY <1>3, HuffAccesses, EncodeUses
<1>5. /\ {} \subseteq N
      /\ {"enc_raw", "huff_descs_enc"} \subseteq N \cup {"huff_descs_enc"}
      /\ {"enc_raw", "huff_descs_enc", "huff_codes"} \subseteq N \cup {"huff_descs_enc"} \cup {"huff_codes"}
      /\ {"huff_sizes"} \subseteq N \cup {"huff_descs_enc"} \cup {"huff_codes"} \cup {"huff_sizes", "body_lit"}
      /\ K \subseteq N \cup {"huff_descs_enc"} \cup {"huff_codes"} \cup {"huff_sizes", "body_lit"} \cup {}
    BY <1>3, StepOf, BodyNames DEF EncodeNeeds, If
<1>6. Stocked(device', memory, K, dictCached)
    <2> HIDE DEF N, K
    <2> QED BY <1>2, <1>3, <1>4, <1>5, Fill4
<1> QED BY <1>1, <1>6, EncodeGoesOn

\* HuffEncode of the tokens.
LEMMA HuffTokFeeds ==
    ASSUME OrderInv, DataInv, HuffEncode("tok")
    PROVE  DataInv'
<1> DEFINE N == EncodeNeeds("tok", Req)
           K == EncodeNeeds("off16", Req)
<1>1. Compressing("tok", "off16")
    BY EncodeAt DEF HuffEncode, AfterPass
<1>2. Encoded4(device, device', "DescsTok", "TablesTok", "EncodeTok", "SizesTok")
    BY HuffTokStep
<1>3. /\ plan \in Plans /\ call \in Calls /\ Stocked(device, memory, N, dictCached) /\ Req.job = "compress"
      /\ Req \in Request /\ step = "tok" /\ step \in Route(Req)
    BY <1>1 DEF Compressing
<1>4. /\ Plain("DescsTok", {}, {"huff_descs_enc"})
      /\ Plain("TablesTok", {"enc_raw", "huff_descs_enc"}, {"huff_codes"})
      /\ Plain("EncodeTok", {"enc_raw", "huff_descs_enc", "huff_codes"}, {"huff_sizes", "body_tok"})
      /\ Plain("SizesTok", {"huff_sizes"}, {})
    BY <1>3, HuffAccesses, EncodeUses
<1>5. /\ {} \subseteq N
      /\ {"enc_raw", "huff_descs_enc"} \subseteq N \cup {"huff_descs_enc"}
      /\ {"enc_raw", "huff_descs_enc", "huff_codes"} \subseteq N \cup {"huff_descs_enc"} \cup {"huff_codes"}
      /\ {"huff_sizes"} \subseteq N \cup {"huff_descs_enc"} \cup {"huff_codes"} \cup {"huff_sizes", "body_tok"}
      /\ K \subseteq N \cup {"huff_descs_enc"} \cup {"huff_codes"} \cup {"huff_sizes", "body_tok"} \cup {}
    BY <1>3, StepOf, BodyNames DEF EncodeNeeds, If
<1>6. Stocked(device', memory, K, dictCached)
    <2> HIDE DEF N, K
    <2> QED BY <1>2, <1>3, <1>4, <1>5, Fill4
<1> QED BY <1>1, <1>6, EncodeGoesOn

\* HuffEncode of the off16 planes.
LEMMA HuffOff16Feeds ==
    ASSUME OrderInv, DataInv, HuffEncode("off16")
    PROVE  DataInv'
<1> DEFINE N == EncodeNeeds("off16", Req)
           K == EncodeNeeds("measure", Req)
<1>1. Compressing("off16", "measure")
    BY EncodeAt DEF HuffEncode, AfterPass
<1>2. Encoded4(device, device', "DescsOff16", "TablesOff16", "EncodeOff16", "SizesOff16")
    BY HuffOff16Step
<1>3. /\ plan \in Plans /\ call \in Calls /\ Stocked(device, memory, N, dictCached) /\ Req.job = "compress"
      /\ Req \in Request /\ step = "off16" /\ step \in Route(Req)
    BY <1>1 DEF Compressing
<1>4. /\ Plain("DescsOff16", {}, {"huff_descs_enc"})
      /\ Plain("TablesOff16", {"enc_raw", "huff_descs_enc"}, {"huff_codes"})
      /\ Plain("EncodeOff16", {"enc_raw", "huff_descs_enc", "huff_codes"}, {"huff_sizes", "body_off16"})
      /\ Plain("SizesOff16", {"huff_sizes"}, {})
    BY <1>3, HuffAccesses, EncodeUses
<1>5. /\ {} \subseteq N
      /\ {"enc_raw", "huff_descs_enc"} \subseteq N \cup {"huff_descs_enc"}
      /\ {"enc_raw", "huff_descs_enc", "huff_codes"} \subseteq N \cup {"huff_descs_enc"} \cup {"huff_codes"}
      /\ {"huff_sizes"} \subseteq N \cup {"huff_descs_enc"} \cup {"huff_codes"} \cup {"huff_sizes", "body_off16"}
      /\ K \subseteq N \cup {"huff_descs_enc"} \cup {"huff_codes"} \cup {"huff_sizes", "body_off16"} \cup {}
    BY <1>3, StepOf, BodyNames DEF EncodeNeeds, If
<1>6. Stocked(device', memory, K, dictCached)
    <2> HIDE DEF N, K
    <2> QED BY <1>2, <1>3, <1>4, <1>5, Fill4
<1> QED BY <1>1, <1>6, EncodeGoesOn

\* AssembleMeasure.
LEMMA MeasureFeeds ==
    ASSUME OrderInv, DataInv, AssembleMeasure
    PROVE  DataInv'
<1> DEFINE N == EncodeNeeds("measure", Req)
           K == EncodeNeeds("write", Req)
<1>1. Compressing("measure", "write")
    BY EncodeAt DEF AssembleMeasure
<1>2. Encoded3(device, device', "CopyAsmDescs", "Measure", "ReadAsmSizes")
    BY MeasureStep
<1>3. /\ plan \in Plans /\ call \in Calls /\ Stocked(device, memory, N, dictCached) /\ Req.job = "compress"
      /\ Req \in Request /\ step = "measure" /\ step \in Route(Req)
    BY <1>1 DEF Compressing
<1>4. /\ Plain("CopyAsmDescs", {}, {"asm_descs"})
      /\ Plain("Measure", AsmReads(Req), {"asm_sizes"})
      /\ Plain("ReadAsmSizes", {"asm_sizes"}, {})
    BY <1>3, EncodeAccesses, EncodeUses
<1>5. /\ {} \subseteq N
      /\ AsmReads(Req) \subseteq N \cup {"asm_descs"}
      /\ {"asm_sizes"} \subseteq N \cup {"asm_descs"} \cup {"asm_sizes"}
      /\ K \subseteq N \cup {"asm_descs"} \cup {"asm_sizes"} \cup {}
    BY <1>3, StepOf DEF EncodeNeeds, If, AsmReads
<1>6. Stocked(device', memory, K, dictCached)
    <2> HIDE DEF N, K
    <2> QED BY <1>2, <1>3, <1>4, <1>5, Fill3
<1> QED BY <1>1, <1>6, EncodeGoesOn

\* AssembleWrite.
LEMMA WriteFeeds ==
    ASSUME OrderInv, DataInv, AssembleWrite
    PROVE  DataInv'
<1> DEFINE N == EncodeNeeds("write", Req)
           K == EncodeNeeds("layout", Req)
<1>1. Compressing("write", "layout")
    BY EncodeAt DEF AssembleWrite
<1>2. Encoded2(device, device', "CopyOffsets", "AsmWrite")
    BY WriteStep
<1>3. /\ plan \in Plans /\ call \in Calls /\ Stocked(device, memory, N, dictCached) /\ Req.job = "compress"
      /\ Req \in Request /\ step = "write" /\ step \in Route(Req)
    BY <1>1 DEF Compressing
<1>4. /\ Plain("CopyOffsets", {}, {"asm_descs"})
      /\ Plain("AsmWrite", AsmReads(Req), {"asm_out"})
    BY <1>3, EncodeAccesses, EncodeUses
<1>5. /\ {} \subseteq N
      /\ AsmReads(Req) \subseteq N \cup {"asm_descs"}
      /\ K \subseteq N \cup {"asm_descs"} \cup {"asm_out"}
    BY <1>3, StepOf DEF EncodeNeeds, If, AsmReads
<1>6. Stocked(device', memory, K, dictCached)
    <2> HIDE DEF N, K
    <2> QED BY <1>2, <1>3, <1>4, <1>5, Fill2
<1> QED BY <1>1, <1>6, EncodeGoesOn

\* CopyLayout.
LEMMA LayoutFeeds ==
    ASSUME OrderInv, DataInv, CopyLayout
    PROVE  DataInv'
<1> DEFINE there == "frame"
           N == EncodeNeeds("layout", Req)
           K == EncodeNeeds(there, Req)
<1>1. Compressing("layout", there)
    BY EncodeAt DEF CopyLayout
<1>2. Launching(device, device', "null", "CopyLayout")
    BY LayoutStep
<1>3. /\ plan \in Plans /\ call \in Calls /\ Stocked(device, memory, N, dictCached) /\ Req.job = "compress"
      /\ Req \in Request /\ step = "layout" /\ step \in Route(Req)
    BY <1>1 DEF Compressing
<1>4. Plain("CopyLayout", {}, {"layout"})
    BY <1>3, EncodeAccesses, EncodeUses
<1>5. {} \subseteq N /\ K \subseteq N \cup {"layout"}
    BY <1>3, StepOf DEF EncodeNeeds, If
<1>6. Stocked(device', memory, K, dictCached)
    <2> HIDE DEF N, K
    <2> QED BY <1>2, <1>3, <1>4, <1>5, Fill1
<1> HIDE DEF there
<1> QED BY <1>1, <1>6, EncodeGoesOn

\* FrameAssemble.
LEMMA FrameFeeds ==
    ASSUME OrderInv, DataInv, FrameAssemble
    PROVE  DataInv'
<1> DEFINE there == AfterFrame(Req)
           N == EncodeNeeds("frame", Req)
           K == EncodeNeeds(there, Req)
<1>1. Compressing("frame", there)
    BY EncodeAt DEF FrameAssemble
<1>2. Launching(device, device', WorkStream, "FrameAssemble")
    BY FrameStep
<1>3. /\ plan \in Plans /\ call \in Calls /\ Stocked(device, memory, N, dictCached) /\ Req.job = "compress"
      /\ Req \in Request /\ step = "frame" /\ step \in Route(Req)
    BY <1>1 DEF Compressing
<1>4. Plain("FrameAssemble", {"asm_out", "layout", Input(Req)}, {"target"})
    BY <1>3, EncodeAccesses, EncodeUses
<1>5. {"asm_out", "layout", Input(Req)} \subseteq N /\ K \subseteq N \cup {"target"}
    BY <1>3, StepOf DEF EncodeNeeds, If, AfterFrame, FrameParts
<1>6. Stocked(device', memory, K, dictCached)
    <2> HIDE DEF N, K
    <2> QED BY <1>2, <1>3, <1>4, <1>5, Fill1
<1> HIDE DEF there
<1> QED BY <1>1, <1>6, EncodeGoesOn

\* SizeTable.
LEMMA TableFeeds ==
    ASSUME OrderInv, DataInv, SizeTable
    PROVE  DataInv'
<1> DEFINE there == IF Req.merkle = "root" THEN "root" ELSE "finalize"
           N == EncodeNeeds("table", Req)
           K == EncodeNeeds(there, Req)
<1>1. Compressing("table", there)
    BY EncodeAt DEF SizeTable
<1>2. Launching(device, device', "null", "SizeTable")
    BY TableStep
<1>3. /\ plan \in Plans /\ call \in Calls /\ Stocked(device, memory, N, dictCached) /\ Req.job = "compress"
      /\ Req \in Request /\ step = "table" /\ step \in Route(Req)
    BY <1>1 DEF Compressing
<1>4. Plain("SizeTable", {"target"}, {"target"})
    BY <1>3, EncodeAccesses, EncodeUses
<1>5. {"target"} \subseteq N /\ K \subseteq N \cup {"target"}
    BY <1>3, StepOf DEF EncodeNeeds, If, FrameParts
<1>6. Stocked(device', memory, K, dictCached)
    <2> HIDE DEF N, K
    <2> QED BY <1>2, <1>3, <1>4, <1>5, Fill1
<1> HIDE DEF there
<1> QED BY <1>1, <1>6, EncodeGoesOn

\* RootWrite.
LEMMA RootFeeds ==
    ASSUME OrderInv, DataInv, RootWrite
    PROVE  DataInv'
<1> DEFINE there == IF Req.source = "host" THEN "finalize" ELSE "download"
           N == EncodeNeeds("root", Req)
           K == EncodeNeeds(there, Req)
<1>1. Compressing("root", there)
    BY EncodeAt DEF RootWrite
<1>2. Launching(device, device', "null", "RootWrite")
    BY RootStep
<1>3. /\ plan \in Plans /\ call \in Calls /\ Stocked(device, memory, N, dictCached) /\ Req.job = "compress"
      /\ Req \in Request /\ step = "root" /\ step \in Route(Req)
    BY <1>1 DEF Compressing
<1>4. Plain("RootWrite", {"enc_hashes"}, {"trailer"})
    BY <1>3, EncodeAccesses, EncodeUses
<1>5. {"enc_hashes"} \subseteq N /\ K \subseteq N \cup {"trailer"}
    BY <1>3, StepOf DEF EncodeNeeds, If, FrameParts
<1>6. Stocked(device', memory, K, dictCached)
    <2> HIDE DEF N, K
    <2> QED BY <1>2, <1>3, <1>4, <1>5, Fill1
<1> HIDE DEF there
<1> QED BY <1>1, <1>6, EncodeGoesOn

\* ReadBack: the sizes, and the streams when they are to be compressed.
LEMMA ReadBackFeeds ==
    ASSUME OrderInv, DataInv, ReadBack
    PROVE  DataInv'
<1> DEFINE there == IF Req.entropy THEN "lit" ELSE "measure"
           N == EncodeNeeds("sizes", Req)
           K == EncodeNeeds(there, Req)
<1>1. Compressing("sizes", there)
    BY EncodeAt DEF ReadBack
<1>2. IF Req.entropy THEN Encoded2(device, device', "ReadSizes", "ReadRaw")
      ELSE Launching(device, device', "null", "ReadSizes")
    BY ReadBackStep
<1>3. plan \in Plans /\ call \in Calls /\ Stocked(device, memory, N, dictCached) /\ Req.job = "compress"
    BY <1>1 DEF Compressing
<1>4. Plain("ReadSizes", {"enc_sizes"}, {}) /\ Plain("ReadRaw", {"enc_raw"}, {})
    BY <1>3, EncodeAccesses, EncodeUses
<1>5. {"enc_sizes"} \subseteq N /\ {"enc_raw"} \subseteq N \cup {} /\ K \subseteq N \cup {} /\ K \subseteq N \cup {} \cup {}
    BY BodyNames DEF EncodeNeeds, If
<1>6. Stocked(device', memory, K, dictCached)
    <2> HIDE DEF N, K
    <2>1. CASE Req.entropy
        BY <1>2, <1>3, <1>4, <1>5, <2>1, Fill2
    <2>2. CASE ~Req.entropy
        BY <1>2, <1>3, <1>4, <1>5, <2>2, Fill1
    <2> QED BY <2>1, <2>2
<1> HIDE DEF there
<1> QED BY <1>1, <1>6, EncodeGoesOn

-----------------------------------------------------------------------------
(* The answer, of either job *)

\* The output is downloaded: to the host, or by the caller.
LEMMA DownloadFeeds ==
    ASSUME OrderInv, DataInv, FinalizeOutput \/ CallerDownload
    PROVE  DataInv'
<1> DEFINE R == Access("Download", Req).reads
           N == Needs(step, Req)
           K == Needs("return", Req)
<1>1. /\ step \in {"finalize", "download"} /\ waiting = {} /\ call \in Calls /\ Goto("return")
      /\ dictCached' = dictCached
    BY DEF FinalizeOutput, CallerDownload, At, SameFlags
<1>2. plan \in Plans /\ Req \in Request /\ step \in Route(Req)
    BY <1>1, AtWork
<1>3. /\ Req.job \in {"decompress", "compress"} /\ (step = "finalize" => Req.source = "host")
      /\ (step = "download" => Req.source = "device")
    BY <1>2, StepOf
<1>4. PICK s : Launching(device, device', s, "Download")
    BY FinalizeStep, DownloadStep
<1>5. Access("Download", Req) = [reads |-> R, writes |-> {"result"}]
      /\ R = IF Req.job = "compress" THEN FrameParts(Req) ELSE {LzOutput(Req)}
    <2>1. CASE Req.job = "compress"
        <3>1. Access("Download", Req) = [reads |-> FrameParts(Req), writes |-> {"result"}]
            BY <2>1, EncodeAccesses DEF Access
        <3> QED BY <2>1, <3>1
    <2>2. CASE Req.job # "compress"
        <3>1. Access("Download", Req) = [reads |-> {LzOutput(Req)}, writes |-> {"result"}]
            BY <2>2, DecodeAccesses DEF Access
        <3> QED BY <2>2, <3>1
    <2> QED BY <2>1, <2>2
<1>6. Plain("Download", R, {"result"})
    BY <1>5 DEF Plain, Uses
<1>7. R \subseteq N
    <2>1. CASE Req.job = "compress"
        BY <1>1, <1>5, <2>1 DEF Needs, EncodeNeeds
    <2>2. CASE Req.job = "decompress"
        BY <1>1, <1>3, <1>5, <2>2 DEF Needs, DecodeNeeds, LzOutput
    <2> QED BY <1>3, <2>1, <2>2
<1>8. K \subseteq N \cup {"result"}
    <2>1. CASE Req.job = "compress"
        BY <1>1, <2>1 DEF Needs, EncodeNeeds, FrameParts, If
    <2>2. CASE Req.job = "decompress"
        BY <2>2 DEF Needs, DecodeNeeds
    <2> QED BY <1>3, <2>1, <2>2
<1>9. Stocked(device, memory, N, dictCached)
    BY <1>1 DEF DataInv
<1>10. Stocked(device', memory, K, dictCached)
    <2> HIDE DEF N, K, R
    <2> QED BY <1>1, <1>2, <1>4, <1>6, <1>7, <1>8, <1>9, Fill1
<1> QED BY <1>1, <1>10, MovesOn

-----------------------------------------------------------------------------
(* The next call *)

\* What a call that returns or is refused leaves to the next.
LEMMA NextFeeds ==
    ASSUME call \in Calls, NextCall, refused' \in {refused, refused \cup {call}},
           NEW N, Stocked(device, memory', N, dictCached'),
           call \notin refused' /\ Req.job = "compress" /\ Req.source = "device" => "target" \in N
    PROVE  DataInv'
<1>1. plan' = plan /\ call' = call + 1 /\ step' = "submit" /\ device' = device
      /\ Calls' = Calls /\ Places' = Places /\ refused \subseteq refused' /\ call \in Nat
    BY DEF NextCall, Calls, Places, Place
<1>2. \A n, c : Place(n, c)' = Place(n, c) /\ \A p : Owner(p, c)' = Owner(p, c)
    BY <1>1 DEF Place, Owner
<1>3. \A i : Reads(i)' = Reads(i) /\ Writes(i)' = Writes(i) /\ \A p, v : Gives(i, p, v)' = Gives(i, p, v)
    BY <1>1, <1>2 DEF Reads, Writes, Gives
<1>4. Fed(device, memory)'
    <2>1. Fed(device, memory')
        BY DEF Stocked
    <2> QED BY <1>1, <1>2, <1>3, <2>1 DEF Fed, Supplied, Gives, Upto, Earlier
<1>5. \A p, v : Holds(device, memory', p, v) => Holds(device, memory, p, v)'
    BY <1>1, <1>3 DEF Holds, Supplied
<1>6. \A n, c : Ready(device, memory', n, c) => Ready(device, memory, n, c)'
    BY <1>1, <1>2, <1>5 DEF Ready
<1>7. ASSUME NEW c \in Calls, Produced(c)' PROVE Ready(device, memory', "target", c)
    <2>1. /\ c < call + 1 /\ c \notin refused' /\ plan[c].job = "compress" /\ plan[c].source = "device"
        BY <1>1, <1>7 DEF Produced
    <2>2. CASE c = call
        BY <2>1, <2>2 DEF Stocked, Req
    <2>3. CASE c # call
        <3>1. c < call
            BY <1>1, <2>1, <2>3 DEF Calls
        <3>2. Produced(c)
            BY <1>1, <2>1, <3>1 DEF Produced
        <3> QED BY <3>2 DEF Stocked
    <2> QED BY <2>2, <2>3
<1>8. ASSUME NEW c \in Calls, c > call, GivenDirectly(plan[c]) PROVE Ready(device, memory', Given(plan[c]), c)
    BY <1>8 DEF Stocked
<1>9. ASSUME call' \in Calls', NEW n \in Needs(step, Req)' PROVE Ready(device, memory', n, call + 1)
    <2>1. n \in Needs("submit", plan[call + 1]) /\ call + 1 \in Calls /\ call + 1 > call
        BY <1>1, <1>9 DEF Req
    <2>2. n = Given(plan[call + 1]) /\ GivenDirectly(plan[call + 1])
        BY <2>1 DEF Needs, DecodeNeeds, EncodeNeeds, If, Given
    <2> QED BY <1>8, <2>1, <2>2
<1>10. \A c \in Calls : c > call + 1 => c > call
    BY <1>1 DEF Calls
<1>11. DOMAIN memory' = Places /\ \A i \in Cuda!Queued(device) : \A p \in Writes(i) : p[2] \in {0, i.call}
    BY DEF Stocked
<1>12. (dictCached # 0 => Holds(device, memory, <<"dict", 0>>, dictCached))'
    BY <1>5 DEF Stocked
<1>13. \A n \in (IF call \in Calls THEN Needs(step, Req) ELSE {})' : Ready(device, memory, n, call)'
    BY <1>1, <1>6, <1>9
<1>14. \A c \in Calls : /\ c > call' /\ GivenDirectly(plan'[c]) => Ready(device, memory, Given(plan[c]), c)'
                        /\ Produced(c)' => Ready(device, memory, "target", c)'
    BY <1>1, <1>6, <1>7, <1>8, <1>10
<1> QED BY <1>1, <1>3, <1>4, <1>11, <1>12, <1>13, <1>14 DEF DataInv, Stocked

\* Return: the output of a compression into device memory is there for later calls.
LEMMA ReturnFeeds ==
    ASSUME OrderInv, DataInv, Return
    PROVE  DataInv'
<1>1. /\ step = "return" /\ call \in Calls /\ NextCall /\ refused' = refused
      /\ memory' = memory /\ dictCached' = dictCached
    BY DEF Return, At
<1> DEFINE N == Needs("return", Req)
<1>2. Stocked(device, memory', N, dictCached')
    BY <1>1 DEF DataInv
<1>3. Req.job = "compress" /\ Req.source = "device" => "target" \in N
    BY DEF Needs, EncodeNeeds, If
<1> HIDE DEF N
<1> QED BY <1>1, <1>2, <1>3, NextFeeds

\* NothingToRead.
LEMMA NothingFeeds ==
    ASSUME OrderInv, DataInv, NothingToRead
    PROVE  DataInv'
<1>1. /\ call \in Calls /\ NextCall /\ refused' = refused \cup {call}
      /\ memory' = memory /\ dictCached' = dictCached
    BY DEF NothingToRead, At
<1>2. Stocked(device, memory, Needs(step, Req), dictCached)
    BY <1>1 DEF DataInv
<1>3. Stocked(device, memory', Needs(step, Req), dictCached')
    BY <1>1, <1>2
<1>4. call \in refused'
    BY <1>1
<1> QED BY <1>1, <1>3, <1>4, NextFeeds

\* A dictionary upload that fails spoils the buffer when nothing queued has to do with it.
LEMMA DictSpoiled ==
    ASSUME OrderInv, waiting = {}, call \in Calls, step = "dict", Cuda!Before(device, "null") = {},
           NEW N, NEW v, Stocked(device, memory, N, v),
           NEW m, m = [memory EXCEPT ![<<"dict", 0>>] = 0]
    PROVE  Stocked(device, m, {}, 0)
<1> DEFINE D == <<"dict", 0>>
<1>1. Working(device) /\ plan \in Plans
    BY AtWork
<1>2. ASSUME NEW i \in Cuda!Queued(device) PROVE IsFree(i) /\ i.call \in Calls
    <2>1. Legacy(device) = {}
        <3>1. Shape(device) /\ "null" \in Streams
            BY <1>1 DEF Working, Sound, Streams
        <3>2. Upto(device, {}) = Cover(device, "null")
            BY <3>1, BeforeIsCover
        <3> QED BY <3>2, UptoNone DEF Cover
    <2>2. BehindNull(device, i) /\ Known(i)
        BY <1>1 DEF Working, Sound
    <2> QED BY <2>1, <2>2 DEF BehindNull, InBackHalf, BackSteps, Known
<1>3. ASSUME NEW i \in Cuda!Queued(device) PROVE D \notin Reads(i)
    BY <1>1, <1>2, FreeTouches DEF Free
<1>4. DOMAIN m = Places /\ \A p : p # D => m[p] = memory[p] \/ p \notin Places
    BY DEF Stocked
<1>5. ASSUME NEW X, NEW p \in Places, p # D, NEW x, Supplied(device, memory, X, p, x)
      PROVE  Supplied(device, m, X, p, x)
    <2>1. m[p] = memory[p]
        BY <1>4, <1>5
    <2> QED BY ZenonT(60), <1>5, <2>1, SuppliedByWriters
<1>6. Fed(device, m)
    <2>1. SUFFICES ASSUME NEW j \in Cuda!Queued(device), NEW p \in Reads(j)
                   PROVE  Supplied(device, m, Earlier(device, j), p, Owner(p, j.call))
        BY DEF Fed
    <2>2. p \in Places
        <3>1. Known(j)
            BY <1>1 DEF Working, Sound
        <3> QED BY <1>1, <3>1, InPlaces DEF Known
    <2>3. Supplied(device, memory, Earlier(device, j), p, Owner(p, j.call))
        BY DEF Stocked, Fed
    <2> QED BY <1>3, <1>5, <2>2, <2>3
<1>7. ASSUME NEW n, NEW c, Place(n, c) # D, Ready(device, memory, n, c) PROVE Ready(device, m, n, c)
    BY <1>5, <1>7 DEF Ready, Holds
<1>8. ASSUME NEW c PROVE /\ Place("target", c) # D
                         /\ Place(Given(plan[c]), c) # D
    BY PlaceIs DEF Given
<1>9. ASSUME NEW c \in Calls
      PROVE  /\ c > call /\ GivenDirectly(plan[c]) => Ready(device, m, Given(plan[c]), c)
             /\ Produced(c) => Ready(device, m, "target", c)
    BY <1>7, <1>8 DEF Stocked
<1> QED BY <1>4, <1>6, <1>9 DEF Stocked

\* Fail.
LEMMA FailFeeds ==
    ASSUME OrderInv, DataInv, Fail
    PROVE  DataInv'
<1>1. waiting = {} /\ call \in Calls /\ NextCall /\ refused' = refused \cup {call}
    BY DEF Fail, At
<1>2. Stocked(device, memory, Needs(step, Req), dictCached)
    BY <1>1 DEF DataInv
<1>3. call \in refused'
    BY <1>1
<1>4. CASE step # "dict"
    <2>1. memory' = memory /\ dictCached' = dictCached
        BY <1>4 DEF Fail
    <2>2. Stocked(device, memory', Needs(step, Req), dictCached')
        BY <1>2, <2>1
    <2> QED BY <1>1, <1>3, <2>2, NextFeeds
<1>5. CASE step = "dict"
    <2>1. Place("dict", call) = <<"dict", 0>>
        BY PlaceIs
    <2>2. /\ memory' = [memory EXCEPT ![<<"dict", 0>>] = 0] /\ dictCached' = 0
          /\ Cuda!Before(device, "null") = {}
        BY <1>5, <2>1 DEF Fail, ForgottenDict
    <2>3. Stocked(device, memory', {}, dictCached')
        BY <1>1, <1>2, <1>5, <2>2, DictSpoiled
    <2> QED BY <1>1, <1>3, <2>3, NextFeeds
<1> QED BY <1>4, <1>5

-----------------------------------------------------------------------------
(* The device starts and finishes operations *)

\* Start.
LEMMA StartFeeds ==
    ASSUME OrderInv, DataInv, Start
    PROVE  DataInv'
<1> DEFINE N == IF call \in Calls THEN Needs(step, Req) ELSE {}
<1>1. /\ SameCall /\ memory' = memory /\ dictCached' = dictCached /\ step' = step
    BY DEF Start, SameCall
<1>2. PICK x \in Cuda!Startable(device) : device' = Cuda!Started(device, x)
    BY DEF Start
<1>3. device'.after = device.after
    BY <1>2, Starts DEF OrderInv, Sound
<1>4. Stocked(device, memory, N, dictCached)
    BY DEF DataInv
<1>5. call \in Calls => Needs(step', Req) \subseteq N
    BY <1>1
<1> HIDE DEF N
<1>6. Stocked(device', memory, N, dictCached)
    BY <1>3, <1>4, StocksLess
<1>7. Stocked(device', memory', N, dictCached')
    BY <1>1, <1>6
<1> QED BY <1>1, <1>5, <1>7, Carried

\* Finish: what the operation read was current, so what it wrote is.
LEMMA FinishStocks ==
    ASSUME OrderInv, NEW x \in device.running, NEW N, NEW v, Stocked(device, memory, N, v),
           NEW m, DOMAIN m = DOMAIN memory, Completed(memory, m, x),
           NEW e, e = Cuda!Finished(device, x)
    PROVE  Stocked(e, m, N, v)
<1>1. Shape(device) /\ Ordered(device) /\ plan \in Plans /\ x \in Cuda!Queued(device) /\ x.call \in Calls
      /\ \A j \in Cuda!Queued(device) : Known(j)
    BY DEF OrderInv, Sound, Shape, HostTyped, Known
<1>2. \A j \in Cuda!Queued(device) : Reads(j) \subseteq DOMAIN memory
    <2>1. ASSUME NEW j \in Cuda!Queued(device) PROVE Reads(j) \subseteq Places
        <3>1. j = [call |-> j.call, op |-> j.op] /\ j.call \in Calls /\ j.op \in Ops(plan[j.call])
            BY <1>1 DEF Known
        <3> QED BY <1>1, <3>1, InPlaces
    <2> QED BY <2>1 DEF Stocked
<1>3. Fed(e, m)
    BY <1>1, <1>2, FinishFeeds DEF Stocked
<1>4. ASSUME NEW p \in Places, NEW w, Holds(device, memory, p, w) PROVE Holds(e, m, p, w)
    BY <1>1, <1>4, FinishHolds DEF Stocked
<1>5. \A n, c : Ready(device, memory, n, c) => Ready(e, m, n, c)
    BY <1>4 DEF Ready
<1>6. <<"dict", 0>> \in Places
    <2>1. Place("dict", x.call) = <<"dict", 0>>
        BY PlaceIs
    <2> QED BY <1>1, <2>1, NamedPlaces DEF Names, Scratch
<1>7. Cuda!Queued(e) \subseteq Cuda!Queued(device)
    <2>1. AfterFinish(device, e, x)
        BY <1>1, Finishes
    <2> QED BY <2>1 DEF AfterFinish
<1> QED BY <1>3, <1>4, <1>5, <1>6, <1>7 DEF Stocked

\* Finish.
LEMMA FinishKeepsFed ==
    ASSUME OrderInv, DataInv, Finish
    PROVE  DataInv'
<1> DEFINE N == IF call \in Calls THEN Needs(step, Req) ELSE {}
<1>1. PICK x \in device.running :
        /\ device' = Cuda!Finished(device, x)
        /\ memory' = [p \in DOMAIN memory |->
                        IF p \notin Writes(x) THEN memory[p]
                        ELSE IF Clears(x) \/ ~Current(x) THEN 0 ELSE Owner(p, x.call)]
        /\ UNCHANGED <<plan, call, step, overlap, gatherPending, dictCached, failures, refused>>
    BY DEF Finish
<1>2. /\ SameCall /\ dictCached' = dictCached /\ step' = step
    BY <1>1 DEF SameCall
<1>3. Stocked(device, memory, N, dictCached)
    BY DEF DataInv
<1>4. call \in Calls => Needs(step', Req) \subseteq N
    BY <1>2
<1> HIDE DEF N
<1>5. Current(x)
    BY <1>3, RunningIsCurrent DEF Current, OrderInv, Sound, Stocked
<1>6. DOMAIN memory' = DOMAIN memory /\ Completed(memory, memory', x)
    BY <1>1, <1>5 DEF Completed
<1>7. Stocked(device', memory', N, dictCached')
    BY <1>1, <1>2, <1>3, <1>6, FinishStocks
<1> QED BY <1>2, <1>4, <1>7, Carried

-----------------------------------------------------------------------------
(* The invariant *)

\* What is settled is there at the start.
LEMMA InitiallyFed == Init => DataInv
<1> SUFFICES ASSUME Init PROVE DataInv
    OBVIOUS
<1>1. /\ plan \in Plans /\ call = 1 /\ step = "submit" /\ device = Cuda!IdleDevice /\ dictCached = 0
      /\ memory = [p \in Places |-> IF p[1] \in {"frame", "input"} /\ plan[p[2]].settled THEN p[2] ELSE 0]
    BY DEF Init
<1>2. Cuda!Queued(device) = {}
    BY <1>1 DEF Cuda!IdleDevice, Cuda!Queued
<1>3. ASSUME NEW c \in Calls, GivenDirectly(plan[c]) PROVE Ready(device, memory, Given(plan[c]), c)
    <2> DEFINE n == Given(plan[c])
    <2>1. n \in {"frame", "input"} /\ n \in Names
        BY DEF Given, Names, OfTheCaller, EncodeOfTheCaller
    <2>2. Place(n, c) = <<n, c>>
        BY <1>3, <2>1, PlaceIs DEF GivenDirectly
    <2>3. Place(n, c) \in Places /\ c # 0
        BY <2>1, NamedPlaces DEF Calls
    <2>4. Owner(<<n, c>>, c) = c
        BY <2>1, <2>3 DEF Owner
    <2>5. memory[<<n, c>>] = c
        BY <1>1, <1>3, <2>1, <2>2, <2>3 DEF GivenDirectly
    <2> HIDE DEF n
    <2>6. Holds(device, memory, <<n, c>>, c)
        BY <1>2, <2>5 DEF Holds, Supplied
    <2>7. Ready(device, memory, n, c)
        BY <2>2, <2>3, <2>4, <2>6 DEF Ready
    <2> QED BY <2>7 DEF n
<1>4. \A c \in Calls : ~Produced(c)
    BY <1>1 DEF Produced, Calls
<1>5. ASSUME call \in Calls, NEW n \in Needs(step, Req) PROVE Ready(device, memory, n, call)
    <2>1. n = Given(plan[call]) /\ GivenDirectly(plan[call])
        BY <1>1, <1>5 DEF Needs, DecodeNeeds, EncodeNeeds, If, Given, Req
    <2> QED BY <1>3, <1>5, <2>1
<1>6. Fed(device, memory) /\ DOMAIN memory = Places
    BY <1>1, <1>2 DEF Fed
<1> QED BY <1>1, <1>2, <1>3, <1>4, <1>5, <1>6 DEF DataInv, Stocked

\* OrderInv /\ DataInv is inductive.
LEMMA FedInductive == OrderInv /\ DataInv /\ [Next]_vars => DataInv'
<1> SUFFICES ASSUME OrderInv, DataInv, [Next]_vars PROVE DataInv'
    OBVIOUS
<1>1. CASE HostStep
    <2>1. ASSUME Submit \/ ReadHeader \/ EnsureDict \/ WalkFrame \/ UploadDescs \/ PrefixSumAndUploadBlock
          PROVE  DataInv'
        BY <2>1, SubmitFeeds, HeaderFeeds, DictFeeds, WalkFeeds, DescsFeeds, BlockFeeds
    <2>2. ASSUME StageScan \/ ScanChunks \/ GatherRawOff16 \/ MergeHuffDescs \/ CrossStreamBarrier \/ StageGroupCount
          PROVE  DataInv'
        BY <2>2, StageFeeds, ScanFeeds, GatherFeeds, MergeFeeds, BarrierFeeds, GroupsFeeds
    <2>3. ASSUME HuffBuildAndDecode \/ LzPipeline \/ SettleBackHalf \/ MerkleVerify \/ ReadVerdict \/ FinalizeOutput
          PROVE  DataInv'
        BY <2>3, HuffFeeds, LzFeeds, SettleFeeds, MerkleFeeds, VerdictFeeds, DownloadFeeds
    <2>4. ASSUME WalkStatus \/ CallerDownload \/ Return \/ NothingToRead \/ Fail
          PROVE  DataInv'
        BY <2>4, StatusFeeds, DownloadFeeds, ReturnFeeds, NothingFeeds, FailFeeds
    <2> QED BY <1>1, <2>1, <2>2, <2>3, <2>4 DEF HostStep
<1>2. CASE CompressStep
    <2>1. ASSUME SubmitInput \/ WrapInput \/ StageInput \/ LzEncode \/ HashChunks \/ ReadBack
          PROVE  DataInv'
        BY <2>1, SubmitInputFeeds, WrapFeeds, InputFeeds, LzEncodeFeeds, HashFeeds, ReadBackFeeds
    <2>2. ASSUME NEW x \in HuffPasses, HuffEncode(x) PROVE DataInv'
        BY <2>2, HuffLitFeeds, HuffTokFeeds, HuffOff16Feeds DEF HuffPasses
    <2>3. ASSUME AssembleMeasure \/ AssembleWrite \/ CopyLayout \/ FrameAssemble \/ SizeTable \/ RootWrite
          PROVE  DataInv'
        BY <2>3, MeasureFeeds, WriteFeeds, LayoutFeeds, FrameFeeds, TableFeeds, RootFeeds
    <2> QED BY <1>2, <2>1, <2>2, <2>3 DEF CompressStep
<1>3. CASE Start
    BY <1>3, StartFeeds
<1>4. CASE Finish
    BY <1>4, FinishKeepsFed
<1>5. CASE UNCHANGED vars
    <2> DEFINE N == IF call \in Calls THEN Needs(step, Req) ELSE {}
    <2>1. SameCall /\ memory' = memory /\ device' = device /\ dictCached' = dictCached /\ step' = step
        BY <1>5 DEF vars, SameCall
    <2>2. Stocked(device', memory', N, dictCached') /\ (call \in Calls => Needs(step', Req) \subseteq N)
        BY <2>1 DEF DataInv
    <2> HIDE DEF N
    <2> QED BY <2>1, <2>2, Carried
<1> QED BY <1>1, <1>2, <1>3, <1>4, <1>5 DEF Next, Done

\* Every run keeps both halves: the order of the queue, and what it leaves in memory.
THEOREM QueueFed == Spec => [](OrderInv /\ DataInv)
<1>1. Init => OrderInv /\ DataInv
    BY Initially, InitiallyFed
<1>2. OrderInv /\ DataInv /\ [Next]_vars => (OrderInv /\ DataInv)'
    BY Inductive, FedInductive
<1> QED BY <1>1, <1>2, PTL DEF Spec

\* (InputsCurrent) An operation that runs finds in every place it reads what its own call
\* put there, the dictionary its frame names included.
THEOREM FindsItsInputs == Spec => []InputsCurrent
<1>1. OrderInv /\ DataInv => InputsCurrent
    BY RunningIsCurrent DEF InputsCurrent, Current, OrderInv, Sound, DataInv, Stocked
<1> QED BY <1>1, QueueFed, PTL

-----------------------------------------------------------------------------
(* The answers *)

\* The calls answered, and the downloads that will answer one.
AnsweredIn(a) == {a[i].call : i \in DOMAIN a}
Answering(d) == {i \in Cuda!Queued(d) : i.op = "Download"}

\* No two downloads are under way, and none for a call that is answered or refused; of the
\* calls K the host has done with, each is answered or refused, or about to be answered.
Answers(d, c, here, a, r, K) ==
    /\ a \in Seq([call : Nat, of : Nat])
    /\ \A i, j \in Answering(d) : i = j
    /\ \A i \in Answering(d) : i.call \notin AnsweredIn(a) \cup r
    /\ AnsweredIn(a) \cap r = {}
    /\ \A k \in AnsweredIn(a) : k < c \/ (k = c /\ here = "return")
    /\ \A k \in K : k < c \/ (k = c /\ here = "return") =>
           k \in AnsweredIn(a) \cup r \/ [call |-> k, op |-> "Download"] \in Answering(d)

\* Calls have numbers.
LEMMA CallNumbers == \A a \in Seq([call : Nat, of : Nat]) : AnsweredIn(a) \subseteq Nat
<1>1. ASSUME NEW a \in Seq([call : Nat, of : Nat]), NEW i \in DOMAIN a PROVE a[i].call \in Nat
    <2> DEFINE S == [call : Nat, of : Nat]
    <2>1. \A y \in S : y.call \in Nat
        OBVIOUS
    <2>2. a \in Seq(S) /\ i \in DOMAIN a
        BY <1>1
    <2> HIDE DEF S
    <2>3. a[i] \in S
        BY <2>2
    <2> QED BY <2>1, <2>3
<1> QED BY <1>1 DEF AnsweredIn

AnswersInv == Answers(device, call, step, answers, refused, Calls)

\* A step of the host adds to the queue.
Adds(d, e) == /\ Cuda!Queued(d) \subseteq Cuda!Queued(e)
              /\ \A i \in Cuda!Queued(e) : i \in Cuda!Queued(d) \/ i.call = call

\* A launch.
LEMMA LaunchAdds ==
    ASSUME NEW d, NEW e, NEW s, NEW o, Launching(d, e, s, o)
    PROVE  Adds(d, e)
<1>1. Cuda!Queued(e) = Cuda!Queued(d) \cup {Op(o)} /\ Op(o).call = call
    BY QueuedByLaunch DEF Op
<1> QED BY <1>1 DEF Adds

\* Two additions, one after the other.
LEMMA AddsOn ==
    ASSUME NEW d, NEW e, NEW f, Adds(d, e), Adds(e, f)
    PROVE  Adds(d, f)
BY DEF Adds

\* Recording an event, waiting for one and waiting on the host add nothing.
LEMMA SameAdds ==
    ASSUME NEW d, NEW e, e.after = d.after
    PROVE  Adds(d, e)
BY DEF Adds, Cuda!Queued

\* The steps of a call but the last add to the queue, and are steps within the call.
Within == /\ call \in Calls /\ step # "return" /\ step' # "return" /\ SameCall /\ answers' = answers
          /\ Adds(device, device')

\* The front half of a decompression.
LEMMA DecodeAdds ==
    ASSUME OrderInv, \/ Submit \/ ReadHeader \/ EnsureDict \/ WalkFrame \/ UploadDescs
                     \/ PrefixSumAndUploadBlock \/ StageScan \/ ScanChunks
    PROVE  Adds(device, device')
<1>1. CASE Submit
    BY <1>1, SubmitStep, LaunchAdds, SameAdds
<1>2. CASE ReadHeader
    BY <1>2, ReadHeaderStep, LaunchAdds
<1>3. CASE EnsureDict
    <2>1. DictResident => device' = device
        BY <1>3 DEF EnsureDict
    <2> QED BY <1>3, <2>1, EnsureDictStep, LaunchAdds, SameAdds
<1>4. CASE WalkFrame
    BY <1>4, WalkStep, LaunchAdds, AddsOn
<1>5. CASE UploadDescs
    BY <1>5, DescsStep, LaunchAdds
<1>6. CASE PrefixSumAndUploadBlock
    BY <1>6, BlockStep, LaunchAdds, AddsOn
<1>7. CASE StageScan
    BY <1>7, StageStep, LaunchAdds, AddsOn
<1>8. CASE ScanChunks
    <2>1. PICK d, e : /\ Launching(device, d, WorkStream, "ScanParse") /\ Launching(d, e, "null", "ZeroCounts")
                      /\ Launching(e, device', WorkStream, "Compact")
        BY <1>8, ScanStep
    <2>2. Adds(device, d) /\ Adds(d, e) /\ Adds(e, device')
        BY <2>1, LaunchAdds
    <2> QED BY <2>2, AddsOn
<1> QED BY <1>1, <1>2, <1>3, <1>4, <1>5, <1>6, <1>7, <1>8

\* Its back half, on one stream ...
LEMMA HeavyAdds ==
    ASSUME OrderInv, \/ MergeHuffDescs \/ CrossStreamBarrier \/ StageGroupCount \/ HuffBuildAndDecode
                     \/ LzPipeline \/ SettleBackHalf \/ ReadVerdict \/ WalkStatus
    PROVE  Adds(device, device')
<1>1. CASE MergeHuffDescs
    BY <1>1, MergeStep, LaunchAdds
<1>2. CASE CrossStreamBarrier
    BY <1>2, BarrierStep, SameAdds
<1>3. CASE StageGroupCount
    <2>1. Req.source \in {"host", "device"}
        BY <1>3, AtWork, StepOf DEF StageGroupCount, At
    <2> QED BY <1>3, <2>1, GroupsStep, LaunchAdds, SameAdds
<1>4. CASE HuffBuildAndDecode
    BY <1>4, HuffStep, LaunchAdds, AddsOn
<1>5. CASE LzPipeline
    <2>1. PICK d : /\ d = device \/ (gatherPending /\ d = Cuda!WaitEvent(device, HeavyStream, "gather_done"))
                   /\ Launching(d, device', HeavyStream, "Lz")
        BY <1>5, LzStep
    <2>2. Shape(device) /\ HeavyStream \in Streams /\ "gather_done" \in Events
        <3>1. Req.stream \in {"null", "caller", "free"}
            BY <1>5, AtWork, StepOf DEF LzPipeline, At
        <3> QED BY <3>1 DEF OrderInv, Sound, HeavyStream, Streams, Events
    <2>3. d.after = device.after
        BY <2>1, <2>2, Awaited
    <2> QED BY <2>1, <2>3, LaunchAdds, SameAdds, AddsOn
<1>6. CASE SettleBackHalf
    BY <1>6, SettleStep, SameAdds
<1>7. CASE ReadVerdict
    BY <1>7, VerdictStep, LaunchAdds
<1>8. CASE WalkStatus
    BY <1>8, StatusStep, LaunchAdds, SameAdds
<1> QED BY <1>1, <1>2, <1>3, <1>4, <1>5, <1>6, <1>7, <1>8

\* ... and the two steps that branch off to the gather stream.
LEMMA ForkAdds ==
    ASSUME OrderInv, GatherRawOff16 \/ MerkleVerify
    PROVE  Adds(device, device')
<1>0. /\ Shape(device) /\ "gather" \in Streams /\ "pipeline" \in Streams /\ WorkStream \in Streams
      /\ "compact_done" \in Events /\ "gather_done" \in Events /\ "lz_done" \in Events
    <2>1. Req.stream \in {"null", "caller", "free"}
        BY AtWork, StepOf DEF GatherRawOff16, MerkleVerify, At
    <2> QED BY <2>1 DEF OrderInv, Sound, WorkStream, Streams, Events
<1>1. CASE GatherRawOff16
    <2>1. CASE Forked(device')
        <3>1. PICK a, b, e : /\ a = Cuda!Record(device, "compact_done", WorkStream)
                             /\ b = Cuda!WaitEvent(a, "gather", "compact_done")
                             /\ e = Cuda!Launch(b, "gather", Op("Gather"))
                             /\ device' = Cuda!Record(e, "gather_done", "gather")
                             /\ Launching(b, e, "gather", "Gather")
            BY <2>1 DEF Forked
        <3>2. Shape(a) /\ a.after = device.after
            BY <1>0, <3>1, Recorded
        <3>3. b.after = device.after
            BY <1>0, <3>1, <3>2, Awaited
        <3>4. Shape(e)
            BY <3>1 DEF Launching, AfterLaunch
        <3>5. device'.after = e.after
            <4>1. "gather" \in Streams /\ "gather_done" \in Events /\ device' = Cuda!Record(e, "gather_done", "gather")
                BY <1>0, <3>1
            <4> QED BY <3>4, <4>1, Recorded
        <3>6. Adds(device, b) /\ Adds(b, e) /\ Adds(e, device')
            BY <3>1, <3>3, <3>5, SameAdds, LaunchAdds
        <3> QED BY <3>6, AddsOn
    <2> QED BY <1>1, <2>1, GatherStep, LaunchAdds
<1>2. CASE MerkleVerify
    <2>1. PICK s, d, e : /\ Branched(d, s) /\ Chained(d, e, s)
                         /\ \/ Req.merkle # "verdict" /\ device' = e
                            \/ Req.merkle = "verdict" /\ Launching(e, device', s, "Verdict")
        BY <1>2, MerkleStep
    <2>2. d.after = device.after
        <3>1. ASSUME NEW a, a = Cuda!Record(device, "lz_done", "pipeline"),
                     d = Cuda!WaitEvent(a, "gather", "lz_done")
              PROVE  d.after = device.after
            <4>1. Shape(a) /\ a.after = device.after
                BY <1>0, <3>1, Recorded
            <4> QED BY <1>0, <3>1, <4>1, Awaited
        <3> QED BY <2>1, <3>1 DEF Branched
    <2>3. Adds(d, e)
        <3>1. PICK a, b : Launching(d, a, s, "ScPrefix") /\ Launching(a, b, s, "SegHash") /\ Launching(b, e, s, "ChunkCombine")
            BY <2>1 DEF Chained
        <3>2. Adds(d, a) /\ Adds(a, b) /\ Adds(b, e)
            BY <3>1, LaunchAdds
        <3> QED BY <3>2, AddsOn
    <2>4. Adds(device, e)
        BY <2>2, <2>3, SameAdds, AddsOn
    <2>5. Adds(e, device')
        BY <2>1, LaunchAdds, SameAdds
    <2> QED BY <2>4, <2>5, AddsOn
<1> QED BY <1>1, <1>2

\* Two operations on the null stream.
LEMMA Encoded2Adds ==
    ASSUME NEW d, NEW e, NEW o, NEW p, Encoded2(d, e, o, p)
    PROVE  Adds(d, e)
BY LaunchAdds, AddsOn DEF Encoded2

\* Three operations.
LEMMA Encoded3Adds ==
    ASSUME NEW d, NEW e, NEW o, NEW p, NEW q, Encoded3(d, e, o, p, q)
    PROVE  Adds(d, e)
<1>1. PICK a, b : Launching(d, a, "null", o) /\ Launching(a, b, "null", p) /\ Launching(b, e, "null", q)
    BY DEF Encoded3
<1>2. Adds(d, a) /\ Adds(a, b) /\ Adds(b, e)
    BY <1>1, LaunchAdds
<1> QED BY <1>2, AddsOn

\* Four operations.
LEMMA Encoded4Adds ==
    ASSUME NEW d, NEW e, NEW o, NEW p, NEW q, NEW r, Encoded4(d, e, o, p, q, r)
    PROVE  Adds(d, e)
<1>1. PICK a, b, c : /\ Launching(d, a, "null", o) /\ Launching(a, b, "null", p)
                     /\ Launching(b, c, "null", q) /\ Launching(c, e, "null", r)
    BY DEF Encoded4
<1>2. Encoded3(d, c, o, p, q) /\ Adds(c, e)
    BY <1>1, LaunchAdds DEF Encoded3
<1> QED BY <1>2, Encoded3Adds, AddsOn

\* The steps of a compression.
LEMMA EncodeAdds ==
    ASSUME OrderInv, CompressStep
    PROVE  Adds(device, device')
<1>1. ASSUME SubmitInput \/ WrapInput \/ StageInput \/ LzEncode \/ HashChunks PROVE Adds(device, device')
    BY <1>1, SubmitInputStep, WrapStep, InputStep, LzEncodeStep, HashStep, LaunchAdds, SameAdds,
       Encoded2Adds, Encoded3Adds
<1>2. ASSUME ReadBack PROVE Adds(device, device')
    BY <1>2, ReadBackStep, LaunchAdds, Encoded2Adds
<1>3. ASSUME NEW x \in HuffPasses, HuffEncode(x) PROVE Adds(device, device')
    BY <1>3, HuffEncodeStep, Encoded4Adds DEF HuffPasses
<1>4. ASSUME AssembleMeasure \/ AssembleWrite \/ CopyLayout \/ FrameAssemble \/ SizeTable \/ RootWrite
      PROVE  Adds(device, device')
    BY <1>4, MeasureStep, WriteStep, LayoutStep, FrameStep, TableStep, RootStep, LaunchAdds,
       Encoded2Adds, Encoded3Adds
<1> QED BY <1>1, <1>2, <1>3, <1>4 DEF CompressStep

\* A request that is downloaded finds no download of an earlier call.
LEMMA NoneAnswering ==
    ASSUME OrderInv, waiting = {}, call \in Calls, step \in {"finalize", "download"}
    PROVE  Answering(device) = {}
<1>1. /\ Working(device) /\ plan \in Plans /\ Req \in Request /\ step \in Route(Req)
      /\ \A o : ~(OpRank[o] < Rank[step]) => Op(o) \notin Cuda!Queued(device)
    BY AtWork
<1>2. Op("Download") \notin Cuda!Queued(device)
    BY <1>1, StepRanks, OpRanks
<1>3. SUFFICES ASSUME NEW i \in Cuda!Queued(device), i.op = "Download" PROVE FALSE
    BY DEF Answering
<1>4. Known(i) /\ (step \notin Opening(Req) => Own(i))
    BY <1>1 DEF Working, Sound
<1>5. step \notin Opening(Req)
    BY DEF Opening, If
<1>6. i.call # call
    BY <1>2, <1>3, <1>4 DEF Known, Op
<1>7. IsFree(i) /\ Req.job = "decompress" /\ i.call < call
    BY <1>4, <1>5, <1>6 DEF Own, Known, Calls
<1>8. plan[i.call].stream = "free" /\ i.call \in DOMAIN plan /\ call \in DOMAIN plan
    BY <1>1, <1>4, <1>7, PlansAssumption DEF IsFree, Known, Calls
<1>9. \A p \in Plans : \A x, y \in DOMAIN p : p[x].stream = "free" /\ x < y => p[y].job = "compress"
    BY OrderAssumption
<1>10. plan[call].job = "compress"
    BY <1>1, <1>7, <1>8, <1>9
<1> QED BY <1>7, <1>10 DEF Req

\* After the download only the return is left.
LEMMA LastStep == \A r : \A s \in Route(r) : Rank[s] > OpRank["Download"] <=> s = "return"
BY StepRanks, OpRanks DEF Route, If, HuffPasses

\* A step within a call queues no download.
LEMMA WithinAnswers ==
    ASSUME OrderInv, OrderInv', AnswersInv, Within
    PROVE  AnswersInv'
<1>1. /\ call \in Calls /\ step # "return" /\ step' # "return" /\ plan' = plan /\ call' = call /\ refused' = refused
      /\ answers' = answers /\ Adds(device, device') /\ Calls' = Calls
    BY DEF Within, SameCall, Calls
<1>2. Answering(device') = Answering(device)
    <2>1. ASSUME NEW i \in Cuda!Queued(device'), i.op = "Download", i.call = call PROVE FALSE
        <3>1. OpRank["Download"] < Rank[step']
            BY <1>1, <2>1 DEF OrderInv, Fresh
        <3>2. step' \in Route(plan[call])
            BY <1>1 DEF OrderInv, HostTyped, Req
        <3>3. Rank[step'] \in Nat /\ OpRank["Download"] \in Nat
            BY <3>2, RanksTyped, OpRanks
        <3> QED BY <1>1, <3>1, <3>2, <3>3, LastStep
    <2>2. ASSUME NEW i \in Cuda!Queued(device'), i.op = "Download" PROVE i \in Cuda!Queued(device)
        BY <1>1, <2>1, <2>2 DEF Adds
    <2> QED BY <1>1, <2>2 DEF Adds, Answering
<1>3. Answers(device, call, step, answers, refused, Calls)
    BY DEF AnswersInv
<1>4. Answers(device', call, step', answers, refused, Calls)
    BY <1>1, <1>2, <1>3 DEF Answers
<1> QED BY <1>1, <1>4 DEF AnswersInv

\* The download of the call the host is in is queued.
LEMMA DownloadAnswers ==
    ASSUME OrderInv, AnswersInv, FinalizeOutput \/ CallerDownload
    PROVE  AnswersInv' /\ answers' = answers /\ refused' = refused
<1>1. /\ step \in {"finalize", "download"} /\ waiting = {} /\ call \in Calls /\ call \in Nat /\ step' = "return"
      /\ plan' = plan /\ call' = call /\ refused' = refused /\ answers' = answers /\ Calls' = Calls
    BY DEF FinalizeOutput, CallerDownload, At, Goto, host, Calls
<1>2. Cuda!Queued(device') = Cuda!Queued(device) \cup {Op("Download")}
    BY FinalizeStep, DownloadStep, QueuedByLaunch
<1>3. Answering(device) = {}
    BY <1>1, NoneAnswering
<1>4. Answering(device') = {Op("Download")} /\ Op("Download").call = call
      /\ Op("Download") = [call |-> call, op |-> "Download"]
    BY <1>2, <1>3 DEF Answering, Op
<1>5. refused \subseteq 1 .. call - 1
    BY DEF OrderInv, HostTyped
<1>6. Answers(device, call, step, answers, refused, Calls)
    BY DEF AnswersInv
<1>7. \A k \in Calls : k \in Nat
    BY DEF Calls
<1>8. Answers(device', call, "return", answers, refused, Calls)
    <2>1. call \notin AnsweredIn(answers) \cup refused
        BY <1>1, <1>5, <1>6 DEF Answers
    <2>2. \A k \in AnsweredIn(answers) : k < call
        BY <1>1, <1>6 DEF Answers
    <2>3. \A k \in Calls : k < call => k \in AnsweredIn(answers) \cup refused
        BY <1>3, <1>6 DEF Answers
    <2>4. answers \in Seq([call : Nat, of : Nat]) /\ AnsweredIn(answers) \cap refused = {}
        BY <1>6 DEF Answers
    <2> QED BY <1>1, <1>4, <1>7, <2>1, <2>2, <2>3, <2>4 DEF Answers
<1> QED BY <1>1, <1>8 DEF AnswersInv

-----------------------------------------------------------------------------
(* The step each action is for the caller *)

Asked == Abstract!Next \/ UNCHANGED <<answers, refused>>

\* A call that fails, or has nothing to read, is refused.
LEMMA RefusedAnswers ==
    ASSUME OrderInv, AnswersInv, NothingToRead \/ Fail
    PROVE  AnswersInv' /\ Asked
<1>1. /\ call \in Calls /\ call \in Nat /\ call' = call + 1 /\ step' = "submit" /\ refused' = refused \cup {call}
      /\ answers' = answers /\ device' = device /\ Calls' = Calls /\ waiting = {}
    BY DEF NothingToRead, Fail, At, NextCall, Calls
<1>2. step \in FrontHalf \cup {"submit"}
    BY PlansAssumption DEF NothingToRead, Fail, At
<1>3. step # "return" /\ Rank[step] <= 12
    BY <1>2, StepRanks DEF FrontHalf
<1>4. Op("Download") \notin Cuda!Queued(device) /\ refused \subseteq 1 .. call - 1
    <2>1. ~(OpRank["Download"] < Rank[step])
        <3>1. Rank[step] \in Nat
            BY <1>2, StepRanks DEF FrontHalf
        <3> QED BY <1>3, <3>1, OpRanks
    <2> QED BY <1>1, <2>1, AtWork
<1>5. \A i \in Answering(device) : i.call # call
    <2>1. \A i \in Answering(device) : i = [call |-> i.call, op |-> "Download"]
        BY DEF Answering, OrderInv, Sound, Known
    <2> QED BY <1>4, <2>1 DEF Answering, Op
<1>6. Answers(device, call, step, answers, refused, Calls)
    BY DEF AnswersInv
<1>7. \A k \in Calls : k \in Nat
    BY DEF Calls
<1>8. call \notin AnsweredIn(answers) \cup refused
    BY <1>1, <1>3, <1>4, <1>6 DEF Answers
<1>9. Answers(device, call + 1, "submit", answers, refused \cup {call}, Calls)
    <2>1. /\ answers \in Seq([call : Nat, of : Nat])
          /\ \A i, j \in Answering(device) : i = j
          /\ \A i \in Answering(device) : i.call \notin AnsweredIn(answers) \cup (refused \cup {call})
          /\ AnsweredIn(answers) \cap (refused \cup {call}) = {}
        BY <1>5, <1>6, <1>8 DEF Answers
    <2>2. \A k \in AnsweredIn(answers) : k < call + 1
        BY <1>1, <1>3, <1>6, CallNumbers DEF Answers
    <2>3. \A k \in Calls : k < call + 1 =>
             k \in AnsweredIn(answers) \cup (refused \cup {call}) \/ [call |-> k, op |-> "Download"] \in Answering(device)
        BY <1>1, <1>6, <1>7 DEF Answers
    <2> QED BY <2>1, <2>2, <2>3 DEF Answers
<1>10. call \in 1 .. MaxCalls
    BY <1>1, PlansAssumption DEF OrderInv, HostTyped, Calls
<1>11. Abstract!Refuse(call)
    BY <1>1, <1>8 DEF Abstract!Refuse, Abstract!Answered, AnsweredIn
<1> QED BY <1>1, <1>9, <1>10, <1>11 DEF AnswersInv, Asked, Abstract!Next

\* Return: the call is answered, refused, or its download is under way.
LEMMA ReturnAnswers ==
    ASSUME OrderInv, AnswersInv, Return
    PROVE  AnswersInv' /\ Asked
<1>1. /\ call \in Calls /\ call \in Nat /\ call' = call + 1 /\ step' = "submit" /\ refused' = refused
      /\ answers' = answers /\ device' = device /\ Calls' = Calls /\ step = "return"
    BY DEF Return, At, NextCall, Calls
<1>2. Answers(device, call, "return", answers, refused, Calls)
    BY <1>1 DEF AnswersInv
<1>3. \A k \in Calls : k \in Nat
    BY DEF Calls
<1>4. Answers(device, call + 1, "submit", answers, refused, Calls)
    <2>1. \A k \in AnsweredIn(answers) : k < call + 1
        BY <1>1, <1>2, CallNumbers DEF Answers
    <2>2. \A k \in Calls : k < call + 1 =>
              k \in AnsweredIn(answers) \cup refused \/ [call |-> k, op |-> "Download"] \in Answering(device)
        BY <1>1, <1>2, <1>3 DEF Answers
    <2> QED BY <1>2, <2>1, <2>2 DEF Answers
<1> QED BY <1>1, <1>4 DEF AnswersInv, Asked

-----------------------------------------------------------------------------
(* The device answers *)

\* A download finds in memory what its own call decoded or encoded, and leaves it in the
\* result of the call.
LEMMA DownloadsOwn ==
    ASSUME OrderInv, DataInv, NEW x \in device.running, x.op = "Download", Finish,
           memory' = [p \in DOMAIN memory |->
                        IF p \notin Writes(x) THEN memory[p]
                        ELSE IF Clears(x) \/ ~Current(x) THEN 0 ELSE Owner(p, x.call)]
    PROVE  memory'[Place("result", x.call)] = x.call
<1> DEFINE p == Place("result", x.call)
<1>1. /\ x \in Cuda!Queued(device) /\ plan \in Plans /\ x = [call |-> x.call, op |-> "Download"]
      /\ x.call \in Calls /\ x.call # 0 /\ "Download" \in Ops(plan[x.call])
    BY DEF OrderInv, HostTyped, Sound, Shape, Known, Calls
<1>2. Current(x)
    BY RunningIsCurrent DEF Current, OrderInv, Sound, DataInv, Stocked
<1>3. Access("Download", plan[x.call]).writes = {"result"}
    BY DecodeAccesses, EncodeAccesses DEF Access
<1>4. p = <<"result", x.call>> /\ p \in Writes(x)
    BY <1>1, <1>3, PlaceIs DEF Writes
<1>5. p \in DOMAIN memory
    BY <1>1, <1>4, InPlaces DEF DataInv, Stocked
<1>6. Owner(p, x.call) = x.call
    BY <1>1, <1>4 DEF Owner
<1> HIDE DEF p
<1>7. ~Clears(x)
    BY <1>1 DEF Clears
<1>8. memory'[p] = x.call
    BY <1>2, <1>4, <1>5, <1>6, <1>7
<1> QED BY <1>8 DEF p

\* The answer to one more call.
LEMMA OneMore ==
    ASSUME NEW a \in Seq([call : Nat, of : Nat]), NEW c \in Nat, NEW b, b = Append(a, [call |-> c, of |-> c])
    PROVE  b \in Seq([call : Nat, of : Nat]) /\ AnsweredIn(b) = AnsweredIn(a) \cup {c}
<1>1. /\ b \in Seq([call : Nat, of : Nat]) /\ DOMAIN b = 1 .. Len(a) + 1 /\ DOMAIN a = 1 .. Len(a) /\ Len(a) \in Nat
      /\ b[Len(a) + 1] = [call |-> c, of |-> c] /\ \A i \in DOMAIN a : b[i] = a[i]
    OBVIOUS
<1>2. DOMAIN b = DOMAIN a \cup {Len(a) + 1}
    BY <1>1
<1> QED BY <1>1, <1>2 DEF AnsweredIn

\* Finish: a download answers its call, the next one in order.
LEMMA FinishAnswers ==
    ASSUME OrderInv, DataInv, AnswersInv, Finish
    PROVE  AnswersInv' /\ Asked
<1>1. PICK x \in device.running :
        /\ device' = Cuda!Finished(device, x)
        /\ memory' = [p \in DOMAIN memory |->
                        IF p \notin Writes(x) THEN memory[p]
                        ELSE IF Clears(x) \/ ~Current(x) THEN 0 ELSE Owner(p, x.call)]
        /\ answers' = IF x.op # "Download" THEN answers
                      ELSE Append(answers, [call |-> x.call, of |-> memory'[Place("result", x.call)]])
        /\ UNCHANGED <<plan, call, step, overlap, gatherPending, dictCached, failures, refused>>
    BY DEF Finish
<1>2. Calls' = Calls /\ call' = call /\ step' = step /\ refused' = refused
    BY <1>1 DEF Calls
<1>3. AfterFinish(device, device', x)
    BY <1>1, Finishes DEF OrderInv, Sound
<1>4. Cuda!Queued(device') = Cuda!Queued(device) \ {x} /\ x \in Cuda!Queued(device)
    BY <1>3 DEF AfterFinish
<1>5. Answering(device') = Answering(device) \ {x}
    BY <1>4 DEF Answering
<1>6. Answers(device, call, step, answers, refused, Calls)
    BY DEF AnswersInv
<1>7. CASE x.op # "Download"
    <2>1. Answering(device') = Answering(device) /\ answers' = answers
        BY <1>1, <1>5, <1>7 DEF Answering
    <2>2. Answers(device', call, step, answers, refused, Calls)
        BY <1>6, <2>1 DEF Answers
    <2> QED BY <1>2, <2>1, <2>2 DEF AnswersInv, Asked
<1>8. CASE x.op = "Download"
    <2> DEFINE c == x.call
    <2>1. Answering(device) = {x} /\ Answering(device') = {}
        BY <1>4, <1>5, <1>6, <1>8 DEF Answering, Answers
    <2>2. /\ x = [call |-> c, op |-> "Download"] /\ c \in Calls /\ c \in Nat /\ c <= call /\ call \in Nat
          /\ c = call => OpRank["Download"] < Rank[step]
        BY <1>4, <1>8 DEF OrderInv, HostTyped, Sound, Known, Fresh, Calls
    <2>3. answers' = Append(answers, [call |-> c, of |-> c])
        BY <1>1, <1>8, DownloadsOwn
    <2>4. c < call \/ (c = call /\ step = "return")
        <3>1. ASSUME c = call PROVE step = "return"
            <4>1. step \in Route(Req)
                BY <2>2, <3>1 DEF OrderInv, HostTyped
            <4>2. Rank[step] \in Nat /\ OpRank["Download"] \in Nat
                BY <4>1, RanksTyped, OpRanks
            <4> QED BY <2>2, <3>1, <4>1, <4>2, LastStep
        <3> QED BY <2>2, <3>1
    <2>5. c \notin AnsweredIn(answers) \cup refused
        BY <1>6, <2>1 DEF Answers
    <2>6. \A k \in Calls : (k < call \/ (k = call /\ step = "return")) /\ k # c => k \in AnsweredIn(answers) \cup refused
        BY <1>6, <2>1, <2>2 DEF Answers
    <2>7. answers' \in Seq([call : Nat, of : Nat]) /\ AnsweredIn(answers') = AnsweredIn(answers) \cup {c}
        BY <1>6, <2>2, <2>3, OneMore DEF Answers
    <2> HIDE DEF c
    <2>8. Answers(device', call, step, answers', refused, Calls)
        <3>1. AnsweredIn(answers') \cap refused = {}
            BY <1>6, <2>5, <2>7 DEF Answers
        <3>2. \A k \in AnsweredIn(answers') : k < call \/ (k = call /\ step = "return")
            BY <1>6, <2>4, <2>7 DEF Answers
        <3>3. \A k \in Calls : k < call \/ (k = call /\ step = "return") => k \in AnsweredIn(answers') \cup refused
            BY <2>6, <2>7
        <3> QED BY <2>1, <2>7, <3>1, <3>2, <3>3 DEF Answers
    <2>9. c \in 1 .. MaxCalls /\ \A k \in 1 .. MaxCalls : k < c => k \in AnsweredIn(answers) \cup refused
        <3>1. plan \in Plans /\ Len(plan) \in Nat /\ Len(plan) <= MaxCalls /\ MaxCalls \in Nat
            BY PlansAssumption DEF OrderInv, HostTyped
        <3>2. c \in 1 .. MaxCalls
            BY <2>2, <3>1 DEF Calls
        <3>3. ASSUME NEW k \in 1 .. MaxCalls, k < c PROVE k \in AnsweredIn(answers) \cup refused
            <4>1. k \in Calls /\ k < call /\ k # c
                BY <2>2, <3>1, <3>3 DEF Calls
            <4> QED BY <2>6, <4>1
        <3> QED BY <3>2, <3>3
    <2>10. Abstract!Answer(c)
        BY <1>2, <2>3, <2>5, <2>9 DEF Abstract!Answer, Abstract!Answered, AnsweredIn
    <2> QED BY <1>2, <2>8, <2>9, <2>10 DEF AnswersInv, Asked, Abstract!Next
<1> QED BY <1>7, <1>8

\* Start.
LEMMA StartAnswers ==
    ASSUME OrderInv, AnswersInv, Start
    PROVE  AnswersInv' /\ Asked
<1>1. PICK x \in Cuda!Startable(device) : device' = Cuda!Started(device, x)
    BY DEF Start
<1>2. device'.after = device.after
    BY <1>1, Starts DEF OrderInv, Sound
<1>3. Answering(device') = Answering(device)
    BY <1>2 DEF Answering, Cuda!Queued
<1>4. /\ Calls' = Calls /\ call' = call /\ step' = step /\ refused' = refused /\ answers' = answers
      /\ Answers(device, call, step, answers, refused, Calls)
    BY DEF Start, AnswersInv, Calls
<1>5. Answers(device', call, step, answers, refused, Calls)
    BY <1>3, <1>4 DEF Answers
<1> QED BY <1>4, <1>5 DEF AnswersInv, Asked

-----------------------------------------------------------------------------
(* The steps of a call but the last *)

\* One step of a function of the host, but those of the answer.
LEMMA GoesWithin ==
    ASSUME NEW there, call \in Calls, step # "return", there # "return", Goto(there), Adds(device, device')
    PROVE  Within
BY DEF Within, SameCall, Goto, host

\* The steps of a decompression.
LEMMA DecodeWithin ==
    ASSUME OrderInv, \/ Submit \/ ReadHeader \/ EnsureDict \/ WalkFrame \/ UploadDescs
                     \/ PrefixSumAndUploadBlock \/ StageScan \/ ScanChunks
    PROVE  Within
<1>1. Adds(device, device')
    BY DecodeAdds
<1>2. call \in Calls /\ step # "return"
    BY DEF Submit, ReadHeader, EnsureDict, WalkFrame, UploadDescs, PrefixSumAndUploadBlock, StageScan, ScanChunks, At
<1>3. PICK there \in {"header", "dict", "walk", "descs", "block", "stage", "barrier", "scan", "gather"} : Goto(there)
    BY DEF Submit, ReadHeader, EnsureDict, WalkFrame, UploadDescs, PrefixSumAndUploadBlock, StageScan, ScanChunks
<1> QED BY <1>1, <1>2, <1>3, GoesWithin

\* Its back half.
LEMMA HeavyWithin ==
    ASSUME OrderInv, \/ GatherRawOff16 \/ MergeHuffDescs \/ CrossStreamBarrier \/ StageGroupCount
                     \/ HuffBuildAndDecode \/ LzPipeline \/ SettleBackHalf \/ MerkleVerify
                     \/ ReadVerdict \/ WalkStatus
    PROVE  Within
<1>1. Adds(device, device')
    BY HeavyAdds, ForkAdds
<1>2. call \in Calls /\ step # "return"
    BY DEF GatherRawOff16, MergeHuffDescs, CrossStreamBarrier, StageGroupCount, HuffBuildAndDecode, LzPipeline,
           SettleBackHalf, MerkleVerify, ReadVerdict, WalkStatus, At
<1>3. PICK there \in {"merge", "barrier", "groups", "huff", "lz", "settle", "status", "finalize", "merkle",
                      "verdict", "download"} : Goto(there)
    BY DEF GatherRawOff16, MergeHuffDescs, CrossStreamBarrier, StageGroupCount, HuffBuildAndDecode, LzPipeline,
           SettleBackHalf, MerkleVerify, ReadVerdict, WalkStatus
<1> QED BY <1>1, <1>2, <1>3, GoesWithin

\* The steps of a compression.
LEMMA EncodeWithin ==
    ASSUME OrderInv, CompressStep
    PROVE  Within
<1>1. Adds(device, device')
    BY EncodeAdds
<1>2. ASSUME \/ SubmitInput \/ WrapInput \/ StageInput \/ LzEncode \/ HashChunks \/ ReadBack
             \/ AssembleMeasure \/ AssembleWrite \/ CopyLayout \/ FrameAssemble \/ SizeTable \/ RootWrite
      PROVE  Within
    <2>1. call \in Calls /\ step # "return"
        BY <1>2 DEF SubmitInput, WrapInput, StageInput, LzEncode, HashChunks, ReadBack, AssembleMeasure,
                    AssembleWrite, CopyLayout, FrameAssemble, SizeTable, RootWrite, Compresses, At
    <2>2. PICK there \in {"wrap", "input", "encode", "hash", "sizes", "lit", "measure", "write", "layout",
                          "frame", "table", "root", "download", "finalize"} : Goto(there)
        BY <1>2 DEF SubmitInput, WrapInput, StageInput, LzEncode, HashChunks, ReadBack, AssembleMeasure,
                    AssembleWrite, CopyLayout, FrameAssemble, AfterFrame, SizeTable, RootWrite
    <2> QED BY <1>1, <2>1, <2>2, GoesWithin
<1>3. ASSUME NEW x \in HuffPasses, HuffEncode(x) PROVE Within
    <2>1. call \in Calls /\ step # "return"
        BY <1>3 DEF HuffEncode, Compresses, At, HuffPasses
    <2>2. Goto(AfterPass[x]) /\ AfterPass[x] # "return"
        BY <1>3 DEF HuffEncode, AfterPass, HuffPasses
    <2> QED BY <1>1, <2>1, <2>2, GoesWithin
<1> QED BY <1>2, <1>3 DEF CompressStep

-----------------------------------------------------------------------------
(* The abstract specification *)

\* Each step is one of DecodeCalls or none.
LEMMA Implements == OrderInv /\ DataInv /\ AnswersInv /\ [Next]_vars => AnswersInv' /\ Asked
<1> SUFFICES ASSUME OrderInv, DataInv, AnswersInv, [Next]_vars PROVE AnswersInv' /\ Asked
    OBVIOUS
<1>1. OrderInv'
    BY Inductive
<1>2. ASSUME Within PROVE AnswersInv' /\ Asked
    BY <1>1, <1>2, WithinAnswers DEF Asked, Within, SameCall
<1>3. CASE HostStep
    <2>1. ASSUME FinalizeOutput \/ CallerDownload PROVE AnswersInv' /\ Asked
        BY <2>1, DownloadAnswers DEF Asked
    <2> QED BY <1>2, <1>3, <2>1, DecodeWithin, HeavyWithin, RefusedAnswers, ReturnAnswers DEF HostStep
<1>4. CASE CompressStep
    BY <1>2, <1>4, EncodeWithin
<1>5. CASE Start \/ Finish
    BY <1>5, StartAnswers, FinishAnswers
<1>6. CASE UNCHANGED vars
    <2>1. AnswersInv' /\ UNCHANGED <<answers, refused>>
        BY <1>6 DEF AnswersInv, vars, Calls
    <2> QED BY <2>1 DEF Asked
<1> QED BY <1>3, <1>4, <1>5, <1>6 DEF Next, Done

\* Nothing is answered at the start.
LEMMA NotYetAnswered == Init => AnswersInv /\ Abstract!Init
<1> SUFFICES ASSUME Init PROVE AnswersInv /\ Abstract!Init
    OBVIOUS
<1>1. /\ call = 1 /\ step = "submit" /\ device = Cuda!IdleDevice /\ answers = <<>> /\ refused = {}
    BY DEF Init
<1>2. Answering(device) = {} /\ AnsweredIn(answers) = {}
    BY <1>1 DEF Answering, AnsweredIn, Cuda!IdleDevice, Cuda!Queued
<1>3. \A k \in Calls : ~(k < 1)
    BY DEF Calls
<1>4. Answers(device, 1, "submit", answers, refused, Calls)
    BY <1>1, <1>2, <1>3 DEF Answers
<1> QED BY <1>1, <1>4 DEF AnswersInv, Abstract!Init

\* (AnswersInOrder) The dispatch implements DecodeCalls: the calls of a handle are answered in
\* the order they are made, each with what comes of its own data, or refused.
THEOREM AnsweredInOrder == Spec => AnswersInOrder
<1>1. Init => AnswersInv /\ Abstract!Init
    BY NotYetAnswered
<1>2. OrderInv /\ DataInv /\ AnswersInv /\ [Next]_vars => AnswersInv' /\ [Abstract!Next]_<<answers, refused>>
    BY Implements DEF Asked
<1> QED BY <1>1, <1>2, QueueFed, PTL DEF Spec, AnswersInOrder

=============================================================================

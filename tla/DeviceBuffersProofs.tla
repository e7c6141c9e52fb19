------------------------ MODULE DeviceBuffersProofs ------------------------
(***************************************************************************)
(* Until the pointer of a failed growth is freed a second time, a buffer of *)
(* known size points to an address the driver allocated for that buffer.    *)
(* With the types (a sized buffer has an address) that is inductive, and it *)
(* is what makes each free legitimate.  That nothing leaks needs the other  *)
(* direction: the driver's block for a buffer is the one it points to.      *)
(***************************************************************************)
EXTENDS DeviceBuffers, TLAPS

IInv == TypeOK /\ SizedMeansOwned

\* No buffer has a block at the start.
LEMMA InitInv == Init => IInv
<1>. SUFFICES ASSUME Init PROVE IInv
  OBVIOUS
<1>. USE DEF Init
<1>1. \A b \in Buffers : ptr[b] = Null /\ size[b] = 0
  OBVIOUS
<1>2. ptr \in [Buffers -> Addresses \cup {Null}] /\ size \in [Buffers -> Sizes \cup {0}]
  OBVIOUS
<1>3. heap \in [Addresses -> Buffers \cup {App, Free}] /\ closed \in BOOLEAN /\ refreed \in BOOLEAN
  OBVIOUS
<1>4. ~(0 > 0)
  OBVIOUS
<1>. QED  BY <1>1, <1>2, <1>3, <1>4 DEF IInv, TypeOK, SizedMeansOwned

\* Types survive every step, failed allocations included.
LEMMA TypeStep ==
  ASSUME TypeOK, [Next]_vars
  PROVE  TypeOK'
<1>. USE BuffersAssumption DEF TypeOK, Without, FreeOf
<1>1. ASSUME NEW b \in Buffers, NEW needed \in Sizes, Grow(b, needed) PROVE TypeOK'
  BY <1>1 DEF Grow
<1>2. ASSUME NEW b \in Buffers, NEW needed \in Sizes, GrowFails(b, needed) PROVE TypeOK'
  BY <1>2 DEF GrowFails
<1>3. CASE TrimEncoder
  BY <1>3 DEF TrimEncoder, Forget
<1>4. CASE Destroy
  BY <1>4 DEF Destroy, Forget
<1>5. CASE AppAllocates \/ AppFrees
  BY <1>5 DEF AppAllocates, AppFrees
<1>6. CASE UNCHANGED vars
  BY <1>6 DEF vars
<1>. QED  BY <1>1, <1>2, <1>3, <1>4, <1>5, <1>6 DEF Next, Library

\* A group that is freed for the first time gives back only its own blocks.
LEMMA FreeingOwn ==
  ASSUME IInv, NEW group \in SUBSET Buffers, FreeOf(group), ~refreed'
  PROVE  /\ ~refreed
         /\ \A b \in Buffers : size[b] > 0 => heap[ptr[b]] = b
         /\ \A a \in Addresses : Without({ptr[b] : b \in group})[a] # heap[a] => heap[a] \in group
<1>1. ~refreed /\ \A b \in group : ptr[b] = Null \/ size[b] # 0
  <2>1. ~(refreed \/ \E b \in group : ptr[b] # Null /\ size[b] = 0)
    BY Zenon DEF FreeOf
  <2>. QED  BY <2>1
<1>2. \A b \in Buffers : size[b] > 0 => heap[ptr[b]] = b
  BY <1>1 DEF IInv, SizedMeansOwned
<1>3. \A b \in Buffers : size[b] \in Nat
  <2>1. \A b \in Buffers : size[b] \in Sizes \cup {0}
    BY Zenon DEF IInv, TypeOK
  <2>2. \A n \in Sizes \cup {0} : n \in Nat
    BY BuffersAssumption
  <2>. QED  BY Zenon, <2>1, <2>2
<1>4. ASSUME NEW b \in group, ptr[b] \in Addresses PROVE heap[ptr[b]] = b
  <2>1. size[b] > 0
    BY <1>1, <1>3, <1>4, BuffersAssumption
  <2>. QED  BY <1>2, <2>1
<1>5. ASSUME NEW a \in Addresses, Without({ptr[b] : b \in group})[a] # heap[a]
      PROVE  heap[a] \in group
  <2>1. PICK b \in group : a = ptr[b]
    BY <1>5 DEF Without
  <2>. QED  BY <1>4, <2>1
<1>. QED  BY <1>1, <1>2, <1>5

\* What is left of the heap after that; the freed group's sizes are forgotten
\* or set anew.
LEMMA KeepsOthers ==
  ASSUME IInv, NEW group \in SUBSET Buffers, FreeOf(group), ~refreed',
         NEW b \in Buffers \ group, size[b] > 0
  PROVE  Without({ptr[c] : c \in group})[ptr[b]] = b
<1>1. ptr[b] \in Addresses
  BY DEF IInv, TypeOK
<1>2. heap[ptr[b]] = b
  BY FreeingOwn
<1>. QED  BY <1>1, <1>2, FreeingOwn

\* Growing gives the old block back and takes a free address; a failed growth
\* leaves a buffer of size 0; freeing a group forgets its sizes; the
\* application only touches what is free or its own.
LEMMA OwnedStep ==
  ASSUME IInv, [Next]_vars
  PROVE  SizedMeansOwned'
<1>. SUFFICES ASSUME ~refreed', NEW b \in Buffers, size'[b] > 0
              PROVE  heap'[ptr'[b]] = b
  BY DEF SizedMeansOwned
<1>. USE BuffersAssumption
<1>0. TypeOK /\ TypeOK'
  BY TypeStep DEF IInv
<1>1. ASSUME NEW c \in Buffers, NEW needed \in Sizes, Grow(c, needed) PROVE heap'[ptr'[b]] = b
  <2>1. PICK a \in Addresses : /\ Without({ptr[c]})[a] = Free
                               /\ heap' = [Without({ptr[c]}) EXCEPT ![a] = c]
                               /\ ptr' = [ptr EXCEPT ![c] = a]
    BY <1>1 DEF Grow
  <2>2. CASE b = c
    BY <1>0, <2>1, <2>2 DEF TypeOK, Without
  <2>3. CASE b # c
    <3>1. size[b] > 0 /\ ptr'[b] = ptr[b]
      BY <1>0, <1>1, <2>1, <2>3 DEF Grow, TypeOK
    <3>2. {ptr[d] : d \in {c}} = {ptr[c]}
      OBVIOUS
    <3>3. Without({ptr[c]})[ptr[b]] = b
      BY <1>1, <2>3, <3>1, <3>2, KeepsOthers DEF Grow
    <3>4. ptr[b] # a
      BY <2>1, <3>3
    <3>. QED  BY <1>0, <2>1, <3>1, <3>3, <3>4 DEF Without, TypeOK
  <2>. QED  BY <2>2, <2>3
<1>2. ASSUME NEW c \in Buffers, NEW needed \in Sizes, GrowFails(c, needed) PROVE heap'[ptr'[b]] = b
  <2>1. b # c /\ size[b] > 0 /\ ptr' = ptr
    BY <1>0, <1>2 DEF GrowFails, TypeOK
  <2>2. {ptr[d] : d \in {c}} = {ptr[c]}
    OBVIOUS
  <2>. QED  BY <1>2, <2>1, <2>2, KeepsOthers DEF GrowFails
<1>3. CASE TrimEncoder
  <2>1. b \notin Trimmed /\ size[b] > 0 /\ ptr'[b] = ptr[b]
    BY <1>3 DEF TrimEncoder, Forget
  <2>. QED  BY <1>3, <2>1, KeepsOthers DEF TrimEncoder
<1>4. CASE Destroy
  <2>1. b \notin Buffers \ Kept /\ size[b] > 0 /\ ptr'[b] = ptr[b]
    BY <1>4 DEF Destroy, Forget
  <2>2. Without({ptr[c] : c \in Buffers \ Kept})[ptr[b]] = b
    BY <1>4, <2>1, KeepsOthers DEF Destroy
  <2>3. heap[ptr[b]] = b
    BY <1>4, <2>1, FreeingOwn DEF Destroy
  <2>. QED  BY <1>4, <2>1, <2>2, <2>3 DEF Destroy
<1>5. CASE AppAllocates \/ AppFrees
  BY <1>0, <1>5 DEF AppAllocates, AppFrees, IInv, SizedMeansOwned, TypeOK
<1>6. CASE UNCHANGED vars
  BY <1>6 DEF vars, IInv, SizedMeansOwned
<1>. QED  BY <1>1, <1>2, <1>3, <1>4, <1>5, <1>6 DEF Next, Library

\* Both hold throughout.
LEMMA Invariance == Spec => []IInv
<1>1. IInv /\ [Next]_vars => IInv'
  BY TypeStep, OwnedStep DEF IInv
<1>. QED  BY InitInv, <1>1, PTL DEF Spec

\* The memory behind a buffer that was found large enough is that buffer's,
\* for any number of buffers, any failed growths and any use of the heap by
\* the application.
THEOREM LaunchesOnOwnMemory == Spec => []SizedMeansOwned
<1>1. IInv => SizedMeansOwned
  BY DEF IInv
<1>. QED  BY Invariance, <1>1, PTL

\* No step of the library frees a block of the application, unless it frees
\* the pointer of a failed growth.
THEOREM FreesOnlyItsOwn == Spec => OnlyRefreeHarms
<1> DEFINE Safe == Library /\ ~refreed' => \A a \in Addresses : heap[a] = App => heap'[a] = App
<1>1. ASSUME IInv, Library, ~refreed' PROVE \A a \in Addresses : heap[a] = App => heap'[a] = App
  <2>. SUFFICES ASSUME NEW a \in Addresses, heap[a] = App PROVE heap'[a] = App
    OBVIOUS
  <2>0. \A group \in SUBSET Buffers : FreeOf(group) => Without({ptr[b] : b \in group})[a] = App
    BY <1>1, FreeingOwn, BuffersAssumption
  <2>1. ASSUME NEW b \in Buffers, FreeOf({b}) PROVE Without({ptr[b]})[a] = App
    <3>1. {ptr[d] : d \in {b}} = {ptr[b]} /\ {b} \in SUBSET Buffers
      OBVIOUS
    <3>. QED  BY <2>0, <2>1, <3>1
  <2>2. ASSUME NEW b \in Buffers, NEW needed \in Sizes, Grow(b, needed) PROVE heap'[a] = App
    BY <2>1, <2>2, BuffersAssumption DEF Grow, Without
  <2>3. ASSUME NEW b \in Buffers, NEW needed \in Sizes, GrowFails(b, needed) PROVE heap'[a] = App
    BY <2>1, <2>3 DEF GrowFails
  <2>4. CASE TrimEncoder
    BY <2>0, <2>4, BuffersAssumption DEF TrimEncoder
  <2>5. CASE Destroy
    BY <2>0, <2>5, BuffersAssumption DEF Destroy
  <2>. QED  BY <1>1, <2>2, <2>3, <2>4, <2>5 DEF Library
<1>2. IInv => [Safe]_vars
  BY <1>1
<1>. QED  BY Invariance, <1>2, PTL DEF OnlyRefreeHarms

-----------------------------------------------------------------------------
\* A block that the driver holds for a buffer is the one the buffer points to:
\* growing takes a new block only after giving back the old one.
NothingLost ==
    /\ \A a \in Addresses : heap[a] \in Buffers => ptr[heap[a]] = a
    /\ DestroyFreesItsList

\* Giving back the blocks of a group leaves none of the group's on the heap,
\* and moves nothing of the others'.
LEMMA GivesBackAll ==
  ASSUME NothingLost, NEW group \in SUBSET Buffers, NEW a \in Addresses,
         Without({ptr[b] : b \in group})[a] \in Buffers
  PROVE  /\ Without({ptr[b] : b \in group})[a] = heap[a]
         /\ heap[a] \in Buffers \ group
         /\ ptr[heap[a]] = a
<1>1. a \notin {ptr[b] : b \in group}
  BY BuffersAssumption DEF Without
<1>2. Without({ptr[b] : b \in group})[a] = heap[a]
  BY <1>1 DEF Without
<1>3. ptr[heap[a]] = a
  BY <1>2 DEF NothingLost
<1>. QED  BY <1>1, <1>2, <1>3

\* The same of one buffer.
LEMMA GivesBackOne ==
  ASSUME NothingLost, NEW c \in Buffers, NEW a \in Addresses,
         Without({ptr[c]})[a] \in Buffers
  PROVE  /\ Without({ptr[c]})[a] = heap[a]
         /\ heap[a] \in Buffers \ {c}
         /\ ptr[heap[a]] = a
<1>1. {ptr[d] : d \in {c}} = {ptr[c]}
  OBVIOUS
<1>2. Without({ptr[d] : d \in {c}})[a] \in Buffers
  BY <1>1
<1>3. {c} \in SUBSET Buffers
  OBVIOUS
<1>4. /\ Without({ptr[d] : d \in {c}})[a] = heap[a]
      /\ heap[a] \in Buffers \ {c}
      /\ ptr[heap[a]] = a
  BY <1>2, <1>3, GivesBackAll, Zenon
<1>. QED  BY <1>1, <1>4

\* Every step keeps track of every block, if slzDestroy runs with a context.
LEMMA LostStep ==
  ASSUME ~UnboundDestroy, TypeOK, NothingLost, [Next]_vars
  PROVE  NothingLost'
<1>. USE BuffersAssumption
<1>1. ASSUME NEW c \in Buffers, NEW needed \in Sizes, Grow(c, needed) PROVE NothingLost'
  <2>1. PICK a \in Addresses : /\ heap' = [Without({ptr[c]}) EXCEPT ![a] = c]
                               /\ ptr' = [ptr EXCEPT ![c] = a]
    BY <1>1 DEF Grow
  <2>2. ASSUME NEW x \in Addresses, heap'[x] \in Buffers PROVE ptr'[heap'[x]] = x
    <3>1. CASE x = a
      BY <2>1, <3>1 DEF TypeOK, Without
    <3>2. CASE x # a
      <4>1. heap'[x] = Without({ptr[c]})[x]
        BY <2>1, <3>2 DEF Without
      <4>2. heap'[x] = heap[x] /\ heap[x] \in Buffers \ {c} /\ ptr[heap[x]] = x
        BY <2>2, <4>1, GivesBackOne
      <4>. QED  BY <2>1, <4>2 DEF TypeOK
    <3>. QED  BY <3>1, <3>2
  <2>3. ~closed'
    BY <1>1 DEF Grow
  <2>. QED  BY <2>2, <2>3 DEF NothingLost, DestroyFreesItsList
<1>2. ASSUME NEW c \in Buffers, NEW needed \in Sizes, GrowFails(c, needed) PROVE NothingLost'
  <2>1. ASSUME NEW x \in Addresses, heap'[x] \in Buffers PROVE ptr'[heap'[x]] = x
    BY <1>2, <2>1, GivesBackOne DEF GrowFails
  <2>2. ~closed'
    BY <1>2 DEF GrowFails
  <2>. QED  BY <2>1, <2>2 DEF NothingLost, DestroyFreesItsList
<1>3. CASE TrimEncoder
  <2>1. ASSUME NEW x \in Addresses, heap'[x] \in Buffers PROVE ptr'[heap'[x]] = x
    BY <1>3, <2>1, GivesBackAll DEF TrimEncoder, Forget
  <2>2. ~closed'
    BY <1>3 DEF TrimEncoder
  <2>. QED  BY <2>1, <2>2 DEF NothingLost, DestroyFreesItsList
<1>4. CASE Destroy
  <2>1. heap' = Without({ptr[b] : b \in Buffers \ Kept})
    BY <1>4 DEF Destroy
  <2>2. ASSUME NEW x \in Addresses, heap'[x] \in Buffers
        PROVE  heap'[x] \in Kept /\ ptr'[heap'[x]] = x
    <3>1. heap'[x] = heap[x] /\ heap[x] \in Buffers \ (Buffers \ Kept) /\ ptr[heap[x]] = x
      BY <2>1, <2>2, GivesBackAll
    <3>. QED  BY <1>4, <3>1 DEF Destroy, Forget
  <2>. QED  BY <2>2 DEF NothingLost, DestroyFreesItsList
<1>5. CASE AppAllocates \/ AppFrees
  <2>1. PICK a \in Addresses : \E v \in {App, Free} : heap' = [heap EXCEPT ![a] = v]
    BY <1>5 DEF AppAllocates, AppFrees
  <2>2. ptr' = ptr /\ closed' = closed
    BY <1>5 DEF AppAllocates, AppFrees
  <2>. QED  BY <2>1, <2>2 DEF TypeOK, NothingLost, DestroyFreesItsList
<1>6. CASE UNCHANGED vars
  BY <1>6 DEF vars, NothingLost, DestroyFreesItsList
<1>. QED  BY <1>1, <1>2, <1>3, <1>4, <1>5, <1>6 DEF Next, Library

\* A handle that is destroyed on a thread with a CUDA context leaves on the
\* heap only the buffers that deinit omits, whatever grew, failed to grow or
\* was trimmed before and however the application used the heap.
THEOREM DestroyLeavesOnlyKept ==
  ASSUME ~UnboundDestroy
  PROVE  Spec => []DestroyFreesItsList
<1>1. Init => NothingLost
  BY BuffersAssumption DEF Init, NothingLost, DestroyFreesItsList
<1>2. IInv /\ NothingLost /\ [Next]_vars => NothingLost'
  BY LostStep DEF IInv
<1>3. NothingLost => DestroyFreesItsList
  BY DEF NothingLost
<1>. QED  BY Invariance, <1>1, <1>2, <1>3, PTL DEF Spec
=============================================================================

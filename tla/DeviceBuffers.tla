--------------------------- MODULE DeviceBuffers ---------------------------
(***************************************************************************)
(* The grow-only device buffers of the encode and decode contexts           *)
(* (ensureDeviceBuf, ensureBuf, releaseDeviceBuffers, deinit) on one device *)
(* heap that they share with the application, which allocates and frees its *)
(* own memory.  The driver may give out again any address it got back.      *)
(***************************************************************************)
EXTENDS Naturals, FiniteSets

CONSTANTS Buffers,     \* the buffers of all handles
          Kept,        \* those that deinit does not free
          Trimmed,     \* those of encode contexts, which releaseDeviceBuffers frees
          Addresses, Null,
          App, Free,   \* the other owners of an address
          Sizes,       \* what a call may need
          AllocFails,  \* TRUE: cuMemAlloc may fail
          UnboundDestroy \* TRUE: slzDestroy may be called on a thread with no
                         \* current CUDA context

ASSUME BuffersAssumption ==
    /\ Kept \subseteq Buffers /\ Trimmed \subseteq Buffers
    /\ App # Free /\ {App, Free} \cap Buffers = {} /\ Null \notin Addresses
    /\ Sizes \subseteq Nat \ {0} /\ AllocFails \in BOOLEAN
    /\ UnboundDestroy \in BOOLEAN

VARIABLES ptr,    \* each buffer's device pointer
          size,   \* and how much it is known to hold
          heap,   \* who the driver allocated each address for
          closed, \* slzDestroy has run
          refreed \* a pointer left by a failed growth was freed (history)

vars == <<ptr, size, heap, closed, refreed>>

Init == /\ ptr = [b \in Buffers |-> Null]
        /\ size = [b \in Buffers |-> 0]
        /\ heap = [a \in Addresses |-> Free]
        /\ closed = FALSE
        /\ refreed = FALSE

\* The heap after cuMemFree of these pointers.  The driver knows addresses,
\* not owners; its result is dropped.
Without(pointers) == [a \in Addresses |-> IF a \in pointers THEN Free ELSE heap[a]]

\* Free the blocks of a group of buffers.
FreeOf(group) ==
    refreed' = (refreed \/ \E b \in group : ptr[b] # Null /\ size[b] = 0)

TooSmall(b, needed) == size[b] < needed

\* Mutant: the old block is not freed.
Grow_KeepsOld(b, needed) ==
    /\ ~closed
    /\ FreeOf({b})
    /\ TooSmall(b, needed)
    /\ \E a \in Addresses : /\ heap[a] = Free
                            /\ heap' = [heap EXCEPT ![a] = b]
                            /\ ptr' = [ptr EXCEPT ![b] = a]
    /\ size' = [size EXCEPT ![b] = needed]
    /\ UNCHANGED closed

\* Grow b: free the old block, forget its size, allocate.
Grow(b, needed) ==
    /\ ~closed
    /\ FreeOf({b})
    /\ TooSmall(b, needed)
    /\ \E a \in Addresses :
          /\ Without({ptr[b]})[a] = Free
          /\ heap' = [Without({ptr[b]}) EXCEPT ![a] = b]
          /\ ptr' = [ptr EXCEPT ![b] = a]
    /\ size' = [size EXCEPT ![b] = needed]
    /\ UNCHANGED closed

\* Mutant: the size is only written after a successful allocation.
GrowFails_KeepsSize(b, needed) ==
    /\ ~closed
    /\ FreeOf({b})
    /\ TooSmall(b, needed)
    /\ AllocFails
    /\ heap' = Without({ptr[b]})
    /\ UNCHANGED <<ptr, size, closed>>

\* The allocation fails: the pointer keeps the address that was freed.
GrowFails(b, needed) ==
    /\ ~closed
    /\ FreeOf({b})
    /\ TooSmall(b, needed)
    /\ AllocFails
    /\ heap' = Without({ptr[b]})
    /\ size' = [size EXCEPT ![b] = 0]
    /\ UNCHANGED <<ptr, closed>>

\* Zero the pointers and sizes of a group of buffers.
Forget(group) ==
    /\ ptr' = [b \in Buffers |-> IF b \in group THEN Null ELSE ptr[b]]
    /\ size' = [b \in Buffers |-> IF b \in group THEN 0 ELSE size[b]]

\* releaseDeviceBuffers between an encode and a decode
TrimEncoder ==
    /\ ~closed
    /\ FreeOf(Trimmed)
    /\ heap' = Without({ptr[b] : b \in Trimmed})
    /\ Forget(Trimmed)
    /\ UNCHANGED closed

\* slzDestroy: deinit of both contexts on the calling thread.  cuMemFree
\* without a current context fails, and its result is dropped.
Destroy ==
    /\ ~closed
    /\ FreeOf(Buffers \ Kept)
    /\ heap' \in {Without({ptr[b] : b \in Buffers \ Kept})}
                 \cup (IF UnboundDestroy THEN {heap} ELSE {})
    /\ Forget(Buffers \ Kept)
    /\ closed' = TRUE

\* The application's own cuMemAlloc and cuMemFree
AppAllocates == \E a \in Addresses : /\ heap[a] = Free
                                     /\ heap' = [heap EXCEPT ![a] = App]
                                     /\ UNCHANGED <<ptr, size, closed, refreed>>
AppFrees == \E a \in Addresses : /\ heap[a] = App
                                 /\ heap' = [heap EXCEPT ![a] = Free]
                                 /\ UNCHANGED <<ptr, size, closed, refreed>>

Library == \/ \E b \in Buffers, needed \in Sizes : Grow(b, needed) \/ GrowFails(b, needed)
           \/ TrimEncoder \/ Destroy

Next == Library \/ AppAllocates \/ AppFrees
Spec == Init /\ [][Next]_vars

-----------------------------------------------------------------------------
TypeOK ==
    /\ ptr \in [Buffers -> Addresses \cup {Null}]
    /\ size \in [Buffers -> Sizes \cup {0}]
    /\ heap \in [Addresses -> Buffers \cup {App, Free}]
    /\ closed \in BOOLEAN /\ refreed \in BOOLEAN
    /\ \A b \in Buffers : size[b] > 0 => ptr[b] \in Addresses

\* A kernel is only launched on buffers that were found large enough: the
\* memory behind such a buffer is its own and nobody else's, and a failed
\* growth alone does not change that.
SizedMeansOwned == ~refreed => \A b \in Buffers : size[b] > 0 => heap[ptr[b]] = b

\* No step of the library frees a block of the application, until it frees
\* the pointer of a failed growth for the second time.
OnlyRefreeHarms ==
    [][Library /\ ~refreed' => \A a \in Addresses : heap[a] = App => heap'[a] = App]_vars

\* A destroyed handle leaves on the heap only the buffers that deinit omits.
DestroyFreesItsList == closed => \A a \in Addresses : heap[a] \notin Buffers \ Kept

=============================================================================

---------------------------- MODULE LibraryInit ----------------------------
(***************************************************************************)
(* The one-shot loaders of the decode and encode drivers                    *)
(* (decode/module_loader.zig and encode/module_loader.zig, init), called by *)
(* any thread at any time.  The encode loader calls the decode loader.      *)
(*                                                                          *)
(* Each has a fast path that reads its state without the lock.  Those reads *)
(* race with the writes under the lock: a word is written whole, in program *)
(* order, and a step of the model reads one of them.                        *)
(*                                                                          *)
(* A CUDA context is current per thread.  cuCtxCreate makes the new context *)
(* current on the thread that calls it, and cuModuleLoadData loads into the *)
(* context of the calling thread.                                           *)
(***************************************************************************)
EXTENDS Naturals, FiniteSets

CONSTANTS Threads, NoThread,
          CallerContexts, \* contexts the application may have made current
          LibraryContext, \* the one cuCtxCreate returns
          NoContext,
          DriverFails     \* TRUE: any required CUDA call may fail

ASSUME ThreadsAssumption == NoThread \notin Threads
ASSUME ContextsAssumption ==
    NoContext \notin CallerContexts \cup {LibraryContext} /\ LibraryContext \notin CallerContexts
ASSUME FlagsAssumption == DriverFails \in BOOLEAN

VARIABLES initState,   \* cuda.init_state
          ctx,         \* cuda.ctx
          loaded,      \* what the decode bring-up has resolved
          lock,        \* holder of g_init_lock
          initialized, \* the encode latch
          encLoaded,   \* what the encode bring-up has resolved; lz is kernel_fn
          encContext,  \* the context its modules were loaded into
          encLock,     \* holder of g_encode_init_lock
          current,     \* each thread's current context
          pc,          \* where each thread is
          forEncoder,  \* its decode init() was called by the encode init()
          broken,      \* a CUDA call has failed by itself (history)
          early,       \* a decode call was made without a handle (history)
          told, encTold  \* the answers of each loader so far

decoder == <<initState, ctx, loaded, lock, told>>
encoder == <<initialized, encLoaded, encContext, encLock, encTold>>
vars == <<decoder, encoder, current, pc, forEncoder, broken, early>>

Contexts == CallerContexts \cup {LibraryContext}
Verdict(available) == IF available THEN "available" ELSE "unavailable"

\* Where a thread is while it holds g_init_lock, and g_encode_init_lock.
BringUp == {"driver", "context", "lz", "huff", "stream"}
InDecodeLock == BringUp \cup {"dec_unlock"}
InDecode == {"dec_ready", "dec_failed", "dec_lock"} \cup InDecodeLock
InEncode == {"enc_load", "enc_optional", "enc_latch", "enc_unlock"}
HoldsEncLock(t) == pc[t] \in InEncode \/ (pc[t] \in InDecode /\ forEncoder[t])

Init ==
    /\ initState = "uninit" /\ ctx = NoContext /\ loaded = {} /\ lock = NoThread
    /\ initialized = FALSE /\ encLoaded = {} /\ encContext = NoContext /\ encLock = NoThread
    /\ current \in [Threads -> CallerContexts \cup {NoContext}]
    /\ pc = [t \in Threads |-> "idle"]
    /\ forEncoder = [t \in Threads |-> FALSE]
    /\ broken = FALSE /\ early = FALSE /\ told = {} /\ encTold = {}

At(t, here, there) == pc[t] = here /\ pc' = [pc EXCEPT ![t] = there]

-----------------------------------------------------------------------------
(* decode/module_loader.zig, init                                           *)
(***************************************************************************)
\* Any decode call.  Through the C API it needs a handle, and slzCreate gives
\* one out only after the encode loader has answered TRUE; the CLI and the
\* tests call the decoder without one.
CallDecode(t) ==
    /\ At(t, "idle", "dec_ready")
    /\ early' = (early \/ "available" \notin encTold)
    /\ forEncoder' = [forEncoder EXCEPT ![t] = FALSE]
    /\ UNCHANGED <<decoder, encoder, current, broken>>

\* init() returns `available`: to the caller, or into the encode init.
Return(t, available) ==
    /\ IF forEncoder[t]
       THEN pc' = [pc EXCEPT ![t] = IF available THEN "enc_load" ELSE "enc_latch"]
       ELSE pc' = [pc EXCEPT ![t] = "idle"]
    /\ told' = told \cup {Verdict(available)}

\* Mutant: a bring-up in progress passes for a finished one.
FastReady_Started == initState \in {"in_progress", "ready"}
FastReady == initState = "ready"

\* The fast path, two reads of init_state.
ReadReady(t) ==
    /\ pc[t] = "dec_ready"
    /\ IF FastReady THEN Return(t, TRUE)
       ELSE pc' = [pc EXCEPT ![t] = "dec_failed"] /\ UNCHANGED told
    /\ UNCHANGED <<initState, ctx, loaded, lock, encoder, current, forEncoder, broken, early>>

ReadFailed(t) ==
    /\ pc[t] = "dec_failed"
    /\ IF initState = "failed" THEN Return(t, FALSE)
       ELSE pc' = [pc EXCEPT ![t] = "dec_lock"] /\ UNCHANGED told
    /\ UNCHANGED <<initState, ctx, loaded, lock, encoder, current, forEncoder, broken, early>>

\* Mutant: the state is not looked at again under the lock.
NeedsBringUp_Always == TRUE
NeedsBringUp == initState = "uninit"

\* Mutant: one lock for both loaders.
LockFree_Shared == lock = NoThread /\ encLock = NoThread
LockFree == lock = NoThread

\* Lock, look again; `.failed` and `.in_progress` both answer FALSE.
Acquire(t) ==
    /\ LockFree
    /\ lock' = t
    /\ IF NeedsBringUp
       THEN At(t, "dec_lock", "driver") /\ initState' = "in_progress"
       ELSE At(t, "dec_lock", "dec_unlock") /\ UNCHANGED initState
    /\ UNCHANGED <<ctx, loaded, told, encoder, current, forEncoder, broken, early>>

\* LoadLibrary, cuInit, cuDeviceGet
OpenDriver(t) ==
    /\ At(t, "driver", "context")
    /\ UNCHANGED <<decoder, encoder, current, forEncoder, broken, early>>

\* Mutant: a context of its own, not made current (the primary context).
TakeContext_Primary(t) ==
    /\ At(t, "context", "lz")
    /\ ctx' = LibraryContext
    /\ UNCHANGED <<initState, loaded, lock, told, current, encoder, forEncoder, broken, early>>

\* The context the caller has current, else a new one.
TakeContext(t) ==
    /\ At(t, "context", "lz")
    /\ ctx' = IF current[t] # NoContext THEN current[t] ELSE LibraryContext
    /\ current' = [current EXCEPT ![t] = ctx']
    /\ UNCHANGED <<initState, loaded, lock, told, encoder, forEncoder, broken, early>>

LoadLz(t) ==
    /\ At(t, "lz", "huff")
    /\ loaded' = loaded \cup {"lz"}
    /\ UNCHANGED <<initState, ctx, lock, told, encoder, current, forEncoder, broken, early>>

\* Huffman kernels are optional.
LoadHuff(t) ==
    /\ At(t, "huff", "stream")
    /\ loaded' \in {loaded, loaded \cup {"huff"}}
    /\ UNCHANGED <<initState, ctx, lock, told, encoder, current, forEncoder, broken, early>>

\* ensurePipelineStream on the default context, then `.ready`.
CreateStream(t) ==
    /\ At(t, "stream", "dec_unlock")
    /\ loaded' = loaded \cup {"stream"}
    /\ initState' = "ready"
    /\ UNCHANGED <<ctx, lock, told, encoder, current, forEncoder, broken, early>>

\* Mutant: the early returns leave `.in_progress` behind.
StateAfterFailure_Kept == initState
StateAfterFailure == "failed"

\* Any other way out of the bring-up: SLZ_NO_CUDA, a missing symbol, or a
\* call that fails.  The huff module and a context taken over cannot fail.
BringUpFails(t) ==
    /\ DriverFails
    /\ pc[t] \in BringUp \ {"huff"}
    /\ pc[t] = "context" => current[t] = NoContext
    /\ pc' = [pc EXCEPT ![t] = "dec_unlock"]
    /\ initState' = StateAfterFailure
    /\ broken' = TRUE
    /\ UNCHANGED <<ctx, loaded, lock, told, encoder, current, forEncoder, early>>

Release(t) ==
    /\ pc[t] = "dec_unlock"
    /\ lock' = NoThread
    /\ Return(t, initState = "ready")
    /\ UNCHANGED <<initState, ctx, loaded, encoder, current, forEncoder, broken, early>>

-----------------------------------------------------------------------------
(* encode/module_loader.zig, init                                           *)
(***************************************************************************)
CallEncode(t) ==
    /\ At(t, "idle", "enc_fast")
    /\ UNCHANGED <<decoder, encoder, current, forEncoder, broken, early>>

\* The fast path reads the latch, then kernel_fn.
EncFast(t) ==
    /\ At(t, "enc_fast", IF initialized THEN "enc_result" ELSE "enc_lock")
    /\ UNCHANGED <<decoder, encoder, current, forEncoder, broken, early>>

EncResult(t) ==
    /\ At(t, "enc_result", "idle")
    /\ encTold' = encTold \cup {Verdict("lz" \in encLoaded)}
    /\ UNCHANGED <<decoder, initialized, encLoaded, encContext, encLock, current, forEncoder, broken, early>>

\* Mutant: the latch is set before the work, as it once was.
LatchOnEntry_Early == TRUE
LatchOnEntry == initialized

EncAcquire(t) ==
    /\ encLock = NoThread
    /\ encLock' = t
    /\ IF initialized
       THEN At(t, "enc_lock", "enc_unlock") /\ UNCHANGED forEncoder
       ELSE At(t, "enc_lock", "dec_ready") /\ forEncoder' = [forEncoder EXCEPT ![t] = TRUE]
    /\ initialized' = LatchOnEntry
    /\ UNCHANGED <<decoder, encLoaded, encContext, encTold, current, broken, early>>

EncLoadLz(t) ==
    /\ At(t, "enc_load", "enc_optional")
    /\ current[t] # NoContext
    /\ encLoaded' = encLoaded \cup {"lz"}
    /\ encContext' = current[t]
    /\ UNCHANGED <<decoder, initialized, encLock, encTold, current, forEncoder, broken, early>>

\* cuModuleLoadData fails by itself, or because no context is current here.
EncLoadFails(t) ==
    /\ At(t, "enc_load", "enc_latch")
    /\ DriverFails \/ current[t] = NoContext
    /\ broken' = (broken \/ current[t] # NoContext)
    /\ UNCHANGED <<decoder, encoder, current, forEncoder, early>>

\* The Huffman and frame-assembly modules are optional.
EncLoadOptional(t) ==
    /\ At(t, "enc_optional", "enc_latch")
    /\ \E some \in SUBSET {"huff", "assemble"} : encLoaded' = encLoaded \cup some
    /\ UNCHANGED <<decoder, initialized, encContext, encLock, encTold, current, forEncoder, broken, early>>

EncLatch(t) ==
    /\ At(t, "enc_latch", "enc_unlock")
    /\ initialized' = TRUE
    /\ UNCHANGED <<decoder, encLoaded, encContext, encLock, encTold, current, forEncoder, broken, early>>

EncRelease(t) ==
    /\ At(t, "enc_unlock", "idle")
    /\ encLock' = NoThread
    /\ encTold' = encTold \cup {Verdict("lz" \in encLoaded)}
    /\ UNCHANGED <<decoder, initialized, encLoaded, encContext, current, forEncoder, broken, early>>

\* bindContextToCallingThread, by a worker or an asynchronous call
Bind(t) ==
    /\ pc[t] = "idle"
    /\ ctx # NoContext
    /\ early' = (early \/ "available" \notin encTold)
    /\ current' = [current EXCEPT ![t] = ctx]
    /\ UNCHANGED <<decoder, encoder, pc, forEncoder, broken>>

-----------------------------------------------------------------------------
\* What a thread does inside a call; it calls whenever it likes.
Inside(t) ==
    \/ ReadReady(t) \/ ReadFailed(t) \/ Acquire(t)
    \/ OpenDriver(t) \/ TakeContext(t) \/ LoadLz(t) \/ LoadHuff(t) \/ CreateStream(t)
    \/ BringUpFails(t) \/ Release(t)
    \/ EncFast(t) \/ EncResult(t) \/ EncAcquire(t)
    \/ EncLoadLz(t) \/ EncLoadFails(t) \/ EncLoadOptional(t) \/ EncLatch(t) \/ EncRelease(t)

Next == \E t \in Threads : CallDecode(t) \/ CallEncode(t) \/ Bind(t) \/ Inside(t)

Spec == Init /\ [][Next]_vars

\* A thread inside a call keeps running.
FairSpec == Spec /\ \A t \in Threads : WF_vars(Inside(t))

-----------------------------------------------------------------------------
TypeOK ==
    /\ initState \in {"uninit", "in_progress", "ready", "failed"}
    /\ ctx \in Contexts \cup {NoContext}
    /\ loaded \subseteq {"lz", "huff", "stream"}
    /\ lock \in Threads \cup {NoThread} /\ encLock \in Threads \cup {NoThread}
    /\ initialized \in BOOLEAN /\ broken \in BOOLEAN /\ early \in BOOLEAN
    /\ encLoaded \subseteq {"lz", "huff", "assemble"}
    /\ encContext \in (IF encLoaded = {} THEN {NoContext} ELSE Contexts)
    /\ current \in [Threads -> Contexts \cup {NoContext}]
    /\ pc \in [Threads -> {"idle", "enc_fast", "enc_result", "enc_lock"} \cup InDecode \cup InEncode]
    /\ forEncoder \in [Threads -> BOOLEAN]
    /\ told \subseteq {"available", "unavailable"} /\ encTold \subseteq {"available", "unavailable"}

\* Late arrivals block until the winner has settled the state and then read
\* the real result (decode/module_loader.zig:58): the decode loader decides
\* once, answers nobody before, and answers everybody alike.
decodeVerdict == CASE initState = "ready" -> "available"
                   [] initState = "failed" -> "unavailable"
                   [] OTHER -> "undecided"
Decode == INSTANCE Availability WITH verdict <- decodeVerdict, told <- told
DecodeDecidesOnce == Decode!Spec

\* The same of the encode loader, whose unlocked fast path reads two words
\* (encode/module_loader.zig:73: "can never observe a torn state").
encodeVerdict == IF initialized THEN Verdict("lz" \in encLoaded) ELSE "undecided"
Encode == INSTANCE Availability WITH verdict <- encodeVerdict, told <- encTold
EncodeDecidesOnce == Encode!Spec

\* A caller that was told TRUE finds everything it goes on to use: decode
\* calls launch kernel_fn on a stream of ctx, encode calls use both drivers.
AvailableIsComplete ==
    /\ "available" \in told => ctx # NoContext /\ {"lz", "stream"} \subseteq loaded
    /\ "available" \in encTold => "lz" \in encLoaded /\ "available" \in told

\* Handles that a launch reads without a lock never change once the loader
\* has settled, and the context of the process never changes at all.
SettledIsFinal ==
    [][/\ initState \in {"ready", "failed"} => UNCHANGED <<initState, loaded>>
       /\ initialized => UNCHANGED <<initialized, encLoaded>>
       /\ ctx # NoContext => UNCHANGED ctx]_vars

\* The encoder reuses the context of the decode driver
\* (encode/module_loader.zig:9 and 76): unless a CUDA call failed by itself,
\* it is available exactly when the decoder is, with its modules in ctx.
EncoderSharesContext ==
    initialized /\ ~broken => initState = "ready" /\ "lz" \in encLoaded /\ encContext = ctx

\* It does as long as every decode call has a handle, as in the C API.
HandlesShareContext == ~early => EncoderSharesContext

\* Whatever the threads do, a call of either loader returns: the two locks
\* are always taken in the same order, and a settled loader takes none.
EveryCallReturns == \A t \in Threads : pc[t] # "idle" ~> pc[t] = "idle"
=============================================================================

------------------------- MODULE LibraryInitProofs -------------------------
(***************************************************************************)
(* Proofs about the one-shot loaders for any number of threads.             *)
(*                                                                          *)
(* The argument: whoever is between acquire and release holds the lock, so  *)
(* one thread at a time is in a bring-up (Locks); the state is in_progress  *)
(* exactly while one is, and the handles a later stage needs have been set  *)
(* by the earlier ones (Progress); an answer is only given by a settled     *)
(* state, which never changes again (Answers).                              *)
(***************************************************************************)
EXTENDS LibraryInit, TLAPS

Locks == \A t \in Threads : /\ pc[t] \in InDecodeLock <=> lock = t
                            /\ HoldsEncLock(t) <=> encLock = t

Progress ==
    /\ initState = "in_progress" <=> \E t \in Threads : pc[t] \in BringUp
    /\ \A t \in Threads :
          /\ pc[t] \in {"driver", "context"} => ctx = NoContext
          /\ pc[t] \in {"lz", "huff", "stream"} => ctx # NoContext
          /\ pc[t] \in {"huff", "stream"} => "lz" \in loaded
          /\ pc[t] = "dec_unlock" => initState \in {"ready", "failed"}
    /\ initState = "uninit" => ctx = NoContext /\ loaded = {}
    /\ initState = "ready" => ctx # NoContext /\ {"lz", "stream"} \subseteq loaded

EncProgress ==
    /\ \A t \in Threads :
          /\ pc[t] \in {"enc_load", "enc_optional"} => "available" \in told
          /\ pc[t] = "enc_optional" => "lz" \in encLoaded
          /\ pc[t] \in InEncode \ {"enc_unlock"} => ~initialized
          /\ pc[t] \in InDecode /\ forEncoder[t] => ~initialized
          /\ pc[t] \in {"enc_result", "enc_unlock"} => initialized
          /\ pc[t] = "enc_load" => encLoaded = {}
          /\ pc[t] \in InDecode /\ forEncoder[t] => encLoaded = {}
    /\ encLock = NoThread /\ ~initialized => encLoaded = {}
    /\ encLoaded # {} => "lz" \in encLoaded
    /\ "lz" \in encLoaded => "available" \in told

Answers ==
    /\ "available" \in told => initState = "ready"
    /\ "unavailable" \in told => initState = "failed"
    /\ encTold # {} => initialized
    /\ "available" \in encTold => "lz" \in encLoaded
    /\ "unavailable" \in encTold => "lz" \notin encLoaded

IInv == TypeOK /\ Locks /\ Progress /\ EncProgress /\ Answers

\* Where a thread can be
Points == {"idle", "enc_fast", "enc_result", "enc_lock"} \cup InDecode \cup InEncode

-----------------------------------------------------------------------------
\* The loaders start with nothing settled and nobody in a lock.
LEMMA InitInv == Init => IInv
BY ThreadsAssumption, ContextsAssumption
   DEF Init, IInv, TypeOK, Locks, Progress, EncProgress, Answers, Contexts,
       BringUp, InDecodeLock, InDecode, InEncode, HoldsEncLock

\* The types hold in every step; encContext needs EncProgress.
LEMMA TypeStep ==
  ASSUME IInv, [Next]_vars
  PROVE  TypeOK'
<1>. USE ThreadsAssumption, ContextsAssumption DEF BringUp, InDecodeLock, InDecode, InEncode, HoldsEncLock, Contexts, decoder, encoder
<1>1. TypeOK /\ EncProgress
  BY DEF IInv
<1>2. ASSUME NEW t \in Threads, CallDecode(t) PROVE TypeOK'
  BY <1>1, <1>2 DEF TypeOK, EncProgress, CallDecode, At
<1>3. ASSUME NEW t \in Threads, CallEncode(t) PROVE TypeOK'
  BY <1>1, <1>3 DEF TypeOK, EncProgress, CallEncode, At
<1>4. ASSUME NEW t \in Threads, Bind(t) PROVE TypeOK'
  BY <1>1, <1>4 DEF TypeOK, EncProgress, Bind
<1>5. ASSUME NEW t \in Threads, ReadReady(t) PROVE TypeOK'
  <2>1. UNCHANGED <<initState, ctx, loaded, lock, encoder, current, forEncoder, broken, early>>
    BY <1>5 DEF ReadReady
  <2>2. told' \subseteq {"available", "unavailable"} /\ \E l \in Points : pc' = [pc EXCEPT ![t] = l]
    BY <1>1, <1>5 DEF TypeOK, ReadReady, Return, FastReady, Verdict, Points
  <2>3. pc' \in [Threads -> Points]
    BY <1>1, <2>2 DEF TypeOK, Points
  <2>. QED  BY <1>1, <2>1, <2>2, <2>3 DEF TypeOK, Points
<1>6. ASSUME NEW t \in Threads, ReadFailed(t) PROVE TypeOK'
  <2>1. UNCHANGED <<initState, ctx, loaded, lock, encoder, current, forEncoder, broken, early>>
    BY <1>6 DEF ReadFailed
  <2>2. told' \subseteq {"available", "unavailable"} /\ \E l \in Points : pc' = [pc EXCEPT ![t] = l]
    BY <1>1, <1>6 DEF TypeOK, ReadFailed, Return, Verdict, Points
  <2>3. pc' \in [Threads -> Points]
    BY <1>1, <2>2 DEF TypeOK, Points
  <2>. QED  BY <1>1, <2>1, <2>2, <2>3 DEF TypeOK, Points
<1>7. ASSUME NEW t \in Threads, Acquire(t) PROVE TypeOK'
  BY <1>1, <1>7 DEF TypeOK, EncProgress, Acquire, At, NeedsBringUp, LockFree
<1>8. ASSUME NEW t \in Threads, OpenDriver(t) PROVE TypeOK'
  BY <1>1, <1>8 DEF TypeOK, EncProgress, OpenDriver, At
<1>9. ASSUME NEW t \in Threads, TakeContext(t) PROVE TypeOK'
  BY <1>1, <1>9 DEF TypeOK, EncProgress, TakeContext, At
<1>10. ASSUME NEW t \in Threads, LoadLz(t) PROVE TypeOK'
  BY <1>1, <1>10 DEF TypeOK, EncProgress, LoadLz, At
<1>11. ASSUME NEW t \in Threads, LoadHuff(t) PROVE TypeOK'
  BY <1>1, <1>11 DEF TypeOK, EncProgress, LoadHuff, At
<1>12. ASSUME NEW t \in Threads, CreateStream(t) PROVE TypeOK'
  BY <1>1, <1>12 DEF TypeOK, EncProgress, CreateStream, At
<1>13. ASSUME NEW t \in Threads, BringUpFails(t) PROVE TypeOK'
  BY <1>1, <1>13 DEF TypeOK, EncProgress, BringUpFails, StateAfterFailure
<1>14. ASSUME NEW t \in Threads, Release(t) PROVE TypeOK'
  BY <1>1, <1>14 DEF TypeOK, EncProgress, Release, Return, Verdict
<1>15. ASSUME NEW t \in Threads, EncFast(t) PROVE TypeOK'
  BY <1>1, <1>15 DEF TypeOK, EncProgress, EncFast, At
<1>16. ASSUME NEW t \in Threads, EncResult(t) PROVE TypeOK'
  BY <1>1, <1>16 DEF TypeOK, EncProgress, EncResult, At, Verdict
<1>17. ASSUME NEW t \in Threads, EncAcquire(t) PROVE TypeOK'
  BY <1>1, <1>17 DEF TypeOK, EncProgress, EncAcquire, At, LatchOnEntry
<1>18. ASSUME NEW t \in Threads, EncLoadLz(t) PROVE TypeOK'
  BY <1>1, <1>18 DEF TypeOK, EncProgress, EncLoadLz, At
<1>19. ASSUME NEW t \in Threads, EncLoadFails(t) PROVE TypeOK'
  BY <1>1, <1>19 DEF TypeOK, EncProgress, EncLoadFails, At
<1>20. ASSUME NEW t \in Threads, EncLoadOptional(t) PROVE TypeOK'
  BY <1>1, <1>20 DEF TypeOK, EncProgress, EncLoadOptional, At
<1>21. ASSUME NEW t \in Threads, EncLatch(t) PROVE TypeOK'
  BY <1>1, <1>21 DEF TypeOK, EncProgress, EncLatch, At
<1>22. ASSUME NEW t \in Threads, EncRelease(t) PROVE TypeOK'
  BY <1>1, <1>22 DEF TypeOK, EncProgress, EncRelease, At, Verdict
<1>23. CASE UNCHANGED vars
  BY <1>1, <1>23 DEF TypeOK, EncProgress, vars
<1>. QED  BY <1>2, <1>3, <1>4, <1>5, <1>6, <1>7, <1>8, <1>9, <1>10, <1>11, <1>12, <1>13, <1>14, <1>15, <1>16, <1>17, <1>18, <1>19, <1>20, <1>21, <1>22, <1>23 DEF Next, Inside

\* Only the acquire and release steps move a thread in or out of a lock.
LEMMA LocksStep ==
  ASSUME IInv, [Next]_vars
  PROVE  Locks'
<1>. USE ThreadsAssumption, ContextsAssumption DEF BringUp, InDecodeLock, InDecode, InEncode, HoldsEncLock, Contexts, decoder, encoder
<1>1. TypeOK /\ Locks
  BY DEF IInv
<1>2. ASSUME NEW t \in Threads, CallDecode(t) PROVE Locks'
  BY <1>1, <1>2 DEF TypeOK, Locks, CallDecode, At
<1>3. ASSUME NEW t \in Threads, CallEncode(t) PROVE Locks'
  BY <1>1, <1>3 DEF TypeOK, Locks, CallEncode, At
<1>4. ASSUME NEW t \in Threads, Bind(t) PROVE Locks'
  BY <1>1, <1>4 DEF TypeOK, Locks, Bind
<1>5. ASSUME NEW t \in Threads, ReadReady(t) PROVE Locks'
  BY <1>1, <1>5 DEF TypeOK, Locks, ReadReady, Return, FastReady, Verdict
<1>6. ASSUME NEW t \in Threads, ReadFailed(t) PROVE Locks'
  BY <1>1, <1>6 DEF TypeOK, Locks, ReadFailed, Return, Verdict
<1>7. ASSUME NEW t \in Threads, Acquire(t) PROVE Locks'
  BY <1>1, <1>7 DEF TypeOK, Locks, Acquire, At, NeedsBringUp, LockFree
<1>8. ASSUME NEW t \in Threads, OpenDriver(t) PROVE Locks'
  BY <1>1, <1>8 DEF TypeOK, Locks, OpenDriver, At
<1>9. ASSUME NEW t \in Threads, TakeContext(t) PROVE Locks'
  BY <1>1, <1>9 DEF TypeOK, Locks, TakeContext, At
<1>10. ASSUME NEW t \in Threads, LoadLz(t) PROVE Locks'
  BY <1>1, <1>10 DEF TypeOK, Locks, LoadLz, At
<1>11. ASSUME NEW t \in Threads, LoadHuff(t) PROVE Locks'
  BY <1>1, <1>11 DEF TypeOK, Locks, LoadHuff, At
<1>12. ASSUME NEW t \in Threads, CreateStream(t) PROVE Locks'
  BY <1>1, <1>12 DEF TypeOK, Locks, CreateStream, At
<1>13. ASSUME NEW t \in Threads, BringUpFails(t) PROVE Locks'
  BY <1>1, <1>13 DEF TypeOK, Locks, BringUpFails, StateAfterFailure
<1>14. ASSUME NEW t \in Threads, Release(t) PROVE Locks'
  BY <1>1, <1>14 DEF TypeOK, Locks, Release, Return, Verdict
<1>15. ASSUME NEW t \in Threads, EncFast(t) PROVE Locks'
  BY <1>1, <1>15 DEF TypeOK, Locks, EncFast, At
<1>16. ASSUME NEW t \in Threads, EncResult(t) PROVE Locks'
  BY <1>1, <1>16 DEF TypeOK, Locks, EncResult, At, Verdict
<1>17. ASSUME NEW t \in Threads, EncAcquire(t) PROVE Locks'
  BY <1>1, <1>17 DEF TypeOK, Locks, EncAcquire, At, LatchOnEntry
<1>18. ASSUME NEW t \in Threads, EncLoadLz(t) PROVE Locks'
  BY <1>1, <1>18 DEF TypeOK, Locks, EncLoadLz, At
<1>19. ASSUME NEW t \in Threads, EncLoadFails(t) PROVE Locks'
  BY <1>1, <1>19 DEF TypeOK, Locks, EncLoadFails, At
<1>20. ASSUME NEW t \in Threads, EncLoadOptional(t) PROVE Locks'
  BY <1>1, <1>20 DEF TypeOK, Locks, EncLoadOptional, At
<1>21. ASSUME NEW t \in Threads, EncLatch(t) PROVE Locks'
  BY <1>1, <1>21 DEF TypeOK, Locks, EncLatch, At
<1>22. ASSUME NEW t \in Threads, EncRelease(t) PROVE Locks'
  BY <1>1, <1>22 DEF TypeOK, Locks, EncRelease, At, Verdict
<1>23. CASE UNCHANGED vars
  BY <1>1, <1>23 DEF TypeOK, Locks, vars
<1>. QED  BY <1>2, <1>3, <1>4, <1>5, <1>6, <1>7, <1>8, <1>9, <1>10, <1>11, <1>12, <1>13, <1>14, <1>15, <1>16, <1>17, <1>18, <1>19, <1>20, <1>21, <1>22, <1>23 DEF Next, Inside

\* The bring-up sets each handle before the stage that relies on it.
LEMMA ProgressStep ==
  ASSUME IInv, [Next]_vars
  PROVE  Progress'
<1>. USE ThreadsAssumption, ContextsAssumption DEF BringUp, InDecodeLock, InDecode, InEncode, HoldsEncLock, Contexts, decoder, encoder
<1>1. TypeOK /\ Locks /\ Progress
  BY DEF IInv
<1>2. ASSUME NEW t \in Threads, CallDecode(t) PROVE Progress'
  BY <1>1, <1>2 DEF TypeOK, Locks, Progress, CallDecode, At
<1>3. ASSUME NEW t \in Threads, CallEncode(t) PROVE Progress'
  BY <1>1, <1>3 DEF TypeOK, Locks, Progress, CallEncode, At
<1>4. ASSUME NEW t \in Threads, Bind(t) PROVE Progress'
  BY <1>1, <1>4 DEF TypeOK, Locks, Progress, Bind
<1>5. ASSUME NEW t \in Threads, ReadReady(t) PROVE Progress'
  BY <1>1, <1>5 DEF TypeOK, Locks, Progress, ReadReady, Return, FastReady, Verdict
<1>6. ASSUME NEW t \in Threads, ReadFailed(t) PROVE Progress'
  BY <1>1, <1>6 DEF TypeOK, Locks, Progress, ReadFailed, Return, Verdict
<1>7. ASSUME NEW t \in Threads, Acquire(t) PROVE Progress'
  BY <1>1, <1>7 DEF TypeOK, Locks, Progress, Acquire, At, NeedsBringUp, LockFree
<1>8. ASSUME NEW t \in Threads, OpenDriver(t) PROVE Progress'
  BY <1>1, <1>8 DEF TypeOK, Locks, Progress, OpenDriver, At
<1>9. ASSUME NEW t \in Threads, TakeContext(t) PROVE Progress'
  BY <1>1, <1>9 DEF TypeOK, Locks, Progress, TakeContext, At
<1>10. ASSUME NEW t \in Threads, LoadLz(t) PROVE Progress'
  BY <1>1, <1>10 DEF TypeOK, Locks, Progress, LoadLz, At
<1>11. ASSUME NEW t \in Threads, LoadHuff(t) PROVE Progress'
  BY <1>1, <1>11 DEF TypeOK, Locks, Progress, LoadHuff, At
<1>12. ASSUME NEW t \in Threads, CreateStream(t) PROVE Progress'
  BY <1>1, <1>12 DEF TypeOK, Locks, Progress, CreateStream, At
<1>13. ASSUME NEW t \in Threads, BringUpFails(t) PROVE Progress'
  BY <1>1, <1>13 DEF TypeOK, Locks, Progress, BringUpFails, StateAfterFailure
<1>14. ASSUME NEW t \in Threads, Release(t) PROVE Progress'
  BY <1>1, <1>14 DEF TypeOK, Locks, Progress, Release, Return, Verdict
<1>15. ASSUME NEW t \in Threads, EncFast(t) PROVE Progress'
  BY <1>1, <1>15 DEF TypeOK, Locks, Progress, EncFast, At
<1>16. ASSUME NEW t \in Threads, EncResult(t) PROVE Progress'
  BY <1>1, <1>16 DEF TypeOK, Locks, Progress, EncResult, At, Verdict
<1>17. ASSUME NEW t \in Threads, EncAcquire(t) PROVE Progress'
  BY <1>1, <1>17 DEF TypeOK, Locks, Progress, EncAcquire, At, LatchOnEntry
<1>18. ASSUME NEW t \in Threads, EncLoadLz(t) PROVE Progress'
  BY <1>1, <1>18 DEF TypeOK, Locks, Progress, EncLoadLz, At
<1>19. ASSUME NEW t \in Threads, EncLoadFails(t) PROVE Progress'
  BY <1>1, <1>19 DEF TypeOK, Locks, Progress, EncLoadFails, At
<1>20. ASSUME NEW t \in Threads, EncLoadOptional(t) PROVE Progress'
  BY <1>1, <1>20 DEF TypeOK, Locks, Progress, EncLoadOptional, At
<1>21. ASSUME NEW t \in Threads, EncLatch(t) PROVE Progress'
  BY <1>1, <1>21 DEF TypeOK, Locks, Progress, EncLatch, At
<1>22. ASSUME NEW t \in Threads, EncRelease(t) PROVE Progress'
  BY <1>1, <1>22 DEF TypeOK, Locks, Progress, EncRelease, At, Verdict
<1>23. CASE UNCHANGED vars
  BY <1>1, <1>23 DEF TypeOK, Locks, Progress, vars
<1>. QED  BY <1>2, <1>3, <1>4, <1>5, <1>6, <1>7, <1>8, <1>9, <1>10, <1>11, <1>12, <1>13, <1>14, <1>15, <1>16, <1>17, <1>18, <1>19, <1>20, <1>21, <1>22, <1>23 DEF Next, Inside

\* The same for the encode loader, whose answers rest on the decoder's.
LEMMA EncProgressStep ==
  ASSUME IInv, [Next]_vars
  PROVE  EncProgress'
<1>. USE ThreadsAssumption, ContextsAssumption DEF BringUp, InDecodeLock, InDecode, InEncode, HoldsEncLock, Contexts, decoder, encoder
<1>1. TypeOK /\ Locks /\ EncProgress /\ Answers /\ Progress
  BY DEF IInv
<1>2. ASSUME NEW t \in Threads, CallDecode(t) PROVE EncProgress'
  BY <1>1, <1>2 DEF TypeOK, Locks, EncProgress, Answers, Progress, CallDecode, At
<1>3. ASSUME NEW t \in Threads, CallEncode(t) PROVE EncProgress'
  BY <1>1, <1>3 DEF TypeOK, Locks, EncProgress, Answers, Progress, CallEncode, At
<1>4. ASSUME NEW t \in Threads, Bind(t) PROVE EncProgress'
  BY <1>1, <1>4 DEF TypeOK, Locks, EncProgress, Answers, Progress, Bind
<1>5. ASSUME NEW t \in Threads, ReadReady(t) PROVE EncProgress'
  BY <1>1, <1>5 DEF TypeOK, Locks, EncProgress, Answers, Progress, ReadReady, Return, FastReady, Verdict
<1>6. ASSUME NEW t \in Threads, ReadFailed(t) PROVE EncProgress'
  BY <1>1, <1>6 DEF TypeOK, Locks, EncProgress, Answers, Progress, ReadFailed, Return, Verdict
<1>7. ASSUME NEW t \in Threads, Acquire(t) PROVE EncProgress'
  BY <1>1, <1>7 DEF TypeOK, Locks, EncProgress, Answers, Progress, Acquire, At, NeedsBringUp, LockFree
<1>8. ASSUME NEW t \in Threads, OpenDriver(t) PROVE EncProgress'
  BY <1>1, <1>8 DEF TypeOK, Locks, EncProgress, Answers, Progress, OpenDriver, At
<1>9. ASSUME NEW t \in Threads, TakeContext(t) PROVE EncProgress'
  BY <1>1, <1>9 DEF TypeOK, Locks, EncProgress, Answers, Progress, TakeContext, At
<1>10. ASSUME NEW t \in Threads, LoadLz(t) PROVE EncProgress'
  BY <1>1, <1>10 DEF TypeOK, Locks, EncProgress, Answers, Progress, LoadLz, At
<1>11. ASSUME NEW t \in Threads, LoadHuff(t) PROVE EncProgress'
  BY <1>1, <1>11 DEF TypeOK, Locks, EncProgress, Answers, Progress, LoadHuff, At
<1>12. ASSUME NEW t \in Threads, CreateStream(t) PROVE EncProgress'
  BY <1>1, <1>12 DEF TypeOK, Locks, EncProgress, Answers, Progress, CreateStream, At
<1>13. ASSUME NEW t \in Threads, BringUpFails(t) PROVE EncProgress'
  BY <1>1, <1>13 DEF TypeOK, Locks, EncProgress, Answers, Progress, BringUpFails, StateAfterFailure
<1>14. ASSUME NEW t \in Threads, Release(t) PROVE EncProgress'
  BY <1>1, <1>14 DEF TypeOK, Locks, EncProgress, Answers, Progress, Release, Return, Verdict
<1>15. ASSUME NEW t \in Threads, EncFast(t) PROVE EncProgress'
  BY <1>1, <1>15 DEF TypeOK, Locks, EncProgress, Answers, Progress, EncFast, At
<1>16. ASSUME NEW t \in Threads, EncResult(t) PROVE EncProgress'
  BY <1>1, <1>16 DEF TypeOK, Locks, EncProgress, Answers, Progress, EncResult, At, Verdict
<1>17. ASSUME NEW t \in Threads, EncAcquire(t) PROVE EncProgress'
  BY <1>1, <1>17 DEF TypeOK, Locks, EncProgress, Answers, Progress, EncAcquire, At, LatchOnEntry
<1>18. ASSUME NEW t \in Threads, EncLoadLz(t) PROVE EncProgress'
  BY <1>1, <1>18 DEF TypeOK, Locks, EncProgress, Answers, Progress, EncLoadLz, At
<1>19. ASSUME NEW t \in Threads, EncLoadFails(t) PROVE EncProgress'
  BY <1>1, <1>19 DEF TypeOK, Locks, EncProgress, Answers, Progress, EncLoadFails, At
<1>20. ASSUME NEW t \in Threads, EncLoadOptional(t) PROVE EncProgress'
  BY <1>1, <1>20 DEF TypeOK, Locks, EncProgress, Answers, Progress, EncLoadOptional, At
<1>21. ASSUME NEW t \in Threads, EncLatch(t) PROVE EncProgress'
  BY <1>1, <1>21 DEF TypeOK, Locks, EncProgress, Answers, Progress, EncLatch, At
<1>22. ASSUME NEW t \in Threads, EncRelease(t) PROVE EncProgress'
  BY <1>1, <1>22 DEF TypeOK, Locks, EncProgress, Answers, Progress, EncRelease, At, Verdict
<1>23. CASE UNCHANGED vars
  BY <1>1, <1>23 DEF TypeOK, Locks, EncProgress, Answers, Progress, vars
<1>. QED  BY <1>2, <1>3, <1>4, <1>5, <1>6, <1>7, <1>8, <1>9, <1>10, <1>11, <1>12, <1>13, <1>14, <1>15, <1>16, <1>17, <1>18, <1>19, <1>20, <1>21, <1>22, <1>23 DEF Next, Inside

\* Answers agree with the state that was read, and that state stays.
LEMMA AnswersStep ==
  ASSUME IInv, [Next]_vars
  PROVE  Answers'
<1>. USE ThreadsAssumption, ContextsAssumption DEF BringUp, InDecodeLock, InDecode, InEncode, HoldsEncLock, Contexts, decoder, encoder
<1>1. TypeOK /\ Locks /\ Progress /\ EncProgress /\ Answers
  BY DEF IInv
<1>2. ASSUME NEW t \in Threads, CallDecode(t) PROVE Answers'
  BY <1>1, <1>2 DEF TypeOK, Locks, Progress, EncProgress, Answers, CallDecode, At
<1>3. ASSUME NEW t \in Threads, CallEncode(t) PROVE Answers'
  BY <1>1, <1>3 DEF TypeOK, Locks, Progress, EncProgress, Answers, CallEncode, At
<1>4. ASSUME NEW t \in Threads, Bind(t) PROVE Answers'
  BY <1>1, <1>4 DEF TypeOK, Locks, Progress, EncProgress, Answers, Bind
<1>5. ASSUME NEW t \in Threads, ReadReady(t) PROVE Answers'
  BY <1>1, <1>5 DEF TypeOK, Locks, Progress, EncProgress, Answers, ReadReady, Return, FastReady, Verdict
<1>6. ASSUME NEW t \in Threads, ReadFailed(t) PROVE Answers'
  BY <1>1, <1>6 DEF TypeOK, Locks, Progress, EncProgress, Answers, ReadFailed, Return, Verdict
<1>7. ASSUME NEW t \in Threads, Acquire(t) PROVE Answers'
  BY <1>1, <1>7 DEF TypeOK, Locks, Progress, EncProgress, Answers, Acquire, At, NeedsBringUp, LockFree
<1>8. ASSUME NEW t \in Threads, OpenDriver(t) PROVE Answers'
  BY <1>1, <1>8 DEF TypeOK, Locks, Progress, EncProgress, Answers, OpenDriver, At
<1>9. ASSUME NEW t \in Threads, TakeContext(t) PROVE Answers'
  BY <1>1, <1>9 DEF TypeOK, Locks, Progress, EncProgress, Answers, TakeContext, At
<1>10. ASSUME NEW t \in Threads, LoadLz(t) PROVE Answers'
  BY <1>1, <1>10 DEF TypeOK, Locks, Progress, EncProgress, Answers, LoadLz, At
<1>11. ASSUME NEW t \in Threads, LoadHuff(t) PROVE Answers'
  BY <1>1, <1>11 DEF TypeOK, Locks, Progress, EncProgress, Answers, LoadHuff, At
<1>12. ASSUME NEW t \in Threads, CreateStream(t) PROVE Answers'
  BY <1>1, <1>12 DEF TypeOK, Locks, Progress, EncProgress, Answers, CreateStream, At
<1>13. ASSUME NEW t \in Threads, BringUpFails(t) PROVE Answers'
  BY <1>1, <1>13 DEF TypeOK, Locks, Progress, EncProgress, Answers, BringUpFails, StateAfterFailure
<1>14. ASSUME NEW t \in Threads, Release(t) PROVE Answers'
  BY <1>1, <1>14 DEF TypeOK, Locks, Progress, EncProgress, Answers, Release, Return, Verdict
<1>15. ASSUME NEW t \in Threads, EncFast(t) PROVE Answers'
  BY <1>1, <1>15 DEF TypeOK, Locks, Progress, EncProgress, Answers, EncFast, At
<1>16. ASSUME NEW t \in Threads, EncResult(t) PROVE Answers'
  BY <1>1, <1>16 DEF TypeOK, Locks, Progress, EncProgress, Answers, EncResult, At, Verdict
<1>17. ASSUME NEW t \in Threads, EncAcquire(t) PROVE Answers'
  BY <1>1, <1>17 DEF TypeOK, Locks, Progress, EncProgress, Answers, EncAcquire, At, LatchOnEntry
<1>18. ASSUME NEW t \in Threads, EncLoadLz(t) PROVE Answers'
  BY <1>1, <1>18 DEF TypeOK, Locks, Progress, EncProgress, Answers, EncLoadLz, At
<1>19. ASSUME NEW t \in Threads, EncLoadFails(t) PROVE Answers'
  BY <1>1, <1>19 DEF TypeOK, Locks, Progress, EncProgress, Answers, EncLoadFails, At
<1>20. ASSUME NEW t \in Threads, EncLoadOptional(t) PROVE Answers'
  BY <1>1, <1>20 DEF TypeOK, Locks, Progress, EncProgress, Answers, EncLoadOptional, At
<1>21. ASSUME NEW t \in Threads, EncLatch(t) PROVE Answers'
  BY <1>1, <1>21 DEF TypeOK, Locks, Progress, EncProgress, Answers, EncLatch, At
<1>22. ASSUME NEW t \in Threads, EncRelease(t) PROVE Answers'
  BY <1>1, <1>22 DEF TypeOK, Locks, Progress, EncProgress, Answers, EncRelease, At, Verdict
<1>23. CASE UNCHANGED vars
  BY <1>1, <1>23 DEF TypeOK, Locks, Progress, EncProgress, Answers, vars
<1>. QED  BY <1>2, <1>3, <1>4, <1>5, <1>6, <1>7, <1>8, <1>9, <1>10, <1>11, <1>12, <1>13, <1>14, <1>15, <1>16, <1>17, <1>18, <1>19, <1>20, <1>21, <1>22, <1>23 DEF Next, Inside

\* The inductive invariant holds of every reachable state, for any number of
\* threads and of application contexts.
THEOREM Invariance == Spec => []IInv
<1>1. IInv /\ [Next]_vars => IInv'
  BY TypeStep, LocksStep, ProgressStep, EncProgressStep, AnswersStep DEF IInv
<1>. QED  BY InitInv, <1>1, PTL DEF Spec

\* A caller that was told TRUE finds everything it goes on to use.
THEOREM AvailableMeansComplete == Spec => []AvailableIsComplete
<1>1. IInv => AvailableIsComplete
  BY DEF IInv, Progress, EncProgress, Answers, AvailableIsComplete
<1>. QED  BY Invariance, <1>1, PTL

-----------------------------------------------------------------------------
\* A step of the loaders decides the decode verdict, answers with it, or
\* does not concern it.
LEMMA DecodeStep ==
  ASSUME IInv, [Next]_vars
  PROVE  [Decode!Next]_<<decodeVerdict, told>>
<1>. USE DEF decodeVerdict, Decode!Next, Decode!Decide, Decode!Answer, Decode!Verdicts, decoder, encoder
<1>1. TypeOK /\ Progress /\ Locks
  BY DEF IInv
<1>2. ASSUME NEW t \in Threads, ReadReady(t) PROVE [Decode!Next]_<<decodeVerdict, told>>
  BY <1>1, <1>2 DEF ReadReady, Return, FastReady, Verdict
<1>3. ASSUME NEW t \in Threads, ReadFailed(t) PROVE [Decode!Next]_<<decodeVerdict, told>>
  BY <1>1, <1>3 DEF ReadFailed, Return, Verdict
<1>4. ASSUME NEW t \in Threads, Acquire(t) PROVE [Decode!Next]_<<decodeVerdict, told>>
  BY <1>1, <1>4 DEF Acquire, NeedsBringUp, At
<1>5. ASSUME NEW t \in Threads, CreateStream(t) PROVE [Decode!Next]_<<decodeVerdict, told>>
  BY <1>1, <1>5 DEF CreateStream, At, TypeOK, Progress, BringUp
<1>6. ASSUME NEW t \in Threads, BringUpFails(t) PROVE [Decode!Next]_<<decodeVerdict, told>>
  BY <1>1, <1>6 DEF BringUpFails, StateAfterFailure, Progress
<1>7. ASSUME NEW t \in Threads, Release(t) PROVE [Decode!Next]_<<decodeVerdict, told>>
  BY <1>1, <1>7 DEF Release, Return, Verdict, Progress
<1>8. ASSUME NEW t \in Threads,
            CallDecode(t) \/ CallEncode(t) \/ Bind(t) \/ OpenDriver(t) \/ TakeContext(t) \/ LoadLz(t) \/ LoadHuff(t)
            \/ EncFast(t) \/ EncResult(t) \/ EncAcquire(t) \/ EncLoadLz(t) \/ EncLoadFails(t) \/ EncLoadOptional(t) \/ EncLatch(t) \/ EncRelease(t)
      PROVE [Decode!Next]_<<decodeVerdict, told>>
  BY <1>8 DEF CallDecode, CallEncode, Bind, OpenDriver, TakeContext, LoadLz, LoadHuff, EncFast, EncResult, EncAcquire, EncLoadLz, EncLoadFails, EncLoadOptional, EncLatch, EncRelease
<1>9. CASE UNCHANGED vars
  BY <1>9 DEF vars
<1>. QED  BY <1>2, <1>3, <1>4, <1>5, <1>6, <1>7, <1>8, <1>9 DEF Next, Inside

\* The decode loader implements Availability: it decides once, answers nobody
\* before, and answers everybody alike.
THEOREM DecodeImplements == Spec => DecodeDecidesOnce
<1>1. Init => Decode!Init
  BY DEF Init, Decode!Init, decodeVerdict
<1>2. IInv /\ [Next]_vars => [Decode!Next]_<<decodeVerdict, told>>
  BY DecodeStep
<1>. QED  BY Invariance, <1>1, <1>2, PTL DEF Spec, DecodeDecidesOnce, Decode!Spec

\* The same of the encode loader; the latch is its decision.
LEMMA EncodeStep ==
  ASSUME IInv, [Next]_vars
  PROVE  [Encode!Next]_<<encodeVerdict, encTold>>
<1>. USE DEF encodeVerdict, Encode!Next, Encode!Decide, Encode!Answer, Encode!Verdicts, Verdict, decoder, encoder
<1>1. TypeOK /\ EncProgress /\ Locks
  BY DEF IInv
<1>2. ASSUME NEW t \in Threads, EncResult(t) PROVE [Encode!Next]_<<encodeVerdict, encTold>>
  BY <1>1, <1>2 DEF EncResult, At, EncProgress
<1>3. ASSUME NEW t \in Threads, EncAcquire(t) PROVE [Encode!Next]_<<encodeVerdict, encTold>>
  BY <1>1, <1>3 DEF EncAcquire, LatchOnEntry
<1>4. ASSUME NEW t \in Threads, EncLoadLz(t) PROVE [Encode!Next]_<<encodeVerdict, encTold>>
  BY <1>1, <1>4 DEF EncLoadLz, At, EncProgress, InEncode
<1>5. ASSUME NEW t \in Threads, EncLoadOptional(t) PROVE [Encode!Next]_<<encodeVerdict, encTold>>
  BY <1>1, <1>5 DEF EncLoadOptional, At, EncProgress, InEncode
<1>6. ASSUME NEW t \in Threads, EncLatch(t) PROVE [Encode!Next]_<<encodeVerdict, encTold>>
  BY <1>1, <1>6 DEF EncLatch, At, EncProgress, InEncode
<1>7. ASSUME NEW t \in Threads, EncRelease(t) PROVE [Encode!Next]_<<encodeVerdict, encTold>>
  BY <1>1, <1>7 DEF EncRelease, At, EncProgress
<1>8. ASSUME NEW t \in Threads,
            CallDecode(t) \/ CallEncode(t) \/ Bind(t) \/ ReadReady(t) \/ ReadFailed(t) \/ Acquire(t) \/ OpenDriver(t)
            \/ TakeContext(t) \/ LoadLz(t) \/ LoadHuff(t) \/ CreateStream(t) \/ BringUpFails(t) \/ Release(t) \/ EncFast(t) \/ EncLoadFails(t)
      PROVE [Encode!Next]_<<encodeVerdict, encTold>>
  <2>1. UNCHANGED encoder
    BY <1>8, Zenon DEF CallDecode, CallEncode, Bind, ReadReady, ReadFailed, Acquire, OpenDriver, TakeContext, LoadLz, LoadHuff, CreateStream, BringUpFails, Release, EncFast, EncLoadFails
  <2>. QED  BY <2>1
<1>9. CASE UNCHANGED vars
  BY <1>9 DEF vars
<1>. QED  BY <1>2, <1>3, <1>4, <1>5, <1>6, <1>7, <1>8, <1>9 DEF Next, Inside

\* The encode loader implements Availability: its unlocked fast path never
\* gives an answer that the latch does not stand for.
THEOREM EncodeImplements == Spec => EncodeDecidesOnce
<1>1. Init => Encode!Init
  BY DEF Init, Encode!Init, encodeVerdict
<1>2. IInv /\ [Next]_vars => [Encode!Next]_<<encodeVerdict, encTold>>
  BY EncodeStep
<1>. QED  BY Invariance, <1>1, <1>2, PTL DEF Spec, EncodeDecidesOnce, Encode!Spec

-----------------------------------------------------------------------------
\* What a settled loader has published never changes, nor does the context.
THEOREM SettledStays == Spec => SettledIsFinal
<1> DEFINE Final == /\ initState \in {"ready", "failed"} => UNCHANGED <<initState, loaded>>
                    /\ initialized => UNCHANGED <<initialized, encLoaded>>
                    /\ ctx # NoContext => UNCHANGED ctx
<1>1. ASSUME IInv, [Next]_vars PROVE [Final]_vars
  <2>. USE DEF decoder, encoder
  <2>1. TypeOK /\ Progress /\ EncProgress
    BY <1>1 DEF IInv
  <2>2. ASSUME NEW t \in Threads, Acquire(t) PROVE Final
    BY <2>1, <2>2 DEF Acquire, NeedsBringUp
  <2>3. ASSUME NEW t \in Threads, TakeContext(t) PROVE Final
    BY <2>1, <2>3 DEF TakeContext, At, Progress, BringUp
  <2>4. ASSUME NEW t \in Threads, LoadLz(t) PROVE Final
    BY <2>1, <2>4 DEF LoadLz, At, Progress, BringUp
  <2>5. ASSUME NEW t \in Threads, LoadHuff(t) PROVE Final
    BY <2>1, <2>5 DEF LoadHuff, At, Progress, BringUp
  <2>6. ASSUME NEW t \in Threads, CreateStream(t) PROVE Final
    BY <2>1, <2>6 DEF CreateStream, At, Progress, BringUp
  <2>7. ASSUME NEW t \in Threads, BringUpFails(t) PROVE Final
    BY <2>1, <2>7 DEF BringUpFails, Progress, BringUp
  <2>8. ASSUME NEW t \in Threads, EncAcquire(t) PROVE Final
    BY <2>1, <2>8 DEF EncAcquire, LatchOnEntry, TypeOK
  <2>9. ASSUME NEW t \in Threads, EncLoadLz(t) PROVE Final
    BY <2>1, <2>9 DEF EncLoadLz, At, EncProgress, InEncode
  <2>10. ASSUME NEW t \in Threads, EncLoadOptional(t) PROVE Final
    BY <2>1, <2>10 DEF EncLoadOptional, At, EncProgress, InEncode
  <2>11. ASSUME NEW t \in Threads, EncLatch(t) PROVE Final
    BY <2>1, <2>11 DEF EncLatch, TypeOK
  <2>12. ASSUME NEW t \in Threads,
              CallDecode(t) \/ CallEncode(t) \/ Bind(t) \/ ReadReady(t) \/ ReadFailed(t) \/ OpenDriver(t)
              \/ Release(t) \/ EncFast(t) \/ EncResult(t) \/ EncLoadFails(t) \/ EncRelease(t)
        PROVE Final
    BY <2>12 DEF CallDecode, CallEncode, Bind, ReadReady, ReadFailed, OpenDriver, Release, EncFast, EncResult, EncLoadFails, EncRelease
  <2>. QED  BY <1>1, <2>2, <2>3, <2>4, <2>5, <2>6, <2>7, <2>8, <2>9, <2>10, <2>11, <2>12 DEF Next, Inside
<1>. QED  BY Invariance, <1>1, PTL DEF Spec, SettledIsFinal

-----------------------------------------------------------------------------
\* With handles, nobody but the thread in the encode loader runs the decode
\* bring-up, and nobody moves its current context before the latch is set.
Sharing ==
    /\ ctx # NoContext /\ ~initialized => encLock \in Threads /\ current[encLock] = ctx
    /\ \A t \in Threads :
          /\ pc[t] \in InDecode /\ ~forEncoder[t] => "available" \in encTold
          /\ pc[t] = "enc_optional" => encContext = ctx
          /\ pc[t] = "enc_latch" /\ ~broken => "lz" \in encLoaded
    /\ initState = "failed" => broken
    /\ "lz" \in encLoaded => encContext = ctx
    /\ initialized /\ ~broken => "lz" \in encLoaded

\* A decode call without a handle is never forgotten.
LEMMA EarlyStays ==
  ASSUME [Next]_vars, ~early'
  PROVE  ~early
<1>1. ASSUME NEW t \in Threads, CallDecode(t) \/ Bind(t) PROVE ~early
  BY <1>1 DEF CallDecode, Bind
<1>2. ASSUME NEW t \in Threads, CallEncode(t) \/ Inside(t) PROVE UNCHANGED early
  BY <1>2 DEF CallEncode, Inside, ReadReady, ReadFailed, Acquire, OpenDriver, TakeContext, LoadLz,
     LoadHuff, CreateStream, BringUpFails, Release, EncFast, EncResult, EncAcquire, EncLoadLz,
     EncLoadFails, EncLoadOptional, EncLatch, EncRelease
<1>3. CASE UNCHANGED vars
  BY <1>3 DEF vars
<1>. QED  BY <1>1, <1>2, <1>3 DEF Next

\* With handles only, Sharing holds step by step.
LEMMA SharingStep ==
  ASSUME ~early', IInv, Sharing, [Next]_vars
  PROVE  Sharing'
<1>. USE ~early', ThreadsAssumption, ContextsAssumption DEF BringUp, InDecodeLock, InDecode, InEncode, HoldsEncLock, Contexts, decoder, encoder
<1>1. TypeOK /\ Locks /\ Progress /\ EncProgress /\ Answers /\ Sharing
  BY DEF IInv
<1>2. ASSUME NEW t \in Threads, CallDecode(t) PROVE Sharing'
  BY <1>1, <1>2 DEF TypeOK, Locks, Progress, EncProgress, Answers, Sharing, CallDecode, At
<1>3. ASSUME NEW t \in Threads, CallEncode(t) PROVE Sharing'
  BY <1>1, <1>3 DEF TypeOK, Locks, Progress, EncProgress, Answers, Sharing, CallEncode, At
<1>4. ASSUME NEW t \in Threads, Bind(t) PROVE Sharing'
  BY <1>1, <1>4 DEF TypeOK, Locks, Progress, EncProgress, Answers, Sharing, Bind
<1>5. ASSUME NEW t \in Threads, ReadReady(t) PROVE Sharing'
  BY <1>1, <1>5 DEF TypeOK, Locks, Progress, EncProgress, Answers, Sharing, ReadReady, Return, FastReady, Verdict
<1>6. ASSUME NEW t \in Threads, ReadFailed(t) PROVE Sharing'
  BY <1>1, <1>6 DEF TypeOK, Locks, Progress, EncProgress, Answers, Sharing, ReadFailed, Return, Verdict
<1>7. ASSUME NEW t \in Threads, Acquire(t) PROVE Sharing'
  BY <1>1, <1>7 DEF TypeOK, Locks, Progress, EncProgress, Answers, Sharing, Acquire, At, NeedsBringUp, LockFree
<1>8. ASSUME NEW t \in Threads, OpenDriver(t) PROVE Sharing'
  BY <1>1, <1>8 DEF TypeOK, Locks, Progress, EncProgress, Answers, Sharing, OpenDriver, At
<1>9. ASSUME NEW t \in Threads, TakeContext(t) PROVE Sharing'
  BY <1>1, <1>9 DEF TypeOK, Locks, Progress, EncProgress, Answers, Sharing, TakeContext, At
<1>10. ASSUME NEW t \in Threads, LoadLz(t) PROVE Sharing'
  BY <1>1, <1>10 DEF TypeOK, Locks, Progress, EncProgress, Answers, Sharing, LoadLz, At
<1>11. ASSUME NEW t \in Threads, LoadHuff(t) PROVE Sharing'
  BY <1>1, <1>11 DEF TypeOK, Locks, Progress, EncProgress, Answers, Sharing, LoadHuff, At
<1>12. ASSUME NEW t \in Threads, CreateStream(t) PROVE Sharing'
  BY <1>1, <1>12 DEF TypeOK, Locks, Progress, EncProgress, Answers, Sharing, CreateStream, At
<1>13. ASSUME NEW t \in Threads, BringUpFails(t) PROVE Sharing'
  BY <1>1, <1>13 DEF TypeOK, Locks, Progress, EncProgress, Answers, Sharing, BringUpFails, StateAfterFailure
<1>14. ASSUME NEW t \in Threads, Release(t) PROVE Sharing'
  BY <1>1, <1>14 DEF TypeOK, Locks, Progress, EncProgress, Answers, Sharing, Release, Return, Verdict
<1>15. ASSUME NEW t \in Threads, EncFast(t) PROVE Sharing'
  BY <1>1, <1>15 DEF TypeOK, Locks, Progress, EncProgress, Answers, Sharing, EncFast, At
<1>16. ASSUME NEW t \in Threads, EncResult(t) PROVE Sharing'
  BY <1>1, <1>16 DEF TypeOK, Locks, Progress, EncProgress, Answers, Sharing, EncResult, At, Verdict
<1>17. ASSUME NEW t \in Threads, EncAcquire(t) PROVE Sharing'
  BY <1>1, <1>17 DEF TypeOK, Locks, Progress, EncProgress, Answers, Sharing, EncAcquire, At, LatchOnEntry
<1>18. ASSUME NEW t \in Threads, EncLoadLz(t) PROVE Sharing'
  BY <1>1, <1>18 DEF TypeOK, Locks, Progress, EncProgress, Answers, Sharing, EncLoadLz, At
<1>19. ASSUME NEW t \in Threads, EncLoadFails(t) PROVE Sharing'
  BY <1>1, <1>19 DEF TypeOK, Locks, Progress, EncProgress, Answers, Sharing, EncLoadFails, At
<1>20. ASSUME NEW t \in Threads, EncLoadOptional(t) PROVE Sharing'
  BY <1>1, <1>20 DEF TypeOK, Locks, Progress, EncProgress, Answers, Sharing, EncLoadOptional, At
<1>21. ASSUME NEW t \in Threads, EncLatch(t) PROVE Sharing'
  BY <1>1, <1>21 DEF TypeOK, Locks, Progress, EncProgress, Answers, Sharing, EncLatch, At
<1>22. ASSUME NEW t \in Threads, EncRelease(t) PROVE Sharing'
  BY <1>1, <1>22 DEF TypeOK, Locks, Progress, EncProgress, Answers, Sharing, EncRelease, At, Verdict
<1>23. CASE UNCHANGED vars
  BY <1>1, <1>23 DEF Sharing, vars
<1>. QED  BY <1>2, <1>3, <1>4, <1>5, <1>6, <1>7, <1>8, <1>9, <1>10, <1>11, <1>12, <1>13, <1>14, <1>15, <1>16, <1>17, <1>18, <1>19, <1>20, <1>21, <1>22, <1>23 DEF Next, Inside

\* As long as every decode call has a handle, the encoder is available whenever
\* the decoder is (no CUDA call having failed by itself), in the same context.
THEOREM HandlesShare == Spec => []HandlesShareContext
<1>1. Init => Sharing
  BY ThreadsAssumption DEF Init, Sharing, InDecode, BringUp, InDecodeLock
<1>2. IInv /\ (~early => Sharing) /\ [Next]_vars => (~early => Sharing)'
  <2>. SUFFICES ASSUME IInv, ~early => Sharing, [Next]_vars, ~early' PROVE Sharing'
    OBVIOUS
  <2>1. ~early
    BY EarlyStays
  <2>. QED  BY <2>1, SharingStep
<1>3. IInv /\ (~early => Sharing) => HandlesShareContext
  BY DEF IInv, EncProgress, Answers, Sharing, HandlesShareContext, EncoderSharesContext
<1>. QED  BY Invariance, <1>1, <1>2, <1>3, PTL DEF Spec
=============================================================================

---------------------------- MODULE HandleProofs ----------------------------
(***************************************************************************)
(* What one call leaves on a handle for the next.  Settings: both contexts *)
(* are idle between calls, whatever failed.  Timings: pending events, when *)
(* there are any, include those of the last call that recorded some, so    *)
(* draining them never throws that call away.                              *)
(***************************************************************************)
EXTENDS Handle, TLAPS

\* Between two calls a context has no input, output, stream or profiling of its own.
Idle == enc = EncIdle /\ dec = DecIdle /\ call \in Nat

\* A job that ran clears what it set.
LEMMA JobIdles ==
  ASSUME NEW e, NEW end, CompressJob(e, end)
  PROVE  enc' = EncIdle
BY DEF CompressJob

\* Without a wrapped output that fails the CLI's context stays as it was.
LEMMA DirectIdles ==
  ASSUME Idle, CliOutputFails = FALSE, CompressDirect
  PROVE  enc' = EncIdle
<1>1. PICK end \in CompressEnds : (end = "wrapOut" => CliOutputFails) /\ enc' = EncodeLeaves(enc, end)
  BY DEF CompressDirect
<1>. QED  BY <1>1 DEF EncodeLeaves, Idle

\* Every call leaves both contexts as created, whichever way it ends.
LEMMA StaysIdle ==
  ASSUME Idle, CliOutputFails = FALSE, [Next]_vars
  PROVE  Idle'
<1>0. ASSUME NextCall PROVE call' \in Nat
  BY <1>0 DEF NextCall, Idle
<1>1. ASSUME NEW profile \in BOOLEAN, CompressHost(profile) PROVE Idle'
  BY <1>0, <1>1, JobIdles DEF CompressHost, Idle
<1>2. ASSUME NEW profile \in BOOLEAN, CompressHostFails(profile) PROVE Idle'
  BY <1>0, <1>2 DEF CompressHostFails, NoJob, Idle
<1>3. ASSUME NEW profile \in BOOLEAN, DecompressHost(profile) PROVE Idle'
  BY <1>0, <1>3 DEF DecompressHost, Idle, DecIdle
<1>4. ASSUME NEW profile \in BOOLEAN, NEW stream, CompressAsync(stream, profile) PROVE Idle'
  BY <1>0, <1>4, JobIdles DEF CompressAsync, Idle
<1>5. ASSUME NEW profile \in BOOLEAN, NEW stream, DecompressAsync(stream, profile) PROVE Idle'
  BY <1>0, <1>5 DEF DecompressAsync, Idle
<1>6. CASE CompressDirect
  BY <1>0, <1>6, DirectIdles DEF CompressDirect, Idle
<1>7. CASE GetLastTimings
  BY <1>7 DEF GetLastTimings, Idle
<1>8. CASE UNCHANGED vars
  BY <1>8 DEF vars, Idle
<1>. QED  BY <1>1, <1>2, <1>3, <1>4, <1>5, <1>6, <1>7, <1>8 DEF Next

\* From idle contexts a call works with its arguments.
LEMMA OwnArguments ==
  ASSUME Idle, UsesItsOwnArguments, [Next]_vars
  PROVE  UsesItsOwnArguments'
<1>. USE DEF UsesItsOwnArguments
<1>0. ASSUME NextCall PROVE call' \in Nat /\ call' # Null /\ call' # Wrap
  BY <1>0, HandleAssumption DEF NextCall, Idle
<1>1. ASSUME NEW profile \in BOOLEAN, CompressHost(profile) PROVE UsesItsOwnArguments'
  <2>1. PICK end \in CompressEnds :
          result' = [op |-> "CompressHost", end |-> end,
                     asked |-> [from |-> call', to |-> Wrap, stream |-> Null, profile |-> profile],
                     used |-> Used([enc EXCEPT !.profile = profile, !.stream = Null], call', end),
                     answer |-> Returned(WorkerResult(end, CompressStatus(end)))]
    BY <1>1 DEF CompressHost
  <2>2. Used([enc EXCEPT !.profile = profile, !.stream = Null], call', end)
          = [from |-> call', to |-> Wrap, stream |-> Null, profile |-> profile]
    BY HandleAssumption DEF Used, Source, OwnsInput, Target, Idle, EncIdle
  <2>. QED  BY <2>1, <2>2
<1>2. ASSUME NEW profile \in BOOLEAN, CompressHostFails(profile) PROVE UsesItsOwnArguments'
  BY <1>2 DEF CompressHostFails
<1>3. ASSUME NEW profile \in BOOLEAN, DecompressHost(profile) PROVE UsesItsOwnArguments'
  <2>1. PICK end \in DecompressEnds :
          result' = [op |-> "DecompressHost", end |-> end,
                     asked |-> [stream |-> Null, profile |-> profile],
                     used |-> [dec EXCEPT !.profile = profile],
                     answer |-> Returned(WorkerResult(end, DecompressStatus(end, FALSE)))]
    BY <1>3 DEF DecompressHost
  <2>2. [dec EXCEPT !.profile = profile] = [stream |-> Null, profile |-> profile]
    BY DEF Idle, DecIdle
  <2>. QED  BY <2>1, <2>2
<1>4. ASSUME NEW profile \in BOOLEAN, NEW stream, CompressAsync(stream, profile)
      PROVE UsesItsOwnArguments'
  <2>. DEFINE e == [input |-> call', output |-> call', stream |-> stream, profile |-> profile]
  <2>1. PICK end \in CompressEnds :
          result' = [op |-> "CompressAsync", end |-> end,
                     asked |-> [from |-> call', to |-> call', stream |-> stream, profile |-> profile],
                     used |-> Used(e, call', end),
                     answer |-> Returned(JobResult(end, CompressStatus(end)))]
    BY <1>4 DEF CompressAsync
  <2>2. call' # Null /\ call' # Wrap
    BY <1>0, <1>4 DEF CompressAsync
  <2>3. Used(e, call', end) = [from |-> call', to |-> call', stream |-> stream, profile |-> profile]
    BY <2>2 DEF Used, Source, OwnsInput, Target
  <2>. QED  BY <2>1, <2>3
<1>5. ASSUME NEW profile \in BOOLEAN, NEW stream, DecompressAsync(stream, profile)
      PROVE UsesItsOwnArguments'
  BY <1>5 DEF DecompressAsync
<1>6. CASE CompressDirect
  <2>1. PICK end \in CompressEnds :
          result' = [op |-> "CompressDirect", end |-> end,
                     asked |-> [from |-> call', to |-> Wrap, stream |-> Null, profile |-> FALSE],
                     used |-> Used(enc, call', end),
                     answer |-> Returned(JobResult(end, CompressStatus(end)))]
    BY <1>6 DEF CompressDirect
  <2>2. Used(enc, call', end) = [from |-> call', to |-> Wrap, stream |-> Null, profile |-> FALSE]
    BY HandleAssumption DEF Used, Source, OwnsInput, Target, Idle, EncIdle
  <2>. QED  BY <2>1, <2>2
<1>7. CASE GetLastTimings
  BY <1>7 DEF GetLastTimings
<1>8. CASE UNCHANGED vars
  BY <1>8 DEF vars
<1>. QED  BY <1>1, <1>2, <1>3, <1>4, <1>5, <1>6, <1>7, <1>8 DEF Next

\* As long as the CLI's wrapped output can be allocated, every call that succeeds
\* works with its own input, output, stream and profiling flag, after any calls that
\* failed at any stage.
THEOREM OwnArgumentsAlways == CliOutputFails = FALSE => (Spec => []UsesItsOwnArguments)
<1>. SUFFICES ASSUME CliOutputFails = FALSE PROVE Spec => []UsesItsOwnArguments
  OBVIOUS
<1>1. Init => Idle /\ UsesItsOwnArguments
  BY DEF Init, Idle, UsesItsOwnArguments
<1>2. Idle /\ UsesItsOwnArguments /\ [Next]_vars => (Idle /\ UsesItsOwnArguments)'
  BY StaysIdle, OwnArguments
<1>. QED  BY <1>1, <1>2, PTL DEF Spec

-----------------------------------------------------------------------------
\* A job's result, negated error or byte count, is told apart by its sign.
LEMMA ResultTells ==
  ASSUME NEW end, NEW status \in {BUFFER_TOO_SMALL, CORRUPT_FRAME, UNSUPPORTED, CUDA, OUT_OF_MEMORY}
  PROVE  /\ Returned(JobResult(end, status)).status = SUCCESS <=> end \in Done
         /\ Returned(JobResult(end, status)).size = IF end \in Done THEN Bytes ELSE 0
<1>. USE DEF Bytes, SUCCESS, BUFFER_TOO_SMALL, CORRUPT_FRAME, UNSUPPORTED, CUDA, OUT_OF_MEMORY
<1>1. CASE end \in Done
  BY <1>1 DEF Returned, JobResult
<1>2. CASE end \notin Done
  BY <1>2 DEF Returned, JobResult
<1>. QED  BY <1>1, <1>2

\* Whatever error a job maps its end to is one of the status codes.
LEMMA StatusIsError ==
  ASSUME NEW end
  PROVE  /\ CompressStatus(end) \in {BUFFER_TOO_SMALL, UNSUPPORTED, OUT_OF_MEMORY}
         /\ DecompressStatus(end, TRUE) \in {CORRUPT_FRAME, BUFFER_TOO_SMALL, OUT_OF_MEMORY,
                                             UNSUPPORTED, CUDA}
         /\ DecompressStatus(end, FALSE) \in {CORRUPT_FRAME, BUFFER_TOO_SMALL, OUT_OF_MEMORY,
                                              UNSUPPORTED, CUDA}
<1>1. CompressStatus(end) \in {BUFFER_TOO_SMALL, UNSUPPORTED, OUT_OF_MEMORY}
  BY DEF CompressStatus
<1>2. DecompressStatus(end, TRUE) \in {CORRUPT_FRAME, BUFFER_TOO_SMALL, OUT_OF_MEMORY,
                                      UNSUPPORTED, CUDA}
  BY SMTT(30) DEF DecompressStatus
<1>3. DecompressStatus(end, FALSE) \in {CORRUPT_FRAME, BUFFER_TOO_SMALL, OUT_OF_MEMORY,
                                       UNSUPPORTED, CUDA}
  BY SMTT(30) DEF DecompressStatus
<1>. QED  BY <1>1, <1>2, <1>3, Zenon

\* Every answer is a job's result, whoever ran the job, if threads start.
LEMMA StatusStep ==
  ASSUME StatusTellsOutcome, SpawnFails = FALSE, [Next]_vars
  PROVE  StatusTellsOutcome'
<1>. DEFINE Told(end, answer) == /\ answer.status = SUCCESS <=> end \in Done
                                 /\ answer.size = IF end \in Done THEN Bytes ELSE 0
<1>1. ASSUME NEW end PROVE Told(end, Returned(JobResult(end, CompressStatus(end))))
  BY ResultTells, StatusIsError
<1>. DEFINE Errors == {CORRUPT_FRAME, BUFFER_TOO_SMALL, OUT_OF_MEMORY, UNSUPPORTED, CUDA}
<1>2. ASSUME NEW end, NEW status \in Errors PROVE Told(end, Returned(JobResult(end, status)))
  BY ResultTells
<1>3. ASSUME NEW end, NEW status, end # "spawn"
      PROVE  WorkerResult(end, status) = JobResult(end, status)
  BY <1>3 DEF WorkerResult
<1>4. "spawn" \notin CompressEnds \cup DecompressEnds
  BY DEF CompressEnds, DecompressEnds, EarlyEnds, WrapEnds
<1>5. Told("bind", Returned(JobResult("bind", CUDA)))
  BY ResultTells
<1>6. ASSUME NEW profile \in BOOLEAN, CompressHost(profile) PROVE StatusTellsOutcome'
  <2>1. PICK end \in CompressEnds :
          /\ result'.end = end
          /\ result'.answer = Returned(WorkerResult(end, CompressStatus(end)))
    BY <1>6 DEF CompressHost
  <2>2. Told(result'.end, result'.answer)
    BY <1>1, <1>3, <1>4, <2>1
  <2>. QED  BY <2>2 DEF StatusTellsOutcome
<1>7. ASSUME NEW profile \in BOOLEAN, CompressHostFails(profile) PROVE StatusTellsOutcome'
  <2>1. result'.end = "bind" /\ result'.answer = Returned(WorkerResult("bind", CUDA))
    BY <1>7 DEF CompressHostFails, NoJobEnds
  <2>2. Told(result'.end, result'.answer)
    BY <1>3, <1>5, <2>1
  <2>. QED  BY <2>2 DEF StatusTellsOutcome
<1>8. ASSUME NEW profile \in BOOLEAN, DecompressHost(profile) PROVE StatusTellsOutcome'
  <2>1. PICK end \in DecompressEnds :
          result' = [op |-> "DecompressHost", end |-> end,
                     asked |-> [stream |-> Null, profile |-> profile],
                     used |-> [dec EXCEPT !.profile = profile],
                     answer |-> Returned(WorkerResult(end, DecompressStatus(end, FALSE)))]
    BY <1>8, Zenon DEF DecompressHost
  <2>2. PICK status \in Errors : status = DecompressStatus(end, FALSE)
    BY StatusIsError, Zenon
  <2>3. result' = [op |-> "DecompressHost", end |-> end,
                     asked |-> [stream |-> Null, profile |-> profile],
                     used |-> [dec EXCEPT !.profile = profile],
                     answer |-> Returned(WorkerResult(end, status))]
    BY <2>1, <2>2, Zenon
  <2>4. Told(result'.end, result'.answer)
    BY <1>2, <1>3, <1>4, <2>3
  <2>. QED  BY <2>4 DEF StatusTellsOutcome
<1>9. ASSUME NEW profile \in BOOLEAN, NEW stream, CompressAsync(stream, profile)
      PROVE StatusTellsOutcome'
  <2>1. PICK end \in CompressEnds :
          /\ result'.end = end
          /\ result'.answer = Returned(JobResult(end, CompressStatus(end)))
    BY <1>9 DEF CompressAsync
  <2>2. Told(result'.end, result'.answer)
    BY <1>1, <2>1
  <2>. QED  BY <2>2 DEF StatusTellsOutcome
<1>10. ASSUME NEW profile \in BOOLEAN, NEW stream, DecompressAsync(stream, profile)
       PROVE StatusTellsOutcome'
  <2>1. PICK end \in DecompressEnds :
          result' = [op |-> "DecompressAsync", end |-> end,
                     asked |-> [stream |-> stream, profile |-> profile],
                     used |-> [stream |-> stream, profile |-> profile],
                     answer |-> Returned(JobResult(end, DecompressStatus(end, TRUE)))]
    BY <1>10, Zenon DEF DecompressAsync
  <2>2. PICK status \in Errors : status = DecompressStatus(end, TRUE)
    BY StatusIsError, Zenon
  <2>3. result' = [op |-> "DecompressAsync", end |-> end,
                     asked |-> [stream |-> stream, profile |-> profile],
                     used |-> [stream |-> stream, profile |-> profile],
                     answer |-> Returned(JobResult(end, status))]
    BY <2>1, <2>2, Zenon
  <2>4. Told(result'.end, result'.answer)
    BY <1>2, <2>3
  <2>. QED  BY <2>4 DEF StatusTellsOutcome
<1>11. CASE CompressDirect
  <2>1. PICK end \in CompressEnds :
          /\ result'.end = end
          /\ result'.answer = Returned(JobResult(end, CompressStatus(end)))
    BY <1>11 DEF CompressDirect
  <2>2. Told(result'.end, result'.answer)
    BY <1>1, <2>1
  <2>. QED  BY <2>2 DEF StatusTellsOutcome
<1>12. CASE GetLastTimings
  <2>1. result' = [op |-> "GetLastTimings", timings |-> last'["enc"] \cup last'["dec"]]
    BY <1>12 DEF GetLastTimings
  <2>. QED  BY <2>1 DEF StatusTellsOutcome
<1>13. CASE UNCHANGED vars
  BY <1>13 DEF vars, StatusTellsOutcome
<1>. QED  BY <1>6, <1>7, <1>8, <1>9, <1>10, <1>11, <1>12, <1>13 DEF Next

\* As long as threads can be started, success is returned, with the size of the
\* output, exactly when there is an output.
THEOREM StatusAlways == SpawnFails = FALSE => (Spec => []StatusTellsOutcome)
<1>. SUFFICES ASSUME SpawnFails = FALSE PROVE Spec => []StatusTellsOutcome
  OBVIOUS
<1>1. Init => StatusTellsOutcome
  BY DEF Init, StatusTellsOutcome
<1>2. StatusTellsOutcome /\ [Next]_vars => StatusTellsOutcome'
  BY StatusStep
<1>. QED  BY <1>1, <1>2, PTL DEF Spec

-----------------------------------------------------------------------------
\* Pending events of a direction include its last recording call.
Fresh(w) == /\ latest[w] # 0 => latest[w] \in pending[w] \cup last[w]
            /\ pending[w] # {} => latest[w] \in pending[w]
TInv == /\ pending \in [Ways -> SUBSET Nat] /\ last \in [Ways -> SUBSET Nat]
        /\ latest \in [Ways -> Nat] /\ call \in Nat
        /\ \A w \in Ways : Fresh(w)

\* The events a call leaves are those that were pending, and perhaps its own.
LEMMA EventsOf ==
  ASSUME NEW w, NEW profile, NEW end, NEW events \in Events(w, profile, end)
  PROVE  events = pending[w] \/ events = pending[w] \cup {call'}
BY Zenon DEF Events

\* Draining or keeping them, in either direction, the last recording call stays.
LEMMA TimingsKept ==
  ASSUME TInv, call' \in Nat, NEW w \in Ways, NEW events,
         events = pending[w] \/ events = pending[w] \cup {call'},
         Finalize(w, events) \/ KeepPending(w, events), Recorded(w, events)
  PROVE  TInv'
<1>1. events \in SUBSET Nat
  BY DEF TInv
<1>2. Drained(events, last[w]) \in SUBSET Nat
  BY <1>1 DEF Drained, TInv
<1>3. pending' \in [Ways -> SUBSET Nat] /\ last' \in [Ways -> SUBSET Nat]
  BY <1>1, <1>2 DEF TInv, Finalize, KeepPending
<1>4. latest' \in [Ways -> Nat]
  BY DEF TInv, Recorded
<1>5. latest'[w] = IF call' \in events THEN call' ELSE latest[w]
  BY DEF TInv, Recorded
<1>6. events # {} => latest'[w] \in events
  BY <1>5 DEF TInv, Fresh
<1>7. Fresh(w)'
  <2>1. CASE Finalize(w, events)
    <3>1. pending'[w] = {} /\ last'[w] = Drained(events, last[w])
      BY <2>1 DEF Finalize, TInv
    <3>. QED  BY <1>5, <1>6, <3>1 DEF Drained, Fresh, TInv
  <2>2. CASE KeepPending(w, events)
    <3>1. pending'[w] = events /\ last'[w] = last[w]
      BY <2>2 DEF KeepPending, TInv
    <3>. QED  BY <1>5, <1>6, <3>1 DEF Fresh, TInv
  <2>. QED  BY <2>1, <2>2
<1>8. ASSUME NEW v \in Ways, v # w PROVE Fresh(v)'
  <2>1. pending'[v] = pending[v] /\ last'[v] = last[v] /\ latest'[v] = latest[v]
    BY <1>8 DEF Finalize, KeepPending, Recorded, TInv
  <2>. QED  BY <2>1 DEF Fresh, TInv
<1>. QED  BY <1>3, <1>4, <1>7, <1>8 DEF TInv

\* Every call keeps the relation between the pending and the last timings.
LEMMA TimingsStep ==
  ASSUME TInv, [Next]_vars
  PROVE  TInv'
<1>0. ASSUME NextCall PROVE call' \in Nat
  BY <1>0 DEF NextCall, TInv
<1>1. ASSUME NEW e, NEW end, NextCall, CompressJob(e, end) PROVE TInv'
  <2>1. PICK events \in Events("enc", e.profile, end) :
          /\ Finalize("enc", events) \/ KeepPending("enc", events)
          /\ Recorded("enc", events)
    BY <1>1 DEF CompressJob
  <2>. QED  BY <1>0, <1>1, <2>1, EventsOf, TimingsKept DEF Ways
<1>2. ASSUME NEW d, NEW end, NextCall, DecodeEnds(d, end) PROVE TInv'
  <2>1. PICK events \in Events("dec", d.profile, end) :
          /\ Finalize("dec", events) \/ KeepPending("dec", events)
          /\ Recorded("dec", events)
    BY <1>2 DEF DecodeEnds
  <2>. QED  BY <1>0, <1>2, <2>1, EventsOf, TimingsKept DEF Ways
<1>3. ASSUME call' \in Nat, UNCHANGED <<pending, last, latest>> PROVE TInv'
  BY <1>3 DEF TInv, Fresh
<1>4. ASSUME NEW profile \in BOOLEAN, CompressHost(profile) PROVE TInv'
  BY <1>1, <1>4 DEF CompressHost
<1>5. ASSUME NEW profile \in BOOLEAN, CompressHostFails(profile) PROVE TInv'
  BY <1>0, <1>3, <1>5 DEF CompressHostFails, NoJob
<1>6. ASSUME NEW profile \in BOOLEAN, DecompressHost(profile) PROVE TInv'
  BY <1>2, <1>6, Zenon DEF DecompressHost
<1>7. ASSUME NEW profile \in BOOLEAN, NEW stream, CompressAsync(stream, profile) PROVE TInv'
  BY <1>1, <1>7 DEF CompressAsync
<1>8. ASSUME NEW profile \in BOOLEAN, NEW stream, DecompressAsync(stream, profile) PROVE TInv'
  BY <1>2, <1>8, Zenon DEF DecompressAsync
<1>9. CASE CompressDirect
  BY <1>0, <1>3, <1>9 DEF CompressDirect
<1>10. CASE GetLastTimings
  <2>1. /\ last' = [w \in Ways |-> Drained(pending[w], last[w])]
        /\ pending' = [w \in Ways |-> {}] /\ latest' = latest /\ call' = call
    BY <1>10 DEF GetLastTimings
  <2>2. \A w \in Ways : Drained(pending[w], last[w]) \in SUBSET Nat
    BY DEF Drained, TInv
  <2>3. ASSUME NEW w \in Ways PROVE Fresh(w)'
    BY <2>1 DEF Drained, Fresh, TInv
  <2>. QED  BY <2>1, <2>2, <2>3 DEF TInv
<1>11. CASE UNCHANGED vars
  BY <1>3, <1>11 DEF vars, TInv
<1>. QED  BY <1>4, <1>5, <1>6, <1>7, <1>8, <1>9, <1>10, <1>11 DEF Next

\* The timings of the last call that recorded any survive every other call, failed
\* ones included, until they are asked for, and asking for them again.
THEOREM TimingsAlways == Spec => []TimingsSurvive
<1>1. Init => TInv
  BY DEF Init, TInv, Fresh
<1>2. TInv /\ [Next]_vars => TInv'
  BY TimingsStep
<1>3. TInv => TimingsSurvive
  BY DEF TInv, Fresh, TimingsSurvive
<1>. QED  BY <1>1, <1>2, <1>3, PTL DEF Spec
=============================================================================

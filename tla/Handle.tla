------------------------------- MODULE Handle -------------------------------
(***************************************************************************)
(* The calls of the C API on one handle (streamlz_gpu.zig): the per-call    *)
(* settings they leave in the handle's two contexts while they run, the     *)
(* protocol that turns a job's result into a status and a size, and the     *)
(* kernel timings that outlive the call.  A handle serves one call at a     *)
(* time.  The CLI calls the encoder on a context of its own without the     *)
(* job around it; a behaviour is of one kind or the other, as its first     *)
(* call is.                                                                 *)
(*                                                                         *)
(* Calls are numbered; a buffer is named by the call whose bytes it holds.  *)
(***************************************************************************)
EXTENDS Integers, FiniteSets

CONSTANTS Streams,    \* streams of the application
          Null,       \* no stream, no buffer
          Wrap,       \* d_host_wrap_input or d_host_wrap_output
          MaxCalls,   \* bound on compress and decompress calls
          SpawnFails, \* TRUE: the worker thread may not start
          CliOutputFails \* TRUE: the CLI's wrapped output may not be allocated

ASSUME HandleAssumption ==
    /\ Null \notin Streams /\ Wrap # Null /\ {Null, Wrap} \cap Nat = {}
    /\ MaxCalls \in Nat \ {0} /\ {SpawnFails, CliOutputFails} \subseteq BOOLEAN

VARIABLES call,    \* how many calls were made
          enc,     \* d_input_override, d_output_override, work_stream, enable_profiling
          dec,     \* work_stream and enable_profiling
          wrapped, \* the call whose bytes d_host_wrap_input holds
          pending, \* pending_timings of each direction: the calls they are of
          last,    \* last_timings of each direction
          latest,  \* the last call of each direction that recorded events
          result   \* what the last call was asked, did and returned

vars == <<call, enc, dec, wrapped, pending, last, latest, result>>

Ways == {"enc", "dec"}
EncIdle == [input |-> Null, output |-> Null, stream |-> Null, profile |-> FALSE]
DecIdle == [stream |-> Null, profile |-> FALSE]

Init == /\ call = 0
        /\ enc = EncIdle
        /\ dec = DecIdle
        /\ wrapped = Null
        /\ pending = [w \in Ways |-> {}]
        /\ last = [w \in Ways |-> {}]
        /\ latest = [w \in Ways |-> 0]
        /\ result = [op |-> "none"]

-----------------------------------------------------------------------------
\* How a call can end.  "wrapIn", "upload" and "wrapOut" are the steps that
\* bring a host buffer to the device, "kernels" anything after them.
Done == {"ok", "tiny"}    \* tiny: too small to compress, stored by the host
EarlyEnds == {"tiny", "level", "dictionary", "capacity"}
WrapEnds == {"wrapIn", "upload", "wrapOut"}
CompressEnds == {"ok", "host memory", "kernels", "download"} \cup EarlyEnds \cup WrapEnds
DecompressEnds == {"ok", "frame", "output", "host memory", "device memory", "kernels"}

SUCCESS == 0
BUFFER_TOO_SMALL == 3
CORRUPT_FRAME == 4
UNSUPPORTED == 5
CUDA == 6
OUT_OF_MEMORY == 7
Bytes == 100    \* the size of any output that was made

\* mapCompressError of what compressFramed returns
CompressStatus(end) ==
    CASE end \in {"level", "dictionary"} -> UNSUPPORTED
      [] end = "host memory" -> OUT_OF_MEMORY
      [] OTHER -> BUFFER_TOO_SMALL

\* mapDecompressError; the device-to-device path turns every GPU error into
\* a fall-back.
DecompressStatus(end, device) ==
    CASE end = "frame" -> CORRUPT_FRAME
      [] end = "output" -> BUFFER_TOO_SMALL
      [] end = "host memory" -> OUT_OF_MEMORY
      [] device -> UNSUPPORTED
      [] end = "device memory" -> OUT_OF_MEMORY
      [] OTHER -> CUDA

\* A job's result is a byte count or a negated error.
JobResult_Positive(end, status) == IF end \in Done THEN Bytes ELSE status    \* mutant
JobResult(end, status) == IF end \in Done THEN Bytes ELSE -status

\* runOnWorker: a thread that does not start is an error that is not negated.
WorkerResult(end, status) == IF end = "spawn" THEN OUT_OF_MEMORY ELSE JobResult(end, status)

Returned(rc) == IF rc < 0 THEN [status |-> -rc, size |-> 0]
                ELSE [status |-> SUCCESS, size |-> rc]

-----------------------------------------------------------------------------
\* finalizeProfiling: the pending events, if any, replace the timings.
Drained_Wipes(events, timings) == events    \* mutant
Drained(events, timings) == IF events = {} THEN timings ELSE events

Finalize(w, events) == /\ last' = [last EXCEPT ![w] = Drained(events, last[w])]
                       /\ pending' = [pending EXCEPT ![w] = {}]

KeepPending(w, events) == /\ pending' = [pending EXCEPT ![w] = events]
                          /\ UNCHANGED last

Recorded(w, events) == latest' = [latest EXCEPT ![w] = IF call' \in events THEN call' ELSE @]

\* The events of this direction when the call ends: kernels are only
\* launched by a call that got that far.
Events(w, profile, end) ==
    IF ~profile THEN {pending[w]}
    ELSE CASE end \in {"ok", "download"} -> {pending[w] \cup {call'}}
           [] end \in EarlyEnds \cup WrapEnds \cup {"bind", "spawn"} -> {pending[w]}
           [] OTHER -> {pending[w], pending[w] \cup {call'}}

-----------------------------------------------------------------------------
\* gpuEncodeAndAssemble on settings e for call n: a host input is wrapped,
\* and so is a host output.  d_input_override is set before the output's
\* buffer is allocated and the clean-up is registered.
OwnsInput(e) == e.input = Null
Source(e, n) == CASE OwnsInput(e) -> n
                  [] e.input = Wrap -> wrapped
                  [] OTHER -> e.input
EncodeLeaves(e, end) == IF end = "wrapOut" /\ OwnsInput(e) THEN [e EXCEPT !.input = Wrap] ELSE e
WrapHolds(e, n, end) ==
    IF OwnsInput(e) /\ end \notin EarlyEnds \cup {"wrapIn", "upload", "bind", "spawn"}
    THEN n ELSE wrapped

\* Which ends are possible with these settings
Possible(e, end) == /\ end \in {"wrapIn", "upload"} => OwnsInput(e)
                    /\ end \in {"wrapOut", "download", "tiny"} => e.output = Null

Target(e) == IF e.output = Null THEN Wrap ELSE e.output
Used(e, n, end) == [from |-> IF end = "tiny" THEN n ELSE Source(e, n), to |-> Target(e),
                    stream |-> e.stream, profile |-> e.profile]

NextCall == call < MaxCalls /\ call' = call + 1
OnHandle == result.op # "CompressDirect"
OnCliContext == result.op \in {"none", "CompressDirect"}

\* CompressJob.run.  Mutant: an error returns without the clean-up.
CompressJob_LeavesSettings(e, end) ==
    /\ enc' = IF end = "ok" THEN EncIdle ELSE EncodeLeaves(e, end)
    /\ \E events \in Events("enc", e.profile, end) :
          /\ IF e.stream = Null THEN Finalize("enc", events) ELSE KeepPending("enc", events)
          /\ Recorded("enc", events)
    /\ wrapped' = WrapHolds(e, call', end)
CompressJob(e, end) ==
    /\ enc' = EncIdle
    /\ \E events \in Events("enc", e.profile, end) :
          /\ IF e.stream = Null THEN Finalize("enc", events) ELSE KeepPending("enc", events)
          /\ Recorded("enc", events)
    /\ wrapped' = WrapHolds(e, call', end)

\* A job that did not start, or could not bind the context
NoJob == UNCHANGED <<enc, dec, wrapped, pending, last, latest>>
NoJobEnds == {"bind"} \cup (IF SpawnFails THEN {"spawn"} ELSE {})

CompressHost(profile) ==
    LET e == [enc EXCEPT !.profile = profile, !.stream = Null]
        asked == [from |-> call', to |-> Wrap, stream |-> Null, profile |-> profile]
    IN /\ NextCall /\ OnHandle
       /\ \E end \in CompressEnds :
             /\ Possible(e, end)
             /\ CompressJob(e, end)
             /\ result' = [op |-> "CompressHost", end |-> end, asked |-> asked,
                           used |-> Used(e, call', end),
                           answer |-> Returned(WorkerResult(end, CompressStatus(end)))]
       /\ UNCHANGED dec

CompressHostFails(profile) ==
    /\ NextCall /\ OnHandle
    /\ NoJob
    /\ \E end \in NoJobEnds :
          result' = [op |-> "NoJob", end |-> end,
                     answer |-> Returned(WorkerResult(end, CUDA))]

CompressAsync(stream, profile) ==
    LET e == [input |-> call', output |-> call', stream |-> stream, profile |-> profile]
    IN /\ NextCall /\ OnHandle
       /\ \E end \in CompressEnds :
             /\ Possible(e, end)
             /\ CompressJob(e, end)
             /\ result' = [op |-> "CompressAsync", end |-> end,
                           asked |-> [from |-> call', to |-> call',
                                      stream |-> stream, profile |-> profile],
                           used |-> Used(e, call', end),
                           answer |-> Returned(JobResult(end, CompressStatus(end)))]
       /\ UNCHANGED dec

\* compressFramed on a context of the caller's, as the CLI calls it
CompressDirect ==
    /\ NextCall /\ OnCliContext
    /\ \E end \in CompressEnds :
          /\ Possible(enc, end)
          /\ end = "wrapOut" => CliOutputFails
          /\ enc' = EncodeLeaves(enc, end)
          /\ wrapped' = WrapHolds(enc, call', end)
          /\ result' = [op |-> "CompressDirect", end |-> end,
                        asked |-> [from |-> call', to |-> Wrap, stream |-> Null, profile |-> FALSE],
                        used |-> Used(enc, call', end),
                        answer |-> Returned(JobResult(end, CompressStatus(end)))]
    /\ UNCHANGED <<dec, pending, last, latest>>

\* The decoder drains its events only when it succeeds.
DecodeEnds(d, end) ==
    \E events \in Events("dec", d.profile, end) :
        /\ IF d.stream = Null /\ end = "ok" THEN Finalize("dec", events)
           ELSE KeepPending("dec", events)
        /\ Recorded("dec", events)

\* decompressCore sets and clears the profiling flag; it takes the stream
\* that is there.
DecompressHost(profile) ==
    LET d == [dec EXCEPT !.profile = profile]
    IN /\ NextCall /\ OnHandle
       /\ \E end \in DecompressEnds :
             /\ DecodeEnds(d, end)
             /\ result' = [op |-> "DecompressHost", end |-> end,
                           asked |-> [stream |-> Null, profile |-> profile],
                           used |-> d,
                           answer |-> Returned(WorkerResult(end, DecompressStatus(end, FALSE)))]
       /\ dec' = [dec EXCEPT !.profile = FALSE]
       /\ UNCHANGED <<enc, wrapped>>

DecompressAsync(stream, profile) ==
    LET d == [stream |-> stream, profile |-> profile]
    IN /\ NextCall /\ OnHandle
       /\ \E end \in DecompressEnds \ {"output"} :
             /\ DecodeEnds(d, end)
             /\ result' = [op |-> "DecompressAsync", end |-> end,
                           asked |-> d,
                           used |-> d,
                           answer |-> Returned(JobResult(end, DecompressStatus(end, TRUE)))]
       /\ dec' = DecIdle
       /\ UNCHANGED <<enc, wrapped>>

\* slzGetLastTimings drains both directions and returns both.
GetLastTimings ==
    /\ OnHandle
    /\ result.op # "GetLastTimings"
    /\ last' = [w \in Ways |-> Drained(pending[w], last[w])]
    /\ pending' = [w \in Ways |-> {}]
    /\ result' = [op |-> "GetLastTimings", timings |-> last'["enc"] \cup last'["dec"]]
    /\ UNCHANGED <<call, enc, dec, wrapped, latest>>

Next == \/ \E profile \in BOOLEAN :
              \/ CompressHost(profile) \/ CompressHostFails(profile) \/ DecompressHost(profile)
              \/ \E stream \in Streams \cup {Null} :
                    CompressAsync(stream, profile) \/ DecompressAsync(stream, profile)
        \/ CompressDirect \/ GetLastTimings

Spec == Init /\ [][Next]_vars

-----------------------------------------------------------------------------
Calls == 1..MaxCalls

\* A call works with what it was given, whatever the calls before it left in
\* the contexts: its own input, output, stream and profiling flag.
UsesItsOwnArguments ==
    "used" \in DOMAIN result /\ result.end \in Done => result.used = result.asked

\* "result >= 0 is a byte count; errors are NEGATED" (streamlz_gpu.zig:300):
\* success is returned, with the size of the output, exactly when there is
\* an output.
StatusTellsOutcome ==
    "answer" \in DOMAIN result =>
        /\ result.answer.status = SUCCESS <=> result.end \in Done
        /\ result.answer.size = IF result.end \in Done THEN Bytes ELSE 0

\* The timings of the last call that recorded any survive every other call
\* until they are asked for, and asking for them again.
TimingsSurvive == \A w \in Ways : latest[w] # 0 => latest[w] \in pending[w] \cup last[w]
=============================================================================

----------------------------- MODULE CudaDevice -----------------------------
(***************************************************************************)
(* What the decode dispatch relies on from CUDA: streams, the legacy null   *)
(* stream, events, and operations that take time.  External to the          *)
(* repository; modelled from how src/src/decode calls it.                   *)
(*                                                                          *)
(* A device d is a record                                                   *)
(*   after    the queued operations, each with the unfinished operations    *)
(*            it has to wait for                                            *)
(*   front    per stream, what the next operation of that stream waits for  *)
(*   event    per event, what it was recorded after                         *)
(*   running  the operations that have started and not finished             *)
(* A finished operation is dropped from all four.                           *)
(***************************************************************************)
CONSTANTS Streams,   \* every stream, the null stream among them
          Null,      \* the legacy default stream
          Blocking,  \* the others created without CU_STREAM_NON_BLOCKING
          Events

IdleDevice == [after |-> <<>>,
               front |-> [s \in Streams |-> {}],
               event |-> [e \in Events |-> {}],
               running |-> {}]

Queued(d) == DOMAIN d.after

\* What an operation queued now on s waits for: its stream, and for the
\* null stream also every blocking stream.
Before(d, s) ==
    IF s = Null THEN UNION {d.front[t] : t \in Blocking \cup {Null}} ELSE d.front[s]

\* Queue one operation.  The blocking streams wait for a null-stream one.
Launch(d, s, id) ==
    [d EXCEPT !.after = [j \in Queued(d) \cup {id} |->
                            IF j = id THEN Before(d, s) ELSE d.after[j]],
              !.front = [t \in Streams |->
                            IF t = s \/ (s = Null /\ t \in Blocking) THEN {id} ELSE @[t]]]

\* cuEventRecord and cuStreamWaitEvent
Record(d, e, s) == [d EXCEPT !.event[e] = Before(d, s)]
WaitEvent(d, s, e) == [d EXCEPT !.front[s] = @ \cup d.event[e]]

\* An operation whose predecessors have finished may start; there is no
\* other limit on what runs side by side.
Startable(d) == {id \in Queued(d) \ d.running : d.after[id] = {}}
Started(d, id) == [d EXCEPT !.running = @ \cup {id}]
Finished(d, id) ==
    [after |-> [j \in Queued(d) \ {id} |-> d.after[j] \ {id}],
     front |-> [s \in Streams |-> d.front[s] \ {id}],
     event |-> [e \in Events |-> d.event[e] \ {id}],
     running |-> d.running \ {id}]
=============================================================================

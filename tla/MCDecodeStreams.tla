-------------------------- MODULE MCDecodeStreams --------------------------
(***************************************************************************)
(* Two or three calls on one handle.                                       *)
(***************************************************************************)
EXTENDS EncodeStreams

Call == [job |-> "decompress", source |-> "device", stream |-> "null", entropy |-> TRUE,
         merkle |-> "none", dict |-> 0, settled |-> FALSE, of |-> 0,
         later |-> FALSE]
HostCall(entropy, merkle, dict) ==
    [Call EXCEPT !.source = "host", !.entropy = entropy, !.merkle = merkle, !.dict = dict]
DeviceCall(stream, entropy, dict) ==
    [Call EXCEPT !.stream = stream, !.entropy = entropy, !.dict = dict]
Compress(source, stream, entropy, merkle) ==
    [Call EXCEPT !.job = "compress", !.source = source, !.stream = stream,
                 !.entropy = entropy, !.merkle = merkle]
Settled(r) == [r EXCEPT !.settled = TRUE]

\* Synchronous calls: host frames with and without entropy, one or two blocks
\* of Merkle hashes, two dictionaries, and a device frame on the null stream.
SyncRequests ==
    {HostCall(TRUE, "verdict", 1), HostCall(TRUE, "chunk", 0), HostCall(FALSE, "none", 2),
     DeviceCall("null", TRUE, 1)}

\* Asynchronous calls on one caller's stream, and a synchronous one among them.
AsyncRequests ==
    {DeviceCall("caller", TRUE, 1), DeviceCall("caller", TRUE, 2), DeviceCall("caller", FALSE, 0)}

\* Compressions, alone and next to each other.  On a non-blocking stream the input
\* is settled, as the encoder's copy of it does not wait for the caller's upload.
HostCompress == {Compress("host", "null", TRUE, "root"), Compress("host", "null", FALSE, "none")}
AsyncCompress ==
    {Compress("device", "caller", TRUE, "none"), Compress("device", "caller", FALSE, "root"),
     Compress("device", "null", FALSE, "none")}
FreeCompress == {Settled(Compress("device", "free", e, m)) : e \in BOOLEAN, m \in {"none", "root"}}
Compressions == HostCompress \cup AsyncCompress \cup FreeCompress

\* A frame is decompressed while its compression is in flight on the same stream.
RoundTrips ==
    {<<c, [DeviceCall("caller", TRUE, 0) EXCEPT !.of = 1]>> : c \in AsyncCompress}
      \cup {<<c, [Call EXCEPT !.of = 1]>> : c \in AsyncCompress}

CompressPlans ==
    {<<a, b>> : a, b \in Compressions} \cup RoundTrips
      \cup {<<a, c>> : a \in AsyncRequests, c \in Compressions}
      \cup {<<c, HostCall(TRUE, "verdict", 1)>> : c \in HostCompress \cup AsyncCompress}

\* The two blocks of one host frame: the second ends with the verdict.
TwoBlocks ==
    {<<HostCall(e, "chunk", d), [HostCall(e, "verdict", d) EXCEPT !.later = TRUE]>> :
        e \in BOOLEAN, d \in {0, 1}}

AllPlans ==
    TwoBlocks \cup {<<a, b>> : a, b \in SyncRequests} \cup {<<a, b>> : a, b \in AsyncRequests}
      \cup {<<a, HostCall(TRUE, "none", 1), b>> : a, b \in AsyncRequests}
      \cup CompressPlans

\* The gather stream may be missing except under a block whose Merkle chain
\* nobody waits for: without it that chain stays on the pipeline stream and
\* writes the chunk prefixes while finalizeOutput copies the same buffer
\* (decode_dispatch.zig:939; the README says more).
Aux == [p \in AllPlans |->
          IF \E i \in DOMAIN p : p[i].merkle = "chunk" THEN {TRUE} ELSE {TRUE, FALSE}]
=============================================================================

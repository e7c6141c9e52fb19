---------------------------- MODULE EncodeStreams ----------------------------
(***************************************************************************)
(* What a compression queues on which stream (fast_framed, encode_lz,      *)
(* encode_huff, encode_assemble), beside the decompressions of the same    *)
(* handle.  Every kernel but the frame assembly is on the null stream, and *)
(* nearly every host step ends in cuCtxSynchronize, which waits for all    *)
(* streams of the context, the callers' included.                          *)
(*                                                                         *)
(* Left out: dictionaries (Dictionary), growth (DeviceBuffers), batches    *)
(* under memory pressure, and a failed entropy pass, which the call        *)
(* answers by storing the stream raw.                                      *)
(***************************************************************************)
EXTENDS DecodeStreams

\* cuCtxSynchronize
DrainsContext_Null == waiting' = Cuda!Before(device', "null")  \* mutant: one stream only
DrainsContext == waiting' = Cuda!Queued(device')

Compresses(here) == At(here) /\ Req.job = "compress"
OnNull(ops) == device' = Queue(device, "null", ops)

\* The caller; then compressFramedOne takes host input through a wrap buffer ...
SubmitInput ==
    /\ Compresses("submit")
    /\ CallerUpload("UploadInput")
    /\ Goto(IF Req.source = "device" THEN "input" ELSE "wrap") /\ Returns /\ SameFlags

WrapInput ==
    /\ Compresses("wrap")
    /\ OnNull(<<"WrapInput">>) /\ Blocks({"WrapInput"})
    /\ Goto("input") /\ SameFlags

\* ... and gpuCompressImpl copies either to the encoder's own buffer.
StageInput ==
    /\ Compresses("input")
    /\ OnNull(<<"CopyInput", "CopyEncDescs", "ZeroSizes">>) /\ DrainsContext
    /\ Goto("encode") /\ SameFlags

LzEncode ==
    /\ Compresses("encode")
    /\ OnNull(<<"LzEncode">>) /\ DrainsContext
    /\ Goto(IF Req.merkle = "root" THEN "hash" ELSE "sizes") /\ SameFlags

\* The chunk hashes are not waited for.
HashChunks ==
    /\ Compresses("hash")
    /\ OnNull(<<"EncSegHash", "EncCombine">>) /\ Returns
    /\ Goto("sizes") /\ SameFlags

\* The compressed sizes, and for the entropy passes the streams, are read back.
ReadBack ==
    /\ Compresses("sizes")
    /\ LET ops == IF Req.entropy THEN <<"ReadSizes", "ReadRaw">> ELSE <<"ReadSizes">>
       IN OnNull(ops) /\ Blocks(Range(ops))
    /\ Goto(IF Req.entropy THEN "lit" ELSE "measure") /\ SameFlags

\* gpuEncodeHuffImpl, once for the literals, the tokens and the off16 planes.
AfterPass == [lit |-> "tok", tok |-> "off16", off16 |-> "measure"]
HuffEncode(x) ==
    /\ Compresses(x)
    /\ OnNull(HuffOps[x]) /\ DrainsContext
    /\ Goto(AfterPass[x]) /\ SameFlags

\* gpuAssembleFrameImpl: measure, read the sizes, write.
AssembleMeasure ==
    /\ Compresses("measure")
    /\ OnNull(<<"CopyAsmDescs", "Measure", "ReadAsmSizes">>) /\ DrainsContext
    /\ Goto("write") /\ SameFlags

AssembleWrite ==
    /\ Compresses("write")
    /\ OnNull(<<"CopyOffsets", "AsmWrite">>) /\ DrainsContext
    /\ Goto("layout") /\ SameFlags

\* gpuFrameAssembleImpl: upload the layout ...
CopyLayout ==
    /\ Compresses("layout")
    /\ OnNull(<<"CopyLayout">>) /\ Blocks({"CopyLayout"})
    /\ Goto("frame") /\ SameFlags

\* ... and assemble the frame on the caller's stream, without waiting if it has one.
AfterFrame(r) ==
    IF r.source = "host" THEN "table" ELSE IF r.merkle = "root" THEN "root" ELSE "download"
FrameAssemble ==
    /\ Compresses("frame")
    /\ device' = Queue(device, WorkStream, <<"FrameAssemble">>)
    /\ waiting' = IF WorkStream = "null" THEN Cuda!Queued(device') ELSE {}
    /\ Goto(AfterFrame(Req)) /\ SameFlags

\* The chunk-size table of a host frame.
SizeTable ==
    /\ Compresses("table")
    /\ OnNull(<<"SizeTable">>) /\ Blocks({"SizeTable"})
    /\ Goto(IF Req.merkle = "root" THEN "root" ELSE "finalize") /\ SameFlags

\* launchMerkleRootWrite
RootWrite ==
    /\ Compresses("root")
    /\ OnNull(<<"RootWrite">>) /\ DrainsContext
    /\ Goto(IF Req.source = "host" THEN "finalize" ELSE "download") /\ SameFlags

CompressStep ==
    \/ SubmitInput \/ WrapInput \/ StageInput \/ LzEncode \/ HashChunks \/ ReadBack
    \/ \E x \in HuffPasses : HuffEncode(x)
    \/ AssembleMeasure \/ AssembleWrite \/ CopyLayout \/ FrameAssemble \/ SizeTable \/ RootWrite

Next == HostStep \/ CompressStep \/ Start \/ Finish \/ Done
Spec == Init /\ [][Next]_vars
=============================================================================

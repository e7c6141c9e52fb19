-------------------------- MODULE EncodeOperations --------------------------
(***************************************************************************)
(* The operations a compression puts on the device and the places they     *)
(* touch.  Kernels and copies are one operation each; what they compute is *)
(* in LzTokens, Huffman, SubChunkFormat and FrameAssembly.  The caller's   *)
(* input, output frame and trailer are its own; the rest belongs to the    *)
(* encode context, and consecutive calls share it.                         *)
(***************************************************************************)

EncodeOfTheCaller == {"input", "trailer"}

EncodeScratch == {"wrap_input", "enc_input", "enc_descs", "enc_sizes", "enc_raw", "enc_segments",
                  "enc_hashes", "huff_descs_enc", "huff_codes", "huff_sizes", "body_lit",
                  "body_tok", "body_off16", "asm_descs", "asm_sizes", "asm_out", "layout"}

\* The three entropy passes share everything but the buffer of their bodies:
\* upload of the descriptors, two kernels, and the sizes read back.
HuffPasses == {"lit", "tok", "off16"}
HuffOps == [lit   |-> <<"DescsLit", "TablesLit", "EncodeLit", "SizesLit">>,
            tok   |-> <<"DescsTok", "TablesTok", "EncodeTok", "SizesTok">>,
            off16 |-> <<"DescsOff16", "TablesOff16", "EncodeOff16", "SizesOff16">>]
IsHuff(op, i) == \E x \in HuffPasses : op = HuffOps[x][i]
BodyOf == [lit |-> "body_lit", tok |-> "body_tok", off16 |-> "body_off16"]
BodyWritten(op) == {BodyOf[x] : x \in {y \in HuffPasses : op = HuffOps[y][3]}}

Input(r)  == IF r.source = "device" THEN "input" ELSE "wrap_input"
Bodies(r) == IF r.entropy THEN {BodyOf[x] : x \in HuffPasses} ELSE {}

\* What the encoder's output is read from: the frame, and the root behind it.
FrameParts(r) == {"target"} \union (IF r.merkle = "root" THEN {"trailer"} ELSE {})

EncodeAccess(op, r) ==
    LET RW(reads, writes) == [reads |-> reads, writes |-> writes]
        AsmReads == {"enc_raw", "asm_descs"} \union Bodies(r)
    IN CASE op = "UploadInput"   -> RW({}, {"input"})
         [] op = "WrapInput"     -> RW({}, {"wrap_input"})
         [] op = "CopyInput"     -> RW({Input(r)}, {"enc_input"})
         [] op = "CopyEncDescs"  -> RW({}, {"enc_descs"})
         [] op = "ZeroSizes"     -> RW({}, {"enc_sizes"})
         [] op = "LzEncode"      -> RW({"enc_input", "enc_descs"}, {"enc_raw", "enc_sizes"})
         [] op = "EncSegHash"    -> RW({"enc_input"}, {"enc_segments"})
         [] op = "EncCombine"    -> RW({"enc_segments"}, {"enc_hashes"})
         [] op = "ReadSizes"     -> RW({"enc_sizes"}, {})
         [] op = "ReadRaw"       -> RW({"enc_raw"}, {})
         [] IsHuff(op, 1)        -> RW({}, {"huff_descs_enc"})
         [] IsHuff(op, 2)        -> RW({"enc_raw", "huff_descs_enc"}, {"huff_codes"})
         [] IsHuff(op, 3)        -> RW({"enc_raw", "huff_descs_enc", "huff_codes"},
                                       {"huff_sizes"} \union BodyWritten(op))
         [] IsHuff(op, 4)        -> RW({"huff_sizes"}, {})
         [] op = "CopyAsmDescs"  -> RW({}, {"asm_descs"})
         [] op = "Measure"       -> RW(AsmReads, {"asm_sizes"})
         [] op = "ReadAsmSizes"  -> RW({"asm_sizes"}, {})
         [] op = "CopyOffsets"   -> RW({}, {"asm_descs"})
         [] op = "AsmWrite"      -> RW(AsmReads, {"asm_out"})
         [] op = "CopyLayout"    -> RW({}, {"layout"})
         [] op = "FrameAssemble" -> RW({"asm_out", "layout", Input(r)}, {"target"})
         [] op = "SizeTable"     -> RW({"target"}, {"target"})
         [] op = "RootWrite"     -> RW({"enc_hashes"}, {"trailer"})
         [] op = "Download"      -> RW(FrameParts(r), {"result"})
=============================================================================

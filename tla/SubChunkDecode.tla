--------------------------- MODULE SubChunkDecode ---------------------------
(***************************************************************************)
(* What every raw-mode sub-chunk decoder promises, however many warps it   *)
(* uses: the output is at all times the serial decode of a prefix of the   *)
(* token stream, the prefix only grows, and in the end it is the whole     *)
(* stream with its trailing literals.                                      *)
(***************************************************************************)
EXTENDS RawTokens

VARIABLES
    stream,     \* the sub-chunk decoded
    serial,     \* its decode, one token at a time: registers and output
    tokens,     \* tokens decoded so far
    out,        \* their bytes, in order
    finished

vars == <<stream, serial, tokens, out, finished>>

Init == /\ stream \in Streams
        /\ serial = Reference(stream)
        /\ tokens = 0
        /\ out = serial[0].out
        /\ finished = FALSE

\* The next tokens, one or several at a time.
DecodeTokens == \E n \in tokens + 1 .. Len(stream.cmd) :
               /\ tokens' = n
               /\ out' = serial[n].out
               /\ UNCHANGED <<stream, serial, finished>>

Finish == /\ tokens = Len(stream.cmd)
          /\ ~finished
          /\ finished' = TRUE
          /\ out' = Decoded(stream, serial)
          /\ UNCHANGED <<stream, serial, tokens>>

Next == DecodeTokens \/ Finish

Spec == Init /\ [][Next]_vars
=============================================================================

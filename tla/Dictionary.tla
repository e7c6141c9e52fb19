----------------------------- MODULE Dictionary -----------------------------
(***************************************************************************)
(* Preset dictionaries of one handle: the store of registered dictionaries *)
(* and the device cache of each direction.  Each call resolves the ID it   *)
(* was given, makes the bytes resident unless the cache says they are, and *)
(* passes the cached buffer to its kernels.  The cache is looked up by ID  *)
(* and length, and by the encoder's hash_bits; what is really on the       *)
(* device is kept here to tell whether that is enough.                     *)
(***************************************************************************)
EXTENDS Naturals

CONSTANTS Builtins,   \* compiled-in dictionaries
          Customs,    \* dictionaries an application registers
          Id, Length, \* customId or the built-in number, and the length
          HashBits,   \* what hashBitsForLevel returns for the levels
          Nothing     \* device memory that holds no dictionary

Dicts == Builtins \cup Customs

\* customId hashes the bytes; two dictionaries with one hash are excluded.
ASSUME IdAssumption ==
    /\ Id \in [Dicts -> Nat \ {0}] /\ Length \in [Dicts -> Nat]
    /\ \A d, e \in Dicts : Id[d] = Id[e] => d = e
    /\ Nothing \notin Dicts
    /\ HashBits \subseteq Nat

VARIABLES store,    \* registered_dicts of each direction
          promised, \* dictionaries slzSetDictionary returned an ID for
          cached,   \* dict_cached_id, _len and _hash_bits of each direction
          bytes,    \* what d_dict of each direction holds
          table,    \* what the encoder's d_dict_table was built from
          armed,    \* dict_armed
          frame,    \* the last frame: the ID in its header, what its kernels
                    \* read and the hash bits they probed the table with
          decoded   \* what the last decode's kernels read, and should have read

vars == <<store, promised, cached, bytes, table, armed, frame, decoded>>

Sides == {"enc", "dec"}
NoCache == [id |-> 0, len |-> 0, bits |-> 0]
Plain == [id |-> 0, bytes |-> Nothing, table |-> Nothing, bits |-> 0]

Init == /\ store = [s \in Sides |-> {}]
        /\ promised = {}
        /\ cached = [s \in Sides |-> NoCache]
        /\ bytes = [s \in Sides |-> Nothing]
        /\ table = Nothing
        /\ armed = FALSE
        /\ frame = Plain
        /\ decoded = [used |-> Nothing, made |-> Nothing]

\* resolve: the registered dictionaries first, then the built-in ones.
Named(s, id) == IF \E d \in store[s] : Id[d] = id
                THEN {d \in store[s] : Id[d] = id}
                ELSE {d \in Builtins : Id[d] = id}

\* registerDict: a dictionary whose ID is known already is not stored again.
Registered(s, d) == IF \E e \in store[s] : Id[e] = Id[d]
                    THEN store[s] ELSE store[s] \cup {d}

SetDictionary_EncoderOnly(d) ==            \* mutant
    /\ store' = [store EXCEPT !["enc"] = Registered("enc", d)]
    /\ promised' = promised \cup {d}
    /\ UNCHANGED <<cached, bytes, table, armed, frame, decoded>>

SetDictionary(d) ==
    /\ store' = [s \in Sides |-> Registered(s, d)]
    /\ promised' = promised \cup {d}
    /\ UNCHANGED <<cached, bytes, table, armed, frame, decoded>>

\* Out of host memory in one of the two registrations: the encoder's stays.
SetDictionaryFails(d) ==
    /\ \E s \in Sides : /\ Registered(s, d) # store[s]
                        /\ store' = IF s = "enc" THEN store
                                    ELSE [store EXCEPT !["enc"] = Registered("enc", d)]
    /\ UNCHANGED <<promised, cached, bytes, table, armed, frame, decoded>>

\* What the cache is looked up with; the decoder has no table and no hash bits.
Key(s, d, b) == [id |-> Id[d], len |-> Length[d], bits |-> IF s = "enc" THEN b ELSE 0]
TableOf(d, b) == [dict |-> d, bits |-> b]

\* ensureDictOnDevice: nothing to do, or the ID is cleared, the bytes (and
\* the encoder's table) are uploaded and the key is set.
Ensure(s, d, b) ==
    IF cached[s] = Key(s, d, b)
    THEN UNCHANGED <<cached, bytes, table>>
    ELSE /\ cached' = [cached EXCEPT ![s] = Key(s, d, b)]
         /\ bytes' = [bytes EXCEPT ![s] = d]
         /\ table' = IF s = "enc" THEN TableOf(d, b) ELSE table

\* Its failures, anywhere after the ID was cleared.  A grown buffer and an
\* interrupted copy hold nothing of use.
EnsureFails_KeepsId(s, d, b) ==            \* mutant
    /\ cached[s] # Key(s, d, b)
    /\ \E held \in {bytes[s], Nothing, d} : bytes' = [bytes EXCEPT ![s] = held]
    /\ \/ table' = table
       \/ s = "enc" /\ table' = Nothing
    /\ UNCHANGED cached
EnsureFails(s, d, b) ==
    /\ cached[s] # Key(s, d, b)
    /\ cached' = [cached EXCEPT ![s].id = 0]
    /\ \E held \in {bytes[s], Nothing, d} : bytes' = [bytes EXCEPT ![s] = held]
    /\ \/ table' = table
       \/ s = "enc" /\ table' = Nothing

\* compressFramed.  A frame without a dictionary, one with a dictionary, and
\* a call that fails before or after the kernels were given the dictionary
\* and so makes no frame.
CompressPlain_Armed ==                     \* mutant: dict_armed is left as it was
    /\ frame' = IF armed THEN [Plain EXCEPT !.bytes = bytes["enc"], !.table = table]
                ELSE Plain
    /\ UNCHANGED <<store, promised, cached, bytes, table, armed, decoded>>
CompressPlain ==
    /\ armed' = FALSE
    /\ frame' = Plain
    /\ UNCHANGED <<store, promised, cached, bytes, table, decoded>>

CompressWith(id, b) ==
    /\ \E d \in Named("enc", id) : Ensure("enc", d, b)
    /\ armed' = TRUE
    /\ \/ frame' = [id |-> id, bytes |-> bytes'["enc"], table |-> table', bits |-> b]
       \/ UNCHANGED frame
    /\ UNCHANGED <<store, promised, decoded>>

CompressFails(id, b) ==
    /\ \E d \in Named("enc", id) : EnsureFails("enc", d, b)
    /\ armed' = FALSE
    /\ UNCHANGED <<store, promised, frame, decoded>>

\* releaseDeviceBuffers
Trim == /\ bytes' = [bytes EXCEPT !["enc"] = Nothing]
        /\ table' = Nothing
        /\ cached' = [cached EXCEPT !["enc"] = NoCache]
        /\ armed' = FALSE
        /\ UNCHANGED <<store, promised, frame, decoded>>

\* Decoding this handle's last frame, or one made elsewhere
Frames == {[id |-> frame.id, bytes |-> frame.bytes], [id |-> 0, bytes |-> Nothing]}
             \cup {[id |-> Id[d], bytes |-> d] : d \in Dicts}

Decompress(f) ==
    /\ IF f.id = 0
       THEN /\ decoded' = [used |-> Nothing, made |-> f.bytes]
            /\ UNCHANGED <<cached, bytes, table>>
       ELSE /\ \E d \in Named("dec", f.id) : Ensure("dec", d, 0)
            /\ decoded' = [used |-> bytes'["dec"], made |-> f.bytes]
    /\ UNCHANGED <<store, promised, armed, frame>>

DecompressFails(f) ==
    /\ \E d \in Named("dec", f.id) : EnsureFails("dec", d, 0)
    /\ UNCHANGED <<store, promised, armed, frame, decoded>>

Ids == {Id[d] : d \in Dicts}

Next == \/ \E d \in Customs : SetDictionary(d) \/ SetDictionaryFails(d)
        \/ \E id \in Ids, b \in HashBits : CompressWith(id, b) \/ CompressFails(id, b)
        \/ \E f \in Frames : Decompress(f) \/ DecompressFails(f)
        \/ CompressPlain \/ Trim

Spec == Init /\ [][Next]_vars

-----------------------------------------------------------------------------
Held == Dicts \cup {Nothing}
Cache == [id : Ids \cup {0}, len : Nat, bits : Nat]
Tables == [dict : Dicts, bits : HashBits] \cup {Nothing}

TypeOK ==
    /\ store \in [Sides -> SUBSET Customs]
    /\ promised \subseteq Customs
    /\ cached \in [Sides -> Cache]
    /\ bytes \in [Sides -> Held] /\ table \in Tables
    /\ armed \in BOOLEAN
    /\ frame \in [id : Ids \cup {0}, bytes : Held, table : Tables, bits : Nat]
    /\ decoded \in [used : Held, made : Held]

\* Whatever failed before, an ID in the cache means that those bytes, and the
\* table built from them with the cached hash bits, are on the device.
CacheIsResident ==
    /\ \A s \in Sides : cached[s].id # 0 =>
          bytes[s] # Nothing /\ cached[s] = Key(s, bytes[s], cached[s].bits)
    /\ cached["enc"].id # 0 => table = TableOf(bytes["enc"], cached["enc"].bits)

\* A frame was made with the dictionary its header names, the bytes and a
\* table built from them with the hash bits it is probed with, and a frame
\* that names none was made without ("a dictionary-less frame must encode
\* exactly as before", encode_lz.zig:216).
MadeWithWhatItNames ==
    IF frame.id = 0 THEN frame = Plain
    ELSE /\ frame.bytes # Nothing /\ frame.id = Id[frame.bytes]
         /\ frame.table = TableOf(frame.bytes, frame.bits)

\* A frame is decoded with the bytes it was made with, or not at all.
DecodedWithTheSameBytes == decoded.used = decoded.made

\* An ID slzSetDictionary returned names those bytes in both directions for
\* as long as the handle lives.
ReturnedIdsResolve == \A d \in promised, s \in Sides : Named(s, Id[d]) = {d}
=============================================================================

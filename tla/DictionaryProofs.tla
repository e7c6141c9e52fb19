-------------------------- MODULE DictionaryProofs --------------------------
(***************************************************************************)
(* The dictionary cache is looked up by a key, never by the bytes.          *)
(* CacheIsResident is what makes that enough, and with TypeOK it is         *)
(* inductive: a failed upload clears the ID before it touches the bytes.    *)
(***************************************************************************)
EXTENDS Dictionary, TLAPS

\* With distinct IDs an ID names one dictionary.
LEMMA OneName ==
  ASSUME TypeOK, NEW s \in Sides, NEW id, NEW d \in Named(s, id)
  PROVE  d \in Dicts /\ Id[d] = id /\ Id[d] # 0
BY IdAssumption DEF Named, TypeOK, Dicts

\* What Ensure leaves: the bytes, the table and the cache agree.
LEMMA EnsureCaches ==
  ASSUME TypeOK, CacheIsResident, NEW s \in Sides, NEW d \in Dicts, NEW b, Ensure(s, d, b)
  PROVE  /\ cached' = [cached EXCEPT ![s] = Key(s, d, b)]
         /\ bytes' = [bytes EXCEPT ![s] = d]
         /\ table' = IF s = "enc" THEN TableOf(d, b) ELSE table
<1>1. CASE cached[s] # Key(s, d, b)
  BY <1>1 DEF Ensure
<1>2. CASE cached[s] = Key(s, d, b)
  <2>1. cached[s].id = Id[d] /\ Id[d] # 0
    BY <1>2, IdAssumption DEF Key
  <2>2. bytes[s] \in Dicts /\ Id[bytes[s]] = Id[d]
    BY <2>1 DEF CacheIsResident, Key, TypeOK, Held
  <2>3. bytes[s] = d
    BY <2>2, IdAssumption
  <2>4. s = "enc" => table = TableOf(d, b)
    <3>1. s = "enc" => cached[s].bits = b
      BY <1>2 DEF Key
    <3>. QED  BY <2>1, <2>3, <3>1 DEF CacheIsResident
  <2>5. cached = [cached EXCEPT ![s] = Key(s, d, b)] /\ bytes = [bytes EXCEPT ![s] = d]
    BY <1>2, <2>3 DEF TypeOK
  <2>. QED  BY <1>2, <2>4, <2>5 DEF Ensure
<1>. QED  BY <1>1, <1>2

IInv == TypeOK /\ CacheIsResident /\ MadeWithWhatItNames

\* Nothing is cached or resident at the start.
LEMMA InitInv == Init => IInv
<1>. SUFFICES ASSUME Init PROVE IInv
  OBVIOUS
<1>. USE DEF Init, Sides
<1>1. TypeOK
  BY DEF TypeOK, Cache, NoCache, Held, Tables, Plain
<1>2. CacheIsResident
  BY DEF CacheIsResident, NoCache
<1>3. MadeWithWhatItNames
  BY DEF MadeWithWhatItNames, Plain
<1>. QED  BY <1>1, <1>2, <1>3 DEF IInv

\* Ensure keeps types and the cache's promise.
LEMMA EnsureStep ==
  ASSUME TypeOK, CacheIsResident, NEW s \in Sides, NEW d \in Dicts, NEW b \in Nat,
         s = "enc" => b \in HashBits, Ensure(s, d, b)
  PROVE  /\ cached' \in [Sides -> Cache] /\ bytes' \in [Sides -> Held] /\ table' \in Tables
         /\ CacheIsResident'
<1>1. /\ cached' = [cached EXCEPT ![s] = Key(s, d, b)]
      /\ bytes' = [bytes EXCEPT ![s] = d]
      /\ table' = IF s = "enc" THEN TableOf(d, b) ELSE table
  BY EnsureCaches
<1>2. Key(s, d, b) \in Cache /\ d \in Held /\ d # Nothing
  BY IdAssumption DEF Cache, Key, Ids, Held
<1>3. cached' \in [Sides -> Cache] /\ bytes' \in [Sides -> Held] /\ table' \in Tables
  BY <1>1, <1>2 DEF TypeOK, Tables, TableOf
<1>4. Key(s, d, b) = Key(s, d, Key(s, d, b).bits) /\ (s = "enc" => Key(s, d, b).bits = b)
  BY DEF Key
<1>5. CacheIsResident'
  BY <1>1, <1>2, <1>4 DEF CacheIsResident, TypeOK, Sides
<1>. QED  BY <1>3, <1>5

\* So does a failed upload: its side's ID is 0.
LEMMA EnsureFailsStep ==
  ASSUME TypeOK, CacheIsResident, NEW s \in Sides, NEW d \in Dicts, NEW b, EnsureFails(s, d, b)
  PROVE  /\ cached' \in [Sides -> Cache] /\ bytes' \in [Sides -> Held] /\ table' \in Tables
         /\ CacheIsResident'
<1>1. cached' = [cached EXCEPT ![s].id = 0]
  BY DEF EnsureFails
<1>2. cached[s] \in Cache /\ [cached[s] EXCEPT !.id = 0] \in Cache /\ [cached[s] EXCEPT !.id = 0].id = 0
  BY DEF TypeOK, Cache
<1>3. cached' \in [Sides -> Cache] /\ cached'[s].id = 0
  BY <1>1, <1>2 DEF TypeOK
<1>4. bytes' \in [Sides -> Held] /\ table' \in Tables
  <2>1. PICK held \in {bytes[s], Nothing, d} : bytes' = [bytes EXCEPT ![s] = held]
    BY DEF EnsureFails
  <2>2. held \in Held
    BY DEF TypeOK, Held
  <2>3. bytes' \in [Sides -> Held]
    BY <2>1, <2>2 DEF TypeOK
  <2>4. table' \in Tables
    BY DEF EnsureFails, TypeOK, Tables
  <2>. QED  BY <2>3, <2>4
<1>5. ASSUME NEW t \in Sides, t # s PROVE cached'[t] = cached[t] /\ bytes'[t] = bytes[t]
  BY <1>5 DEF EnsureFails, TypeOK
<1>6. s # "enc" => table' = table
  BY DEF EnsureFails
<1>7. CacheIsResident'
  <2>1. ASSUME NEW t \in Sides, cached'[t].id # 0
        PROVE bytes'[t] # Nothing /\ cached'[t] = Key(t, bytes'[t], cached'[t].bits)
    <3>1. t # s
      BY <1>3, <2>1
    <3>. QED  BY <1>5, <2>1, <3>1 DEF CacheIsResident
  <2>2. cached'["enc"].id # 0 => table' = TableOf(bytes'["enc"], cached'["enc"].bits)
    BY <1>3, <1>5, <1>6 DEF CacheIsResident, Sides
  <2>. QED  BY <2>1, <2>2 DEF CacheIsResident
<1>. QED  BY <1>3, <1>4, <1>7

\* Types and the cache's promise survive every step.
LEMMA CacheStep ==
  ASSUME TypeOK, CacheIsResident, [Next]_vars
  PROVE  TypeOK' /\ CacheIsResident'
<1>. DEFINE Kept == UNCHANGED <<cached, bytes, table>>
<1>1. ASSUME NEW d \in Customs, SetDictionary(d) \/ SetDictionaryFails(d)
      PROVE TypeOK' /\ CacheIsResident'
  <2>1. store' \in [Sides -> SUBSET Customs]
    BY <1>1 DEF SetDictionary, SetDictionaryFails, Registered, TypeOK, Sides
  <2>2. Kept /\ promised' \subseteq Customs /\ UNCHANGED <<armed, frame, decoded>>
    BY <1>1 DEF SetDictionary, SetDictionaryFails, TypeOK
  <2>. QED  BY <2>1, <2>2 DEF TypeOK, CacheIsResident
<1>2. ASSUME NEW id \in Ids, NEW b \in HashBits, CompressWith(id, b) PROVE TypeOK' /\ CacheIsResident'
  <2>1. PICK d \in Named("enc", id) : Ensure("enc", d, b)
    BY <1>2 DEF CompressWith
  <2>2. d \in Dicts /\ b \in Nat
    BY OneName, IdAssumption DEF Sides
  <2>3. /\ cached' \in [Sides -> Cache] /\ bytes' \in [Sides -> Held] /\ table' \in Tables
        /\ CacheIsResident'
    BY <2>1, <2>2, EnsureStep DEF Sides
  <2>4. frame' \in [id : Ids \cup {0}, bytes : Held, table : Tables, bits : Nat]
    BY <1>2, <2>2, <2>3 DEF CompressWith, TypeOK, Sides
  <2>. QED  BY <1>2, <2>3, <2>4 DEF CompressWith, TypeOK
<1>3. ASSUME NEW id \in Ids, NEW b \in HashBits, CompressFails(id, b) PROVE TypeOK' /\ CacheIsResident'
  <2>1. PICK d \in Named("enc", id) : EnsureFails("enc", d, b)
    BY <1>3 DEF CompressFails
  <2>2. d \in Dicts
    BY OneName DEF Sides
  <2>3. /\ cached' \in [Sides -> Cache] /\ bytes' \in [Sides -> Held] /\ table' \in Tables
        /\ CacheIsResident'
    BY <2>1, <2>2, EnsureFailsStep DEF Sides
  <2>. QED  BY <1>3, <2>3 DEF CompressFails, TypeOK
<1>4. ASSUME NEW f \in Frames, Decompress(f) PROVE TypeOK' /\ CacheIsResident'
  <2>1. f.bytes \in Held
    BY DEF Frames, TypeOK, Held
  <2>2. CASE f.id = 0
    <3>1. Kept /\ decoded' \in [used : Held, made : Held] /\ UNCHANGED <<store, promised, armed, frame>>
      BY <1>4, <2>1, <2>2 DEF Decompress, Held
    <3>. QED  BY <3>1 DEF TypeOK, CacheIsResident
  <2>3. CASE f.id # 0
    <3>1. PICK d \in Named("dec", f.id) : Ensure("dec", d, 0)
      BY <1>4, <2>3 DEF Decompress
    <3>2. d \in Dicts
      BY OneName DEF Sides
    <3>3. /\ cached' \in [Sides -> Cache] /\ bytes' \in [Sides -> Held] /\ table' \in Tables
          /\ CacheIsResident'
      BY <3>1, <3>2, EnsureStep DEF Sides
    <3>4. decoded' \in [used : Held, made : Held]
      BY <1>4, <2>1, <2>3, <3>3 DEF Decompress, Sides
    <3>. QED  BY <1>4, <3>3, <3>4 DEF Decompress, TypeOK
  <2>. QED  BY <2>2, <2>3
<1>5. ASSUME NEW f \in Frames, DecompressFails(f) PROVE TypeOK' /\ CacheIsResident'
  <2>1. PICK d \in Named("dec", f.id) : EnsureFails("dec", d, 0)
    BY <1>5 DEF DecompressFails
  <2>2. d \in Dicts
    BY OneName DEF Sides
  <2>3. /\ cached' \in [Sides -> Cache] /\ bytes' \in [Sides -> Held] /\ table' \in Tables
        /\ CacheIsResident'
    BY <2>1, <2>2, EnsureFailsStep DEF Sides
  <2>. QED  BY <1>5, <2>3 DEF DecompressFails, TypeOK
<1>6. CASE CompressPlain
  <2>1. Plain \in [id : Ids \cup {0}, bytes : Held, table : Tables, bits : Nat]
    BY DEF Plain, Held, Tables
  <2>. QED  BY <1>6, <2>1 DEF CompressPlain, TypeOK, CacheIsResident
<1>7. CASE Trim
  <2>1. NoCache \in Cache /\ Nothing \in Held /\ Nothing \in Tables
    BY DEF Cache, NoCache, Held, Tables
  <2>2. cached' = [cached EXCEPT !["enc"] = NoCache] /\ bytes' = [bytes EXCEPT !["enc"] = Nothing]
    BY <1>7 DEF Trim
  <2>3. CacheIsResident'
    BY <2>2 DEF TypeOK, CacheIsResident, NoCache, Sides
  <2>. QED  BY <1>7, <2>1, <2>3 DEF Trim, TypeOK
<1>8. CASE UNCHANGED vars
  BY <1>8 DEF vars, TypeOK, CacheIsResident
<1>. QED  BY <1>1, <1>2, <1>3, <1>4, <1>5, <1>6, <1>7, <1>8 DEF Next

\* A frame is made after its dictionary was ensured.
LEMMA FrameStep ==
  ASSUME IInv, [Next]_vars
  PROVE  MadeWithWhatItNames'
<1>1. ASSUME NEW id \in Ids, NEW b \in HashBits, CompressWith(id, b), UNCHANGED frame => FALSE
      PROVE MadeWithWhatItNames'
  <2>1. PICK d \in Named("enc", id) : Ensure("enc", d, b)
    BY <1>1 DEF CompressWith
  <2>2. d \in Dicts /\ Id[d] = id /\ Id[d] # 0 /\ d # Nothing
    BY OneName, IdAssumption DEF IInv, Sides
  <2>3. bytes'["enc"] = d /\ table' = TableOf(d, b)
    BY <2>1, <2>2, EnsureCaches DEF IInv, Sides, TypeOK
  <2>4. frame' = [id |-> id, bytes |-> bytes'["enc"], table |-> table', bits |-> b]
    BY <1>1 DEF CompressWith
  <2>. QED  BY <2>2, <2>3, <2>4 DEF MadeWithWhatItNames
<1>2. CASE CompressPlain
  BY <1>2 DEF CompressPlain, MadeWithWhatItNames, Plain
<1>3. CASE UNCHANGED frame
  BY <1>3 DEF IInv, MadeWithWhatItNames
<1>4. UNCHANGED frame \/ CompressPlain \/ \E id \in Ids, b \in HashBits : CompressWith(id, b)
  BY Zenon DEF Next, vars, SetDictionary, SetDictionaryFails, CompressFails, Decompress,
               DecompressFails, Trim
<1>. QED  BY <1>1, <1>2, <1>3, <1>4

\* So the three hold throughout, whatever the dictionaries.
LEMMA Invariance == Spec => []IInv
<1>1. IInv /\ [Next]_vars => IInv'
  BY CacheStep, FrameStep DEF IInv
<1>. QED  BY InitInv, <1>1, PTL DEF Spec

\* The cache never claims bytes that are not on the device.
THEOREM CacheHolds == Spec => []CacheIsResident
<1>1. IInv => CacheIsResident
  BY DEF IInv
<1>. QED  BY Invariance, <1>1, PTL

\* Every frame was made with the dictionary its header names.
THEOREM FramesAreHonest == Spec => []MadeWithWhatItNames
<1>1. IInv => MadeWithWhatItNames
  BY DEF IInv
<1>. QED  BY Invariance, <1>1, PTL

\* A decode reads the bytes the frame was made with: the ID picks one
\* dictionary on both sides.
LEMMA DecodedStep ==
  ASSUME IInv, DecodedWithTheSameBytes, [Next]_vars
  PROVE  DecodedWithTheSameBytes'
<1>1. ASSUME NEW f \in Frames, Decompress(f) PROVE decoded'.used = decoded'.made
  <2>1. CASE f.id = 0
    <3>1. f.bytes = Nothing
      BY <2>1, IdAssumption DEF Frames, IInv, MadeWithWhatItNames, Plain
    <3>. QED  BY <1>1, <2>1, <3>1 DEF Decompress
  <2>2. CASE f.id # 0
    <3>1. PICK d \in Named("dec", f.id) : Ensure("dec", d, 0)
      BY <1>1, <2>2 DEF Decompress
    <3>2. d \in Dicts /\ Id[d] = f.id
      BY OneName DEF Sides, IInv
    <3>3. bytes'["dec"] = d
      BY <3>1, <3>2, EnsureCaches DEF IInv, Sides, TypeOK
    <3>4. f.bytes \in Dicts /\ Id[f.bytes] = f.id
      BY <2>2 DEF Frames, IInv, MadeWithWhatItNames, TypeOK, Held
    <3>5. f.bytes = d
      BY <3>2, <3>4, IdAssumption
    <3>. QED  BY <1>1, <2>2, <3>3, <3>5 DEF Decompress
  <2>. QED  BY <2>1, <2>2
<1>2. UNCHANGED decoded \/ \E f \in Frames : Decompress(f)
  BY Zenon DEF Next, vars, SetDictionary, SetDictionaryFails, CompressWith, CompressFails,
               CompressPlain, DecompressFails, Trim
<1>. QED  BY <1>1, <1>2 DEF DecodedWithTheSameBytes

\* Decoding uses the bytes of the encoder, for any dictionaries with distinct
\* IDs and any failed uploads on either side.
THEOREM SameBytes == Spec => []DecodedWithTheSameBytes
<1>1. Init => DecodedWithTheSameBytes
  BY DEF Init, DecodedWithTheSameBytes
<1>2. IInv /\ DecodedWithTheSameBytes /\ [Next]_vars => DecodedWithTheSameBytes'
  BY DecodedStep
<1>. QED  BY Invariance, <1>1, <1>2, PTL DEF Spec

Stored == \A s \in Sides : promised \subseteq store[s]

\* A returned ID has its dictionary in both stores, and stores only grow.
LEMMA StoredStep ==
  ASSUME TypeOK, Stored, [Next]_vars
  PROVE  Stored'
<1>1. ASSUME NEW d \in Customs, NEW s \in Sides
      PROVE store[s] \subseteq Registered(s, d) /\ d \in Registered(s, d)
  BY IdAssumption DEF Registered, TypeOK, Dicts
<1>2. ASSUME NEW d \in Customs, SetDictionary(d) PROVE Stored'
  BY <1>1, <1>2 DEF SetDictionary, Stored
<1>3. ASSUME NEW d \in Customs, SetDictionaryFails(d) PROVE Stored'
  BY <1>1, <1>3 DEF SetDictionaryFails, Stored, TypeOK, Sides
<1>4. CASE UNCHANGED <<store, promised>>
  BY <1>4 DEF Stored
<1>5. UNCHANGED <<store, promised>> \/ \E d \in Customs : SetDictionary(d) \/ SetDictionaryFails(d)
  BY Zenon DEF Next, vars, CompressWith, CompressFails, CompressPlain, Decompress,
               DecompressFails, Trim
<1>. QED  BY <1>2, <1>3, <1>4, <1>5

\* An ID that slzSetDictionary returned names its dictionary on both sides.
THEOREM IdsResolve == Spec => []ReturnedIdsResolve
<1>1. Init => Stored
  BY DEF Init, Stored
<1>2. IInv /\ Stored /\ [Next]_vars => Stored'
  BY StoredStep DEF IInv
<1>3. IInv /\ Stored => ReturnedIdsResolve
  BY IdAssumption DEF IInv, TypeOK, Stored, ReturnedIdsResolve, Named, Dicts
<1>. QED  BY Invariance, <1>1, <1>2, <1>3, PTL DEF Spec
=============================================================================

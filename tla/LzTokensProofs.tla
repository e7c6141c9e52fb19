--------------------------- MODULE LzTokensProofs ---------------------------
(***************************************************************************)
(* Writer and reader of one token, length or offset class, for every value *)
(* and not only the instances' sets: the decoder takes what emitCmd wrote  *)
(* for the same form, reads the same numbers and moves each cursor by what *)
(* was written.                                                            *)
(***************************************************************************)
EXTENDS LzTokens, TLAPS

\* The largest value that the longer form of a length holds: 255 + 4 * 65535.
LENGTH_MAX == 262395

\* The bytes of t lie in the length stream from offset o on.
LengthsAt(o, t) == /\ s.len \in Seq(Nat) /\ o + Len(t) <= Len(s.len)
                   /\ \A i \in 1 .. Len(t) : s.len[o + i] = t[i]

\* The division behind the longer form of a length.
LEMMA DivMod ==
  ASSUME NEW v \in Nat
  PROVE  v = 4 * (v \div 4) + (v % 4) /\ v \div 4 \in Nat /\ v % 4 \in Nat /\ v % 4 <= 3
OBVIOUS

\* The 16 bits behind the tag, and their two bytes.
LEMMA Extra ==
  ASSUME NEW v \in Nat, 251 < v, v <= LENGTH_MAX
  PROVE  LET extra == ((v - ((v % 4) + 252)) \div 4) % 65536
         IN  /\ extra \in Nat /\ v = 252 + (v % 4) + 4 * extra
             /\ extra % 256 \in Nat /\ extra \div 256 \in Nat
             /\ extra = (extra % 256) + 256 * (extra \div 256)
<1>1. PICK q \in Nat, r \in Nat : v = 4 * q + r /\ v % 4 = r /\ r <= 3
  BY DivMod
<1>2. q - 63 >= 0 /\ q - 63 < 65536 /\ q - 63 \in Nat
  BY <1>1 DEF LENGTH_MAX
<1>3. v - ((v % 4) + 252) = 4 * (q - 63)
  BY <1>1
<1>4. (v - ((v % 4) + 252)) \div 4 = q - 63
  BY <1>2, <1>3
<1>5. ((v - ((v % 4) + 252)) \div 4) % 65536 = q - 63
  BY <1>2, <1>4
<1>6. v = 252 + (v % 4) + 4 * (q - 63)
  BY <1>1
<1>7. ASSUME NEW e \in Nat
      PROVE e % 256 \in Nat /\ e \div 256 \in Nat /\ e = (e % 256) + 256 * (e \div 256)
  OBVIOUS
<1>. QED  BY <1>2, <1>5, <1>6, <1>7

\* Both forms of a length, from the writer's arithmetic.
LEMMA LengthForms ==
  ASSUME NEW v \in Nat, v <= LENGTH_MAX
  PROVE  IF v <= 251 THEN LengthBytes(v) = <<v>>
         ELSE \E tag, lo, hi \in Nat :
                /\ LengthBytes(v) = <<tag, lo, hi>>
                /\ tag > 251 /\ v = tag + 4 * (lo + 256 * hi)
<1>1. CASE v <= 251
  BY <1>1 DEF LengthBytes
<1>2. CASE ~(v <= 251)
  <2>. DEFINE extra == ((v - ((v % 4) + 252)) \div 4) % 65536
  <2>1. LengthBytes(v) = <<252 + (v % 4), extra % 256, extra \div 256>>
    BY <1>2 DEF LengthBytes
  <2>2. /\ extra \in Nat /\ v = 252 + (v % 4) + 4 * extra
        /\ extra % 256 \in Nat /\ extra \div 256 \in Nat
        /\ extra = (extra % 256) + 256 * (extra \div 256)
    BY <1>2, Extra
  <2>3. 252 + (v % 4) \in Nat /\ 252 + (v % 4) > 251
    BY DivMod
  <2>. HIDE DEF extra
  <2>4. v = (252 + (v % 4)) + 4 * ((extra % 256) + 256 * (extra \div 256))
    BY <2>2
  <2>. QED  BY <1>2, <2>1, <2>2, <2>3, <2>4
<1>. QED  BY <1>1, <1>2

\* readLength returns what writeLengthValue wrote, and goes on behind it, whatever
\* follows in the stream and even if nothing does.
THEOREM LengthComesBack ==
  ASSUME NEW v \in Nat, v <= LENGTH_MAX, NEW o \in Nat, LengthsAt(o, LengthBytes(v))
  PROVE  ReadLength(o) = v /\ Reading(o) = Len(LengthBytes(v))
<1>1. CASE v <= 251
  <2>1. LengthBytes(v) = <<v>>
    BY <1>1, LengthForms
  <2>2. s.len[o + 1] = v /\ o + 1 <= Len(s.len) /\ Len(s.len) \in Nat
    BY <2>1 DEF LengthsAt
  <2>. QED  BY <1>1, <2>1, <2>2 DEF ReadLength, Reading, HasExtra
<1>2. CASE ~(v <= 251)
  <2>1. PICK tag, lo, hi \in Nat : /\ LengthBytes(v) = <<tag, lo, hi>>
                                   /\ tag > 251 /\ v = tag + 4 * (lo + 256 * hi)
    BY <1>2, LengthForms
  <2>. DEFINE t == LengthBytes(v)
  <2>2. Len(t) = 3 /\ t[1] = tag /\ t[2] = lo /\ t[3] = hi
    BY <2>1
  <2>3. /\ s.len \in Seq(Nat) /\ o + Len(t) <= Len(s.len)
        /\ \A i \in 1 .. Len(t) : s.len[o + i] = t[i]
    BY DEF LengthsAt
  <2>. HIDE DEF t
  <2>4. s.len[o + 1] = tag /\ s.len[o + 2] = lo /\ s.len[o + 3] = hi
    BY <2>2, <2>3
  <2>5. o + 3 <= Len(s.len) /\ Len(s.len) \in Nat
    BY <2>2, <2>3
  <2>6. ReadLength(o) = v
    BY <2>1, <2>4, <2>5 DEF ReadLength, HasExtra
  <2>7. Reading(o) = 3
    BY <2>1, <2>4, <2>5 DEF Reading, HasExtra
  <2>. QED  BY <2>2, <2>6, <2>7 DEF t
<1>. QED  BY <1>1, <1>2

\* A short token: bits 0 to 2 the literals, 3 to 6 the match, 7 the recent offset.  A
\* token of a fresh offset stays above 23 because its match has 3 bytes at least.
LEMMA ShortFields ==
  ASSUME NEW lit \in Nat, lit <= 7, NEW len \in Nat, len <= 15
  PROVE  /\ (lit + 8 * len) % 8 = lit /\ (lit + 8 * len + 128) % 8 = lit
         /\ (lit + 8 * len) \div 8 = len /\ ((lit + 8 * len + 128) \div 8) % 16 = len
OBVIOUS

\* The decoder takes a short token apart as emitCmd put it together: the same literals,
\* the same match, at the recent offset exactly when the encoder meant that.
THEOREM ShortComesBack ==
  ASSUME NEW d, NEW lit \in Nat, lit <= 7, NEW len \in Nat, len <= 15,
         NEW off \in Nat, off = 0 \/ len >= 3
  PROVE  Token(d, Short(lit, len, off)) =
           IF off = 0 THEN CopyMatch(CopyLits(d, lit), len, d.rec)
           ELSE NearMatch(CopyLits(d, lit), len)
<1>1. CASE off = 0
  <2>1. Short(lit, len, off) = lit + 8 * len + 128
    BY <1>1 DEF Short
  <2>2. lit + 8 * len + 128 >= 24 /\ lit + 8 * len + 128 >= 128
    OBVIOUS
  <2>. QED  BY <1>1, <2>1, <2>2, ShortFields DEF Token
<1>2. CASE off # 0
  <2>1. Short(lit, len, off) = lit + 8 * len
    BY <1>2 DEF Short
  <2>2. lit + 8 * len >= 24 /\ ~(lit + 8 * len >= 128)
    BY <1>2
  <2>. QED  BY <1>2, <2>1, <2>2, ShortFields DEF Token
<1>. QED  BY <1>1, <1>2

\* A long match comes back with its length and as near or far, as emitCmd classed it: a
\* near one has 91 bytes at least, and a far one 14, so that the token of a far match is
\* never the 0, 1 or 2 of another form.
THEOREM ClassComesBack ==
  ASSUME NEW d, d.len \in Nat, NEW len \in Nat, len <= LENGTH_MAX, NEW off \in Nat,
         len >= IF off <= NEAR_OFFSET_MAX THEN 91 ELSE FAR_OFFSET_MIN_MATCH,
         LengthsAt(d.len, ClassLength(len, off))
  PROVE  LET behind == [d EXCEPT !.len = @ + Len(ClassLength(len, off))]
         IN  Token(d, ClassToken(len, off)) =
               IF off <= NEAR_OFFSET_MAX THEN NearMatch(behind, len)
               ELSE IF len <= 28 THEN FarMatch(d, len) ELSE FarMatch(behind, len)
<1>1. CASE off <= NEAR_OFFSET_MAX
  <2>1. ClassToken(len, off) = 1 /\ len - 91 \in Nat /\ len - 91 <= LENGTH_MAX
    BY <1>1 DEF ClassToken, LENGTH_MAX
  <2>2. ClassLength(len, off) = LengthBytes(len - 91)
    BY <1>1 DEF ClassLength
  <2>3. ReadLength(d.len) = len - 91 /\ Reading(d.len) = Len(ClassLength(len, off))
    BY <2>1, <2>2, LengthComesBack
  <2>4. (len - 91) + 91 = len
    OBVIOUS
  <2>. QED  BY <1>1, <2>1, <2>3, <2>4 DEF Token
<1>2. CASE off > NEAR_OFFSET_MAX /\ len <= 28
  <2>1. ClassToken(len, off) = len - 5 /\ len - 5 > 2 /\ ~(len - 5 >= 24) /\ (len - 5) + 5 = len
    BY <1>2 DEF ClassToken, NEAR_OFFSET_MAX, FAR_OFFSET_MIN_MATCH
  <2>. QED  BY <1>2, <2>1 DEF Token, NEAR_OFFSET_MAX
<1>3. CASE off > NEAR_OFFSET_MAX /\ len > 28
  <2>1. ClassToken(len, off) = 2 /\ len - 29 \in Nat /\ len - 29 <= LENGTH_MAX
    BY <1>3 DEF ClassToken, LENGTH_MAX, NEAR_OFFSET_MAX
  <2>2. ClassLength(len, off) = LengthBytes(len - 29)
    BY <1>3 DEF ClassLength, NEAR_OFFSET_MAX
  <2>3. ReadLength(d.len) = len - 29 /\ Reading(d.len) = Len(ClassLength(len, off))
    BY <2>1, <2>2, LengthComesBack
  <2>4. (len - 29) + 29 = len
    OBVIOUS
  <2>. QED  BY <1>3, <2>1, <2>3, <2>4 DEF Token, NEAR_OFFSET_MAX
<1>. QED  BY <1>1, <1>2, <1>3 DEF NEAR_OFFSET_MAX
=============================================================================

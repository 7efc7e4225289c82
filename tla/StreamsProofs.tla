----------------------------- MODULE StreamsProofs -----------------------------
(***************************************************************************)
(* The formatter and what uses it.  First what holds of GenericFormatter   *)
(* for every text, every mix of its overloads and every size of its buffer *)
(* that BufferAssumption allows, and of the UTF-8 conversions for every    *)
(* code point.  Then the parsers of a request and the two users of the     *)
(* formatter.  The parsers are recursive functions: that they have the     *)
(* values of their definitions is proved with an induction over natural    *)
(* numbers, stated for sets.                                               *)
(***************************************************************************)
EXTENDS Reader, TLAPS, WellFoundedInduction, SequenceTheorems, FiniteSetTheorems

-----------------------------------------------------------------------------
(* The conversions.                                                        *)

States == [glyph : Nat, remaining : 0 .. 3, valid : BOOLEAN]

(* A byte takes the decoder from a state to a state, and what it returns   *)
(* is a number.                                                            *)
LEMMA DecodeType ==
    ASSUME NEW next \in Bytes, NEW state \in States
    PROVE  Utf8To32(next, state) \in States
<1>1. PICK c \in Nat : c = next
  BY SMT DEF Bytes
<1>2. PICK g \in Nat, r \in Nat, v \in BOOLEAN :
          /\ state.glyph = g /\ state.remaining = r /\ state.valid = v
          /\ r <= 3
  BY SMT DEF States
<1>3. PICK x \in Nat, y \in Nat, z \in Nat, w \in Nat :
          x = 64 * g + (c % 64) /\ y = c % 32 /\ z = c % 16 /\ w = c % 8
  BY SMT
<1>4. /\ \A n \in Nat, q \in 0 .. 3, b \in BOOLEAN : Decoding(n, q, b) \in States
      /\ 0 \in 0 .. 3 /\ 1 \in 0 .. 3 /\ 2 \in 0 .. 3 /\ 3 \in 0 .. 3
  BY SMT DEF Decoding, States
<1>5. CASE r > 0
  <2>1. PICK q \in Nat : q = r - 1  BY <1>5, SMT
  <2>2. q \in 0 .. 3  BY <1>2, <2>1, SMT
  <2>3. Utf8To32(c, state) \in {Decoding(x, q, TRUE), Decoding(g, q, FALSE)}
    BY <1>2, <1>3, <1>5, <2>1, SMT DEF Utf8To32, Decoding
  <2>4. Decoding(x, q, TRUE) \in States /\ Decoding(g, q, FALSE) \in States
    BY <1>2, <1>3, <1>4, <2>2, Zenon
  <2> QED  BY <1>1, <2>3, <2>4, Zenon
<1>6. CASE r = 0
  <2>1. Utf8To32(c, state) \in
           {Decoding(c, 0, TRUE), Decoding(y, 1, TRUE), Decoding(z, 2, TRUE),
            Decoding(w, 3, TRUE), Decoding(g, 0, FALSE)}
    BY <1>2, <1>3, <1>6, SMT DEF Utf8To32, Decoding
  <2>2. /\ Decoding(c, 0, TRUE) \in States /\ Decoding(y, 1, TRUE) \in States
        /\ Decoding(z, 2, TRUE) \in States /\ Decoding(w, 3, TRUE) \in States
        /\ Decoding(g, 0, FALSE) \in States
    BY <1>2, <1>3, <1>4, Zenon
  <2> QED  BY <1>1, <2>1, <2>2, Zenon
<1> QED  BY <1>5, <1>6, SMT

LEMMA GlyphType ==
    ASSUME NEW state \in States
    PROVE  Glyph(state) \in Nat
BY SMT DEF States, Glyph, Replacement

(* The encoder gives at most four bytes, for any number.                   *)
LEMMA EncodeType ==
    ASSUME NEW glyph \in Nat
    PROVE  Utf32To8(glyph) \in Seq(Bytes) /\ Len(Utf32To8(glyph)) <= 4
<1>1. \A n \in Nat : Continuation(n) \in Bytes
  BY SMT DEF Continuation, Bytes
<1>2. glyph \div 64 \in Nat /\ glyph \div 4096 \in Nat
  BY SMT
<1>3. CASE glyph < 128
  BY <1>3, SMT DEF Utf32To8, Bytes
<1>4. CASE ~(glyph < 128) /\ glyph < 2048
  <2>1. 192 + (glyph \div 64) \in Bytes  BY <1>4, SMT DEF Bytes
  <2>2. Utf32To8(glyph) = <<192 + (glyph \div 64), Continuation(glyph)>>
    BY <1>4, SMT DEF Utf32To8
  <2> QED  BY <1>1, <2>1, <2>2, SMT
<1>5. CASE ~(glyph < 2048) /\ glyph < 65536
  <2>1. 224 + (glyph \div 4096) \in Bytes  BY <1>5, SMT DEF Bytes
  <2>2. Utf32To8(glyph) = <<224 + (glyph \div 4096), Continuation(glyph \div 64),
                            Continuation(glyph)>>
    BY <1>5, SMT DEF Utf32To8
  <2> QED  BY <1>1, <1>2, <2>1, <2>2, SMT
<1>6. CASE ~(glyph < 65536) /\ glyph < 1114112
  <2>1. 240 + (glyph \div 262144) \in Bytes  BY <1>6, SMT DEF Bytes
  <2>2. Utf32To8(glyph) = <<240 + (glyph \div 262144), Continuation(glyph \div 4096),
                            Continuation(glyph \div 64), Continuation(glyph)>>
    BY <1>6, SMT DEF Utf32To8
  <2> QED  BY <1>1, <1>2, <2>1, <2>2, SMT
<1>7. CASE ~(glyph < 1114112)
  BY <1>7, SMT DEF Utf32To8
<1> QED  BY <1>3, <1>4, <1>5, <1>6, <1>7, SMT

(* Inside a sequence the state says what has been read: the bits g, r      *)
(* bytes to come.                                                          *)
Has(state, g, r) == state.glyph = g /\ state.remaining = r /\ state.valid = TRUE

LEMMA Shown ==
    ASSUME NEW g \in Nat, NEW r \in Nat, NEW s, Has(s, g, r)
    PROVE  (r > 0 => Glyph(s) = 0) /\ (r = 0 => Glyph(s) = g)
BY SMT DEF Glyph, Has

(* A continuation byte adds six bits to the ones before.                   *)
LEMMA AddBits ==
    ASSUME NEW s, NEW g \in Nat, NEW r \in Nat, Has(s, g, r + 1),
           NEW c \in Nat, c >= 128, c < 192, NEW n \in Nat, n = 64 * g + (c % 64)
    PROVE  Has(Utf8To32(c, s), n, r)
<1>1. PICK q \in Nat : q = r + 1 /\ q > 0 /\ r = q - 1
  BY SMT
<1>2. s.glyph = g /\ s.remaining = q /\ s.valid = TRUE
  BY <1>1, SMT DEF Has
<1>3. PICK s1 : s1 = Utf8To32(c, s)
  BY SMT
<1>4. s1.glyph = n /\ s1.remaining = r /\ s1.valid = TRUE
  BY <1>1, <1>2, <1>3, SMT DEF Utf8To32, Decoding
<1> QED  BY <1>3, <1>4, Zenon DEF Has

LEMMA Continue ==
    ASSUME NEW g \in Nat, NEW r \in Nat, NEW s, Has(s, g, r + 1),
           NEW n \in Nat, 64 * g + (n % 64) = n
    PROVE  Has(Utf8To32(Continuation(n), s), n, r)
<1>1. PICK c \in Nat : c = Continuation(n) /\ c >= 128 /\ c < 192 /\ n = 64 * g + (c % 64)
  BY SMT DEF Continuation
<1>2. Has(Utf8To32(c, s), n, r)
  BY <1>1, AddBits, SMT
<1> QED  BY <1>1, <1>2, Zenon

(* The first byte of a sequence of one, two, three and four.               *)
LEMMA Lead ==
    ASSUME NEW s0, s0.remaining = 0, NEW n \in Nat, NEW c \in Nat,
           NEW s1, s1 = Utf8To32(c, s0)
    PROVE  /\ c < 128 /\ c = n => Has(s1, n, 0)
           /\ c = 192 + n /\ n < 32 => Has(s1, n, 1)
           /\ c = 224 + n /\ n < 16 => Has(s1, n, 2)
           /\ c = 240 + n /\ n < 8 => Has(s1, n, 3)
<1>1. ~(s0.remaining > 0)  BY SMT
<1>2. CASE c < 128 /\ c = n
  BY <1>1, <1>2, SMT DEF Utf8To32, Decoding, Has
<1>3. CASE c = 192 + n /\ n < 32
  <2>1. c >= 192 /\ c < 224 /\ n = c % 32  BY <1>3, SMT
  <2> QED  BY <1>1, <1>3, <2>1, SMT DEF Utf8To32, Decoding, Has
<1>4. CASE c = 224 + n /\ n < 16
  <2>1. c >= 224 /\ c < 240 /\ n = c % 16  BY <1>4, SMT
  <2> QED  BY <1>1, <1>4, <2>1, SMT DEF Utf8To32, Decoding, Has
<1>5. CASE c = 240 + n /\ n < 8
  <2>1. c >= 240 /\ c < 248 /\ n = c % 8  BY <1>5, SMT
  <2> QED  BY <1>1, <1>5, <2>1, SMT DEF Utf8To32, Decoding, Has
<1> QED  BY <1>2, <1>3, <1>4, <1>5, SMT

(* A number is its last six bits and the number in front of them.          *)
LEMMA SixBits ==
    ASSUME NEW n \in Nat
    PROVE  /\ n \div 64 \in Nat /\ n \div 4096 \in Nat /\ n \div 262144 \in Nat
           /\ 64 * (n \div 64) + (n % 64) = n
           /\ 64 * (n \div 4096) + ((n \div 64) % 64) = n \div 64
           /\ 64 * (n \div 262144) + ((n \div 4096) % 64) = n \div 4096
<1>1. n \div 4096 = (n \div 64) \div 64  BY SMT
<1>2. n \div 262144 = (n \div 4096) \div 64  BY SMT
<1>3. \A k \in Nat : k \div 64 \in Nat /\ 64 * (k \div 64) + (k % 64) = k  BY SMT
<1> QED  BY <1>1, <1>2, <1>3, SMT

IsCodePoint(glyph) == glyph < 1114112

(* utf8_to_32 undoes utf32_to_8 for every code point, from any state       *)
(* between two sequences, and says 0 until the last byte: what a program   *)
(* encodes is read back as it was.                                         *)
THEOREM RoundTrip ==
    ASSUME NEW glyph \in Nat, IsCodePoint(glyph),
           NEW s0 \in States, s0.remaining = 0,
           NEW b, b = Utf32To8(glyph),
           NEW s1, s1 = Utf8To32(b[1], s0),
           NEW s2, s2 = Utf8To32(b[2], s1),
           NEW s3, s3 = Utf8To32(b[3], s2),
           NEW s4, s4 = Utf8To32(b[4], s3)
    PROVE  \/ Len(b) = 1 /\ Glyph(s1) = glyph
           \/ Len(b) = 2 /\ Glyph(s1) = 0 /\ Glyph(s2) = glyph
           \/ Len(b) = 3 /\ Glyph(s1) = 0 /\ Glyph(s2) = 0 /\ Glyph(s3) = glyph
           \/ Len(b) = 4 /\ Glyph(s1) = 0 /\ Glyph(s2) = 0 /\ Glyph(s3) = 0
                         /\ Glyph(s4) = glyph
<1>1. PICK m \in Nat, h \in Nat, t \in Nat :
          m = glyph \div 64 /\ h = glyph \div 4096 /\ t = glyph \div 262144
  BY SMT
<1>2. /\ 64 * m + (glyph % 64) = glyph
      /\ 64 * h + (m % 64) = m
      /\ 64 * t + (h % 64) = h
  BY <1>1, SixBits, SMT
<1>3. CASE glyph < 128
  <2>1. b = <<glyph>>  BY <1>3, SMT DEF Utf32To8
  <2>2. Len(b) = 1 /\ s1 = Utf8To32(glyph, s0)  BY <2>1, SMT
  <2>3. Has(s1, glyph, 0)  BY <1>3, <2>2, Lead, SMT
  <2>4. Glyph(s1) = glyph  BY <2>3, Shown, SMT
  <2> QED  BY <2>2, <2>4, SMT
<1>4. CASE ~(glyph < 128) /\ glyph < 2048
  <2>1. b = <<192 + m, Continuation(glyph)>>  BY <1>1, <1>4, SMT DEF Utf32To8
  <2>2. PICK c \in Nat : c = 192 + m /\ m < 32
    BY <1>1, <1>4, SMT
  <2>3. /\ Len(b) = 2 /\ s1 = Utf8To32(c, s0)
        /\ s2 = Utf8To32(Continuation(glyph), s1)
    BY <2>1, <2>2, SMT
  <2>4. Has(s1, m, 0 + 1)  BY <2>2, <2>3, Lead, SMT
  <2>5. Has(s2, glyph, 0)  BY <1>2, <2>3, <2>4, Continue, SMT
  <2>6. Glyph(s1) = 0 /\ Glyph(s2) = glyph  BY <2>4, <2>5, Shown, SMT
  <2> QED  BY <2>3, <2>6, SMT
<1>5. CASE ~(glyph < 2048) /\ glyph < 65536
  <2>1. b = <<224 + h, Continuation(m), Continuation(glyph)>>
    BY <1>1, <1>5, SMT DEF Utf32To8
  <2>2. PICK c \in Nat : c = 224 + h /\ h < 16
    BY <1>1, <1>5, SMT
  <2>3. /\ Len(b) = 3 /\ s1 = Utf8To32(c, s0)
        /\ s2 = Utf8To32(Continuation(m), s1)
        /\ s3 = Utf8To32(Continuation(glyph), s2)
    BY <2>1, <2>2, SMT
  <2>4. Has(s1, h, 1 + 1)  BY <2>2, <2>3, Lead, SMT
  <2>5. Has(s2, m, 0 + 1)  BY <1>2, <2>3, <2>4, Continue, SMT
  <2>6. Has(s3, glyph, 0)  BY <1>2, <2>3, <2>5, Continue, SMT
  <2>7. Glyph(s1) = 0 /\ Glyph(s2) = 0 /\ Glyph(s3) = glyph
    BY <2>4, <2>5, <2>6, Shown, SMT
  <2> QED  BY <2>3, <2>7, SMT
<1>6. CASE ~(glyph < 65536)
  <2>0. glyph < 1114112  BY SMT DEF IsCodePoint
  <2>1. b = <<240 + t, Continuation(h), Continuation(m), Continuation(glyph)>>
    BY <1>1, <1>6, <2>0, SMT DEF Utf32To8
  <2>2. PICK c \in Nat : c = 240 + t /\ t < 8
    BY <1>1, <1>6, <2>0, SMT
  <2>3. /\ Len(b) = 4 /\ s1 = Utf8To32(c, s0)
        /\ s2 = Utf8To32(Continuation(h), s1)
        /\ s3 = Utf8To32(Continuation(m), s2)
        /\ s4 = Utf8To32(Continuation(glyph), s3)
    BY <2>1, <2>2, SMT
  <2>4. Has(s1, t, 2 + 1)  BY <2>2, <2>3, Lead, SMT
  <2>5. Has(s2, h, 1 + 1)  BY <1>2, <2>3, <2>4, Continue, SMT
  <2>6. Has(s3, m, 0 + 1)  BY <1>2, <2>3, <2>5, Continue, SMT
  <2>7. Has(s4, glyph, 0)  BY <1>2, <2>3, <2>6, Continue, SMT
  <2>8. Glyph(s1) = 0 /\ Glyph(s2) = 0 /\ Glyph(s3) = 0 /\ Glyph(s4) = glyph
    BY <2>4, <2>5, <2>6, <2>7, Shown, SMT
  <2> QED  BY <2>3, <2>8, SMT
<1> QED  BY <1>3, <1>4, <1>5, <1>6, SMT

-----------------------------------------------------------------------------
(* What the loop appends for one glyph.                                    *)

LEMMA ConcatBytes ==
    ASSUME NEW s \in Seq(Bytes), NEW t \in Seq(Bytes)
    PROVE  /\ s \o t \in Seq(Bytes)
           /\ Len(s \o t) = Len(s) + Len(t)
           /\ \A i \in 1 .. Len(s) + Len(t) :
                 (s \o t)[i] = IF i <= Len(s) THEN s[i] ELSE t[i - Len(s)]
BY SMT

(* A text without a '<', and two of them after one another.                *)
Inert(text) == \A i \in 1 .. Len(text) : text[i] # LT

LEMMA ConcatInert ==
    ASSUME NEW s \in Seq(Bytes), NEW t \in Seq(Bytes), Inert(t)
    PROVE  /\ Inert(s) => Inert(s \o t)
           /\ \A i \in Len(s) + 1 .. Len(s \o t) : (s \o t)[i] # LT
BY ConcatBytes, SMT DEF Inert

LEMMA PowerType == \A k \in 1 .. 8 : Power16[k] \in Nat /\ Power16[k] > 0
BY SMT DEF Power16

LEMMA HexLengthType ==
    ASSUME NEW n \in Nat
    PROVE  HexLength(n) \in 1 .. 8
<1>1. \E k \in 1 .. 8 : (k = 1 \/ n >= Power16[k]) /\ (k = 8 \/ n < Power16[k + 1])
  <2>1. /\ 1 \in 1 .. 8 /\ 2 \in 1 .. 8 /\ 3 \in 1 .. 8 /\ 4 \in 1 .. 8
        /\ 5 \in 1 .. 8 /\ 6 \in 1 .. 8 /\ 7 \in 1 .. 8 /\ 8 \in 1 .. 8
    BY SMT
  <2>2. CASE n < Power16[2]  BY <2>1, <2>2, SMT
  <2>3. CASE n >= Power16[2] /\ n < Power16[3]  BY <2>1, <2>3, SMT
  <2>4. CASE n >= Power16[3] /\ n < Power16[4]  BY <2>1, <2>4, SMT
  <2>5. CASE n >= Power16[4] /\ n < Power16[5]  BY <2>1, <2>5, SMT
  <2>6. CASE n >= Power16[5] /\ n < Power16[6]  BY <2>1, <2>6, SMT
  <2>7. CASE n >= Power16[6] /\ n < Power16[7]  BY <2>1, <2>7, SMT
  <2>8. CASE n >= Power16[7] /\ n < Power16[8]  BY <2>1, <2>8, SMT
  <2>9. CASE n >= Power16[8]  BY <2>1, <2>9, SMT
  <2> QED  BY <2>1, <2>2, <2>3, <2>4, <2>5, <2>6, <2>7, <2>8, <2>9, PowerType, SMT
<1> QED  BY <1>1, SMT DEF HexLength

(* The digits of an entity: at most eight, none of them a '<'.             *)
LEMMA HexType ==
    ASSUME NEW n \in Nat
    PROVE  Hex(n) \in Seq(Bytes) /\ Len(Hex(n)) <= 8 /\ Inert(Hex(n))
<1>1. PICK m \in Nat : m = HexLength(n) /\ m >= 1 /\ m <= 8
  BY HexLengthType, SMT
<1>2. \A d \in Nat : d < 16 => HexDigit(d) \in Bytes /\ HexDigit(d) # LT
  BY SMT DEF HexDigit, Bytes, LT
<1>3. ASSUME NEW i \in 1 .. m
      PROVE  /\ HexDigit((n \div Power16[m + 1 - i]) % 16) \in Bytes
             /\ HexDigit((n \div Power16[m + 1 - i]) % 16) # LT
  <2>1. m + 1 - i \in 1 .. 8  BY <1>1, <1>3, SMT
  <2>2. PICK p \in Nat : p = Power16[m + 1 - i] /\ p > 0  BY <2>1, PowerType, SMT
  <2>3. PICK q \in Nat : q = n \div p  BY <2>2, SMT
  <2>4. PICK d \in Nat : d = q % 16 /\ d < 16  BY SMT
  <2> QED  BY <1>2, <2>2, <2>3, <2>4, SMT
<1>4. Hex(n) = [i \in 1 .. m |-> HexDigit((n \div Power16[m + 1 - i]) % 16)]
  BY <1>1, SMT DEF Hex
<1>5. Hex(n) \in [1 .. m -> Bytes]  BY <1>3, <1>4, SMT
<1>6. Hex(n) \in Seq(Bytes) /\ Len(Hex(n)) = m  BY <1>5, SMT
<1>7. \A i \in 1 .. m : Hex(n)[i] # LT  BY <1>3, <1>4, SMT
<1> QED  BY <1>1, <1>6, <1>7, SMT DEF Inert

LEMMA EntityType ==
    ASSUME NEW glyph \in Nat
    PROVE  Entity(glyph) \in Seq(Bytes) /\ Len(Entity(glyph)) <= 12 /\ Inert(Entity(glyph))
<1> DEFINE front == <<AMP, 35, 120>>
           back  == <<59>>
<1>1. front \in Seq(Bytes) /\ Len(front) = 3 /\ Inert(front)
  BY SMT DEF Bytes, AMP, LT, Inert
<1>2. back \in Seq(Bytes) /\ Len(back) = 1 /\ Inert(back)
  BY SMT DEF Bytes, LT, Inert
<1> HIDE DEF front, back
<1>3. PICK digits, x, y :
          digits = Hex(glyph) /\ x = front \o digits /\ y = x \o back
  BY Zenon
<1>4. digits \in Seq(Bytes) /\ Len(digits) <= 8 /\ Inert(digits)
  BY <1>3, HexType, Zenon
<1>5. x \in Seq(Bytes) /\ Len(x) = Len(front) + Len(digits) /\ Inert(x)
  BY <1>1, <1>3, <1>4, ConcatBytes, ConcatInert, Zenon
<1>6. y \in Seq(Bytes) /\ Len(y) = Len(x) + Len(back) /\ Inert(y)
  BY <1>2, <1>3, <1>5, ConcatBytes, ConcatInert, Zenon
<1>7. Len(y) <= 12
  BY <1>1, <1>2, <1>4, <1>5, <1>6, SMT
<1>8. y = Entity(glyph)
  BY <1>3, Zenon DEF Entity, front, back
<1> QED  BY <1>6, <1>7, <1>8, Zenon

(* At most twelve bytes for a glyph, and in content none of them a '<'.    *)
LEMMA PieceType ==
    ASSUME NEW format \in Formats, NEW glyph \in Nat, NEW c \in Nat,
           c \in Bytes \/ c = glyph
    PROVE  /\ Piece(format, glyph, c) \in Seq(Bytes)
           /\ Len(Piece(format, glyph, c)) <= 12
           /\ format = "HTMLContent" => Inert(Piece(format, glyph, c))
<1>1. CASE format = "UTF8"
  <2>1. Piece(format, glyph, c) = Utf32To8(glyph)  BY <1>1, SMT DEF Piece
  <2>2. \A t \in Seq(Bytes) : Len(t) <= 4 => Len(t) <= 12
    BY SMT
  <2>3. "UTF8" # "HTMLContent"
    BY SMT
  <2> QED  BY <1>1, <2>1, <2>2, <2>3, EncodeType, Zenon
<1>2. CASE format # "UTF8" /\ glyph >= 128
  <2>1. Piece(format, glyph, c) = Entity(glyph)  BY <1>2, SMT DEF Piece
  <2> QED  BY <2>1, EntityType, Zenon
<1>3. CASE format # "UTF8" /\ ~(glyph >= 128)
  <2>1. c \in Bytes  BY <1>3, SMT DEF Bytes
  <2>2. CASE c = LT /\ EscapesBrackets(format)
    BY <1>3, <2>2, SMT DEF Piece, Bytes, AMP, LT, Inert
  <2>3. CASE ~(c = LT /\ EscapesBrackets(format)) /\ c = GT /\ EscapesBrackets(format)
    BY <1>3, <2>3, SMT DEF Piece, Bytes, AMP, LT, Inert
  <2>4. CASE ~(c = LT /\ EscapesBrackets(format)) /\ ~(c = GT /\ EscapesBrackets(format))
             /\ c = AMP
    <3>1. Piece(format, glyph, c) = <<38, 97, 109, 112, 59>>
      BY <1>3, <2>4, SMT DEF Piece, AMP
    <3> QED  BY <3>1, SMT DEF Bytes, LT, Inert
  <2>5. CASE ~(c = LT /\ EscapesBrackets(format)) /\ ~(c = GT /\ EscapesBrackets(format))
             /\ c # AMP
    <3>1. Piece(format, glyph, c) = <<c>>  BY <1>3, <2>5, SMT DEF Piece
    <3>2. format = "HTMLContent" => c # LT  BY <2>5, SMT DEF EscapesBrackets
    <3> QED  BY <2>1, <3>1, <3>2, SMT DEF Inert
  <2> QED  BY <2>2, <2>3, <2>4, <2>5, Zenon
<1> QED  BY <1>1, <1>2, <1>3, Zenon

-----------------------------------------------------------------------------
(* The invariant: between two calls nothing is left; the buffer holds less *)
(* than the offset it is handed on at; and what it holds of content is     *)
(* inert already.                                                          *)
BufferInv ==
    /\ call = "none" => rest = <<>>
    /\ call = "bytes" => rest \in Seq(Bytes)
    /\ Len(tmp) < FlushAt
    /\ m_generic_format = "HTMLContent" => Inert(tmp)

FInv == FormatterTypeOK /\ BufferInv

(* What the loop is about to append, and what is then in the buffer.       *)
LEMMA WrittenType ==
    ASSUME FInv, rest # <<>>
    PROVE  /\ Decoded \in States
           /\ Written \in Seq(Bytes)
           /\ Len(Written) <= TmpSize
           /\ m_generic_format = "HTMLContent" => Inert(Written)
<1>1. PICK c : c = Head(rest) /\ c \in Nat /\ (call = "bytes" => c \in Bytes)
  BY SMT DEF FInv, BufferInv, FormatterTypeOK
<1>2. call \in {"bytes", "glyphs"} /\ m_generic_format \in Formats
  BY Zenon DEF FInv, BufferInv, FormatterTypeOK
<1>3. tmp \in Seq(Bytes) /\ Len(tmp) < FlushAt
      /\ (m_generic_format = "HTMLContent" => Inert(tmp))
  BY Zenon DEF FInv, BufferInv, FormatterTypeOK
<1>4. Decoded \in States
  <2>1. mbstate \in States  BY Zenon DEF FInv, FormatterTypeOK, States
  <2>2. CASE call = "bytes"  BY <1>1, <2>1, <2>2, DecodeType, Zenon DEF Decoded
  <2>3. CASE call # "bytes"  BY <2>1, <2>3, Zenon DEF Decoded
  <2> QED  BY <2>2, <2>3, Zenon
<1>5. PICK glyph \in Nat : glyph = Next32 /\ (c \in Bytes \/ c = glyph)
  <2>1. CASE call = "bytes"  BY <1>1, <1>4, <2>1, GlyphType, Zenon DEF Next32
  <2>2. CASE call = "glyphs"
    <3>1. call # "bytes"  BY <2>2, SMT
    <3> QED  BY <1>1, <3>1, Zenon DEF Next32
  <2> QED  BY <1>2, <2>1, <2>2, Zenon
<1>6. PICK piece : /\ piece = Piece(m_generic_format, glyph, c)
                   /\ piece \in Seq(Bytes) /\ Len(piece) <= 12
                   /\ m_generic_format = "HTMLContent" => Inert(piece)
  BY <1>1, <1>2, <1>5, PieceType, Zenon
<1>7. PICK whole : /\ whole = tmp \o piece
                   /\ whole \in Seq(Bytes) /\ Len(whole) = Len(tmp) + Len(piece)
                   /\ m_generic_format = "HTMLContent" => Inert(whole)
  BY <1>3, <1>6, ConcatBytes, ConcatInert, Zenon
<1>8. Len(whole) <= TmpSize /\ Len(tmp) <= TmpSize
  BY <1>3, <1>6, <1>7, BufferAssumption, SMT
<1>9. Written = IF Skip THEN tmp ELSE whole
  BY <1>1, <1>5, <1>6, <1>7, Zenon DEF Written
<1> QED  BY <1>3, <1>4, <1>7, <1>8, <1>9, Zenon

LEMMA InitFInv ==
    ASSUME NEW format \in Formats, FormatterInit(format)
    PROVE  FInv
<1>1. ConvertState \in States  BY SMT DEF ConvertState, Decoding, States
<1>2. <<>> \in Seq(Nat) /\ <<>> \in Seq(Bytes) /\ Len(<<>>) < FlushAt /\ Inert(<<>>)
  BY BufferAssumption, SMT DEF Inert
<1> QED
  BY <1>1, <1>2, Zenon DEF FormatterInit, FInv, BufferInv, FormatterTypeOK, States

(* What one call's step may not do.                                        *)
InertStep ==
    m_generic_format = "HTMLContent" /\ call # "none" =>
        \A i \in Len(out) + 1 .. Len(out') : out'[i] # LT

LEMMA AppendPlainStep ==
    ASSUME FInv, NEW text \in Seq(Bytes), AppendPlain(text)
    PROVE  FInv' /\ InertStep
<1>1. out' \in Seq(Bytes)
  BY ConcatBytes, Zenon DEF AppendPlain, FInv, FormatterTypeOK
<1>2. FormatterTypeOK'  BY <1>1, Zenon DEF AppendPlain, FInv, FormatterTypeOK
<1>3. BufferInv'  BY Zenon DEF AppendPlain, FInv, BufferInv, Inert
<1> QED  BY <1>2, <1>3, Zenon DEF AppendPlain, FInv, InertStep

LEMMA BeginStep ==
    ASSUME FInv, NEW kind \in {"bytes", "glyphs"}, NEW text \in Seq(Nat),
           kind = "bytes" => text \in Seq(Bytes),
           NEW format \in Formats, NEW after \in Formats,
           Begin(kind, text, format, after)
    PROVE  FInv' /\ InertStep
<1>1. InertStep  BY Zenon DEF Begin, InertStep
<1>2. CASE format = "Verbatim"
  <2>1. out' \in Seq(Bytes)
    BY <1>2, ConcatBytes, Zenon DEF Begin, FInv, FormatterTypeOK
  <2>2. FormatterTypeOK'
    BY <1>2, <2>1, Zenon DEF Begin, FInv, FormatterTypeOK
  <2>3. BufferInv'  BY <1>2, Zenon DEF Begin, FInv, BufferInv, Inert
  <2> QED  BY <1>1, <2>2, <2>3, Zenon DEF FInv
<1>3. CASE format # "Verbatim"
  <2>1. ConvertState \in States  BY SMT DEF ConvertState, Decoding, States
  <2>2. <<>> \in Seq(Bytes) /\ Len(<<>>) < FlushAt /\ Inert(<<>>)
    BY BufferAssumption, SMT DEF Inert
  <2>3. kind \in {"none", "bytes", "glyphs"} /\ kind # "none"
    BY SMT
  <2>4. FormatterTypeOK'
    BY <1>3, <2>1, <2>2, <2>3, Zenon DEF Begin, FInv, FormatterTypeOK, States
  <2>5. BufferInv'
    BY <1>3, <2>2, <2>3, Zenon DEF Begin, BufferInv, Inert
  <2> QED  BY <1>1, <2>4, <2>5, Zenon DEF FInv
<1> QED  BY <1>2, <1>3, Zenon

LEMMA FormatNextStep ==
    ASSUME FInv, FormatNext
    PROVE  FInv' /\ InertStep
<1>1. /\ rest # <<>> /\ rest' = Tail(rest) /\ mbstate' = Decoded
      /\ m_generic_format' = m_generic_format /\ restore' = restore /\ call' = call
  BY Zenon DEF FormatNext
<1>2. /\ Decoded \in States /\ Written \in Seq(Bytes)
      /\ m_generic_format = "HTMLContent" => Inert(Written)
  BY <1>1, WrittenType, Zenon
<1>3. /\ Tail(rest) \in Seq(Nat)
      /\ call = "bytes" => Tail(rest) \in Seq(Bytes)
      /\ call # "none"
  BY <1>1, SMT DEF FInv, BufferInv, FormatterTypeOK
<1>4. tmp \in Seq(Bytes) /\ out \in Seq(Bytes) /\ Len(tmp) < FlushAt
  BY Zenon DEF FInv, BufferInv, FormatterTypeOK
<1>5. CASE ~Skip /\ Flush(Written)
  <2>1. tmp' = <<>> /\ out' = out \o Written  BY <1>5, Zenon DEF FormatNext
  <2>2. <<>> \in Seq(Bytes) /\ Len(<<>>) < FlushAt /\ Inert(<<>>)
    BY BufferAssumption, SMT DEF Inert
  <2>3. out' \in Seq(Bytes)  BY <1>2, <1>4, <2>1, ConcatBytes, Zenon
  <2>4. InertStep  BY <1>2, <1>4, <2>1, ConcatInert, Zenon DEF InertStep
  <2>5. FormatterTypeOK'
    BY <1>1, <1>2, <1>3, <2>1, <2>2, <2>3, Zenon DEF FInv, FormatterTypeOK, States
  <2>6. BufferInv'
    BY <1>1, <1>3, <2>1, <2>2, Zenon DEF BufferInv, Inert
  <2> QED  BY <2>4, <2>5, <2>6, Zenon DEF FInv
<1>6. CASE ~(~Skip /\ Flush(Written))
  <2>1. tmp' = Written /\ out' = out  BY <1>6, Zenon DEF FormatNext
  <2>2. Len(Written) < FlushAt
    <3>1. CASE Skip  BY <1>4, <3>1, Zenon DEF Written
    <3>2. CASE ~Flush(Written)  BY <1>2, <3>2, BufferAssumption, SMT DEF Flush
    <3> QED  BY <1>6, <3>1, <3>2, Zenon
  <2>3. InertStep  BY <1>4, <2>1, SMT DEF InertStep
  <2>4. FormatterTypeOK'
    BY <1>1, <1>2, <1>3, <1>4, <2>1, Zenon DEF FInv, FormatterTypeOK, States
  <2>5. BufferInv'
    BY <1>1, <1>2, <1>3, <2>1, <2>2, Zenon DEF BufferInv, Inert
  <2> QED  BY <2>3, <2>4, <2>5, Zenon DEF FInv
<1> QED  BY <1>5, <1>6, Zenon

LEMMA EndCallStep ==
    ASSUME FInv, EndCall
    PROVE  FInv' /\ InertStep
<1>1. /\ call' = "none" /\ m_generic_format' = restore /\ tmp' = <<>>
      /\ out' = out \o tmp /\ rest = <<>> /\ rest' = rest /\ restore' = restore
      /\ mbstate' = mbstate
  BY Zenon DEF EndCall
<1>2. tmp \in Seq(Bytes) /\ out \in Seq(Bytes)
  BY Zenon DEF FInv, FormatterTypeOK
<1>3. <<>> \in Seq(Bytes) /\ Len(<<>>) < FlushAt /\ Inert(<<>>) /\ "none" # "bytes"
  BY BufferAssumption, SMT DEF Inert
<1>4. out' \in Seq(Bytes)  BY <1>1, <1>2, ConcatBytes, Zenon
<1>5. InertStep
  BY <1>1, <1>2, ConcatInert, Zenon DEF FInv, BufferInv, InertStep
<1>6. FormatterTypeOK'
  BY <1>1, <1>3, <1>4, Zenon DEF FInv, FormatterTypeOK
<1>7. BufferInv'
  BY <1>1, <1>3, Zenon DEF BufferInv, Inert
<1> QED  BY <1>5, <1>6, <1>7, Zenon DEF FInv

LEMMA PrintedType ==
    ASSUME NEW text \in Seq(Bytes)
    PROVE  Printed(text) \in Seq(Bytes)
<1>1. CASE Len(text) = TmpSize
  <2>1. 0 \in Bytes  BY SMT DEF Bytes
  <2>2. PICK n \in Nat : n = Len(text) /\ text \in [1 .. n -> Bytes]  BY SMT
  <2>3. [text EXCEPT ![TmpSize] = 0] \in [1 .. n -> Bytes]  BY <2>1, <2>2, Zenon
  <2>4. PICK t : t = [text EXCEPT ![TmpSize] = 0] /\ t \in [1 .. n -> Bytes]
    BY <2>3, Zenon
  <2>5. t \in Seq(Bytes)  BY <2>2, <2>4, SMT
  <2> QED  BY <1>1, <2>4, <2>5, Zenon DEF Printed
<1>2. CASE Len(text) # TmpSize  BY <1>2, Zenon DEF Printed
<1> QED  BY <1>1, <1>2, Zenon

LEMMA NextFInv ==
    ASSUME FInv, [FormatterNext]_formatterVars
    PROVE  FInv' /\ (FormatterNext => InertStep)
<1>1. m_generic_format \in Formats /\ "HTMLContent" \in Formats
  BY SMT DEF FInv, FormatterTypeOK, Formats
<1>2. ASSUME NEW text \in Seq(Bytes)  PROVE text \in Seq(Nat)
  <2>1. Bytes \subseteq Nat  BY SMT DEF Bytes
  <2>2. \A i \in 1 .. Len(text) : text[i] \in Bytes  BY SMT
  <2>3. \A i \in 1 .. Len(text) : text[i] \in Nat  BY <2>1, <2>2, Zenon
  <2> QED  BY <2>3, SMT
<1>3. ASSUME NEW text \in Seq(Bytes), AppendBytes(text)  PROVE FInv' /\ InertStep
  BY <1>1, <1>2, <1>3, BeginStep, Zenon DEF AppendBytes
<1>4. ASSUME UNCHANGED formatterVars  PROVE FInv' /\ InertStep
  <2>1. FormatterTypeOK'  BY <1>4, Zenon DEF FInv, FormatterTypeOK, formatterVars
  <2>2. BufferInv'  BY <1>4, Zenon DEF FInv, BufferInv, Inert, formatterVars
  <2>3. PICK n \in Nat : n = Len(out)  BY SMT DEF FInv, FormatterTypeOK
  <2>4. Len(out) + 1 .. Len(out) = {}  BY <2>3, SMT
  <2>5. InertStep  BY <1>4, <2>4, Zenon DEF InertStep, formatterVars
  <2> QED  BY <2>1, <2>2, <2>5, Zenon DEF FInv
<1>5. ASSUME NEW text \in Seq(Bytes), AppendContent(text)  PROVE FInv' /\ InertStep
  BY <1>1, <1>2, <1>5, BeginStep, Zenon DEF AppendContent
<1>6. ASSUME NEW text \in Seq(Bytes), Printf(text)  PROVE FInv' /\ InertStep
  BY <1>3, <1>4, <1>6, PrintedType, Zenon DEF Printf
<1>7. ASSUME NEW glyphs \in Seq(Nat), AppendGlyphs(glyphs)  PROVE FInv' /\ InertStep
  <2>1. "glyphs" # "bytes"  BY SMT
  <2> QED  BY <1>1, <1>7, <2>1, BeginStep, Zenon DEF AppendGlyphs
<1> QED
  BY <1>3, <1>4, <1>5, <1>6, <1>7, AppendPlainStep, FormatNextStep, EndCallStep, Zenon
     DEF FormatterNext, FormatterStep

THEOREM FormatterInvariant == FormatterSpec => []FInv
<1>1. (\E format \in Formats : FormatterInit(format)) => FInv
  BY InitFInv, Zenon
<1>2. FInv /\ [FormatterNext]_formatterVars => FInv'
  BY NextFInv, Zenon
<1> QED  BY <1>1, <1>2, PTL DEF FormatterSpec

(* The state of a formatter keeps its type, whatever it is given.          *)
THEOREM FormatterTypeCorrect == FormatterSpec => []FormatterTypeOK
<1>1. FInv => FormatterTypeOK  BY Zenon DEF FInv
<1> QED  BY <1>1, FormatterInvariant, PTL

(* No call writes behind the end of its buffer: for every text, every      *)
(* format and every size that leaves room for one entity of eight digits.  *)
THEOREM BufferNeverOverrun == FormatterSpec => []BufferFits
<1>1. FInv => BufferFits  BY WrittenType, Zenon DEF BufferFits
<1> QED  BY <1>1, FormatterInvariant, PTL

(* No byte of a text written as content reaches the page as a '<',         *)
(* wherever the buffer is cut.                                             *)
THEOREM ContentNeverOpensATag == FormatterSpec => ContentIsInert
<1>1. FInv /\ [FormatterNext]_formatterVars => [InertStep]_formatterVars
  BY NextFInv, Zenon
<1> QED  BY <1>1, FormatterInvariant, PTL DEF FormatterSpec, ContentIsInert, InertStep

-----------------------------------------------------------------------------
(* Numbers.                                                                *)

LEMMA LeastNumber ==
    ASSUME NEW T \in SUBSET Nat, T # {}
    PROVE  \E least \in T : \A n \in T : least <= n
<1>1. IsWellFoundedOn(OpToRel(<, Nat), Nat)
  BY NatLessThanWellFounded
<1>2. PICK least \in T : \A n \in T : <<n, least>> \notin OpToRel(<, Nat)
  BY <1>1, WFMin
<1>3. \A m, n \in Nat : m < n => <<m, n>> \in OpToRel(<, Nat)
  BY DEF OpToRel
<1>4. \A n \in T : ~(n < least)
  BY <1>2, <1>3
<1>5. \A n \in T : least <= n
  BY <1>4
<1> QED BY <1>5

LEMMA Induction ==
    ASSUME NEW S, 0 \in S, \A n \in Nat : n \in S => n + 1 \in S
    PROVE  Nat \subseteq S
<1> DEFINE T == Nat \ S
<1> SUFFICES ASSUME T # {} PROVE FALSE
  OBVIOUS
<1>1. PICK least \in T : \A n \in T : least <= n
  BY LeastNumber
<1>2. least # 0 /\ least - 1 \in Nat /\ least - 1 \notin T
  BY <1>1
<1> QED BY <1>2

LEMMA MinIs ==
    ASSUME NEW T \in SUBSET Nat, T # {}
    PROVE  Min(T) \in T /\ \A n \in T : Min(T) <= n
BY LeastNumber DEF Min
-----------------------------------------------------------------------------
(* Recursion, where each element of a set asks for the value of the next   *)
(* one, and next goes down in rank but for the elements of a base, which   *)
(* ask for none.                                                           *)

Descends(D, base, next, rank) ==
    /\ next \in [D -> D]
    /\ rank \in [D -> Nat]
    /\ \A d \in D \ base : rank[next[d]] < rank[d]

(* What the base has, and every element gets from the next, all have.      *)
LEMMA Descent ==
    ASSUME NEW D, NEW base, NEW next, NEW rank, Descends(D, base, next, rank), NEW P,
           \A d \in D : d \in base \/ next[d] \in P => d \in P
    PROVE  D \subseteq P
<1> DEFINE S == {n \in Nat : \A d \in D : rank[d] < n => d \in P}
<1>1. 0 \in S
  BY DEF Descends
<1>2. ASSUME NEW n \in Nat, n \in S PROVE n + 1 \in S
  <2> SUFFICES ASSUME NEW d \in D, rank[d] < n + 1, d \notin base PROVE next[d] \in P
    OBVIOUS
  <2>1. next[d] \in D /\ rank[next[d]] \in Nat /\ rank[d] \in Nat /\ rank[next[d]] < rank[d]
    BY DEF Descends
  <2>2. rank[next[d]] < n
    BY <2>1
  <2> QED BY <1>2, <2>1, <2>2
<1> HIDE DEF S
<1>3. Nat \subseteq S
  BY <1>1, <1>2, Induction
<1>4. ASSUME NEW d \in D PROVE d \in P
  <2>1. rank[d] \in Nat
    BY DEF Descends
  <2>2. rank[d] + 1 \in S /\ rank[d] < rank[d] + 1
    BY <1>3, <2>1
  <2> QED BY <2>2 DEF S
<1> QED BY <1>4

(* There is a function whose value step computes from the next one, when   *)
(* ranks are bounded.                                                      *)
Recurs(D, base, next, rank, N, V, step) ==
    /\ Descends(D, base, next, rank)
    /\ N \in Nat /\ \A d \in D : rank[d] < N
    /\ V # {}
    /\ step \in [D \X V -> V]
    /\ \A d \in base : \A u, v \in V : step[<<d, u>>] = step[<<d, v>>]

LEMMA Recursion ==
    ASSUME NEW D, NEW base, NEW next, NEW rank, NEW N, NEW V, NEW step,
           Recurs(D, base, next, rank, N, V, step)
    PROVE  \E f \in [D -> V] : \A d \in D : f[d] = step[<<d, f[next[d]]>>]
<1> USE DEF Recurs
<1> DEFINE Solves(f, n) == \A d \in D : rank[d] < n => f[d] = step[<<d, f[next[d]]>>]
           S == {n \in Nat : \E f \in [D -> V] : Solves(f, n)}
<1>1. 0 \in S
  <2> PICK v \in V : TRUE
    OBVIOUS
  <2>1. [d \in D |-> v] \in [D -> V] /\ \A d \in D : ~(rank[d] < 0)
    BY DEF Descends
  <2>2. Solves([d \in D |-> v], 0)
    BY <2>1
  <2> QED BY <2>1, <2>2
<1>2. ASSUME NEW n \in Nat, n \in S PROVE n + 1 \in S
  <2>1. PICK f \in [D -> V] : Solves(f, n)
    BY <1>2
  <2> DEFINE g == [d \in D |-> step[<<d, f[next[d]]>>]]
  <2>2. g \in [D -> V]
    BY DEF Descends
  <2>3. ASSUME NEW d \in D, rank[d] < n + 1 PROVE g[d] = step[<<d, g[next[d]]>>]
    <3>1. next[d] \in D /\ rank[next[d]] \in Nat /\ rank[d] \in Nat
      BY DEF Descends
    <3>2. CASE d \in base
      BY <2>2, <3>1, <3>2
    <3>3. CASE d \notin base
      <4>1. rank[next[d]] < n
        BY <2>3, <3>1, <3>3 DEF Descends
      <4>2. f[next[d]] = g[next[d]]
        BY <2>1, <3>1, <4>1
      <4> QED BY <4>2
    <3> QED BY <3>2, <3>3
  <2> HIDE DEF g
  <2>4. Solves(g, n + 1)
    BY <2>3
  <2> QED BY <2>2, <2>4
<1>3. N \in S
  <2> HIDE DEF S
  <2> QED BY <1>1, <1>2, Induction
<1> QED BY <1>3
-----------------------------------------------------------------------------
(* Flattened sequences.                                                    *)

(* f has the flattened beginnings of ss.                                   *)
Flattens(f, ss, S) ==
    /\ f \in [0 .. Len(ss) -> Seq(S)]
    /\ f[0] = <<>>
    /\ \A i \in 1 .. Len(ss) : f[i] = f[i - 1] \o ss[i]

LEMMA Empty == \A S : <<>> \in Seq(S)
OBVIOUS

LEMMA IsSequence ==
    ASSUME NEW S, NEW n \in Nat, NEW f \in [1 .. n -> S]
    PROVE  f \in Seq(S)
OBVIOUS

LEMMA Element ==
    ASSUME NEW S, NEW s \in Seq(S), NEW i \in 1 .. Len(s)
    PROVE  s[i] \in S
OBVIOUS

LEMMA Concat ==
    ASSUME NEW S, NEW s \in Seq(S), NEW t \in Seq(S)
    PROVE  s \o t \in Seq(S)
OBVIOUS

LEMMA Associative ==
    \A S : \A s, t, u \in Seq(S) : (s \o t) \o u = s \o (t \o u)
BY ConcatAssociative

LEMMA AssociativeBytes ==
    \A s, t, u \in Seq(Bytes) : (s \o t) \o u = s \o (t \o u)
BY ConcatAssociative

LEMMA ConcatAt ==
    ASSUME NEW S, NEW s \in Seq(S), NEW t \in Seq(S)
    PROVE  /\ Len(s \o t) = Len(s) + Len(t)
           /\ \A k \in 1 .. Len(s) : (s \o t)[k] = s[k]
           /\ \A k \in 1 .. Len(t) : (s \o t)[Len(s) + k] = t[k]
OBVIOUS

LEMMA FlattenIs ==
    ASSUME NEW S, NEW ss \in Seq(Seq(S))
    PROVE  \E f : Flattens(f, ss, S) /\ FlattenSeq(ss) = f[Len(ss)]
<1>1. CASE Len(ss) = 0
  <2>1. ss = <<>> /\ FlattenSeq(ss) = <<>>
    BY <1>1 DEF FlattenSeq
  <2>2. Flattens([i \in {0} |-> <<>>], ss, S)
    BY <2>1 DEF Flattens
  <2>3. [i \in {0} |-> <<>>][0] = <<>> /\ Len(ss) = 0
    BY <2>1
  <2> QED BY <2>1, <2>2, <2>3
<1>2. CASE Len(ss) # 0
  <2> DEFINE n    == Len(ss)
             D    == 1 .. n
             E(f, i) == IF i = 1 THEN ss[i] ELSE f[i - 1] \o ss[i]
             next == [i \in D |-> IF i = 1 THEN 1 ELSE i - 1]
             rank == [i \in D |-> i - 1]
             step == [x \in D \X Seq(S) |-> IF x[1] = 1 THEN ss[x[1]] ELSE x[2] \o ss[x[1]]]
             solution == CHOOSE f : f = [i \in D |-> E(f, i)]
  <2>1. n \in Nat /\ n > 0 /\ \A i \in D : ss[i] \in Seq(S)
    BY <1>2
  <2>2. Descends(D, {1}, next, rank)
    BY <2>1 DEF Descends
  <2>3. step \in [D \X Seq(S) -> Seq(S)]
    BY <2>1, Concat
  <2>4. \A i \in {1} : \A u, v \in Seq(S) : step[<<i, u>>] = step[<<i, v>>]
    BY <2>1
  <2>5. \A i \in D : rank[i] < n
    BY <2>1
  <2>6. \E f \in [D -> Seq(S)] : \A i \in D : f[i] = step[<<i, f[next[i]]>>]
    <3>1. Recurs(D, {1}, next, rank, n, Seq(S), step)
      <4>1. Seq(S) # {} /\ n \in Nat
        BY <2>1
      <4> HIDE DEF next, rank, step, D, n
      <4> QED BY <4>1, <2>2, <2>3, <2>4, <2>5 DEF Recurs
    <3> HIDE DEF next, rank, step, D, n
    <3> QED BY <3>1, Recursion
  <2>7. PICK f \in [D -> Seq(S)] : \A i \in D : f[i] = step[<<i, f[next[i]]>>]
    BY <2>6
  <2>8. f = [i \in D |-> E(f, i)]
    <3>1. ASSUME NEW i \in D PROVE f[i] = E(f, i)
      <4>1. next[i] \in D /\ f[next[i]] \in Seq(S) /\ f[i] = step[<<i, f[next[i]]>>]
        <5> HIDE DEF D, next, step
        <5> QED BY <2>2, <2>7 DEF Descends
      <4>2. <<i, f[next[i]]>> \in D \X Seq(S)
        BY <4>1
      <4>3. f[i] = IF i = 1 THEN ss[i] ELSE f[next[i]] \o ss[i]
        <5>1. \A x \in D \X Seq(S) :
                 step[x] = IF x[1] = 1 THEN ss[x[1]] ELSE x[2] \o ss[x[1]]
          OBVIOUS
        <5>2. PICK u : u = f[next[i]]
          OBVIOUS
        <5> HIDE DEF D, step, next
        <5>3. step[<<i, u>>] = IF i = 1 THEN ss[i] ELSE u \o ss[i]
          BY <4>2, <5>1, <5>2
        <5> QED BY <4>1, <5>2, <5>3
      <4>4. i # 1 => next[i] = i - 1
        OBVIOUS
      <4> HIDE DEF D, step, next
      <4> QED BY <4>3, <4>4
    <3> HIDE DEF D, step, next, E
    <3> QED BY <2>7, <3>1
  <2>9. solution = [i \in D |-> E(solution, i)]
    <3> HIDE DEF D, step, next, E
    <3> QED BY <2>8, Zenon
  <2>10. FlattenSeq(ss) = solution[n]
    BY <1>2 DEF FlattenSeq
  <2> HIDE DEF solution
  <2>11. \A i \in D : solution[i] = E(solution, i)
    BY <2>9
  <2> DEFINE P == {i \in D : solution[i] \in Seq(S)}
  <2>12. ASSUME NEW i \in D, i \in {1} \/ next[i] \in P PROVE i \in P
    <3>1. i = 1 => solution[i] = ss[i]
      BY <2>11
    <3>2. i # 1 => next[i] = i - 1 /\ solution[i] = solution[i - 1] \o ss[i]
      BY <2>11
    <3>3. ss[i] \in Seq(S)
      BY <2>1
    <3>4. i # 1 => solution[i - 1] \in Seq(S)
      <4>1. i # 1 => i - 1 \in P
        BY <2>12, <3>2
      <4> QED BY <4>1
    <3> HIDE DEF D, next
    <3>5. solution[i] \in Seq(S)
      BY <3>1, <3>2, <3>3, <3>4, Concat
    <3> QED BY <3>5
  <2>13. D \subseteq P
    <3> HIDE DEF next, rank, D, P
    <3> QED BY <2>2, <2>12, Descent
  <2> DEFINE g == [i \in 0 .. n |-> IF i = 0 THEN <<>> ELSE solution[i]]
  <2>14. g \in [0 .. n -> Seq(S)] /\ g[0] = <<>> /\ g[n] = solution[n]
    BY <2>1, <2>13
  <2>15. ASSUME NEW i \in D PROVE g[i] = g[i - 1] \o ss[i]
    <3>1. i # 0 /\ i - 1 \in 0 .. n /\ g[i] = solution[i] /\ ss[i] \in Seq(S)
      BY <2>1
    <3>2. CASE i = 1
      <4>1. g[i] = ss[i] /\ g[0] = <<>> /\ i - 1 = 0
        BY <2>11, <3>1, <3>2
      <4>2. <<>> \o ss[i] = ss[i]
        BY <3>1
      <4> QED BY <4>1, <4>2
    <3>3. CASE i # 1
      <4>1. i - 1 \in D /\ g[i - 1] = solution[i - 1]
        BY <2>1, <3>1, <3>3
      <4>2. solution[i] = solution[i - 1] \o ss[i]
        BY <2>11, <3>3
      <4> QED BY <3>1, <4>1, <4>2
    <3> QED BY <3>2, <3>3
  <2> HIDE DEF g
  <2>16. Flattens(g, ss, S)
    BY <2>14, <2>15 DEF Flattens
  <2> QED BY <2>10, <2>14, <2>16
<1> QED BY <1>1, <1>2

LEMMA FlattenType ==
    ASSUME NEW S, NEW ss \in Seq(Seq(S))
    PROVE  FlattenSeq(ss) \in Seq(S)
<1>1. PICK f : Flattens(f, ss, S) /\ FlattenSeq(ss) = f[Len(ss)]
  BY FlattenIs
<1>2. Len(ss) \in 0 .. Len(ss)
  OBVIOUS
<1>3. f[Len(ss)] \in Seq(S)
  BY <1>1, <1>2 DEF Flattens
<1> QED BY <1>1, <1>3
-----------------------------------------------------------------------------
(* The parsers of a request.                                               *)

LEMMA FindIs ==
    ASSUME NEW text \in Seq(Bytes), NEW c, NEW from \in 1 .. Len(text) + 1
    PROVE  LET found == Find(text, c, from)
           IN  /\ found \in from .. Len(text) + 1
               /\ found <= Len(text) => text[found] = c
               /\ \A i \in from .. found - 1 : text[i] # c
<1> DEFINE T == {i \in from .. Len(text) : text[i] = c} \cup {Len(text) + 1}
           found == Find(text, c, from)
<1>1. Len(text) \in Nat /\ T \subseteq from .. Len(text) + 1 /\ T \in SUBSET Nat /\ T # {}
  OBVIOUS
<1>2. found \in T /\ \A i \in T : found <= i
  <2>1. found = Min(T)
    BY DEF Find
  <2> HIDE DEF T, found
  <2> QED BY <1>1, <2>1, MinIs
<1> HIDE DEF found
<1>3. ASSUME NEW i \in from .. found - 1 PROVE text[i] # c
  BY <1>1, <1>2
<1>4. found \in from .. Len(text) + 1 /\ (found <= Len(text) => text[found] = c)
  BY <1>1, <1>2
<1> QED BY <1>3, <1>4 DEF found

LEMMA Piecewise ==
    ASSUME NEW S, NEW s \in Seq(S), NEW m \in 1 .. Len(s) + 1, NEW n \in 0 .. Len(s)
    PROVE  SubSeq(s, m, n) \in Seq(S)
<1>1. m \in Int /\ n \in Int /\ \A i \in m .. n : s[i] \in S
  OBVIOUS
<1> QED BY <1>1, SubSeqProperties

LEMMA KeyValueType ==
    ASSUME NEW text \in Seq(Bytes)
    PROVE  KeyValue(text)[1] \in Seq(Bytes) /\ KeyValue(text)[2] \in Seq(Bytes)
<1> DEFINE cut == Find(text, EQUALS, 1)
<1>1. Len(text) \in Nat /\ 1 \in 1 .. Len(text) + 1
  OBVIOUS
<1>2. cut \in 1 .. Len(text) + 1
  BY <1>1, FindIs
<1>3. KeyValue(text) = <<SubSeq(text, 1, cut - 1), SubSeq(text, cut + 1, Len(text))>>
  BY DEF KeyValue
<1> HIDE DEF cut
<1>4. SubSeq(text, 1, cut - 1) \in Seq(Bytes)
  BY <1>1, <1>2, Piecewise
<1>5. SubSeq(text, cut + 1, Len(text)) \in Seq(Bytes)
  <2>1. CASE cut = Len(text) + 1
    <3>1. SubSeq(text, cut + 1, Len(text)) = <<>>
      BY <1>1, <2>1
    <3> QED BY <3>1, Empty
  <2>2. CASE cut # Len(text) + 1
    <3>1. PICK m \in 1 .. Len(text) + 1 : m = cut + 1
      BY <1>1, <1>2, <2>2
    <3>2. PICK n \in 0 .. Len(text) : n = Len(text)
      BY <1>1
    <3>3. SubSeq(text, m, n) \in Seq(Bytes)
      BY Piecewise
    <3> QED BY <3>1, <3>2, <3>3
  <2> QED BY <2>1, <2>2
<1> QED BY <1>3, <1>4, <1>5

(* f has the elements of the text from each position on.                   *)
Splits(f, text, separator) ==
    /\ f \in [1 .. Len(text) + 2 -> Seq(Seq(Bytes))]
    /\ \A i \in 1 .. Len(text) + 2 :
          LET cut == Find(text, separator, i)
          IN  f[i] = IF i > Len(text) THEN <<>>
                     ELSE <<SubSeq(text, i, cut - 1)>> \o f[cut + 1]

LEMMA ElementsIs ==
    ASSUME NEW text \in Seq(Bytes), NEW separator
    PROVE  \E f : Splits(f, text, separator) /\ Elements(text, separator) = f[1]
<1> DEFINE n     == Len(text)
           D     == 1 .. n + 2
           V     == Seq(Seq(Bytes))
           cut(i) == Find(text, separator, i)
           E(f, i) == IF i > n THEN <<>> ELSE <<SubSeq(text, i, cut(i) - 1)>> \o f[cut(i) + 1]
           base == {i \in D : i > n}
           next == [i \in D |-> IF i > n THEN i ELSE cut(i) + 1]
           rank == [i \in D |-> n + 2 - i]
           step == [x \in D \X V |-> IF x[1] > n THEN <<>>
                                     ELSE <<SubSeq(text, x[1], cut(x[1]) - 1)>> \o x[2]]
           solution == CHOOSE f : f = [i \in D |-> E(f, i)]
<1>1. n \in Nat
  OBVIOUS
<1>2. ASSUME NEW i \in D, ~(i > n)
      PROVE  /\ cut(i) + 1 \in D /\ cut(i) + 1 > i
             /\ <<SubSeq(text, i, cut(i) - 1)>> \in V
  <2>1. i \in 1 .. n + 1 /\ i \in Nat
    BY <1>1, <1>2
  <2>2. cut(i) \in i .. n + 1
    BY <2>1, FindIs
  <2> HIDE DEF cut
  <2>3. SubSeq(text, i, cut(i) - 1) \in Seq(Bytes)
    BY <1>1, <2>1, <2>2, Piecewise
  <2> QED BY <1>1, <2>1, <2>2, <2>3
<1> HIDE DEF cut
<1>3. Recurs(D, base, next, rank, n + 3, V, step)
  <2>1. next \in [D -> D] /\ rank \in [D -> Nat] /\ \A i \in D : rank[i] < n + 3
    BY <1>1, <1>2
  <2>2. \A i \in D \ base : rank[next[i]] < rank[i]
    BY <1>1, <1>2
  <2>3. step \in [D \X V -> V]
    <3>1. ASSUME NEW i \in D, NEW v \in V
          PROVE  (IF i > n THEN <<>> ELSE <<SubSeq(text, i, cut(i) - 1)>> \o v) \in V
      BY <1>2
    <3> QED BY <3>1
  <2>4. \A i \in base : \A u, v \in V : step[<<i, u>>] = step[<<i, v>>]
    BY <1>1
  <2>5. V # {} /\ n + 3 \in Nat
    <3>1. V # {}
      BY Empty, Zenon
    <3> QED BY <1>1, <3>1
  <2> HIDE DEF D, V, base, next, rank, step
  <2> QED BY <2>1, <2>2, <2>3, <2>4, <2>5 DEF Recurs, Descends
<1>4. Descends(D, base, next, rank)
  BY <1>3 DEF Recurs
<1>5. PICK f \in [D -> V] : \A i \in D : f[i] = step[<<i, f[next[i]]>>]
  <2> HIDE DEF D, V, base, next, rank, step
  <2> QED BY <1>3, Recursion
<1>6. f = [i \in D |-> E(f, i)]
  <2>1. ASSUME NEW i \in D PROVE f[i] = E(f, i)
    <3>1. next[i] \in D /\ f[next[i]] \in V /\ f[i] = step[<<i, f[next[i]]>>]
      <4> HIDE DEF D, V, next, step
      <4> QED BY <1>4, <1>5 DEF Descends
    <3>2. <<i, f[next[i]]>> \in D \X V
      BY <3>1
    <3> QED BY <3>1, <3>2
  <2> QED BY <2>1
<1>7. solution = [i \in D |-> E(solution, i)]
  BY <1>6
<1>8. Elements(text, separator) = solution[1]
  BY DEF Elements, cut
<1> HIDE DEF solution
<1>9. \A i \in D : solution[i] = E(solution, i)
  BY <1>7
<1> DEFINE P == {i \in D : solution[i] \in V}
<1>10. ASSUME NEW i \in D, i \in base \/ next[i] \in P PROVE i \in P
  <2>1. CASE i > n
    BY <1>9, <2>1, Empty
  <2>2. CASE ~(i > n)
    <3>1. next[i] = cut(i) + 1 /\ solution[cut(i) + 1] \in V
      BY <1>10, <2>2
    <3>2. solution[i] = <<SubSeq(text, i, cut(i) - 1)>> \o solution[cut(i) + 1]
      BY <1>9, <2>2
    <3>3. <<SubSeq(text, i, cut(i) - 1)>> \in V
      BY <1>2, <2>2
    <3>4. solution[i] \in V
      BY <3>1, <3>2, <3>3, Concat
    <3> QED BY <3>4
  <2> QED BY <2>1, <2>2
<1>11. D \subseteq P
  <2> HIDE DEF D, base, next, rank, P
  <2> QED BY <1>4, <1>10, Descent
<1>12. solution \in [D -> V]
  BY <1>7, <1>11
<1>13. Splits(solution, text, separator)
  BY <1>9, <1>12 DEF Splits, cut
<1> QED BY <1>8, <1>13
LEMMA ElementsType ==
    ASSUME NEW text \in Seq(Bytes), NEW separator
    PROVE  Elements(text, separator) \in Seq(Seq(Bytes))
<1>1. PICK f : Splits(f, text, separator) /\ Elements(text, separator) = f[1]
  BY ElementsIs
<1>2. 1 \in 1 .. Len(text) + 2
  OBVIOUS
<1>3. f[1] \in Seq(Seq(Bytes))
  BY <1>1, <1>2 DEF Splits
<1> QED BY <1>1, <1>3

LEMMA RouteType ==
    ASSUME NEW text \in Seq(Bytes)
    PROVE  Route(text) \in Seq(Seq(Bytes))
<1> DEFINE elements == Elements(text, SLASH)
           parts == [i \in DOMAIN elements |->
                       IF NotEmpty(elements[i]) THEN <<elements[i]>> ELSE <<>>]
<1>1. elements \in Seq(Seq(Bytes))
  BY ElementsType
<1>2. Route(text) = FlattenSeq(parts)
  BY DEF Route
<1> HIDE DEF elements
<1>3. parts \in Seq(Seq(Seq(Bytes)))
  <2>1. DOMAIN parts = 1 .. Len(elements) /\ Len(elements) \in Nat
    BY <1>1
  <2>2. ASSUME NEW i \in 1 .. Len(elements) PROVE parts[i] \in Seq(Seq(Bytes))
    <3>1. elements[i] \in Seq(Bytes)
      BY <1>1
    <3>2. <<elements[i]>> \in Seq(Seq(Bytes))
      BY <3>1
    <3> QED BY <2>1, <3>2, Empty
  <2> QED BY <2>1, <2>2
<1> QED BY <1>2, <1>3, FlattenType

LEMMA QueryType ==
    ASSUME NEW text \in Seq(Bytes)
    PROVE  /\ Query(text) \in Seq(Seq(Bytes) \X Seq(Bytes))
<1> DEFINE elements == Elements(text, AMP)
<1>1. elements \in Seq(Seq(Bytes))
  BY ElementsType
<1>2. Query(text) = [i \in 1 .. Len(elements) |-> KeyValue(elements[i])]
  BY DEF Query
<1> HIDE DEF elements
<1>3. ASSUME NEW i \in 1 .. Len(elements)
      PROVE  KeyValue(elements[i]) \in Seq(Bytes) \X Seq(Bytes)
  <2>1. elements[i] \in Seq(Bytes)
    BY <1>1
  <2>2. /\ KeyValue(elements[i])[1] \in Seq(Bytes) /\ KeyValue(elements[i])[2] \in Seq(Bytes)
    BY <2>1, KeyValueType
  <2>3. KeyValue(elements[i]) = <<KeyValue(elements[i])[1], KeyValue(elements[i])[2]>>
    BY DEF KeyValue
  <2> QED BY <2>2, <2>3
<1> QED BY <1>1, <1>2, <1>3

(* An environment has a text for each of finitely many names.              *)
EnvMaps == UNION {[names -> Seq(Bytes)] : names \in SUBSET Seq(Bytes)}

LEMMA EnvMapType ==
    ASSUME NEW lines \in Seq(Seq(Bytes))
    PROVE  EnvMap(lines) \in EnvMaps /\ IsFiniteSet(DOMAIN EnvMap(lines))
<1> DEFINE valid == {i \in DOMAIN lines : Contains(lines[i], EQUALS)}
           key(i) == KeyValue(lines[i])[1]
           first(k) == Min({i \in valid : key(i) = k})
           names == {key(i) : i \in valid}
<1>1. EnvMap(lines) = [k \in names |-> KeyValue(lines[first(k)])[2]]
  BY DEF EnvMap
<1>2. valid \in SUBSET Nat /\ valid \subseteq 1 .. Len(lines) /\ Len(lines) \in Nat
  OBVIOUS
<1>3. \A i \in valid : KeyValue(lines[i])[1] \in Seq(Bytes) /\ KeyValue(lines[i])[2] \in Seq(Bytes)
  BY <1>2, KeyValueType
<1>4. IsFiniteSet(valid)
  BY <1>2, FS_Interval, FS_Subset
<1> HIDE DEF valid
<1>5. names \in SUBSET Seq(Bytes) /\ IsFiniteSet(names)
  <2>1. [i \in valid |-> key(i)] \in Surjection(valid, names)
    BY DEF Surjection
  <2>2. IsFiniteSet(names)
    BY <1>4, <2>1, FS_Surjection
  <2> QED BY <1>3, <2>2
<1>6. ASSUME NEW k \in names PROVE first(k) \in valid
  <2> DEFINE T == {i \in valid : key(i) = k}
  <2>1. T # {} /\ T \in SUBSET Nat /\ T \subseteq valid
    BY <1>2
  <2> HIDE DEF T
  <2>2. Min(T) \in T
    BY <2>1, MinIs
  <2> QED BY <2>1, <2>2 DEF T
<1> HIDE DEF first
<1>7. EnvMap(lines) \in [names -> Seq(Bytes)]
  BY <1>1, <1>3, <1>6
<1> HIDE DEF names
<1> QED BY <1>5, <1>7 DEF EnvMaps

LEMMA EnvType ==
    ASSUME NEW env \in EnvMaps, NEW key
    PROVE  Env(env, key) \in Seq(Bytes)
BY Empty DEF EnvMaps, Env
LEMMA UnhexType ==
    ASSUME NEW high, NEW low, IsHexDigit(high), IsHexDigit(low)
    PROVE  Unhex(high, low) \in Bytes
<1>1. ASSUME NEW c, IsHexDigit(c) PROVE HexValue(c) \in 0 .. 15
  BY <1>1 DEF IsHexDigit, HexValue
<1>2. \A m, n \in 0 .. 15 : 16 * m + n \in Bytes
  BY DEF Bytes
<1> QED BY <1>1, <1>2 DEF Unhex

(* f has the decoded text from each position on.                           *)
Unescapes(f, text) ==
    /\ f \in [1 .. Len(text) + 1 -> Seq(Bytes)]
    /\ \A i \in 1 .. Len(text) + 1 :
          f[i] = IF i > Len(text) THEN <<>>
                 ELSE IF IsEscape(text, i)
                      THEN <<Unhex(text[i + 1], text[i + 2])>> \o f[i + 3]
                      ELSE <<text[i]>> \o f[i + 1]

LEMMA QueryDecodeIs ==
    ASSUME NEW text \in Seq(Bytes)
    PROVE  \E f : Unescapes(f, text) /\ QueryDecode(text) = f[1]
<1> DEFINE n     == Len(text)
           D     == 1 .. n + 1
           V     == Seq(Bytes)
           head(i) == IF IsEscape(text, i) THEN <<Unhex(text[i + 1], text[i + 2])>>
                                           ELSE <<text[i]>>
           tail(i) == IF IsEscape(text, i) THEN i + 3 ELSE i + 1
           E(f, i) == IF i > n THEN <<>>
                      ELSE IF IsEscape(text, i)
                           THEN <<Unhex(text[i + 1], text[i + 2])>> \o f[i + 3]
                           ELSE <<text[i]>> \o f[i + 1]
           base == {i \in D : i > n}
           next == [i \in D |-> IF i > n THEN i ELSE tail(i)]
           rank == [i \in D |-> n + 1 - i]
           step == [x \in D \X V |-> IF x[1] > n THEN <<>> ELSE head(x[1]) \o x[2]]
           solution == CHOOSE f : f = [i \in D |-> E(f, i)]
<1>1. n \in Nat
  OBVIOUS
<1>2. ASSUME NEW i \in D, ~(i > n)
      PROVE  tail(i) \in D /\ tail(i) > i /\ head(i) \in V
  <2>1. i \in 1 .. n /\ text[i] \in Bytes
    BY <1>1, <1>2
  <2>2. CASE IsEscape(text, i)
    <3>1. i + 2 <= n /\ Unhex(text[i + 1], text[i + 2]) \in Bytes
      BY <2>2, UnhexType DEF IsEscape
    <3> QED BY <1>1, <2>1, <2>2, <3>1
  <2>3. CASE ~IsEscape(text, i)
    BY <1>1, <2>1, <2>3
  <2> QED BY <2>2, <2>3
<1>3. \A f, i : E(f, i) = IF i > n THEN <<>> ELSE head(i) \o f[tail(i)]
  OBVIOUS
<1> HIDE DEF head, tail
<1>4. Recurs(D, base, next, rank, n + 2, V, step)
  <2>1. next \in [D -> D] /\ rank \in [D -> Nat] /\ \A i \in D : rank[i] < n + 2
    BY <1>1, <1>2
  <2>2. \A i \in D \ base : rank[next[i]] < rank[i]
    BY <1>1, <1>2
  <2>3. step \in [D \X V -> V]
    <3>1. ASSUME NEW i \in D, NEW v \in V
          PROVE  (IF i > n THEN <<>> ELSE head(i) \o v) \in V
      BY <1>2, Empty
    <3> QED BY <3>1
  <2>4. \A i \in base : \A u, v \in V : step[<<i, u>>] = step[<<i, v>>]
    BY <1>1
  <2>5. V # {} /\ n + 2 \in Nat
    <3>1. V # {}
      BY Empty, Zenon
    <3> QED BY <1>1, <3>1
  <2> HIDE DEF D, V, base, next, rank, step
  <2> QED BY <2>1, <2>2, <2>3, <2>4, <2>5 DEF Recurs, Descends
<1>5. Descends(D, base, next, rank)
  BY <1>4 DEF Recurs
<1>6. PICK f \in [D -> V] : \A i \in D : f[i] = step[<<i, f[next[i]]>>]
  <2> HIDE DEF D, V, base, next, rank, step
  <2> QED BY <1>4, Recursion
<1> HIDE DEF E
<1>7. f = [i \in D |-> E(f, i)]
  <2>1. ASSUME NEW i \in D PROVE f[i] = E(f, i)
    <3>1. next[i] \in D /\ f[next[i]] \in V /\ f[i] = step[<<i, f[next[i]]>>]
      <4> HIDE DEF D, V, next, step
      <4> QED BY <1>5, <1>6 DEF Descends
    <3>2. <<i, f[next[i]]>> \in D \X V
      BY <3>1
    <3>3. f[i] = IF i > n THEN <<>> ELSE head(i) \o f[tail(i)]
      BY <3>1, <3>2
    <3> QED BY <1>3, <3>3
  <2> QED BY <2>1
<1>8. solution = [i \in D |-> E(solution, i)]
  BY <1>7
<1>9. QueryDecode(text) = solution[1]
  BY DEF QueryDecode, E
<1> HIDE DEF solution
<1>10. \A i \in D : solution[i] = IF i > n THEN <<>> ELSE head(i) \o solution[tail(i)]
  BY <1>3, <1>8
<1> DEFINE P == {i \in D : solution[i] \in V}
<1>11. ASSUME NEW i \in D, i \in base \/ next[i] \in P PROVE i \in P
  <2>1. CASE i > n
    BY <1>10, <2>1, Empty
  <2>2. CASE ~(i > n)
    <3>1. next[i] = tail(i) /\ solution[tail(i)] \in V
      BY <1>11, <2>2
    <3>2. solution[i] = head(i) \o solution[tail(i)]
      BY <1>10, <2>2
    <3>3. head(i) \in V
      BY <1>2, <2>2
    <3>4. solution[i] \in V
      BY <3>1, <3>2, <3>3, Concat
    <3> QED BY <3>4
  <2> QED BY <2>1, <2>2
<1>12. D \subseteq P
  <2> HIDE DEF D, base, next, rank, P
  <2> QED BY <1>5, <1>11, Descent
<1>13. solution \in [D -> V]
  BY <1>8, <1>12
<1>14. \A i \in D : solution[i] = E(solution, i)
  BY <1>8
<1>15. Unescapes(solution, text)
  BY <1>13, <1>14 DEF Unescapes, E
<1> QED BY <1>9, <1>15

LEMMA QueryDecodeType ==
    ASSUME NEW text \in Seq(Bytes)
    PROVE  QueryDecode(text) \in Seq(Bytes)
<1>1. PICK f : Unescapes(f, text) /\ QueryDecode(text) = f[1]
  BY QueryDecodeIs
<1>2. 1 \in 1 .. Len(text) + 1
  OBVIOUS
<1>3. f[1] \in Seq(Bytes)
  BY <1>1, <1>2 DEF Unescapes
<1> QED BY <1>1, <1>3
DigitBytes == 48 .. 57

LEMMA DigitsAre ==
    ASSUME NEW n \in Nat
    PROVE  Digits(n) \in Seq(DigitBytes)
<1> DEFINE D == 0 .. n
           V == Seq(DigitBytes)
           digit(k) == 48 + (k % 10)
           E(f, k) == IF k < 10 THEN <<48 + k>> ELSE Append(f[k \div 10], digit(k))
           base == {k \in D : k < 10}
           next == [k \in D |-> IF k < 10 THEN k ELSE k \div 10]
           rank == [k \in D |-> k]
           step == [x \in D \X V |-> IF x[1] < 10 THEN <<48 + x[1]>>
                                                  ELSE Append(x[2], digit(x[1]))]
           solution == CHOOSE f : f = [k \in D |-> E(f, k)]
<1>1. ASSUME NEW k \in D
      PROVE  /\ digit(k) \in DigitBytes
             /\ k < 10 => 48 + k \in DigitBytes /\ <<48 + k>> \in V
             /\ ~(k < 10) => k \div 10 \in D /\ k \div 10 < k
  <2>1. k \in Nat /\ k % 10 \in 0 .. 9
    OBVIOUS
  <2>2. digit(k) \in DigitBytes
    BY <2>1 DEF DigitBytes
  <2>3. k < 10 => 48 + k \in DigitBytes
    BY <2>1 DEF DigitBytes
  <2> QED BY <2>2, <2>3
<1> HIDE DEF digit
<1>2. Recurs(D, base, next, rank, n + 1, V, step)
  <2>1. next \in [D -> D] /\ rank \in [D -> Nat] /\ \A k \in D : rank[k] < n + 1
    BY <1>1
  <2>2. \A k \in D \ base : rank[next[k]] < rank[k]
    BY <1>1
  <2>3. step \in [D \X V -> V]
    <3>1. ASSUME NEW k \in D, NEW v \in V
          PROVE  (IF k < 10 THEN <<48 + k>> ELSE Append(v, digit(k))) \in V
      BY <1>1
    <3> QED BY <3>1
  <2>4. \A k \in base : \A u, v \in V : step[<<k, u>>] = step[<<k, v>>]
    OBVIOUS
  <2>5. V # {} /\ n + 1 \in Nat
    <3>1. V # {}
      BY Empty, Zenon
    <3> QED BY <3>1
  <2> HIDE DEF D, V, base, next, rank, step
  <2> QED BY <2>1, <2>2, <2>3, <2>4, <2>5 DEF Recurs, Descends
<1>3. Descends(D, base, next, rank)
  BY <1>2 DEF Recurs
<1>4. PICK f \in [D -> V] : \A k \in D : f[k] = step[<<k, f[next[k]]>>]
  <2> HIDE DEF D, V, base, next, rank, step
  <2> QED BY <1>2, Recursion
<1>5. f = [k \in D |-> E(f, k)]
  <2>1. ASSUME NEW k \in D PROVE f[k] = E(f, k)
    <3>1. next[k] \in D /\ f[next[k]] \in V /\ f[k] = step[<<k, f[next[k]]>>]
      <4> HIDE DEF D, V, next, step
      <4> QED BY <1>3, <1>4 DEF Descends
    <3>2. <<k, f[next[k]]>> \in D \X V
      BY <3>1
    <3>3. f[k] = IF k < 10 THEN <<48 + k>> ELSE Append(f[next[k]], digit(k))
      BY <3>1, <3>2
    <3> QED BY <3>3
  <2> QED BY <2>1
<1>6. solution = [k \in D |-> E(solution, k)]
  BY <1>5
<1>7. Digits(n) = solution[n]
  BY DEF Digits, digit
<1> HIDE DEF solution
<1>8. \A k \in D : solution[k] = E(solution, k)
  BY <1>6
<1> DEFINE P == {k \in D : solution[k] \in V}
<1>9. ASSUME NEW k \in D, k \in base \/ next[k] \in P PROVE k \in P
  <2>1. CASE k < 10
    BY <1>1, <1>8, <2>1
  <2>2. CASE ~(k < 10)
    <3>1. next[k] = k \div 10 /\ solution[k \div 10] \in V
      BY <1>9, <2>2
    <3>2. solution[k] = Append(solution[k \div 10], digit(k))
      BY <1>8, <2>2
    <3>3. digit(k) \in DigitBytes
      BY <1>1
    <3>4. solution[k] \in V
      BY <3>1, <3>2, <3>3
    <3> QED BY <3>4
  <2> QED BY <2>1, <2>2
<1>10. D \subseteq P
  <2> HIDE DEF D, base, next, rank, P
  <2> QED BY <1>3, <1>9, Descent
<1> QED BY <1>7, <1>10

LEMMA DigitsType ==
    ASSUME NEW n \in Nat
    PROVE  Digits(n) \in Seq(Bytes)
<1>1. DigitBytes \subseteq Bytes
  BY DEF DigitBytes, Bytes
<1> QED BY <1>1, DigitsAre

(* f has the states of the decoder, from the start to the end of the text. *)
Decodes(f, text) ==
    /\ f \in [0 .. Len(text) -> States]
    /\ f[0] = ConvertState
    /\ \A i \in 1 .. Len(text) : f[i] = Utf8To32(text[i], f[i - 1])

(* What a state shows.                                                     *)
Reading(state) == IF Glyph(state) = 0 THEN <<>> ELSE <<Glyph(state)>>

LEMMA Utf8DecodeIs ==
    ASSUME NEW text \in Seq(Bytes)
    PROVE  \E f : /\ Decodes(f, text)
                  /\ Utf8Decode(text) = FlattenSeq([i \in DOMAIN text |-> Reading(f[i])])
<1> DEFINE n == Len(text)
           D == 0 .. n
           E(f, i) == IF i = 0 THEN ConvertState ELSE Utf8To32(text[i], f[i - 1])
           next == [i \in D |-> IF i = 0 THEN 0 ELSE i - 1]
           rank == [i \in D |-> i]
           step == [x \in D \X States |-> IF x[1] = 0 THEN ConvertState
                                          ELSE Utf8To32(text[x[1]], x[2])]
           solution == CHOOSE f : f = [i \in D |-> E(f, i)]
<1>1. n \in Nat /\ \A i \in D : i # 0 => text[i] \in Bytes /\ i - 1 \in D
  OBVIOUS
<1>2. ConvertState \in States
  BY DEF ConvertState, Decoding, States
<1>3. Recurs(D, {0}, next, rank, n + 1, States, step)
  <2>1. next \in [D -> D] /\ rank \in [D -> Nat] /\ \A i \in D : rank[i] < n + 1
    BY <1>1
  <2>2. \A i \in D \ {0} : rank[next[i]] < rank[i]
    BY <1>1
  <2>3. step \in [D \X States -> States]
    <3>1. ASSUME NEW i \in D, NEW v \in States
          PROVE  (IF i = 0 THEN ConvertState ELSE Utf8To32(text[i], v)) \in States
      BY <1>1, <1>2, DecodeType
    <3> QED BY <3>1
  <2>4. \A i \in {0} : \A u, v \in States : step[<<i, u>>] = step[<<i, v>>]
    BY <1>1
  <2>5. States # {} /\ n + 1 \in Nat
    BY <1>1, <1>2
  <2> HIDE DEF D, next, rank, step
  <2> QED BY <2>1, <2>2, <2>3, <2>4, <2>5 DEF Recurs, Descends
<1>4. Descends(D, {0}, next, rank)
  BY <1>3 DEF Recurs
<1>5. PICK f \in [D -> States] : \A i \in D : f[i] = step[<<i, f[next[i]]>>]
  <2> HIDE DEF D, next, rank, step
  <2> QED BY <1>3, Recursion
<1>6. f = [i \in D |-> E(f, i)]
  <2>1. ASSUME NEW i \in D PROVE f[i] = E(f, i)
    <3>1. next[i] \in D /\ f[next[i]] \in States /\ f[i] = step[<<i, f[next[i]]>>]
      <4> HIDE DEF D, next, step
      <4> QED BY <1>4, <1>5 DEF Descends
    <3>2. <<i, f[next[i]]>> \in D \X States
      BY <3>1
    <3>3. f[i] = IF i = 0 THEN ConvertState ELSE Utf8To32(text[i], f[next[i]])
      BY <3>1, <3>2
    <3> QED BY <3>3
  <2> QED BY <2>1
<1>7. solution = [i \in D |-> E(solution, i)]
  BY <1>6
<1>8. Utf8Decode(text) = FlattenSeq([i \in DOMAIN text |-> Reading(solution[i])])
  BY DEF Utf8Decode, Reading
<1> HIDE DEF solution
<1>9. \A i \in D : solution[i] = E(solution, i)
  BY <1>7
<1> DEFINE P == {i \in D : solution[i] \in States}
<1>10. ASSUME NEW i \in D, i \in {0} \/ next[i] \in P PROVE i \in P
  <2>1. CASE i = 0
    BY <1>2, <1>9, <2>1
  <2>2. CASE i # 0
    <3>1. solution[i - 1] \in States /\ text[i] \in Bytes
      BY <1>1, <1>10, <2>2
    <3>2. solution[i] = Utf8To32(text[i], solution[i - 1])
      BY <1>9, <2>2
    <3> QED BY <3>1, <3>2, DecodeType
  <2> QED BY <2>1, <2>2
<1>11. D \subseteq P
  <2> HIDE DEF D, next, rank, P
  <2> QED BY <1>4, <1>10, Descent
<1>12. Decodes(solution, text)
  <2>1. solution \in [D -> States]
    BY <1>7, <1>11
  <2>2. solution[0] = ConvertState /\ \A i \in 1 .. n : solution[i] = Utf8To32(text[i], solution[i - 1])
    BY <1>1, <1>9
  <2> QED BY <2>1, <2>2 DEF Decodes
<1> QED BY <1>8, <1>12

LEMMA Utf8DecodeType ==
    ASSUME NEW text \in Seq(Bytes)
    PROVE  Utf8Decode(text) \in Seq(Nat)
<1>1. PICK f : /\ Decodes(f, text)
               /\ Utf8Decode(text) = FlattenSeq([i \in DOMAIN text |-> Reading(f[i])])
  BY Utf8DecodeIs
<1>2. ASSUME NEW i \in 1 .. Len(text) PROVE Reading(f[i]) \in Seq(Nat)
  <2>1. f[i] \in States
    BY <1>1 DEF Decodes
  <2>2. Glyph(f[i]) \in Nat
    BY <2>1, GlyphType
  <2> QED BY <2>2 DEF Reading
<1>3. [i \in DOMAIN text |-> Reading(f[i])] \in Seq(Seq(Nat))
  BY <1>2
<1> QED BY <1>1, <1>3, FlattenType

LEMMA Utf8EncodeType ==
    ASSUME NEW glyphs \in Seq(Nat)
    PROVE  Utf8Encode(glyphs) \in Seq(Bytes)
<1>1. ASSUME NEW i \in 1 .. Len(glyphs) PROVE Utf32To8(glyphs[i]) \in Seq(Bytes)
  <2>1. glyphs[i] \in Nat
    OBVIOUS
  <2> QED BY <2>1, EncodeType
<1>2. [i \in 1 .. Len(glyphs) |-> Utf32To8(glyphs[i])] \in Seq(Seq(Bytes))
  BY <1>1
<1> QED BY <1>2, FlattenType DEF Utf8Encode
-----------------------------------------------------------------------------
(* The uses of a stream.                                                   *)

LineText(text) == [op |-> "line", text |-> text]
Number(n)   == [op |-> "number", n |-> n]
Newline     == [op |-> "newline"]

Uses == {Markup, Newline} \cup {Content(text) : text \in Seq(Bytes)}
        \cup {LineText(text) : text \in Seq(Bytes)} \cup {Number(n) : n \in Nat}

LEMMA UseIs ==
    ASSUME NEW use \in Uses
    PROVE  /\ use.op \in {"content", "line"} => use.text \in Seq(Bytes)
           /\ use.op = "number" => use.n \in Nat
<1>1. CASE use \in {Markup, Newline}
  BY <1>1 DEF Markup, Newline
<1>2. CASE \E text \in Seq(Bytes) : use = Content(text) \/ use = LineText(text)
  BY <1>2 DEF Content, LineText
<1>3. CASE \E n \in Nat : use = Number(n)
  BY <1>3 DEF Number
<1> QED BY <1>1, <1>2, <1>3 DEF Uses

LEMMA LineWorkType ==
    ASSUME NEW line \in [text : Seq(Bytes), number : Nat]
    PROVE  LineWork(line) \in Seq(Uses)
<1>1. LineText(line.text) \in Uses /\ Number(line.number) \in Uses /\ Newline \in Uses
  BY DEF Uses
<1>2. /\ <<LineText(line.text)>> \in Seq(Uses) /\ <<Number(line.number)>> \in Seq(Uses)
      /\ <<Newline>> \in Seq(Uses) /\ <<>> \in Seq(Uses)
  <2> HIDE DEF Uses
  <2> QED BY <1>1
<1>3. LineWork(line) = <<LineText(line.text)>>
                       \o (IF line.number = 0 THEN <<>> ELSE <<Number(line.number)>>)
                       \o <<Newline>>
  BY DEF LineWork, LineText, Number, Newline
<1> DEFINE number == IF line.number = 0 THEN <<>> ELSE <<Number(line.number)>>
<1>4. number \in Seq(Uses)
  BY <1>2
<1> HIDE DEF number, Uses
<1>5. <<LineText(line.text)>> \o number \in Seq(Uses)
  BY <1>2, <1>4, Concat
<1>6. (<<LineText(line.text)>> \o number) \o <<Newline>> \in Seq(Uses)
  BY <1>2, <1>5, Concat
<1> QED BY <1>3, <1>6 DEF number

LEMMA LogWorkType ==
    ASSUME NEW lines \in Seq([text : Seq(Bytes), number : Nat])
    PROVE  [i \in DOMAIN lines |-> LineWork(lines[i])] \in Seq(Seq(Uses))
<1>1. ASSUME NEW i \in 1 .. Len(lines) PROVE LineWork(lines[i]) \in Seq(Uses)
  <2>1. lines[i] \in [text : Seq(Bytes), number : Nat]
    BY Element
  <2> QED BY <2>1, LineWorkType
<1>2. PICK n \in Nat : n = Len(lines) /\ DOMAIN lines = 1 .. n
  OBVIOUS
<1>3. PICK works : works = [i \in 1 .. n |-> LineWork(lines[i])]
  OBVIOUS
<1>4. works \in [1 .. n -> Seq(Uses)]
  BY <1>1, <1>2, <1>3, Zenon
<1>5. works \in Seq(Seq(Uses))
  BY <1>2, <1>4, IsSequence
<1> QED BY <1>2, <1>3, <1>5, Zenon

LEMMA RowType ==
    ASSUME NEW key \in Seq(Bytes), NEW value \in Seq(Bytes)
    PROVE  Row(key, value) \in Seq(Uses)
<1>1. Markup \in Uses /\ Content(key) \in Uses /\ Content(value) \in Uses
  BY DEF Uses
<1> HIDE DEF Uses
<1> QED BY <1>1 DEF Row

LEMMA QueryRowsType ==
    ASSUME NEW query \in Seq(Seq(Bytes) \X Seq(Bytes))
    PROVE  QueryRows(query) \in Seq(Uses)
<1> DEFINE rows == [i \in 1 .. Len(query) |->
                      Row(QueryDecode(query[i][1]), QueryDecode(query[i][2]))]
<1>1. ASSUME NEW i \in 1 .. Len(query)
      PROVE  Row(QueryDecode(query[i][1]), QueryDecode(query[i][2])) \in Seq(Uses)
  <2>1. query[i] \in Seq(Bytes) \X Seq(Bytes)
    OBVIOUS
  <2>2. query[i][1] \in Seq(Bytes) /\ query[i][2] \in Seq(Bytes)
    BY <2>1
  <2>3. QueryDecode(query[i][1]) \in Seq(Bytes) /\ QueryDecode(query[i][2]) \in Seq(Bytes)
    BY <2>2, QueryDecodeType
  <2> QED BY <2>3, RowType
<1>2. rows \in Seq(Seq(Uses))
  BY <1>1
<1> QED BY <1>2, FlattenType DEF QueryRows

LEMMA EnvRowsType ==
    ASSUME env_map \in EnvMaps, IsFiniteSet(DOMAIN env_map),
           NEW keys \in SetToSeqs(DOMAIN env_map)
    PROVE  EnvRows(keys) \in Seq(Uses)
<1> DEFINE names == DOMAIN env_map
           rows == [i \in 1 .. Len(keys) |-> Row(keys[i], env_map[keys[i]])]
<1>1. names \in SUBSET Seq(Bytes) /\ env_map \in [names -> Seq(Bytes)]
  BY DEF EnvMaps
<1>2. Cardinality(names) \in Nat
  BY FS_CardinalityType
<1>3. keys \in [1 .. Cardinality(names) -> names]
  BY DEF SetToSeqs
<1> HIDE DEF names
<1>4. keys \in Seq(names) /\ Len(keys) \in Nat
  BY <1>2, <1>3
<1>5. ASSUME NEW i \in 1 .. Len(keys) PROVE Row(keys[i], env_map[keys[i]]) \in Seq(Uses)
  <2>1. keys[i] \in names
    BY <1>4
  <2>2. keys[i] \in Seq(Bytes) /\ env_map[keys[i]] \in Seq(Bytes)
    BY <1>1, <2>1
  <2> QED BY <2>2, RowType
<1>6. rows \in Seq(Seq(Uses))
  BY <1>4, <1>5
<1> QED BY <1>6, FlattenType DEF EnvRows
-----------------------------------------------------------------------------
(* The invariant: everything that is still to be written can be written.   *)

StreamsInv ==
    /\ job \in Jobs
    /\ phase \in {"route", "handler", "stream", "log", "done"}
    /\ phase \in {"route", "handler"} => job.kind = "page"
    /\ env_map \in EnvMaps /\ IsFiniteSet(DOMAIN env_map)
    /\ route \in Seq(Seq(Bytes))
    /\ work \in Seq(Uses)
    /\ start \in Nat
    /\ logged \in Seq(Seq(Bytes))

SInv == FInv /\ StreamsInv

LEMMA InitSInv == Init => SInv /\ \E format \in Formats : FormatterInit(format)
<1> SUFFICES ASSUME Init PROVE SInv /\ \E format \in Formats : FormatterInit(format)
  OBVIOUS
<1>1. env_map \in EnvMaps /\ IsFiniteSet(DOMAIN env_map)
  <2>1. env_map = <<>> /\ DOMAIN env_map = {}
    BY DEF Init
  <2>2. env_map \in [{} -> Seq(Bytes)] /\ {} \in SUBSET Seq(Bytes)
    BY <2>1
  <2>3. IsFiniteSet({})
    BY FS_EmptySet
  <2> QED BY <2>1, <2>2, <2>3 DEF EnvMaps
<1>2. /\ job \in Jobs /\ start \in Nat
      /\ route \in Seq(Seq(Bytes)) /\ logged \in Seq(Seq(Bytes))
  BY Empty, Zenon DEF Init
<1>3. CASE job.kind = "page"
  <2>1. FormatterInit("HTML") /\ phase = "route" /\ work = <<>>
    BY <1>3 DEF Init
  <2>2. "HTML" \in Formats
    BY DEF Formats
  <2>3. FInv
    BY <2>1, <2>2, InitFInv
  <2>4. work \in Seq(Uses)
    BY <2>1, Empty, Zenon
  <2> QED BY <1>1, <1>2, <1>3, <2>1, <2>2, <2>3, <2>4 DEF SInv, StreamsInv
<1>4. CASE job.kind # "page"
  <2> DEFINE works == [i \in DOMAIN job.input |-> LineWork(job.input[i])]
  <2>1. FormatterInit("UTF8") /\ phase = "stream" /\ work = FlattenSeq(works)
    BY <1>4 DEF Init
  <2>2. "UTF8" \in Formats
    BY DEF Formats
  <2>3. FInv
    BY <2>1, <2>2, InitFInv
  <2>4. job.input \in Seq([text : Seq(Bytes), number : Nat])
    BY <1>2, <1>4, JobsAssumption
  <2>6. works \in Seq(Seq(Uses))
    BY <2>4, LogWorkType
  <2> HIDE DEF works
  <2>7. work \in Seq(Uses)
    BY <2>1, <2>6, FlattenType
  <2> QED BY <1>1, <1>2, <2>1, <2>2, <2>3, <2>7 DEF SInv, StreamsInv
<1> QED BY <1>3, <1>4

LEMMA ReadRouteStep ==
    ASSUME SInv, ReadRoute
    PROVE  StreamsInv' /\ UNCHANGED formatterVars
<1>1. job \in Jobs /\ job.kind = "page"
  BY DEF SInv, StreamsInv, ReadRoute
<1>2. job.input \in Seq(Seq(Bytes))
  BY <1>1, JobsAssumption
<1>3. env_map' = EnvMap(job.input) /\ route' = Route(Env(env_map', DOCUMENT_URI))
  BY DEF ReadRoute
<1>4. env_map' \in EnvMaps /\ IsFiniteSet(DOMAIN env_map')
  BY <1>2, <1>3, EnvMapType
<1>5. route' \in Seq(Seq(Bytes))
  BY <1>3, <1>4, EnvType, RouteType
<1> QED BY <1>1, <1>4, <1>5 DEF SInv, StreamsInv, ReadRoute, loggerVars

LEMMA HelloWorldStep ==
    ASSUME SInv, HelloWorld
    PROVE  StreamsInv' /\ UNCHANGED formatterVars
<1>1. env_map \in EnvMaps /\ IsFiniteSet(DOMAIN env_map)
  BY DEF SInv, StreamsInv
<1>2. PICK keys \in SetToSeqs(DOMAIN env_map) :
          work' = QueryRows(Query(Env(env_map, QUERY_STRING))) \o EnvRows(keys) \o <<Markup>>
  BY DEF HelloWorld
<1>3. QueryRows(Query(Env(env_map, QUERY_STRING))) \in Seq(Uses)
  BY <1>1, EnvType, QueryType, QueryRowsType
<1>4. EnvRows(keys) \in Seq(Uses)
  BY <1>1, EnvRowsType
<1>5. <<Markup>> \in Seq(Uses)
  <2>1. Markup \in Uses
    BY DEF Uses
  <2> HIDE DEF Uses
  <2> QED BY <2>1
<1>6. QueryRows(Query(Env(env_map, QUERY_STRING))) \o EnvRows(keys) \in Seq(Uses)
  BY <1>3, <1>4, Concat
<1>7. work' \in Seq(Uses)
  BY <1>2, <1>5, <1>6, Concat
<1> QED BY <1>7 DEF SInv, StreamsInv, HelloWorld, requestVars, loggerVars

LEMMA UseStep ==
    ASSUME SInv, NEW op, Use(op)
    PROVE  /\ StreamsInv' /\ Head(work) \in Uses /\ Head(work).op = op
<1>1. work \in Seq(Uses) /\ work # <<>>
  BY DEF SInv, StreamsInv, Use
<1>2. Head(work) \in Uses /\ Tail(work) \in Seq(Uses)
  BY <1>1
<1> QED BY <1>2 DEF SInv, StreamsInv, Use, requestVars, loggerVars

(* Each use of a stream is a call of the formatter.                        *)
LEMMA WriteStep ==
    ASSUME SInv,
           \/ WriteMarkup \/ WriteContent \/ WriteBytes \/ WriteGlyphs
           \/ WriteEncoded \/ WritePrintf \/ WriteNumber \/ WriteNewline
    PROVE  StreamsInv' /\ FormatterNext
<1>1. CASE WriteMarkup
  <2>1. <<LT>> \in Seq(Bytes)
    BY DEF LT, Bytes
  <2> QED BY <1>1, <2>1, UseStep DEF WriteMarkup, FormatterNext
<1>2. CASE WriteContent
  <2>1. StreamsInv' /\ Head(work) \in Uses /\ Head(work).op = "content"
    BY <1>2, UseStep DEF WriteContent
  <2>2. Head(work).text \in Seq(Bytes)
    BY <2>1, UseIs
  <2> QED BY <1>2, <2>1, <2>2 DEF WriteContent, FormatterNext
<1>3. CASE WriteBytes \/ WriteGlyphs \/ WriteEncoded \/ WritePrintf
  <2>1. StreamsInv' /\ Head(work) \in Uses /\ Head(work).op = "line"
    BY <1>3, UseStep DEF WriteBytes, WriteGlyphs, WriteEncoded, WritePrintf
  <2>2. Head(work).text \in Seq(Bytes)
    BY <2>1, UseIs
  <2>3. Utf8Decode(Head(work).text) \in Seq(Nat)
    BY <2>2, Utf8DecodeType
  <2>4. Utf8Encode(Utf8Decode(Head(work).text)) \in Seq(Bytes)
    BY <2>3, Utf8EncodeType
  <2> QED BY <1>3, <2>1, <2>2, <2>3, <2>4
          DEF WriteBytes, WriteGlyphs, WriteEncoded, WritePrintf, FormatterNext
<1>4. CASE WriteNumber
  <2>1. StreamsInv' /\ Head(work) \in Uses /\ Head(work).op = "number"
    BY <1>4, UseStep DEF WriteNumber
  <2>2. Head(work).n \in Nat
    BY <2>1, UseIs
  <2>3. Digits(Head(work).n) \in Seq(Bytes)
    BY <2>2, DigitsType
  <2> QED BY <1>4, <2>1, <2>3 DEF WriteNumber, FormatterNext
<1>5. CASE WriteNewline
  <2>1. <<NEWLINE>> \in Seq(Bytes)
    BY DEF NEWLINE, Bytes
  <2> QED BY <1>5, <2>1, UseStep DEF WriteNewline, FormatterNext
<1> QED BY <1>1, <1>2, <1>3, <1>4, <1>5
LEMMA MaxIs ==
    ASSUME NEW T, NEW N \in Nat, T \subseteq 0 .. N, T # {}
    PROVE  Max(T) \in T /\ \A n \in T : n <= Max(T)
<1> DEFINE R == {n \in 0 .. N : N - n \in T}
<1>1. R \in SUBSET Nat /\ R # {}
  <2>1. PICK n \in T : TRUE
    OBVIOUS
  <2>2. n \in 0 .. N
    OBVIOUS
  <2>3. N - n \in 0 .. N /\ N - (N - n) = n
    BY <2>2
  <2>4. N - n \in R
    BY <2>3
  <2>5. R \subseteq 0 .. N
    OBVIOUS
  <2> HIDE DEF R
  <2> QED BY <2>4, <2>5
<1>2. PICK least \in R : \A n \in R : least <= n
  BY <1>1, LeastNumber
<1>3. N - least \in T /\ \A n \in T : N - least >= n
  <2>1. ASSUME NEW n \in T PROVE N - least >= n
    <3>1. N - n \in R /\ n \in 0 .. N
      OBVIOUS
    <3>2. least <= N - n /\ least \in 0 .. N
      BY <1>2, <3>1
    <3> QED BY <3>1, <3>2
  <2> QED BY <2>1
<1>4. Max(T) \in T /\ \A n \in T : Max(T) >= n
  BY <1>3 DEF Max
<1>5. \A n \in T : n \in Nat
  OBVIOUS
<1> QED BY <1>4, <1>5

LEMMA LogLineStep ==
    ASSUME SInv, LogLine
    PROVE  StreamsInv' /\ UNCHANGED formatterVars
<1> DEFINE found == Find(out, NEWLINE, start + 1)
           newline == found - 1
           T == {start} \cup {i \in start + 1 .. newline : ~Blank(out[i])}
           end == TrimRight(newline)
<1>1. out \in Seq(Bytes) /\ start \in Nat /\ start < Len(out) /\ Len(out) \in Nat
  BY DEF SInv, FInv, FormatterTypeOK, StreamsInv, LogLine
<1>2. PICK from \in 1 .. Len(out) + 1 : from = start + 1
  BY <1>1
<1>3. found \in from .. Len(out) + 1
  BY <1>1, <1>2, FindIs
<1>4. start' = newline + 1
      /\ logged' = IF start < end THEN Append(logged, SubSeq(out, start + 1, end)) ELSE logged
  BY DEF LogLine
<1> HIDE DEF found
<1>5. T \subseteq 0 .. Len(out) /\ T # {}
  BY <1>1, <1>2, <1>3
<1> HIDE DEF T
<1>6. end \in 0 .. Len(out)
  <2>1. end = Max(T)
    BY DEF TrimRight, T
  <2>2. Max(T) \in T
    BY <1>1, <1>5, MaxIs
  <2> QED BY <1>5, <2>1, <2>2
<1> HIDE DEF end
<1>7. SubSeq(out, from, end) \in Seq(Bytes)
  BY <1>1, <1>6, Piecewise
<1>8. logged' \in Seq(Seq(Bytes)) /\ start' \in Nat
  BY <1>1, <1>2, <1>3, <1>4, <1>7 DEF SInv, StreamsInv
<1> QED BY <1>8 DEF SInv, StreamsInv, LogLine, requestVars

(* Every step of the users is a step of a formatter of any texts, or none. *)
LEMMA NextSInv ==
    ASSUME SInv, [Next]_vars
    PROVE  SInv' /\ [FormatterNext]_formatterVars
<1>1. CASE ReadRoute
  BY <1>1, ReadRouteStep, NextFInv DEF SInv
<1>2. CASE HelloWorld
  BY <1>2, HelloWorldStep, NextFInv DEF SInv
<1>3. CASE \/ WriteMarkup \/ WriteContent \/ WriteBytes \/ WriteGlyphs
           \/ WriteEncoded \/ WritePrintf \/ WriteNumber \/ WriteNewline
  BY <1>3, WriteStep, NextFInv DEF SInv
<1>4. CASE Format
  <2>1. FormatterNext
    BY <1>4 DEF Format, FormatterNext
  <2>2. StreamsInv'
    BY <1>4 DEF Format, SInv, StreamsInv, requestVars, loggerVars
  <2> QED BY <2>1, <2>2, NextFInv DEF SInv
<1>5. CASE PageEnds \/ LogStreamEnds
  <2>1. PICK next \in {"done", "log"} : StreamEnds(next)
    BY <1>5 DEF PageEnds, LogStreamEnds
  <2>2. StreamsInv' /\ UNCHANGED formatterVars
    BY <2>1 DEF StreamEnds, SInv, StreamsInv, requestVars, loggerVars
  <2> QED BY <2>2, NextFInv DEF SInv
<1>6. CASE LogLine
  BY <1>6, LogLineStep, NextFInv DEF SInv
<1>7. CASE LogReturns
  <2>1. StreamsInv' /\ UNCHANGED formatterVars
    BY <1>7 DEF LogReturns, SInv, StreamsInv, requestVars, loggerVars
  <2> QED BY <2>1, NextFInv DEF SInv
<1>8. CASE Done \/ UNCHANGED vars
  <2>1. StreamsInv' /\ UNCHANGED formatterVars
    BY <1>8 DEF Done, vars, SInv, StreamsInv, requestVars, loggerVars
  <2> QED BY <2>1, NextFInv DEF SInv
<1> QED BY <1>1, <1>2, <1>3, <1>4, <1>5, <1>6, <1>7, <1>8 DEF Next

THEOREM StreamsInvariant == Spec => []SInv
<1>1. Init => SInv
  BY InitSInv
<1>2. SInv /\ [Next]_vars => SInv'
  BY NextSInv
<1> QED BY <1>1, <1>2, PTL DEF Spec

(* Pages and logs of any texts only ever use the formatter as its          *)
(* specification allows: what holds of the formatter holds of them.        *)
THEOREM StreamsUseFormatter == Spec => FormatterSpec
<1>1. Init => \E format \in Formats : FormatterInit(format)
  BY InitSInv
<1>2. SInv /\ [Next]_vars => [FormatterNext]_formatterVars
  BY NextSInv
<1> QED BY <1>1, <1>2, StreamsInvariant, PTL DEF Spec, FormatterSpec

(* The state of a page or a log keeps its type: for any environment the    *)
(* parsers find names and texts, and for any message the log gets texts.   *)
THEOREM TypeCorrect == Spec => []TypeOK
<1>1. SInv => TypeOK
  BY DEF SInv, FInv, StreamsInv, EnvMaps, TypeOK
<1> QED BY <1>1, StreamsInvariant, PTL

(* No page and no log, of whatever request or message, overruns the buffer *)
(* of the formatter, and no content of a page opens a tag.                 *)
THEOREM PagesAreSafe == Spec => []BufferFits /\ ContentIsInert
BY StreamsUseFormatter, BufferNeverOverrun, ContentNeverOpensATag, PTL
-----------------------------------------------------------------------------
(* The buffer.                                                             *)

Conversions == [state : States, text : Seq(Bytes)]

(* One byte, or code point, more: the state of the decoder and the piece.  *)
NextState(kind, c, state) == IF kind = "bytes" THEN Utf8To32(c, state) ELSE state
NextPiece(format, kind, c, state) ==
    LET glyph == IF kind = "bytes" THEN Glyph(NextState(kind, c, state)) ELSE c
    IN  IF kind = "bytes" /\ glyph = 0 THEN <<>> ELSE Piece(format, glyph, c)
NextConversion(format, kind, c, before) ==
    Conversion(NextState(kind, c, before.state),
               before.text \o NextPiece(format, kind, c, before.state))

LEMMA ConversionIs ==
    \A state, text : Conversion(state, text).state = state /\ Conversion(state, text).text = text
BY DEF Conversion

LEMMA ConversionType ==
    /\ \A state \in States, text \in Seq(Bytes) : Conversion(state, text) \in Conversions
    /\ \A x \in Conversions : /\ x.state \in States /\ x.text \in Seq(Bytes)
                              /\ x = Conversion(x.state, x.text)
BY DEF Conversions, Conversion

Arguments(format, kind, from, text) ==
    /\ format \in Formats /\ from \in States /\ text \in Seq(Nat)
    /\ kind = "bytes" => text \in Seq(Bytes)

LEMMA NextPieceType ==
    ASSUME NEW format \in Formats, NEW kind, NEW c \in Nat, kind = "bytes" => c \in Bytes,
           NEW state \in States
    PROVE  /\ NextState(kind, c, state) \in States
           /\ NextPiece(format, kind, c, state) \in Seq(Bytes)
<1>1. CASE kind = "bytes"
  <2> DEFINE glyph == Glyph(Utf8To32(c, state))
  <2>1. Utf8To32(c, state) \in States
    BY <1>1, DecodeType
  <2>2. glyph \in Nat
    BY <2>1, GlyphType
  <2> HIDE DEF glyph
  <2>3. Piece(format, glyph, c) \in Seq(Bytes)
    BY <1>1, <2>2, PieceType
  <2>4. NextPiece(format, kind, c, state) = IF glyph = 0 THEN <<>> ELSE Piece(format, glyph, c)
    BY <1>1 DEF NextPiece, NextState, glyph
  <2> QED BY <1>1, <2>1, <2>3, <2>4, Empty DEF NextState
<1>2. CASE kind # "bytes"
  <2>1. Piece(format, c, c) \in Seq(Bytes)
    BY PieceType
  <2> QED BY <1>2, <2>1 DEF NextPiece, NextState
<1> QED BY <1>1, <1>2

(* f has the conversions of the beginnings of the text.                    *)
Converts(f, format, kind, from, text) ==
    /\ f \in [0 .. Len(text) -> Conversions]
    /\ f[0] = Conversion(from, <<>>)
    /\ \A i \in 1 .. Len(text) : f[i] = NextConversion(format, kind, text[i], f[i - 1])

LEMMA ConvertedIs ==
    ASSUME NEW format, NEW kind, NEW from, NEW text, Arguments(format, kind, from, text)
    PROVE  \E f : /\ Converts(f, format, kind, from, text)
                  /\ Converted(format, kind, from, text) = f[Len(text)].text
<1> DEFINE n == Len(text)
           D == 0 .. n
           skips(c, state) == kind = "bytes" /\ Glyph(NextState(kind, c, state)) = 0
           piece(c, state) == Piece(format, IF kind = "bytes" THEN Glyph(NextState(kind, c, state))
                                                              ELSE c, c)
           then(c, x) == Conversion(NextState(kind, c, x.state),
                                    IF skips(c, x.state) THEN x.text
                                    ELSE x.text \o piece(c, x.state))
           E(f, i) == IF i = 0 THEN Conversion(from, <<>>) ELSE then(text[i], f[i - 1])
           next == [i \in D |-> IF i = 0 THEN 0 ELSE i - 1]
           rank == [i \in D |-> i]
           step == [x \in D \X Conversions |-> IF x[1] = 0 THEN Conversion(from, <<>>)
                                               ELSE then(text[x[1]], x[2])]
           solution == CHOOSE f : f = [i \in D |-> E(f, i)]
<1>1. /\ n \in Nat /\ format \in Formats /\ from \in States
      /\ \A i \in D : i # 0 => /\ text[i] \in Nat /\ i - 1 \in D
                               /\ kind = "bytes" => text[i] \in Bytes
  BY DEF Arguments
<1>2. Conversion(from, <<>>) \in Conversions
  BY <1>1, Empty, ConversionType
<1>3. ASSUME NEW c \in Nat, kind = "bytes" => c \in Bytes, NEW x \in Conversions
      PROVE  /\ then(c, x) = NextConversion(format, kind, c, x)
             /\ then(c, x) \in Conversions
  <2>1. x.state \in States /\ x.text \in Seq(Bytes)
    BY ConversionType
  <2>2. NextPiece(format, kind, c, x.state) = IF skips(c, x.state) THEN <<>> ELSE piece(c, x.state)
    BY DEF NextPiece
  <2>3. /\ NextState(kind, c, x.state) \in States
        /\ NextPiece(format, kind, c, x.state) \in Seq(Bytes)
    BY <1>1, <1>3, <2>1, NextPieceType
  <2> HIDE DEF skips, piece
  <2>4. x.text \o <<>> = x.text
    BY <2>1
  <2>5. then(c, x) = NextConversion(format, kind, c, x)
    BY <2>2, <2>4 DEF NextConversion
  <2>6. x.text \o NextPiece(format, kind, c, x.state) \in Seq(Bytes)
    BY <2>1, <2>3, Concat
  <2>7. NextConversion(format, kind, c, x) \in Conversions
    BY <2>3, <2>6, ConversionType DEF NextConversion
  <2> QED BY <2>5, <2>7
<1>4. \A f : [i \in D |-> E(f, i)] =
             [i \in D |->
                IF i = 0 THEN Conversion(from, <<>>)
                ELSE LET before == f[i - 1]
                         state  == IF kind = "bytes" THEN Utf8To32(text[i], before.state)
                                                     ELSE before.state
                         glyph  == IF kind = "bytes" THEN Glyph(state) ELSE text[i]
                     IN  Conversion(state, IF kind = "bytes" /\ glyph = 0 THEN before.text
                                           ELSE before.text \o Piece(format, glyph, text[i]))]
  BY DEF NextState
<1>5. Converted(format, kind, from, text) = solution[n].text
  BY <1>4 DEF Converted
<1> HIDE DEF then
<1>6. Recurs(D, {0}, next, rank, n + 1, Conversions, step)
  <2>1. next \in [D -> D] /\ rank \in [D -> Nat] /\ \A i \in D : rank[i] < n + 1
    BY <1>1
  <2>2. \A i \in D \ {0} : rank[next[i]] < rank[i]
    BY <1>1
  <2>3. step \in [D \X Conversions -> Conversions]
    <3>1. ASSUME NEW i \in D, NEW v \in Conversions
          PROVE  (IF i = 0 THEN Conversion(from, <<>>) ELSE then(text[i], v)) \in Conversions
      BY <1>1, <1>2, <1>3
    <3> QED BY <3>1
  <2>4. \A i \in {0} : \A u, v \in Conversions : step[<<i, u>>] = step[<<i, v>>]
    BY <1>1
  <2>5. Conversions # {} /\ n + 1 \in Nat
    BY <1>1, <1>2
  <2> HIDE DEF D, next, rank, step
  <2> QED BY <2>1, <2>2, <2>3, <2>4, <2>5 DEF Recurs, Descends
<1>7. Descends(D, {0}, next, rank)
  BY <1>6 DEF Recurs
<1>8. PICK f \in [D -> Conversions] : \A i \in D : f[i] = step[<<i, f[next[i]]>>]
  <2> HIDE DEF D, next, rank, step
  <2> QED BY <1>6, Recursion
<1>9. f = [i \in D |-> E(f, i)]
  <2>1. ASSUME NEW i \in D PROVE f[i] = E(f, i)
    <3>1. next[i] \in D /\ f[next[i]] \in Conversions /\ f[i] = step[<<i, f[next[i]]>>]
      <4> HIDE DEF D, next, step
      <4> QED BY <1>7, <1>8 DEF Descends
    <3>2. <<i, f[next[i]]>> \in D \X Conversions
      BY <3>1
    <3>3. f[i] = IF i = 0 THEN Conversion(from, <<>>) ELSE then(text[i], f[next[i]])
      BY <3>1, <3>2
    <3> QED BY <3>3
  <2> QED BY <2>1
<1>10. solution = [i \in D |-> E(solution, i)]
  BY <1>9
<1> HIDE DEF solution
<1>11. \A i \in D : solution[i] = E(solution, i)
  BY <1>10
<1> DEFINE P == {i \in D : solution[i] \in Conversions}
<1>12. ASSUME NEW i \in D, i \in {0} \/ next[i] \in P PROVE i \in P
  <2>1. CASE i = 0
    BY <1>2, <1>11, <2>1
  <2>2. CASE i # 0
    <3>1. /\ solution[i - 1] \in Conversions /\ text[i] \in Nat
          /\ kind = "bytes" => text[i] \in Bytes
      BY <1>1, <1>12, <2>2
    <3>2. solution[i] = then(text[i], solution[i - 1])
      BY <1>11, <2>2
    <3> QED BY <1>3, <3>1, <3>2
  <2> QED BY <2>1, <2>2
<1>13. D \subseteq P
  <2> HIDE DEF D, next, rank, P
  <2> QED BY <1>7, <1>12, Descent
<1>14. ASSUME NEW i \in 1 .. n
       PROVE  solution[i] = NextConversion(format, kind, text[i], solution[i - 1])
  <2>1. /\ i \in D /\ i # 0 /\ solution[i - 1] \in Conversions /\ text[i] \in Nat
        /\ kind = "bytes" => text[i] \in Bytes
    BY <1>1, <1>13
  <2>2. solution[i] = then(text[i], solution[i - 1])
    BY <1>11, <2>1
  <2> QED BY <1>3, <2>1, <2>2
<1>15. solution \in [D -> Conversions] /\ solution[0] = Conversion(from, <<>>)
  BY <1>1, <1>10, <1>11, <1>13
<1>16. Converts(solution, format, kind, from, text)
  BY <1>14, <1>15 DEF Converts
<1> QED BY <1>5, <1>16
(* What is put in front of a conversion stays in front of the next one.    *)
LEMMA ConversionAfter ==
    ASSUME NEW format, NEW kind, NEW c, NEW piece \in Seq(Bytes), NEW f, NEW g,
           f = Conversion(g.state, piece \o g.text), g.text \in Seq(Bytes),
           NextPiece(format, kind, c, g.state) \in Seq(Bytes)
    PROVE  LET next == NextConversion(format, kind, c, g)
           IN  NextConversion(format, kind, c, f) = Conversion(next.state, piece \o next.text)
<1>1. f.state = g.state /\ f.text = piece \o g.text
  BY ConversionIs
<1> DEFINE q == NextPiece(format, kind, c, g.state)
           t == NextState(kind, c, g.state)
<1>2. NextConversion(format, kind, c, g) = Conversion(t, g.text \o q)
  BY DEF NextConversion
<1>3. NextConversion(format, kind, c, f) = Conversion(t, (piece \o g.text) \o q)
  BY <1>1 DEF NextConversion
<1> HIDE DEF q, t
<1>4. (piece \o g.text) \o q = piece \o (g.text \o q)
  BY AssociativeBytes, Zenon DEF q
<1>5. /\ Conversion(t, g.text \o q).state = t
      /\ Conversion(t, g.text \o q).text = g.text \o q
  BY ConversionIs
<1> QED BY <1>2, <1>3, <1>4, <1>5, Zenon

(* A conversion is that of its first byte and then that of the others.     *)
ConvertsHead(format, kind, from, text) ==
    LET state == NextState(kind, Head(text), from)
        piece == NextPiece(format, kind, Head(text), from)
        others == Converted(format, kind, state, Tail(text))
    IN  /\ piece \in Seq(Bytes) /\ others \in Seq(Bytes)
        /\ Converted(format, kind, from, text) = piece \o others

LEMMA ConvertedNext ==
    ASSUME NEW format, NEW kind, NEW from, NEW text, Arguments(format, kind, from, text),
           text # <<>>
    PROVE  ConvertsHead(format, kind, from, text)
<1>0. PICK state, piece, tail, m, c :
         /\ state = NextState(kind, Head(text), from)
         /\ piece = NextPiece(format, kind, Head(text), from)
         /\ tail = Tail(text) /\ m = Len(tail) /\ c = Head(text)
  OBVIOUS
<1>1. /\ text \in Seq(Nat) /\ format \in Formats /\ from \in States
      /\ kind = "bytes" => text \in Seq(Bytes)
  BY DEF Arguments
<1>2. /\ c \in Nat /\ tail \in Seq(Nat) /\ m \in Nat /\ Len(text) = m + 1 /\ c = text[1]
      /\ \A i \in 1 .. m : tail[i] = text[i + 1]
  BY <1>0, <1>1
<1>3. kind = "bytes" => c \in Bytes /\ tail \in Seq(Bytes)
  BY <1>0, <1>1
<1>4. state \in States /\ piece \in Seq(Bytes)
  BY <1>0, <1>1, <1>2, <1>3, NextPieceType
<1>5. Arguments(format, kind, state, tail)
  BY <1>1, <1>2, <1>3, <1>4 DEF Arguments
<1>6. PICK f : /\ Converts(f, format, kind, from, text)
               /\ Converted(format, kind, from, text) = f[Len(text)].text
  BY ConvertedIs
<1>7. PICK g : /\ Converts(g, format, kind, state, tail)
               /\ Converted(format, kind, state, tail) = g[m].text
  <2>1. \E h : /\ Converts(h, format, kind, state, tail)
               /\ Converted(format, kind, state, tail) = h[Len(tail)].text
    BY <1>5, ConvertedIs
  <2> QED BY <1>0, <2>1, Zenon
<1>8. \A i \in 0 .. m : g[i] \in Conversions /\ g[i].text \in Seq(Bytes) /\ g[i].state \in States
  BY <1>0, <1>7, ConversionType DEF Converts
<1> DEFINE Agree(i) == f[i + 1] = Conversion(g[i].state, piece \o g[i].text)
           S == {i \in Nat : i <= m => Agree(i)}
<1>9. 0 \in S
  <2>1. 1 \in 1 .. Len(text) /\ 1 - 1 = 0 /\ 0 + 1 = 1
    BY <1>2
  <2>2. f[1] = NextConversion(format, kind, c, f[0]) /\ f[0] = Conversion(from, <<>>)
    BY <1>2, <1>6, <2>1 DEF Converts
  <2>3. f[0].state = from /\ f[0].text = <<>>
    BY <2>2, ConversionIs
  <2>4. f[1] = Conversion(state, <<>> \o piece)
    BY <1>0, <2>2, <2>3, Zenon DEF NextConversion
  <2>5. <<>> \o piece = piece \o <<>>
    BY <1>4
  <2>6. g[0] = Conversion(state, <<>>)
    BY <1>7 DEF Converts
  <2>7. g[0].state = state /\ g[0].text = <<>>
    BY <2>6, ConversionIs
  <2>8. Agree(0)
    BY <2>1, <2>4, <2>5, <2>7
  <2> HIDE DEF Agree
  <2> QED BY <2>8
<1>10. ASSUME NEW i \in Nat, i \in S PROVE i + 1 \in S
  <2> SUFFICES ASSUME i + 1 <= m PROVE Agree(i + 1)
    OBVIOUS
  <2>1. i \in 0 .. m /\ i + 1 \in 1 .. m /\ Agree(i)
    BY <1>2, <1>10
  <2>2. i + 2 \in 1 .. Len(text) /\ (i + 2) - 1 = i + 1 /\ (i + 1) - 1 = i /\ (i + 1) + 1 = i + 2
    BY <1>2, <2>1
  <2>3. PICK d : d = text[i + 2]
    OBVIOUS
  <2>4. f[i + 2] = NextConversion(format, kind, d, f[i + 1])
    BY <1>6, <2>2, <2>3 DEF Converts
  <2>5. g[i + 1] = NextConversion(format, kind, d, g[i])
    BY <1>0, <1>2, <1>7, <2>1, <2>2, <2>3 DEF Converts
  <2>6. d \in Nat /\ (kind = "bytes" => d \in Bytes)
    BY <1>1, <2>2, <2>3
  <2>7. NextPiece(format, kind, d, g[i].state) \in Seq(Bytes) /\ g[i].text \in Seq(Bytes)
    BY <1>1, <1>8, <2>1, <2>6, NextPieceType
  <2>8. PICK old, new, h : old = g[i] /\ new = g[i + 1] /\ h = f[i + 1]
    OBVIOUS
  <2>9. h = Conversion(old.state, piece \o old.text) /\ new = NextConversion(format, kind, d, old)
    BY <2>1, <2>5, <2>8
  <2>10. NextPiece(format, kind, d, old.state) \in Seq(Bytes) /\ old.text \in Seq(Bytes)
    BY <2>7, <2>8
  <2>11. NextConversion(format, kind, d, h) = Conversion(new.state, piece \o new.text)
    BY <1>4, <2>9, <2>10, ConversionAfter
  <2> QED BY <2>2, <2>4, <2>8, <2>11
<1>11. Agree(m)
  <2> HIDE DEF Agree
  <2>1. m \in S
    <3> HIDE DEF S
    <3> QED BY <1>2, <1>9, <1>10, Induction
  <2> QED BY <1>2, <2>1
<1>12. f[m + 1].text = piece \o g[m].text
  <2>1. f[m + 1] = Conversion(g[m].state, piece \o g[m].text)
    BY <1>11
  <2>2. Conversion(g[m].state, piece \o g[m].text).text = piece \o g[m].text
    BY ConversionIs
  <2> QED BY <2>1, <2>2, Zenon
<1>13. m \in 0 .. m /\ g[m].text \in Seq(Bytes)
  BY <1>2, <1>8
<1> QED BY <1>0, <1>2, <1>4, <1>6, <1>7, <1>12, <1>13 DEF ConvertsHead

(* An empty text becomes an empty one.                                     *)
LEMMA ConvertedNothing ==
    ASSUME NEW format \in Formats, NEW kind, NEW from \in States
    PROVE  Converted(format, kind, from, <<>>) = <<>>
<1>1. Arguments(format, kind, from, <<>>)
  BY Empty DEF Arguments
<1>2. PICK f : /\ Converts(f, format, kind, from, <<>>)
               /\ Converted(format, kind, from, <<>>) = f[Len(<<>>)].text
  BY <1>1, ConvertedIs
<1>3. Len(<<>>) = 0
  OBVIOUS
<1> QED BY <1>2, <1>3, ConversionIs DEF Converts

(* What a step of a stream does with the text of a call.                   *)
TransparentStep ==
    LET total == out \o tmp \o Converted(m_generic_format, call, mbstate, rest)
        after == out' \o tmp' \o Converted(m_generic_format', call', mbstate', rest')
    IN  /\ call = "none" /\ call' # "none" =>
              after = out \o Converted(m_generic_format', call', ConvertState, rest')
        /\ call # "none" /\ call' # "none" => after = total
        /\ call # "none" /\ call' = "none" => out' = total

LEMMA FInvTypes ==
    ASSUME FInv
    PROVE  /\ out \in Seq(Bytes) /\ tmp \in Seq(Bytes) /\ m_generic_format \in Formats
           /\ mbstate \in States /\ rest \in Seq(Nat)
           /\ call = "bytes" => rest \in Seq(Bytes)
           /\ Arguments(m_generic_format, call, mbstate, rest)
BY Zenon DEF FInv, FormatterTypeOK, BufferInv, States, Arguments

LEMMA FormatNextTransparent == ASSUME FInv, FormatNext PROVE TransparentStep
<1>0. PICK piece, state, others :
         /\ piece = NextPiece(m_generic_format, call, Head(rest), mbstate)
         /\ state = NextState(call, Head(rest), mbstate)
         /\ others = Converted(m_generic_format, call, state, Tail(rest))
  OBVIOUS
<1>1. /\ rest # <<>> /\ rest' = Tail(rest) /\ mbstate' = Decoded
      /\ m_generic_format' = m_generic_format /\ call' = call
  BY Zenon DEF FormatNext
<1>2. call # "none"
  BY <1>1 DEF FInv, BufferInv
<1>3. Decoded = state
  BY <1>0 DEF Decoded, NextState
<1>4. Written = tmp \o piece
  <2>1. Skip => piece = <<>>
    BY <1>0, <1>3 DEF Skip, Next32, NextPiece
  <2>2. ~Skip => piece = Piece(m_generic_format, Next32, Head(rest))
    BY <1>0, <1>3 DEF Skip, Next32, NextPiece
  <2>3. tmp \o <<>> = tmp
    BY FInvTypes, ConcatEmptySeq
  <2> QED BY <2>1, <2>2, <2>3 DEF Written
<1>5. /\ Converted(m_generic_format, call, mbstate, rest) = piece \o others
      /\ piece \in Seq(Bytes) /\ others \in Seq(Bytes)
  <2>1. Arguments(m_generic_format, call, mbstate, rest)
    BY FInvTypes
  <2>2. ConvertsHead(m_generic_format, call, mbstate, rest)
    BY <1>1, <2>1, ConvertedNext, Zenon
  <2> QED BY <1>0, <2>2, Zenon DEF ConvertsHead
<1>6. Converted(m_generic_format', call', mbstate', rest') = others
  BY <1>0, <1>1, <1>3
<1>7. out \in Seq(Bytes) /\ tmp \in Seq(Bytes)
  BY FInvTypes
<1>8. (out \o tmp) \o (piece \o others) = (out \o (tmp \o piece)) \o others
  <2>1. out \o tmp \in Seq(Bytes)
    BY <1>7, Concat
  <2>2. (out \o tmp) \o (piece \o others) = ((out \o tmp) \o piece) \o others
    BY <1>5, <2>1, AssociativeBytes, Zenon
  <2>3. (out \o tmp) \o piece = out \o (tmp \o piece)
    BY <1>5, <1>7, AssociativeBytes, Zenon
  <2> QED BY <2>2, <2>3, Zenon
<1>9. CASE tmp' = <<>> /\ out' = out \o Written
  <2>1. out' \o tmp' = out'
    <3>1. tmp \o piece \in Seq(Bytes)
      BY <1>5, <1>7, Concat
    <3>2. out' \in Seq(Bytes)
      BY <1>4, <1>7, <1>9, <3>1, Concat
    <3> QED BY <1>9, <3>2, ConcatEmptySeq
  <2>2. out' \o tmp' \o others = (out \o (tmp \o piece)) \o others
    BY <1>4, <1>9, <2>1
  <2> QED BY <1>1, <1>2, <1>5, <1>6, <1>8, <2>2 DEF TransparentStep
<1>10. CASE tmp' = Written /\ out' = out
  <2>1. out' \o tmp' \o others = (out \o (tmp \o piece)) \o others
    BY <1>4, <1>10
  <2> QED BY <1>1, <1>2, <1>5, <1>6, <1>8, <2>1 DEF TransparentStep
<1> QED BY <1>9, <1>10, Zenon DEF FormatNext

LEMMA EndCallTransparent == ASSUME FInv, EndCall PROVE TransparentStep
<1>1. call # "none" /\ call' = "none" /\ rest = <<>> /\ out' = out \o tmp
  BY DEF EndCall
<1>2. Converted(m_generic_format, call, mbstate, rest) = <<>>
  BY <1>1, FInvTypes, ConvertedNothing
<1>3. out \o tmp \in Seq(Bytes)
  BY FInvTypes, Concat
<1>4. (out \o tmp) \o <<>> = out \o tmp
  BY <1>3, ConcatEmptySeq
<1> QED BY <1>1, <1>2, <1>4 DEF TransparentStep

LEMMA BeginTransparent ==
    ASSUME FInv,
           NEW kind, NEW text, NEW format, NEW restored, Begin(kind, text, format, restored)
    PROVE  TransparentStep
<1>1. call = "none"
  BY DEF Begin
<1>2. CASE call' = "none"
  BY <1>1, <1>2 DEF TransparentStep
<1>3. CASE call' # "none"
  <2>1. mbstate' = ConvertState /\ tmp' = <<>> /\ out' = out
    BY <1>1, <1>3 DEF Begin
  <2>2. out \o <<>> = out
    BY FInvTypes, ConcatEmptySeq
  <2> QED BY <1>1, <2>1, <2>2 DEF TransparentStep
<1> QED BY <1>2, <1>3

(* For any text, any format and any size of buffer a call writes what a    *)
(* conversion without a buffer would, decoded from the start of the text.  *)
THEOREM BufferChangesNothing == FormatterSpec => BufferIsTransparent
<1>1. ASSUME FInv, [FormatterNext]_formatterVars PROVE [TransparentStep]_formatterVars
  <2>1. ASSUME NEW text, AppendPlain(text) PROVE TransparentStep
    BY <2>1 DEF AppendPlain, TransparentStep
  <2>2. ASSUME NEW text, AppendBytes(text) PROVE TransparentStep
    BY <1>1, <2>2, BeginTransparent, Zenon DEF AppendBytes
  <2>3. ASSUME NEW text, AppendContent(text) PROVE TransparentStep
    BY <1>1, <2>3, BeginTransparent, Zenon DEF AppendContent
  <2>4. ASSUME NEW text, Printf(text) PROVE [TransparentStep]_formatterVars
    <3>1. CASE text = <<>>
      BY <2>4, <3>1 DEF Printf
    <3>2. CASE text # <<>>
      BY <2>2, <2>4, <3>2, Zenon DEF Printf
    <3> QED BY <3>1, <3>2
  <2>5. ASSUME NEW glyphs, AppendGlyphs(glyphs) PROVE TransparentStep
    BY <1>1, <2>5, BeginTransparent, Zenon DEF AppendGlyphs
  <2>6. CASE FormatterStep
    BY <1>1, <2>6, FormatNextTransparent, EndCallTransparent, Zenon DEF FormatterStep
  <2> QED BY <1>1, <2>1, <2>2, <2>3, <2>4, <2>5, <2>6, Zenon DEF FormatterNext
<1> QED BY <1>1, FormatterInvariant, PTL DEF FormatterSpec, BufferIsTransparent, TransparentStep

(* So does every stream of a program that handles requests: its pages, its *)
(* log lines and its errors have the same text whatever the buffer's size. *)
THEOREM PagesIgnoreBuffer == Spec => BufferIsTransparent
BY StreamsUseFormatter, BufferChangesNothing
-----------------------------------------------------------------------------
(* Where the elements of a flattened sequence are found in it.             *)

(* text begins with the elements of ss, which end where f says.            *)
Places(f, ss, text) ==
    \A i \in 1 .. Len(ss) :
        /\ Len(f[i - 1]) \in Nat /\ Len(f[i]) = Len(f[i - 1]) + Len(ss[i])
        /\ Len(f[i]) <= Len(text)
        /\ \A k \in 1 .. Len(ss[i]) : text[Len(f[i - 1]) + k] = ss[i][k]

LEMMA PlacesAre ==
    ASSUME NEW S, NEW ss \in Seq(Seq(S)), NEW f, Flattens(f, ss, S), NEW tail \in Seq(S)
    PROVE  Places(f, ss, f[Len(ss)] \o tail)
<1> DEFINE n == Len(ss)
           Found(i, m, text) ==
               /\ Len(f[i]) <= Len(text)
               /\ \A k \in 1 .. Len(ss[i]) : text[Len(f[i - 1]) + k] = ss[i][k]
           T == {m \in Nat : m <= n => \A i \in 1 .. m : Found(i, m, f[m])}
<1>1. n \in Nat /\ f \in [0 .. n -> Seq(S)] /\ \A i \in 1 .. n : f[i] = f[i - 1] \o ss[i]
  <2>1. n \in Nat
    OBVIOUS
  <2> QED BY <2>1, Zenon DEF Flattens
<1>2. ASSUME NEW i \in 1 .. n
      PROVE  /\ f[i - 1] \in Seq(S) /\ ss[i] \in Seq(S) /\ f[i] \in Seq(S)
             /\ f[i] = f[i - 1] \o ss[i]
             /\ Len(f[i - 1]) \in Nat /\ Len(ss[i]) \in Nat
             /\ Len(f[i]) = Len(f[i - 1]) + Len(ss[i])
  <2>1. i - 1 \in 0 .. n /\ i \in 0 .. n
    BY <1>1
  <2>2. f[i - 1] \in Seq(S) /\ ss[i] \in Seq(S) /\ f[i] \in Seq(S) /\ f[i] = f[i - 1] \o ss[i]
    BY <1>1, <2>1, Element
  <2> QED BY <2>2, ConcatAt
<1>3. ASSUME NEW i \in 1 .. n, NEW m, NEW s \in Seq(S), NEW t \in Seq(S), Found(i, m, s)
      PROVE  Found(i, m, s \o t)
  <2>1. /\ Len(s \o t) = Len(s) + Len(t) /\ Len(s) \in Nat /\ Len(t) \in Nat
        /\ \A k \in 1 .. Len(s) : (s \o t)[k] = s[k]
    BY ConcatAt
  <2>2. PICK a, b : a = Len(f[i - 1]) /\ b = Len(ss[i])
    OBVIOUS
  <2>3. a \in Nat /\ b \in Nat /\ Len(f[i]) = a + b /\ a + b <= Len(s)
    BY <1>2, <1>3, <2>2
  <2>4. ASSUME NEW k \in 1 .. b PROVE (s \o t)[a + k] = ss[i][k]
    <3>0. s[a + k] = ss[i][k]
      BY <1>3, <2>2, Zenon
    <3>1. a + k \in 1 .. Len(s) /\ s[a + k] = ss[i][k]
      BY <2>1, <2>3, <3>0
    <3>2. PICK j \in 1 .. Len(s) : j = a + k
      BY <3>1
    <3>3. (s \o t)[j] = s[j]
      BY <2>1
    <3> QED BY <3>1, <3>2, <3>3
  <2>5. Len(f[i]) <= Len(s \o t)
    BY <2>1, <2>3
  <2> QED BY <2>2, <2>4, <2>5
<1>4. ASSUME NEW i \in 1 .. n PROVE Found(i, i, f[i])
  <2>1. \A k \in 1 .. Len(ss[i]) : (f[i - 1] \o ss[i])[Len(f[i - 1]) + k] = ss[i][k]
    <3>1. PICK u, v : u = f[i - 1] /\ v = ss[i]
      OBVIOUS
    <3>2. u \in Seq(S) /\ v \in Seq(S)
      BY <1>2, <3>1, Zenon
    <3>3. \A k \in 1 .. Len(v) : (u \o v)[Len(u) + k] = v[k]
      BY <3>2, ConcatAt
    <3> QED BY <3>1, <3>3, Zenon
  <2>2. f[i] = f[i - 1] \o ss[i] /\ f[i] \in Seq(S)
    BY <1>2, Zenon
  <2>3. Len(f[i]) <= Len(f[i])
    BY <2>2
  <2> QED BY <2>1, <2>2, <2>3
<1>5. 0 \in T
  OBVIOUS
<1>6. ASSUME NEW m \in Nat, m \in T PROVE m + 1 \in T
  <2> SUFFICES ASSUME m + 1 <= n, NEW i \in 1 .. m + 1 PROVE Found(i, m + 1, f[m + 1])
    OBVIOUS
  <2>1. m + 1 \in 1 .. n /\ (m + 1) - 1 = m /\ m \in 0 .. n /\ i \in 1 .. n
    BY <1>1
  <2>2. f[m + 1] = f[m] \o ss[m + 1] /\ ss[m + 1] \in Seq(S) /\ f[m] \in Seq(S)
    BY <1>2, <2>1
  <2>3. CASE i = m + 1
    BY <1>4, <2>1, <2>3
  <2>4. CASE i # m + 1
    <3>1. Found(i, m, f[m])
      BY <1>1, <1>6, <2>4
    <3>2. Found(i, m, f[m] \o ss[m + 1])
      <4> HIDE DEF Found
      <4> QED BY <1>3, <2>1, <2>2, <3>1
    <3> QED BY <2>2, <3>2
  <2> QED BY <2>3, <2>4
<1>7. n \in T
  <2> HIDE DEF T
  <2> QED BY <1>1, <1>5, <1>6, Induction
<1>8. ASSUME NEW i \in 1 .. n PROVE Found(i, n, f[n] \o tail)
  <2>0. n \in 0 .. n
    BY <1>1
  <2>1. f[n] \in Seq(S)
    BY <1>1, <2>0, Zenon
  <2>2. Found(i, n, f[n])
    BY <1>1, <1>7
  <2> HIDE DEF Found
  <2> QED BY <1>3, <2>1, <2>2
<1> QED BY <1>2, <1>8 DEF Places

(* A sequence of sequences is flattened from the left as well.             *)
LEMMA FlattenHead ==
    ASSUME NEW S, NEW s \in Seq(S), NEW ss \in Seq(Seq(S))
    PROVE  FlattenSeq(<<s>> \o ss) = s \o FlattenSeq(ss)
<1>1. PICK all, n : all = <<s>> \o ss /\ n = Len(ss)
  OBVIOUS
<1>2. /\ all \in Seq(Seq(S)) /\ Len(all) = n + 1 /\ n \in Nat /\ all[1] = s
      /\ \A i \in 1 .. n : all[i + 1] = ss[i] /\ ss[i] \in Seq(S)
  BY <1>1
<1>3. PICK f : Flattens(f, all, S) /\ FlattenSeq(all) = f[Len(all)]
  BY <1>2, FlattenIs
<1>4. PICK g : Flattens(g, ss, S) /\ FlattenSeq(ss) = g[Len(ss)]
  BY FlattenIs
<1>5. /\ g \in [0 .. n -> Seq(S)] /\ g[0] = <<>> /\ f[0] = <<>>
      /\ \A i \in 1 .. n : g[i] = g[i - 1] \o ss[i]
      /\ \A i \in 1 .. n + 1 : f[i] = f[i - 1] \o all[i]
  BY <1>1, <1>2, <1>3, <1>4, Zenon DEF Flattens
<1> DEFINE T == {i \in Nat : i <= n => f[i + 1] = s \o g[i]}
<1>6. 0 \in T
  <2>1. 1 \in 1 .. n + 1 /\ 1 - 1 = 0 /\ 0 + 1 = 1
    BY <1>2
  <2>2. f[1] = f[0] \o all[1]
    BY <1>5, <2>1
  <2>3. <<>> \o s = s \o <<>>
    OBVIOUS
  <2>4. f[0 + 1] = s \o g[0]
    BY <1>2, <1>5, <2>1, <2>2, <2>3
  <2> QED BY <2>4
<1>7. ASSUME NEW i \in Nat, i \in T PROVE i + 1 \in T
  <2> SUFFICES ASSUME i + 1 <= n PROVE f[(i + 1) + 1] = s \o g[i + 1]
    OBVIOUS
  <2>1. /\ i \in 0 .. n /\ i + 1 \in 1 .. n /\ (i + 1) + 1 \in 1 .. n + 1
        /\ (i + 1) - 1 = i /\ ((i + 1) + 1) - 1 = i + 1
    BY <1>2
  <2>2. f[i + 1] = s \o g[i]
    BY <1>7, <2>1
  <2>3. g[i + 1] = g[i] \o ss[i + 1] /\ g[i] \in Seq(S) /\ ss[i + 1] \in Seq(S)
    BY <1>2, <1>5, <2>1
  <2>4. f[(i + 1) + 1] = f[i + 1] \o ss[i + 1]
    BY <1>2, <1>5, <2>1
  <2>5. (s \o g[i]) \o ss[i + 1] = s \o (g[i] \o ss[i + 1])
    <3>0. PICK t, u : t = g[i] /\ u = ss[i + 1]
      OBVIOUS
    <3>1. t \in Seq(S) /\ u \in Seq(S)
      BY <2>3, <3>0, Zenon
    <3>2. (s \o t) \o u = s \o (t \o u)
      BY <3>1, Associative
    <3> QED BY <3>0, <3>2, Zenon
  <2> QED BY <2>2, <2>3, <2>4, <2>5, Zenon
<1>8. n \in T
  <2> HIDE DEF T
  <2> QED BY <1>2, <1>6, <1>7, Induction
<1>9. f[n + 1] = s \o g[n]
  BY <1>2, <1>8
<1> QED BY <1>1, <1>2, <1>3, <1>4, <1>9
-----------------------------------------------------------------------------
(* The route of a path.                                                    *)

Parts(elements) ==
    [i \in DOMAIN elements |-> IF NotEmpty(elements[i]) THEN <<elements[i]>> ELSE <<>>]
Kept(elements) == FlattenSeq(Parts(elements))

LEMMA PartsType ==
    ASSUME NEW elements \in Seq(Seq(Bytes))
    PROVE  Parts(elements) \in Seq(Seq(Seq(Bytes)))
<1>1. DOMAIN Parts(elements) = 1 .. Len(elements) /\ Len(elements) \in Nat
  BY DEF Parts
<1>2. ASSUME NEW i \in 1 .. Len(elements) PROVE Parts(elements)[i] \in Seq(Seq(Bytes))
  <2>1. elements[i] \in Seq(Bytes)
    BY Element
  <2>2. <<elements[i]>> \in Seq(Seq(Bytes))
    BY <2>1
  <2>3. Parts(elements)[i] \in {<<elements[i]>>, <<>>}
    BY <1>1 DEF Parts
  <2> QED BY <2>2, <2>3, Empty
<1>3. Parts(elements) = [i \in 1 .. Len(elements) |-> Parts(elements)[i]]
  BY <1>1 DEF Parts
<1> QED BY <1>1, <1>2, <1>3

(* An empty element does not count, any other is the next component.       *)
LEMMA KeptHead ==
    ASSUME NEW e \in Seq(Bytes), NEW es \in Seq(Seq(Bytes))
    PROVE  Kept(<<e>> \o es) = IF e = <<>> THEN Kept(es) ELSE <<e>> \o Kept(es)
<1>1. PICK all, n : all = <<e>> \o es /\ n = Len(es)
  OBVIOUS
<1>2. /\ all \in Seq(Seq(Bytes)) /\ Len(all) = n + 1 /\ n \in Nat /\ all[1] = e
      /\ \A i \in 1 .. n : all[i + 1] = es[i]
  BY <1>1
<1>3. PICK part : part = IF e = <<>> THEN <<>> ELSE <<e>>
  OBVIOUS
<1>4. part \in Seq(Seq(Bytes))
  BY <1>3, Empty
<1>5. Parts(all) = <<part>> \o Parts(es)
  <2>1. Parts(all) \in Seq(Seq(Seq(Bytes))) /\ Parts(es) \in Seq(Seq(Seq(Bytes)))
    BY <1>2, PartsType
  <2>2. /\ DOMAIN Parts(all) = 1 .. n + 1 /\ DOMAIN Parts(es) = 1 .. n
        /\ Len(Parts(es)) = n
    BY <1>1, <1>2, <2>1 DEF Parts
  <2>3. Parts(all)[1] = part
    BY <1>2, <1>3 DEF Parts, NotEmpty
  <2>4. ASSUME NEW i \in 1 .. n PROVE Parts(all)[i + 1] = Parts(es)[i]
    BY <1>1, <1>2 DEF Parts
  <2> HIDE DEF Parts
  <2>5. PICK p, q : p = Parts(all) /\ q = Parts(es)
    OBVIOUS
  <2>6. p = <<part>> \o q
    <3>1. /\ p \in Seq(Seq(Seq(Bytes))) /\ q \in Seq(Seq(Seq(Bytes)))
          /\ Len(p) = n + 1 /\ Len(q) = n
      BY <1>2, <2>1, <2>2, <2>5
    <3>2. p[1] = part /\ \A i \in 1 .. n : p[i + 1] = q[i]
      BY <2>3, <2>4, <2>5
    <3> QED BY <1>2, <3>1, <3>2
  <2> QED BY <2>5, <2>6
<1>6. FlattenSeq(<<part>> \o Parts(es)) = part \o FlattenSeq(Parts(es))
  BY <1>4, PartsType, FlattenHead
<1>7. Kept(es) \in Seq(Seq(Bytes))
  BY PartsType, FlattenType DEF Kept
<1>8. <<>> \o Kept(es) = Kept(es)
  BY <1>7
<1> QED BY <1>1, <1>3, <1>5, <1>6, <1>8 DEF Kept

LEMMA KeptNothing == Kept(<<>>) = <<>>
<1>1. Parts(<<>>) = <<>>
  BY DEF Parts
<1>2. FlattenSeq(<<>>) = <<>>
  BY DEF FlattenSeq
<1> QED BY <1>1, <1>2 DEF Kept

(* A component that ends at a slash or at the end of the text.             *)
Component(text, p, component) ==
    /\ p \in 1 .. Len(text) /\ component \in Seq(Bytes) /\ component # <<>>
    /\ p + Len(component) <= Len(text) + 1
    /\ \A k \in 1 .. Len(component) :
          text[p + (k - 1)] = component[k] /\ component[k] # SLASH
    /\ p + Len(component) <= Len(text) => text[p + Len(component)] = SLASH

LEMMA KeptSlash ==
    ASSUME NEW text \in Seq(Bytes), NEW f, Splits(f, text, SLASH),
           NEW p \in 1 .. Len(text), text[p] = SLASH
    PROVE  Kept(f[p]) = Kept(f[p + 1])
<1>1. /\ p \in 1 .. Len(text) + 1 /\ p \in 1 .. Len(text) + 2 /\ ~(p > Len(text))
      /\ p + 1 \in 1 .. Len(text) + 2
  OBVIOUS
<1>2. PICK cut : cut = Find(text, SLASH, p)
  OBVIOUS
<1>3. cut \in p .. Len(text) + 1 /\ \A i \in p .. cut - 1 : text[i] # SLASH
  BY <1>1, <1>2, FindIs
<1>4. cut = p
  BY <1>1, <1>3
<1>5. f[p] = <<SubSeq(text, p, p - 1)>> \o f[p + 1]
  BY <1>1, <1>2, <1>4, Zenon DEF Splits
<1>6. SubSeq(text, p, p - 1) = <<>>
  BY <1>1
<1>7. f[p + 1] \in Seq(Seq(Bytes))
  BY <1>1, Zenon DEF Splits
<1>8. Kept(<<<<>>>> \o f[p + 1]) = Kept(f[p + 1])
  BY <1>7, KeptHead, Empty
<1> QED BY <1>5, <1>6, <1>8

LEMMA KeptEnd ==
    ASSUME NEW text \in Seq(Bytes), NEW f, Splits(f, text, SLASH)
    PROVE  Kept(f[Len(text) + 1]) = <<>> /\ Kept(f[Len(text) + 2]) = <<>>
<1>1. PICK n : n = Len(text) /\ n \in Nat
  OBVIOUS
<1>2. /\ n + 1 \in 1 .. n + 2 /\ n + 2 \in 1 .. n + 2 /\ n + 1 > n /\ n + 2 > n
  BY <1>1
<1>3. f[n + 1] = <<>> /\ f[n + 2] = <<>>
  BY <1>1, <1>2, Zenon DEF Splits
<1> QED BY <1>1, <1>3, KeptNothing

LEMMA KeptComponent ==
    ASSUME NEW text \in Seq(Bytes), NEW f, Splits(f, text, SLASH),
           NEW p, NEW component, Component(text, p, component)
    PROVE  Kept(f[p]) = <<component>> \o Kept(f[p + Len(component)])
<1>1. PICK n, m, q : n = Len(text) /\ m = Len(component) /\ q = p + m
  OBVIOUS
<1>2. /\ n \in Nat /\ m \in Nat /\ m > 0 /\ p \in 1 .. n /\ q \in Nat /\ q <= n + 1 /\ q > p
      /\ component \in Seq(Bytes)
      /\ \A k \in 1 .. m : text[p + (k - 1)] = component[k] /\ component[k] # SLASH
      /\ q <= n => text[q] = SLASH
  BY <1>1 DEF Component
<1>3. PICK cut : cut = Find(text, SLASH, p)
  OBVIOUS
<1>4. /\ cut \in p .. n + 1 /\ \A i \in p .. cut - 1 : text[i] # SLASH
      /\ cut <= n => text[cut] = SLASH
  <2>1. p \in 1 .. Len(text) + 1
    BY <1>1, <1>2
  <2> QED BY <1>1, <1>3, <2>1, FindIs
<1>5. cut = q
  <2>1. ASSUME NEW i \in p .. q - 1 PROVE text[i] # SLASH
    <3>1. (i - p) + 1 \in 1 .. m /\ p + (((i - p) + 1) - 1) = i
      BY <1>1, <1>2
    <3> QED BY <1>2, <3>1
  <2>2. ~(cut < q)
    BY <1>2, <1>4, <2>1
  <2>3. ~(cut > q)
    BY <1>2, <1>4
  <2> QED BY <1>2, <1>4, <2>2, <2>3
<1>6. SubSeq(text, p, q - 1) = component
  <2>1. PICK s : s = SubSeq(text, p, q - 1)
    OBVIOUS
  <2>2. s \in Seq(Bytes) /\ Len(s) = m /\ \A k \in 1 .. m : s[k] = text[p + (k - 1)]
    BY <1>1, <1>2, <2>1
  <2>3. \A k \in 1 .. m : s[k] = component[k]
    BY <1>2, <2>2
  <2> QED BY <1>1, <1>2, <2>1, <2>2, <2>3
<1>7. f[p] = <<component>> \o f[q + 1] /\ f[q + 1] \in Seq(Seq(Bytes))
  <2>1. p \in 1 .. Len(text) + 2 /\ q + 1 \in 1 .. Len(text) + 2 /\ ~(p > Len(text))
    BY <1>1, <1>2
  <2> QED BY <1>3, <1>5, <1>6, <2>1, Zenon DEF Splits
<1>8. Kept(f[p]) = <<component>> \o Kept(f[q + 1])
  <2>1. component # <<>>
    BY DEF Component
  <2> QED BY <1>2, <1>7, <2>1, KeptHead
<1>9. Kept(f[q]) = Kept(f[q + 1])
  <2>1. CASE q <= n
    <3>1. q \in 1 .. Len(text) /\ text[q] = SLASH
      BY <1>1, <1>2, <2>1
    <3> QED BY <3>1, KeptSlash
  <2>2. CASE ~(q <= n)
    <3>1. n \in Nat /\ q \in Nat /\ q <= n + 1
      BY <1>2, Zenon
    <3>2. q = n + 1 /\ q + 1 = n + 2
      BY <2>2, <3>1
    <3>3. q = Len(text) + 1 /\ q + 1 = Len(text) + 2
      BY <1>1, <3>2, Zenon
    <3> QED BY <3>3, KeptEnd
  <2> QED BY <2>1, <2>2
<1> QED BY <1>1, <1>8, <1>9

(* Any number of slashes, n of them from p on.                             *)
SlashesAt(text, p, n) ==
    /\ p \in Nat /\ n \in Nat /\ p > 0 /\ p + n <= Len(text) + 1
    /\ \A k \in 1 .. n : text[p + (k - 1)] = SLASH

LEMMA KeptSlashes ==
    ASSUME NEW text \in Seq(Bytes), NEW f, Splits(f, text, SLASH),
           NEW p, NEW n, SlashesAt(text, p, n)
    PROVE  Kept(f[p]) = Kept(f[p + n])
<1>0. /\ p \in Nat /\ n \in Nat /\ p > 0 /\ p + n <= Len(text) + 1
      /\ \A k \in 1 .. n : text[p + (k - 1)] = SLASH
  BY DEF SlashesAt
<1> DEFINE T == {k \in Nat : k <= n => Kept(f[p]) = Kept(f[p + k])}
<1>1. 0 \in T
  BY <1>0
<1>2. ASSUME NEW k \in Nat, k \in T PROVE k + 1 \in T
  <2> SUFFICES ASSUME k + 1 <= n PROVE Kept(f[p]) = Kept(f[p + (k + 1)])
    OBVIOUS
  <2>1. Kept(f[p]) = Kept(f[p + k])
    BY <1>0, <1>2
  <2>2. PICK q : q = p + k
    OBVIOUS
  <2>3. q \in 1 .. Len(text) /\ q + 1 = p + (k + 1)
    BY <1>0, <2>2
  <2>4. k + 1 \in 1 .. n /\ p + ((k + 1) - 1) = q
    BY <1>0, <2>2
  <2>5. text[q] = SLASH
    BY <1>0, <2>4
  <2>6. Kept(f[q]) = Kept(f[q + 1])
    BY <2>3, <2>5, KeptSlash
  <2> QED BY <2>1, <2>2, <2>3, <2>6
<1>3. n \in T
  <2> HIDE DEF T
  <2> QED BY <1>0, <1>1, <1>2, Induction
<1> QED BY <1>0, <1>3

Stretch(path, slashes, i) == Slashes(slashes[i]) \o path[i]
Stretches(path, slashes)  == [i \in DOMAIN path |-> Stretch(path, slashes, i)]

LEMMA SlashesAre ==
    ASSUME NEW n \in Nat
    PROVE  /\ Slashes(n) \in Seq(Bytes) /\ Len(Slashes(n)) = n
           /\ \A k \in 1 .. n : Slashes(n)[k] = SLASH
<1>1. SLASH \in Bytes
  BY DEF SLASH, Bytes
<1> QED BY <1>1 DEF Slashes

LEMMA StretchIs ==
    ASSUME NEW path, NEW slashes, IsPath(path, slashes), NEW i \in 1 .. Len(path)
    PROVE  LET s == slashes[i]
               stretch == Stretch(path, slashes, i)
           IN  /\ s \in Nat /\ path[i] \in Seq(Bytes)
               /\ stretch \in Seq(Bytes) /\ Len(stretch) = s + Len(path[i])
               /\ \A k \in 1 .. s : stretch[k] = SLASH
               /\ \A k \in 1 .. Len(path[i]) : stretch[s + k] = path[i][k]
<1>1. PICK s, c, sl : s = slashes[i] /\ c = path[i] /\ sl = Slashes(s)
  OBVIOUS
<1>2. s \in Nat /\ c \in Seq(Bytes)
  <2>1. i \in 1 .. Len(slashes) /\ slashes \in Seq(Nat) /\ path \in Seq(Seq(Bytes))
    BY DEF IsPath
  <2> QED BY <1>1, <2>1, Element
<1>3. sl \in Seq(Bytes) /\ Len(sl) = s /\ \A k \in 1 .. s : sl[k] = SLASH
  BY <1>1, <1>2, SlashesAre
<1>4. /\ sl \o c \in Seq(Bytes) /\ Len(sl \o c) = s + Len(c)
      /\ \A k \in 1 .. s : (sl \o c)[k] = SLASH
      /\ \A k \in 1 .. Len(c) : (sl \o c)[s + k] = c[k]
  <2>0. sl \in Seq(Bytes) /\ c \in Seq(Bytes)
    BY <1>2, <1>3
  <2>1. /\ Len(sl \o c) = Len(sl) + Len(c)
        /\ \A k \in 1 .. Len(sl) : (sl \o c)[k] = sl[k]
        /\ \A k \in 1 .. Len(c) : (sl \o c)[Len(sl) + k] = c[k]
    BY <2>0, ConcatAt
  <2>2. sl \o c \in Seq(Bytes)
    BY <1>2, <1>3, Concat
  <2>3. \A k \in 1 .. s : (sl \o c)[k] = SLASH
    BY <1>3, <2>1
  <2> QED BY <1>3, <2>1, <2>2, <2>3, Zenon
<1> QED BY <1>1, <1>2, <1>4 DEF Stretch

(* Where the components of a path are in its text: each ends at at[i].     *)
Laid(at, n, path, slashes, text) ==
    /\ at \in [0 .. n -> Nat]
    /\ at[0] = 0
    /\ \A i \in 1 .. n :
          /\ at[i] = at[i - 1] + slashes[i] + Len(path[i])
          /\ at[i] <= Len(text)
          /\ \A k \in 1 .. slashes[i] : text[at[i - 1] + k] = SLASH
          /\ \A k \in 1 .. Len(path[i]) : text[at[i - 1] + (slashes[i] + k)] = path[i][k]
    /\ Len(text) = at[n] + slashes[n + 1]
    /\ \A k \in 1 .. slashes[n + 1] : text[at[n] + k] = SLASH

LEMMA UriIs ==
    ASSUME NEW path, NEW slashes, IsPath(path, slashes)
    PROVE  \E at : Laid(at, Len(path), path, slashes, Uri(path, slashes))
<1>1. PICK n, ss, last, text : /\ n = Len(path) /\ ss = Stretches(path, slashes)
                               /\ last = Slashes(slashes[n + 1])
                               /\ text = Uri(path, slashes)
  OBVIOUS
<1>2. path \in Seq(Seq(Bytes)) /\ n \in Nat /\ slashes[n + 1] \in Nat
  <2>1. /\ path \in Seq(Seq(Bytes)) /\ slashes \in Seq(Nat) /\ Len(slashes) = n + 1
    BY <1>1 DEF IsPath
  <2> QED BY <1>1, <2>1
<1>3. ss \in Seq(Seq(Bytes)) /\ Len(ss) = n /\ \A i \in 1 .. n : ss[i] = Stretch(path, slashes, i)
  <2>1. \A i \in 1 .. n : Stretch(path, slashes, i) \in Seq(Bytes)
    BY <1>1, StretchIs
  <2>2. ss = [i \in 1 .. n |-> Stretch(path, slashes, i)]
    BY <1>1, <1>2 DEF Stretches
  <2> QED BY <1>2, <2>1, <2>2
<1>4. PICK f : Flattens(f, ss, Bytes) /\ FlattenSeq(ss) = f[Len(ss)]
  BY <1>3, FlattenIs
<1>5. last \in Seq(Bytes) /\ Len(last) = slashes[n + 1] /\ \A k \in 1 .. Len(last) : last[k] = SLASH
  BY <1>1, <1>2, SlashesAre
<1>6. text = f[n] \o last
  BY <1>1, <1>3, <1>4 DEF Uri, Stretches, Stretch
<1>7. Places(f, ss, text)
  BY <1>3, <1>4, <1>5, <1>6, PlacesAre
<1>8. f \in [0 .. n -> Seq(Bytes)] /\ f[0] = <<>>
  BY <1>3, <1>4 DEF Flattens
<1>9. PICK at : at = [i \in 0 .. n |-> Len(f[i])]
  OBVIOUS
<1>10. at \in [0 .. n -> Nat] /\ at[0] = 0
  <2>1. \A i \in 0 .. n : Len(f[i]) \in Nat
    BY <1>8
  <2> QED BY <1>2, <1>8, <1>9, <2>1
<1>11. ASSUME NEW i \in 1 .. n
       PROVE  /\ at[i] = at[i - 1] + slashes[i] + Len(path[i])
              /\ at[i] <= Len(text)
              /\ \A k \in 1 .. slashes[i] : text[at[i - 1] + k] = SLASH
              /\ \A k \in 1 .. Len(path[i]) : text[at[i - 1] + (slashes[i] + k)] = path[i][k]
  <2>1. PICK s, c, a : s = slashes[i] /\ c = path[i] /\ a = at[i - 1]
    OBVIOUS
  <2>2. at[i] = Len(f[i]) /\ a = Len(f[i - 1]) /\ a \in Nat
    BY <1>2, <1>9, <1>10, <2>1
  <2>3. /\ at[i] = a + Len(ss[i]) /\ at[i] <= Len(text)
        /\ \A k \in 1 .. Len(ss[i]) : text[a + k] = ss[i][k]
    BY <1>3, <1>7, <2>2 DEF Places
  <2>4. /\ s \in Nat /\ c \in Seq(Bytes) /\ Len(ss[i]) = s + Len(c)
        /\ \A k \in 1 .. s : ss[i][k] = SLASH
        /\ \A k \in 1 .. Len(c) : ss[i][s + k] = c[k]
    BY <1>1, <1>3, <2>1, StretchIs
  <2>5. Len(c) \in Nat
    BY <2>4
  <2>6. ASSUME NEW k \in 1 .. s PROVE text[a + k] = SLASH
    <3>1. k \in 1 .. Len(ss[i])
      BY <2>4, <2>5
    <3>2. text[a + k] = ss[i][k]
      BY <2>3, <3>1
    <3> QED BY <2>4, <3>2
  <2>7. ASSUME NEW k \in 1 .. Len(c) PROVE text[a + (s + k)] = c[k]
    <3>1. s + k \in 1 .. Len(ss[i])
      BY <2>4, <2>5
    <3>2. PICK j \in 1 .. Len(ss[i]) : j = s + k
      BY <3>1
    <3>3. text[a + j] = ss[i][j]
      BY <2>3
    <3>4. ss[i][j] = c[k]
      BY <2>4, <3>2
    <3> QED BY <3>2, <3>3, <3>4
  <2>8. at[i] = a + s + Len(c)
    <3>1. /\ at[i] = a + Len(ss[i]) /\ Len(ss[i]) = s + Len(c)
          /\ a \in Nat /\ s \in Nat /\ Len(c) \in Nat
      BY <2>2, <2>3, <2>4, <2>5, Zenon
    <3> QED BY <3>1
  <2> QED BY <2>1, <2>3, <2>6, <2>7, <2>8
<1>12. /\ Len(text) = at[n] + slashes[n + 1]
       /\ \A k \in 1 .. slashes[n + 1] : text[at[n] + k] = SLASH
  <2>1. PICK u : u = f[n] /\ u \in Seq(Bytes) /\ at[n] = Len(u)
    BY <1>2, <1>8, <1>9
  <2>2. /\ Len(u \o last) = Len(u) + Len(last)
        /\ \A k \in 1 .. Len(last) : (u \o last)[Len(u) + k] = last[k]
    <3>1. u \in Seq(Bytes) /\ last \in Seq(Bytes)
      BY <1>5, <2>1
    <3> QED BY <3>1, ConcatAt
  <2> QED BY <1>5, <1>6, <2>1, <2>2
<1>13. Laid(at, n, path, slashes, text)
  BY <1>10, <1>11, <1>12, Zenon DEF Laid
<1> QED BY <1>1, <1>13
LEMMA UriType ==
    ASSUME NEW path, NEW slashes, IsPath(path, slashes)
    PROVE  Uri(path, slashes) \in Seq(Bytes)
<1>1. PICK n, ss, last : /\ n = Len(path) /\ ss = Stretches(path, slashes)
                         /\ last = Slashes(slashes[n + 1])
  OBVIOUS
<1>2. path \in Seq(Seq(Bytes)) /\ n \in Nat /\ slashes[n + 1] \in Nat
  <2>1. /\ path \in Seq(Seq(Bytes)) /\ slashes \in Seq(Nat) /\ Len(slashes) = n + 1
    BY <1>1 DEF IsPath
  <2> QED BY <1>1, <2>1
<1>3. ss \in Seq(Seq(Bytes))
  <2>1. \A i \in 1 .. n : Stretch(path, slashes, i) \in Seq(Bytes)
    BY <1>1, StretchIs
  <2>2. ss = [i \in 1 .. n |-> Stretch(path, slashes, i)]
    BY <1>1, <1>2 DEF Stretches
  <2> QED BY <1>2, <2>1, <2>2
<1>4. FlattenSeq(ss) \in Seq(Bytes) /\ last \in Seq(Bytes)
  BY <1>1, <1>2, <1>3, FlattenType, SlashesAre
<1>5. Uri(path, slashes) = FlattenSeq(ss) \o last
  BY <1>1 DEF Uri, Stretches, Stretch
<1> QED BY <1>4, <1>5, Concat

(* The route of a path is its components, however many slashes are before, *)
(* between and behind them.                                                *)
THEOREM RouteOfPath ==
    ASSUME NEW path, NEW slashes, IsPath(path, slashes)
    PROVE  Route(Uri(path, slashes)) = path
<1>1. PICK n, text : n = Len(path) /\ text = Uri(path, slashes)
  OBVIOUS
<1>2. text \in Seq(Bytes) /\ Len(text) \in Nat
  BY <1>1, UriType
<1>3. /\ path \in Seq(Seq(Bytes)) /\ n \in Nat
      /\ \A i \in 1 .. n + 1 : slashes[i] \in Nat
      /\ \A i \in 1 .. n : /\ path[i] \in Seq(Bytes) /\ path[i] # <<>>
                           /\ \A k \in 1 .. Len(path[i]) : path[i][k] # SLASH
      /\ \A i \in 2 .. n : slashes[i] > 0
  <2>1. path \in Seq(Seq(Bytes)) /\ slashes \in Seq(Nat) /\ Len(slashes) = n + 1
    BY <1>1 DEF IsPath
  <2>2. \A i \in 1 .. n + 1 : slashes[i] \in Nat
    BY <2>1, Element
  <2>3. \A i \in 1 .. n : path[i] \in Seq(Bytes)
    BY <1>1, <2>1, Element
  <2>4. /\ \A i \in 1 .. n : path[i] # <<>> /\ \A k \in 1 .. Len(path[i]) : path[i][k] # SLASH
        /\ \A i \in 2 .. n : slashes[i] > 0
    BY <1>1, Zenon DEF IsPath
  <2>5. n \in Nat
    BY <1>1, <2>1
  <2> QED BY <2>1, <2>2, <2>3, <2>4, <2>5
<1>4. PICK at : Laid(at, n, path, slashes, text)
  BY <1>1, UriIs, Zenon
<1> USE DEF Laid
<1>5. PICK f : Splits(f, text, SLASH) /\ Elements(text, SLASH) = f[1]
  BY <1>2, ElementsIs
<1>6. Route(text) = Kept(f[1])
  BY <1>5 DEF Route, Kept, Parts
<1>7. Kept(f[at[n] + 1]) = <<>>
  <2>1. PICK p, s : p = at[n] + 1 /\ s = slashes[n + 1]
    OBVIOUS
  <2>2. at[n] \in Nat /\ s \in Nat /\ Len(text) = at[n] + s
    BY <1>3, <1>4, <2>1
  <2>3. p \in Nat /\ p > 0 /\ p + s = Len(text) + 1
    BY <2>1, <2>2
  <2>4. \A k \in 1 .. s : text[p + (k - 1)] = SLASH
    <3>1. \A k \in 1 .. s : p + (k - 1) = at[n] + k
      BY <2>1, <2>2
    <3> QED BY <1>4, <2>1, <3>1
  <2>5. SlashesAt(text, p, s)
    BY <2>2, <2>3, <2>4 DEF SlashesAt
  <2>6. Kept(f[p]) = Kept(f[p + s])
    BY <1>2, <1>5, <2>5, KeptSlashes
  <2> QED BY <1>2, <1>5, <2>1, <2>3, <2>6, KeptEnd
<1>8. ASSUME NEW i \in 1 .. n
      PROVE  Kept(f[at[i - 1] + 1]) = <<path[i]>> \o Kept(f[at[i] + 1])
  <2>1. PICK p, s, c, a, b : /\ p = (a + 1) + s /\ s = slashes[i] /\ c = path[i]
                             /\ a = at[i - 1] /\ b = at[i]
    OBVIOUS
  <2>2. /\ i - 1 \in 0 .. n /\ i \in 0 .. n /\ i \in 1 .. n + 1
    BY <1>3
  <2>3. /\ a \in Nat /\ b \in Nat /\ s \in Nat /\ c \in Seq(Bytes) /\ c # <<>>
        /\ \A k \in 1 .. Len(c) : c[k] # SLASH
    BY <1>3, <1>4, <2>1, <2>2
  <2>4. /\ b = a + s + Len(c) /\ b <= Len(text)
        /\ \A k \in 1 .. s : text[a + k] = SLASH
        /\ \A k \in 1 .. Len(c) : text[a + (s + k)] = c[k]
    BY <1>4, <2>1, Zenon
  <2>5. Len(c) \in Nat /\ Len(c) > 0
    BY <2>3
  <2>6. Kept(f[a + 1]) = Kept(f[p])
    <3>1. \A k \in 1 .. s : (a + 1) + (k - 1) = a + k
      BY <2>3
    <3>2. \A k \in 1 .. s : text[(a + 1) + (k - 1)] = SLASH
      BY <2>4, <3>1
    <3>3. a + 1 \in Nat /\ a + 1 > 0 /\ (a + 1) + s <= Len(text) + 1
      BY <1>2, <2>3, <2>4, <2>5
    <3>4. PICK q \in Nat : q = a + 1
      BY <3>3
    <3>5. SlashesAt(text, q, s)
      BY <2>3, <3>2, <3>3, <3>4 DEF SlashesAt
    <3>6. Kept(f[q]) = Kept(f[q + s])
      BY <1>2, <1>5, <3>5, KeptSlashes
    <3> QED BY <2>1, <3>4, <3>6
  <2>7. /\ p + Len(c) = b + 1 /\ p \in 1 .. Len(text) /\ p + Len(c) <= Len(text) + 1
        /\ \A k \in 1 .. Len(c) : p + (k - 1) = a + (s + k)
    <3>1. /\ p = (a + 1) + s /\ b = a + s + Len(c) /\ b <= Len(text)
          /\ a \in Nat /\ s \in Nat /\ Len(c) \in Nat /\ Len(c) > 0 /\ Len(text) \in Nat
      BY <1>2, <2>1, <2>3, <2>4, <2>5, Zenon
    <3> QED BY <3>1
  <2>8. b + 1 <= Len(text) => text[b + 1] = SLASH
    <3>1. CASE i = n
      <4>1. /\ Len(text) = b + slashes[n + 1]
            /\ \A k \in 1 .. slashes[n + 1] : text[b + k] = SLASH
        BY <1>4, <2>1, <3>1, Zenon
      <4>2. n + 1 \in 1 .. n + 1
        BY <1>3
      <4>3. slashes[n + 1] \in Nat
        BY <1>3, <4>2, Zenon
      <4>4. b + 1 <= Len(text) => 1 \in 1 .. slashes[n + 1]
        <5> HIDE DEF Laid
        <5> QED BY <2>3, <4>1, <4>3
      <4> QED BY <4>1, <4>4, Zenon
    <3>2. CASE i # n
      <4>1. PICK j : j = i + 1
        OBVIOUS
      <4>2. j \in 1 .. n /\ j \in 2 .. n /\ j - 1 = i
        BY <1>3, <3>2, <4>1
      <4>3. 1 \in 1 .. slashes[j]
        BY <1>3, <4>2
      <4>4. text[at[j - 1] + 1] = SLASH
        BY <1>4, <4>2, <4>3, Zenon
      <4> QED BY <2>1, <4>2, <4>4
    <3> QED BY <3>1, <3>2
  <2>9. Component(text, p, c)
    <3>1. \A k \in 1 .. Len(c) : text[p + (k - 1)] = c[k] /\ c[k] # SLASH
      BY <2>3, <2>4, <2>7
    <3> QED BY <2>3, <2>7, <2>8, <3>1 DEF Component
  <2>10. Kept(f[p]) = <<c>> \o Kept(f[p + Len(c)])
    BY <1>2, <1>5, <2>9, KeptComponent
  <2> QED BY <2>1, <2>6, <2>7, <2>10
<1> DEFINE T == {k \in Nat : k <= n => Kept(f[at[n - k] + 1]) = SubSeq(path, (n - k) + 1, n)}
<1>9. 0 \in T
  <2>1. SubSeq(path, n + 1, n) = <<>>
    BY <1>1, <1>3
  <2>2. n - 0 = n
    BY <1>3
  <2> QED BY <1>7, <2>1, <2>2
<1>10. ASSUME NEW k \in Nat, k \in T PROVE k + 1 \in T
  <2> SUFFICES ASSUME k + 1 <= n
               PROVE  Kept(f[at[n - (k + 1)] + 1]) = SubSeq(path, (n - (k + 1)) + 1, n)
    OBVIOUS
  <2>1. PICK i : i = n - k
    OBVIOUS
  <2>2. i \in 1 .. n /\ n - (k + 1) = i - 1 /\ (i - 1) + 1 = i
    BY <1>3, <2>1
  <2>3. Kept(f[at[i] + 1]) = SubSeq(path, i + 1, n)
    <3>1. k <= n
      BY <1>3
    <3> QED BY <1>10, <2>1, <3>1
  <2>4. SubSeq(path, i, n) = <<path[i]>> \o SubSeq(path, i + 1, n)
    BY <1>1, <1>3, <2>2
  <2> QED BY <1>8, <2>2, <2>3, <2>4
<1>11. n \in T
  <2> HIDE DEF T
  <2> QED BY <1>3, <1>9, <1>10, Induction
<1>12. n - n = 0 /\ 0 + 1 = 1 /\ SubSeq(path, 1, n) = path
  BY <1>1, <1>3
<1>13. Kept(f[1]) = path
  <2>1. at[0] = 0 /\ n <= n
    BY <1>3, <1>4
  <2>2. Kept(f[at[n - n] + 1]) = SubSeq(path, (n - n) + 1, n)
    BY <1>11, <2>1
  <2> QED BY <1>12, <2>1, <2>2
<1> QED BY <1>1, <1>6, <1>13
-----------------------------------------------------------------------------
(* The environment.                                                        *)

Named(key) == key \o <<EQUALS>>

LEMMA NamedIs ==
    ASSUME NEW key \in Seq(Bytes)
    PROVE  /\ Named(key) \in Seq(Bytes) /\ Len(Named(key)) = Len(key) + 1
           /\ \A i \in 1 .. Len(key) : Named(key)[i] = key[i]
           /\ Named(key)[Len(key) + 1] = EQUALS
<1>1. EQUALS \in Bytes
  BY DEF EQUALS, Bytes
<1> QED BY <1>1 DEF Named

(* A line is split where it was put together.                              *)
LEMMA KeyValueOf ==
    ASSUME NEW key \in Seq(Bytes), NEW value \in Seq(Bytes),
           \A i \in 1 .. Len(key) : key[i] # EQUALS
    PROVE  /\ KeyValue(Named(key) \o value) = <<key, value>>
           /\ Contains(Named(key) \o value, EQUALS)
<1>1. PICK name, line, n, v : /\ name = Named(key) /\ line = name \o value
                              /\ n = Len(key) /\ v = Len(value)
  OBVIOUS
<1>2. /\ name \in Seq(Bytes) /\ Len(name) = n + 1 /\ n \in Nat /\ v \in Nat
      /\ \A i \in 1 .. n : name[i] = key[i]
      /\ name[n + 1] = EQUALS
  BY <1>1, NamedIs
<1>3. /\ line \in Seq(Bytes) /\ Len(line) = (n + 1) + v
      /\ \A i \in 1 .. n + 1 : line[i] = name[i]
      /\ \A i \in 1 .. v : line[(n + 1) + i] = value[i]
  <2>1. /\ Len(name \o value) = Len(name) + Len(value)
        /\ \A k \in 1 .. Len(name) : (name \o value)[k] = name[k]
        /\ \A k \in 1 .. Len(value) : (name \o value)[Len(name) + k] = value[k]
    <3>1. name \in Seq(Bytes)
      BY <1>2
    <3> QED BY <3>1, ConcatAt
  <2>2. name \o value \in Seq(Bytes)
    BY <1>2, Concat
  <2> QED BY <1>1, <1>2, <2>1, <2>2
<1>4. line[n + 1] = EQUALS /\ \A i \in 1 .. n : line[i] = key[i] /\ line[i] # EQUALS
  BY <1>1, <1>2, <1>3
<1>5. PICK cut : cut = Find(line, EQUALS, 1)
  OBVIOUS
<1>6. cut = n + 1
  <2>1. 1 \in 1 .. Len(line) + 1 /\ Len(line) \in Nat
    BY <1>3
  <2>2. /\ cut \in 1 .. Len(line) + 1
        /\ cut <= Len(line) => line[cut] = EQUALS
        /\ \A i \in 1 .. cut - 1 : line[i] # EQUALS
    BY <1>3, <1>5, <2>1, FindIs
  <2>3. ~(cut < n + 1)
    BY <1>2, <1>3, <1>4, <2>2
  <2>4. ~(cut > n + 1)
    BY <1>2, <1>4, <2>2
  <2> QED BY <1>2, <2>2, <2>3, <2>4
<1>7. SubSeq(line, 1, n) = key
  <2>1. PICK s : s = SubSeq(line, 1, n)
    OBVIOUS
  <2>2. s \in Seq(Bytes) /\ Len(s) = n /\ \A i \in 1 .. n : s[i] = line[i]
    BY <1>2, <1>3, <2>1
  <2>3. \A i \in 1 .. n : s[i] = key[i]
    BY <1>4, <2>2
  <2> QED BY <1>1, <1>2, <2>1, <2>2, <2>3
<1>8. SubSeq(line, (n + 1) + 1, Len(line)) = value
  <2>1. PICK s : s = SubSeq(line, (n + 1) + 1, Len(line))
    OBVIOUS
  <2>2. s \in Seq(Bytes) /\ Len(s) = v /\ \A i \in 1 .. v : s[i] = line[(n + 1) + i]
    BY <1>2, <1>3, <2>1
  <2>3. \A i \in 1 .. v : s[i] = value[i]
    BY <1>3, <2>2
  <2>4. Len(value) = v
    BY <1>1
  <2>5. s = value
    BY <2>2, <2>3, <2>4
  <2> QED BY <2>1, <2>5
<1>9. KeyValue(line) = <<key, value>>
  <2>1. cut - 1 = n
    BY <1>2, <1>6
  <2> QED BY <1>5, <1>6, <1>7, <1>8, <2>1 DEF KeyValue
<1>10. Contains(line, EQUALS)
  <2>1. n + 1 \in 1 .. Len(line)
    BY <1>2, <1>3
  <2> QED BY <1>4, <2>1 DEF Contains
<1> QED BY <1>1, <1>9, <1>10

(* A line for a variable begins with its name and an equals sign.          *)
LEMMA LineIsNamed ==
    ASSUME NEW line \in Seq(Bytes), Contains(line, EQUALS)
    PROVE  IsPrefix(Named(KeyValue(line)[1]), line)
<1>1. PICK cut, n : cut = Find(line, EQUALS, 1) /\ n = Len(line) /\ n \in Nat
  OBVIOUS
<1>2. /\ cut \in 1 .. n + 1 /\ (cut <= n => line[cut] = EQUALS)
      /\ \A i \in 1 .. cut - 1 : line[i] # EQUALS
  <2>1. 1 \in 1 .. Len(line) + 1
    BY <1>1
  <2> QED BY <1>1, <2>1, FindIs
<1>3. cut \in 1 .. n /\ line[cut] = EQUALS
  <2>1. PICK i \in 1 .. n : line[i] = EQUALS
    BY <1>1 DEF Contains
  <2> QED BY <1>1, <1>2, <2>1
<1>4. PICK key : key = SubSeq(line, 1, cut - 1)
  OBVIOUS
<1>5. KeyValue(line)[1] = key
  BY <1>1, <1>4 DEF KeyValue
<1>6. key \in Seq(Bytes) /\ Len(key) = cut - 1 /\ \A i \in 1 .. cut - 1 : key[i] = line[i]
  BY <1>1, <1>3, <1>4
<1>7. PICK name : name = Named(key)
  OBVIOUS
<1>8. /\ name \in Seq(Bytes) /\ Len(name) = cut
      /\ \A i \in 1 .. cut - 1 : name[i] = line[i]
      /\ name[cut] = EQUALS
  BY <1>3, <1>6, <1>7, NamedIs
<1>9. \A i \in 1 .. cut : name[i] = line[i]
  BY <1>1, <1>3, <1>8
<1>10. SubSeq(name, 1, cut) = SubSeq(line, 1, cut)
  BY <1>1, <1>3, <1>8, <1>9
<1> QED BY <1>1, <1>3, <1>5, <1>7, <1>8, <1>10 DEF IsPrefix

(* A variable has the value of the first line for it.                      *)
LEMMA VariableIs ==
    ASSUME NEW lines \in Seq(Seq(Bytes)), NEW i \in DOMAIN lines,
           NEW key \in Seq(Bytes), NEW value \in Seq(Bytes),
           \A k \in 1 .. Len(key) : key[k] # EQUALS,
           lines[i] = Named(key) \o value,
           \A k \in 1 .. i - 1 : ~IsPrefix(Named(key), lines[k])
    PROVE  Env(EnvMap(lines), key) = value
<1> DEFINE valid == {k \in DOMAIN lines : Contains(lines[k], EQUALS)}
           its   == {k \in valid : KeyValue(lines[k])[1] = key}
           names == {KeyValue(lines[k])[1] : k \in valid}
<1>1. EnvMap(lines) = [k \in names |->
                         KeyValue(lines[Min({j \in valid : KeyValue(lines[j])[1] = k})])[2]]
  BY DEF EnvMap
<1>2. KeyValue(lines[i]) = <<key, value>> /\ Contains(lines[i], EQUALS)
  <2>1. KeyValue(Named(key) \o value) = <<key, value>> /\ Contains(Named(key) \o value, EQUALS)
    BY KeyValueOf
  <2> QED BY <2>1, Zenon
<1>3. i \in its /\ key \in names
  <2>1. KeyValue(lines[i])[1] = key
    BY <1>2
  <2> QED BY <1>2, <2>1, Zenon
<1>4. Min(its) = i
  <2>1. its \in SUBSET Nat /\ its # {}
    <3>1. DOMAIN lines \in SUBSET Nat
      OBVIOUS
    <3>2. its \subseteq DOMAIN lines
      BY Zenon
    <3>3. its # {}
      BY <1>3, Zenon
    <3> HIDE DEF its
    <3> QED BY <3>1, <3>2, <3>3
  <2>2. PICK m : m = Min(its)
    OBVIOUS
  <2>3. m \in its /\ \A k \in its : m <= k
    <3> HIDE DEF its
    <3> QED BY <2>1, <2>2, MinIs
  <2>4. m <= i /\ m \in Nat /\ i \in Nat /\ m \in DOMAIN lines
    BY <1>3, <2>3
  <2>5. ~(m < i)
    <3> SUFFICES ASSUME m < i PROVE FALSE
      OBVIOUS
    <3>1. m \in 1 .. i - 1
      BY <2>4
    <3>2. lines[m] \in Seq(Bytes) /\ Contains(lines[m], EQUALS) /\ KeyValue(lines[m])[1] = key
      BY <2>3, <2>4
    <3>3. IsPrefix(Named(KeyValue(lines[m])[1]), lines[m])
      BY <3>2, LineIsNamed
    <3>4. IsPrefix(Named(key), lines[m])
      BY <3>2, <3>3, Zenon
    <3> QED BY <3>1, <3>4, Zenon
  <2> QED BY <2>2, <2>4, <2>5
<1>5. EnvMap(lines)[key] = KeyValue(lines[Min(its)])[2] /\ DOMAIN EnvMap(lines) = names
  BY <1>1, <1>3
<1>6. KeyValue(lines[i])[2] = value
  BY <1>2
<1> QED BY <1>3, <1>4, <1>5, <1>6, Zenon DEF Env
-----------------------------------------------------------------------------
(* The route of every request has the components of its path: whatever     *)
(* else the environment has, and whatever later line names the variable    *)
(* again.                                                                  *)
THEOREM RouteIsTheComponents == Spec => []RouteIsComponents
<1>1. Init => RouteIsComponents
  BY Zenon DEF Init, RouteIsComponents
<1>2. ASSUME SInv, RouteIsComponents, [Next]_vars PROVE RouteIsComponents'
  <2>1. CASE ReadRoute
    <3>1. job \in Jobs /\ job.kind = "page"
      BY <1>2, <2>1 DEF SInv, StreamsInv, ReadRoute
    <3>2. job.input \in Seq(Seq(Bytes)) /\ IsPath(job.route, job.slashes)
      BY <3>1, JobsAssumption, PagesAssumption DEF HasPath
    <3>3. PICK i \in DOMAIN job.input :
             /\ job.input[i] = (DOCUMENT_URI \o <<EQUALS>>) \o Uri(job.route, job.slashes)
             /\ \A k \in 1 .. i - 1 : ~IsPrefix(DOCUMENT_URI \o <<EQUALS>>, job.input[k])
      BY <3>1, PagesAssumption, Zenon DEF HasPath
    <3>4. DOCUMENT_URI \in Seq(Bytes) /\ \A k \in 1 .. Len(DOCUMENT_URI) : DOCUMENT_URI[k] # EQUALS
      BY DEF DOCUMENT_URI, EQUALS, Bytes
    <3>5. Uri(job.route, job.slashes) \in Seq(Bytes)
      BY <3>2, UriType
    <3>6. Env(EnvMap(job.input), DOCUMENT_URI) = Uri(job.route, job.slashes)
      <4>1. /\ job.input[i] = Named(DOCUMENT_URI) \o Uri(job.route, job.slashes)
            /\ \A k \in 1 .. i - 1 : ~IsPrefix(Named(DOCUMENT_URI), job.input[k])
        BY <3>3, Zenon DEF Named
      <4> QED BY <3>2, <3>4, <3>5, <4>1, VariableIs
    <3>7. Route(Uri(job.route, job.slashes)) = job.route
      BY <3>2, RouteOfPath
    <3>8. route' = job.route /\ job' = job
      BY <2>1, <3>6, <3>7 DEF ReadRoute
    <3> QED BY <3>8 DEF RouteIsComponents
  <2>2. CASE ~ReadRoute
    <3>1. /\ job' = job /\ route' = route
          /\ phase' # "route" => phase # "route"
      BY <1>2, <2>2 DEF Next, HelloWorld, WriteMarkup, WriteContent, WriteBytes, WriteGlyphs,
           WriteEncoded, WritePrintf, WriteNumber, WriteNewline, Use, Format, PageEnds,
           LogStreamEnds, StreamEnds, LogLine, LogReturns, Done, requestVars, vars
    <3> QED BY <1>2, <3>1 DEF RouteIsComponents
  <2> QED BY <2>1, <2>2
<1> QED BY <1>1, <1>2, StreamsInvariant, PTL DEF Spec
-----------------------------------------------------------------------------
(* A percent-encoded text.                                                 *)

(* A client sends a byte as it is, unless it is '%', or escaped.           *)
StandsFor(piece, byte) ==
    \/ piece = <<byte>> /\ byte # PERCENT
    \/ \E high, low \in Bytes :
          /\ piece = <<PERCENT, high, low>>
          /\ IsHexDigit(high) /\ IsHexDigit(low) /\ Unhex(high, low) = byte

LEMMA EscapeStandsFor ==
    ASSUME NEW byte \in Bytes
    PROVE  StandsFor(<<PERCENT, UpperDigit(byte \div 16), HexDigit(byte % 16)>>, byte)
<1>1. PICK h, l : /\ h = byte \div 16 /\ l = byte % 16
                  /\ h \in 0 .. 15 /\ l \in 0 .. 15 /\ byte = 16 * h + l
  BY DEF Bytes
<1>2. /\ UpperDigit(h) \in Bytes /\ IsHexDigit(UpperDigit(h)) /\ HexValue(UpperDigit(h)) = h
  BY <1>1 DEF UpperDigit, Bytes, IsHexDigit, HexValue
<1>3. /\ HexDigit(l) \in Bytes /\ IsHexDigit(HexDigit(l)) /\ HexValue(HexDigit(l)) = l
  BY <1>1 DEF HexDigit, Bytes, IsHexDigit, HexValue
<1>4. Unhex(UpperDigit(h), HexDigit(l)) = byte
  BY <1>1, <1>2, <1>3 DEF Unhex
<1> QED BY <1>1, <1>2, <1>3, <1>4, Zenon DEF StandsFor

(* One byte of the text, found at a place, is decoded there.               *)
LEMMA DecodedAt ==
    ASSUME NEW text \in Seq(Bytes), NEW f, Unescapes(f, text),
           NEW place \in Nat, NEW piece \in Seq(Bytes), NEW byte, StandsFor(piece, byte),
           place + Len(piece) <= Len(text),
           \A k \in 1 .. Len(piece) : text[place + k] = piece[k]
    PROVE  f[place + 1] = <<byte>> \o f[place + Len(piece) + 1]
<1>1. CASE piece = <<byte>> /\ byte # PERCENT
  <2>1. Len(piece) = 1 /\ piece[1] = byte
    BY <1>1
  <2>2. PICK i : i = place + 1
    OBVIOUS
  <2>3. i \in 1 .. Len(text) + 1 /\ ~(i > Len(text)) /\ text[i] = byte
        /\ i + 1 = place + Len(piece) + 1
    BY <2>1, <2>2
  <2>4. ~IsEscape(text, i)
    BY <1>1, <2>3 DEF IsEscape
  <2> QED BY <2>2, <2>3, <2>4, Zenon DEF Unescapes
<1>2. ASSUME NEW high \in Bytes, NEW low \in Bytes, piece = <<PERCENT, high, low>>,
             IsHexDigit(high), IsHexDigit(low), Unhex(high, low) = byte
      PROVE  f[place + 1] = <<byte>> \o f[place + Len(piece) + 1]
  <2>1. Len(piece) = 3 /\ piece[1] = PERCENT /\ piece[2] = high /\ piece[3] = low
    BY <1>2
  <2>2. PICK i : i = place + 1
    OBVIOUS
  <2>3. /\ i \in 1 .. Len(text) + 1 /\ ~(i > Len(text)) /\ i + 2 <= Len(text)
        /\ text[i] = PERCENT /\ text[i + 1] = high /\ text[i + 2] = low
        /\ i + 3 = place + Len(piece) + 1
    <3>1. /\ place + 1 = i /\ place + 2 = i + 1 /\ place + 3 = i + 2
          /\ 1 \in 1 .. Len(piece) /\ 2 \in 1 .. Len(piece) /\ 3 \in 1 .. Len(piece)
      BY <2>1, <2>2
    <3>2. text[place + 1] = PERCENT /\ text[place + 2] = high /\ text[place + 3] = low
      BY <2>1, <3>1, Zenon
    <3> QED BY <2>1, <2>2, <3>1, <3>2
  <2>4. IsEscape(text, i)
    BY <1>2, <2>3 DEF IsEscape
  <2> QED BY <1>2, <2>2, <2>3, <2>4, Zenon DEF Unescapes
<1> QED BY <1>1, <1>2, Zenon DEF StandsFor

(* A text of a query has, when it is decoded, the bytes the client meant,  *)
(* whichever of them it has escaped and in whichever case of the digits.   *)
THEOREM DecodedAsMeant ==
    ASSUME NEW pieces \in Seq(Seq(Bytes)), NEW bytes \in Seq(Bytes),
           Len(pieces) = Len(bytes),
           \A i \in 1 .. Len(bytes) : StandsFor(pieces[i], bytes[i])
    PROVE  QueryDecode(FlattenSeq(pieces)) = bytes
<1>1. PICK n, text : n = Len(bytes) /\ text = FlattenSeq(pieces)
  OBVIOUS
<1>2. n \in Nat /\ n = Len(pieces) /\ text \in Seq(Bytes) /\ Len(text) \in Nat
  BY <1>1, FlattenType
<1>3. PICK at : Flattens(at, pieces, Bytes) /\ text = at[n]
  BY <1>1, <1>2, FlattenIs
<1>4. Places(at, pieces, text)
  <2>1. <<>> \in Seq(Bytes)
    BY Empty, Zenon
  <2>2. Places(at, pieces, at[n] \o <<>>)
    BY <1>2, <1>3, <2>1, PlacesAre
  <2>3. text \o <<>> = text
    BY <1>2
  <2> QED BY <1>3, <2>2, <2>3, Zenon
<1>5. PICK f : Unescapes(f, text) /\ QueryDecode(text) = f[1]
  BY <1>2, QueryDecodeIs
<1>6. Len(at[0]) = 0 /\ Len(at[n]) = Len(text)
  <2>1. at[0] = <<>>
    BY <1>3, Zenon DEF Flattens
  <2> QED BY <1>3, <2>1
<1>7. f[Len(at[n]) + 1] = <<>>
  <2>1. PICK i : i = Len(text) + 1
    OBVIOUS
  <2>2. i \in 1 .. Len(text) + 1 /\ i > Len(text)
    BY <1>2, <2>1
  <2>3. f[i] = <<>>
    BY <1>5, <2>2, Zenon DEF Unescapes
  <2> QED BY <1>6, <2>1, <2>3
<1>8. ASSUME NEW i \in 1 .. n
      PROVE  f[Len(at[i - 1]) + 1] = <<bytes[i]>> \o f[Len(at[i]) + 1]
  <2>1. PICK place, piece, b : place = Len(at[i - 1]) /\ piece = pieces[i] /\ b = Len(at[i])
    OBVIOUS
  <2>2. /\ place \in Nat /\ b = place + Len(piece) /\ b <= Len(text)
        /\ \A k \in 1 .. Len(piece) : text[place + k] = piece[k]
    BY <1>2, <1>4, <2>1, Zenon DEF Places
  <2>3. piece \in Seq(Bytes) /\ StandsFor(piece, bytes[i])
    BY <1>1, <1>2, <2>1
  <2>4. place + Len(piece) <= Len(text)
    BY <2>2, Zenon
  <2>5. f[place + 1] = <<bytes[i]>> \o f[place + Len(piece) + 1]
    BY <1>2, <1>5, <2>2, <2>3, <2>4, DecodedAt
  <2> QED BY <2>1, <2>2, <2>5, Zenon
<1> DEFINE T == {k \in Nat : k <= n => f[Len(at[n - k]) + 1] = SubSeq(bytes, (n - k) + 1, n)}
<1>9. 0 \in T
  <2>1. SubSeq(bytes, n + 1, n) = <<>>
    BY <1>1, <1>2
  <2>2. n - 0 = n
    BY <1>2
  <2> QED BY <1>7, <2>1, <2>2
<1>10. ASSUME NEW k \in Nat, k \in T PROVE k + 1 \in T
  <2> SUFFICES ASSUME k + 1 <= n
               PROVE  f[Len(at[n - (k + 1)]) + 1] = SubSeq(bytes, (n - (k + 1)) + 1, n)
    OBVIOUS
  <2>1. PICK i : i = n - k
    OBVIOUS
  <2>2. i \in 1 .. n /\ n - (k + 1) = i - 1 /\ (i - 1) + 1 = i
    BY <1>2, <2>1
  <2>3. f[Len(at[i]) + 1] = SubSeq(bytes, i + 1, n)
    <3>1. k <= n
      BY <1>2
    <3> QED BY <1>10, <2>1, <3>1
  <2>4. SubSeq(bytes, i, n) = <<bytes[i]>> \o SubSeq(bytes, i + 1, n)
    BY <1>1, <1>2, <2>2
  <2>5. f[Len(at[i - 1]) + 1] = <<bytes[i]>> \o f[Len(at[i]) + 1]
    BY <1>8, <2>2
  <2> QED BY <2>2, <2>3, <2>4, <2>5, Zenon
<1>11. n \in T
  <2> HIDE DEF T
  <2> QED BY <1>2, <1>9, <1>10, Induction
<1>12. n - n = 0 /\ SubSeq(bytes, 1, n) = bytes
  BY <1>1, <1>2
<1>13. f[1] = bytes
  <2>1. n <= n
    BY <1>2
  <2>2. f[Len(at[n - n]) + 1] = SubSeq(bytes, (n - n) + 1, n)
    BY <1>11, <2>1, Zenon
  <2>3. 0 + 1 = 1
    OBVIOUS
  <2> QED BY <1>6, <1>12, <2>2, <2>3, Zenon
<1> QED BY <1>1, <1>5, <1>13
-----------------------------------------------------------------------------
(* A text in UTF-8.                                                        *)

(* The code points that have an encoding, but for zero.                    *)
Encodable == {glyph \in Nat : glyph > 0 /\ IsCodePoint(glyph)}

LEMMA EncodableIs ==
    ASSUME NEW glyph \in Encodable
    PROVE  glyph \in Nat /\ glyph # 0
BY SMT DEF Encodable

(* The text has the encoding of a code point behind a place.               *)
EncodedAt(text, place, glyph) ==
    /\ place + Len(Utf32To8(glyph)) <= Len(text)
    /\ \A k \in 1 .. Len(Utf32To8(glyph)) : text[place + k] = Utf32To8(glyph)[k]

(* Between its bytes nothing is shown, behind them it is, and the decoder  *)
(* is ready for the next.                                                  *)
ReadAt(f, place, glyph, m) ==
    /\ m \in 1 .. 4
    /\ \A k \in 1 .. m - 1 : Reading(f[place + k]) = <<>>
    /\ Reading(f[place + m]) = <<glyph>>
    /\ f[place + m].remaining = 0

LEMMA GlyphAt ==
    ASSUME NEW text \in Seq(Bytes), NEW f, Decodes(f, text),
           NEW glyph \in Encodable, NEW place \in Nat, f[place].remaining = 0,
           EncodedAt(text, place, glyph)
    PROVE  ReadAt(f, place, glyph, Len(Utf32To8(glyph)))
<1>1. PICK b, m : b = Utf32To8(glyph) /\ m = Len(b)
  OBVIOUS
<1>2. PICK s0, s1, s2, s3, s4 :
         /\ s0 = f[place] /\ s1 = Utf8To32(b[1], s0) /\ s2 = Utf8To32(b[2], s1)
         /\ s3 = Utf8To32(b[3], s2) /\ s4 = Utf8To32(b[4], s3)
  OBVIOUS
<1>3. b \in Seq(Bytes) /\ m \in Nat /\ place + m <= Len(text) /\ Len(text) \in Nat
      /\ \A k \in 1 .. m : text[place + k] = b[k]
  <2>1. place + m <= Len(text) /\ \A k \in 1 .. m : text[place + k] = b[k]
    BY <1>1, Zenon DEF EncodedAt
  <2>2. b \in Seq(Bytes)
    BY <1>1, EncodableIs, EncodeType, Zenon
  <2>3. m \in Nat /\ Len(text) \in Nat
    BY <1>1, <2>2
  <2> QED BY <2>1, <2>2, <2>3
<1>4. s0 \in States /\ s0.remaining = 0
  <2>1. place \in 0 .. Len(text)
    BY <1>3
  <2> QED BY <1>2, <2>1 DEF Decodes
<1>5. \/ m = 1 /\ Glyph(s1) = glyph
      \/ m = 2 /\ Glyph(s1) = 0 /\ Glyph(s2) = glyph
      \/ m = 3 /\ Glyph(s1) = 0 /\ Glyph(s2) = 0 /\ Glyph(s3) = glyph
      \/ m = 4 /\ Glyph(s1) = 0 /\ Glyph(s2) = 0 /\ Glyph(s3) = 0 /\ Glyph(s4) = glyph
  <2>1. glyph \in Nat /\ IsCodePoint(glyph)
    BY DEF Encodable
  <2>2. b = Utf32To8(glyph)
    BY <1>1
  <2>3. \/ Len(b) = 1 /\ Glyph(s1) = glyph
        \/ Len(b) = 2 /\ Glyph(s1) = 0 /\ Glyph(s2) = glyph
        \/ Len(b) = 3 /\ Glyph(s1) = 0 /\ Glyph(s2) = 0 /\ Glyph(s3) = glyph
        \/ Len(b) = 4 /\ Glyph(s1) = 0 /\ Glyph(s2) = 0 /\ Glyph(s3) = 0 /\ Glyph(s4) = glyph
    BY <1>2, <1>4, <2>1, <2>2, RoundTrip
  <2> QED BY <1>1, <2>3
<1>6. ASSUME NEW k \in 1 .. m PROVE f[place + k] = Utf8To32(b[k], f[place + (k - 1)])
  <2>1. PICK i : i = place + k
    OBVIOUS
  <2>2. i \in 1 .. Len(text) /\ i - 1 = place + (k - 1) /\ text[i] = b[k]
    BY <1>3, <2>1
  <2> QED BY <2>1, <2>2, Zenon DEF Decodes
<1>7. /\ m >= 1 => f[place + 1] = s1
      /\ m >= 2 => f[place + 2] = s2
      /\ m >= 3 => f[place + 3] = s3
      /\ m >= 4 => f[place + 4] = s4
  <2>1. /\ place + (1 - 1) = place /\ place + (2 - 1) = place + 1
        /\ place + (3 - 1) = place + 2 /\ place + (4 - 1) = place + 3
    OBVIOUS
  <2>2. m >= 1 => f[place + 1] = s1
    <3>1. m >= 1 => 1 \in 1 .. m
      BY <1>3
    <3> QED BY <1>2, <1>6, <2>1, <3>1, Zenon
  <2>3. m >= 2 => f[place + 2] = s2
    <3>1. m >= 2 => 2 \in 1 .. m /\ m >= 1
      BY <1>3
    <3> QED BY <1>2, <1>6, <2>1, <2>2, <3>1, Zenon
  <2>4. m >= 3 => f[place + 3] = s3
    <3>1. m >= 3 => 3 \in 1 .. m /\ m >= 2
      BY <1>3
    <3> QED BY <1>2, <1>6, <2>1, <2>3, <3>1, Zenon
  <2>5. m >= 4 => f[place + 4] = s4
    <3>1. m >= 4 => 4 \in 1 .. m /\ m >= 3
      BY <1>3
    <3> QED BY <1>2, <1>6, <2>1, <2>4, <3>1, Zenon
  <2> QED BY <2>2, <2>3, <2>4, <2>5
<1>8. m \in 1 .. 4 /\ Glyph(f[place + m]) = glyph
      /\ \A k \in 1 .. m - 1 : Glyph(f[place + k]) = 0
  BY <1>5, <1>7
<1>9. f[place + m] \in States
  <2>1. place + m \in 0 .. Len(text)
    BY <1>3
  <2> QED BY <2>1 DEF Decodes
<1>10. glyph # 0
  BY EncodableIs
<1>11. f[place + m].remaining = 0
  <2>1. PICK s \in States : s = f[place + m]
    BY <1>9
  <2>2. Glyph(s) # 0
    BY <1>8, <1>10, <2>1
  <2>3. s.remaining = 0
    BY <2>2 DEF Glyph, States
  <2> QED BY <2>1, <2>3
<1> QED BY <1>1, <1>8, <1>10, <1>11, Zenon DEF Reading, ReadAt

(* What utf8_encode makes of code points, utf8_decode reads back as they   *)
(* were: texts of any length.  Zero is no character for the decoder.       *)
THEOREM TextRoundTrip ==
    ASSUME NEW glyphs \in Seq(Encodable)
    PROVE  Utf8Decode(Utf8Encode(glyphs)) = glyphs
<1>1. PICK n, ss, text : /\ n = Len(glyphs) /\ ss = [i \in 1 .. n |-> Utf32To8(glyphs[i])]
                         /\ text = Utf8Encode(glyphs)
  OBVIOUS
<1>2. n \in Nat /\ \A i \in 1 .. n : glyphs[i] \in Encodable /\ glyphs[i] \in Nat
  BY <1>1, EncodableIs
<1>3. ss \in Seq(Seq(Bytes)) /\ Len(ss) = n
  <2>1. \A i \in 1 .. n : Utf32To8(glyphs[i]) \in Seq(Bytes)
    BY <1>2, EncodeType
  <2>2. ss \in [1 .. n -> Seq(Bytes)]
    BY <1>1, <2>1, Zenon
  <2>3. ss \in Seq(Seq(Bytes))
    BY <1>2, <2>2, IsSequence
  <2> QED BY <1>2, <2>2, <2>3
<1>4. text = FlattenSeq(ss) /\ text \in Seq(Bytes) /\ Len(text) \in Nat
  <2>1. text = FlattenSeq(ss)
    BY <1>1, Zenon DEF Utf8Encode
  <2>2. text \in Seq(Bytes)
    BY <1>3, <2>1, FlattenType, Zenon
  <2> QED BY <2>1, <2>2
<1>5. PICK at : Flattens(at, ss, Bytes) /\ text = at[n]
  BY <1>3, <1>4, FlattenIs
<1>6. Places(at, ss, text)
  <2>1. <<>> \in Seq(Bytes)
    BY Empty, Zenon
  <2>2. Places(at, ss, at[n] \o <<>>)
    BY <1>3, <1>5, <2>1, PlacesAre
  <2>3. text \o <<>> = text
    BY <1>4
  <2> QED BY <1>5, <2>2, <2>3, Zenon
<1>7. PICK f : /\ Decodes(f, text)
               /\ Utf8Decode(text) = FlattenSeq([i \in DOMAIN text |-> Reading(f[i])])
  BY <1>4, Utf8DecodeIs
<1>8. PICK shown : shown = [i \in 1 .. Len(text) |-> Reading(f[i])]
  OBVIOUS
<1>9. shown \in Seq(Seq(Nat)) /\ Len(shown) = Len(text) /\ Utf8Decode(text) = FlattenSeq(shown)
  <2>1. \A i \in 1 .. Len(text) : Reading(f[i]) \in Seq(Nat)
    <3> SUFFICES ASSUME NEW i \in 1 .. Len(text) PROVE Reading(f[i]) \in Seq(Nat)
      OBVIOUS
    <3>1. i \in 0 .. Len(text) /\ f \in [0 .. Len(text) -> States]
      BY <1>4, <1>7 DEF Decodes
    <3>2. PICK s \in States : s = f[i]
      BY <3>1
    <3>3. Glyph(s) \in Nat
      BY <3>2 DEF Glyph, States, Replacement
    <3>4. <<>> \in Seq(Nat) /\ <<Glyph(s)>> \in Seq(Nat)
      BY <3>3
    <3> QED BY <3>2, <3>4, Zenon DEF Reading
  <2>2. shown \in [1 .. Len(text) -> Seq(Nat)]
    BY <1>8, <2>1, Zenon
  <2>3. shown \in Seq(Seq(Nat))
    BY <1>4, <2>2, IsSequence
  <2>4. DOMAIN text = 1 .. Len(text)
    BY <1>4
  <2>5. Utf8Decode(text) = FlattenSeq(shown)
    BY <1>7, <1>8, <2>4, Zenon
  <2>6. Len(shown) = Len(text)
    BY <1>4, <2>2, <2>3
  <2> QED BY <2>3, <2>5, <2>6
<1>10. PICK g : Flattens(g, shown, Nat) /\ FlattenSeq(shown) = g[Len(shown)]
  BY <1>9, FlattenIs
<1>11. /\ g[0] = <<>> /\ \A i \in 0 .. Len(text) : g[i] \in Seq(Nat)
       /\ \A i \in 1 .. Len(text) : g[i] = g[i - 1] \o Reading(f[i])
  <2>1. \A i \in 1 .. Len(text) : shown[i] = Reading(f[i])
    BY <1>8
  <2> QED BY <1>9, <1>10, <2>1 DEF Flattens
<1> DEFINE T == {k \in Nat : k <= n => /\ f[Len(at[k])].remaining = 0
                                       /\ g[Len(at[k])] = SubSeq(glyphs, 1, k)}
<1>12. 0 \in T
  <2>1. at[0] = <<>> /\ f[0] = ConvertState
    BY <1>5, <1>7, Zenon DEF Flattens, Decodes
  <2>2. Len(at[0]) = 0 /\ f[0].remaining = 0
    BY <2>1 DEF ConvertState, Decoding
  <2>3. SubSeq(glyphs, 1, 0) = <<>>
    BY <1>2
  <2> QED BY <1>11, <2>2, <2>3
<1>13. ASSUME NEW k \in Nat, k \in T PROVE k + 1 \in T
  <2> SUFFICES ASSUME k + 1 <= n
               PROVE  /\ f[Len(at[k + 1])].remaining = 0
                      /\ g[Len(at[k + 1])] = SubSeq(glyphs, 1, k + 1)
    OBVIOUS
  <2>1. PICK i, p, glyph, m : /\ i = k + 1 /\ p = Len(at[k]) /\ glyph = glyphs[k + 1]
                              /\ m = Len(Utf32To8(glyph))
    OBVIOUS
  <2>2. i \in 1 .. n /\ i - 1 = k /\ k <= n /\ glyph \in Encodable /\ glyph = glyphs[i]
    BY <1>2, <2>1
  <2>3. f[p].remaining = 0 /\ g[p] = SubSeq(glyphs, 1, k)
    BY <1>13, <2>1, <2>2
  <2>4. ss[i] = Utf32To8(glyph)
    BY <1>1, <2>2
  <2>5. /\ p \in Nat /\ Len(at[i]) = p + m /\ p + m <= Len(text)
        /\ \A j \in 1 .. m : text[p + j] = Utf32To8(glyph)[j]
    <3>1. /\ Len(at[i - 1]) \in Nat /\ Len(at[i]) = Len(at[i - 1]) + Len(ss[i])
          /\ Len(at[i]) <= Len(text)
          /\ \A j \in 1 .. Len(ss[i]) : text[Len(at[i - 1]) + j] = ss[i][j]
      BY <1>3, <1>6, <2>2, Zenon DEF Places
    <3> QED BY <2>1, <2>2, <2>4, <3>1, Zenon
  <2>6. /\ m \in 1 .. 4 /\ Reading(f[p + m]) = <<glyph>> /\ f[p + m].remaining = 0
        /\ \A j \in 1 .. m - 1 : Reading(f[p + j]) = <<>>
    <3>1. EncodedAt(text, p, glyph)
      BY <2>1, <2>5, Zenon DEF EncodedAt
    <3>2. ReadAt(f, p, glyph, Len(Utf32To8(glyph)))
      BY <1>4, <1>7, <2>2, <2>3, <2>5, <3>1, GlyphAt, Zenon
    <3> QED BY <2>1, <3>2, Zenon DEF ReadAt
  <2>7. ASSUME NEW j \in 1 .. m - 1 PROVE g[p + j] = g[p + (j - 1)]
    <3>1. PICK q : q = p + j
      OBVIOUS
    <3>2. q \in 1 .. Len(text) /\ q - 1 \in 0 .. Len(text) /\ q - 1 = p + (j - 1)
      BY <1>4, <2>5, <2>6, <3>1
    <3>3. g[q] = g[q - 1] \o <<>> /\ g[q - 1] \in Seq(Nat)
      BY <1>11, <2>6, <3>1, <3>2, Zenon
    <3>4. g[q] = g[q - 1]
      BY <3>3
    <3> QED BY <3>1, <3>2, <3>4
  <2>8. g[p + (m - 1)] = g[p]
    <3>1. /\ 1 \in 1 .. m - 1 => g[p + 1] = g[p + 0]
          /\ 2 \in 1 .. m - 1 => g[p + 2] = g[p + 1]
          /\ 3 \in 1 .. m - 1 => g[p + 3] = g[p + 2]
      BY <2>7
    <3>2. p + 0 = p
      BY <2>5
    <3> QED BY <2>6, <3>1, <3>2
  <2>9. g[p + m] = SubSeq(glyphs, 1, k) \o <<glyph>>
    <3>1. PICK q : q = p + m
      OBVIOUS
    <3>2. q \in 1 .. Len(text) /\ q - 1 = p + (m - 1)
      BY <1>4, <2>5, <2>6, <3>1
    <3>3. g[q] = g[q - 1] \o Reading(f[q])
      BY <1>11, <3>2, Zenon
    <3> QED BY <2>3, <2>6, <2>8, <3>1, <3>2, <3>3, Zenon
  <2>10. SubSeq(glyphs, 1, k + 1) = SubSeq(glyphs, 1, k) \o <<glyph>>
    BY <1>1, <1>2, <2>1, <2>2
  <2> QED BY <2>1, <2>5, <2>6, <2>9, <2>10, Zenon
<1>14. n \in T
  <2> HIDE DEF T
  <2> QED BY <1>2, <1>12, <1>13, Induction
<1>15. g[Len(text)] = SubSeq(glyphs, 1, n)
  <2>1. n <= n
    BY <1>2
  <2> QED BY <1>5, <1>14, <2>1, Zenon
<1>16. SubSeq(glyphs, 1, n) = glyphs
  BY <1>1, <1>2
<1> QED BY <1>1, <1>9, <1>10, <1>15, <1>16, Zenon
-----------------------------------------------------------------------------
(* The log.                                                                *)

LEMMA UntilFinite ==
    ASSUME out \in Seq(Bytes)
    PROVE  \A place : IsFiniteSet(Until(place))
<1>1. Len(out) \in Int /\ 1 \in Int
  OBVIOUS
<1>2. IsFiniteSet((1 .. Len(out)) \X (1 .. Len(out)))
  BY <1>1, FS_Interval, FS_Product
<1>3. \A place : Until(place) \in SUBSET ((1 .. Len(out)) \X (1 .. Len(out)))
  BY DEF Until, Entries
<1> QED BY <1>2, <1>3, FS_Subset

LEMMA TrimRightIs ==
    ASSUME NEW newline \in Nat, start \in Nat, start <= newline
    PROVE  LET end == TrimRight(newline)
           IN  /\ end \in start .. newline
               /\ start < end => ~Blank(out[end])
               /\ \A i \in end + 1 .. newline : Blank(out[i])
<1> DEFINE T == {start} \cup {i \in start + 1 .. newline : ~Blank(out[i])}
<1>1. T \subseteq start .. newline /\ start \in T
  OBVIOUS
<1>2. T \subseteq 0 .. newline /\ T # {}
  BY <1>1
<1>3. PICK end : end = TrimRight(newline)
  OBVIOUS
<1>4. end \in T /\ \A i \in T : i <= end
  <2>1. end = Max(T)
    BY <1>3 DEF TrimRight
  <2> HIDE DEF T
  <2> QED BY <1>2, <2>1, MaxIs
<1>5. start < end => ~Blank(out[end])
  BY <1>4
<1>6. ASSUME NEW i \in end + 1 .. newline, ~Blank(out[i]) PROVE FALSE
  <2>1. i \in T
    BY <1>1, <1>4, <1>6
  <2> QED BY <1>1, <1>4, <2>1
<1>7. end \in start .. newline
  BY <1>1, <1>4
<1> QED BY <1>3, <1>5, <1>6, <1>7

(* One line has one entry,  or none if it is blank.                       *)
LEMMA NextEntry ==
    ASSUME out \in Seq(Bytes), start \in Nat, start < Len(out),
           start = 0 \/ out[start] = NEWLINE,
           NEW found, found = Find(out, NEWLINE, start + 1),
           NEW end, end = TrimRight(found - 1)
    PROVE  /\ found \in start + 1 .. Len(out) + 1
           /\ found <= Len(out) => out[found] = NEWLINE
           /\ end \in start .. found - 1
           /\ start < end =>
                 Until(found) = Until(start) \cup {<<start + 1, end>>}
           /\ start >= end => Until(found) = Until(start)
<1>1. /\ found \in start + 1 .. Len(out) + 1
      /\ found <= Len(out) => out[found] = NEWLINE
      /\ \A i \in start + 1 .. found - 1 : out[i] # NEWLINE
  <2>1. PICK from \in 1 .. Len(out) + 1 : from = start + 1
    OBVIOUS
  <2> QED BY <2>1, FindIs
<1>2. /\ end \in start .. found - 1
      /\ start < end => ~Blank(out[end])
      /\ \A i \in end + 1 .. found - 1 : Blank(out[i])
  <2>1. found - 1 \in Nat /\ start <= found - 1
    BY <1>1
  <2> QED BY <2>1, TrimRightIs
<1>3. Until(start) \subseteq Until(found)
  BY <1>1 DEF Until, Entries
<1>4. ASSUME NEW p \in Until(found), p \notin Until(start)
      PROVE  start < end /\ p = <<start + 1, end>>
  <2>1. PICK first, last \in 1 .. Len(out) : p = <<first, last>>
    BY DEF Until, Entries
  <2>2. first <= last /\ IsEntry(first, last) /\ first <= found /\ first > start
    BY <1>4, <2>1 DEF Until, Entries
  <2>3. first = start + 1
    <3> SUFFICES ASSUME first # start + 1 PROVE FALSE
      OBVIOUS
    <3>1. first - 1 \in start + 1 .. found - 1 /\ out[first - 1] = NEWLINE
      BY <1>1, <2>2 DEF IsEntry
    <3> QED BY <1>1, <3>1
  <2>4. last < found
    <3> SUFFICES ASSUME found <= last PROVE FALSE
      BY <1>1
    <3>1. found \in first .. last /\ out[found] = NEWLINE
      BY <1>1, <2>2
    <3> QED BY <2>2, <3>1 DEF IsEntry
  <2>5. last <= end
    <3> SUFFICES ASSUME end < last PROVE FALSE
      BY <1>2
    <3>1. last \in end + 1 .. found - 1
      BY <1>1, <1>2, <2>4
    <3> QED BY <1>2, <2>2, <3>1 DEF IsEntry
  <2>6. start < end
    BY <1>2, <2>2, <2>5
  <2>7. ~(last < end)
    <3> SUFFICES ASSUME last < end PROVE FALSE
      OBVIOUS
    <3>1. end \in last + 1 .. Len(out)
      BY <1>1, <1>2
    <3>2. PICK k \in last + 1 .. end : out[k] = NEWLINE
      BY <1>2, <2>2, <2>6, <3>1 DEF IsEntry
    <3>3. k \in start + 1 .. found - 1
      BY <1>1, <1>2, <2>2, <2>3
    <3> QED BY <1>1, <3>2, <3>3
  <2> QED BY <1>2, <2>1, <2>3, <2>5, <2>6, <2>7
<1>5. ASSUME start < end PROVE <<start + 1, end>> \in Until(found)
  <2>1. start + 1 \in 1 .. Len(out) /\ end \in 1 .. Len(out) /\ start + 1 <= end
    BY <1>1, <1>2, <1>5
  <2>2. start + 1 = 1 \/ out[(start + 1) - 1] = NEWLINE
    OBVIOUS
  <2>3. \A i \in start + 1 .. end : out[i] # NEWLINE
    BY <1>1, <1>2
  <2>4. ASSUME NEW i \in end + 1 .. Len(out)
        PROVE  Blank(out[i]) \/ \E k \in end + 1 .. i : out[k] = NEWLINE
    <3>1. CASE i < found
      BY <1>1, <1>2, <3>1
    <3>2. CASE found <= i
      BY <1>1, <1>2, <3>2
    <3> QED BY <1>1, <3>1, <3>2
  <2>5. IsEntry(start + 1, end)
    BY <1>2, <1>5, <2>2, <2>3, <2>4 DEF IsEntry
  <2>6. start + 1 <= found
    BY <1>1
  <2> QED BY <2>1, <2>5, <2>6 DEF Until, Entries
<1>6. ASSUME start < end PROVE Until(found) = Until(start) \cup {<<start + 1, end>>}
  BY <1>3, <1>4, <1>5, <1>6
<1>7. ASSUME start >= end PROVE Until(found) = Until(start)
  <2>1. ~(start < end)
    BY <1>2, <1>7
  <2> QED BY <1>3, <1>4, <2>1
<1> QED BY <1>1, <1>2, <1>6, <1>7

(* The callback has had the entries up to a place.                       *)
Given(place) ==
    /\ Len(logged) = Cardinality(Until(place))
    /\ \A p \in Until(place) : logged[Cardinality(Until(p[1]))] = SubSeq(out, p[1], p[2])

LEMMA LogLineGives ==
    ASSUME SInv, LogLine, Given(start), start = 0 \/ out[start] = NEWLINE
    PROVE  Given(start)' /\ (start' >= Len(out) \/ out[start'] = NEWLINE)
<1>1. out \in Seq(Bytes) /\ start \in Nat /\ start < Len(out) /\ logged \in Seq(Seq(Bytes))
  BY DEF SInv, FInv, FormatterTypeOK, StreamsInv, LogLine
<1>2. PICK found : found = Find(out, NEWLINE, start + 1)
  OBVIOUS
<1>3. PICK end : end = TrimRight(found - 1)
  OBVIOUS
<1>4. /\ found \in start + 1 .. Len(out) + 1
      /\ found <= Len(out) => out[found] = NEWLINE
      /\ end \in start .. found - 1
      /\ start < end => Until(found) = Until(start) \cup {<<start + 1, end>>}
      /\ start >= end => Until(found) = Until(start)
  BY <1>1, <1>2, <1>3, NextEntry
<1>5. /\ start' = (found - 1) + 1 /\ out' = out
      /\ logged' = IF start < end THEN Append(logged, SubSeq(out, start + 1, end)) ELSE logged
  BY <1>2, <1>3 DEF LogLine, formatterVars
<1>6. start' = found
  BY <1>4, <1>5
<1>7. \A place : IsFiniteSet(Until(place))
  BY <1>1, UntilFinite
<1>8. /\ Len(logged') = Cardinality(Until(found))
      /\ \A p \in Until(found) : logged'[Cardinality(Until(p[1]))] = SubSeq(out, p[1], p[2])
  <2>1. CASE start >= end
    <3>1. ~(start < end)
      BY <1>1, <1>4, <2>1
    <3>2. logged' = logged /\ Until(found) = Until(start)
      BY <1>4, <1>5, <2>1, <3>1
    <3> QED BY <3>2 DEF Given
  <2>2. CASE start < end
    <3> DEFINE new == <<start + 1, end>>
    <3>1. new \notin Until(start) /\ new[1] = start + 1 /\ new[2] = end
      BY <1>1 DEF Until
    <3>2. Cardinality(Until(found)) = Cardinality(Until(start)) + 1
      BY <1>4, <1>7, <2>2, <3>1, FS_AddElement
    <3>3. /\ Len(logged') = Len(logged) + 1 /\ logged'[Len(logged) + 1] = SubSeq(out, start + 1, end)
          /\ \A n \in 1 .. Len(logged) : logged'[n] = logged[n]
      <4>1. PICK given : given = SubSeq(out, start + 1, end)
        OBVIOUS
      <4>2. logged' = Append(logged, given)
        BY <1>5, <2>2, <4>1
      <4>3. PICK from \in 1 .. Len(out) + 1 : from = start + 1
        BY <1>1
      <4>4. end \in 0 .. Len(out)
        BY <1>1, <1>4
      <4>5. given \in Seq(Bytes)
        BY <1>1, <4>1, <4>3, <4>4, Piecewise
      <4> QED BY <1>1, <4>1, <4>2, <4>5, AppendProperties
    <3>4. ASSUME NEW p \in Until(start)
          PROVE  logged'[Cardinality(Until(p[1]))] = SubSeq(out, p[1], p[2])
      <4>1. p[1] \in Nat /\ p[1] <= start /\ p \in Until(p[1])
        BY <1>1 DEF Until, Entries
      <4>2. Until(p[1]) \in SUBSET Until(start)
        BY <1>1, <4>1 DEF Until, Entries
      <4>3. Cardinality(Until(p[1])) <= Len(logged)
        BY <1>7, <4>2, FS_Subset DEF Given
      <4>4. Cardinality(Until(p[1])) \in Nat /\ Cardinality(Until(p[1])) # 0
        BY <1>7, <4>1, FS_CardinalityType, FS_EmptySet
      <4>5. Cardinality(Until(p[1])) \in 1 .. Len(logged)
        BY <1>1, <4>3, <4>4
      <4> QED BY <3>3, <4>5 DEF Given
    <3>5. logged'[Cardinality(Until(new[1]))] = SubSeq(out, new[1], new[2])
      <4>1. Until(start + 1) = Until(found)
        <5>1. Until(start + 1) \subseteq Until(found)
          BY <1>1, <1>4 DEF Until, Entries
        <5>2. Until(start) \subseteq Until(start + 1)
          BY <1>1 DEF Until, Entries
        <5>3. new \in Until(found)
          BY <1>4, <2>2
        <5>4. new \in Until(start + 1)
          BY <1>1, <3>1, <5>3 DEF Until
        <5> HIDE DEF new
        <5> QED BY <1>4, <2>2, <5>1, <5>2, <5>4 DEF new
      <4>2. Cardinality(Until(start + 1)) = Len(logged) + 1
        BY <3>2, <4>1 DEF Given
      <4> QED BY <3>1, <3>3, <4>2
    <3> HIDE DEF new
    <3>6. Until(found) = Until(start) \cup {new}
      BY <1>4, <2>2 DEF new
    <3> QED BY <3>2, <3>3, <3>4, <3>5, <3>6 DEF Given
  <2> QED BY <1>1, <1>4, <2>1, <2>2
<1>9. Given(start)'
  <2>1. Until(start)' = Until(found)
    BY <1>6, <1>5 DEF Until, Entries, IsEntry
  <2>2. ASSUME NEW p PROVE Until(p[1])' = Until(p[1])
    BY <1>5 DEF Until, Entries, IsEntry
  <2> QED BY <1>5, <1>8, <2>1, <2>2 DEF Given
<1> QED BY <1>1, <1>4, <1>6, <1>9

LEMMA SameGiven ==
    ASSUME UNCHANGED <<out, start, logged>>
    PROVE  Given(start)' <=> Given(start)
<1>1. Until(start)' = Until(start)
  BY DEF Until, Entries, IsEntry
<1>2. ASSUME NEW p PROVE Until(p[1])' = Until(p[1])
  BY DEF Until, Entries, IsEntry
<1> QED BY <1>1, <1>2 DEF Given

(* The loop of the logger: what is behind start has been given.            *)
LogInv ==
    /\ phase \in {"route", "handler", "stream"} => start = 0 /\ logged = <<>>
    /\ phase = "log" => start = 0 \/ start >= Len(out) \/ out[start] = NEWLINE
    /\ phase = "log" \/ (phase = "done" /\ job.kind = "log") => call = "none" /\ Given(start)
    /\ phase = "done" /\ job.kind = "log" => start >= Len(out)

LEMMA NextLogInv ==
    ASSUME SInv, LogInv, [Next]_vars
    PROVE  LogInv'
<1>1. CASE LogLine
  <2>1. phase = "log" /\ phase' = "log" /\ start < Len(out) /\ UNCHANGED <<out, call>>
    BY <1>1 DEF LogLine, formatterVars
  <2>2. Len(out) \in Nat /\ start \in Nat
    BY DEF SInv, FInv, FormatterTypeOK, StreamsInv
  <2>3. Given(start) /\ (start = 0 \/ out[start] = NEWLINE) /\ call = "none"
    BY <2>1, <2>2 DEF LogInv
  <2>4. Given(start)' /\ (start' >= Len(out) \/ out[start'] = NEWLINE)
    BY <1>1, <2>3, LogLineGives
  <2> QED BY <2>1, <2>3, <2>4 DEF LogInv
<1>2. CASE UNCHANGED <<out, call, phase, job, start, logged>>
  <2>1. Given(start)' <=> Given(start)
    BY <1>2, SameGiven
  <2> QED BY <1>2, <2>1 DEF LogInv
<1>3. CASE ReadRoute \/ HelloWorld \/ \E op : Use(op)
  <2>1. UNCHANGED <<start, logged>> /\ {phase, phase'} \subseteq {"route", "handler", "stream"}
    BY <1>3 DEF ReadRoute, HelloWorld, Use, loggerVars
  <2> QED BY <2>1 DEF LogInv
<1>4. CASE Format
  <2>1. call # "none"
    BY <1>4 DEF SInv, FInv, BufferInv, Format, FormatterStep, FormatNext, EndCall
  <2>2. UNCHANGED <<start, logged, job, phase>>
    BY <1>4 DEF Format, loggerVars
  <2>3. phase # "log" /\ ~(phase = "done" /\ job.kind = "log")
    BY <2>1 DEF LogInv
  <2> QED BY <2>2, <2>3 DEF LogInv
<1>5. CASE PageEnds \/ (job.kind = "mute" /\ StreamEnds("done"))
  <2>1. job'.kind # "log" /\ phase' = "done"
    BY <1>5 DEF PageEnds, StreamEnds
  <2> QED BY <2>1 DEF LogInv
<1>6. CASE StreamEnds("log")
  <2>1. /\ phase' = "log" /\ UNCHANGED <<out, call, start, logged>>
        /\ start = 0 /\ logged = <<>> /\ call = "none"
    BY <1>6 DEF StreamEnds, formatterVars, loggerVars, LogInv
  <2>2. Until(0) = {}
    BY DEF Until, Entries
  <2>3. Given(start)
    BY <2>1, <2>2, FS_EmptySet DEF Given
  <2>4. Given(start)'
    BY <2>1, <2>3, SameGiven
  <2> QED BY <2>1, <2>4 DEF LogInv
<1>7. CASE LogReturns
  <2>1. phase = "log" /\ start >= Len(out) /\ phase' = "done" /\ UNCHANGED <<out, call, start, logged>>
    BY <1>7 DEF LogReturns, formatterVars, loggerVars
  <2>2. Given(start)'
    BY <2>1, SameGiven DEF LogInv
  <2> QED BY <2>1, <2>2 DEF LogInv
<1> QED BY <1>1, <1>2, <1>3, <1>4, <1>5, <1>6, <1>7
        DEF Next, WriteMarkup, WriteContent, WriteBytes, WriteGlyphs, WriteEncoded, WritePrintf,
            WriteNumber, WriteNewline, LogStreamEnds, Done, vars, formatterVars, loggerVars

(* The logger gives each line of any message once and in order: for a      *)
(* message of any length, with any bytes and any number of blank lines.    *)
THEOREM LoggerGivesEachLine == Spec => []LogGivesEachLine
<1>1. Init => LogInv
  BY DEF Init, LogInv
<1>2. SInv /\ LogInv /\ [Next]_vars => LogInv'
  BY NextLogInv
<1>3. ASSUME SInv, LogInv PROVE LogGivesEachLine
  <2> SUFFICES ASSUME phase = "done", job.kind = "log"
               PROVE  /\ Len(logged) = Cardinality(Entries)
                      /\ \A p \in Entries :
                            logged[Cardinality(Until(p[1]))] = SubSeq(out, p[1], p[2])
    BY DEF LogGivesEachLine
  <2>1. Given(start) /\ start >= Len(out) /\ start \in Nat /\ Len(out) \in Nat
    BY <1>3 DEF SInv, FInv, FormatterTypeOK, StreamsInv, LogInv
  <2>2. Until(start) = Entries
    BY <2>1 DEF Until, Entries
  <2> QED BY <2>1, <2>2 DEF Given
<1> QED BY <1>1, <1>2, <1>3, StreamsInvariant, PTL DEF Spec
=============================================================================

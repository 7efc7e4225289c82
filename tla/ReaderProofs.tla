----------------------------- MODULE ReaderProofs ------------------------------
(***************************************************************************)
(* What a text is made of, followed from the call that writes it to what   *)
(* becomes of it.  The decoder finds the units of a text again, whatever   *)
(* their bytes are, and gives the sense of each; so a stream holds what    *)
(* each of its uses meant, and the log the lines that were written.        *)
(***************************************************************************)
EXTENDS StreamsProofs

-----------------------------------------------------------------------------
(* More about flattened sequences.                                         *)

LEMMA SequenceIs ==
    ASSUME NEW S, NEW s \in Seq(S)
    PROVE  Len(s) \in Nat /\ DOMAIN s = 1 .. Len(s) /\ s \in [1 .. Len(s) -> S]
OBVIOUS

LEMMA ByteIs == \A b \in Bytes : b \in Nat
BY DEF Bytes

LEMMA BytesAreNumbers == \A text \in Seq(Bytes) : text \in Seq(Nat)
<1>1. ASSUME NEW text \in Seq(Bytes) PROVE text \in Seq(Nat)
  <2>1. \A b \in Bytes : b \in Nat
    BY ByteIs
  <2>2. Len(text) \in Nat /\ text \in [1 .. Len(text) -> Bytes]
    BY SequenceIs, Zenon
  <2>3. text \in [1 .. Len(text) -> Nat]
    BY <2>1, <2>2
  <2> QED BY <2>2, <2>3, IsSequence
<1> QED BY <1>1

(* Two flattened sequences are the same as far as what is flattened is.    *)
LEMMA FlattensAgree ==
    ASSUME NEW S, NEW ss, NEW tt, NEW f, NEW g, Flattens(f, ss, S), Flattens(g, tt, S),
           Len(ss) \in Nat, Len(tt) \in Nat,
           NEW n \in Nat, n <= Len(ss), n <= Len(tt), \A i \in 1 .. n : ss[i] = tt[i]
    PROVE  f[n] = g[n]
<1> DEFINE T == {i \in Nat : i <= n => f[i] = g[i]}
<1>1. 0 \in T
  BY DEF Flattens
<1>2. ASSUME NEW i \in Nat, i \in T PROVE i + 1 \in T
  <2> SUFFICES ASSUME i + 1 <= n PROVE f[i + 1] = g[i + 1]
    OBVIOUS
  <2>1. PICK j : j = i + 1
    OBVIOUS
  <2>2. j \in 1 .. n /\ j \in 1 .. Len(ss) /\ j \in 1 .. Len(tt) /\ j - 1 = i /\ f[i] = g[i]
    BY <1>2, <2>1
  <2>3. f[j] = f[j - 1] \o ss[j] /\ g[j] = g[j - 1] \o tt[j]
    BY <2>2, Zenon DEF Flattens
  <2> QED BY <2>1, <2>2, <2>3, Zenon
<1>3. n \in T
  <2> HIDE DEF T
  <2> QED BY <1>1, <1>2, Induction
<1> QED BY <1>3

LEMMA FlattenOne ==
    ASSUME NEW S, NEW s \in Seq(S)
    PROVE  FlattenSeq(<<s>>) = s /\ FlattenSeq(<<>>) = <<>>
<1>1. <<>> \in Seq(Seq(S)) /\ <<s>> \o <<>> = <<s>> /\ s \o <<>> = s
  OBVIOUS
<1>2. FlattenSeq(<<>>) = <<>>
  BY DEF FlattenSeq
<1>3. FlattenSeq(<<s>> \o <<>>) = s \o FlattenSeq(<<>>)
  BY <1>1, FlattenHead, Zenon
<1> QED BY <1>1, <1>2, <1>3, Zenon

LEMMA FlattenConcat ==
    ASSUME NEW S, NEW ss \in Seq(Seq(S)), NEW tt \in Seq(Seq(S))
    PROVE  FlattenSeq(ss \o tt) = FlattenSeq(ss) \o FlattenSeq(tt)
<1>1. PICK all, m, n : all = ss \o tt /\ m = Len(ss) /\ n = Len(tt)
  OBVIOUS
<1>2. /\ all \in Seq(Seq(S)) /\ m \in Nat /\ n \in Nat /\ Len(all) = m + n
      /\ \A i \in 1 .. m : all[i] = ss[i]
      /\ \A i \in 1 .. n : all[m + i] = tt[i] /\ tt[i] \in Seq(S)
  BY <1>1
<1>3. PICK f : Flattens(f, all, S) /\ FlattenSeq(all) = f[Len(all)]
  BY <1>2, FlattenIs
<1>4. PICK g : Flattens(g, tt, S) /\ FlattenSeq(tt) = g[Len(tt)]
  BY FlattenIs
<1>5. PICK h : Flattens(h, ss, S) /\ FlattenSeq(ss) = h[Len(ss)]
  BY FlattenIs
<1>6. f[m] = h[m]
  <2>1. /\ m \in Nat /\ Len(ss) \in Nat /\ Len(all) \in Nat /\ m <= Len(all) /\ m <= Len(ss)
        /\ \A i \in 1 .. m : all[i] = ss[i]
    BY <1>1, <1>2
  <2>2. Flattens(f, all, S) /\ Flattens(h, ss, S)
    BY <1>3, <1>5
  <2> QED BY <2>1, <2>2, FlattensAgree
<1>7. PICK s : s = h[m]
  OBVIOUS
<1>8. /\ g \in [0 .. n -> Seq(S)] /\ g[0] = <<>>
      /\ \A i \in 1 .. n : g[i] = g[i - 1] \o tt[i]
      /\ \A i \in 1 .. m + n : f[i] = f[i - 1] \o all[i]
  BY <1>1, <1>2, <1>3, <1>4, Zenon DEF Flattens
<1>9. s \in Seq(S)
  <2>1. m \in 0 .. m /\ h \in [0 .. m -> Seq(S)]
    BY <1>1, <1>2, <1>5 DEF Flattens
  <2> QED BY <1>7, <2>1
<1> DEFINE T == {i \in Nat : i <= n => f[m + i] = s \o g[i]}
<1>10. 0 \in T
  <2>1. m + 0 = m /\ s \o <<>> = s
    BY <1>2, <1>9
  <2> QED BY <1>6, <1>7, <1>8, <2>1
<1>11. ASSUME NEW i \in Nat, i \in T PROVE i + 1 \in T
  <2> SUFFICES ASSUME i + 1 <= n PROVE f[m + (i + 1)] = s \o g[i + 1]
    OBVIOUS
  <2>1. PICK j, k : j = i + 1 /\ k = m + (i + 1)
    OBVIOUS
  <2>2. /\ i \in 0 .. n /\ j \in 1 .. n /\ k \in 1 .. m + n /\ j - 1 = i /\ k - 1 = m + i
        /\ k = m + j
    BY <1>2, <2>1
  <2>3. f[m + i] = s \o g[i]
    BY <1>11, <2>2
  <2>4. PICK t, u : t = g[i] /\ u = tt[j]
    OBVIOUS
  <2>5. t \in Seq(S) /\ u \in Seq(S)
    BY <1>2, <1>8, <2>2, <2>4
  <2>6. g[j] = t \o u /\ f[k] = (s \o t) \o u
    <3>1. all[k] = u
      BY <1>2, <2>2, <2>4
    <3>2. g[j] = g[j - 1] \o tt[j] /\ f[k] = f[k - 1] \o all[k]
      BY <1>8, <2>2
    <3> QED BY <2>2, <2>3, <2>4, <3>1, <3>2
  <2>7. (s \o t) \o u = s \o (t \o u)
    BY <1>9, <2>5, Associative
  <2> QED BY <2>1, <2>6, <2>7, Zenon
<1>12. n \in T
  <2> HIDE DEF T
  <2> QED BY <1>2, <1>10, <1>11, Induction
<1>13. f[m + n] = s \o g[n]
  <2>1. n <= n
    BY <1>2
  <2> QED BY <1>12, <2>1
<1> QED BY <1>1, <1>2, <1>3, <1>4, <1>5, <1>7, <1>13, Zenon

(* A sequence that is flattened in blocks.                                 *)
Blocks(at, n, size) ==
    /\ at \in [0 .. n -> Nat] /\ at[0] = 0 /\ at[n] = size
    /\ \A i \in 1 .. n : at[i - 1] <= at[i] /\ at[i] <= size

LEMMA FlattenBlocks ==
    ASSUME NEW S, NEW pp \in Seq(Seq(S)), NEW ww \in Seq(Seq(S)), NEW at,
           Blocks(at, Len(ww), Len(pp)),
           \A i \in 1 .. Len(ww) : FlattenSeq(SubSeq(pp, at[i - 1] + 1, at[i])) = ww[i]
    PROVE  FlattenSeq(pp) = FlattenSeq(ww)
<1>1. PICK n, size : n = Len(ww) /\ size = Len(pp)
  OBVIOUS
<1>2. /\ n \in Nat /\ size \in Nat /\ at \in [0 .. n -> Nat] /\ at[0] = 0 /\ at[n] = size
      /\ \A i \in 1 .. n : at[i - 1] <= at[i] /\ at[i] <= size
  BY <1>1 DEF Blocks
<1>3. PICK g : Flattens(g, ww, S) /\ FlattenSeq(ww) = g[n]
  BY <1>1, FlattenIs
<1> DEFINE T == {i \in Nat : i <= n => FlattenSeq(SubSeq(pp, 1, at[i])) = g[i]}
<1>4. 0 \in T
  <2>1. SubSeq(pp, 1, 0) = <<>> /\ FlattenSeq(<<>>) = <<>>
    BY DEF FlattenSeq
  <2> QED BY <1>2, <1>3, <2>1 DEF Flattens
<1>5. ASSUME NEW i \in Nat, i \in T PROVE i + 1 \in T
  <2> SUFFICES ASSUME i + 1 <= n PROVE FlattenSeq(SubSeq(pp, 1, at[i + 1])) = g[i + 1]
    OBVIOUS
  <2>1. PICK j, a, b : j = i + 1 /\ a = at[i] /\ b = at[i + 1]
    OBVIOUS
  <2>2. /\ j \in 1 .. n /\ j - 1 = i /\ i \in 0 .. n /\ j \in 0 .. n
        /\ a \in Nat /\ b \in Nat /\ a <= b /\ b <= size
    BY <1>2, <2>1
  <2>3. PICK s, t : s = SubSeq(pp, 1, a) /\ t = SubSeq(pp, a + 1, b)
    OBVIOUS
  <2>4. s \in Seq(Seq(S)) /\ t \in Seq(Seq(S)) /\ SubSeq(pp, 1, b) = s \o t
    <3> PICK R : R = Seq(S)
      OBVIOUS
    <3>1. pp \in Seq(R)
      OBVIOUS
    <3>2. SubSeq(pp, 1, a) \in Seq(R) /\ SubSeq(pp, a + 1, b) \in Seq(R)
      <4>1. \A k \in 1 .. size : pp[k] \in R
        BY <1>1, <3>1
      <4>2. \A k \in 1 .. a : pp[k] \in R
        BY <1>2, <2>2, <4>1
      <4>3. \A k \in a + 1 .. b : pp[k] \in R
        BY <1>2, <2>2, <4>1
      <4>4. 1 \in Int /\ a \in Int /\ a + 1 \in Int /\ b \in Int
        BY <2>2
      <4> QED BY <4>2, <4>3, <4>4, SubSeqProperties
    <3>3. SubSeq(pp, 1, b) = SubSeq(pp, 1, a) \o SubSeq(pp, a + 1, b)
      <4>1. 1 \in 1 .. Len(pp) + 1 /\ a \in 1 - 1 .. Len(pp) /\ b \in a .. Len(pp)
        BY <1>1, <1>2, <2>2
      <4> QED BY <3>1, <4>1, ConcatAdjacentSubSeq
    <3> QED BY <2>3, <3>1, <3>2, <3>3
  <2>5. FlattenSeq(s \o t) = FlattenSeq(s) \o FlattenSeq(t)
    BY <2>4, FlattenConcat
  <2>6. FlattenSeq(s) = g[i]
    BY <1>5, <2>1, <2>2, <2>3
  <2>7. FlattenSeq(t) = ww[j]
    BY <1>1, <2>1, <2>2, <2>3
  <2>8. g[j] = g[j - 1] \o ww[j]
    BY <1>1, <1>3, <2>2, Zenon DEF Flattens
  <2> QED BY <2>1, <2>2, <2>4, <2>5, <2>6, <2>7, <2>8, Zenon
<1>6. n \in T
  <2> HIDE DEF T
  <2> QED BY <1>2, <1>4, <1>5, Induction
<1>7. SubSeq(pp, 1, size) = pp
  BY <1>1
<1>8. FlattenSeq(SubSeq(pp, 1, at[n])) = g[n]
  <2>1. n <= n
    BY <1>2
  <2> QED BY <1>6, <2>1
<1> QED BY <1>2, <1>3, <1>7, <1>8, Zenon

(* Of a sequence in which only the last is not empty, the last is left.    *)
LEMMA FlattenSparse ==
    ASSUME NEW S, NEW ss \in Seq(Seq(S)), ss # <<>>,
           \A i \in 1 .. Len(ss) - 1 : ss[i] = <<>>
    PROVE  FlattenSeq(ss) = ss[Len(ss)]
<1>1. PICK n : n = Len(ss)
  OBVIOUS
<1>2. n \in Nat /\ n > 0 /\ ss[n] \in Seq(S) /\ \A i \in 1 .. n - 1 : ss[i] = <<>>
  BY <1>1
<1>3. PICK f : Flattens(f, ss, S) /\ FlattenSeq(ss) = f[n]
  BY <1>1, FlattenIs
<1> DEFINE T == {i \in Nat : i < n => f[i] = <<>>}
<1>4. 0 \in T
  BY <1>3 DEF Flattens
<1>5. ASSUME NEW i \in Nat, i \in T PROVE i + 1 \in T
  <2> SUFFICES ASSUME i + 1 < n PROVE f[i + 1] = <<>>
    OBVIOUS
  <2>1. PICK j : j = i + 1
    OBVIOUS
  <2>2. j \in 1 .. Len(ss) /\ j - 1 = i /\ ss[j] = <<>> /\ f[i] = <<>>
    BY <1>1, <1>2, <1>5, <2>1
  <2>3. f[j] = f[j - 1] \o ss[j]
    BY <1>3, <2>2, Zenon DEF Flattens
  <2>4. <<>> \o <<>> = <<>>
    OBVIOUS
  <2> QED BY <2>1, <2>2, <2>3, <2>4, Zenon
<1>6. f[n - 1] = <<>>
  <2>1. n - 1 \in Nat /\ n - 1 < n
    BY <1>2
  <2>2. n - 1 \in T
    <3> HIDE DEF T
    <3> QED BY <1>4, <1>5, <2>1, Induction
  <2> QED BY <2>1, <2>2
<1>7. f[n] = f[n - 1] \o ss[n]
  <2>1. n \in 1 .. Len(ss)
    BY <1>1, <1>2
  <2> QED BY <1>3, <2>1, Zenon DEF Flattens
<1>8. <<>> \o ss[n] = ss[n]
  BY <1>2
<1> QED BY <1>1, <1>3, <1>6, <1>7, <1>8, Zenon

-----------------------------------------------------------------------------
(* What a call makes of a text, from what the decoder makes of it.         *)

(* What the decoder's state is written as, after each byte of a text.      *)
PieceAt(format, state, c) ==
    IF Glyph(state) = 0 THEN <<>> ELSE Piece(format, Glyph(state), c)
Pieces(format, d, text) == [i \in 1 .. Len(text) |-> PieceAt(format, d[i], text[i])]

LEMMA PiecesType ==
    ASSUME NEW format \in Formats, NEW text \in Seq(Bytes), NEW d, Decodes(d, text)
    PROVE  Pieces(format, d, text) \in Seq(Seq(Bytes)) /\ Len(Pieces(format, d, text)) = Len(text)
<1>1. PICK n, pp : n = Len(text) /\ pp = Pieces(format, d, text)
  OBVIOUS
<1>2. n \in Nat
  BY <1>1
<1>3. ASSUME NEW i \in 1 .. n PROVE PieceAt(format, d[i], text[i]) \in Seq(Bytes)
  <2>1. d[i] \in States
    BY <1>1, <1>2 DEF Decodes
  <2>2. Glyph(d[i]) \in Nat /\ text[i] \in Bytes /\ text[i] \in Nat
    BY <1>1, <2>1, GlyphType, ByteIs
  <2>3. Piece(format, Glyph(d[i]), text[i]) \in Seq(Bytes)
    BY <2>2, PieceType
  <2> QED BY <2>3, Empty, Zenon DEF PieceAt
<1>4. pp \in [1 .. n -> Seq(Bytes)]
  BY <1>1, <1>3, Zenon DEF Pieces
<1>5. pp \in Seq(Seq(Bytes)) /\ Len(pp) = n
  <2>1. pp \in Seq(Seq(Bytes))
    BY <1>2, <1>4, IsSequence
  <2> QED BY <1>2, <1>4, <2>1
<1> QED BY <1>1, <1>5, Zenon

LEMMA ConvertedPieces ==
    ASSUME NEW format \in Formats, NEW text \in Seq(Bytes), NEW d, Decodes(d, text)
    PROVE  Converted(format, "bytes", ConvertState, text) = FlattenSeq(Pieces(format, d, text))
<1>1. PICK n, pp : n = Len(text) /\ pp = Pieces(format, d, text)
  OBVIOUS
<1>2. n \in Nat /\ pp \in Seq(Seq(Bytes)) /\ Len(pp) = n
  BY <1>1, PiecesType
<1>3. PICK g : Flattens(g, pp, Bytes) /\ FlattenSeq(pp) = g[n]
  BY <1>2, FlattenIs
<1>4. Arguments(format, "bytes", ConvertState, text)
  <2>1. ConvertState \in States
    BY DEF ConvertState, Decoding, States
  <2>2. text \in Seq(Nat)
    BY BytesAreNumbers, Zenon
  <2> QED BY <2>1, <2>2 DEF Arguments
<1>5. PICK f : /\ Converts(f, format, "bytes", ConvertState, text)
               /\ Converted(format, "bytes", ConvertState, text) = f[n].text
  BY <1>1, <1>4, ConvertedIs
<1> DEFINE T == {i \in Nat : i <= n => f[i] = Conversion(d[i], g[i])}
<1>6. 0 \in T
  <2>1. f[0] = Conversion(ConvertState, <<>>) /\ d[0] = ConvertState /\ g[0] = <<>>
    BY <1>3, <1>5, Zenon DEF Converts, Decodes, Flattens
  <2> QED BY <2>1
<1>7. ASSUME NEW i \in Nat, i \in T PROVE i + 1 \in T
  <2> SUFFICES ASSUME i + 1 <= n PROVE f[i + 1] = Conversion(d[i + 1], g[i + 1])
    OBVIOUS
  <2>1. PICK j, c, old : j = i + 1 /\ c = text[j] /\ old = f[i]
    OBVIOUS
  <2>2. j \in 1 .. n /\ j - 1 = i /\ f[i] = Conversion(d[i], g[i])
    BY <1>2, <1>7, <2>1
  <2>3. old.state = d[i] /\ old.text = g[i]
    BY <2>1, <2>2, ConversionIs
  <2>4. f[j] = NextConversion(format, "bytes", c, old)
    BY <1>1, <1>5, <2>1, <2>2, Zenon DEF Converts
  <2>5. d[j] = Utf8To32(c, d[i])
    BY <1>1, <2>1, <2>2, Zenon DEF Decodes
  <2>6. g[j] = g[i] \o PieceAt(format, d[j], c)
    <3>1. g[j] = g[i] \o pp[j]
      BY <1>2, <1>3, <2>2, Zenon DEF Flattens
    <3>2. pp[j] = PieceAt(format, d[j], c)
      BY <1>1, <2>1, <2>2, Zenon DEF Pieces
    <3> QED BY <3>1, <3>2, Zenon
  <2>7. NextState("bytes", c, d[i]) = d[j]
    BY <2>5, Zenon DEF NextState
  <2>8. NextPiece(format, "bytes", c, d[i]) = PieceAt(format, d[j], c)
    BY <2>7 DEF NextPiece, PieceAt
  <2> QED BY <2>1, <2>3, <2>4, <2>6, <2>7, <2>8, Zenon DEF NextConversion
<1>8. n \in T
  <2> HIDE DEF T
  <2> QED BY <1>2, <1>6, <1>7, Induction
<1>9. f[n] = Conversion(d[n], g[n])
  <2>1. n <= n
    BY <1>2
  <2> QED BY <1>8, <2>1
<1>10. f[n].text = g[n]
  BY <1>9, ConversionIs
<1> QED BY <1>1, <1>3, <1>5, <1>10, Zenon

LEMMA EncodesType ==
    ASSUME NEW glyphs \in Seq(Nat)
    PROVE  /\ [i \in 1 .. Len(glyphs) |-> Utf32To8(glyphs[i])] \in Seq(Seq(Bytes))
           /\ Len([i \in 1 .. Len(glyphs) |-> Utf32To8(glyphs[i])]) = Len(glyphs)
<1>1. PICK n, pp : n = Len(glyphs) /\ pp = [i \in 1 .. n |-> Utf32To8(glyphs[i])]
  OBVIOUS
<1>2. n \in Nat /\ \A i \in 1 .. n : glyphs[i] \in Nat
  BY <1>1
<1>3. \A i \in 1 .. n : Utf32To8(glyphs[i]) \in Seq(Bytes)
  BY <1>2, EncodeType
<1>4. pp \in [1 .. n -> Seq(Bytes)]
  BY <1>1, <1>3, Zenon
<1>5. pp \in Seq(Seq(Bytes)) /\ Len(pp) = n
  <2>1. pp \in Seq(Seq(Bytes))
    BY <1>2, <1>4, IsSequence
  <2> QED BY <1>2, <1>4, <2>1
<1> QED BY <1>1, <1>5, Zenon

(* Code points in a log are encoded.                                       *)
LEMMA GlyphsConverted ==
    ASSUME NEW glyphs \in Seq(Nat), NEW from \in States
    PROVE  Converted("UTF8", "glyphs", from, glyphs) = Utf8Encode(glyphs)
<1>1. PICK n, pp : n = Len(glyphs) /\ pp = [i \in 1 .. n |-> Utf32To8(glyphs[i])]
  OBVIOUS
<1>2. n \in Nat /\ pp \in Seq(Seq(Bytes)) /\ Len(pp) = n
  BY <1>1, EncodesType
<1>3. PICK g : Flattens(g, pp, Bytes) /\ FlattenSeq(pp) = g[n]
  BY <1>2, FlattenIs
<1>4. Arguments("UTF8", "glyphs", from, glyphs)
  BY DEF Arguments, Formats
<1>5. PICK f : /\ Converts(f, "UTF8", "glyphs", from, glyphs)
               /\ Converted("UTF8", "glyphs", from, glyphs) = f[n].text
  BY <1>1, <1>4, ConvertedIs
<1> DEFINE T == {i \in Nat : i <= n => f[i] = Conversion(from, g[i])}
<1>6. 0 \in T
  <2>1. f[0] = Conversion(from, <<>>) /\ g[0] = <<>>
    BY <1>3, <1>5, Zenon DEF Converts, Flattens
  <2> QED BY <2>1
<1>7. ASSUME NEW i \in Nat, i \in T PROVE i + 1 \in T
  <2> SUFFICES ASSUME i + 1 <= n PROVE f[i + 1] = Conversion(from, g[i + 1])
    OBVIOUS
  <2>1. PICK j, c, old : j = i + 1 /\ c = glyphs[j] /\ old = f[i]
    OBVIOUS
  <2>2. j \in 1 .. n /\ j - 1 = i /\ f[i] = Conversion(from, g[i])
    BY <1>2, <1>7, <2>1
  <2>3. old.state = from /\ old.text = g[i]
    BY <2>1, <2>2, ConversionIs
  <2>4. f[j] = NextConversion("UTF8", "glyphs", c, old)
    BY <1>1, <1>5, <2>1, <2>2, Zenon DEF Converts
  <2>5. g[j] = g[i] \o Utf32To8(c)
    <3>1. g[j] = g[i] \o pp[j]
      BY <1>2, <1>3, <2>2, Zenon DEF Flattens
    <3>2. pp[j] = Utf32To8(c)
      BY <1>1, <2>1, <2>2, Zenon
    <3> QED BY <3>1, <3>2, Zenon
  <2>6. NextState("glyphs", c, from) = from
    BY DEF NextState
  <2>7. NextPiece("UTF8", "glyphs", c, from) = Utf32To8(c)
    BY DEF NextPiece, Piece
  <2> QED BY <2>1, <2>3, <2>4, <2>5, <2>6, <2>7, Zenon DEF NextConversion
<1>8. n \in T
  <2> HIDE DEF T
  <2> QED BY <1>2, <1>6, <1>7, Induction
<1>9. f[n] = Conversion(from, g[n])
  <2>1. n <= n
    BY <1>2
  <2> QED BY <1>8, <2>1
<1>10. f[n].text = g[n]
  BY <1>9, ConversionIs
<1> QED BY <1>1, <1>3, <1>5, <1>10, Zenon DEF Utf8Encode

(* A text is encoded piece by piece.                                       *)
LEMMA EncodeConcat ==
    ASSUME NEW s \in Seq(Nat), NEW t \in Seq(Nat)
    PROVE  Utf8Encode(s \o t) = Utf8Encode(s) \o Utf8Encode(t)
<1>1. PICK all, a, b, c : /\ all = s \o t
                          /\ a = [i \in 1 .. Len(s) |-> Utf32To8(s[i])]
                          /\ b = [i \in 1 .. Len(t) |-> Utf32To8(t[i])]
                          /\ c = [i \in 1 .. Len(all) |-> Utf32To8(all[i])]
  OBVIOUS
<1>2. all \in Seq(Nat) /\ Len(all) = Len(s) + Len(t) /\ Len(s) \in Nat /\ Len(t) \in Nat
      /\ (\A i \in 1 .. Len(s) : all[i] = s[i])
      /\ (\A i \in 1 .. Len(t) : all[Len(s) + i] = t[i])
  BY <1>1
<1>3. /\ a \in Seq(Seq(Bytes)) /\ Len(a) = Len(s)
      /\ b \in Seq(Seq(Bytes)) /\ Len(b) = Len(t)
      /\ c \in Seq(Seq(Bytes)) /\ Len(c) = Len(all)
  BY <1>1, <1>2, EncodesType
<1>4. c = a \o b
  <2>1. PICK R : R = Seq(Bytes)
    OBVIOUS
  <2>2. /\ a \in Seq(R) /\ b \in Seq(R) /\ c \in Seq(R) /\ a \o b \in Seq(R)
        /\ Len(a \o b) = Len(a) + Len(b)
        /\ \A i \in 1 .. Len(a) : (a \o b)[i] = a[i]
        /\ \A i \in 1 .. Len(b) : (a \o b)[Len(a) + i] = b[i]
    <3>1. a \in Seq(R) /\ b \in Seq(R) /\ c \in Seq(R)
      BY <1>3, <2>1
    <3> QED BY <3>1, ConcatAt, Concat
  <2>3. ASSUME NEW i \in 1 .. Len(c) PROVE c[i] = (a \o b)[i]
    <3>1. c[i] = Utf32To8(all[i])
      BY <1>1, <1>3, Zenon
    <3>2. CASE i \in 1 .. Len(s)
      <4>1. a[i] = Utf32To8(s[i]) /\ all[i] = s[i]
        BY <1>1, <1>2, <3>2, Zenon
      <4> QED BY <1>3, <2>2, <3>1, <3>2, <4>1
    <3>3. CASE i \notin 1 .. Len(s)
      <4>1. PICK k : k = i - Len(s)
        OBVIOUS
      <4>2. k \in 1 .. Len(t) /\ i = Len(s) + k
        BY <1>2, <1>3, <3>3, <4>1
      <4>3. b[k] = Utf32To8(t[k]) /\ all[i] = t[k]
        BY <1>1, <1>2, <4>2, Zenon
      <4> QED BY <1>3, <2>2, <3>1, <4>2, <4>3
    <3> QED BY <3>2, <3>3
  <2>4. Len(c) = Len(a \o b)
    BY <1>2, <1>3, <2>2
  <2> QED BY <2>2, <2>3, <2>4, SeqEqual
<1>5. FlattenSeq(a \o b) = FlattenSeq(a) \o FlattenSeq(b)
  BY <1>3, FlattenConcat
<1> QED BY <1>1, <1>4, <1>5, Zenon DEF Utf8Encode

LEMMA EncodeOne ==
    /\ Utf8Encode(<<>>) = <<>>
    /\ \A glyph \in Nat : Utf8Encode(<<glyph>>) = Utf32To8(glyph)
<1>1. Utf8Encode(<<>>) = <<>>
  <2>1. [i \in 1 .. Len(<<>>) |-> Utf32To8(<<>>[i])] = <<>>
    OBVIOUS
  <2>2. FlattenSeq(<<>>) = <<>>
    BY Empty, FlattenOne
  <2> QED BY <2>1, <2>2, Zenon DEF Utf8Encode
<1>2. ASSUME NEW glyph \in Nat PROVE Utf8Encode(<<glyph>>) = Utf32To8(glyph)
  <2>1. PICK s, b : s = <<glyph>> /\ b = Utf32To8(glyph)
    OBVIOUS
  <2>2. [i \in 1 .. Len(s) |-> Utf32To8(s[i])] = <<b>>
    <3>1. Len(s) = 1 /\ s[1] = glyph
      BY <2>1
    <3>2. \A i \in 1 .. Len(s) : Utf32To8(s[i]) = b
      BY <2>1, <3>1
    <3> QED BY <3>1, <3>2
  <2>3. b \in Seq(Bytes)
    BY <2>1, EncodeType
  <2>4. FlattenSeq(<<b>>) = b
    BY <2>3, FlattenOne
  <2> QED BY <2>1, <2>2, <2>4, Zenon DEF Utf8Encode
<1> QED BY <1>1, <1>2

LEMMA EncodeFlatten ==
    ASSUME NEW ss \in Seq(Seq(Nat)), NEW tt \in Seq(Seq(Bytes)), Len(tt) = Len(ss),
           \A i \in 1 .. Len(ss) : tt[i] = Utf8Encode(ss[i])
    PROVE  Utf8Encode(FlattenSeq(ss)) = FlattenSeq(tt)
<1>1. PICK n : n = Len(ss) /\ n = Len(tt) /\ n \in Nat
  OBVIOUS
<1>2. PICK f : Flattens(f, ss, Nat) /\ FlattenSeq(ss) = f[n]
  BY <1>1, FlattenIs
<1>3. PICK g : Flattens(g, tt, Bytes) /\ FlattenSeq(tt) = g[n]
  BY <1>1, FlattenIs
<1> DEFINE T == {i \in Nat : i <= n => Utf8Encode(f[i]) = g[i]}
<1>4. 0 \in T
  <2>1. f[0] = <<>> /\ g[0] = <<>>
    BY <1>2, <1>3 DEF Flattens
  <2> QED BY <2>1, EncodeOne
<1>5. ASSUME NEW i \in Nat, i \in T PROVE i + 1 \in T
  <2> SUFFICES ASSUME i + 1 <= n PROVE Utf8Encode(f[i + 1]) = g[i + 1]
    OBVIOUS
  <2>1. PICK j, s, t : j = i + 1 /\ s = f[i] /\ t = ss[j]
    OBVIOUS
  <2>2. j \in 1 .. n /\ j - 1 = i /\ i \in 0 .. n /\ Utf8Encode(s) = g[i]
    <3>1. i <= n
      BY <1>1
    <3>2. Utf8Encode(s) = g[i]
      BY <1>5, <2>1, <3>1
    <3> QED BY <1>1, <2>1, <3>2
  <2>3. f[j] = s \o t /\ g[j] = g[i] \o tt[j] /\ tt[j] = Utf8Encode(t)
    BY <1>1, <1>2, <1>3, <2>1, <2>2, Zenon DEF Flattens
  <2>4. s \in Seq(Nat)
    BY <1>1, <1>2, <2>1, <2>2, Zenon DEF Flattens
  <2>5. t \in Seq(Nat)
    BY <1>1, <2>1, <2>2
  <2>6. Utf8Encode(s \o t) = Utf8Encode(s) \o Utf8Encode(t)
    BY <2>4, <2>5, EncodeConcat
  <2> QED BY <2>1, <2>2, <2>3, <2>6, Zenon
<1>6. n \in T
  <2> HIDE DEF T
  <2> QED BY <1>1, <1>4, <1>5, Induction
<1>7. Utf8Encode(f[n]) = g[n]
  <2>1. n <= n
    BY <1>1
  <2> QED BY <1>6, <2>1
<1> QED BY <1>2, <1>3, <1>7

(* Bytes in a log are decoded and encoded again.                           *)
LEMMA ConvertedIsEncoded ==
    ASSUME NEW text \in Seq(Bytes)
    PROVE  Converted("UTF8", "bytes", ConvertState, text) = Utf8Encode(Utf8Decode(text))
<1>1. PICK d : /\ Decodes(d, text)
               /\ Utf8Decode(text) = FlattenSeq([i \in DOMAIN text |-> Reading(d[i])])
  BY Utf8DecodeIs
<1>2. PICK n, ss, tt : /\ n = Len(text) /\ ss = [i \in 1 .. n |-> Reading(d[i])]
                       /\ tt = Pieces("UTF8", d, text)
  OBVIOUS
<1>3. "UTF8" \in Formats /\ n \in Nat /\ DOMAIN text = 1 .. n
  BY <1>2 DEF Formats
<1>4. tt \in Seq(Seq(Bytes)) /\ Len(tt) = n
  BY <1>1, <1>2, <1>3, PiecesType
<1>5. ASSUME NEW i \in 1 .. n
      PROVE  Reading(d[i]) \in Seq(Nat) /\ tt[i] = Utf8Encode(Reading(d[i]))
  <2>1. d[i] \in States
    BY <1>1, <1>2, <1>3 DEF Decodes
  <2>2. PICK glyph \in Nat : glyph = Glyph(d[i])
    BY <2>1, GlyphType
  <2>3. tt[i] = IF glyph = 0 THEN <<>> ELSE Utf32To8(glyph)
    <3>1. tt[i] = PieceAt("UTF8", d[i], text[i])
      BY <1>2, Zenon DEF Pieces
    <3> QED BY <2>2, <3>1 DEF PieceAt, Piece
  <2>4. Reading(d[i]) = IF glyph = 0 THEN <<>> ELSE <<glyph>>
    BY <2>2 DEF Reading
  <2>5. <<>> \in Seq(Nat) /\ <<glyph>> \in Seq(Nat)
    OBVIOUS
  <2> QED BY <2>3, <2>4, <2>5, EncodeOne, Zenon
<1>6. ss \in Seq(Seq(Nat)) /\ Len(ss) = n
  <2>1. ss \in [1 .. n -> Seq(Nat)]
    BY <1>2, <1>5, Zenon
  <2>2. ss \in Seq(Seq(Nat))
    BY <1>3, <2>1, IsSequence
  <2> QED BY <1>3, <2>1, <2>2
<1>7. \A i \in 1 .. Len(ss) : tt[i] = Utf8Encode(ss[i])
  BY <1>2, <1>5, <1>6, Zenon
<1>8. Utf8Encode(FlattenSeq(ss)) = FlattenSeq(tt)
  BY <1>4, <1>6, <1>7, EncodeFlatten
<1>9. Converted("UTF8", "bytes", ConvertState, text) = FlattenSeq(tt)
  BY <1>1, <1>2, <1>3, ConvertedPieces
<1> QED BY <1>1, <1>2, <1>3, <1>8, <1>9, Zenon
-----------------------------------------------------------------------------
(* The units of a text in the decoder.                                     *)

LEMMA LeadByte ==
    ASSUME NEW b \in Bytes, NEW s \in States, s.remaining = 0
    PROVE  LET t == Utf8To32(b, s)
           IN  /\ t \in States /\ t.remaining = SequenceLength(b) - 1
               /\ SequenceLength(b) = 1 => Glyph(t) = IF b < 128 THEN b ELSE Replacement
               /\ SequenceLength(b) = 2 => t.valid /\ t.glyph = b - 192
               /\ SequenceLength(b) = 3 => t.valid /\ t.glyph = b - 224
               /\ SequenceLength(b) = 4 => t.valid /\ t.glyph = b - 240
<1>1. PICK t, g, c2, c3, c4 : /\ t = Utf8To32(b, s) /\ g = s.glyph
                              /\ c2 = b % 32 /\ c3 = b % 16 /\ c4 = b % 8
  OBVIOUS
<1>2. t \in States
  BY <1>1, DecodeType
<1>3. b \in 0 .. 255 /\ ~(s.remaining > 0)
  BY DEF Bytes
<1>0. t = IF b < 128 THEN Decoding(b, 0, TRUE)
          ELSE IF b < 192 THEN Decoding(g, 0, FALSE)
          ELSE IF b < 224 THEN Decoding(c2, 1, TRUE)
          ELSE IF b < 240 THEN Decoding(c3, 2, TRUE)
          ELSE IF b < 248 THEN Decoding(c4, 3, TRUE)
          ELSE Decoding(g, 0, FALSE)
  BY <1>1, <1>3, Zenon DEF Utf8To32
<1>4. CASE b < 128
  <2>1. t = Decoding(b, 0, TRUE) /\ SequenceLength(b) = 1
    <3>1. SequenceLength(b) = 1
      BY <1>3, <1>4 DEF SequenceLength
    <3> QED BY <1>1, <1>3, <1>4, <3>1, Zenon DEF Utf8To32
  <2> QED BY <1>1, <1>2, <1>4, <2>1 DEF Decoding, Glyph
<1>5. CASE (128 <= b /\ b < 192) \/ b >= 248
  <2>1. t = Decoding(g, 0, FALSE) /\ SequenceLength(b) = 1 /\ ~(b < 128)
    <3>1. SequenceLength(b) = 1
      BY <1>3, <1>5 DEF SequenceLength
    <3>2. CASE b < 192
      <4>1. ~(b < 128)
        BY <1>3, <1>5, <3>2
      <4> QED BY <1>0, <3>1, <3>2, <4>1
    <3>3. CASE ~(b < 192)
      <4>1. ~(b < 128) /\ ~(b < 224) /\ ~(b < 240) /\ ~(b < 248)
        BY <1>3, <1>5, <3>3
      <4> QED BY <1>0, <3>1, <3>3, <4>1
    <3> QED BY <3>2, <3>3
  <2> QED BY <1>1, <1>2, <2>1 DEF Decoding, Glyph
<1>6. CASE 192 <= b /\ b < 224
  <2>1. t = Decoding(c2, 1, TRUE) /\ SequenceLength(b) = 2
    <3>1. SequenceLength(b) = 2
      BY <1>3, <1>6 DEF SequenceLength
    <3>2. ~(b < 128) /\ ~(b < 192) /\ b < 224
      BY <1>3, <1>6
    <3> QED BY <1>0, <3>1, <3>2
  <2>2. c2 = b - 192
    BY <1>1, <1>3, <1>6
  <2> QED BY <1>1, <1>2, <2>1, <2>2 DEF Decoding
<1>7. CASE 224 <= b /\ b < 240
  <2>1. t = Decoding(c3, 2, TRUE) /\ SequenceLength(b) = 3
    <3>1. SequenceLength(b) = 3
      BY <1>3, <1>7 DEF SequenceLength
    <3>2. ~(b < 128) /\ ~(b < 192) /\ ~(b < 224) /\ b < 240
      BY <1>3, <1>7
    <3> QED BY <1>0, <3>1, <3>2
  <2>2. c3 = b - 224
    BY <1>1, <1>3, <1>7
  <2> QED BY <1>1, <1>2, <2>1, <2>2 DEF Decoding
<1>8. CASE 240 <= b /\ b < 248
  <2>1. t = Decoding(c4, 3, TRUE) /\ SequenceLength(b) = 4
    <3>1. SequenceLength(b) = 4
      BY <1>3, <1>8 DEF SequenceLength
    <3>2. ~(b < 128) /\ ~(b < 192) /\ ~(b < 224) /\ ~(b < 240) /\ b < 248
      BY <1>3, <1>8
    <3> QED BY <1>0, <3>1, <3>2
  <2>2. c4 = b - 240
    BY <1>1, <1>3, <1>8
  <2> QED BY <1>1, <1>2, <2>1, <2>2 DEF Decoding
<1> QED BY <1>3, <1>4, <1>5, <1>6, <1>7, <1>8

LEMMA NextByte ==
    ASSUME NEW b \in Bytes, NEW s \in States, s.remaining > 0
    PROVE  LET t == Utf8To32(b, s)
           IN  /\ t \in States /\ t.remaining = s.remaining - 1
               /\ s.valid /\ Continues(b) => t.valid /\ t.glyph = 64 * s.glyph + (b - 128)
               /\ ~s.valid \/ ~Continues(b) => ~t.valid
<1>1. PICK t : t = Utf8To32(b, s)
  OBVIOUS
<1>2. t \in States
  BY <1>1, DecodeType
<1>3. b \in 0 .. 255 /\ s.glyph \in Nat /\ s.valid \in BOOLEAN
  BY DEF Bytes, States
<1>4. CASE s.valid /\ Continues(b)
  <2>1. t = Decoding(64 * s.glyph + (b % 64), s.remaining - 1, TRUE)
    <3>1. s.valid /\ b >= 128 /\ b < 192
      BY <1>3, <1>4 DEF Continues
    <3> QED BY <1>1, <3>1, Zenon DEF Utf8To32
  <2>2. b % 64 = b - 128
    BY <1>3, <1>4 DEF Continues
  <2> QED BY <1>1, <1>2, <1>4, <2>1, <2>2 DEF Decoding
<1>5. CASE ~(s.valid /\ Continues(b))
  <2>1. t = Decoding(s.glyph, s.remaining - 1, FALSE)
    <3>1. ~(s.valid /\ b >= 128 /\ b < 192)
      BY <1>3, <1>5 DEF Continues
    <3> QED BY <1>1, <3>1, Zenon DEF Utf8To32
  <2> QED BY <1>1, <1>2, <1>3, <1>5, <2>1 DEF Decoding
<1> QED BY <1>4, <1>5

(* The text has a unit behind a place where the decoder is between two.    *)
UnitAt(text, d, place, b) ==
    /\ text \in Seq(Bytes) /\ Decodes(d, text)
    /\ b \in Seq(Bytes) /\ b # <<>>
    /\ place \in Nat /\ place + Len(b) <= Len(text) /\ d[place].remaining = 0
    /\ \A k \in 1 .. Len(b) : text[place + k] = b[k]

LEMMA UnitStates ==
    ASSUME NEW text, NEW d, NEW place, NEW b, UnitAt(text, d, place, b)
    PROVE  /\ \A k \in 1 .. Len(b) : b[k] \in Bytes
           /\ \A k \in 1 .. Len(b) : d[place + k] = Utf8To32(b[k], d[place + (k - 1)])
           /\ \A k \in 0 .. Len(b) : d[place + k] \in States
<1>1. PICK m, n : m = Len(b) /\ n = Len(text)
  OBVIOUS
<1>2. /\ text \in Seq(Bytes) /\ Decodes(d, text) /\ b \in Seq(Bytes) /\ place \in Nat
      /\ place + m <= n /\ m \in Nat /\ n \in Nat
      /\ \A k \in 1 .. m : text[place + k] = b[k]
  <2>1. text \in Seq(Bytes) /\ b \in Seq(Bytes)
    BY DEF UnitAt
  <2>2. m \in Nat /\ n \in Nat
    BY <1>1, <2>1
  <2> QED BY <1>1, <2>1, <2>2 DEF UnitAt
<1>3. \A k \in 1 .. m : b[k] \in Bytes
  BY <1>1, <1>2, Element
<1>4. ASSUME NEW k \in 1 .. m PROVE d[place + k] = Utf8To32(b[k], d[place + (k - 1)])
  <2>1. PICK i : i = place + k
    OBVIOUS
  <2>2. i \in 1 .. n /\ i - 1 = place + (k - 1) /\ text[i] = b[k]
    BY <1>2, <2>1
  <2> QED BY <1>1, <1>2, <2>1, <2>2, Zenon DEF Decodes
<1>5. ASSUME NEW k \in 0 .. m PROVE d[place + k] \in States
  <2>1. place + k \in 0 .. n
    BY <1>2
  <2> QED BY <1>1, <1>2, <2>1, Zenon DEF Decodes
<1> QED BY <1>1, <1>3, <1>4, <1>5

(* Each byte but the last is awaited by the ones before it.                *)
LEMMA UnitRemains ==
    ASSUME NEW text, NEW d, NEW place, NEW b, UnitAt(text, d, place, b),
           Len(b) <= SequenceLength(b[1])
    PROVE  \A k \in 1 .. Len(b) : d[place + k].remaining = SequenceLength(b[1]) - k
<1>1. PICK m, size : m = Len(b) /\ size = SequenceLength(b[1])
  OBVIOUS
<1>2. b \in Seq(Bytes) /\ b # <<>> /\ place \in Nat /\ d[place].remaining = 0
  BY DEF UnitAt
<1>3. m \in Nat /\ m > 0 /\ m <= size /\ size \in 1 .. 4
  BY <1>1, <1>2 DEF SequenceLength
<1>4. /\ \A k \in 1 .. m : b[k] \in Bytes
      /\ \A k \in 1 .. m : d[place + k] = Utf8To32(b[k], d[place + (k - 1)])
      /\ \A k \in 0 .. m : d[place + k] \in States
  BY <1>1, UnitStates
<1> DEFINE T == {i \in Nat : i + 1 <= m => d[place + (i + 1)].remaining = size - (i + 1)}
<1>5. 0 \in T
  <2>1. 1 \in 1 .. m /\ 0 \in 0 .. m /\ place + (1 - 1) = place /\ 0 + 1 = 1 /\ place + 0 = place
    BY <1>2, <1>3
  <2>2. d[place + 1] = Utf8To32(b[1], d[place]) /\ b[1] \in Bytes /\ d[place] \in States
    BY <1>4, <2>1
  <2>3. d[place + 1].remaining = size - 1
    BY <1>1, <1>2, <2>2, LeadByte
  <2> QED BY <2>1, <2>3
<1>6. ASSUME NEW i \in Nat, i \in T PROVE i + 1 \in T
  <2> SUFFICES ASSUME (i + 1) + 1 <= m
               PROVE  d[place + ((i + 1) + 1)].remaining = size - ((i + 1) + 1)
    OBVIOUS
  <2>1. PICK k, s : k = (i + 1) + 1 /\ s = d[place + (i + 1)]
    OBVIOUS
  <2>2. k \in 1 .. m /\ k - 1 = i + 1 /\ i + 1 \in 0 .. m /\ i + 1 <= m
    BY <1>3, <2>1
  <2>3. s \in States /\ s.remaining = size - (i + 1)
    BY <1>4, <1>6, <2>1, <2>2
  <2>4. s.remaining > 0
    BY <1>3, <2>1, <2>2, <2>3
  <2>5. d[place + k] = Utf8To32(b[k], s) /\ b[k] \in Bytes
    BY <1>4, <2>1, <2>2
  <2>6. d[place + k].remaining = s.remaining - 1
    BY <2>3, <2>4, <2>5, NextByte
  <2> QED BY <1>3, <2>1, <2>2, <2>3, <2>6
<1>7. ASSUME NEW k \in 1 .. m PROVE d[place + k].remaining = size - k
  <2>1. PICK i : i = k - 1
    OBVIOUS
  <2>2. i \in Nat /\ i + 1 = k /\ i + 1 <= m
    BY <1>3, <2>1
  <2>3. i \in T
    <3> HIDE DEF T
    <3> QED BY <1>5, <1>6, <2>2, Induction
  <2> QED BY <2>2, <2>3
<1> QED BY <1>1, <1>7

(* Its last byte completes the code point it stands for.                   *)
LEMMA UnitSense ==
    ASSUME NEW text, NEW d, NEW place, NEW b, UnitAt(text, d, place, b),
           Len(b) = SequenceLength(b[1])
    PROVE  Glyph(d[place + Len(b)]) = Sense(b)
<1>1. PICK m, s0, s1, s2, s3, s4 :
         /\ m = Len(b) /\ s0 = d[place] /\ s1 = d[place + 1] /\ s2 = d[place + 2]
         /\ s3 = d[place + 3] /\ s4 = d[place + 4]
  OBVIOUS
<1>2. b \in Seq(Bytes) /\ b # <<>> /\ place \in Nat /\ s0.remaining = 0
  BY <1>1 DEF UnitAt
<1>3. m \in 1 .. 4 /\ m = SequenceLength(b[1])
  BY <1>1, <1>2 DEF SequenceLength
<1>4. /\ \A k \in 1 .. m : b[k] \in Bytes
      /\ \A k \in 1 .. m : d[place + k] = Utf8To32(b[k], d[place + (k - 1)])
      /\ \A k \in 0 .. m : d[place + k] \in States
  BY <1>1, UnitStates
<1>5. \A k \in 1 .. m : d[place + k].remaining = m - k
  <2>1. Len(b) <= SequenceLength(b[1])
    BY <1>1, <1>3
  <2> QED BY <1>1, <1>3, <2>1, UnitRemains
<1>6. /\ s0 \in States /\ b[1] \in Bytes /\ s1 = Utf8To32(b[1], s0) /\ s1 \in States
      /\ s1.remaining = m - 1
  <2>1. 1 \in 1 .. m /\ 0 \in 0 .. m /\ 1 \in 0 .. m /\ place + (1 - 1) = place /\ place + 0 = place
    BY <1>2, <1>3
  <2> QED BY <1>1, <1>4, <1>5, <2>1
<1>7. m >= 2 => /\ b[2] \in Bytes /\ s2 = Utf8To32(b[2], s1) /\ s2 \in States
                /\ s2.remaining = m - 2
  <2>1. place + (2 - 1) = place + 1 /\ (m >= 2 => 2 \in 1 .. m /\ 2 \in 0 .. m)
    BY <1>2, <1>3
  <2> QED BY <1>1, <1>4, <1>5, <2>1
<1>8. m >= 3 => /\ b[3] \in Bytes /\ s3 = Utf8To32(b[3], s2) /\ s3 \in States
                /\ s3.remaining = m - 3
  <2>1. place + (3 - 1) = place + 2 /\ (m >= 3 => 3 \in 1 .. m /\ 3 \in 0 .. m)
    BY <1>2, <1>3
  <2> QED BY <1>1, <1>4, <1>5, <2>1
<1>9. m >= 4 => /\ b[4] \in Bytes /\ s4 = Utf8To32(b[4], s3) /\ s4 \in States
                /\ s4.remaining = m - 4
  <2>1. place + (4 - 1) = place + 3 /\ (m >= 4 => 4 \in 1 .. m /\ 4 \in 0 .. m)
    BY <1>2, <1>3
  <2> QED BY <1>1, <1>4, <1>5, <2>1
<1>10. /\ m = 1 => Glyph(s1) = IF b[1] < 128 THEN b[1] ELSE Replacement
       /\ m = 2 => s1.valid /\ s1.glyph = b[1] - 192
       /\ m = 3 => s1.valid /\ s1.glyph = b[1] - 224
       /\ m = 4 => s1.valid /\ s1.glyph = b[1] - 240
  BY <1>2, <1>3, <1>6, LeadByte
<1>11. ASSUME m >= 2
       PROVE  /\ Continues(b[2]) => s2.valid /\ s2.glyph = 64 * s1.glyph + (b[2] - 128)
              /\ ~Continues(b[2]) => ~s2.valid
  <2>1. s1.remaining > 0 /\ s1.valid
    BY <1>3, <1>6, <1>10, <1>11
  <2> QED BY <1>6, <1>7, <1>11, <2>1, NextByte
<1>12. ASSUME m >= 3
       PROVE  /\ s2.valid /\ Continues(b[3]) => s3.valid /\ s3.glyph = 64 * s2.glyph + (b[3] - 128)
              /\ ~s2.valid \/ ~Continues(b[3]) => ~s3.valid
  <2>1. s2.remaining > 0 /\ m >= 2
    BY <1>3, <1>7, <1>12
  <2> QED BY <1>7, <1>8, <1>12, <2>1, NextByte
<1>13. ASSUME m >= 4
       PROVE  /\ s3.valid /\ Continues(b[4]) => s4.valid /\ s4.glyph = 64 * s3.glyph + (b[4] - 128)
              /\ ~s3.valid \/ ~Continues(b[4]) => ~s4.valid
  <2>1. s3.remaining > 0 /\ m >= 3
    BY <1>3, <1>8, <1>13
  <2> QED BY <1>8, <1>9, <1>13, <2>1, NextByte
<1>14. CASE m = 1
  BY <1>1, <1>10, <1>14 DEF Sense
<1>15. CASE m = 2
  <2>1. s2.remaining = 0
    BY <1>7, <1>15
  <2>2. (\E i \in 2 .. m : ~Continues(b[i])) <=> ~Continues(b[2])
    BY <1>15
  <2>3. Sense(b) = IF ~Continues(b[2]) THEN Replacement ELSE Number2(b)
    BY <1>1, <1>15, <2>2 DEF Sense
  <2>4. Continues(b[2]) => s2.valid /\ s2.glyph = Number2(b)
    BY <1>10, <1>11, <1>15 DEF Number2
  <2>5. ~Continues(b[2]) => ~s2.valid
    BY <1>11, <1>15
  <2> QED BY <1>1, <1>15, <2>1, <2>3, <2>4, <2>5 DEF Glyph
<1>16. CASE m = 3
  <2>1. s3.remaining = 0 /\ m >= 2 /\ m >= 3
    BY <1>8, <1>16
  <2>2. (\E i \in 2 .. m : ~Continues(b[i])) <=> ~Continues(b[2]) \/ ~Continues(b[3])
    <3>1. \A i : i \in 2 .. m <=> i = 2 \/ i = 3
      BY <1>16
    <3> QED BY <3>1, Zenon
  <2>3. Sense(b) = IF ~Continues(b[2]) \/ ~Continues(b[3]) THEN Replacement ELSE Number3(b)
    BY <1>1, <1>16, <2>2 DEF Sense
  <2>4. Continues(b[2]) /\ Continues(b[3]) => s3.valid /\ s3.glyph = Number3(b)
    <3> SUFFICES ASSUME Continues(b[2]), Continues(b[3]) PROVE s3.valid /\ s3.glyph = Number3(b)
      OBVIOUS
    <3>1. /\ s1.glyph = b[1] - 224 /\ s2.glyph = 64 * s1.glyph + (b[2] - 128)
          /\ s3.valid /\ s3.glyph = 64 * s2.glyph + (b[3] - 128)
      BY <1>10, <1>11, <1>12, <1>16, <2>1
    <3>2. b[1] \in Nat /\ b[2] \in Nat /\ b[3] \in Nat
      BY <1>6, <1>7, <1>8, <2>1, ByteIs
    <3>3. PICK x, y, z \in Nat : x = b[1] /\ y = b[2] /\ z = b[3]
      BY <3>2
    <3>4. s3.glyph = 4096 * (x - 224) + 64 * (y - 128) + (z - 128)
      <4>1. \A s \in States : s.glyph \in Nat
        BY DEF States
      <4>2. PICK p, q \in Nat : p = s1.glyph /\ q = s2.glyph
        BY <1>6, <1>7, <2>1, <4>1
      <4>3. p = x - 224 /\ q = 64 * p + (y - 128) /\ s3.glyph = 64 * q + (z - 128)
        BY <3>1, <3>3, <4>2
      <4>4. 64 * q = 4096 * (x - 224) + 64 * (y - 128)
        BY <4>3, SMT
      <4> QED BY <4>3, <4>4, SMT
    <3> QED BY <3>1, <3>3, <3>4, SMT DEF Number3
  <2>5. ~Continues(b[2]) \/ ~Continues(b[3]) => ~s3.valid
    BY <1>11, <1>12, <2>1
  <2> QED BY <1>1, <1>16, <2>1, <2>3, <2>4, <2>5 DEF Glyph
<1>17. CASE m = 4
  <2>1. s4.remaining = 0 /\ m >= 2 /\ m >= 3 /\ m >= 4
    BY <1>9, <1>17
  <2>2. (\E i \in 2 .. m : ~Continues(b[i]))
        <=> ~Continues(b[2]) \/ ~Continues(b[3]) \/ ~Continues(b[4])
    <3>1. \A i : i \in 2 .. m <=> i = 2 \/ i = 3 \/ i = 4
      BY <1>17
    <3> QED BY <3>1, Zenon
  <2>3. Sense(b) = IF ~Continues(b[2]) \/ ~Continues(b[3]) \/ ~Continues(b[4])
                   THEN Replacement ELSE Number4(b)
    BY <1>1, <1>17, <2>2 DEF Sense
  <2>4. Continues(b[2]) /\ Continues(b[3]) /\ Continues(b[4])
        => s4.valid /\ s4.glyph = Number4(b)
    <3> SUFFICES ASSUME Continues(b[2]), Continues(b[3]), Continues(b[4])
                 PROVE  s4.valid /\ s4.glyph = Number4(b)
      OBVIOUS
    <3>1. /\ s1.glyph = b[1] - 240 /\ s2.glyph = 64 * s1.glyph + (b[2] - 128)
          /\ s3.glyph = 64 * s2.glyph + (b[3] - 128)
          /\ s4.valid /\ s4.glyph = 64 * s3.glyph + (b[4] - 128)
      BY <1>10, <1>11, <1>12, <1>13, <1>17, <2>1
    <3>2. b[1] \in Nat /\ b[2] \in Nat /\ b[3] \in Nat /\ b[4] \in Nat
      BY <1>6, <1>7, <1>8, <1>9, <2>1, ByteIs
    <3>3. PICK w, x, y, z \in Nat : w = b[1] /\ x = b[2] /\ y = b[3] /\ z = b[4]
      BY <3>2
    <3>4. s4.glyph = 262144 * (w - 240) + 4096 * (x - 128) + 64 * (y - 128) + (z - 128)
      <4>1. \A s \in States : s.glyph \in Nat
        BY DEF States
      <4>2. PICK o, p, q \in Nat : o = s1.glyph /\ p = s2.glyph /\ q = s3.glyph
        BY <1>6, <1>7, <1>8, <2>1, <4>1
      <4>3. /\ o = w - 240 /\ p = 64 * o + (x - 128) /\ q = 64 * p + (y - 128)
            /\ s4.glyph = 64 * q + (z - 128)
        BY <3>1, <3>3, <4>2
      <4>4. 64 * q = 262144 * (w - 240) + 4096 * (x - 128) + 64 * (y - 128)
        BY <4>3, SMT
      <4> QED BY <4>3, <4>4, SMT
    <3> QED BY <3>1, <3>3, <3>4, SMT DEF Number4
  <2>5. ~Continues(b[2]) \/ ~Continues(b[3]) \/ ~Continues(b[4]) => ~s4.valid
    BY <1>11, <1>12, <1>13, <2>1
  <2> QED BY <1>1, <1>17, <2>1, <2>3, <2>4, <2>5 DEF Glyph
<1> QED BY <1>3, <1>14, <1>15, <1>16, <1>17

(* Where the units of a text are: at has the beginnings of the text up to  *)
(* each, and the decoder is between two units in front of each.            *)
UnitsAt(units, text, d, at) ==
    /\ Len(units) \in Nat /\ Len(text) \in Nat
    /\ Blocks([i \in 0 .. Len(units) |-> Len(at[i])], Len(units), Len(text))
    /\ \A i \in 1 .. Len(units) :
          /\ UnitAt(text, d, Len(at[i - 1]), units[i].bytes)
          /\ Len(at[i]) = Len(at[i - 1]) + Len(units[i].bytes)

LEMMA UnitIs ==
    ASSUME NEW units, IsText(units), NEW i \in 1 .. Len(units)
    PROVE  /\ Len(units) \in Nat /\ units[i] \in UnitRecords
           /\ units[i].bytes \in Seq(Bytes) /\ units[i].bytes # <<>>
           /\ Len(units[i].bytes) <= SequenceLength(units[i].bytes[1])
           /\ i < Len(units) => IsUnit(units[i])
           /\ IsUnit(units[i]) => Len(units[i].bytes) = SequenceLength(units[i].bytes[1])
<1>1. units \in Seq(UnitRecords) /\ (IsUnit(units[i]) \/ (i = Len(units) /\ IsCutOff(units[i])))
  BY DEF IsText
<1>2. PICK unit : unit = units[i]
  OBVIOUS
<1>3. unit \in UnitRecords /\ Len(units) \in Nat
  BY <1>1, <1>2, Element
<1>4. unit.bytes \in Seq(Bytes) /\ unit.bytes # <<>>
  BY <1>1, <1>2, <1>3 DEF UnitRecords, IsUnit, IsCutOff
<1>5. PICK m, size : m = Len(unit.bytes) /\ size = SequenceLength(unit.bytes[1])
  OBVIOUS
<1>6. m \in Nat /\ size \in Nat
  BY <1>4, <1>5 DEF SequenceLength
<1>7. m = size \/ m < size
  BY <1>1, <1>2, <1>5, Zenon DEF IsUnit, IsCutOff
<1>8. IsUnit(unit) => m = size
  BY <1>5, Zenon DEF IsUnit
<1>9. m <= size
  BY <1>6, <1>7
<1>10. i < Len(units) => IsUnit(unit)
  BY <1>1, <1>2, <1>3
<1> QED BY <1>2, <1>3, <1>4, <1>5, <1>8, <1>9, <1>10, Zenon

LEMMA BytesOfType ==
    ASSUME NEW units, IsText(units)
    PROVE  /\ [i \in DOMAIN units |-> units[i].bytes] \in Seq(Seq(Bytes))
           /\ Len([i \in DOMAIN units |-> units[i].bytes]) = Len(units)
           /\ BytesOf(units) \in Seq(Bytes)
<1>1. PICK n, bs : n = Len(units) /\ bs = [i \in DOMAIN units |-> units[i].bytes]
  OBVIOUS
<1>2. n \in Nat /\ DOMAIN units = 1 .. n
  BY <1>1 DEF IsText
<1>3. \A i \in 1 .. n : units[i].bytes \in Seq(Bytes)
  BY <1>1, UnitIs
<1>4. bs \in [1 .. n -> Seq(Bytes)]
  BY <1>1, <1>2, <1>3, Zenon
<1>5. bs \in Seq(Seq(Bytes)) /\ Len(bs) = n
  <2>1. bs \in Seq(Seq(Bytes))
    BY <1>2, <1>4, IsSequence
  <2> QED BY <1>2, <1>4, <2>1
<1>6. FlattenSeq(bs) \in Seq(Bytes)
  BY <1>5, FlattenType
<1> QED BY <1>1, <1>5, <1>6, Zenon DEF BytesOf

LEMMA UnitsFound ==
    ASSUME NEW units, IsText(units), NEW d, Decodes(d, BytesOf(units))
    PROVE  \E at : UnitsAt(units, BytesOf(units), d, at)
<1>1. PICK n, bs, text : /\ n = Len(units) /\ bs = [i \in DOMAIN units |-> units[i].bytes]
                         /\ text = BytesOf(units)
  OBVIOUS
<1>2. /\ n \in Nat /\ DOMAIN units = 1 .. n /\ bs \in Seq(Seq(Bytes)) /\ Len(bs) = n
      /\ text \in Seq(Bytes) /\ Len(text) \in Nat /\ text = FlattenSeq(bs)
  <2>1. n \in Nat /\ DOMAIN units = 1 .. n
    BY <1>1 DEF IsText
  <2>2. bs \in Seq(Seq(Bytes)) /\ Len(bs) = n /\ text \in Seq(Bytes)
    BY <1>1, BytesOfType
  <2>3. Len(text) \in Nat
    BY <2>2
  <2> QED BY <1>1, <2>1, <2>2, <2>3, Zenon DEF BytesOf
<1>3. PICK at : Flattens(at, bs, Bytes) /\ text = at[n]
  BY <1>2, FlattenIs
<1>4. Places(at, bs, text)
  <2>1. <<>> \in Seq(Bytes)
    BY Empty, Zenon
  <2>2. Places(at, bs, at[n] \o <<>>)
    BY <1>2, <1>3, <2>1, PlacesAre
  <2>3. text \o <<>> = text
    BY <1>2
  <2> QED BY <1>3, <2>2, <2>3, Zenon
<1>5. ASSUME NEW i \in 1 .. n
      PROVE  /\ Len(at[i - 1]) \in Nat /\ Len(at[i]) = Len(at[i - 1]) + Len(units[i].bytes)
             /\ Len(at[i]) <= Len(text)
             /\ \A k \in 1 .. Len(units[i].bytes) : text[Len(at[i - 1]) + k] = units[i].bytes[k]
  <2>1. bs[i] = units[i].bytes
    BY <1>1, <1>2
  <2> QED BY <1>2, <1>4, <2>1, Zenon DEF Places
<1>6. at[0] = <<>> /\ Len(at[0]) = 0 /\ Len(at[n]) = Len(text)
  <2>1. at[0] = <<>>
    BY <1>3 DEF Flattens
  <2> QED BY <1>3, <2>1
<1> DEFINE T == {i \in Nat : i < n => d[Len(at[i])].remaining = 0}
<1>7. ASSUME NEW i \in 1 .. n, d[Len(at[i - 1])].remaining = 0
      PROVE  UnitAt(text, d, Len(at[i - 1]), units[i].bytes)
  <2>1. PICK b, place : b = units[i].bytes /\ place = Len(at[i - 1])
    OBVIOUS
  <2>2. b \in Seq(Bytes) /\ b # <<>>
    BY <1>1, <2>1, UnitIs
  <2>3. /\ place \in Nat /\ place + Len(b) <= Len(text)
        /\ \A k \in 1 .. Len(b) : text[place + k] = b[k]
    BY <1>5, <2>1, Zenon
  <2> QED BY <1>1, <1>2, <1>7, <2>1, <2>2, <2>3, Zenon DEF UnitAt
<1>8. 0 \in T
  <2>1. d[0] = ConvertState
    BY DEF Decodes
  <2> QED BY <1>6, <2>1 DEF ConvertState, Decoding
<1>9. ASSUME NEW i \in Nat, i \in T PROVE i + 1 \in T
  <2> SUFFICES ASSUME i + 1 < n PROVE d[Len(at[i + 1])].remaining = 0
    OBVIOUS
  <2>1. PICK j, b, place : j = i + 1 /\ b = units[j].bytes /\ place = Len(at[i])
    OBVIOUS
  <2>2. j \in 1 .. n /\ j - 1 = i /\ j < n /\ d[place].remaining = 0
    BY <1>2, <1>9, <2>1
  <2>3. UnitAt(text, d, place, b)
    BY <1>7, <2>1, <2>2
  <2>4. b \in Seq(Bytes) /\ b # <<>> /\ Len(b) = SequenceLength(b[1])
    BY <1>1, <2>1, <2>2, UnitIs
  <2>5. PICK m : m = Len(b) /\ m \in Nat /\ m > 0 /\ m <= m
    BY <2>4
  <2>6. d[place + m].remaining = m - m
    <3>1. m \in 1 .. Len(b) /\ Len(b) <= SequenceLength(b[1])
      BY <2>4, <2>5
    <3>2. d[place + m].remaining = SequenceLength(b[1]) - m
      BY <2>3, <3>1, UnitRemains
    <3> QED BY <2>4, <2>5, <3>2, Zenon
  <2>7. Len(at[j]) = place + m
    BY <1>5, <2>1, <2>2, <2>5
  <2>8. m - m = 0
    BY <2>5
  <2> QED BY <2>1, <2>6, <2>7, <2>8, Zenon
<1>10. ASSUME NEW i \in 1 .. n PROVE d[Len(at[i - 1])].remaining = 0
  <2>1. i - 1 \in Nat /\ i - 1 < n
    BY <1>2
  <2>2. i - 1 \in T
    <3> HIDE DEF T
    <3> QED BY <1>8, <1>9, <2>1, Induction
  <2> QED BY <2>1, <2>2
<1>11. PICK pl : pl = [i \in 0 .. n |-> Len(at[i])]
  OBVIOUS
<1>12. Blocks(pl, n, Len(text))
  <2>1. ASSUME NEW i \in 0 .. n PROVE Len(at[i]) \in Nat
    <3>1. CASE i = 0
      BY <1>6, <3>1
    <3>2. CASE i # 0
      <4>1. i \in 1 .. n
        BY <3>2
      <4>2. Len(units[i].bytes) \in Nat
        BY <1>1, <4>1, UnitIs
      <4> QED BY <1>5, <4>1, <4>2
    <3> QED BY <3>1, <3>2
  <2>2. pl \in [0 .. n -> Nat] /\ \A i \in 0 .. n : pl[i] = Len(at[i])
    BY <1>11, <2>1
  <2>3. pl[0] = 0 /\ pl[n] = Len(text)
    BY <1>2, <1>6, <2>2
  <2>4. ASSUME NEW i \in 1 .. n PROVE pl[i - 1] <= pl[i] /\ pl[i] <= Len(text)
    <3>1. i - 1 \in 0 .. n /\ i \in 0 .. n
      BY <1>2
    <3>2. PICK m \in Nat : m = Len(units[i].bytes)
      <4>1. units[i].bytes \in Seq(Bytes)
        BY <1>1, UnitIs
      <4> QED BY <4>1
    <3>3. pl[i - 1] = Len(at[i - 1]) /\ pl[i] = Len(at[i])
      BY <2>2, <3>1
    <3>4. pl[i - 1] \in Nat /\ pl[i] = pl[i - 1] + m /\ pl[i] <= Len(text)
      BY <1>5, <3>2, <3>3, Zenon
    <3> QED BY <3>4
  <2> QED BY <2>2, <2>3, <2>4, Zenon DEF Blocks
<1>13. UnitsAt(units, text, d, at)
  BY <1>1, <1>2, <1>5, <1>7, <1>10, <1>11, <1>12, Zenon DEF UnitsAt
<1> QED BY <1>1, <1>13

(* What is made of a text byte by byte, nothing before a unit is complete  *)
(* and as the unit is meant then, is made of it unit by unit.              *)
MadeOf(pp, ww, units, text, d) ==
    /\ Len(pp) = Len(text) /\ Len(ww) = Len(units)
    /\ \A q \in 1 .. Len(text) : Glyph(d[q]) = 0 => pp[q] = <<>>
    /\ \A i \in 1 .. Len(units) : \A q \in 1 .. Len(text) :
          IsUnit(units[i]) /\ Glyph(d[q]) = Sense(units[i].bytes)
             /\ text[q] = units[i].bytes[Len(units[i].bytes)]
          => pp[q] = ww[i]
    /\ \A i \in 1 .. Len(units) : IsCutOff(units[i]) => ww[i] = <<>>

LEMMA UnitsFlatten ==
    ASSUME NEW units, IsText(units), NEW text, text = BytesOf(units),
           NEW d, Decodes(d, text),
           NEW S, NEW pp \in Seq(Seq(S)), NEW ww \in Seq(Seq(S)), MadeOf(pp, ww, units, text, d)
    PROVE  FlattenSeq(pp) = FlattenSeq(ww)
<1>1. PICK at : UnitsAt(units, text, d, at)
  BY UnitsFound, Zenon
<1>2. PICK n, size, pl : n = Len(units) /\ size = Len(text) /\ pl = [i \in 0 .. n |-> Len(at[i])]
  OBVIOUS
<1>3. n \in Nat /\ size \in Nat /\ Len(pp) = size /\ Len(ww) = n /\ Blocks(pl, n, size)
  BY <1>1, <1>2, Zenon DEF UnitsAt, MadeOf
<1>4. ASSUME NEW i \in 1 .. n
      PROVE  FlattenSeq(SubSeq(pp, pl[i - 1] + 1, pl[i])) = ww[i]
  <2>1. PICK b, place : b = units[i].bytes /\ place = Len(at[i - 1])
    OBVIOUS
  <2>2. UnitAt(text, d, place, b) /\ Len(at[i]) = place + Len(b)
    BY <1>1, <1>2, <2>1, Zenon DEF UnitsAt
  <2>3. /\ b \in Seq(Bytes) /\ b # <<>> /\ Len(b) <= SequenceLength(b[1])
        /\ IsUnit(units[i]) \/ IsCutOff(units[i])
    <3>1. i \in 1 .. Len(units) /\ i \in 1 .. n /\ n \in Nat
      BY <1>2, <1>3
    <3>2. IsUnit(units[i]) \/ IsCutOff(units[i])
      BY <3>1, Zenon DEF IsText
    <3> QED BY <2>1, <3>1, <3>2, UnitIs, Zenon
  <2>4. PICK m \in Nat : m = Len(b) /\ m > 0
    BY <2>3
  <2>5. pl[i - 1] = place /\ pl[i] = place + m /\ place \in Nat /\ place + m <= size
    <3>1. i - 1 \in 0 .. n /\ i \in 0 .. n
      BY <1>3
    <3>2. place \in Nat /\ place + m <= size
      BY <1>2, <2>2, <2>4 DEF UnitAt
    <3> QED BY <1>2, <2>1, <2>2, <2>4, <3>1, <3>2
  <2>6. PICK ss : ss = SubSeq(pp, place + 1, place + m)
    OBVIOUS
  <2>7. /\ ss \in Seq(Seq(S)) /\ Len(ss) = m
        /\ \A k \in 1 .. m : ss[k] = pp[place + k]
    <3>1. PICK R : R = Seq(S)
      OBVIOUS
    <3>2. pp \in Seq(R)
      BY <3>1
    <3>3. /\ ss \in Seq(R) /\ Len(ss) = m
          /\ \A k \in 1 .. m : ss[k] = pp[place + k]
      BY <1>3, <2>4, <2>5, <2>6, <3>2
    <3> QED BY <3>1, <3>3
  <2>8. ASSUME NEW k \in 1 .. m
        PROVE  /\ d[place + k].remaining = SequenceLength(b[1]) - k
               /\ place + k \in 1 .. size /\ text[place + k] = b[k]
    <3>1. d[place + k].remaining = SequenceLength(b[1]) - k
      BY <2>2, <2>3, <2>4, UnitRemains
    <3>2. place + k \in 1 .. size
      BY <1>3, <2>4, <2>5
    <3>3. text[place + k] = b[k]
      BY <2>2, <2>4, Zenon DEF UnitAt
    <3> QED BY <3>1, <3>2, <3>3
  <2>9. SequenceLength(b[1]) \in Nat
    BY DEF SequenceLength
  <2>10. ASSUME NEW k \in 1 .. m, SequenceLength(b[1]) > k PROVE ss[k] = <<>>
    <3>1. d[place + k].remaining > 0
      BY <2>8, <2>9, <2>10
    <3>2. Glyph(d[place + k]) = 0
      BY <3>1 DEF Glyph
    <3> QED BY <1>2, <2>7, <2>8, <3>2, Zenon DEF MadeOf
  <2>11. \A k \in 1 .. m - 1 : ss[k] = <<>>
    <3>1. PICK l : l = SequenceLength(b[1]) /\ l \in Nat /\ m <= l
      BY <2>3, <2>4, <2>9
    <3>2. \A k \in 1 .. m - 1 : k \in 1 .. m /\ l > k
      BY <2>4, <3>1
    <3> QED BY <2>10, <3>1, <3>2, Zenon
  <2>12. m \in 1 .. m
    BY <2>4
  <2>13. ss[m] = ww[i]
    <3>1. CASE IsUnit(units[i])
      <4>1. Len(b) = SequenceLength(b[1])
        BY <2>1, <3>1, Zenon DEF IsUnit
      <4>2. Glyph(d[place + m]) = Sense(b)
        BY <2>2, <2>4, <4>1, UnitSense, Zenon
      <4>3. text[place + m] = b[Len(b)]
        BY <2>4, <2>8, <2>12, Zenon
      <4>4. pp[place + m] = ww[i]
        BY <1>2, <2>1, <2>8, <2>12, <3>1, <4>2, <4>3, Zenon DEF MadeOf
      <4> QED BY <2>7, <2>12, <4>4, Zenon
    <3>2. CASE IsCutOff(units[i])
      <4>1. SequenceLength(b[1]) > m
        BY <2>1, <2>4, <2>9, <3>2 DEF IsCutOff
      <4>2. ss[m] = <<>>
        BY <2>10, <2>12, <4>1, Zenon
      <4> QED BY <1>2, <3>2, <4>2, Zenon DEF MadeOf
    <3> QED BY <2>3, <3>1, <3>2
  <2>14. ss # <<>>
    BY <2>4, <2>7
  <2>15. FlattenSeq(ss) = ss[Len(ss)]
    <3>1. \A k \in 1 .. Len(ss) - 1 : ss[k] = <<>>
      BY <2>7, <2>11, Zenon
    <3> QED BY <2>7, <2>14, <3>1, FlattenSparse
  <2> QED BY <2>5, <2>6, <2>7, <2>13, <2>15, Zenon
<1>5. Blocks(pl, Len(ww), Len(pp))
  BY <1>3, Zenon
<1> QED BY <1>3, <1>4, <1>5, FlattenBlocks

(* What is to be kept of a unit, in terms of the code's encoder.           *)
LEMMA KeptIs == \A b : InLog(b) = IF Sense(b) = 0 THEN <<>> ELSE Utf32To8(Sense(b))
<1>1. ASSUME NEW n PROVE Encoding(n) = Utf32To8(n)
  BY DEF Encoding, Utf32To8, Continuation
<1> QED BY <1>1, Zenon DEF InLog

(* What the decoder makes of a unit: nothing of one that is cut off.       *)
Sensed(unit) ==
    IF IsUnit(unit) /\ Sense(unit.bytes) # 0 THEN <<Sense(unit.bytes)>> ELSE <<>>
Senses(units) == [i \in DOMAIN units |-> Sensed(units[i])]

LEMMA SequenceLengthIs ==
    \A x \in Nat : /\ SequenceLength(x) \in {1, 2, 3, 4}
                   /\ SequenceLength(x) = 2 => x >= 192
                   /\ SequenceLength(x) = 3 => x >= 224
                   /\ SequenceLength(x) = 4 => x >= 240
BY DEF SequenceLength

(* What may be expected of a byte that follows in a sequence.              *)
Awaited(x) == x \in Nat /\ x >= 128

LEMMA NumberTypes ==
    \A b : b[1] \in Nat =>
        /\ b[1] >= 192 /\ Awaited(b[2]) => Number2(b) \in Nat
        /\ b[1] >= 224 /\ Awaited(b[2]) /\ Awaited(b[3]) => Number3(b) \in Nat
        /\ b[1] >= 240 /\ Awaited(b[2]) /\ Awaited(b[3]) /\ Awaited(b[4]) => Number4(b) \in Nat
BY SMT DEF Number2, Number3, Number4, Awaited

LEMMA ContinuesIs == \A x : Continues(x) => Awaited(x)
BY DEF Continues, Awaited

LEMMA OneOrTheOther ==
    \A x, r \in Nat : \A v : v = (IF x < 128 THEN x ELSE r) => v \in Nat /\ (v < 128 \/ v = r)
OBVIOUS

LEMMA LaterBytes ==
    ASSUME NEW n, n \in {2, 3, 4}
    PROVE  2 \in 2 .. n /\ (n = 3 => 3 \in 2 .. n) /\ (n = 4 => 3 \in 2 .. n /\ 4 \in 2 .. n)
OBVIOUS

LEMMA SenseType ==
    ASSUME NEW b \in Seq(Bytes), b # <<>>, Len(b) = SequenceLength(b[1])
    PROVE  /\ Sense(b) \in Nat
           /\ Len(b) = 1 => Sense(b) < 128 \/ Sense(b) = Replacement
<1>1. b[1] \in Nat
  <2>1. 1 \in 1 .. Len(b)
    OBVIOUS
  <2>2. b[1] \in Bytes
    BY <2>1, Element
  <2> QED BY <2>2, ByteIs
<1>2. PICK n : n = Len(b) /\ n = SequenceLength(b[1])
  BY Zenon
<1>3. /\ n \in {1, 2, 3, 4}
      /\ (n = 2 => b[1] >= 192) /\ (n = 3 => b[1] >= 224) /\ (n = 4 => b[1] >= 240)
  <2>1. PICK x \in Nat : x = b[1]
    BY <1>1, Zenon
  <2>2. n = SequenceLength(x)
    BY <1>2, <2>1, Zenon
  <2>3. n \in {1, 2, 3, 4} /\ (n = 2 => x >= 192) /\ (n = 3 => x >= 224) /\ (n = 4 => x >= 240)
    BY <2>2, SequenceLengthIs, Zenon
  <2> QED BY <2>1, <2>3, Zenon
<1>4. Replacement \in Nat
  BY DEF Replacement
<1>5. CASE n = 1
  <2>1. Sense(b) = IF b[1] < 128 THEN b[1] ELSE Replacement
    BY <1>2, <1>5, Zenon DEF Sense
  <2> QED BY <1>1, <1>4, <2>1, OneOrTheOther, Zenon
<1>6. CASE n # 1 /\ \E i \in 2 .. n : ~Continues(b[i])
  BY <1>2, <1>4, <1>6, Zenon DEF Sense
<1>7. CASE n # 1 /\ \A i \in 2 .. n : Continues(b[i])
  <2>1. \A i \in 2 .. n : Awaited(b[i])
    BY <1>7, ContinuesIs, Zenon
  <2>2. n \in {2, 3, 4}
    BY <1>3, <1>7, Zenon
  <2>3. Sense(b) = IF n = 2 THEN Number2(b) ELSE IF n = 3 THEN Number3(b) ELSE Number4(b)
    BY <1>2, <1>7, Zenon DEF Sense
  <2>4. CASE n = 2
    <3>1. Number2(b) \in Nat
      BY <1>1, <1>3, <2>1, <2>2, <2>4, LaterBytes, NumberTypes, Zenon
    <3> QED BY <1>2, <1>7, <2>3, <2>4, <3>1, Zenon
  <2>5. CASE n = 3
    <3>1. Number3(b) \in Nat
      BY <1>1, <1>3, <2>1, <2>2, <2>5, LaterBytes, NumberTypes, Zenon
    <3>2. n # 2
      BY <2>5
    <3> QED BY <1>2, <1>7, <2>3, <2>5, <3>1, <3>2, Zenon
  <2>6. CASE n = 4
    <3>1. Number4(b) \in Nat
      BY <1>1, <1>3, <2>1, <2>2, <2>6, LaterBytes, NumberTypes, Zenon
    <3>2. n # 2 /\ n # 3
      BY <2>6
    <3> QED BY <1>2, <1>7, <2>3, <2>6, <3>1, <3>2, Zenon
  <2> QED BY <2>2, <2>4, <2>5, <2>6, Zenon
<1> QED BY <1>2, <1>5, <1>6, <1>7, Zenon

LEMMA UnitOrCutOff ==
    ASSUME NEW units, IsText(units), NEW i \in 1 .. Len(units)
    PROVE  /\ IsUnit(units[i]) => /\ ~IsCutOff(units[i])
                                  /\ Sense(units[i].bytes) \in Nat
                                  /\ units[i].shown = OnPage(units[i].bytes)
                                  /\ units[i].kept = InLog(units[i].bytes)
           /\ IsCutOff(units[i]) => units[i].shown = <<>> /\ units[i].kept = <<>>
           /\ IsUnit(units[i]) \/ IsCutOff(units[i])
           /\ units[i].kept \in Seq(Bytes) /\ units[i].shown \in Seq(Nat)
<1>1. PICK u : u = units[i]
  OBVIOUS
<1>2. /\ u \in UnitRecords /\ u.bytes \in Seq(Bytes) /\ u.bytes # <<>>
      /\ IsUnit(u) => Len(u.bytes) = SequenceLength(u.bytes[1])
  BY <1>1, UnitIs
<1>3. IsUnit(u) \/ IsCutOff(u)
  BY <1>1 DEF IsText
<1>4. u.kept \in Seq(Bytes) /\ u.shown \in Seq(Nat)
  BY <1>2 DEF UnitRecords
<1>5. ASSUME IsUnit(u)
      PROVE  ~IsCutOff(u) /\ Sense(u.bytes) \in Nat
             /\ u.shown = OnPage(u.bytes) /\ u.kept = InLog(u.bytes)
  <2>1. Sense(u.bytes) \in Nat
    BY <1>2, <1>5, SenseType
  <2>2. ~IsCutOff(u)
    BY <1>2, <1>5 DEF IsCutOff
  <2>3. PICK s, k : s = OnPage(u.bytes) /\ k = InLog(u.bytes)
    OBVIOUS
  <2>4. u = Unit(u.bytes, s, k)
    BY <1>5, <2>3, Zenon DEF IsUnit
  <2>5. u.shown = s /\ u.kept = k
    BY <2>4 DEF Unit
  <2> QED BY <2>1, <2>2, <2>3, <2>5
<1>6. ASSUME IsCutOff(u)
      PROVE  u.shown = <<>> /\ u.kept = <<>>
  BY <1>6 DEF IsCutOff, Unit
<1> QED BY <1>1, <1>3, <1>4, <1>5, <1>6

LEMMA SensesType ==
    ASSUME NEW units, IsText(units)
    PROVE  /\ Len(units) \in Nat /\ DOMAIN units = 1 .. Len(units)
           /\ Senses(units) \in Seq(Seq(Nat)) /\ Len(Senses(units)) = Len(units)
           /\ [i \in DOMAIN units |-> units[i].kept] \in Seq(Seq(Bytes))
           /\ Len([i \in DOMAIN units |-> units[i].kept]) = Len(units)
           /\ KeptOf(units) \in Seq(Bytes)
<1>1. PICK n : n = Len(units)
  OBVIOUS
<1>2. n \in Nat /\ DOMAIN units = 1 .. n
  BY <1>1 DEF IsText
<1>3. ASSUME NEW i \in 1 .. n PROVE Sensed(units[i]) \in Seq(Nat) /\ units[i].kept \in Seq(Bytes)
  BY <1>1, UnitOrCutOff DEF Sensed
<1>4. PICK R, Q : R = Seq(Nat) /\ Q = Seq(Bytes)
  OBVIOUS
<1>5. PICK ss, ks : ss = Senses(units) /\ ks = [i \in DOMAIN units |-> units[i].kept]
  OBVIOUS
<1>6. ss \in [1 .. n -> R] /\ ks \in [1 .. n -> Q]
  BY <1>2, <1>3, <1>4, <1>5 DEF Senses
<1>7. ss \in Seq(R) /\ Len(ss) = n /\ ks \in Seq(Q) /\ Len(ks) = n
  BY <1>2, <1>6, IsSequence
<1>8. FlattenSeq(ks) \in Seq(Bytes)
  BY <1>4, <1>7, FlattenType
<1> QED BY <1>1, <1>2, <1>4, <1>5, <1>7, <1>8, Zenon DEF KeptOf

(* A text is decoded to what its units stand for.                          *)
LEMMA UnitsDecoded ==
    ASSUME NEW units, IsText(units)
    PROVE  Utf8Decode(BytesOf(units)) = FlattenSeq(Senses(units))
<1>1. PICK text : text = BytesOf(units) /\ text \in Seq(Bytes) /\ Len(text) \in Nat
  <2>1. BytesOf(units) \in Seq(Bytes)
    BY BytesOfType
  <2> QED BY <2>1
<1>2. PICK d : Decodes(d, text) /\ Utf8Decode(text) = FlattenSeq([i \in DOMAIN text |-> Reading(d[i])])
  BY <1>1, Utf8DecodeIs
<1>3. PICK pp, n : pp = [i \in DOMAIN text |-> Reading(d[i])] /\ n = Len(text)
  OBVIOUS
<1>4. DOMAIN text = 1 .. n /\ n \in Nat
  BY <1>1, <1>3
<1>5. ASSUME NEW i \in 1 .. n PROVE Reading(d[i]) \in Seq(Nat) /\ pp[i] = Reading(d[i])
  <2>1. d[i] \in States
    BY <1>2, <1>3, <1>4 DEF Decodes
  <2> QED BY <1>3, <1>4, <2>1, GlyphType DEF Reading
<1>6. pp \in Seq(Seq(Nat)) /\ Len(pp) = n
  <2>1. PICK R : R = Seq(Nat)
    OBVIOUS
  <2>2. pp \in [1 .. n -> R]
    BY <1>3, <1>4, <1>5, <2>1
  <2>3. pp \in Seq(R) /\ Len(pp) = n
    BY <1>4, <2>2, IsSequence
  <2> QED BY <2>1, <2>3
<1>7. PICK ww : ww = Senses(units)
  OBVIOUS
<1>8. ww \in Seq(Seq(Nat)) /\ Len(ww) = Len(units) /\ DOMAIN units = 1 .. Len(units)
  BY <1>7, SensesType
<1>9. MadeOf(pp, ww, units, text, d)
  <2>1. ASSUME NEW q \in 1 .. Len(text), Glyph(d[q]) = 0 PROVE pp[q] = <<>>
    BY <1>3, <1>5, <2>1 DEF Reading
  <2>2. ASSUME NEW i \in 1 .. Len(units), NEW q \in 1 .. Len(text),
               IsUnit(units[i]), Glyph(d[q]) = Sense(units[i].bytes)
        PROVE  pp[q] = ww[i]
    <3>1. pp[q] = Reading(d[q])
      BY <1>3, <1>5
    <3>2. ww[i] = Sensed(units[i])
      BY <1>7, <1>8, Zenon DEF Senses
    <3>3. PICK s : s = Sense(units[i].bytes) /\ s = Glyph(d[q])
      BY <2>2
    <3>4. Reading(d[q]) = IF s = 0 THEN <<>> ELSE <<s>>
      BY <3>3, Zenon DEF Reading
    <3>5. Sensed(units[i]) = IF s = 0 THEN <<>> ELSE <<s>>
      BY <2>2, <3>3, Zenon DEF Sensed
    <3> QED BY <3>1, <3>2, <3>4, <3>5
  <2>3. ASSUME NEW i \in 1 .. Len(units), IsCutOff(units[i]) PROVE ww[i] = <<>>
    <3>1. ~IsUnit(units[i])
      BY <2>3, UnitOrCutOff
    <3>2. ww[i] = Sensed(units[i])
      BY <1>7, <1>8, Zenon DEF Senses
    <3> QED BY <3>1, <3>2, Zenon DEF Sensed
  <2> QED BY <1>3, <1>6, <1>8, <2>1, <2>2, <2>3, Zenon DEF MadeOf
<1>10. FlattenSeq(pp) = FlattenSeq(ww)
  BY <1>1, <1>2, <1>6, <1>8, <1>9, UnitsFlatten
<1> QED BY <1>1, <1>2, <1>3, <1>7, <1>10, Zenon

(* ... and encoded again to what is kept of them,                          *)
LEMMA SensesEncoded ==
    ASSUME NEW units, IsText(units)
    PROVE  Utf8Encode(FlattenSeq(Senses(units))) = KeptOf(units)
<1>1. PICK ss, kk : ss = Senses(units) /\ kk = [i \in DOMAIN units |-> units[i].kept]
  OBVIOUS
<1>2. /\ ss \in Seq(Seq(Nat)) /\ Len(ss) = Len(units) /\ DOMAIN units = 1 .. Len(units)
      /\ kk \in Seq(Seq(Bytes)) /\ Len(kk) = Len(units)
  BY <1>1, SensesType
<1>3. ASSUME NEW i \in 1 .. Len(units) PROVE kk[i] = Utf8Encode(ss[i])
  <2>1. PICK u : u = units[i] /\ kk[i] = u.kept /\ ss[i] = Sensed(u)
    BY <1>1, <1>2, Zenon DEF Senses
  <2>2. CASE IsUnit(u)
    <3>1. PICK s \in Nat : s = Sense(u.bytes) /\ u.kept = InLog(u.bytes)
      BY <2>1, <2>2, UnitOrCutOff, Zenon
    <3>2. CASE s = 0
      <4>1. Sensed(u) = <<>> /\ u.kept = <<>>
        BY <2>2, <3>1, <3>2, KeptIs, Zenon DEF Sensed
      <4> QED BY <2>1, <4>1, EncodeOne, Zenon
    <3>3. CASE s # 0
      <4>1. Sensed(u) = <<s>> /\ u.kept = Utf32To8(s)
        BY <2>2, <3>1, <3>3, KeptIs, Zenon DEF Sensed
      <4> QED BY <2>1, <4>1, EncodeOne, Zenon
    <3> QED BY <3>2, <3>3, Zenon
  <2>3. CASE ~IsUnit(u)
    <3>1. u.kept = <<>>
      BY <2>1, <2>3, UnitOrCutOff, Zenon
    <3>2. Sensed(u) = <<>>
      BY <2>3, Zenon DEF Sensed
    <3> QED BY <2>1, <3>1, <3>2, EncodeOne, Zenon
  <2> QED BY <2>2, <2>3, Zenon
<1>4. Utf8Encode(FlattenSeq(ss)) = FlattenSeq(kk)
  BY <1>2, <1>3, EncodeFlatten
<1> QED BY <1>1, <1>4, Zenon DEF KeptOf

(* A text that goes through utf8_decode and utf8_encode, as the one of a   *)
(* LogStream may, comes back with what is to be kept of its units: they    *)
(* themselves, and a replacement character for each that is no UTF-8.      *)
THEOREM UnitsEncoded ==
    ASSUME NEW units, IsText(units)
    PROVE  Utf8Encode(Utf8Decode(BytesOf(units))) = KeptOf(units)
BY UnitsDecoded, SensesEncoded, Zenon

(* What can be encoded of a unit.                                          *)
SensedCodePoint(unit) ==
    IF Sensed(unit) # <<>> /\ IsCodePoint(Sense(unit.bytes)) THEN Sensed(unit) ELSE <<>>

LEMMA SensedCodePointIs ==
    ASSUME NEW units, IsText(units), NEW i \in 1 .. Len(units)
    PROVE  /\ SensedCodePoint(units[i]) \in Seq(Encodable)
           /\ SensedCodePoint(units[i]) \in Seq(Nat)
           /\ Utf8Encode(SensedCodePoint(units[i])) = units[i].kept
<1>1. PICK u : u = units[i]
  OBVIOUS
<1>2. IsUnit(u) => /\ Sense(u.bytes) \in Nat /\ u.kept = InLog(u.bytes)
  BY <1>1, UnitOrCutOff, Zenon
<1>3. ~IsUnit(u) => u.kept = <<>>
  BY <1>1, UnitOrCutOff, Zenon
<1>4. CASE ~IsUnit(u)
  <2>1. SensedCodePoint(u) = <<>>
    BY <1>4, Zenon DEF SensedCodePoint, Sensed
  <2> QED BY <1>1, <1>3, <1>4, <2>1, EncodeOne, Empty, Zenon
<1>5. CASE IsUnit(u)
  <2>1. PICK s \in Nat : s = Sense(u.bytes) /\ u.kept = IF s = 0 THEN <<>> ELSE Utf32To8(s)
    BY <1>2, <1>5, KeptIs, Zenon
  <2>2. Sensed(u) = IF s = 0 THEN <<>> ELSE <<s>>
    BY <1>5, <2>1, Zenon DEF Sensed
  <2>3. CASE s = 0
    <3>1. SensedCodePoint(u) = <<>> /\ u.kept = <<>>
      BY <2>1, <2>2, <2>3, Zenon DEF SensedCodePoint
    <3> QED BY <1>1, <3>1, EncodeOne, Empty, Zenon
  <2>4. CASE s # 0 /\ IsCodePoint(s)
    <3>1. Sensed(u) = <<s>> /\ <<s>> # <<>>
      BY <2>2, <2>4
    <3>2. SensedCodePoint(u) = <<s>>
      BY <2>1, <2>4, <3>1, Zenon DEF SensedCodePoint
    <3>3. s \in Encodable
      BY <2>4 DEF Encodable
    <3>4. <<s>> \in Seq(Encodable) /\ <<s>> \in Seq(Nat)
      BY <3>3
    <3>5. u.kept = Utf8Encode(<<s>>)
      BY <2>1, <2>4, EncodeOne, Zenon
    <3> QED BY <1>1, <3>2, <3>4, <3>5, Zenon
  <2>5. CASE s # 0 /\ ~IsCodePoint(s)
    <3>1. SensedCodePoint(u) = <<>>
      BY <2>1, <2>5, Zenon DEF SensedCodePoint
    <3>2. Utf32To8(s) = <<>>
      <4>1. s >= 1114112
        BY <2>5, SMT DEF IsCodePoint
      <4> QED BY <4>1, SMT DEF Utf32To8
    <3>3. u.kept = <<>>
      BY <2>1, <2>5, <3>2, Zenon
    <3> QED BY <1>1, <3>1, <3>3, EncodeOne, Empty, Zenon
  <2> QED BY <2>3, <2>4, <2>5, Zenon
<1> QED BY <1>4, <1>5

(* The two give back unchanged what they have given once, however broken   *)
(* the text was that they began with: the second conversion, of LogStream  *)
(* and then of its formatter, does no harm.                                *)
THEOREM EncodedTwice ==
    ASSUME NEW units, IsText(units)
    PROVE  Utf8Encode(Utf8Decode(KeptOf(units))) = KeptOf(units)
<1>1. PICK kk, n : kk = [i \in DOMAIN units |-> units[i].kept] /\ n = Len(units)
  OBVIOUS
<1>2. n \in Nat /\ DOMAIN units = 1 .. n /\ kk \in Seq(Seq(Bytes)) /\ Len(kk) = n
  BY <1>1, SensesType
<1>3. PICK ff : ff = [i \in 1 .. n |-> SensedCodePoint(units[i])]
  OBVIOUS
<1>4. PICK R, Q : R = Seq(Encodable) /\ Q = Seq(Nat)
  OBVIOUS
<1>5. ff \in [1 .. n -> R] /\ ff \in [1 .. n -> Q]
  BY <1>1, <1>3, <1>4, SensedCodePointIs
<1>6. ff \in Seq(R) /\ ff \in Seq(Q) /\ Len(ff) = n
  BY <1>2, <1>5, IsSequence
<1>7. ASSUME NEW i \in 1 .. n PROVE kk[i] = Utf8Encode(ff[i])
  BY <1>1, <1>2, <1>3, SensedCodePointIs, Zenon
<1>8. PICK g : g = FlattenSeq(ff) /\ g \in Seq(Encodable)
  BY <1>4, <1>6, FlattenType, Zenon
<1>9. Utf8Encode(g) = FlattenSeq(kk)
  <2>1. ff \in Seq(Seq(Nat)) /\ Len(kk) = Len(ff)
    BY <1>2, <1>4, <1>6, Zenon
  <2>2. \A i \in 1 .. Len(ff) : kk[i] = Utf8Encode(ff[i])
    BY <1>6, <1>7, Zenon
  <2> QED BY <1>2, <1>8, <2>1, <2>2, EncodeFlatten, Zenon
<1>10. Utf8Encode(g) = KeptOf(units)
  BY <1>1, <1>9, Zenon DEF KeptOf
<1>11. Utf8Decode(Utf8Encode(g)) = g
  BY <1>8, TextRoundTrip, Zenon
<1> QED BY <1>10, <1>11, Zenon

-----------------------------------------------------------------------------
(* What a stream has been told, use by use.                                *)

(* The format a stream is in between two calls, and that of a content.     *)
Style == IF job.kind = "page" THEN "HTML" ELSE "UTF8"
ContentOf(style) == IF style = "HTML" THEN "HTMLContent" ELSE style

(* What the bytes or the code points of a text become in a format.         *)
As(format, kind, text) == Converted(format, kind, ConvertState, text)
Encoded(text) == Utf8Encode(Utf8Decode(text))

(* What a use can come to.                                                 *)
Meanings(style, use) ==
    IF use.op = "markup" THEN {As(style, "bytes", <<LT>>)}
    ELSE IF use.op = "content" THEN {As(ContentOf(style), "bytes", use.text)}
    ELSE IF use.op = "line"
    THEN {As(style, "bytes", text) : text \in {use.text, Encoded(use.text), Printed(use.text)}}
         \cup {As(style, "glyphs", Utf8Decode(use.text))}
    ELSE IF use.op = "number" THEN {Digits(use.n)}
    ELSE {<<NEWLINE>>}

(* What the stream has, and what is on its way to it.                      *)
Total ==
    IF call = "none" THEN out
    ELSE out \o tmp \o Converted(m_generic_format, call, mbstate, rest)

(* What was said for each of the uses that are done.                       *)
Means(style, done, said) ==
    /\ done \in Seq(Uses) /\ said \in Seq(Seq(Bytes)) /\ Len(said) = Len(done)
    /\ \A i \in 1 .. Len(done) : said[i] \in Meanings(style, done[i])

(* The order of the map that holds the environment.                        *)
Ordered(keys) == \A i, j \in DOMAIN keys : i < j => Before(keys[i], keys[j])

(* All the uses there are.                                                 *)
Works ==
    IF job.kind = "page"
    THEN {QueryRows(Query(Env(env_map, QUERY_STRING))) \o EnvRows(keys) \o <<Markup>> :
             keys \in {k \in SetToSeqs(DOMAIN env_map) : Ordered(k)}}
    ELSE {FlattenSeq([i \in DOMAIN job.input |-> LineWork(job.input[i])])}

(* A stream has what the uses so far came to, with the rest of the call in *)
(* progress; they and those that are left are the whole work of the job.   *)
SaidInv ==
    /\ restore = Style /\ (call = "none" => m_generic_format = Style)
    /\ phase \in {"route", "handler"} => out = <<>> /\ call = "none"
    /\ job.kind = "page" /\ phase # "route" => env_map = EnvMap(job.input)
    /\ phase \in {"stream", "log", "done"} =>
          \E uses, said : uses \o work \in Works /\ Means(Style, uses, said)
                          /\ Total = FlattenSeq(said)
    /\ phase \in {"log", "done"} => call = "none" /\ work = <<>>

(* One use more.                                                           *)
Adds(style, use) ==
    \E meaning \in Meanings(style, use) : meaning \in Seq(Bytes) /\ Total' = Total \o meaning

(* A call of operator<< that has begun writes the conversion of its text.  *)
LEMMA BeginAdds ==
    ASSUME SInv, NEW kind \in {"bytes", "glyphs"}, NEW text \in Seq(Nat),
           kind = "bytes" => text \in Seq(Bytes),
           NEW format \in Formats, format # "Verbatim",
           NEW restored, Begin(kind, text, format, restored)
    PROVE  /\ Total' = Total \o As(format, kind, text)
           /\ As(format, kind, text) \in Seq(Bytes)
           /\ call' # "none" /\ restore' = restored
<1>1. FInv
  BY DEF SInv
<1>2. /\ call = "none" /\ call' = kind /\ call' # "none" /\ restore' = restored
      /\ m_generic_format' = format /\ rest' = text /\ out' = out
  BY DEF Begin
<1>3. TransparentStep
  BY <1>1, BeginTransparent, Zenon
<1>4. out' \o tmp' \o Converted(m_generic_format', call', mbstate', rest')
      = out \o Converted(m_generic_format', call', ConvertState, rest')
  BY <1>2, <1>3, Zenon DEF TransparentStep
<1>5. Total' = Total \o As(format, kind, text)
  BY <1>2, <1>4, Zenon DEF Total, As
<1>6. ConvertState \in States
  BY DEF ConvertState, Decoding, States
<1>7. Arguments(format, kind, ConvertState, text)
  BY <1>6 DEF Arguments
<1>8. As(format, kind, text) \in Seq(Bytes)
  <2>1. PICK f : /\ Converts(f, format, kind, ConvertState, text)
                 /\ Converted(format, kind, ConvertState, text) = f[Len(text)].text
    BY <1>7, ConvertedIs, Zenon
  <2>2. Len(text) \in 0 .. Len(text)
    OBVIOUS
  <2>3. f[Len(text)] \in Conversions
    BY <2>1, <2>2, Zenon DEF Converts
  <2> QED BY <2>1, <2>3, ConversionType, Zenon DEF As
<1> QED BY <1>2, <1>5, <1>8, Zenon

LEMMA StyleIs == Style \in Formats /\ Style # "Verbatim" /\ ContentOf(Style) \in Formats
                 /\ ContentOf(Style) # "Verbatim"
BY DEF Style, ContentOf, Formats

LEMMA PlainAdds ==
    ASSUME NEW text, AppendPlain(text)
    PROVE  Total' = Total \o text /\ UNCHANGED <<restore, call, m_generic_format>>
BY DEF AppendPlain, Total

LEMMA EmptyConversion ==
    ASSUME NEW format \in Formats, NEW kind
    PROVE  As(format, kind, <<>>) = <<>>
<1>1. ConvertState \in States
  BY DEF ConvertState, Decoding, States
<1> QED BY <1>1, ConvertedNothing DEF As

LEMMA PrintedEmpty == Printed(<<>>) = <<>>
<1>1. Len(<<>>) # TmpSize
  BY BufferAssumption
<1> QED BY <1>1 DEF Printed

LEMMA WriteAdds ==
    ASSUME SInv, SaidInv,
           \/ WriteMarkup \/ WriteContent \/ WriteBytes \/ WriteGlyphs
           \/ WriteEncoded \/ WritePrintf \/ WriteNumber \/ WriteNewline
    PROVE  Adds(Style, Head(work)) /\ restore' = Style /\ (call' = "none" => m_generic_format' = Style)
<1>1. PICK use : use = Head(work)
  OBVIOUS
<1>2. use \in Uses
  <2>1. \E op : Use(op)
    BY DEF WriteMarkup, WriteContent, WriteBytes, WriteGlyphs, WriteEncoded, WritePrintf,
           WriteNumber, WriteNewline
  <2> QED BY <1>1, <2>1, UseStep
<1>3. call = "none" /\ m_generic_format = Style /\ restore = Style /\ out \in Seq(Bytes)
  BY FInvTypes DEF WriteMarkup, WriteContent, WriteBytes, WriteGlyphs, WriteEncoded, WritePrintf,
         WriteNumber, WriteNewline, Use, SaidInv, SInv
<1>4. ASSUME NEW text \in Seq(Bytes), AppendBytes(text)
      PROVE  /\ Total' = Total \o As(Style, "bytes", text) /\ As(Style, "bytes", text) \in Seq(Bytes)
             /\ call' # "none" /\ restore' = Style
  <2>1. Begin("bytes", text, Style, Style)
    BY <1>3, <1>4, Zenon DEF AppendBytes
  <2>2. text \in Seq(Nat)
    BY BytesAreNumbers
  <2> QED BY <2>1, <2>2, StyleIs, BeginAdds
<1>5. CASE WriteMarkup
  <2>1. use.op = "markup" /\ AppendBytes(<<LT>>)
    BY <1>1, <1>5, Zenon DEF WriteMarkup, Use
  <2>2. <<LT>> \in Seq(Bytes)
    BY DEF LT, Bytes
  <2>3. As(Style, "bytes", <<LT>>) \in Meanings(Style, use)
    BY <2>1, Zenon DEF Meanings
  <2> QED BY <1>1, <1>4, <2>1, <2>2, <2>3, Zenon DEF Adds
<1>6. CASE WriteContent
  <2>1. use.op = "content" /\ AppendContent(use.text)
    BY <1>1, <1>6, Zenon DEF WriteContent, Use
  <2>2. use.text \in Seq(Bytes) /\ use.text \in Seq(Nat)
    BY <1>2, <2>1, UseIs, BytesAreNumbers
  <2>3. Begin("bytes", use.text, ContentOf(Style), Style)
    BY <1>3, <2>1, Zenon DEF AppendContent, ContentOf
  <2>4. As(ContentOf(Style), "bytes", use.text) \in Meanings(Style, use)
    <3>1. use.op # "markup"
      BY <2>1
    <3> QED BY <2>1, <3>1, Zenon DEF Meanings
  <2>5. /\ Total' = Total \o As(ContentOf(Style), "bytes", use.text)
        /\ As(ContentOf(Style), "bytes", use.text) \in Seq(Bytes)
        /\ call' # "none" /\ restore' = Style
    BY <2>2, <2>3, StyleIs, BeginAdds
  <2> QED BY <1>1, <2>4, <2>5, Zenon DEF Adds
<1>7. CASE WriteBytes \/ WriteGlyphs \/ WriteEncoded \/ WritePrintf
  <2>1. use.op = "line"
    BY <1>1, <1>7, Zenon DEF WriteBytes, WriteGlyphs, WriteEncoded, WritePrintf, Use
  <2>2. use.text \in Seq(Bytes)
    BY <1>2, <2>1, UseIs
  <2>3. Utf8Decode(use.text) \in Seq(Nat) /\ Encoded(use.text) \in Seq(Bytes)
        /\ Printed(use.text) \in Seq(Bytes)
    BY <2>2, Utf8DecodeType, Utf8EncodeType, PrintedType, Zenon DEF Encoded
  <2>4. /\ \A text \in {use.text, Encoded(use.text), Printed(use.text)} :
              As(Style, "bytes", text) \in Meanings(Style, use)
        /\ As(Style, "glyphs", Utf8Decode(use.text)) \in Meanings(Style, use)
    <3>1. use.op # "markup" /\ use.op # "content"
      BY <2>1
    <3> QED BY <2>1, <3>1, Zenon DEF Meanings
  <2>5. CASE \E text \in {use.text, Encoded(use.text), Printed(use.text)} : AppendBytes(text)
    BY <1>1, <1>4, <2>2, <2>3, <2>4, <2>5, Zenon DEF Adds
  <2>6. CASE WriteGlyphs
    <3>1. Begin("glyphs", Utf8Decode(use.text), Style, Style)
      BY <1>1, <1>3, <2>6, Zenon DEF WriteGlyphs, AppendGlyphs
    <3>2. /\ Total' = Total \o As(Style, "glyphs", Utf8Decode(use.text))
          /\ As(Style, "glyphs", Utf8Decode(use.text)) \in Seq(Bytes)
          /\ call' # "none" /\ restore' = Style
      BY <2>3, <3>1, StyleIs, BeginAdds
    <3> QED BY <1>1, <2>4, <3>2, Zenon DEF Adds
  <2>7. CASE WritePrintf /\ use.text = <<>>
    <3>1. UNCHANGED formatterVars
      BY <1>1, <2>7, Zenon DEF WritePrintf, Printf
    <3>2. As(Style, "bytes", Printed(use.text)) = <<>>
      BY <2>7, PrintedEmpty, EmptyConversion, StyleIs, Zenon
    <3>3. Total' = out /\ Total = out /\ restore' = Style /\ m_generic_format' = Style
      BY <1>3, <3>1, Zenon DEF Total, formatterVars
    <3>4. Total \o <<>> = Total
      BY <1>3, <3>3, ConcatEmptySeq
    <3> QED BY <1>1, <2>4, <3>2, <3>3, <3>4, Empty, Zenon DEF Adds
  <2> QED BY <1>1, <1>7, <2>5, <2>6, <2>7, Zenon
          DEF WriteBytes, WriteEncoded, WritePrintf, Printf, Encoded
<1>8. CASE WriteNumber
  <2>1. use.op = "number" /\ AppendPlain(Digits(use.n))
    BY <1>1, <1>8, Zenon DEF WriteNumber, Use
  <2>2. Digits(use.n) \in Seq(Bytes)
    BY <1>2, <2>1, UseIs, DigitsType
  <2>3. Digits(use.n) \in Meanings(Style, use)
    <3>1. use.op # "markup" /\ use.op # "content" /\ use.op # "line"
      BY <2>1
    <3> QED BY <2>1, <3>1, Zenon DEF Meanings
  <2> QED BY <1>1, <1>3, <2>1, <2>2, <2>3, PlainAdds, Zenon DEF Adds
<1>9. CASE WriteNewline
  <2>1. use.op = "newline" /\ AppendPlain(<<NEWLINE>>)
    BY <1>1, <1>9, Zenon DEF WriteNewline, Use
  <2>2. <<NEWLINE>> \in Seq(Bytes)
    BY DEF NEWLINE, Bytes
  <2>3. <<NEWLINE>> \in Meanings(Style, use)
    <3>1. use.op # "markup" /\ use.op # "content" /\ use.op # "line" /\ use.op # "number"
      BY <2>1
    <3> QED BY <3>1, Zenon DEF Meanings
  <2> QED BY <1>1, <1>3, <2>1, <2>2, <2>3, PlainAdds, Zenon DEF Adds
<1> QED BY <1>5, <1>6, <1>7, <1>8, <1>9, Zenon

LEMMA UsesAssociative ==
    \A s, t, u \in Seq(Uses) : (s \o t) \o u = s \o (t \o u)
BY ConcatAssociative

LEMMA UseSaid ==
    ASSUME SInv, SaidInv, NEW op, Use(op), Adds(Style, Head(work)),
           restore' = Style, call' = "none" => m_generic_format' = Style
    PROVE  SaidInv'
<1>1. /\ job' = job /\ phase' = phase /\ phase = "stream" /\ env_map' = env_map
      /\ work # <<>> /\ work' = Tail(work)
  BY DEF Use, requestVars
<1>2. Style' = Style /\ Works' = Works
  BY <1>1 DEF Style, Works, EnvRows
<1>3. PICK use, uses, said : /\ use = Head(work) /\ uses \o work \in Works
                             /\ Means(Style, uses, said) /\ Total = FlattenSeq(said)
  BY <1>1, Zenon DEF SaidInv
<1>4. PICK meaning \in Meanings(Style, use) : meaning \in Seq(Bytes) /\ Total' = Total \o meaning
  BY <1>3, Zenon DEF Adds
<1>5. work \in Seq(Uses) /\ use \in Uses /\ work' \in Seq(Uses) /\ uses \in Seq(Uses)
  <2>1. work \in Seq(Uses)
    BY DEF SInv, StreamsInv
  <2>2. uses \in Seq(Uses)
    BY <1>3, Zenon DEF Means
  <2> QED BY <1>1, <1>3, <2>1, <2>2
<1>6. PICK more, all : more = uses \o <<use>> /\ all = said \o <<meaning>>
  OBVIOUS
<1>7. more \o work' = uses \o work
  <2>1. work = <<use>> \o work'
    <3>1. PICK w, u : w = work /\ u = work' /\ w \in Seq(Uses) /\ w # <<>> /\ u = Tail(w)
                      /\ use = Head(w)
      BY <1>1, <1>3, <1>5
    <3>2. w = <<use>> \o u
      BY <3>1
    <3> QED BY <3>1, <3>2
  <2>2. <<use>> \in Seq(Uses)
    BY <1>5
  <2>3. (uses \o <<use>>) \o work' = uses \o (<<use>> \o work')
    <3>1. PICK a, b, c : a = uses /\ b = <<use>> /\ c = work'
                         /\ a \in Seq(Uses) /\ b \in Seq(Uses) /\ c \in Seq(Uses)
      BY <1>5, <2>2
    <3>2. (a \o b) \o c = a \o (b \o c)
      BY <3>1, UsesAssociative
    <3> QED BY <3>1, <3>2, Zenon
  <2> QED BY <1>6, <2>1, <2>3, Zenon
<1>8. /\ more \in Seq(Uses) /\ Len(more) = Len(uses) + 1 /\ Len(uses) \in Nat
      /\ \A i \in 1 .. Len(uses) : more[i] = uses[i]
      /\ more[Len(uses) + 1] = use
  BY <1>5, <1>6
<1>9. /\ said \in Seq(Seq(Bytes)) /\ Len(said) = Len(uses)
      /\ \A i \in 1 .. Len(uses) : said[i] \in Meanings(Style, uses[i])
  BY <1>3, Zenon DEF Means
<1>10. /\ all \in Seq(Seq(Bytes)) /\ Len(all) = Len(uses) + 1
       /\ \A i \in 1 .. Len(uses) : all[i] = said[i]
       /\ all[Len(uses) + 1] = meaning
  <2>1. PICK R : R = Seq(Bytes)
    OBVIOUS
  <2>2. said \in Seq(R) /\ meaning \in R
    BY <1>4, <1>9, <2>1, Zenon
  <2>3. /\ all \in Seq(R) /\ Len(all) = Len(said) + 1
        /\ \A i \in 1 .. Len(said) : all[i] = said[i]
        /\ all[Len(said) + 1] = meaning
    BY <1>6, <2>2
  <2> QED BY <1>9, <2>1, <2>3, Zenon
<1>11. Means(Style, more, all)
  <2>1. ASSUME NEW i \in 1 .. Len(more) PROVE all[i] \in Meanings(Style, more[i])
    <3>1. i \in 1 .. Len(uses) \/ i = Len(uses) + 1
      BY <1>8
    <3> QED BY <1>4, <1>8, <1>9, <1>10, <3>1, Zenon
  <2> QED BY <1>8, <1>10, <2>1, Zenon DEF Means
<1>12. FlattenSeq(all) = FlattenSeq(said) \o meaning
  <2>1. PICK R : R = Seq(Bytes)
    OBVIOUS
  <2>2. <<meaning>> \in Seq(R)
    BY <1>4, <2>1
  <2>3. FlattenSeq(said \o <<meaning>>) = FlattenSeq(said) \o FlattenSeq(<<meaning>>)
    BY <1>9, <2>1, <2>2, FlattenConcat
  <2>4. FlattenSeq(<<meaning>>) = meaning
    BY <1>4, FlattenOne
  <2> QED BY <1>6, <2>3, <2>4, Zenon
<1>13. Total' = FlattenSeq(all)
  BY <1>3, <1>4, <1>12, Zenon
<1>14. more \o work' \in Works'
  BY <1>2, <1>3, <1>7, Zenon
<1>15. /\ phase' = "stream" /\ phase' # "route" /\ phase' # "handler"
       /\ phase' # "log" /\ phase' # "done"
  BY <1>1
<1>16. job'.kind = "page" /\ phase' # "route" => env_map' = EnvMap(job'.input)
  BY <1>1 DEF SaidInv
<1> QED BY <1>2, <1>11, <1>13, <1>14, <1>15, <1>16 DEF SaidInv

LEMMA FormatSaid ==
    ASSUME SInv, SaidInv, Format
    PROVE  SaidInv'
<1>1. /\ UNCHANGED <<job, phase, env_map, work>> /\ FormatterStep
      /\ UNCHANGED restore
  BY DEF Format, requestVars, FormatterStep, FormatNext, EndCall
<1>2. Style' = Style /\ Works' = Works
  BY <1>1 DEF Style, Works, EnvRows
<1>3. TransparentStep
  BY <1>1, FormatNextTransparent, EndCallTransparent, Zenon DEF FormatterStep, SInv
<1>4. call # "none" /\ (call' = "none" => m_generic_format' = restore)
  <2>1. CASE FormatNext
    BY <2>1 DEF SInv, FInv, BufferInv, FormatNext
  <2>2. CASE EndCall
    BY <2>2 DEF EndCall
  <2> QED BY <1>1, <2>1, <2>2 DEF FormatterStep
<1>5. Total' = Total
  <2>1. CASE call' = "none"
    BY <1>3, <1>4, <2>1, Zenon DEF TransparentStep, Total
  <2>2. CASE call' # "none"
    BY <1>3, <1>4, <2>2, Zenon DEF TransparentStep, Total
  <2> QED BY <2>1, <2>2
<1>6. phase = "stream"
  BY <1>4 DEF SaidInv, SInv, StreamsInv
<1> QED BY <1>1, <1>2, <1>4, <1>5, <1>6 DEF SaidInv

LEMMA HelloWorldSaid ==
    ASSUME SInv, SaidInv, HelloWorld
    PROVE  SaidInv'
<1>1. /\ UNCHANGED <<job, env_map, restore, call, m_generic_format, out>>
      /\ phase = "handler" /\ phase' = "stream"
  BY DEF HelloWorld, formatterVars, requestVars
<1>2. job.kind = "page" /\ call = "none" /\ out = <<>>
  BY <1>1 DEF SInv, StreamsInv, SaidInv
<1>3. Style' = Style /\ Works' = Works
  BY <1>1 DEF Style, Works, EnvRows
<1>4. work' \in Works
  BY <1>2, Zenon DEF HelloWorld, Works, Ordered
<1>5. work' \in Seq(Uses)
  BY HelloWorldStep DEF StreamsInv
<1>6. <<>> \o work' = work'
  BY <1>5, ConcatEmptySeq
<1>7. Means(Style, <<>>, <<>>)
  <2>1. <<>> \in Seq(Uses) /\ <<>> \in Seq(Seq(Bytes)) /\ Len(<<>>) = 0
    <3>1. \A S : <<>> \in Seq(S)
      BY Empty
    <3>2. Len(<<>>) = 0
      OBVIOUS
    <3> QED BY <3>1, <3>2, Zenon
  <2>2. \A i \in 1 .. 0 : FALSE
    OBVIOUS
  <2> QED BY <2>1, <2>2, Zenon DEF Means
<1>8. Total' = FlattenSeq(<<>>)
  <2>1. <<>> \in Seq(Bytes)
    BY Empty, Zenon
  <2>2. FlattenSeq(<<>>) = <<>>
    BY <2>1, FlattenOne
  <2> QED BY <1>1, <1>2, <2>2 DEF Total
<1>9. \E uses, said : uses \o work' \in Works /\ Means(Style, uses, said) /\ Total' = FlattenSeq(said)
  BY <1>4, <1>6, <1>7, <1>8, Zenon
<1> QED BY <1>1, <1>2, <1>3, <1>9 DEF SaidInv

LEMMA InitSaid ==
    ASSUME Init
    PROVE  SaidInv
<1>1. SInv
  BY InitSInv
<1>2. CASE job.kind = "page"
  BY <1>2 DEF Init, FormatterInit, SaidInv, Style
<1>3. CASE job.kind # "page"
  <2>1. /\ phase = "stream" /\ call = "none" /\ out = <<>> /\ restore = "UTF8"
        /\ m_generic_format = "UTF8"
        /\ work = FlattenSeq([i \in DOMAIN job.input |-> LineWork(job.input[i])])
    BY <1>3 DEF Init, FormatterInit
  <2>2. work \in Works /\ work \in Seq(Uses)
    BY <1>1, <1>3, <2>1 DEF Works, SInv, StreamsInv
  <2>3. <<>> \o work = work
    BY <2>2, ConcatEmptySeq
  <2>4. Means(Style, <<>>, <<>>)
    <3>1. <<>> \in Seq(Uses) /\ <<>> \in Seq(Seq(Bytes)) /\ Len(<<>>) = 0
      <4>1. \A S : <<>> \in Seq(S)
        BY Empty
      <4>2. Len(<<>>) = 0
        OBVIOUS
      <4> QED BY <4>1, <4>2, Zenon
    <3>2. \A i \in 1 .. 0 : FALSE
      OBVIOUS
    <3> QED BY <3>1, <3>2, Zenon DEF Means
  <2>5. Total = FlattenSeq(<<>>)
    <3>1. <<>> \in Seq(Bytes)
      BY Empty, Zenon
    <3>2. FlattenSeq(<<>>) = <<>>
      BY <3>1, FlattenOne
    <3> QED BY <2>1, <3>2 DEF Total
  <2>6. \E uses, said : uses \o work \in Works /\ Means(Style, uses, said) /\ Total = FlattenSeq(said)
    BY <2>2, <2>3, <2>4, <2>5, Zenon
  <2> QED BY <1>3, <2>1, <2>6 DEF SaidInv, Style
<1> QED BY <1>2, <1>3

LEMMA NextSaid ==
    ASSUME SInv, SaidInv, [Next]_vars
    PROVE  SaidInv'
<1>1. CASE \/ WriteMarkup \/ WriteContent \/ WriteBytes \/ WriteGlyphs
           \/ WriteEncoded \/ WritePrintf \/ WriteNumber \/ WriteNewline
  <2>1. \E op : Use(op)
    BY <1>1 DEF WriteMarkup, WriteContent, WriteBytes, WriteGlyphs, WriteEncoded, WritePrintf,
           WriteNumber, WriteNewline
  <2> QED BY <1>1, <2>1, WriteAdds, UseSaid
<1>2. CASE Format
  BY <1>2, FormatSaid
<1>3. CASE HelloWorld
  BY <1>3, HelloWorldSaid
<1>4. CASE ReadRoute
  BY <1>4 DEF ReadRoute, SaidInv, formatterVars, Style
<1>5. ASSUME UNCHANGED <<formatterVars, job, env_map, work>>,
             \/ phase' = phase
             \/ phase = "stream" /\ phase' \in {"log", "done"} /\ call = "none" /\ work = <<>>
             \/ phase = "log" /\ phase' = "done"
      PROVE  SaidInv'
  <2>1. Style' = Style /\ Works' = Works /\ Total' = Total
    BY <1>5 DEF Style, Works, EnvRows, Total, formatterVars
  <2>2. UNCHANGED <<restore, call, m_generic_format, out, work, job, env_map>>
    BY <1>5 DEF formatterVars
  <2> QED BY <1>5, <2>1, <2>2 DEF SaidInv
<1>6. CASE PageEnds \/ LogStreamEnds \/ LogLine \/ LogReturns \/ Done \/ UNCHANGED vars
  <2>1. /\ UNCHANGED <<formatterVars, job, env_map, work>>
        /\ \/ phase' = phase
           \/ phase = "stream" /\ phase' \in {"log", "done"} /\ call = "none" /\ work = <<>>
           \/ phase = "log" /\ phase' = "done"
    BY <1>6 DEF PageEnds, LogStreamEnds, StreamEnds, LogLine, LogReturns, Done, vars, requestVars
  <2> QED BY <1>5, <2>1
<1> QED BY <1>1, <1>2, <1>3, <1>4, <1>6 DEF Next

(* At its end a stream has what each of its uses came to, in the order of  *)
(* the uses.                                                               *)
THEOREM StreamHasWhatItWasTold == Spec => []SaidInv
<1>1. Init => SaidInv
  BY InitSaid
<1>2. SInv /\ SaidInv /\ [Next]_vars => SaidInv'
  BY NextSaid
<1> QED BY <1>1, <1>2, StreamsInvariant, PTL DEF Spec
-----------------------------------------------------------------------------
(* A line of a message, whichever way it has been written.                 *)

LEMMA ConcatIs ==
    ASSUME NEW R, NEW s \in Seq(R), NEW t \in Seq(R), NEW w \in Seq(R),
           Len(w) = Len(s) + Len(t),
           \A i \in 1 .. Len(s) : w[i] = s[i],
           \A i \in Len(s) + 1 .. Len(w) : w[i] = t[i - Len(s)]
    PROVE  w = s \o t
<1>1. PICK m, n : m \in Nat /\ n \in Nat /\ m = Len(s) /\ n = Len(t)
  BY SequenceIs, Zenon
<1>2. PICK u : u = s \o t /\ u \in Seq(R)
  BY Concat
<1>3. /\ Len(u) = m + n /\ (\A k \in 1 .. m : u[k] = s[k]) /\ \A k \in 1 .. n : u[m + k] = t[k]
  BY <1>1, <1>2, ConcatAt
<1>4. ASSUME NEW i \in 1 .. m + n PROVE w[i] = u[i]
  <2>1. CASE i <= m
    BY <1>1, <1>3, <2>1
  <2>2. CASE i > m
    <3>1. i - m \in 1 .. n /\ m + (i - m) = i /\ i \in m + 1 .. m + n
      BY <1>1, <2>2
    <3> QED BY <1>1, <1>3, <3>1
  <2> QED BY <1>1, <2>1, <2>2
<1>5. Len(w) = Len(u) /\ \A i \in 1 .. Len(w) : w[i] = u[i]
  BY <1>1, <1>3, <1>4
<1>6. w = u
  BY <1>2, <1>5, SeqEqual
<1> QED BY <1>2, <1>6

(* The units of two texts, one behind the other.                           *)
LEMMA BytesOfConcat ==
    ASSUME NEW u \in Seq(UnitRecords), NEW v \in Seq(UnitRecords)
    PROVE  /\ BytesOf(u \o v) = BytesOf(u) \o BytesOf(v)
           /\ KeptOf(u \o v) = KeptOf(u) \o KeptOf(v)
           /\ BytesOf(u) \in Seq(Bytes) /\ KeptOf(u) \in Seq(Bytes)
<1>1. ASSUME NEW w \in Seq(UnitRecords)
      PROVE  /\ [i \in DOMAIN w |-> w[i].bytes] \in Seq(Seq(Bytes))
             /\ [i \in DOMAIN w |-> w[i].kept] \in Seq(Seq(Bytes))
  <2>1. PICK R : R = Seq(Bytes)
    OBVIOUS
  <2>2. ASSUME NEW i \in 1 .. Len(w) PROVE w[i].bytes \in R /\ w[i].kept \in R
    <3>1. w[i] \in UnitRecords
      BY Element
    <3> QED BY <2>1, <3>1 DEF UnitRecords
  <2>3. PICK n \in Nat : n = Len(w) /\ DOMAIN w = 1 .. n
    OBVIOUS
  <2>4. PICK b, k : b = [i \in DOMAIN w |-> w[i].bytes] /\ k = [i \in DOMAIN w |-> w[i].kept]
    OBVIOUS
  <2>5. b \in [1 .. n -> R] /\ k \in [1 .. n -> R]
    BY <2>2, <2>3, <2>4
  <2>6. b \in Seq(R) /\ k \in Seq(R)
    BY <2>3, <2>5, IsSequence
  <2> QED BY <2>1, <2>4, <2>6, Zenon
<1>2. PICK m, n, w : m = Len(u) /\ n = Len(v) /\ w = u \o v
  OBVIOUS
<1>3. /\ m \in Nat /\ n \in Nat /\ w \in Seq(UnitRecords) /\ Len(w) = m + n
      /\ DOMAIN u = 1 .. m /\ DOMAIN v = 1 .. n /\ DOMAIN w = 1 .. m + n
      /\ \A i \in 1 .. m : w[i] = u[i]
      /\ \A i \in m + 1 .. m + n : w[i] = v[i - m]
  BY <1>2
<1>4. PICK bu, bv, bw : /\ bu = [i \in DOMAIN u |-> u[i].bytes]
                        /\ bv = [i \in DOMAIN v |-> v[i].bytes]
                        /\ bw = [i \in DOMAIN w |-> w[i].bytes]
  OBVIOUS
<1>5. PICK ku, kv, kw : /\ ku = [i \in DOMAIN u |-> u[i].kept]
                        /\ kv = [i \in DOMAIN v |-> v[i].kept]
                        /\ kw = [i \in DOMAIN w |-> w[i].kept]
  OBVIOUS
<1>6. PICK R : R = Seq(Bytes)
  OBVIOUS
<1>7. /\ bu \in Seq(R) /\ bv \in Seq(R) /\ bw \in Seq(R)
      /\ ku \in Seq(R) /\ kv \in Seq(R) /\ kw \in Seq(R)
  BY <1>1, <1>3, <1>4, <1>5, <1>6, Zenon
<1>8. bw = bu \o bv
  <2>1. Len(bu) = m /\ Len(bv) = n /\ Len(bw) = m + n
    BY <1>3, <1>4, <1>7
  <2>2. \A i \in 1 .. m : bw[i] = bu[i]
    BY <1>3, <1>4
  <2>3. \A i \in m + 1 .. m + n : bw[i] = bv[i - m]
    BY <1>3, <1>4
  <2> QED BY <1>7, <2>1, <2>2, <2>3, ConcatIs
<1>9. kw = ku \o kv
  <2>1. Len(ku) = m /\ Len(kv) = n /\ Len(kw) = m + n
    BY <1>3, <1>5, <1>7
  <2>2. \A i \in 1 .. m : kw[i] = ku[i]
    BY <1>3, <1>5
  <2>3. \A i \in m + 1 .. m + n : kw[i] = kv[i - m]
    BY <1>3, <1>5
  <2> QED BY <1>7, <2>1, <2>2, <2>3, ConcatIs
<1>10. bu \in Seq(Seq(Bytes)) /\ bv \in Seq(Seq(Bytes)) /\ ku \in Seq(Seq(Bytes)) /\ kv \in Seq(Seq(Bytes))
  BY <1>6, <1>7, Zenon
<1>11. /\ FlattenSeq(bw) = FlattenSeq(bu) \o FlattenSeq(bv)
       /\ FlattenSeq(kw) = FlattenSeq(ku) \o FlattenSeq(kv)
  BY <1>8, <1>9, <1>10, FlattenConcat, Zenon
<1>12. FlattenSeq(bu) \in Seq(Bytes) /\ FlattenSeq(ku) \in Seq(Bytes)
  BY <1>10, FlattenType, Zenon
<1> QED BY <1>2, <1>4, <1>5, <1>11, <1>12, Zenon DEF BytesOf, KeptOf

LEMMA OneUnit ==
    ASSUME NEW u \in UnitRecords
    PROVE  BytesOf(<<u>>) = u.bytes /\ KeptOf(<<u>>) = u.kept /\ BytesOf(<<>>) = <<>> /\ KeptOf(<<>>) = <<>>
<1>1. u.bytes \in Seq(Bytes) /\ u.kept \in Seq(Bytes)
  BY DEF UnitRecords
<1>2. /\ [i \in DOMAIN <<u>> |-> <<u>>[i].bytes] = <<u.bytes>>
      /\ [i \in DOMAIN <<u>> |-> <<u>>[i].kept] = <<u.kept>>
      /\ [i \in DOMAIN <<>> |-> <<>>[i].bytes] = <<>>
      /\ [i \in DOMAIN <<>> |-> <<>>[i].kept] = <<>>
  OBVIOUS
<1> QED BY <1>1, <1>2, FlattenOne, Zenon DEF BytesOf, KeptOf

(* A text without its last unit.                                           *)
LEMMA WithoutLastUnit ==
    ASSUME NEW units \in Seq(UnitRecords), units # <<>>
    PROVE  /\ Front(units) \in Seq(UnitRecords) /\ Len(Front(units)) = Len(units) - 1
           /\ \A i \in 1 .. Len(units) - 1 : Front(units)[i] = units[i]
           /\ Last(units) \in UnitRecords /\ Last(units) = units[Len(units)]
           /\ units = Front(units) \o <<Last(units)>>
BY DEF Front, Last

(* What is kept of a unit is one byte, or no ASCII.                        *)
Solid(unit) ==
    \/ Len(unit.kept) = 1
    \/ \A k \in 1 .. Len(unit.kept) : unit.kept[k] > 127

LEMMA HighBytes ==
    ASSUME NEW glyph \in Nat, glyph >= 128
    PROVE  \A k \in 1 .. Len(Utf32To8(glyph)) : Utf32To8(glyph)[k] > 127
<1>1. /\ glyph \div 64 \in Nat /\ glyph \div 4096 \in Nat /\ glyph \div 262144 \in Nat
  BY SixBits
<1>2. ASSUME NEW n \in Nat PROVE Continuation(n) > 127
  BY SMT DEF Continuation
<1>3. PICK c1, c2, c3, d1, d2, d3 :
         /\ c1 = Continuation(glyph) /\ c2 = Continuation(glyph \div 64)
         /\ c3 = Continuation(glyph \div 4096)
         /\ d1 = 192 + (glyph \div 64) /\ d2 = 224 + (glyph \div 4096)
         /\ d3 = 240 + (glyph \div 262144)
  OBVIOUS
<1>4. /\ c1 > 127 /\ c2 > 127 /\ c3 > 127
  BY <1>1, <1>2, <1>3
<1>5. d1 > 127 /\ d2 > 127 /\ d3 > 127
  BY <1>1, <1>3, SMT
<1>6. Utf32To8(glyph) \in {<<d1, c1>>, <<d2, c2, c1>>, <<d3, c3, c2, c1>>, <<>>}
  <2>1. ~(glyph < 128)
    OBVIOUS
  <2>2. \/ Utf32To8(glyph) = <<192 + (glyph \div 64), Continuation(glyph)>>
        \/ Utf32To8(glyph) = <<224 + (glyph \div 4096), Continuation(glyph \div 64),
                               Continuation(glyph)>>
        \/ Utf32To8(glyph) = <<240 + (glyph \div 262144), Continuation(glyph \div 4096),
                               Continuation(glyph \div 64), Continuation(glyph)>>
        \/ Utf32To8(glyph) = <<>>
    BY <2>1, SMT DEF Utf32To8
  <2> QED BY <1>3, <2>2, SMT
<1>7. ASSUME NEW s \in {<<d1, c1>>, <<d2, c2, c1>>, <<d3, c3, c2, c1>>, <<>>}
      PROVE  \A k \in 1 .. Len(s) : s[k] > 127
  BY <1>4, <1>5
<1> QED BY <1>6, <1>7, Zenon

LEMMA ReplacementIs == Replacement \in Nat /\ Replacement >= 128 /\ Replacement # 0
BY DEF Replacement

LEMMA InLogIs ==
    ASSUME NEW b, Sense(b) \in Nat
    PROVE  /\ InLog(b) \in Seq(Bytes)
           /\ Len(InLog(b)) = 1 \/ \A k \in 1 .. Len(InLog(b)) : InLog(b)[k] > 127
<1>1. PICK s \in Nat : s = Sense(b) /\ InLog(b) = IF s = 0 THEN <<>> ELSE Utf32To8(s)
  BY KeptIs, Zenon
<1>2. CASE s = 0
  BY <1>1, <1>2
<1>3. CASE s > 0 /\ s < 128
  <2>1. InLog(b) = <<s>>
    BY <1>1, <1>3 DEF Utf32To8
  <2>2. s \in Bytes
    BY <1>3 DEF Bytes
  <2> QED BY <2>1, <2>2
<1>4. CASE s >= 128
  <2>1. PICK e : e = Utf32To8(s)
    OBVIOUS
  <2>2. InLog(b) = e
    BY <1>1, <1>4, <2>1
  <2> QED BY <1>4, <2>1, <2>2, HighBytes, EncodeType, Zenon
<1> QED BY <1>2, <1>3, <1>4

LEMMA OneOrMore == \A m \in Nat : m > 0 => 1 <= 1 /\ (m > 1 \/ m = 1)
OBVIOUS

LEMMA WithoutLastIs ==
    ASSUME NEW u \in UnitRecords, u.bytes # <<>>, Len(u.bytes) <= SequenceLength(u.bytes[1])
    PROVE  /\ WithoutLast(u) \in UnitRecords
           /\ WithoutLast(u).bytes = [u.bytes EXCEPT ![Len(u.bytes)] = 0]
           /\ IsUnit(WithoutLast(u)) \/ IsCutOff(WithoutLast(u))
           /\ \A k \in 1 .. Len(WithoutLast(u).kept) : WithoutLast(u).kept[k] > 127
<1>1. PICK b : b = [u.bytes EXCEPT ![Len(u.bytes)] = 0]
  OBVIOUS
<1>2. PICK m \in Nat : m = Len(u.bytes) /\ m > 0 /\ u.bytes \in Seq(Bytes)
  BY DEF UnitRecords
<1>3. /\ b \in Seq(Bytes) /\ Len(b) = m /\ b # <<>> /\ b[m] = 0
      /\ \A k \in 1 .. m - 1 : b[k] = u.bytes[k]
  <2>1. 0 \in Bytes
    BY DEF Bytes
  <2> QED BY <1>1, <1>2, <2>1
<1>4. m = 1 => b[1] = 0 /\ SequenceLength(b[1]) = 1
  <2>1. m = 1 => b[1] = 0
    BY <1>3, Zenon
  <2>2. SequenceLength(0) = 1
    BY DEF SequenceLength
  <2> QED BY <2>1, <2>2, Zenon
<1>5. m <= SequenceLength(b[1])
  <2>1. m > 1 => b[1] = u.bytes[1]
    BY <1>2, <1>3
  <2>2. m > 1 => m <= SequenceLength(b[1])
    BY <1>2, <2>1, Zenon
  <2>3. 1 <= 1 /\ (m > 1 \/ m = 1)
    BY <1>2, OneOrMore, Zenon
  <2> QED BY <1>4, <2>2, <2>3, Zenon
<1>6. SequenceLength(b[1]) \in Nat
  BY DEF SequenceLength
<1>7. CASE m = SequenceLength(b[1])
  <2>1. WithoutLast(u) = Unit(b, OnPage(b), InLog(b))
    BY <1>1, <1>3, <1>7, Zenon DEF WithoutLast
  <2>2. Sense(b) = 0 \/ Sense(b) = Replacement
    <3>1. CASE m = 1
      <4>1. Sense(b) = b[1]
        <5>1. b[1] = 0 /\ Len(b) = 1
          BY <1>3, <1>4, <3>1, Zenon
        <5>2. 0 < 128
          OBVIOUS
        <5> QED BY <5>1, <5>2, Zenon DEF Sense
      <4> QED BY <1>4, <3>1, <4>1, Zenon
    <3>2. CASE m > 1
      <4>1. m \in 2 .. Len(b) /\ ~Continues(b[m]) /\ Len(b) # 1
        BY <1>3, <3>2 DEF Continues
      <4> QED BY <4>1, Zenon DEF Sense
    <3>3. m = 1 \/ m > 1
      BY <1>2, OneOrMore, Zenon
    <3> QED BY <3>1, <3>2, <3>3, Zenon
  <2>3. InLog(b) \in Seq(Bytes) /\ \A k \in 1 .. Len(InLog(b)) : InLog(b)[k] > 127
    <3>1. CASE Sense(b) = 0
      BY <3>1 DEF InLog
    <3>2. CASE Sense(b) = Replacement
      <4>1. PICK e : e = Utf32To8(Replacement)
        OBVIOUS
      <4>2. InLog(b) = e
        BY <3>2, <4>1, ReplacementIs, KeptIs, Zenon
      <4> QED BY <4>1, <4>2, ReplacementIs, HighBytes, EncodeType, Zenon
    <3> QED BY <2>2, <3>1, <3>2
  <2>4. OnPage(b) \in Seq(Nat)
    <3>1. CASE Sense(b) = 0
      BY <3>1 DEF OnPage
    <3>2. CASE Sense(b) = Replacement
      <4>1. PICK r \in Nat : r = Sense(b) /\ r >= 128 /\ r = Replacement
        BY <3>2, ReplacementIs, Zenon
      <4>2. r # 0 /\ ~(r < 128) /\ r # GT
        BY <4>1 DEF Replacement, GT
      <4>3. OnPage(b) = <<r>>
        BY <4>1, <4>2, Zenon DEF OnPage
      <4> QED BY <4>1, <4>3
    <3> QED BY <2>2, <3>1, <3>2
  <2>5. PICK s, k : s = OnPage(b) /\ k = InLog(b)
    OBVIOUS
  <2>6. PICK v : v = WithoutLast(u) /\ v = Unit(b, s, k)
    BY <2>1, <2>5
  <2>7. v \in UnitRecords /\ v.bytes = b /\ v.shown = s /\ v.kept = k
    BY <1>3, <2>3, <2>4, <2>5, <2>6 DEF UnitRecords, Unit
  <2>8. IsUnit(v)
    BY <1>3, <1>7, <2>5, <2>6, <2>7, Zenon DEF IsUnit
  <2> QED BY <1>1, <2>3, <2>5, <2>6, <2>7, <2>8, Zenon
<1>8. CASE m # SequenceLength(b[1])
  <2>1. PICK v : v = WithoutLast(u) /\ v = Unit(b, <<>>, <<>>)
    BY <1>1, <1>3, <1>8, Zenon DEF WithoutLast
  <2>2. /\ v \in UnitRecords /\ v.bytes = b /\ v.kept = <<>>
    BY <1>3, <2>1 DEF UnitRecords, Unit
  <2>3. Len(b) < SequenceLength(b[1])
    BY <1>3, <1>5, <1>6, <1>8
  <2>4. IsCutOff(v)
    BY <1>3, <2>1, <2>2, <2>3, Zenon DEF IsCutOff
  <2> QED BY <1>1, <2>1, <2>2, <2>4
<1> QED BY <1>7, <1>8

(* printf's zero in place of a byte.                                       *)
Replaced(x, w) == [x EXCEPT ![w] = 0]

LEMMA LastReplaced ==
    ASSUME NEW x \in Seq(Bytes), NEW w \in Nat, w = Len(x), w > 0
    PROVE  /\ Replaced(x, w) \in Seq(Bytes) /\ Len(Replaced(x, w)) = w
           /\ \A k \in 1 .. w : Replaced(x, w)[k] = IF k = w THEN 0 ELSE x[k]
<1> DEFINE z == Replaced(x, w)
<1>1. x \in [1 .. w -> Bytes] /\ 0 \in Bytes
  <2>1. 0 \in Bytes
    BY DEF Bytes
  <2> QED BY <2>1, SequenceIs
<1>2. z \in [1 .. w -> Bytes] /\ \A k \in 1 .. w : z[k] = IF k = w THEN 0 ELSE x[k]
  BY <1>1 DEF Replaced
<1>3. z \in Seq(Bytes) /\ Len(z) = w
  BY <1>2, IsSequence
<1> QED BY <1>2, <1>3

(* The text that printf has shortened.                                     *)
Shortened(units) == Append(Front(units), WithoutLast(Last(units)))

(* The last byte of a concatenation is the last byte of its second part.   *)
LEMMA ReplacedBehind ==
    ASSUME NEW a \in Seq(Bytes), NEW b \in Seq(Bytes), b # <<>>
    PROVE  [a \o b EXCEPT ![Len(a \o b)] = 0] = a \o [b EXCEPT ![Len(b)] = 0]
<1>1. PICK l, m, n \in Nat : l = Len(a) /\ m = Len(b) /\ n = l + m /\ m > 0 /\ n > 0
  OBVIOUS
<1>2. PICK x, y, z, d : x = a \o b /\ d = Replaced(b, m) /\ y = a \o d /\ z = Replaced(x, n)
  OBVIOUS
<1>3. d \in Seq(Bytes) /\ Len(d) = m /\ \A k \in 1 .. m : d[k] = IF k = m THEN 0 ELSE b[k]
  <2>1. /\ Replaced(b, m) \in Seq(Bytes) /\ Len(Replaced(b, m)) = m
        /\ \A k \in 1 .. m : Replaced(b, m)[k] = IF k = m THEN 0 ELSE b[k]
    BY <1>1, LastReplaced
  <2> QED BY <1>2, <2>1
<1>4. /\ x \in Seq(Bytes) /\ Len(x) = n /\ (\A k \in 1 .. l : x[k] = a[k])
      /\ \A k \in 1 .. m : x[l + k] = b[k]
  BY <1>1, <1>2, Concat, ConcatAt
<1>5. /\ y \in Seq(Bytes) /\ Len(y) = n /\ (\A k \in 1 .. l : y[k] = a[k])
      /\ \A k \in 1 .. m : y[l + k] = d[k]
  <2>1. d \in Seq(Bytes) /\ a \o d \in Seq(Bytes)
    BY <1>3, Concat
  <2>2. /\ Len(a \o d) = Len(a) + Len(d) /\ (\A k \in 1 .. Len(a) : (a \o d)[k] = a[k])
        /\ \A k \in 1 .. Len(d) : (a \o d)[Len(a) + k] = d[k]
    BY <2>1, ConcatAt
  <2> QED BY <1>1, <1>2, <1>3, <2>1, <2>2
<1>6. z \in Seq(Bytes) /\ Len(z) = n /\ \A k \in 1 .. n : z[k] = IF k = n THEN 0 ELSE x[k]
  <2>1. /\ Replaced(x, n) \in Seq(Bytes) /\ Len(Replaced(x, n)) = n
        /\ \A k \in 1 .. n : Replaced(x, n)[k] = IF k = n THEN 0 ELSE x[k]
    BY <1>1, <1>4, LastReplaced
  <2> QED BY <1>2, <2>1
<1>7. ASSUME NEW k \in 1 .. n PROVE y[k] = z[k]
  <2>1. CASE k <= l
    <3>1. k # n /\ k \in 1 .. l
      BY <1>1, <2>1
    <3> QED BY <1>4, <1>5, <1>6, <3>1
  <2>2. CASE k > l
    <3>1. PICK j \in 1 .. m : k = l + j
      BY <1>1, <2>2
    <3>2. j = m <=> k = n
      BY <1>1, <3>1
    <3> QED BY <1>3, <1>4, <1>5, <1>6, <3>1, <3>2
  <2> QED BY <1>1, <2>1, <2>2
<1>8. y = z
  BY <1>5, <1>6, <1>7, SeqEqual
<1> QED BY <1>1, <1>2, <1>4, <1>8, Zenon DEF Replaced

LEMMA ShortenedIs ==
    ASSUME NEW units, IsText(units), Len(BytesOf(units)) = TmpSize
    PROVE  /\ units # <<>> /\ IsText(Shortened(units))
           /\ BytesOf(Shortened(units)) = Printed(BytesOf(units))
<1>1. units \in Seq(UnitRecords)
  BY DEF IsText
<1>2. units # <<>>
  <2>1. TmpSize # 0
    BY BufferAssumption
  <2>2. BytesOf(<<>>) = <<>>
    <3>1. FlattenSeq(<<>>) = <<>>
      <4>1. <<>> \in Seq(Bytes)
        BY Empty, Zenon
      <4> QED BY <4>1, FlattenOne
    <3>2. [i \in DOMAIN <<>> |-> <<>>[i].bytes] = <<>>
      OBVIOUS
    <3> QED BY <3>1, <3>2, Zenon DEF BytesOf
  <2>3. Len(<<>>) = 0
    OBVIOUS
  <2> QED BY <2>1, <2>2, <2>3, Zenon
<1>3. PICK f, u, n, v, p : /\ f = Front(units) /\ u = Last(units) /\ n = Len(units)
                           /\ v = WithoutLast(u) /\ p = Append(f, v)
  OBVIOUS
<1>4. /\ f \in Seq(UnitRecords) /\ Len(f) = n - 1 /\ n \in Nat /\ n > 0
      /\ \A i \in 1 .. n - 1 : f[i] = units[i]
      /\ u \in UnitRecords /\ u = units[n] /\ units = f \o <<u>>
  <2>1. n \in Nat /\ n > 0
    BY <1>1, <1>2, <1>3
  <2> QED BY <1>1, <1>2, <1>3, <2>1, WithoutLastUnit, Zenon
<1>5. u.bytes \in Seq(Bytes) /\ u.bytes # <<>> /\ Len(u.bytes) <= SequenceLength(u.bytes[1])
  <2>1. n \in 1 .. Len(units)
    BY <1>3, <1>4
  <2> QED BY <1>4, <2>1, UnitIs, Zenon
<1>6. /\ v \in UnitRecords /\ v.bytes = [u.bytes EXCEPT ![Len(u.bytes)] = 0]
      /\ IsUnit(v) \/ IsCutOff(v)
  BY <1>3, <1>4, <1>5, WithoutLastIs, Zenon
<1>7. /\ p \in Seq(UnitRecords) /\ Len(p) = n /\ p[n] = v /\ p = f \o <<v>>
      /\ \A i \in 1 .. n - 1 : p[i] = units[i]
  <2>1. p = Append(f, v) /\ f \in Seq(UnitRecords) /\ v \in UnitRecords
    BY <1>3, <1>4, <1>6
  <2>2. /\ p \in Seq(UnitRecords) /\ Len(p) = Len(f) + 1 /\ p[Len(f) + 1] = v
        /\ \A i \in 1 .. Len(f) : p[i] = f[i]
    BY <2>1, AppendProperties
  <2>3. p = f \o <<v>>
    BY <2>1
  <2>4. Len(f) = n - 1 /\ (n - 1) + 1 = n
    BY <1>4
  <2> QED BY <1>4, <2>2, <2>3, <2>4, Zenon
<1>8. IsText(p)
  <2>1. ASSUME NEW i \in 1 .. Len(p) PROVE IsUnit(p[i]) \/ (i = Len(p) /\ IsCutOff(p[i]))
    <3>1. CASE i = n
      BY <1>6, <1>7, <3>1, Zenon
    <3>2. CASE i # n
      <4>1. i \in 1 .. n - 1 /\ i \in 1 .. n /\ i # n
        BY <1>4, <1>7, <3>2
      <4>2. IsUnit(units[i])
        BY <1>3, <4>1, Zenon DEF IsText
      <4> QED BY <1>7, <4>1, <4>2, Zenon
    <3> QED BY <3>1, <3>2, Zenon
  <2> QED BY <1>7, <2>1, Zenon DEF IsText
<1>9. BytesOf(p) = [BytesOf(units) EXCEPT ![TmpSize] = 0]
  <2>1. /\ <<u>> \in Seq(UnitRecords) /\ <<v>> \in Seq(UnitRecords)
    BY <1>4, <1>6
  <2>2. BytesOf(f \o <<u>>) = BytesOf(f) \o BytesOf(<<u>>) /\ BytesOf(f) \in Seq(Bytes)
    BY <1>4, <2>1, BytesOfConcat
  <2>3. BytesOf(f \o <<v>>) = BytesOf(f) \o BytesOf(<<v>>)
    BY <1>4, <2>1, BytesOfConcat
  <2>4. BytesOf(<<u>>) = u.bytes /\ BytesOf(<<v>>) = v.bytes
    BY <1>4, <1>6, OneUnit
  <2>5. BytesOf(units) = BytesOf(f) \o u.bytes /\ BytesOf(p) = BytesOf(f) \o v.bytes
    BY <1>4, <1>7, <2>2, <2>3, <2>4, Zenon
  <2>6. [BytesOf(f) \o u.bytes EXCEPT ![Len(BytesOf(f) \o u.bytes)] = 0] = BytesOf(f) \o v.bytes
    BY <1>5, <1>6, <2>2, ReplacedBehind, Zenon
  <2> QED BY <2>5, <2>6, Zenon
<1>10. Shortened(units) = p
  BY <1>3 DEF Shortened
<1>11. Printed(BytesOf(units)) = [BytesOf(units) EXCEPT ![TmpSize] = 0]
  BY Zenon DEF Printed
<1> QED BY <1>2, <1>8, <1>9, <1>10, <1>11, Zenon

(* The two texts that a text may have become before it is converted.       *)
Ways(units) ==
    {units} \cup (IF Len(BytesOf(units)) = TmpSize THEN {Shortened(units)} ELSE {})

(* A text in a log, through whichever overload it has gone.                *)
LEMMA LineMeant ==
    ASSUME NEW units, IsText(units), NEW use, use.op = "line", use.text = BytesOf(units),
           NEW meaning \in Meanings("UTF8", use)
    PROVE  \E way \in Ways(units) : meaning = KeptOf(way)
<1>1. PICK text : text = BytesOf(units) /\ text \in Seq(Bytes)
  BY BytesOfType
<1>2. Utf8Decode(text) \in Seq(Nat) /\ Encoded(text) \in Seq(Bytes) /\ Printed(text) \in Seq(Bytes)
  BY <1>1, Utf8DecodeType, Utf8EncodeType, PrintedType, Zenon DEF Encoded
<1>3. ASSUME NEW t \in Seq(Bytes) PROVE As("UTF8", "bytes", t) = Encoded(t)
  BY ConvertedIsEncoded, Zenon DEF As, Encoded
<1>4. As("UTF8", "glyphs", Utf8Decode(text)) = Encoded(text)
  <2>1. ConvertState \in States
    BY DEF ConvertState, Decoding, States
  <2> QED BY <1>2, <2>1, GlyphsConverted, Zenon DEF As, Encoded
<1>5. Encoded(text) = KeptOf(units) /\ Encoded(Encoded(text)) = KeptOf(units)
  <2>1. Encoded(text) = KeptOf(units)
    BY <1>1, UnitsEncoded, Zenon DEF Encoded
  <2>2. Encoded(KeptOf(units)) = KeptOf(units)
    BY EncodedTwice, Zenon DEF Encoded
  <2> QED BY <2>1, <2>2, Zenon
<1>6. units \in Ways(units)
  BY Zenon DEF Ways
<1>7. \E way \in Ways(units) : Encoded(Printed(text)) = KeptOf(way)
  <2>1. CASE Len(text) = TmpSize
    <3>1. IsText(Shortened(units)) /\ BytesOf(Shortened(units)) = Printed(text)
      BY <1>1, <2>1, ShortenedIs, Zenon
    <3>2. Encoded(Printed(text)) = KeptOf(Shortened(units))
      BY <3>1, UnitsEncoded, Zenon DEF Encoded
    <3>3. Shortened(units) \in Ways(units)
      BY <1>1, <2>1, Zenon DEF Ways
    <3> QED BY <3>2, <3>3, Zenon
  <2>2. CASE Len(text) # TmpSize
    <3>1. Printed(text) = text
      BY <2>2, Zenon DEF Printed
    <3> QED BY <1>5, <1>6, <3>1, Zenon
  <2> QED BY <2>1, <2>2, Zenon
<1>8. \/ meaning \in {Encoded(text), Encoded(Encoded(text)), Encoded(Printed(text))}
  <2>1. use.op # "markup" /\ use.op # "content"
    OBVIOUS
  <2>2. meaning \in {As("UTF8", "bytes", t) : t \in {text, Encoded(text), Printed(text)}}
                    \cup {As("UTF8", "glyphs", Utf8Decode(text))}
    BY <1>1, <2>1, Zenon DEF Meanings
  <2> QED BY <1>1, <1>2, <1>3, <1>4, <2>2, Zenon
<1> QED BY <1>5, <1>6, <1>7, <1>8, Zenon
LEMMA FlattenSingles ==
    ASSUME NEW S, NEW s \in Seq(S)
    PROVE  FlattenSeq([i \in 1 .. Len(s) |-> <<s[i]>>]) = s
<1>1. PICK n \in Nat : n = Len(s) /\ \A i \in 1 .. n : s[i] \in S
  OBVIOUS
<1>2. PICK ss : ss = [i \in 1 .. n |-> <<s[i]>>]
  OBVIOUS
<1>3. ss \in Seq(Seq(S)) /\ Len(ss) = n /\ \A i \in 1 .. n : ss[i] = <<s[i]>>
  <2>1. PICK R : R = Seq(S)
    OBVIOUS
  <2>2. \A i \in 1 .. n : <<s[i]>> \in R
    BY <1>1, <2>1
  <2>3. ss \in [1 .. n -> R] /\ \A i \in 1 .. n : ss[i] = <<s[i]>>
    BY <1>2, <2>2, Zenon
  <2> QED BY <2>1, <2>3, IsSequence
<1>4. PICK f : Flattens(f, ss, S) /\ FlattenSeq(ss) = f[n]
  BY <1>3, FlattenIs
<1>5. /\ f \in [0 .. n -> Seq(S)] /\ f[0] = <<>>
      /\ \A i \in 1 .. n : f[i] = f[i - 1] \o <<s[i]>>
  BY <1>3, <1>4 DEF Flattens
<1> DEFINE T == {m \in Nat : m <= n => Len(f[m]) = m /\ \A k \in 1 .. m : f[m][k] = s[k]}
<1>6. 0 \in T
  BY <1>5
<1>7. ASSUME NEW m \in Nat, m \in T PROVE m + 1 \in T
  <2> SUFFICES ASSUME m + 1 <= n
               PROVE  Len(f[m + 1]) = m + 1 /\ \A k \in 1 .. m + 1 : f[m + 1][k] = s[k]
    OBVIOUS
  <2>1. f[m + 1] = f[m] \o <<s[m + 1]>> /\ f[m] \in Seq(S) /\ s[m + 1] \in S
    <3>1. m + 1 \in 1 .. n /\ m \in 0 .. n /\ (m + 1) - 1 = m
      OBVIOUS
    <3> QED BY <1>1, <1>5, <3>1
  <2>2. Len(f[m]) = m /\ \A k \in 1 .. m : f[m][k] = s[k]
    BY <1>7
  <2> QED BY <2>1, <2>2
<1>8. n \in T
  <2> HIDE DEF T
  <2> QED BY <1>1, <1>6, <1>7, Induction
<1>9. f[n] = s
  <2>1. f[n] \in Seq(S) /\ Len(f[n]) = n /\ \A k \in 1 .. n : f[n][k] = s[k]
    BY <1>1, <1>5, <1>8
  <2> QED BY <1>1, <2>1, SeqEqual
<1> QED BY <1>1, <1>2, <1>4, <1>9

(* A number in a line has its digits in the message.                       *)
LEMMA NumeralIs ==
    ASSUME NEW number \in Nat
    PROVE  LET digits == IF number = 0 THEN <<>> ELSE Digits(number)
           IN  /\ Numeral(number) \in Seq(UnitRecords) /\ Len(Numeral(number)) = Len(digits)
               /\ \A i \in 1 .. Len(digits) : Numeral(number)[i] = Ascii(digits[i])
               /\ digits \in Seq(DigitBytes) /\ KeptOf(Numeral(number)) = digits
<1>1. PICK digits : digits = IF number = 0 THEN <<>> ELSE Digits(number)
  OBVIOUS
<1>2. digits \in Seq(DigitBytes)
  BY <1>1, DigitsAre
<1>3. PICK m \in Nat : m = Len(digits) /\ DOMAIN digits = 1 .. m
  BY <1>2
<1>4. PICK units : units = [i \in 1 .. m |-> Ascii(digits[i])]
  OBVIOUS
<1>5. Numeral(number) = units
  <2>1. CASE number = 0
    <3>1. m = 0
      BY <1>1, <1>3, <2>1
    <3>2. units = <<>>
      BY <1>4, <3>1
    <3> QED BY <2>1, <3>2, Zenon DEF Numeral
  <2>2. CASE number # 0
    <3>1. digits = Digits(number)
      BY <1>1, <2>2
    <3> QED BY <1>3, <1>4, <2>2, <3>1, Zenon DEF Numeral
  <2> QED BY <2>1, <2>2
<1>6. ASSUME NEW i \in 1 .. m
      PROVE  Ascii(digits[i]) \in UnitRecords /\ Ascii(digits[i]).kept = <<digits[i]>>
  <2>1. digits[i] \in Bytes /\ digits[i] \in Nat
    BY <1>2, <1>3 DEF DigitBytes, Bytes
  <2> QED BY <2>1 DEF Ascii, Unit, UnitRecords
<1>7. units \in Seq(UnitRecords) /\ Len(units) = m /\ DOMAIN units = 1 .. m
      /\ \A i \in 1 .. m : units[i] = Ascii(digits[i])
  <2>1. units \in [1 .. m -> UnitRecords] /\ \A i \in 1 .. m : units[i] = Ascii(digits[i])
    BY <1>4, <1>6, Zenon
  <2> HIDE DEF UnitRecords
  <2> QED BY <2>1, IsSequence
<1>8. KeptOf(units) = digits
  <2>1. PICK kept : kept = [i \in 1 .. m |-> <<digits[i]>>]
    OBVIOUS
  <2>2. [i \in DOMAIN units |-> units[i].kept] = kept
    BY <1>6, <1>7, <2>1, Zenon
  <2>3. digits \in Seq(Bytes)
    BY <1>2 DEF DigitBytes, Bytes
  <2>4. FlattenSeq(kept) = digits
    BY <1>3, <2>1, <2>3, FlattenSingles
  <2> QED BY <2>2, <2>4, Zenon DEF KeptOf
<1> QED BY <1>1, <1>2, <1>3, <1>5, <1>7, <1>8, Zenon

(* What a line may have been written as.                                   *)
Clean(unit) == \A k \in 1 .. Len(unit.kept) : unit.kept[k] # NEWLINE
IsWay(units) ==
    /\ units \in Seq(UnitRecords)
    /\ \A i \in 1 .. Len(units) : Solid(units[i]) /\ Clean(units[i])

LEMMA TextIsSolid ==
    ASSUME NEW units, IsText(units), NEW i \in 1 .. Len(units)
    PROVE  Solid(units[i])
<1>1. PICK u : u = units[i]
  OBVIOUS
<1>2. CASE IsUnit(u)
  <2>1. Sense(u.bytes) \in Nat /\ u.kept = InLog(u.bytes)
    BY <1>1, <1>2, UnitOrCutOff, Zenon
  <2>2. Len(u.kept) = 1 \/ \A k \in 1 .. Len(u.kept) : u.kept[k] > 127
    BY <2>1, InLogIs, Zenon
  <2> QED BY <1>1, <2>2, Zenon DEF Solid
<1>3. CASE IsCutOff(u)
  <2>1. u.kept = <<>>
    BY <1>1, <1>3, UnitOrCutOff, Zenon
  <2>2. \A k \in 1 .. Len(u.kept) : u.kept[k] > 127
    BY <2>1
  <2> QED BY <1>1, <2>2, Zenon DEF Solid
<1> QED BY <1>1, <1>2, <1>3, UnitOrCutOff, Zenon

LEMMA LineIsWay ==
    ASSUME NEW line, IsLine(line), NEW way \in Ways(line.units)
    PROVE  IsWay(way)
<1>1. PICK units, n : units = line.units /\ n = Len(units)
  OBVIOUS
<1>2. IsText(units) /\ units \in Seq(UnitRecords) /\ n \in Nat /\ DOMAIN units = 1 .. n
  <2>1. IsText(units) /\ units \in Seq(UnitRecords)
    BY <1>1, Zenon DEF IsLine, IsText
  <2> HIDE DEF UnitRecords
  <2> QED BY <1>1, <2>1
<1>3. \A i \in 1 .. n : units[i] \in UnitRecords
  <2> HIDE DEF UnitRecords
  <2> QED BY <1>1, <1>2
<1>4. ASSUME NEW i \in 1 .. n PROVE Solid(units[i]) /\ Clean(units[i])
  <2>1. Solid(units[i])
    BY <1>1, <1>2, TextIsSolid, Zenon
  <2>2. units[i].kept \in Seq(Bytes)
    BY <1>3 DEF UnitRecords
  <2>3. DOMAIN units[i].kept = 1 .. Len(units[i].kept)
    BY <2>2
  <2>4. Clean(units[i])
    BY <1>1, <1>2, <2>3, Zenon DEF IsLine, Clean
  <2> QED BY <2>1, <2>4
<1>5. CASE way = units
  BY <1>1, <1>2, <1>4, <1>5, Zenon DEF IsWay
<1>6. CASE Len(BytesOf(units)) = TmpSize /\ way = Shortened(units)
  <2>1. units # <<>> /\ IsText(way)
    BY <1>2, <1>6, ShortenedIs, Zenon
  <2>2. /\ Front(units) \in Seq(UnitRecords) /\ Len(Front(units)) = n - 1
        /\ \A i \in 1 .. n - 1 : Front(units)[i] = units[i]
        /\ Last(units) \in UnitRecords /\ Last(units) = units[n]
    BY <1>1, <1>2, <2>1, WithoutLastUnit, Zenon
  <2>3. n > 0 /\ n \in 1 .. n
    BY <1>1, <1>2, <2>1
  <2>4. PICK last : last = WithoutLast(units[n])
    OBVIOUS
  <2>5. /\ last \in UnitRecords
        /\ \A k \in 1 .. Len(last.kept) : last.kept[k] > 127
    <3>1. units[n].bytes # <<>> /\ Len(units[n].bytes) <= SequenceLength(units[n].bytes[1])
      BY <1>1, <1>2, <2>3, UnitIs, Zenon
    <3> QED BY <1>3, <2>3, <2>4, <3>1, WithoutLastIs, Zenon
  <2>6. /\ way \in Seq(UnitRecords) /\ Len(way) = n /\ way[n] = last
        /\ \A i \in 1 .. n - 1 : way[i] = units[i]
    <3>1. PICK front : front = Front(units)
      OBVIOUS
    <3>2. front \in Seq(UnitRecords) /\ Len(front) = n - 1 /\ way = Append(front, last)
      BY <1>6, <2>2, <2>4, <3>1, Zenon DEF Shortened
    <3>3. /\ way \in Seq(UnitRecords) /\ Len(way) = Len(front) + 1 /\ way[Len(front) + 1] = last
          /\ \A i \in 1 .. Len(front) : way[i] = front[i]
      BY <2>5, <3>2, AppendProperties
    <3>4. (n - 1) + 1 = n
      BY <1>2
    <3> QED BY <2>2, <3>1, <3>2, <3>3, <3>4, Zenon
  <2>7. ASSUME NEW i \in 1 .. n PROVE Solid(way[i]) /\ Clean(way[i])
    <3>1. CASE i = n
      <4>1. way[i] = last
        BY <2>6, <3>1
      <4>2. Solid(last)
        BY <2>5, Zenon DEF Solid
      <4>3. last.kept \in Seq(Bytes)
        BY <2>5 DEF UnitRecords
      <4>4. \A k \in 1 .. Len(last.kept) : last.kept[k] # NEWLINE
        BY <2>5, <4>3 DEF NEWLINE
      <4> QED BY <4>1, <4>2, <4>4, Zenon DEF Clean
    <3>2. CASE i # n
      <4>1. i \in 1 .. n - 1
        BY <1>2, <3>2
      <4> QED BY <1>4, <2>6, <4>1, Zenon
    <3> QED BY <3>1, <3>2
  <2> QED BY <2>6, <2>7, Zenon DEF IsWay
<1> QED BY <1>1, <1>5, <1>6, Zenon DEF Ways

LEMMA NumeralIsWay ==
    ASSUME NEW number \in Nat
    PROVE  IsWay(Numeral(number))
<1>1. PICK digits, units : /\ units = Numeral(number)
                           /\ digits = IF number = 0 THEN <<>> ELSE Digits(number)
  OBVIOUS
<1>2. /\ units \in Seq(UnitRecords) /\ Len(units) = Len(digits)
      /\ \A i \in 1 .. Len(digits) : units[i] = Ascii(digits[i])
      /\ digits \in Seq(DigitBytes)
  BY <1>1, NumeralIs, Zenon
<1>3. ASSUME NEW i \in 1 .. Len(units) PROVE Solid(units[i]) /\ Clean(units[i])
  <2>1. digits[i] \in DigitBytes /\ units[i] = Ascii(digits[i])
    BY <1>2
  <2>2. units[i].kept = <<digits[i]>>
    BY <2>1 DEF Ascii, Unit
  <2>3. digits[i] # NEWLINE
    BY <2>1 DEF DigitBytes, NEWLINE
  <2> QED BY <2>2, <2>3 DEF Solid, Clean
<1> QED BY <1>1, <1>2, <1>3, Zenon DEF IsWay

LEMMA WaysJoin ==
    ASSUME NEW s, IsWay(s), NEW t, IsWay(t)
    PROVE  IsWay(s \o t)
<1>1. s \in Seq(UnitRecords) /\ t \in Seq(UnitRecords)
  BY DEF IsWay
<1>2. PICK l, m \in Nat : l = Len(s) /\ m = Len(t)
  BY <1>1
<1>3. PICK w : w = s \o t
  OBVIOUS
<1>4. /\ w \in Seq(UnitRecords) /\ Len(w) = l + m
      /\ (\A i \in 1 .. l : w[i] = s[i]) /\ \A i \in 1 .. m : w[l + i] = t[i]
  <2> HIDE DEF UnitRecords
  <2> QED BY <1>1, <1>2, <1>3, Concat, ConcatAt
<1>5. /\ \A i \in 1 .. l : Solid(s[i]) /\ Clean(s[i])
      /\ \A i \in 1 .. m : Solid(t[i]) /\ Clean(t[i])
  BY <1>2, Zenon DEF IsWay
<1>6. ASSUME NEW i \in 1 .. l + m PROVE Solid(w[i]) /\ Clean(w[i])
  <2>1. CASE i <= l
    <3>1. i \in 1 .. l
      BY <1>2, <2>1
    <3> QED BY <1>4, <1>5, <3>1, Zenon
  <2>2. CASE i > l
    <3>1. i - l \in 1 .. m /\ i = l + (i - l)
      BY <1>2, <2>2
    <3>2. w[l + (i - l)] = t[i - l]
      BY <1>4, <3>1, Zenon
    <3> QED BY <1>5, <3>1, <3>2, Zenon
  <2> QED BY <1>2, <2>1, <2>2
<1> QED BY <1>3, <1>4, <1>6, Zenon DEF IsWay

LEMMA WrittenIs ==
    ASSUME NEW line, IsLine(line)
    PROVE  /\ AsWritten(line) = {way \o Numeral(line.number) : way \in Ways(line.units)}
           /\ \A w \in AsWritten(line) : IsWay(w)
<1>1. AsWritten(line) = {way \o Numeral(line.number) : way \in Ways(line.units)}
  <2>1. CASE Len(BytesOf(line.units)) = TmpSize
    BY <2>1, Zenon DEF AsWritten, Ways, Shortened
  <2>2. CASE Len(BytesOf(line.units)) # TmpSize
    BY <2>2, Zenon DEF AsWritten, Ways
  <2> QED BY <2>1, <2>2
<1>2. ASSUME NEW way \in Ways(line.units) PROVE IsWay(way \o Numeral(line.number))
  <2>1. line.number \in Nat
    BY DEF IsLine, LineRecords
  <2> QED BY <2>1, LineIsWay, NumeralIsWay, WaysJoin, Zenon
<1> QED BY <1>1, <1>2, Zenon

-----------------------------------------------------------------------------
(* The end of a line.                                                      *)

(* The bytes behind place are the blank end of a text.                     *)
CutsAt(text, place) ==
    /\ place \in 0 .. Len(text)
    /\ \A i \in place + 1 .. Len(text) : Blank(text[i])
    /\ place > 0 => ~Blank(text[place])

LEMMA OneCut ==
    ASSUME NEW text \in Seq(Bytes), NEW m, NEW n, CutsAt(text, m), CutsAt(text, n)
    PROVE  m = n
<1>1. Len(text) \in Nat /\ m \in Nat /\ n \in Nat /\ m <= Len(text) /\ n <= Len(text)
  BY DEF CutsAt
<1>2. ~(m < n)
  <2>1. m < n => n > 0 /\ n \in m + 1 .. Len(text)
    BY <1>1
  <2> QED BY <2>1, Zenon DEF CutsAt
<1>3. ~(n < m)
  <2>1. n < m => m > 0 /\ m \in n + 1 .. Len(text)
    BY <1>1
  <2> QED BY <2>1, Zenon DEF CutsAt
<1> QED BY <1>1, <1>2, <1>3

(* The bytes the logger cuts off at the end of a line.                     *)
BlankBytes == {b \in Bytes : Blank(b)}

LEMMA KeptIn ==
    ASSUME NEW S, NEW units \in Seq(UnitRecords),
           \A i \in 1 .. Len(units) : \A k \in 1 .. Len(units[i].kept) : units[i].kept[k] \in S
    PROVE  KeptOf(units) \in Seq(S)
<1>1. PICK n \in Nat : n = Len(units) /\ DOMAIN units = 1 .. n /\ \A i \in 1 .. n : units[i] \in UnitRecords
  <2> HIDE DEF UnitRecords
  <2> QED OBVIOUS
<1>2. PICK R : R = Seq(S)
  OBVIOUS
<1>3. ASSUME NEW i \in 1 .. n PROVE units[i].kept \in R
  <2>1. PICK kept : kept = units[i].kept
    OBVIOUS
  <2>2. kept \in Seq(Bytes)
    BY <1>1, <2>1 DEF UnitRecords
  <2>3. \A k \in 1 .. Len(kept) : kept[k] \in S
    BY <1>1, <2>1, Zenon
  <2>4. kept \in [1 .. Len(kept) -> S] /\ Len(kept) \in Nat
    BY <2>2, <2>3
  <2> QED BY <1>2, <2>1, <2>4, IsSequence, Zenon
<1>4. PICK all : all = [i \in 1 .. n |-> units[i].kept]
  OBVIOUS
<1>5. all \in Seq(R)
  <2>1. all \in [1 .. n -> R]
    BY <1>3, <1>4, Zenon
  <2> QED BY <2>1, IsSequence
<1>6. KeptOf(units) = FlattenSeq(all)
  BY <1>1, <1>4, Zenon DEF KeptOf
<1> QED BY <1>2, <1>5, <1>6, FlattenType, Zenon

LEMMA VanishesIs ==
    ASSUME NEW u \in UnitRecords, Solid(u)
    PROVE  /\ Vanishes(u) <=> \A k \in 1 .. Len(u.kept) : Blank(u.kept[k])
           /\ ~Vanishes(u) => u.kept # <<>> /\ ~Blank(u.kept[Len(u.kept)])
<1>1. PICK kept : kept = u.kept /\ kept \in Seq(Bytes)
  BY DEF UnitRecords
<1>2. PICK n \in Nat : n = Len(kept) /\ DOMAIN kept = 1 .. n
  BY <1>1
<1>3. Vanishes(u) <=> \A k \in 1 .. n : Blank(kept[k])
  BY <1>1, <1>2, Zenon DEF Vanishes, Blank
<1>4. ASSUME NEW k \in 1 .. n, ~Blank(kept[k]) PROVE kept # <<>> /\ ~Blank(kept[n])
  <2>1. n > 0 /\ n \in 1 .. n /\ kept # <<>>
    BY <1>1, <1>2
  <2>2. CASE n = 1
    BY <1>4, <2>1, <2>2
  <2>3. CASE \A j \in 1 .. n : kept[j] > 127
    <3>1. ~CharIsSigned
      BY <1>4, <2>3, Zenon DEF Blank
    <3>2. kept[n] \in Nat /\ kept[n] > 127
      <4>1. kept[n] \in Bytes /\ kept[n] > 127
        BY <1>1, <1>2, <2>1, <2>3
      <4> QED BY <4>1 DEF Bytes
    <3>3. ~(kept[n] <= 32)
      BY <3>2
    <3> QED BY <2>1, <3>1, <3>3, Zenon DEF Blank
  <2> QED BY <1>1, <1>2, <2>2, <2>3, Zenon DEF Solid
<1> QED BY <1>1, <1>2, <1>3, <1>4, Zenon

(* Two parts of a sequence of n elements, the first one of p.              *)
IsSplit(s, n, p, S, head, tail) ==
    /\ head \in Seq(S) /\ Len(head) = p /\ (\A i \in 1 .. p : head[i] = s[i])
    /\ tail \in Seq(S) /\ Len(tail) = n - p /\ (\A i \in 1 .. n - p : tail[i] = s[p + i])
    /\ s = head \o tail

LEMMA SplitAt ==
    ASSUME NEW S, NEW s \in Seq(S), NEW n \in Nat, n = Len(s), NEW p \in 0 .. n
    PROVE  IsSplit(s, n, p, S, SubSeq(s, 1, p), SubSeq(s, p + 1, n))
<1>1. p \in Nat /\ \A i \in 1 .. n : s[i] \in S
  OBVIOUS
<1>2. /\ SubSeq(s, 1, p) \in Seq(S) /\ Len(SubSeq(s, 1, p)) = p
      /\ \A i \in 1 .. p : SubSeq(s, 1, p)[i] = s[i]
  BY <1>1
<1>3. /\ SubSeq(s, p + 1, n) \in Seq(S) /\ Len(SubSeq(s, p + 1, n)) = n - p
      /\ \A i \in 1 .. n - p : SubSeq(s, p + 1, n)[i] = s[p + i]
  <2>1. PICK q \in Nat : q = p + 1 /\ q > 0
    BY <1>1
  <2>2. /\ SubSeq(s, q, n) \in Seq(S) /\ Len(SubSeq(s, q, n)) = IF q <= n THEN n - q + 1 ELSE 0
        /\ \A i \in 1 .. n - q + 1 : SubSeq(s, q, n)[i] = s[q + i - 1]
    <3>1. \A i \in q .. n : s[i] \in S
      BY <1>1, <2>1
    <3>2. q \in Int /\ n \in Int
      BY <2>1
    <3> QED BY <3>1, <3>2, SubSeqProperties
  <2>3. (IF q <= n THEN n - q + 1 ELSE 0) = n - p /\ n - q + 1 = n - p
    BY <1>1, <2>1
  <2>4. \A i \in 1 .. n - p : q + i - 1 = p + i
    BY <1>1, <2>1
  <2> QED BY <2>1, <2>2, <2>3, <2>4, Zenon
<1>4. s = SubSeq(s, 1, p) \o SubSeq(s, p + 1, n)
  <2>1. 1 \in 1 .. Len(s) + 1 /\ p \in 1 - 1 .. Len(s) /\ n \in p .. Len(s)
    BY <1>1
  <2>2. SubSeq(s, 1, p) \o SubSeq(s, p + 1, n) = SubSeq(s, 1, n)
    BY <2>1, ConcatAdjacentSubSeq, Zenon
  <2>3. SubSeq(s, 1, n) = s
    BY SubSeqFull, Zenon
  <2> QED BY <2>2, <2>3
<1> QED BY <1>2, <1>3, <1>4, Zenon DEF IsSplit

LEMMA TrimmedIs ==
    ASSUME NEW units, IsWay(units)
    PROVE  /\ KeptOf(units) \in Seq(Bytes)
           /\ \A k \in 1 .. Len(KeptOf(units)) : KeptOf(units)[k] # NEWLINE
           /\ \E m : CutsAt(KeptOf(units), m) /\ Trimmed(units) = SubSeq(KeptOf(units), 1, m)
<1>1. PICK n \in Nat : n = Len(units) /\ DOMAIN units = 1 .. n /\ units \in Seq(UnitRecords)
  <2>1. units \in Seq(UnitRecords)
    BY DEF IsWay
  <2> HIDE DEF UnitRecords
  <2> QED BY <2>1
<1>2. ASSUME NEW i \in 1 .. n
      PROVE  /\ units[i] \in UnitRecords /\ Solid(units[i]) /\ Clean(units[i])
             /\ units[i].kept \in Seq(Bytes)
  <2>1. units[i] \in UnitRecords
    <3> HIDE DEF UnitRecords
    <3> QED BY <1>1
  <2>2. units[i].kept \in Seq(Bytes)
    BY <2>1 DEF UnitRecords
  <2> QED BY <1>1, <2>1, <2>2, Zenon DEF IsWay
<1>3. PICK text : text = KeptOf(units)
  OBVIOUS
<1>4. text \in Seq(Bytes \ {NEWLINE})
  <2>1. ASSUME NEW i \in 1 .. n, NEW k \in 1 .. Len(units[i].kept)
        PROVE  units[i].kept[k] \in Bytes \ {NEWLINE}
    <3>1. units[i].kept[k] \in Bytes
      BY <1>2, Element, Zenon
    <3>2. units[i].kept[k] # NEWLINE
      BY <1>2, Zenon DEF Clean
    <3> QED BY <3>1, <3>2
  <2> QED BY <1>1, <1>3, <2>1, KeptIn, Zenon
<1>5. text \in Seq(Bytes) /\ \A k \in 1 .. Len(text) : text[k] # NEWLINE
  BY <1>4
<1>6. PICK p : p = Max({0} \cup {i \in 1 .. n : ~Vanishes(units[i])})
  OBVIOUS
<1>7. /\ p \in Nat /\ p <= n /\ (p > 0 => ~Vanishes(units[p]))
      /\ \A i \in p + 1 .. n : Vanishes(units[i])
  <2>1. PICK T : T = {0} \cup {i \in 1 .. n : ~Vanishes(units[i])}
    OBVIOUS
  <2>2. T \subseteq 0 .. n /\ T # {}
    BY <1>1, <2>1
  <2>3. p \in T /\ \A i \in T : i <= p
    BY <1>1, <1>6, <2>1, <2>2, MaxIs, Zenon
  <2>4. p \in Nat /\ p <= n /\ (p > 0 => ~Vanishes(units[p]))
    BY <1>1, <2>1, <2>3
  <2>5. ASSUME NEW i \in p + 1 .. n, ~Vanishes(units[i]) PROVE FALSE
    <3>1. i \in 1 .. n /\ i > p
      BY <1>1, <2>4, <2>5
    <3>2. i \in T
      BY <2>1, <2>5, <3>1, Zenon
    <3> QED BY <2>3, <2>4, <3>1, <3>2
  <2> QED BY <2>4, <2>5, Zenon
<1>8. PICK head, tail : head = SubSeq(units, 1, p) /\ tail = SubSeq(units, p + 1, n)
  OBVIOUS
<1>9. Trimmed(units) = KeptOf(head)
  BY <1>1, <1>6, <1>8, Zenon DEF Trimmed
<1>10. /\ head \in Seq(UnitRecords) /\ Len(head) = p /\ (\A i \in 1 .. p : head[i] = units[i])
       /\ tail \in Seq(UnitRecords) /\ Len(tail) = n - p
       /\ (\A i \in 1 .. n - p : tail[i] = units[p + i])
       /\ units = head \o tail
  <2>1. p \in 0 .. n
    BY <1>1, <1>7
  <2>2. IsSplit(units, n, p, UnitRecords, head, tail)
    BY <1>1, <1>8, <2>1, SplitAt, Zenon
  <2> QED BY <2>2, Zenon DEF IsSplit
<1>12. PICK kept, rest1 : kept = KeptOf(head) /\ rest1 = KeptOf(tail)
  OBVIOUS
<1>13. text = kept \o rest1 /\ kept \in Seq(Bytes)
  BY <1>3, <1>10, <1>12, BytesOfConcat, Zenon
<1>14. rest1 \in Seq(BlankBytes)
  <2>1. ASSUME NEW i \in 1 .. Len(tail), NEW k \in 1 .. Len(tail[i].kept)
        PROVE  tail[i].kept[k] \in BlankBytes
    <3>1. i \in 1 .. n - p /\ p + i \in 1 .. n /\ p + i \in p + 1 .. n
      BY <1>1, <1>7, <1>10
    <3>2. PICK u : u = units[p + i] /\ tail[i] = u
      BY <1>10, <3>1
    <3>3. u \in UnitRecords /\ Solid(u) /\ u.kept \in Seq(Bytes) /\ Vanishes(u)
      BY <1>2, <1>7, <3>1, <3>2, Zenon
    <3>4. Blank(u.kept[k])
      BY <3>2, <3>3, VanishesIs, Zenon
    <3>5. u.kept[k] \in Bytes
      BY <3>2, <3>3, Element, Zenon
    <3> QED BY <3>2, <3>4, <3>5 DEF BlankBytes
  <2> QED BY <1>10, <1>12, <2>1, KeptIn, Zenon
<1>15. PICK m \in Nat : m = Len(kept)
  BY <1>13
<1>16. m > 0 => ~Blank(kept[m])
  <2>1. CASE p = 0
    <3>1. head = <<>>
      BY <1>10, <2>1
    <3>2. kept = <<>>
      <4>1. [i \in DOMAIN <<>> |-> <<>>[i].kept] = <<>>
        OBVIOUS
      <4>2. FlattenSeq(<<>>) = <<>>
        <5>1. <<>> \in Seq(Bytes)
          BY Empty, Zenon
        <5> QED BY <5>1, FlattenOne
      <4> QED BY <1>12, <3>1, <4>1, <4>2, Zenon DEF KeptOf
    <3> QED BY <1>15, <3>2
  <2>2. CASE p > 0
    <3>1. PICK u, front : u = units[p] /\ front = Front(head)
      OBVIOUS
    <3>2. p \in 1 .. n /\ p \in 1 .. p
      BY <1>1, <1>7, <2>2
    <3>3. u \in UnitRecords /\ u.kept # <<>> /\ ~Blank(u.kept[Len(u.kept)]) /\ u.kept \in Seq(Bytes)
      BY <1>2, <1>7, <2>2, <3>1, <3>2, VanishesIs, Zenon
    <3>4. front \in Seq(UnitRecords) /\ head = front \o <<u>>
      <4>1. head # <<>>
        BY <1>10, <2>2
      <4>2. Last(head) = u
        BY <1>10, <3>1, <3>2, <4>1, WithoutLastUnit, Zenon
      <4> QED BY <1>10, <3>1, <4>1, <4>2, WithoutLastUnit, Zenon
    <3>5. <<u>> \in Seq(UnitRecords)
      <4> HIDE DEF UnitRecords
      <4> QED BY <3>3
    <3>6. kept = KeptOf(front) \o u.kept /\ KeptOf(front) \in Seq(Bytes)
      <4>1. KeptOf(<<u>>) = u.kept
        BY <3>3, OneUnit, Zenon
      <4>2. KeptOf(front \o <<u>>) = KeptOf(front) \o KeptOf(<<u>>) /\ KeptOf(front) \in Seq(Bytes)
        BY <3>4, <3>5, BytesOfConcat, Zenon
      <4> QED BY <1>12, <3>4, <4>1, <4>2, Zenon
    <3>7. PICK a, b : a = KeptOf(front) /\ b = u.kept
      OBVIOUS
    <3>8. kept[m] = b[Len(b)]
      <4>1. a \in Seq(Bytes) /\ b \in Seq(Bytes) /\ b # <<>> /\ kept = a \o b
        BY <3>3, <3>6, <3>7, Zenon
      <4> QED BY <1>15, <4>1
    <3> QED BY <3>3, <3>7, <3>8, Zenon
  <2> QED BY <1>7, <2>1, <2>2
<1>17. /\ m \in 0 .. Len(text) /\ SubSeq(text, 1, m) = kept
       /\ m > 0 => text[m] = kept[m]
  <2>1. rest1 \in Seq(Bytes)
    BY <1>14 DEF BlankBytes
  <2> QED BY <1>13, <1>15, <2>1
<1>18. ASSUME NEW k \in m + 1 .. Len(text) PROVE Blank(text[k])
  <2>1. rest1 \in Seq(Bytes)
    BY <1>14 DEF BlankBytes
  <2>2. k - m \in 1 .. Len(rest1) /\ text[k] = rest1[k - m]
    BY <1>13, <1>15, <2>1
  <2>3. rest1[k - m] \in BlankBytes
    BY <1>14, <2>2, Element, Zenon
  <2> QED BY <2>2, <2>3 DEF BlankBytes
<1>19. CutsAt(text, m)
  BY <1>16, <1>17, <1>18, Zenon DEF CutsAt
<1> QED BY <1>3, <1>5, <1>9, <1>12, <1>17, <1>19, Zenon

-----------------------------------------------------------------------------
(* What a message has in the stream.                                       *)

LEMMA Elements2 ==
    ASSUME NEW x, NEW y
    PROVE  /\ <<x>> \o <<y>> = <<x, y>> /\ <<x>> \o <<>> = <<x>>
           /\ Len(<<x, y>>) = 2 /\ <<x, y>>[1] = x /\ <<x, y>>[2] = y
<1>1. PICK S : S = {x, y}
  OBVIOUS
<1>2. PICK p, q, t, u : p = <<x>> /\ q = <<y>> /\ t = p \o q /\ u = <<x, y>>
  OBVIOUS
<1>3. p \in Seq(S) /\ Len(p) = 1 /\ p[1] = x /\ q \in Seq(S) /\ Len(q) = 1 /\ q[1] = y
  BY <1>1, <1>2
<1>4. u \in Seq(S) /\ Len(u) = 2 /\ u[1] = x /\ u[2] = y
  BY <1>1, <1>2
<1>5. t \in Seq(S) /\ Len(t) = 2 /\ t[1] = x /\ t[2] = y
  <2>1. t \in Seq(S) /\ Len(t) = 2
    BY <1>2, <1>3
  <2>2. t[1] = p[1] /\ t[2] = q[1]
    BY <1>2, <1>3
  <2> QED BY <1>3, <2>1, <2>2
<1>6. t = u
  <2>1. \A i \in 1 .. 2 : t[i] = u[i]
    BY <1>4, <1>5
  <2> QED BY <1>4, <1>5, <2>1, SeqEqual
<1>7. p \o <<>> = p
  BY <1>3
<1> QED BY <1>2, <1>4, <1>6, <1>7, Zenon

LEMMA Elements3 ==
    ASSUME NEW x, NEW y, NEW z
    PROVE  /\ <<x, y>> \o <<z>> = <<x, y, z>>
           /\ Len(<<x, y, z>>) = 3 /\ <<x, y, z>>[1] = x
           /\ <<x, y, z>>[2] = y /\ <<x, y, z>>[3] = z
<1>1. PICK S : S = {x, y, z}
  OBVIOUS
<1>2. PICK p, q, t, u : p = <<x, y>> /\ q = <<z>> /\ t = p \o q /\ u = <<x, y, z>>
  OBVIOUS
<1>3. /\ p \in Seq(S) /\ Len(p) = 2 /\ p[1] = x /\ p[2] = y
      /\ q \in Seq(S) /\ Len(q) = 1 /\ q[1] = z
  BY <1>1, <1>2
<1>4. u \in Seq(S) /\ Len(u) = 3 /\ u[1] = x /\ u[2] = y /\ u[3] = z
  BY <1>1, <1>2
<1>5. t \in Seq(S) /\ Len(t) = 3 /\ t[1] = x /\ t[2] = y /\ t[3] = z
  <2>1. t \in Seq(S) /\ Len(t) = 3
    BY <1>2, <1>3
  <2>2. t[1] = p[1] /\ t[2] = p[2] /\ t[3] = q[1]
    BY <1>2, <1>3
  <2> QED BY <1>3, <2>1, <2>2
<1>6. t = u
  <2>1. \A i \in 1 .. 3 : t[i] = u[i]
    BY <1>4, <1>5
  <2> QED BY <1>4, <1>5, <2>1, SeqEqual
<1> QED BY <1>2, <1>4, <1>6, Zenon

LEMMA Joined3 ==
    ASSUME NEW x, NEW y, NEW z
    PROVE  <<x>> \o <<y>> \o <<z>> = <<x, y, z>>
<1>1. <<x>> \o <<y>> = <<x, y>>
  BY Elements2, Zenon
<1>2. <<x, y>> \o <<z>> = <<x, y, z>>
  BY Elements3
<1> QED BY <1>1, <1>2, Zenon

LEMMA FlattenTwo ==
    ASSUME NEW a \in Seq(Bytes), NEW b \in Seq(Bytes)
    PROVE  FlattenSeq(<<a, b>>) = a \o b
<1>1. PICK R : R = Seq(Bytes)
  OBVIOUS
<1>2. <<a>> \in Seq(R) /\ <<b>> \in Seq(R) /\ <<a, b>> = <<a>> \o <<b>>
  <2>1. <<a>> \in Seq(R) /\ <<b>> \in Seq(R)
    BY <1>1
  <2>2. <<a>> \o <<b>> = <<a, b>>
    BY Elements2, Zenon
  <2> QED BY <2>1, <2>2, Zenon
<1>3. FlattenSeq(<<a>> \o <<b>>) = FlattenSeq(<<a>>) \o FlattenSeq(<<b>>)
  BY <1>1, <1>2, FlattenConcat, Zenon
<1>4. FlattenSeq(<<a>>) = a
  BY FlattenOne
<1>5. FlattenSeq(<<b>>) = b
  BY FlattenOne
<1> QED BY <1>2, <1>3, <1>4, <1>5, Zenon

LEMMA FlattenThree ==
    ASSUME NEW a \in Seq(Bytes), NEW b \in Seq(Bytes), NEW e \in Seq(Bytes)
    PROVE  FlattenSeq(<<a, b, e>>) = (a \o b) \o e
<1>1. PICK R : R = Seq(Bytes)
  OBVIOUS
<1>2. <<a, b>> \in Seq(R) /\ <<e>> \in Seq(R) /\ <<a, b, e>> = <<a, b>> \o <<e>>
  BY <1>1, Elements3
<1>3. FlattenSeq(<<a, b>> \o <<e>>) = FlattenSeq(<<a, b>>) \o FlattenSeq(<<e>>)
  BY <1>1, <1>2, FlattenConcat, Zenon
<1>4. FlattenSeq(<<a, b>>) = a \o b /\ FlattenSeq(<<e>>) = e
  BY FlattenOne, FlattenTwo
<1> QED BY <1>2, <1>3, <1>4, Zenon

(* The uses of a line make one of the ways it may have been written in.    *)
LEMMA LineSaid ==
    ASSUME NEW line, IsLine(line), NEW input,
           input = [text |-> BytesOf(line.units), number |-> line.number],
           NEW todo, todo = LineWork(input),
           NEW said \in Seq(Seq(Bytes)), Len(said) = Len(todo),
           \A k \in 1 .. Len(said) : said[k] \in Meanings("UTF8", todo[k])
    PROVE  \E w \in AsWritten(line) : FlattenSeq(said) = KeptOf(w) \o <<NEWLINE>>
<1>1. PICK units, number : units = line.units /\ number = line.number /\ number \in Nat
  <2>1. line.number \in Nat
    BY DEF IsLine, LineRecords
  <2> QED BY <2>1
<1>2. IsText(units) /\ input.text = BytesOf(units) /\ input.number = number
  <2>1. IsText(units)
    BY <1>1, Zenon DEF IsLine
  <2> QED BY <1>1, <2>1
<1>3. PICK use : use = LineText(input.text)
  OBVIOUS
<1>4. use.op = "line" /\ use.text = BytesOf(units)
  BY <1>2, <1>3 DEF LineText
<1>5. \A meaning \in Meanings("UTF8", Newline) : meaning = <<NEWLINE>>
  <2>1. Meanings("UTF8", Newline) = {<<NEWLINE>>}
    <3>1. Newline.op = "newline"
      BY DEF Newline
    <3> QED BY <3>1 DEF Meanings
  <2> QED BY <2>1
<1>6. ASSUME NEW meaning \in Meanings("UTF8", Number(number)) PROVE meaning = Digits(number)
  <2>1. Meanings("UTF8", Number(number)) = {Digits(number)}
    <3>1. Number(number).op = "number" /\ Number(number).n = number
      BY DEF Number
    <3> QED BY <3>1 DEF Meanings
  <2> QED BY <2>1
<1>7. ASSUME NEW meaning \in Meanings("UTF8", use)
      PROVE  \E way \in Ways(units) : meaning = KeptOf(way)
  BY <1>2, <1>4, LineMeant, Zenon
<1>8. PICK digits : digits = IF number = 0 THEN <<>> ELSE Digits(number)
  OBVIOUS
<1>9. ASSUME NEW way \in Ways(units)
      PROVE  /\ way \o Numeral(number) \in AsWritten(line) /\ KeptOf(way) \in Seq(Bytes)
             /\ KeptOf(way \o Numeral(number)) = KeptOf(way) \o digits
  <2>1. way \o Numeral(number) \in AsWritten(line)
    BY <1>1, WrittenIs, Zenon
  <2>2. way \in Seq(UnitRecords)
    BY <1>1, LineIsWay, Zenon DEF IsWay
  <2>3. Numeral(number) \in Seq(UnitRecords) /\ KeptOf(Numeral(number)) = digits
    BY <1>1, <1>8, NumeralIs, Zenon
  <2> QED BY <2>1, <2>2, <2>3, BytesOfConcat, Zenon
<1>10. \A k \in 1 .. Len(said) : said[k] \in Seq(Bytes)
  BY Element
<1>11. <<NEWLINE>> \in Seq(Bytes)
  BY DEF NEWLINE, Bytes
<1>12. CASE number = 0
  <2>1. todo = <<use, Newline>>
    <3>1. todo = <<use>> \o <<>> \o <<Newline>>
      BY <1>2, <1>3, <1>12, Zenon DEF LineWork, LineText, Newline
    <3> QED BY <3>1, Elements2, Zenon
  <2>2. PICK a, b : a = said[1] /\ b = said[2]
    OBVIOUS
  <2>3. /\ said = <<a, b>> /\ a \in Seq(Bytes)
        /\ a \in Meanings("UTF8", use) /\ b = <<NEWLINE>>
    <3>1. Len(said) = 2 /\ todo[1] = use /\ todo[2] = Newline
      <4>1. PICK x, y : x = use /\ y = Newline
        OBVIOUS
      <4>2. Len(said) = Len(<<x, y>>) /\ todo[1] = <<x, y>>[1] /\ todo[2] = <<x, y>>[2]
        BY <2>1, <4>1, Zenon
      <4> QED BY <4>1, <4>2, Elements2, Zenon
    <3>2. 1 \in 1 .. 2 /\ 2 \in 1 .. 2
      OBVIOUS
    <3>3. a \in Meanings("UTF8", use) /\ b \in Meanings("UTF8", Newline) /\ a \in Seq(Bytes)
      BY <1>10, <2>2, <3>1, <3>2, Zenon
    <3>4. said = <<a, b>>
      BY <2>2, <3>1
    <3> QED BY <1>5, <3>3, <3>4, Zenon
  <2>4. PICK way \in Ways(units) : a = KeptOf(way)
    BY <1>7, <2>3, Zenon
  <2>5. FlattenSeq(said) = a \o <<NEWLINE>>
    BY <1>11, <2>3, FlattenTwo, Zenon
  <2>6. KeptOf(way \o Numeral(number)) = a
    <3>1. KeptOf(way \o Numeral(number)) = a \o <<>>
      BY <1>8, <1>9, <1>12, <2>4, Zenon
    <3>2. a \o <<>> = a
      BY <2>3
    <3> QED BY <3>1, <3>2, Zenon
  <2> QED BY <1>9, <2>5, <2>6, Zenon
<1>13. CASE number # 0
  <2>1. todo = <<use, Number(number), Newline>>
    <3>1. todo = <<use>> \o <<Number(number)>> \o <<Newline>>
      BY <1>2, <1>3, <1>13, Zenon DEF LineWork, LineText, Newline, Number
    <3>2. PICK number2 : number2 = Number(number)
      OBVIOUS
    <3>3. <<use>> \o <<number2>> \o <<Newline>> = <<use, number2, Newline>>
      BY Joined3, Zenon
    <3> QED BY <3>1, <3>2, <3>3, Zenon
  <2>2. PICK a, b, e : a = said[1] /\ b = said[2] /\ e = said[3]
    OBVIOUS
  <2>3. /\ said = <<a, b, e>> /\ a \in Seq(Bytes) /\ b \in Seq(Bytes)
        /\ a \in Meanings("UTF8", use) /\ b = Digits(number) /\ e = <<NEWLINE>>
    <3>1. /\ Len(said) = 3 /\ todo[1] = use /\ todo[2] = Number(number) /\ todo[3] = Newline
      <4>1. PICK x, y, z : x = use /\ y = Number(number) /\ z = Newline
        OBVIOUS
      <4>2. /\ Len(said) = Len(<<x, y, z>>) /\ todo[1] = <<x, y, z>>[1]
            /\ todo[2] = <<x, y, z>>[2] /\ todo[3] = <<x, y, z>>[3]
        BY <2>1, <4>1, Zenon
      <4> QED BY <4>1, <4>2, Elements3, Zenon
    <3>2. 1 \in 1 .. 3 /\ 2 \in 1 .. 3 /\ 3 \in 1 .. 3
      OBVIOUS
    <3>3. /\ a \in Meanings("UTF8", use) /\ b \in Meanings("UTF8", Number(number))
          /\ e \in Meanings("UTF8", Newline) /\ a \in Seq(Bytes) /\ b \in Seq(Bytes)
      BY <1>10, <2>2, <3>1, <3>2, Zenon
    <3>4. said = <<a, b, e>>
      BY <2>2, <3>1
    <3> QED BY <1>5, <1>6, <3>3, <3>4, Zenon
  <2>4. PICK way \in Ways(units) : a = KeptOf(way)
    BY <1>7, <2>3, Zenon
  <2>5. FlattenSeq(said) = (a \o b) \o <<NEWLINE>>
    BY <1>11, <2>3, FlattenThree, Zenon
  <2>6. KeptOf(way \o Numeral(number)) = a \o b
    BY <1>8, <1>9, <1>13, <2>3, <2>4, Zenon
  <2> QED BY <1>9, <2>5, <2>6, Zenon
<1> QED BY <1>12, <1>13

(* The lines of a message, each with its newline.                          *)
WaysOf(lines)     == [DOMAIN lines -> UNION {AsWritten(lines[i]) : i \in DOMAIN lines}]
Ended(written, n) == [i \in 1 .. n |-> KeptOf(written[i]) \o <<NEWLINE>>]

LEMMA EndedType ==
    ASSUME NEW n \in Nat, NEW written, \A i \in 1 .. n : IsWay(written[i])
    PROVE  /\ Ended(written, n) \in Seq(Seq(Bytes)) /\ Len(Ended(written, n)) = n
           /\ \A i \in 1 .. n : Ended(written, n)[i] = KeptOf(written[i]) \o <<NEWLINE>>
<1>1. PICK ended, R : ended = Ended(written, n) /\ R = Seq(Bytes)
  OBVIOUS
<1>2. <<NEWLINE>> \in Seq(Bytes)
  BY DEF NEWLINE, Bytes
<1>3. ASSUME NEW i \in 1 .. n PROVE KeptOf(written[i]) \o <<NEWLINE>> \in R
  BY <1>1, <1>2, TrimmedIs, Concat, Zenon
<1>4. ended \in [1 .. n -> R] /\ \A i \in 1 .. n : ended[i] = KeptOf(written[i]) \o <<NEWLINE>>
  BY <1>1, <1>3, Zenon DEF Ended
<1>5. ended \in Seq(R) /\ Len(ended) = n
  BY <1>4, IsSequence
<1> QED BY <1>1, <1>4, <1>5, Zenon

LEMMA MessageIs ==
    ASSUME SInv, job.kind # "page", IsMessage(job)
    PROVE  /\ Len(job.lines) \in Nat /\ DOMAIN job.lines = 1 .. Len(job.lines)
           /\ \A i \in 1 .. Len(job.lines) : IsLine(job.lines[i])
           /\ job.input \in Seq([text : Seq(Bytes), number : Nat])
           /\ Len(job.input) = Len(job.lines) /\ DOMAIN job.input = 1 .. Len(job.lines)
           /\ \A i \in 1 .. Len(job.lines) :
                 job.input[i] = [text |-> BytesOf(job.lines[i].units), number |-> job.lines[i].number]
<1>1. PICK lines, input : lines = job.lines /\ input = job.input
  OBVIOUS
<1>2. lines \in Seq(LineRecords) /\ job = LogJob(job.kind, lines)
      /\ \A i \in DOMAIN lines : IsLine(lines[i])
  BY <1>1, Zenon DEF IsMessage
<1>3. PICK n \in Nat : n = Len(lines) /\ DOMAIN lines = 1 .. n
  <2> HIDE DEF LineRecords
  <2> QED BY <1>2
<1>4. input = [i \in DOMAIN lines |-> [text |-> BytesOf(lines[i].units), number |-> lines[i].number]]
  <2>1. LogJob(job.kind, lines).input
        = [i \in DOMAIN lines |-> [text |-> BytesOf(lines[i].units), number |-> lines[i].number]]
    BY DEF LogJob
  <2> QED BY <1>1, <1>2, <2>1, Zenon
<1>5. input \in Seq([text : Seq(Bytes), number : Nat])
  <2>1. job \in Jobs
    BY DEF SInv, StreamsInv
  <2> QED BY <1>1, <2>1, JobsAssumption, Zenon
<1>6. DOMAIN input = 1 .. n
  BY <1>3, <1>4, Zenon
<1>7. Len(input) = n
  BY <1>3, <1>5, <1>6
<1>8. \A i \in 1 .. n : input[i] = [text |-> BytesOf(lines[i].units), number |-> lines[i].number]
  BY <1>3, <1>4, Zenon
<1> QED BY <1>1, <1>2, <1>3, <1>5, <1>6, <1>7, <1>8, Zenon

(* The m elements of a sequence behind the first ones.                     *)
IsPart(s, first, m, S, part) ==
    part \in Seq(S) /\ Len(part) = m /\ \A k \in 1 .. m : part[k] = s[first + k]

LEMMA PartIs ==
    ASSUME NEW S, NEW s \in Seq(S), NEW first \in Nat, NEW m \in Nat, first + m <= Len(s)
    PROVE  IsPart(s, first, m, S, SubSeq(s, first + 1, first + m))
<1>1. PICK q, r \in Nat : q = first + 1 /\ r = first + m /\ q > 0
  OBVIOUS
<1>2. \A i \in q .. r : s[i] \in S
  BY <1>1
<1>3. /\ SubSeq(s, q, r) \in Seq(S) /\ Len(SubSeq(s, q, r)) = IF q <= r THEN r - q + 1 ELSE 0
      /\ \A i \in 1 .. r - q + 1 : SubSeq(s, q, r)[i] = s[q + i - 1]
  <2>1. q \in Int /\ r \in Int
    OBVIOUS
  <2> QED BY <1>2, <2>1, SubSeqProperties
<1>4. (IF q <= r THEN r - q + 1 ELSE 0) = m /\ r - q + 1 = m
  BY <1>1
<1>5. \A i \in 1 .. m : q + i - 1 = first + i
  BY <1>1
<1> QED BY <1>1, <1>3, <1>4, <1>5, Zenon DEF IsPart

LEMMA MessageSaid ==
    ASSUME SInv, SaidInv, job.kind # "page", IsMessage(job),
           phase \in {"stream", "log", "done"}, call = "none", work = <<>>
    PROVE  \E written \in WaysOf(job.lines) :
              IsWritten(written, job.lines) /\ out = FlattenSeq(Ended(written, Len(job.lines)))
<1>1. PICK lines, input, n : lines = job.lines /\ input = job.input /\ n = Len(lines)
  OBVIOUS
<1>2. /\ n \in Nat /\ DOMAIN lines = 1 .. n /\ (\A i \in 1 .. n : IsLine(lines[i]))
       /\ input \in Seq([text : Seq(Bytes), number : Nat])
       /\ Len(input) = n /\ DOMAIN input = 1 .. n
       /\ \A i \in 1 .. n :
             input[i] = [text |-> BytesOf(lines[i].units), number |-> lines[i].number]
  BY <1>1, MessageIs, Zenon
<1>3. PICK works : works = [i \in DOMAIN input |-> LineWork(input[i])]
  OBVIOUS
<1>4. /\ works \in Seq(Seq(Uses)) /\ Len(works) = n
      /\ \A i \in 1 .. n : works[i] = LineWork(input[i]) /\ works[i] \in Seq(Uses)
  <2>1. works \in Seq(Seq(Uses))
    BY <1>1, <1>2, <1>3, LogWorkType, Zenon
  <2>2. DOMAIN works = 1 .. n /\ \A i \in 1 .. n : works[i] = LineWork(input[i])
    BY <1>1, <1>2, <1>3, Zenon
  <2>3. PICK R : R = Seq(Uses)
    OBVIOUS
  <2>4. Len(works) = n /\ \A i \in 1 .. n : works[i] \in R
    BY <1>1, <1>2, <2>1, <2>2, <2>3
  <2> QED BY <2>1, <2>2, <2>3, <2>4, Zenon
<1>5. PICK uses, said : uses \o work \in Works /\ Means(Style, uses, said) /\ Total = FlattenSeq(said)
  BY Zenon DEF SaidInv
<1>6. call = "none" /\ work = <<>> /\ Style = "UTF8" /\ Total = out
  BY Zenon DEF SaidInv, Style, Total
<1>7. PICK size \in Nat :
         /\ size = Len(uses) /\ uses \in Seq(Uses) /\ said \in Seq(Seq(Bytes)) /\ Len(said) = size
         /\ \A i \in 1 .. size : said[i] \in Meanings("UTF8", uses[i])
  <2>1. /\ uses \in Seq(Uses) /\ said \in Seq(Seq(Bytes)) /\ Len(said) = Len(uses)
        /\ \A i \in 1 .. Len(uses) : said[i] \in Meanings("UTF8", uses[i])
    BY <1>5, <1>6, Zenon DEF Means
  <2>2. Len(uses) \in Nat
    BY <2>1, SequenceIs, Zenon
  <2> QED BY <2>1, <2>2, Zenon
<1>8. uses = FlattenSeq(works)
  <2>1. uses \o <<>> = uses
    BY <1>7, ConcatEmptySeq, Zenon
  <2>2. Works = {FlattenSeq(works)}
    BY <1>1, <1>2, <1>3, Zenon DEF Works
  <2> QED BY <1>5, <1>6, <2>1, <2>2, Zenon
<1>9. PICK f : Flattens(f, works, Uses) /\ FlattenSeq(works) = f[n]
  BY <1>4, FlattenIs, Zenon
<1>10. Places(f, works, uses)
  <2>1. Places(f, works, f[Len(works)] \o <<>>)
    <3>1. <<>> \in Seq(Uses)
      BY Empty, Zenon
    <3> QED BY <1>4, <1>9, <3>1, PlacesAre, Zenon
  <2>2. uses \o <<>> = uses
    BY <1>7, ConcatEmptySeq, Zenon
  <2> QED BY <1>4, <1>8, <1>9, <2>1, <2>2, Zenon
<1>11. PICK at : at = [i \in 0 .. n |-> Len(f[i])]
  OBVIOUS
<1>12. ASSUME NEW i \in 1 .. n
       PROVE  /\ i - 1 \in 0 .. n /\ at[i - 1] \in Nat /\ at[i] = at[i - 1] + Len(works[i])
              /\ at[i] <= size /\ Len(works[i]) \in Nat
              /\ \A k \in 1 .. Len(works[i]) : uses[at[i - 1] + k] = works[i][k]
  <2>1. i - 1 \in 0 .. n /\ i \in 0 .. n
    BY <1>1, <1>2
  <2>2. at[i - 1] = Len(f[i - 1]) /\ at[i] = Len(f[i])
    BY <1>11, <2>1, Zenon
  <2>3. /\ Len(f[i - 1]) \in Nat /\ Len(f[i]) = Len(f[i - 1]) + Len(works[i])
        /\ Len(f[i]) <= Len(uses)
        /\ \A k \in 1 .. Len(works[i]) : uses[Len(f[i - 1]) + k] = works[i][k]
    BY <1>4, <1>10, Zenon DEF Places
  <2>4. Len(works[i]) \in Nat
    BY <1>4, SequenceIs, Zenon
  <2> QED BY <1>7, <2>1, <2>2, <2>3, <2>4, Zenon
<1>13. Blocks(at, n, size)
  <2>1. at[0] = 0 /\ at[n] = size
    <3>1. 0 \in 0 .. n /\ n \in 0 .. n /\ Len(<<>>) = 0
      BY <1>1, <1>2
    <3> QED BY <1>7, <1>8, <1>9, <1>11, <3>1, Zenon DEF Flattens
  <2>2. ASSUME NEW i \in 0 .. n PROVE at[i] \in Nat
    <3>1. f[i] \in Seq(Uses)
      BY <1>4, <1>9, Zenon DEF Flattens
    <3> QED BY <1>11, <3>1, SequenceIs, Zenon
  <2>3. at \in [0 .. n -> Nat]
    BY <1>11, <2>2, Zenon
  <2>4. ASSUME NEW i \in 1 .. n PROVE at[i - 1] <= at[i] /\ at[i] <= size
    BY <1>12
  <2> QED BY <2>1, <2>3, <2>4, Zenon DEF Blocks
<1>14. ASSUME NEW i \in 1 .. n
       PROVE  \E w \in AsWritten(lines[i]) :
                 FlattenSeq(SubSeq(said, at[i - 1] + 1, at[i])) = KeptOf(w) \o <<NEWLINE>>
  <2>1. PICK first, m \in Nat : first = at[i - 1] /\ m = Len(works[i]) /\ first \in Nat
    BY <1>12, Zenon
  <2>2. at[i] = first + m /\ first + m <= size /\ \A k \in 1 .. m : uses[first + k] = works[i][k]
    BY <1>12, <2>1, Zenon
  <2>3. PICK ss : ss = SubSeq(said, first + 1, first + m)
    OBVIOUS
  <2>4. ss \in Seq(Seq(Bytes)) /\ Len(ss) = m /\ \A k \in 1 .. m : ss[k] = said[first + k]
    <3>1. PICK R : R = Seq(Bytes)
      OBVIOUS
    <3>2. said \in Seq(R) /\ first + m <= Len(said)
      BY <1>7, <2>2, <3>1, Zenon
    <3>3. first \in Nat /\ m \in Nat
      BY <2>1
    <3>4. IsPart(said, first, m, R, SubSeq(said, first + 1, first + m))
      BY <3>2, <3>3, PartIs
    <3> QED BY <2>3, <3>1, <3>4, Zenon DEF IsPart
  <2>5. ASSUME NEW k \in 1 .. m PROVE ss[k] \in Meanings("UTF8", works[i][k])
    <3>1. first + k \in 1 .. size
      BY <1>7, <2>1, <2>2
    <3> QED BY <1>7, <2>2, <2>4, <3>1, Zenon
  <2>6. PICK line, todo : line = lines[i] /\ todo = works[i]
    OBVIOUS
  <2>7. /\ IsLine(line) /\ input[i] = [text |-> BytesOf(line.units), number |-> line.number]
        /\ todo = LineWork(input[i]) /\ Len(ss) = Len(todo)
        /\ \A k \in 1 .. Len(ss) : ss[k] \in Meanings("UTF8", todo[k])
    BY <1>4, <1>2, <2>1, <2>4, <2>5, <2>6, Zenon
  <2>8. \E w \in AsWritten(line) : FlattenSeq(ss) = KeptOf(w) \o <<NEWLINE>>
    BY <2>4, <2>7, LineSaid, Zenon
  <2> QED BY <2>1, <2>2, <2>3, <2>6, <2>8, Zenon
<1>15. PICK written : written = [i \in 1 .. n |-> CHOOSE w \in AsWritten(lines[i]) :
                 FlattenSeq(SubSeq(said, at[i - 1] + 1, at[i])) = KeptOf(w) \o <<NEWLINE>>]
  OBVIOUS
<1>16. ASSUME NEW i \in 1 .. n
       PROVE  /\ written[i] \in AsWritten(lines[i])
              /\ FlattenSeq(SubSeq(said, at[i - 1] + 1, at[i])) = KeptOf(written[i]) \o <<NEWLINE>>
  BY <1>14, <1>15, Zenon
<1>17. written \in WaysOf(lines) /\ IsWritten(written, lines)
  <2>1. PICK All : All = UNION {AsWritten(lines[i]) : i \in DOMAIN lines}
    OBVIOUS
  <2>2. \A i \in 1 .. n : written[i] \in All
    BY <1>16, <1>2, <2>1, Zenon
  <2>3. written \in [1 .. n -> All]
    BY <1>15, <2>2, Zenon
  <2> QED BY <1>16, <1>2, <2>1, <2>3, Zenon DEF WaysOf, IsWritten
<1>18. PICK ww : ww = Ended(written, n)
  OBVIOUS
<1>19. /\ ww \in Seq(Seq(Bytes)) /\ Len(ww) = n
       /\ \A i \in 1 .. n : ww[i] = KeptOf(written[i]) \o <<NEWLINE>>
  <2>1. \A i \in 1 .. n : IsWay(written[i])
    BY <1>1, <1>2, <1>16, WrittenIs, Zenon
  <2> QED BY <1>1, <1>2, <1>18, <2>1, EndedType, Zenon
<1>20. FlattenSeq(said) = FlattenSeq(ww)
  BY <1>7, <1>13, <1>16, <1>19, FlattenBlocks, Zenon
<1> QED BY <1>1, <1>2, <1>5, <1>6, <1>17, <1>18, <1>20, Zenon

-----------------------------------------------------------------------------
(* The loop of the logger over the lines that were written.                *)

LEMMA FlattenUpTo ==
    ASSUME NEW S, NEW ss \in Seq(Seq(S)), NEW f, Flattens(f, ss, S), NEW k \in 0 .. Len(ss)
    PROVE  FlattenSeq(SubSeq(ss, 1, k)) = f[k]
<1>1. PICK part, R : part = SubSeq(ss, 1, k) /\ R = Seq(S)
  OBVIOUS
<1>2. k \in Nat /\ k <= Len(ss) /\ Len(ss) \in Nat
  OBVIOUS
<1>3. part \in Seq(R) /\ Len(part) = k /\ \A i \in 1 .. k : part[i] = ss[i]
  <2>1. ss \in Seq(R)
    BY <1>1
  <2> QED BY <1>1, <1>2, <2>1
<1>4. PICK g : Flattens(g, part, S) /\ FlattenSeq(part) = g[k]
  <2>1. part \in Seq(Seq(S))
    BY <1>1, <1>3, Zenon
  <2> QED BY <1>3, <2>1, FlattenIs, Zenon
<1>5. k <= Len(part) /\ Len(part) \in Nat
  BY <1>2, <1>3
<1>6. g[k] = f[k]
  <2>1. Flattens(f, ss, S) /\ Flattens(g, part, S) /\ k \in Nat
    BY <1>2, <1>4
  <2>2. \A i \in 1 .. k : part[i] = ss[i]
    BY <1>3
  <2> QED BY <1>2, <1>5, <2>1, <2>2, FlattensAgree
<1> QED BY <1>1, <1>4, <1>6, Zenon

(* A line that starts at a place in what the stream has collected.         *)
LineAt(place, text) ==
    /\ place \in Nat /\ text \in Seq(Bytes) /\ place + Len(text) + 1 <= Len(out)
    /\ \A j \in 1 .. Len(text) : out[place + j] = text[j] /\ text[j] # NEWLINE
    /\ out[place + Len(text) + 1] = NEWLINE

LEMMA LineFound ==
    ASSUME out \in Seq(Bytes), NEW text, LineAt(start, text)
    PROVE  /\ Find(out, NEWLINE, start + 1) - 1 = start + Len(text)
           /\ TrimRight(start + Len(text)) \in start .. start + Len(text)
           /\ CutsAt(text, TrimRight(start + Len(text)) - start)
           /\ SubSeq(out, start + 1, TrimRight(start + Len(text)))
              = SubSeq(text, 1, TrimRight(start + Len(text)) - start)
<1>1. PICK l \in Nat : l = Len(text) /\ text \in Seq(Bytes)
  BY DEF LineAt
<1>2. PICK size \in Nat : size = Len(out) /\ start \in Nat /\ start + l + 1 <= size
  BY <1>1 DEF LineAt
<1>3. /\ \A j \in 1 .. l : out[start + j] = text[j] /\ text[j] # NEWLINE
      /\ out[start + l + 1] = NEWLINE
  BY <1>1, Zenon DEF LineAt
<1>4. PICK found : found = Find(out, NEWLINE, start + 1)
  OBVIOUS
<1>5. /\ found \in start + 1 .. size + 1
      /\ found <= size => out[found] = NEWLINE
      /\ \A i \in start + 1 .. found - 1 : out[i] # NEWLINE
  <2>1. start + 1 \in 1 .. Len(out) + 1
    BY <1>2
  <2> QED BY <1>2, <1>4, <2>1, FindIs
<1>6. found = start + l + 1
  <2>1. ~(found > start + l + 1)
    <3>1. found > start + l + 1 => start + l + 1 \in start + 1 .. found - 1
      BY <1>1, <1>2, <1>5
    <3> QED BY <1>3, <1>5, <3>1
  <2>2. ~(found < start + l + 1)
    <3> SUFFICES ASSUME found < start + l + 1 PROVE FALSE
      OBVIOUS
    <3>1. PICK j \in 1 .. l : found = start + j
      BY <1>1, <1>2, <1>5
    <3>2. found <= size
      BY <1>1, <1>2, <3>1
    <3>3. out[found] = NEWLINE /\ out[found] = text[j] /\ text[j] # NEWLINE
      BY <1>3, <1>5, <3>1, <3>2, Zenon
    <3> QED BY <3>3
  <2> QED BY <1>1, <1>2, <1>5, <2>1, <2>2
<1>7. PICK newline \in Nat : newline = start + l /\ found - 1 = newline
  BY <1>1, <1>2, <1>6
<1>8. PICK end : end = TrimRight(newline)
  OBVIOUS
<1>9. /\ end \in start .. newline /\ (start < end => ~Blank(out[end]))
      /\ \A i \in end + 1 .. newline : Blank(out[i])
  <2>1. start <= newline
    BY <1>1, <1>2, <1>7
  <2> QED BY <1>2, <1>8, <2>1, TrimRightIs
<1>10. PICK m \in Nat : m = end - start /\ m <= l /\ end = start + m
  BY <1>1, <1>2, <1>7, <1>9
<1>11. CutsAt(text, m)
  <2>1. m \in 0 .. l
    BY <1>1, <1>10
  <2>2. ASSUME NEW i \in m + 1 .. l PROVE Blank(text[i])
    <3>1. i \in 1 .. l /\ start + i \in end + 1 .. newline
      BY <1>1, <1>2, <1>7, <1>10
    <3> QED BY <1>3, <1>9, <3>1, Zenon
  <2>3. m > 0 => ~Blank(text[m])
    <3>1. m > 0 => m \in 1 .. l /\ start < end
      BY <1>1, <1>2, <1>10
    <3> QED BY <1>3, <1>9, <1>10, <3>1, Zenon
  <2> QED BY <1>1, <2>1, <2>2, <2>3, Zenon DEF CutsAt
<1>12. SubSeq(out, start + 1, end) = SubSeq(text, 1, m)
  <2>1. PICK given, kept : given = SubSeq(out, start + 1, end) /\ kept = SubSeq(text, 1, m)
    OBVIOUS
  <2>2. given \in Seq(Bytes) /\ Len(given) = m /\ \A k \in 1 .. m : given[k] = out[start + k]
    <3>1. start + m <= Len(out)
      BY <1>1, <1>2, <1>10
    <3>2. IsPart(out, start, m, Bytes, SubSeq(out, start + 1, start + m))
      BY <1>2, <3>1, PartIs
    <3> QED BY <1>10, <2>1, <3>2, Zenon DEF IsPart
  <2>3. kept \in Seq(Bytes) /\ Len(kept) = m /\ \A k \in 1 .. m : kept[k] = text[k]
    <3>1. m \in 0 .. l
      BY <1>1, <1>10
    <3>2. IsSplit(text, l, m, Bytes, SubSeq(text, 1, m), SubSeq(text, m + 1, l))
      BY <1>1, <3>1, SplitAt, Zenon
    <3> QED BY <2>1, <3>2, Zenon DEF IsSplit
  <2>4. \A k \in 1 .. m : given[k] = kept[k]
    <3>1. \A k \in 1 .. m : k \in 1 .. l
      BY <1>1, <1>10
    <3> QED BY <1>3, <2>2, <2>3, <3>1, Zenon
  <2> QED BY <2>1, <2>2, <2>3, <2>4, SeqEqual
<1> QED BY <1>1, <1>4, <1>7, <1>8, <1>9, <1>10, <1>11, <1>12, Zenon

(* What the callback is given of a line, and of each of the first n.       *)
LineGiven(units)      == IF Trimmed(units) = <<>> THEN <<>> ELSE <<Trimmed(units)>>
LinesGiven(written, n) == [i \in 1 .. n |-> LineGiven(written[i])]

LEMMA LinesGivenType ==
    ASSUME NEW n \in Nat, NEW written, \A i \in 1 .. n : IsWay(written[i])
    PROVE  /\ LinesGiven(written, n) \in Seq(Seq(Seq(Bytes))) /\ Len(LinesGiven(written, n)) = n
           /\ \A i \in 1 .. n : LinesGiven(written, n)[i] = LineGiven(written[i])
<1>1. PICK given, R, Q : given = LinesGiven(written, n) /\ R = Seq(Bytes) /\ Q = Seq(R)
  OBVIOUS
<1>2. ASSUME NEW i \in 1 .. n PROVE LineGiven(written[i]) \in Q
  <2>1. PICK text, m : text = KeptOf(written[i]) /\ text \in Seq(Bytes) /\ CutsAt(text, m)
                       /\ Trimmed(written[i]) = SubSeq(text, 1, m)
    BY TrimmedIs, Zenon
  <2>2. m \in 0 .. Len(text)
    BY <2>1, Zenon DEF CutsAt
  <2>3. SubSeq(text, 1, m) \in Seq(Bytes)
    BY <2>1, <2>2
  <2>4. PICK trimmed : trimmed = Trimmed(written[i]) /\ trimmed \in R
    BY <1>1, <2>1, <2>3, Zenon
  <2>5. <<>> \in Q /\ <<trimmed>> \in Q
    BY <1>1, <2>4
  <2> QED BY <2>4, <2>5, Zenon DEF LineGiven
<1>3. given \in [1 .. n -> Q] /\ \A i \in 1 .. n : given[i] = LineGiven(written[i])
  BY <1>1, <1>2, Zenon DEF LinesGiven
<1>4. given \in Seq(Q) /\ Len(given) = n
  BY <1>3, IsSequence
<1> QED BY <1>1, <1>3, <1>4, Zenon

(* The first k lines of a message have been given.                         *)
Behind(written, n, k) ==
    /\ k \in 0 .. n
    /\ start = Len(FlattenSeq(SubSeq(Ended(written, n), 1, k)))
    /\ logged = FlattenSeq(SubSeq(LinesGiven(written, n), 1, k))

LEMMA NextLineAt ==
    ASSUME NEW n \in Nat, NEW written, \A i \in 1 .. n : IsWay(written[i]),
           out = FlattenSeq(Ended(written, n)), NEW k, Behind(written, n, k)
    PROVE  /\ k = n => start = Len(out)
           /\ k < n => /\ LineAt(start, KeptOf(written[k + 1])) /\ start < Len(out)
                       /\ Len(FlattenSeq(SubSeq(Ended(written, n), 1, k + 1)))
                          = start + Len(KeptOf(written[k + 1])) + 1
<1>1. PICK ended, R : ended = Ended(written, n) /\ R = Seq(Bytes)
  OBVIOUS
<1>2. /\ ended \in Seq(Seq(Bytes)) /\ Len(ended) = n /\ k \in Nat /\ k <= n /\ k \in 0 .. n
      /\ \A i \in 1 .. n : ended[i] = KeptOf(written[i]) \o <<NEWLINE>>
  <2>1. k \in 0 .. n
    BY Zenon DEF Behind
  <2>2. k \in Nat /\ k <= n
    BY <2>1
  <2> QED BY <1>1, <2>1, <2>2, EndedType, Zenon
<1>3. PICK f : Flattens(f, ended, Bytes) /\ out = f[n]
  BY <1>1, <1>2, FlattenIs, Zenon
<1>4. start = Len(f[k])
  <2>1. k \in 0 .. Len(ended)
    BY <1>2, Zenon
  <2>2. FlattenSeq(SubSeq(ended, 1, k)) = f[k]
    BY <1>2, <1>3, <2>1, FlattenUpTo
  <2> QED BY <1>1, <2>2, Zenon DEF Behind
<1>5. k = n => start = Len(out)
  BY <1>3, <1>4
<1>6. ASSUME k < n
      PROVE  /\ LineAt(start, KeptOf(written[k + 1])) /\ start < Len(out)
             /\ Len(FlattenSeq(SubSeq(ended, 1, k + 1))) = start + Len(KeptOf(written[k + 1])) + 1
  <2>1. PICK text : text = KeptOf(written[k + 1])
    OBVIOUS
  <2>2. k + 1 \in 1 .. n /\ k + 1 \in 0 .. n /\ (k + 1) - 1 = k
    BY <1>2, <1>6
  <2>3. text \in Seq(Bytes) /\ \A j \in 1 .. Len(text) : text[j] # NEWLINE
    BY <2>1, <2>2, TrimmedIs, Zenon
  <2>4. PICK line, l : line = ended[k + 1] /\ l = Len(text) /\ l \in Nat /\ line = text \o <<NEWLINE>>
    <3>1. ended[k + 1] = text \o <<NEWLINE>>
      BY <1>2, <2>1, <2>2, Zenon
    <3>2. Len(text) \in Nat
      BY <2>3, SequenceIs, Zenon
    <3> QED BY <3>1, <3>2, Zenon
  <2>5. Len(line) = l + 1 /\ line[l + 1] = NEWLINE /\ \A j \in 1 .. l : line[j] = text[j]
    BY <2>3, <2>4
  <2>6. Places(f, ended, out)
    <3>1. <<>> \in Seq(Bytes)
      BY Empty, Zenon
    <3>2. Places(f, ended, f[Len(ended)] \o <<>>)
      BY <1>2, <1>3, <3>1, PlacesAre, Zenon
    <3>3. f[n] \in Seq(Bytes)
      <4>1. n \in 0 .. n
        OBVIOUS
      <4> QED BY <1>2, <1>3, <4>1, Zenon DEF Flattens
    <3>4. f[n] \o <<>> = f[n]
      BY <3>3, ConcatEmptySeq, Zenon
    <3> QED BY <1>2, <1>3, <3>2, <3>4, Zenon
  <2>7. /\ start \in Nat /\ Len(f[k + 1]) = start + Len(line) /\ Len(f[k + 1]) <= Len(out)
        /\ \A j \in 1 .. Len(line) : out[start + j] = line[j]
    BY <1>2, <1>4, <2>2, <2>4, <2>6, Zenon DEF Places
  <2>8. Len(f[k + 1]) = start + l + 1
    BY <2>4, <2>5, <2>7
  <2>9. f[n] \in Seq(Bytes)
    <3>1. n \in 0 .. n
      OBVIOUS
    <3> QED BY <1>2, <1>3, <3>1, Zenon DEF Flattens
  <2>10. start + l + 1 <= Len(out) /\ start < Len(out) /\ Len(out) \in Nat
    <3>1. Len(out) \in Nat
      BY <1>3, <2>9
    <3> QED BY <2>4, <2>7, <2>8, <3>1
  <2>11. ASSUME NEW j \in 1 .. l PROVE out[start + j] = text[j]
    <3>1. j \in 1 .. Len(line)
      BY <2>4, <2>5
    <3> QED BY <2>5, <2>7, <3>1, Zenon
  <2>12. out[start + l + 1] = NEWLINE
    <3>1. l + 1 \in 1 .. Len(line) /\ start + l + 1 = start + (l + 1)
      BY <2>4, <2>5, <2>7
    <3> QED BY <2>5, <2>7, <3>1, Zenon
  <2>13. LineAt(start, text)
    BY <2>3, <2>4, <2>7, <2>10, <2>11, <2>12, Zenon DEF LineAt
  <2>14. FlattenSeq(SubSeq(ended, 1, k + 1)) = f[k + 1]
    BY <1>2, <1>3, <2>2, FlattenUpTo, Zenon
  <2> QED BY <2>1, <2>4, <2>8, <2>10, <2>13, <2>14, Zenon
<1> QED BY <1>1, <1>5, <1>6, Zenon

LEMMA LogLineLogs ==
    ASSUME SInv, LogLine, NEW n \in Nat, NEW written, \A i \in 1 .. n : IsWay(written[i]),
           out = FlattenSeq(Ended(written, n)), NEW k, Behind(written, n, k)
    PROVE  Behind(written, n, k + 1)'
<1>1. PICK size : size = Len(out) /\ start < size /\ k \in 0 .. n
  BY Zenon DEF LogLine, Behind
<1>2. out \in Seq(Bytes) /\ start \in Nat /\ logged \in Seq(Seq(Bytes)) /\ k \in Nat /\ size \in Nat
  <2>1. out \in Seq(Bytes) /\ start \in Nat /\ logged \in Seq(Seq(Bytes))
    BY DEF SInv, FInv, FormatterTypeOK, StreamsInv
  <2> QED BY <1>1, <2>1
<1>3. k < n
  <2>1. k # n
    <3>1. k = n => start = size
      BY <1>1, NextLineAt, Zenon
    <3> QED BY <1>1, <1>2, <3>1
  <2> QED BY <1>1, <2>1
<1>4. PICK units, text : units = written[k + 1] /\ text = KeptOf(units)
  OBVIOUS
<1>5. k + 1 \in 1 .. n /\ k + 1 \in 0 .. n
  BY <1>1, <1>2, <1>3
<1>6. LineAt(start, text) /\ Len(FlattenSeq(SubSeq(Ended(written, n), 1, k + 1))) = start + Len(text) + 1
  BY <1>3, <1>4, NextLineAt, Zenon
<1>7. PICK newline, end, m : newline = start + Len(text) /\ end = TrimRight(newline) /\ m = end - start
  OBVIOUS
<1>8. /\ Find(out, NEWLINE, start + 1) - 1 = newline /\ end \in start .. newline
      /\ CutsAt(text, m) /\ SubSeq(out, start + 1, end) = SubSeq(text, 1, m)
  BY <1>2, <1>6, <1>7, LineFound, Zenon
<1>9. text \in Seq(Bytes) /\ Trimmed(units) = SubSeq(text, 1, m)
  <2>1. PICK p : CutsAt(text, p) /\ Trimmed(units) = SubSeq(text, 1, p) /\ text \in Seq(Bytes)
    BY <1>4, <1>5, TrimmedIs, Zenon
  <2>2. p = m
    BY <1>8, <2>1, OneCut, Zenon
  <2> QED BY <2>1, <2>2
<1>10. PICK trimmed : trimmed = SubSeq(text, 1, m)
  OBVIOUS
<1>11. /\ trimmed \in Seq(Bytes) /\ Len(trimmed) = m /\ m \in Nat
       /\ start < end <=> m > 0
  <2>1. m \in 0 .. Len(text)
    BY <1>8, Zenon DEF CutsAt
  <2>2. end \in Int /\ m = end - start
    BY <1>2, <1>7, <1>8, <1>9
  <2> QED BY <1>2, <1>9, <1>10, <2>1, <2>2
<1>12. /\ logged' = IF start < end THEN Append(logged, trimmed) ELSE logged
       /\ start' = newline + 1
  BY <1>7, <1>8, <1>10, Zenon DEF LogLine
<1>13. PICK given, R : given = LinesGiven(written, n) /\ R = Seq(Bytes)
  OBVIOUS
<1>14. /\ given \in Seq(Seq(R)) /\ Len(given) = n
       /\ given[k + 1] = IF trimmed = <<>> THEN <<>> ELSE <<trimmed>>
  <2>1. given[k + 1] = LineGiven(units)
    BY <1>4, <1>5, <1>13, LinesGivenType, Zenon
  <2>2. LineGiven(units) = IF trimmed = <<>> THEN <<>> ELSE <<trimmed>>
    BY <1>9, <1>10, Zenon DEF LineGiven
  <2> QED BY <1>13, <2>1, <2>2, LinesGivenType, Zenon
<1>15. PICK g : Flattens(g, given, R) /\ FlattenSeq(given) = g[n]
  BY <1>14, FlattenIs, Zenon
<1>16. logged = g[k] /\ FlattenSeq(SubSeq(given, 1, k + 1)) = g[k + 1]
  <2>1. k \in 0 .. Len(given) /\ k + 1 \in 0 .. Len(given)
    BY <1>1, <1>5, <1>14, Zenon
  <2>2. FlattenSeq(SubSeq(given, 1, k)) = g[k]
    BY <1>14, <1>15, <2>1, FlattenUpTo
  <2>3. FlattenSeq(SubSeq(given, 1, k + 1)) = g[k + 1]
    BY <1>14, <1>15, <2>1, FlattenUpTo
  <2> QED BY <1>13, <2>2, <2>3, Zenon DEF Behind
<1>17. g[k + 1] = logged \o given[k + 1]
  <2>1. (k + 1) - 1 = k
    BY <1>2
  <2>2. g[k + 1] = g[(k + 1) - 1] \o given[k + 1]
    BY <1>5, <1>14, <1>15, Zenon DEF Flattens
  <2> QED BY <1>16, <2>1, <2>2, Zenon
<1>18. logged' = g[k + 1]
  <2>1. logged \in Seq(R) /\ trimmed \in R
    BY <1>2, <1>11, <1>13, Zenon
  <2>2. CASE m = 0
    <3>1. trimmed = <<>> /\ ~(start < end)
      BY <1>11, <2>2
    <3>2. g[k + 1] = logged \o <<>>
      BY <1>14, <1>17, <3>1, Zenon
    <3>3. logged \o <<>> = logged
      BY <2>1, ConcatEmptySeq, Zenon
    <3> QED BY <1>12, <3>1, <3>2, <3>3, Zenon
  <2>3. CASE m # 0
    <3>1. trimmed # <<>> /\ start < end
      BY <1>11, <2>3
    <3>2. g[k + 1] = logged \o <<trimmed>>
      BY <1>14, <1>17, <3>1, Zenon
    <3>3. Append(logged, trimmed) = logged \o <<trimmed>>
      BY <2>1
    <3> QED BY <1>12, <3>1, <3>2, <3>3, Zenon
  <2> QED BY <2>2, <2>3
<1>19. start' = Len(FlattenSeq(SubSeq(Ended(written, n), 1, k + 1)))
  BY <1>6, <1>7, <1>12, Zenon
<1>20. logged' = FlattenSeq(SubSeq(LinesGiven(written, n), 1, k + 1))
  BY <1>13, <1>16, <1>18, Zenon
<1> QED BY <1>5, <1>19, <1>20, Zenon DEF Behind

(* The message as it was written, and how far the logger is with it.       *)
WrittenAs(written) ==
    /\ written \in WaysOf(job.lines) /\ IsWritten(written, job.lines)
    /\ out = FlattenSeq(Ended(written, Len(job.lines)))

(* The logger is behind k of the lines, in one and the same way they were  *)
(* written in, and has given what is to be given of these.                 *)
LinesInv ==
    /\ phase \in {"route", "handler", "stream"} => start = 0 /\ logged = <<>>
    /\ phase = "log" => job.kind = "log"
    /\ job.kind = "mute" => logged = <<>>
    /\ job.kind = "log" /\ phase \in {"log", "done"} =>
          \E written, k : /\ WrittenAs(written) /\ Behind(written, Len(job.lines), k)
                          /\ phase = "done" => k = Len(job.lines)

LEMMA NextLinesInv ==
    ASSUME SInv, SaidInv, LinesInv, [Next]_vars
    PROVE  LinesInv'
<1>1. PICK n : n = Len(job.lines)
  OBVIOUS
<1>2. job \in Jobs /\ job.kind \in {"page", "log", "mute"} /\ (job.kind # "page" => IsMessage(job))
  <2>1. job \in Jobs
    BY DEF SInv, StreamsInv
  <2> QED BY <2>1, JobsAssumption, MessagesAssumption
<1>3. ASSUME job.kind # "page", NEW written, WrittenAs(written)
      PROVE  n \in Nat /\ \A i \in 1 .. n : IsWay(written[i])
  <2>1. /\ n \in Nat /\ DOMAIN job.lines = 1 .. n /\ \A i \in 1 .. n : IsLine(job.lines[i])
    BY <1>1, <1>2, <1>3, MessageIs, Zenon
  <2>2. \A i \in 1 .. n : written[i] \in AsWritten(job.lines[i])
    BY <1>3, <2>1, Zenon DEF WrittenAs, IsWritten
  <2> QED BY <2>1, <2>2, WrittenIs, Zenon
<1>4. CASE LogLine
  <2>1. /\ phase = "log" /\ phase' = "log" /\ UNCHANGED <<out, job>> /\ job.kind = "log"
    BY <1>4, Zenon DEF LogLine, formatterVars, LinesInv
  <2>2. PICK written, k : WrittenAs(written) /\ Behind(written, n, k)
    BY <1>1, <2>1, Zenon DEF LinesInv
  <2>3. n \in Nat /\ \A i \in 1 .. n : IsWay(written[i])
    BY <1>3, <2>1, <2>2, Zenon
  <2>4. out = FlattenSeq(Ended(written, n))
    BY <1>1, <2>2, Zenon DEF WrittenAs
  <2>5. Behind(written, n, k + 1)'
    BY <1>4, <2>2, <2>3, <2>4, LogLineLogs, Zenon
  <2>6. WrittenAs(written)' /\ n = Len(job'.lines)
    BY <1>1, <2>1, <2>2, Zenon DEF WrittenAs
  <2> QED BY <2>1, <2>5, <2>6, Zenon DEF LinesInv
<1>5. CASE LogReturns
  <2>1. /\ phase = "log" /\ start >= Len(out) /\ phase' = "done" /\ job.kind = "log"
        /\ UNCHANGED <<out, job, start, logged>>
    BY <1>5, Zenon DEF LogReturns, formatterVars, loggerVars, LinesInv
  <2>2. PICK written, k : WrittenAs(written) /\ Behind(written, n, k)
    BY <1>1, <2>1, Zenon DEF LinesInv
  <2>3. n \in Nat /\ \A i \in 1 .. n : IsWay(written[i])
    BY <1>3, <2>1, <2>2, Zenon
  <2>4. out = FlattenSeq(Ended(written, n))
    BY <1>1, <2>2, Zenon DEF WrittenAs
  <2>5. k < n => start < Len(out)
    BY <2>2, <2>3, <2>4, NextLineAt, Zenon
  <2>6. k \in 0 .. n /\ start \in Nat /\ Len(out) \in Nat
    BY <2>2 DEF Behind, SInv, FInv, FormatterTypeOK, StreamsInv
  <2>7. k = n
    BY <2>1, <2>3, <2>5, <2>6
  <2>8. WrittenAs(written)' /\ Behind(written, n, k)' /\ n = Len(job'.lines)
    BY <1>1, <2>1, <2>2, Zenon DEF WrittenAs, Behind
  <2> QED BY <2>1, <2>7, <2>8, Zenon DEF LinesInv
<1>6. CASE StreamEnds("log") /\ job.kind = "log"
  <2>1. /\ phase = "stream" /\ call = "none" /\ work = <<>> /\ phase' = "log"
        /\ UNCHANGED <<out, job, start, logged>> /\ start = 0 /\ logged = <<>>
    BY <1>6, Zenon DEF StreamEnds, formatterVars, loggerVars, LinesInv
  <2>2. PICK written \in WaysOf(job.lines) :
           IsWritten(written, job.lines) /\ out = FlattenSeq(Ended(written, n))
    BY <1>1, <1>2, <1>6, <2>1, MessageSaid
  <2>3. WrittenAs(written)
    BY <1>1, <2>2, Zenon DEF WrittenAs
  <2>4. Behind(written, n, 0)
    <3>1. n \in Nat /\ 0 \in 0 .. n
      BY <1>3, <1>6, <2>3
    <3>2. SubSeq(Ended(written, n), 1, 0) = <<>> /\ SubSeq(LinesGiven(written, n), 1, 0) = <<>>
      OBVIOUS
    <3>3. FlattenSeq(<<>>) = <<>> /\ Len(<<>>) = 0
      <4>1. <<>> \in Seq(Bytes)
        BY Empty, Zenon
      <4> QED BY <4>1, FlattenOne
    <3> QED BY <2>1, <3>1, <3>2, <3>3, Zenon DEF Behind
  <2>5. WrittenAs(written)' /\ Behind(written, n, 0)' /\ n = Len(job'.lines)
    BY <1>1, <2>1, <2>3, <2>4, Zenon DEF WrittenAs, Behind
  <2>6. job'.kind = "log" /\ phase' = "log"
    BY <1>6, <2>1
  <2> QED BY <2>5, <2>6, Zenon DEF LinesInv
<1>7. CASE PageEnds \/ (job.kind = "mute" /\ StreamEnds("done"))
  <2>1. /\ phase' = "done" /\ job' = job /\ logged' = logged /\ logged = <<>> /\ job.kind # "log"
    BY <1>7 DEF PageEnds, StreamEnds, loggerVars, LinesInv
  <2> QED BY <2>1 DEF LinesInv
<1>8. CASE ReadRoute \/ HelloWorld \/ \E op : Use(op)
  <2>1. /\ UNCHANGED <<job, start, logged>>
        /\ {phase, phase'} \subseteq {"route", "handler", "stream"}
    BY <1>8 DEF ReadRoute, HelloWorld, Use, loggerVars
  <2> QED BY <2>1 DEF LinesInv
<1>9. CASE Format
  <2>1. call # "none"
    BY <1>9 DEF SInv, FInv, BufferInv, Format, FormatterStep, FormatNext, EndCall
  <2>2. UNCHANGED <<start, logged, job, phase>>
    BY <1>9 DEF Format, loggerVars
  <2>3. phase \notin {"log", "done"}
    BY <2>1, Zenon DEF SaidInv
  <2> QED BY <2>2, <2>3 DEF LinesInv
<1>10. CASE UNCHANGED <<out, phase, job, start, logged>>
  <2>1. ASSUME NEW written PROVE WrittenAs(written)' <=> WrittenAs(written)
    BY <1>10, Zenon DEF WrittenAs
  <2>2. ASSUME NEW written, NEW k PROVE Behind(written, n, k)' <=> Behind(written, n, k)
    BY <1>10, Zenon DEF Behind
  <2>3. Len(job'.lines) = n
    BY <1>1, <1>10
  <2> QED BY <1>1, <1>10, <2>1, <2>2, <2>3, Zenon DEF LinesInv
<1> QED BY <1>4, <1>5, <1>6, <1>7, <1>8, <1>9, <1>10
        DEF Next, WriteMarkup, WriteContent, WriteBytes, WriteGlyphs, WriteEncoded, WritePrintf,
            WriteNumber, WriteNewline, LogStreamEnds, Done, vars, formatterVars, loggerVars

(* The log has the lines of the message as they were written: for any      *)
(* message of any texts, with any numbers behind them, through any of the  *)
(* overloads and whatever the size of the buffer.                          *)
THEOREM LogHasTheLines == Spec => []LogKeepsLines
<1>1. Init => LinesInv
  BY DEF Init, LinesInv
<1>2. SInv /\ SaidInv /\ LinesInv /\ [Next]_vars => LinesInv'
  BY NextLinesInv
<1>3. ASSUME SInv, LinesInv PROVE LogKeepsLines
  <2> SUFFICES ASSUME phase = "done", job.kind # "page" PROVE logged \in job.expected
    BY DEF LogKeepsLines
  <2>1. PICK lines, n : lines = job.lines /\ n = Len(lines)
    OBVIOUS
  <2>2. job.kind \in {"log", "mute"} /\ IsMessage(job)
    <3>1. job \in Jobs
      BY <1>3 DEF SInv, StreamsInv
    <3> QED BY <3>1, JobsAssumption, MessagesAssumption
  <2>3. job.expected = IF job.kind = "mute" THEN {<<>>}
                       ELSE {Logged(written) : written \in {w \in WaysOf(lines) : IsWritten(w, lines)}}
    <3>1. LogJob(job.kind, lines).expected
          = IF job.kind = "mute" THEN {<<>>}
            ELSE {Logged(written) : written \in {w \in WaysOf(lines) : IsWritten(w, lines)}}
      BY DEF LogJob, WaysOf
    <3> QED BY <2>1, <2>2, <3>1, Zenon DEF IsMessage
  <2>4. CASE job.kind = "mute"
    BY <1>3, <2>3, <2>4, Zenon DEF LinesInv
  <2>5. CASE job.kind = "log"
    <3>1. PICK written : WrittenAs(written) /\ Behind(written, n, n)
      BY <1>3, <2>1, <2>5, Zenon DEF LinesInv
    <3>2. /\ n \in Nat /\ DOMAIN lines = 1 .. n /\ \A i \in 1 .. n : IsLine(lines[i])
      BY <1>3, <2>1, <2>2, MessageIs, Zenon
    <3>3. \A i \in 1 .. n : IsWay(written[i])
      BY <2>1, <3>1, <3>2, WrittenIs, Zenon DEF WrittenAs, IsWritten
    <3>4. PICK given : given = LinesGiven(written, n)
      OBVIOUS
    <3>5. given \in Seq(Seq(Seq(Bytes))) /\ Len(given) = n
      BY <3>2, <3>3, <3>4, LinesGivenType, Zenon
    <3>6. SubSeq(given, 1, n) = given
      BY <3>5, SubSeqFull, Zenon
    <3>7. logged = FlattenSeq(given)
      BY <3>1, <3>4, <3>6, Zenon DEF Behind
    <3>8. DOMAIN written = 1 .. n /\ written \in WaysOf(lines) /\ IsWritten(written, lines)
      BY <2>1, <3>1, <3>2, Zenon DEF WrittenAs, WaysOf
    <3>9. Logged(written) = FlattenSeq(given)
      BY <3>4, <3>8, Zenon DEF Logged, LinesGiven, LineGiven
    <3>10. Logged(written) \in job.expected
      BY <2>3, <2>5, <3>8, Zenon
    <3> QED BY <3>7, <3>9, <3>10, Zenon
  <2> QED BY <2>2, <2>4, <2>5
<1> QED BY <1>1, <1>2, <1>3, StreamsInvariant, StreamHasWhatItWasTold, PTL DEF Spec
=============================================================================

------------------------------ MODULE PageProofs -------------------------------
(***************************************************************************)
(* The page a browser reads, against the form and the environment that the *)
(* request had.  The markup of a page is where the browser looks for it,   *)
(* since content has none; each cell reads as the units of the text it was *)
(* made of; and the parsers of the request find the fields and variables   *)
(* that the client and the server have put together.                       *)
(***************************************************************************)
EXTENDS ReaderProofs

-----------------------------------------------------------------------------
(* Entities.                                                               *)

LEMMA Powers ==
    /\ Power16[1] = 1 /\ Power16[2] = 16 /\ Power16[3] = 256 /\ Power16[4] = 4096
    /\ Power16[5] = 65536 /\ Power16[6] = 1048576 /\ Power16[7] = 16777216
    /\ Power16[8] = 268435456
BY SMT DEF Power16

Wide == {n \in Nat : n >= 128 /\ n < 1114112}

LEMMA HexLengthIs ==
    ASSUME NEW n \in Wide
    PROVE  HexLength(n) \in 1 .. 6 /\ n < Power16[HexLength(n) + 1]
<1> USE DEF Wide
<1> DEFINE P(k) == (k = 1 \/ n >= Power16[k]) /\ (k = 8 \/ n < Power16[k + 1])
<1>1. \E k \in 1 .. 8 : P(k)
  <2>1. CASE n < 256
    <3>1. P(2)
      BY <2>1, Powers, SMT
    <3> QED BY <3>1
  <2>2. CASE n >= 256 /\ n < 4096
    <3>1. P(3)
      BY <2>2, Powers, SMT
    <3> QED BY <3>1
  <2>3. CASE n >= 4096 /\ n < 65536
    <3>1. P(4)
      BY <2>3, Powers, SMT
    <3> QED BY <3>1
  <2>4. CASE n >= 65536 /\ n < 1048576
    <3>1. P(5)
      BY <2>4, Powers, SMT
    <3> QED BY <3>1
  <2>5. CASE n >= 1048576
    <3>1. P(6)
      BY <2>5, Powers, SMT
    <3> QED BY <3>1
  <2> HIDE DEF P
  <2> QED BY <2>1, <2>2, <2>3, <2>4, <2>5
<1>2. PICK m : m = HexLength(n) /\ m \in 1 .. 8 /\ P(m)
  <2>1. HexLength(n) \in 1 .. 8 /\ P(HexLength(n))
    BY <1>1 DEF HexLength
  <2> QED BY <2>1
<1>3. m # 7 /\ m # 8
  BY <1>2, Powers, SMT
<1> QED BY <1>2, <1>3

(* A number and its hexadecimal digits.                                    *)
LEMMA Nibbles ==
    ASSUME NEW n \in Nat, NEW k \in 1 .. 6
    PROVE  /\ n \div Power16[k] \in Nat /\ (n \div Power16[k]) % 16 \in 0 .. 15
           /\ n \div Power16[k] = 16 * (n \div Power16[k + 1]) + ((n \div Power16[k]) % 16)
           /\ n < Power16[k + 1] => n \div Power16[k + 1] = 0
           /\ n \div Power16[1] = n
<1>1. n \div 1 = n
  BY SMT
<1>2. CASE k = 1
  BY <1>1, <1>2, Powers, SMT
<1>3. CASE k = 2
  BY <1>1, <1>3, Powers, SMT
<1>4. CASE k = 3
  BY <1>1, <1>4, Powers, SMT
<1>5. CASE k = 4
  BY <1>1, <1>5, Powers, SMT
<1>6. CASE k = 5
  BY <1>1, <1>6, Powers, SMT
<1>7. CASE k = 6
  BY <1>1, <1>7, Powers, SMT
<1> QED BY <1>2, <1>3, <1>4, <1>5, <1>6, <1>7

LEMMA HexDigitIs ==
    /\ \A a, b \in 0 .. 15 : HexDigit(a) = HexDigit(b) => a = b
    /\ \A a \in 0 .. 15 : HexDigit(a) \in Bytes /\ HexDigit(a) # 59 /\ HexDigit(a) # LT
BY SMT DEF HexDigit, Bytes, LT

(* h has the m hexadecimal digits of a number.                             *)
IsHex(h, m, n) ==
    /\ m \in 1 .. 6 /\ n < Power16[m + 1]
    /\ h \in Seq(Bytes) /\ Len(h) = m
    /\ \A k \in 1 .. m : /\ h[(m + 1) - k] = HexDigit((n \div Power16[k]) % 16)
                         /\ h[k] # 59 /\ h[k] # LT

LEMMA HexIs ==
    ASSUME NEW n \in Wide
    PROVE  IsHex(Hex(n), HexLength(n), n)
<1>0. PICK m : m = HexLength(n)
  OBVIOUS
<1>1. m \in 1 .. 6 /\ n < Power16[m + 1] /\ n \in Nat
  BY <1>0, HexLengthIs, SMT DEF Wide
<1> HIDE DEF Wide
<1>2. PICK h : h = Hex(n) /\ h = [i \in 1 .. m |-> HexDigit((n \div Power16[m + 1 - i]) % 16)]
  BY <1>0, Zenon DEF Hex
<1>3. ASSUME NEW i \in 1 .. m
      PROVE  /\ h[i] = HexDigit((n \div Power16[(m + 1) - i]) % 16)
             /\ h[i] \in Bytes /\ h[i] # 59 /\ h[i] # LT
  <2>1. PICK k : k = (m + 1) - i /\ k \in 1 .. 6
    <3>1. \A j \in 1 .. m : (m + 1) - j \in 1 .. 6
      BY <1>1, SMT
    <3> QED BY <3>1
  <2>2. (n \div Power16[k]) % 16 \in 0 .. 15
    BY <1>1, <2>1, Nibbles
  <2>3. h[i] = HexDigit((n \div Power16[k]) % 16)
    <3> DEFINE digit(j) == HexDigit((n \div Power16[j]) % 16)
    <3>1. h[i] = digit(m + 1 - i)
      BY <1>2, Zenon
    <3>2. h[i] = digit(k)
      <4> HIDE DEF digit
      <4>1. m + 1 - i = k
        BY <1>1, <2>1
      <4> QED BY <3>1, <4>1, Zenon
    <3> QED BY <3>2
  <2> QED BY <2>1, <2>2, <2>3, HexDigitIs, Zenon
<1>4. h \in [1 .. m -> Bytes]
  BY <1>2, <1>3
<1>5. h \in Seq(Bytes) /\ Len(h) = m
  BY <1>1, <1>4, IsSequence
<1>6. ASSUME NEW k \in 1 .. m
      PROVE  h[(m + 1) - k] = HexDigit((n \div Power16[k]) % 16)
  <2>1. PICK i : i = (m + 1) - k /\ i \in 1 .. m /\ (m + 1) - i = k
    BY <1>1
  <2> QED BY <1>3, <2>1, Zenon
<1> QED BY <1>0, <1>1, <1>2, <1>3, <1>5, <1>6, Zenon DEF IsHex

LEMMA HexInjective ==
    ASSUME NEW a \in Wide, NEW b \in Wide, Hex(a) = Hex(b)
    PROVE  a = b
<1>1. PICK m, w, h : m = HexLength(a) /\ w = HexLength(b) /\ h = Hex(a)
  OBVIOUS
<1>2. IsHex(h, m, a)
  BY <1>1, HexIs, Zenon
<1>3. IsHex(h, w, b)
  BY <1>1, HexIs, Zenon
<1> USE DEF IsHex
<1>5. w = m
  BY <1>2, <1>3
<1>6. a \in Nat /\ b \in Nat
  BY DEF Wide
<1>7. ASSUME NEW k \in 1 .. m, a \div Power16[k + 1] = b \div Power16[k + 1]
      PROVE  a \div Power16[k] = b \div Power16[k]
  <2>1. k \in 1 .. 6
    BY <1>2
  <2>2. PICK u, v : u = (a \div Power16[k]) % 16 /\ v = (b \div Power16[k]) % 16
    OBVIOUS
  <2>3. u \in 0 .. 15 /\ v \in 0 .. 15 /\ HexDigit(u) = HexDigit(v)
    <3>1. u \in 0 .. 15 /\ v \in 0 .. 15
      BY <1>6, <2>1, <2>2, Nibbles
    <3> QED BY <1>2, <1>3, <1>5, <2>2, <3>1, Zenon
  <2>4. u = v
    BY <2>3, HexDigitIs, Zenon
  <2>5. /\ a \div Power16[k] = 16 * (a \div Power16[k + 1]) + u
        /\ b \div Power16[k] = 16 * (b \div Power16[k + 1]) + v
    BY <1>6, <2>1, <2>2, Nibbles, Zenon
  <2> QED BY <1>7, <2>4, <2>5, Zenon
<1> DEFINE T == {k \in Nat : k <= m => a \div Power16[(m + 1) - k] = b \div Power16[(m + 1) - k]}
<1>8. 0 \in T
  <2>1. a \div Power16[m + 1] = 0 /\ b \div Power16[m + 1] = 0
    BY <1>2, <1>3, <1>5, <1>6, Nibbles, Zenon
  <2>2. (m + 1) - 0 = m + 1
    BY <1>2
  <2> QED BY <2>1, <2>2
<1>9. ASSUME NEW k \in Nat, k \in T PROVE k + 1 \in T
  <2> SUFFICES ASSUME k + 1 <= m
               PROVE  a \div Power16[(m + 1) - (k + 1)] = b \div Power16[(m + 1) - (k + 1)]
    OBVIOUS
  <2>1. PICK j : j = (m + 1) - (k + 1) /\ j \in 1 .. m /\ (m + 1) - k = j + 1 /\ k <= m
    BY <1>2
  <2>2. a \div Power16[j + 1] = b \div Power16[j + 1]
    <3> DEFINE quotient(c, i) == c \div Power16[i]
    <3>1. quotient(a, (m + 1) - k) = quotient(b, (m + 1) - k)
      BY <1>9, <2>1
    <3>2. quotient(a, j + 1) = quotient(b, j + 1)
      <4> HIDE DEF quotient
      <4> QED BY <2>1, <3>1
    <3> QED BY <3>2
  <2> QED BY <1>7, <2>1, <2>2, Zenon
<1>10. m \in T
  <2> HIDE DEF T
  <2> QED BY <1>2, <1>8, <1>9, Induction
<1>11. (m + 1) - m = 1 /\ m <= m
  BY <1>2
<1>12. a \div Power16[1] = b \div Power16[1]
  BY <1>10, <1>11
<1>13. a \div Power16[1] = a /\ b \div Power16[1] = b
  <2>1. 1 \in 1 .. 6
    OBVIOUS
  <2> QED BY <1>6, <2>1, Nibbles, Zenon
<1> QED BY <1>12, <1>13

-----------------------------------------------------------------------------
(* Recursions that put one piece in front of another.                      *)

Unfolds(f, D, base, next, head) ==
    f = [d \in D |-> IF d \in base THEN <<>> ELSE head[d] \o f[next[d]]]

LEMMA UnfoldType ==
    ASSUME NEW S, NEW D, NEW base, NEW next, NEW rank, Descends(D, base, next, rank),
           NEW head, \A d \in D : d \notin base => head[d] \in Seq(S),
           NEW f, Unfolds(f, D, base, next, head)
    PROVE  f \in [D -> Seq(S)]
<1> DEFINE P == {d \in D : f[d] \in Seq(S)}
<1>1. \A d \in D : f[d] = IF d \in base THEN <<>> ELSE head[d] \o f[next[d]]
  BY DEF Unfolds
<1>2. ASSUME NEW d \in D, d \in base \/ next[d] \in P PROVE d \in P
  <2>1. CASE d \in base
    BY <1>1, <2>1, Empty
  <2>2. CASE d \notin base
    <3>1. f[next[d]] \in Seq(S) /\ head[d] \in Seq(S)
      BY <1>2, <2>2
    <3>2. head[d] \o f[next[d]] \in Seq(S)
      BY <3>1, Concat
    <3> QED BY <1>1, <2>2, <3>2
  <2> QED BY <2>1, <2>2
<1>3. D \subseteq P
  <2> HIDE DEF P
  <2> QED BY <1>2, Descent
<1>4. \A d \in D : f[d] \in Seq(S)
  BY <1>3
<1> QED BY <1>4, Zenon DEF Unfolds

LEMMA UnfoldIs ==
    ASSUME NEW S, NEW D, NEW base, base \subseteq D, NEW next, NEW rank,
           Descends(D, base, next, rank), NEW N \in Nat, \A d \in D : rank[d] < N,
           NEW head, \A d \in D : d \notin base => head[d] \in Seq(S)
    PROVE  \E f : Unfolds(f, D, base, next, head)
<1> DEFINE V    == Seq(S)
           step == [x \in D \X V |-> IF x[1] \in base THEN <<>> ELSE head[x[1]] \o x[2]]
<1>1. step \in [D \X V -> V]
  <2>1. ASSUME NEW d \in D, NEW v \in V PROVE (IF d \in base THEN <<>> ELSE head[d] \o v) \in V
    <3>1. CASE d \in base
      BY <3>1, Empty
    <3>2. CASE d \notin base
      BY <3>2, Concat
    <3> QED BY <3>1, <3>2
  <2> QED BY <2>1
<1>2. \A d \in base : \A u, v \in V : step[<<d, u>>] = step[<<d, v>>]
  <2>1. ASSUME NEW d \in base, NEW u \in V, NEW v \in V PROVE step[<<d, u>>] = step[<<d, v>>]
    OBVIOUS
  <2> QED BY <2>1
<1>3. V # {}
  BY Empty, Zenon
<1>4. Recurs(D, base, next, rank, N, V, step)
  <2> HIDE DEF V, step
  <2> QED BY <1>1, <1>2, <1>3 DEF Recurs
<1>5. PICK f \in [D -> V] : \A d \in D : f[d] = step[<<d, f[next[d]]>>]
  <2> HIDE DEF V, step
  <2> QED BY <1>4, Recursion
<1>6. ASSUME NEW d \in D PROVE f[d] = IF d \in base THEN <<>> ELSE head[d] \o f[next[d]]
  <2>1. next[d] \in D
    BY DEF Descends
  <2>2. PICK v \in V : v = f[next[d]]
    BY <1>5, <2>1
  <2>3. step[<<d, v>>] = IF d \in base THEN <<>> ELSE head[d] \o v
    OBVIOUS
  <2> HIDE DEF V, step
  <2> QED BY <1>5, <2>2, <2>3
<1>7. Unfolds(f, D, base, next, head)
  BY <1>5, <1>6 DEF Unfolds
<1> QED BY <1>7

(* Its values along the way: from one place to the next, the pieces that   *)
(* are in front make up one sequence.                                      *)
LEMMA WalkIs ==
    ASSUME NEW S, NEW ww \in Seq(Seq(S)), NEW n \in Nat, n = Len(ww), NEW g,
           g[n] = <<>>, \A i \in 1 .. n : g[i - 1] = ww[i] \o g[i]
    PROVE  g[0] = FlattenSeq(ww)
<1> DEFINE T == {k \in Nat : k <= n => g[n - k] = FlattenSeq(SubSeq(ww, (n - k) + 1, n))}
<1>1. 0 \in T
  <2>1. SubSeq(ww, n + 1, n) = <<>>
    OBVIOUS
  <2>2. FlattenSeq(<<>>) = <<>>
    BY Empty, FlattenOne
  <2>3. n - 0 = n
    OBVIOUS
  <2> QED BY <2>1, <2>2, <2>3
<1>2. ASSUME NEW k \in Nat, k \in T PROVE k + 1 \in T
  <2> SUFFICES ASSUME k + 1 <= n
               PROVE  g[n - (k + 1)] = FlattenSeq(SubSeq(ww, (n - (k + 1)) + 1, n))
    OBVIOUS
  <2>1. PICK i : i = n - k
    OBVIOUS
  <2>2. i \in 1 .. n /\ n - (k + 1) = i - 1 /\ (i - 1) + 1 = i /\ k <= n
    BY <2>1
  <2>3. g[i] = FlattenSeq(SubSeq(ww, i + 1, n))
    BY <1>2, <2>1, <2>2
  <2>4. PICK rr, R : rr = SubSeq(ww, i + 1, n) /\ R = Seq(S)
    OBVIOUS
  <2>5. ww[i] \in R /\ rr \in Seq(R) /\ SubSeq(ww, i, n) = <<ww[i]>> \o rr
    <3>1. ww \in Seq(R) /\ i \in Nat /\ 1 <= i /\ i <= n
      BY <2>2, <2>4
    <3>2. ww[i] \in R
      BY <2>2, <3>1, Element, Zenon
    <3>3. PICK w : w = ww[i]
      OBVIOUS
    <3>4. rr \in Seq(R) /\ Len(rr) = n - i /\ \A q \in 1 .. n - i : rr[q] = ww[i + q]
      BY <2>4, <3>1
    <3>5. PICK s, t : s = SubSeq(ww, i, n) /\ t = <<w>> \o rr
      OBVIOUS
    <3>6. s \in Seq(R) /\ Len(s) = (n - i) + 1 /\ \A q \in 1 .. (n - i) + 1 : s[q] = ww[(i + q) - 1]
      BY <3>1, <3>5
    <3>7. <<w>> \in Seq(R)
      BY <3>2, <3>3
    <3>8. /\ t \in Seq(R) /\ Len(t) = (n - i) + 1 /\ t[1] = w
          /\ \A q \in 1 .. n - i : t[q + 1] = rr[q]
      BY <3>1, <3>4, <3>5, <3>7
    <3>9. ASSUME NEW q \in 1 .. (n - i) + 1 PROVE s[q] = t[q]
      <4>1. CASE q = 1
        <5>1. (i + q) - 1 = i
          BY <3>1, <4>1
        <5> QED BY <3>3, <3>6, <3>8, <4>1, <5>1, Zenon
      <4>2. CASE q # 1
        <5>1. PICK j : j = q - 1
          OBVIOUS
        <5>2. j \in 1 .. n - i /\ j + 1 = q /\ (i + q) - 1 = i + j
          BY <3>1, <4>2, <5>1
        <5> QED BY <3>4, <3>6, <3>8, <5>2, Zenon
      <4> QED BY <4>1, <4>2
    <3>10. s = t
      <4>1. Len(s) = Len(t) /\ \A q \in 1 .. Len(s) : s[q] = t[q]
        BY <3>6, <3>8, <3>9, Zenon
      <4> QED BY <3>6, <3>8, <4>1, SeqEqual, Zenon
    <3> QED BY <3>2, <3>3, <3>4, <3>5, <3>10, Zenon
  <2>6. <<ww[i]>> \in Seq(R)
    BY <2>5
  <2>7. FlattenSeq(<<ww[i]>> \o rr) = ww[i] \o FlattenSeq(rr)
    <3>1. FlattenSeq(<<ww[i]>> \o rr) = FlattenSeq(<<ww[i]>>) \o FlattenSeq(rr)
      BY <2>4, <2>5, <2>6, FlattenConcat, Zenon
    <3>2. FlattenSeq(<<ww[i]>>) = ww[i]
      BY <2>4, <2>5, FlattenOne, Zenon
    <3> QED BY <3>1, <3>2
  <2>8. g[i - 1] = ww[i] \o g[i]
    BY <2>2
  <2> QED BY <2>2, <2>3, <2>4, <2>5, <2>7, <2>8, Zenon
<1>3. n \in T
  <2> HIDE DEF T
  <2> QED BY <1>1, <1>2, Induction
<1>4. n - n = 0 /\ 0 + 1 = 1 /\ SubSeq(ww, 1, n) = ww /\ n <= n
  OBVIOUS
<1>5. g[n - n] = FlattenSeq(SubSeq(ww, (n - n) + 1, n))
  BY <1>3, <1>4, Zenon
<1> QED BY <1>4, <1>5, Zenon

-----------------------------------------------------------------------------
JoinsTo(s, t, w) ==
    /\ w \in Seq(Bytes) /\ Len(w) = Len(s) + Len(t)
    /\ \A k \in 1 .. Len(s) : w[k] = s[k]
    /\ \A k \in 1 .. Len(t) : w[Len(s) + k] = t[k]

LEMMA BytesJoin ==
    ASSUME NEW s \in Seq(Bytes), NEW t \in Seq(Bytes)
    PROVE  JoinsTo(s, t, s \o t)
<1>1. s \o t \in Seq(Bytes)
  BY Concat, Zenon
<1> QED BY <1>1, SMT DEF JoinsTo

(* The names of entities: from '&' to the first semicolon.                 *)
IsName(x) ==
    /\ x \in Seq(Bytes) /\ Len(x) >= 4 /\ x[1] = AMP
    /\ x[Len(x)] = 59 /\ \A k \in 1 .. Len(x) - 1 : x[k] # 59
    /\ \A k \in 1 .. Len(x) : x[k] # LT

LEMMA NumberIsName ==
    ASSUME NEW n \in Wide
    PROVE  /\ IsName(Entity(n)) /\ Entity(n)[2] = 35
           /\ Len(Entity(n)) = Len(Hex(n)) + 4
           /\ \A k \in 1 .. Len(Hex(n)) : Entity(n)[3 + k] = Hex(n)[k]
<1>1. PICK h, m, a : h = Hex(n) /\ m = HexLength(n) /\ a = <<AMP, 35, 120>>
  OBVIOUS
<1>2. m \in 1 .. 6 /\ h \in Seq(Bytes) /\ Len(h) = m /\ \A k \in 1 .. m : h[k] # 59 /\ h[k] # LT
  BY <1>1, HexIs, Zenon DEF IsHex
<1>3. a \in Seq(Bytes) /\ Len(a) = 3 /\ a[1] = AMP /\ a[2] = 35 /\ a[3] = 120
  BY <1>1 DEF Bytes, AMP
<1>4. PICK x, z : x = a \o h /\ z = <<59>>
  OBVIOUS
<1>5. x \in Seq(Bytes) /\ Len(x) = 3 + m
      /\ (\A k \in 1 .. 3 : x[k] = a[k]) /\ (\A k \in 1 .. m : x[3 + k] = h[k])
  <2>1. JoinsTo(a, h, x)
    BY <1>2, <1>3, <1>4, BytesJoin, Zenon
  <2> QED BY <1>2, <1>3, <2>1, Zenon DEF JoinsTo
<1>6. z \in Seq(Bytes) /\ Len(z) = 1 /\ z[1] = 59
  BY <1>4 DEF Bytes
<1>7. PICK e : e = x \o z
  OBVIOUS
<1>8. e \in Seq(Bytes) /\ Len(e) = m + 4
      /\ (\A k \in 1 .. m + 3 : e[k] = x[k]) /\ e[m + 4] = 59
  <2>1. Len(e) = Len(x) + Len(z) /\ (\A k \in 1 .. Len(x) : e[k] = x[k])
        /\ (\A k \in 1 .. Len(z) : e[Len(x) + k] = z[k]) /\ e \in Seq(Bytes)
    <3>1. JoinsTo(x, z, e)
      BY <1>5, <1>6, <1>7, BytesJoin, Zenon
    <3> QED BY <3>1, Zenon DEF JoinsTo
  <2>2. 1 \in 1 .. Len(z) /\ Len(x) + 1 = m + 4 /\ Len(x) = m + 3
    BY <1>2, <1>5, <1>6
  <2> QED BY <1>2, <1>5, <1>6, <2>1, <2>2
<1>9. e = Entity(n)
  BY <1>1, <1>4, <1>7, Zenon DEF Entity
<1>10. /\ \A k \in 1 .. m : e[3 + k] = h[k]
       /\ e[1] = AMP /\ e[2] = 35 /\ e[3] = 120
  <2>1. \A k \in 1 .. m : 3 + k \in 1 .. m + 3
    BY <1>2
  <2>2. 1 \in 1 .. m + 3 /\ 2 \in 1 .. m + 3 /\ 3 \in 1 .. m + 3
    BY <1>2
  <2>3. 1 \in 1 .. 3 /\ 2 \in 1 .. 3 /\ 3 \in 1 .. 3
    OBVIOUS
  <2>4. \A k \in 1 .. m : e[3 + k] = h[k]
    BY <1>5, <1>8, <2>1, Zenon
  <2>5. e[1] = a[1] /\ e[2] = a[2] /\ e[3] = a[3]
    <3>1. e[1] = x[1] /\ e[2] = x[2] /\ e[3] = x[3]
      BY <1>8, <2>2, Zenon
    <3>2. x[1] = a[1] /\ x[2] = a[2] /\ x[3] = a[3]
      BY <1>5, <2>3, Zenon
    <3> QED BY <3>1, <3>2, Zenon
  <2> QED BY <1>3, <2>4, <2>5, Zenon
<1>11. ASSUME NEW k \in 1 .. m + 3 PROVE e[k] # 59 /\ e[k] # LT
  <2>1. CASE k \in 1 .. 3
    <3>1. k = 1 \/ k = 2 \/ k = 3
      BY <2>1
    <3> QED BY <1>10, <3>1 DEF AMP, LT
  <2>2. CASE k \notin 1 .. 3
    <3>1. PICK j : j = k - 3 /\ j \in 1 .. m /\ k = 3 + j
      BY <1>2, <2>2
    <3>2. e[k] = h[j]
      BY <1>10, <3>1, Zenon
    <3>3. h[j] # 59 /\ h[j] # LT
      BY <1>2, <3>1, Zenon
    <3> QED BY <3>2, <3>3
  <2> QED BY <2>1, <2>2
<1>12. IsName(e)
  <2>1. Len(e) - 1 = m + 3 /\ Len(e) >= 4 /\ e[Len(e)] # LT
    BY <1>2, <1>8 DEF LT
  <2>2. \A k \in 1 .. Len(e) : k \in 1 .. m + 3 \/ k = Len(e)
    BY <1>2, <1>8
  <2> QED BY <1>8, <1>10, <1>11, <2>1, <2>2, Zenon DEF IsName
<1> QED BY <1>1, <1>2, <1>8, <1>9, <1>10, <1>12, Zenon

LEMMA CodePointsAreWide == \A n \in CodePoints : n \in Wide
BY CodePointsAssumption DEF Wide

LEMMA NumberInjective ==
    ASSUME NEW a \in Wide, NEW b \in Wide, Entity(a) = Entity(b)
    PROVE  a = b
<1>1. PICK x, g, h : x = Entity(a) /\ g = Hex(a) /\ h = Hex(b)
  OBVIOUS
<1>2. Len(x) = Len(g) + 4 /\ \A k \in 1 .. Len(g) : x[3 + k] = g[k]
  BY <1>1, NumberIsName, Zenon
<1>3. Len(x) = Len(h) + 4 /\ \A k \in 1 .. Len(h) : x[3 + k] = h[k]
  BY <1>1, NumberIsName, Zenon
<1>4. g \in Seq(Bytes) /\ h \in Seq(Bytes)
  BY <1>1, HexIs, Zenon DEF IsHex
<1>5. Len(g) \in Nat /\ Len(h) \in Nat
  BY <1>4
<1>6. Len(g) = Len(h)
  BY <1>2, <1>3, <1>5
<1>7. \A k \in 1 .. Len(g) : g[k] = h[k]
  BY <1>2, <1>3, <1>6, Zenon
<1>8. g = h
  BY <1>4, <1>6, <1>7, SeqEqual
<1> QED BY <1>1, <1>8, HexInjective, Zenon

LessThan  == <<AMP, 108, 116, 59>>
Ampersand == <<AMP, 97, 109, 112, 59>>

LEMMA EntityIsName ==
    /\ \A e \in Entities : IsName(e[1]) /\ e[2] \in Nat /\ e = <<e[1], e[2]>>
    /\ \A e, f \in Entities : e[1] = f[1] => e = f
    /\ \A e \in Entities : e[1][2] \in {108, 97, 35}
<1>1. LessThan \in Seq(Bytes) /\ Len(LessThan) = 4 /\ LessThan[1] = AMP /\ LessThan[2] = 108
      /\ LessThan[3] = 116 /\ LessThan[4] = 59
  BY DEF LessThan, Bytes, AMP
<1>2. Ampersand \in Seq(Bytes) /\ Len(Ampersand) = 5 /\ Ampersand[1] = AMP /\ Ampersand[2] = 97
      /\ Ampersand[3] = 109 /\ Ampersand[4] = 112 /\ Ampersand[5] = 59
  BY DEF Ampersand, Bytes, AMP
<1>3. IsName(LessThan) /\ IsName(Ampersand)
  <2>1. IsName(LessThan)
    BY <1>1 DEF IsName, AMP, LT
  <2>2. IsName(Ampersand)
    BY <1>2 DEF IsName, AMP, LT
  <2> QED BY <2>1, <2>2
<1>4. ASSUME NEW e \in Entities
      PROVE  \/ e = <<LessThan, LT>> \/ e = <<Ampersand, AMP>>
             \/ \E n \in CodePoints : e = <<Entity(n), n>>
  BY Zenon DEF Entities, LessThan, Ampersand
<1>5. ASSUME NEW e \in Entities
      PROVE  \/ e = <<LessThan, LT>> /\ e[1] = LessThan /\ e[2] = LT
             \/ e = <<Ampersand, AMP>> /\ e[1] = Ampersand /\ e[2] = AMP
             \/ \E n \in Wide : e = <<Entity(n), n>> /\ e[1] = Entity(n) /\ e[2] = n /\ e[1][2] = 35
  <2>1. ASSUME NEW n \in CodePoints, e = <<Entity(n), n>>
        PROVE  n \in Wide /\ e = <<Entity(n), n>> /\ e[1] = Entity(n) /\ e[2] = n /\ e[1][2] = 35
    <3>1. n \in Wide
      BY CodePointsAreWide
    <3>2. e[1] = Entity(n) /\ e[2] = n
      BY <2>1
    <3> QED BY <2>1, <3>1, <3>2, NumberIsName, Zenon
  <2>2. e = <<LessThan, LT>> => e[1] = LessThan /\ e[2] = LT
    OBVIOUS
  <2>3. e = <<Ampersand, AMP>> => e[1] = Ampersand /\ e[2] = AMP
    OBVIOUS
  <2> QED BY <1>4, <2>1, <2>2, <2>3, Zenon
<1>6. ASSUME NEW e \in Entities
      PROVE  IsName(e[1]) /\ e[2] \in Nat /\ e = <<e[1], e[2]>> /\ e[1][2] \in {108, 97, 35}
  <2>1. \A n \in Wide : n \in Nat
    BY DEF Wide
  <2>2. LT \in Nat /\ AMP \in Nat
    BY DEF LT, AMP
  <2>3. ASSUME NEW n \in Wide PROVE IsName(Entity(n))
    BY NumberIsName, Zenon
  <2>4. CASE e = <<LessThan, LT>> /\ e[1] = LessThan /\ e[2] = LT
    BY <1>1, <1>3, <2>2, <2>4
  <2>5. CASE e = <<Ampersand, AMP>> /\ e[1] = Ampersand /\ e[2] = AMP
    BY <1>2, <1>3, <2>2, <2>5
  <2>6. ASSUME NEW n \in Wide, e = <<Entity(n), n>> /\ e[1] = Entity(n) /\ e[2] = n /\ e[1][2] = 35
        PROVE  IsName(e[1]) /\ e[2] \in Nat /\ e = <<e[1], e[2]>> /\ e[1][2] \in {108, 97, 35}
    <3>1. IsName(e[1]) /\ e[2] \in Nat
      BY <2>1, <2>3, <2>6, Zenon
    <3>2. e[1][2] \in {108, 97, 35}
      BY <2>6, Zenon
    <3> QED BY <2>6, <3>1, <3>2, Zenon
  <2>7. CASE \E n \in Wide :
                e = <<Entity(n), n>> /\ e[1] = Entity(n) /\ e[2] = n /\ e[1][2] = 35
    BY <2>6, <2>7, Zenon
  <2>8. \/ e = <<LessThan, LT>> /\ e[1] = LessThan /\ e[2] = LT
        \/ e = <<Ampersand, AMP>> /\ e[1] = Ampersand /\ e[2] = AMP
        \/ \E n \in Wide : e = <<Entity(n), n>> /\ e[1] = Entity(n) /\ e[2] = n /\ e[1][2] = 35
    BY <1>5, Zenon
  <2> QED BY <2>4, <2>5, <2>7, <2>8, Zenon
<1>7. ASSUME NEW e \in Entities, NEW f \in Entities, e[1] = f[1] PROVE e = f
  <2>1. LessThan[2] # 35 /\ Ampersand[2] # 35 /\ LessThan[2] # Ampersand[2]
    BY <1>1, <1>2
  <2>2. ASSUME NEW a \in Wide, NEW b \in Wide, Entity(a) = Entity(b) PROVE a = b
    BY <2>2, NumberInjective, Zenon
  <2>3. LessThan # Ampersand
    BY <2>1
  <2>4. ASSUME NEW n \in Wide PROVE Entity(n) # LessThan /\ Entity(n) # Ampersand
    <3>1. Entity(n)[2] = 35
      BY NumberIsName, Zenon
    <3> QED BY <2>1, <3>1, Zenon
  <2>5. CASE e = <<LessThan, LT>> /\ e[1] = LessThan
    <3>1. f[1] = LessThan
      BY <1>7, <2>5
    <3> QED BY <1>5, <2>3, <2>4, <2>5, <3>1, Zenon
  <2>6. CASE e = <<Ampersand, AMP>> /\ e[1] = Ampersand
    <3>1. f[1] = Ampersand
      BY <1>7, <2>6
    <3> QED BY <1>5, <2>3, <2>4, <2>6, <3>1, Zenon
  <2>7. ASSUME NEW a \in Wide, e = <<Entity(a), a>> /\ e[1] = Entity(a)
        PROVE  e = f
    <3>1. f[1] = Entity(a)
      BY <1>7, <2>7
    <3>2. PICK b \in Wide : f = <<Entity(b), b>> /\ f[1] = Entity(b)
      BY <1>5, <2>4, <3>1, Zenon
    <3>3. b = a
      BY <2>2, <3>1, <3>2, Zenon
    <3> QED BY <2>7, <3>2, <3>3, Zenon
  <2> QED BY <1>5, <2>5, <2>6, <2>7, Zenon
<1> QED BY <1>6, <1>7, Zenon

-----------------------------------------------------------------------------
(* The browser reads one entity or one byte after the other.               *)
PlacedAt(text, place, piece) ==
    /\ place \in Nat /\ piece \in Seq(Bytes) /\ place + Len(piece) <= Len(text)
    /\ \A k \in 1 .. Len(piece) : text[place + k] = piece[k]

LEMMA PrefixAt ==
    ASSUME NEW text \in Seq(Bytes), NEW place \in 0 .. Len(text), NEW x \in Seq(Bytes)
    PROVE  IsPrefix(x, SubSeq(text, place + 1, Len(text))) <=> PlacedAt(text, place, x)
<1>0. Len(text) \in Nat
  OBVIOUS
<1>1. PICK n, t : n = Len(text) /\ t = SubSeq(text, place + 1, n) /\ n \in Nat
  BY <1>0, Zenon
<1>2. IsPart(text, place, n - place, Bytes, t)
  <2>1. place + (n - place) = n /\ n - place \in Nat /\ place \in Nat
    BY <1>1
  <2>2. IsPart(text, place, n - place, Bytes, SubSeq(text, place + 1, place + (n - place)))
    BY <1>1, <2>1, PartIs
  <2> QED BY <1>1, <2>1, <2>2
<1>3. t \in Seq(Bytes) /\ Len(t) = n - place /\ \A k \in 1 .. n - place : t[k] = text[place + k]
  BY <1>2 DEF IsPart
<1>4. ASSUME IsPrefix(x, t) PROVE PlacedAt(text, place, x)
  <2>1. Len(x) <= Len(t) /\ SubSeq(x, 1, Len(x)) = SubSeq(t, 1, Len(x))
    BY <1>4 DEF IsPrefix
  <2>2. \A k \in 1 .. Len(x) : x[k] = t[k]
    BY <1>3, <2>1
  <2>3. place + Len(x) <= n /\ place \in Nat
    BY <1>1, <1>3, <2>1
  <2>4. \A k \in 1 .. Len(x) : k \in 1 .. n - place
    BY <1>1, <1>3, <2>1
  <2>5. \A k \in 1 .. Len(x) : text[place + k] = x[k]
    BY <1>3, <2>2, <2>4, Zenon
  <2> QED BY <1>1, <2>3, <2>5 DEF PlacedAt
<1>5. ASSUME PlacedAt(text, place, x) PROVE IsPrefix(x, t)
  <2>1. place + Len(x) <= n /\ \A k \in 1 .. Len(x) : text[place + k] = x[k]
    BY <1>1, <1>5 DEF PlacedAt
  <2>2. Len(x) <= Len(t)
    BY <1>1, <1>3, <2>1
  <2>3. \A k \in 1 .. Len(x) : x[k] = t[k]
    <3>1. \A k \in 1 .. Len(x) : k \in 1 .. n - place
      BY <1>1, <1>3, <2>1
    <3> QED BY <1>3, <2>1, <3>1, Zenon
  <2>4. SubSeq(x, 1, Len(x)) = SubSeq(t, 1, Len(x))
    BY <1>3, <2>2, <2>3
  <2> QED BY <2>2, <2>4 DEF IsPrefix
<1> QED BY <1>1, <1>4, <1>5

LEMMA NoLonger ==
    ASSUME NEW text \in Seq(Bytes), NEW place, NEW x, IsName(x), PlacedAt(text, place, x),
           NEW y, IsName(y), PlacedAt(text, place, y)
    PROVE  ~(Len(x) < Len(y))
<1>1. Len(x) \in Nat /\ Len(y) \in Nat /\ Len(x) >= 4
  BY DEF IsName
<1>2. (\A k \in 1 .. Len(x) : text[place + k] = x[k])
      /\ (\A k \in 1 .. Len(y) : text[place + k] = y[k])
  BY DEF PlacedAt
<1>3. x[Len(x)] = 59 /\ (\A k \in 1 .. Len(y) - 1 : y[k] # 59)
  BY DEF IsName
<1>4. Len(x) < Len(y) => Len(x) \in 1 .. Len(y) - 1 /\ Len(x) \in 1 .. Len(y)
      /\ Len(x) \in 1 .. Len(x)
  BY <1>1
<1> SUFFICES ASSUME Len(x) < Len(y) PROVE FALSE
  OBVIOUS
<1>5. PICK l : l = Len(x)
  OBVIOUS
<1>6. text[place + l] = x[l] /\ text[place + l] = y[l] /\ y[l] # 59 /\ x[l] = 59
  BY <1>2, <1>3, <1>4, <1>5, Zenon
<1> QED BY <1>6

LEMMA OneName ==
    ASSUME NEW text \in Seq(Bytes), NEW place, NEW x, IsName(x), PlacedAt(text, place, x),
           NEW y, IsName(y), PlacedAt(text, place, y)
    PROVE  x = y
<1>1. Len(x) \in Nat /\ Len(y) \in Nat /\ x \in Seq(Bytes) /\ y \in Seq(Bytes)
  BY DEF IsName
<1>2. ~(Len(x) < Len(y)) /\ ~(Len(y) < Len(x))
  BY NoLonger, Zenon
<1>3. Len(x) = Len(y)
  BY <1>1, <1>2
<1>4. \A k \in 1 .. Len(x) : x[k] = y[k]
  BY <1>3, Zenon DEF PlacedAt
<1> QED BY <1>1, <1>3, <1>4, SeqEqual

EntitiesAt(cell, i) == {e \in Entities : IsPrefix(e[1], SubSeq(cell, i, Len(cell)))}
EntityAt(cell, i)   == CHOOSE e \in EntitiesAt(cell, i) : TRUE
ByteRead(c)         == IF c > 127 THEN Unreadable ELSE c
HeadRead(cell, i)   ==
    IF EntitiesAt(cell, i) # {} THEN <<EntityAt(cell, i)[2]>> ELSE <<ByteRead(cell[i])>>
NextRead(cell, i)   ==
    IF EntitiesAt(cell, i) # {} THEN i + Len(EntityAt(cell, i)[1]) ELSE i + 1

LEMMA EntityAtIs ==
    ASSUME NEW cell \in Seq(Bytes), NEW place \in 0 .. Len(cell)
    PROVE  /\ \A e \in EntitiesAt(cell, place + 1) :
                 e \in Entities /\ IsName(e[1]) /\ e[2] \in Nat /\ PlacedAt(cell, place, e[1])
           /\ \A e \in Entities : PlacedAt(cell, place, e[1]) =>
                 /\ EntitiesAt(cell, place + 1) # {}
                 /\ EntityAt(cell, place + 1) = e
<1>1. ASSUME NEW e \in EntitiesAt(cell, place + 1)
      PROVE  e \in Entities /\ IsName(e[1]) /\ e[2] \in Nat /\ PlacedAt(cell, place, e[1])
  <2>1. e \in Entities /\ IsPrefix(e[1], SubSeq(cell, place + 1, Len(cell)))
    BY <1>1 DEF EntitiesAt
  <2>2. IsName(e[1]) /\ e[2] \in Nat
    BY <2>1, EntityIsName, Zenon
  <2>3. e[1] \in Seq(Bytes)
    BY <2>2 DEF IsName
  <2> QED BY <2>1, <2>2, <2>3, PrefixAt, Zenon
<1>2. ASSUME NEW e \in Entities, PlacedAt(cell, place, e[1])
      PROVE  EntitiesAt(cell, place + 1) # {} /\ EntityAt(cell, place + 1) = e
  <2>1. IsName(e[1]) /\ e[1] \in Seq(Bytes)
    BY EntityIsName, Zenon DEF IsName
  <2>2. IsPrefix(e[1], SubSeq(cell, place + 1, Len(cell)))
    BY <1>2, <2>1, PrefixAt, Zenon
  <2>3. e \in EntitiesAt(cell, place + 1)
    BY <2>2 DEF EntitiesAt
  <2>4. PICK g : g = EntityAt(cell, place + 1) /\ g \in EntitiesAt(cell, place + 1)
    BY <2>3, Zenon DEF EntityAt
  <2>5. g \in Entities /\ IsName(g[1]) /\ PlacedAt(cell, place, g[1])
    BY <1>1, <2>4, Zenon
  <2>6. g[1] = e[1]
    BY <1>2, <2>1, <2>5, OneName, Zenon
  <2>7. g = e
    BY <2>5, <2>6, EntityIsName, Zenon
  <2> QED BY <2>3, <2>4, <2>7, Zenon
<1> QED BY <1>1, <1>2, Zenon

LEMMA ByteReadIs ==
    /\ Unreadable \in Nat /\ Unreadable # 0
    /\ \A c \in Bytes : ByteRead(c) \in Nat
BY SMT DEF ByteRead, Bytes, Unreadable

Reads(f, cell) ==
    /\ f \in [1 .. Len(cell) + 1 -> Seq(Nat)]
    /\ f[Len(cell) + 1] = <<>>
    /\ \A i \in 1 .. Len(cell) : f[i] = HeadRead(cell, i) \o f[NextRead(cell, i)]

LEMMA ReadOn ==
    ASSUME NEW cell \in Seq(Bytes), NEW i \in 1 .. Len(cell)
    PROVE  /\ HeadRead(cell, i) \in Seq(Nat)
           /\ NextRead(cell, i) \in 1 .. Len(cell) + 1 /\ NextRead(cell, i) > i
<1>1. PICK n : n = Len(cell) /\ n \in Nat /\ i \in 1 .. n /\ cell[i] \in Bytes
  <2>1. Len(cell) \in Nat /\ cell[i] \in Bytes
    OBVIOUS
  <2> QED BY <2>1, Zenon
<1>2. CASE EntitiesAt(cell, i) = {}
  <2>1. HeadRead(cell, i) = <<ByteRead(cell[i])>> /\ NextRead(cell, i) = i + 1
    BY <1>2, Zenon DEF HeadRead, NextRead
  <2>2. ByteRead(cell[i]) \in Nat
    BY <1>1, ByteReadIs, Zenon
  <2> QED BY <1>1, <2>1, <2>2
<1>3. CASE EntitiesAt(cell, i) # {}
  <2>1. HeadRead(cell, i) = <<EntityAt(cell, i)[2]>>
        /\ NextRead(cell, i) = i + Len(EntityAt(cell, i)[1])
    BY <1>3, Zenon DEF HeadRead, NextRead
  <2>2. PICK e : e = EntityAt(cell, i) /\ e \in EntitiesAt(cell, i)
    BY <1>3, Zenon DEF EntityAt
  <2>3. PICK place : place = i - 1 /\ place \in 0 .. n /\ place + 1 = i
    BY <1>1
  <2>4. e[2] \in Nat /\ IsName(e[1]) /\ PlacedAt(cell, place, e[1])
    BY <1>1, <2>2, <2>3, EntityAtIs, Zenon
  <2>5. Len(e[1]) \in Nat /\ Len(e[1]) >= 4 /\ place + Len(e[1]) <= n
    BY <1>1, <2>4 DEF IsName, PlacedAt
  <2> QED BY <1>1, <2>1, <2>2, <2>3, <2>4, <2>5
<1> QED BY <1>2, <1>3

LEMMA ReadIs ==
    ASSUME NEW cell \in Seq(Bytes)
    PROVE  \E f : Reads(f, cell) /\ Read(cell) = f[1]
<1> DEFINE n    == Len(cell)
           D    == 1 .. n + 1
           at(i) == {e \in Entities : IsPrefix(e[1], SubSeq(cell, i, Len(cell)))}
           E(f, i) == IF i > Len(cell) THEN <<>>
                      ELSE IF at(i) # {}
                           THEN LET e == CHOOSE e \in at(i) : TRUE
                                IN  <<e[2]>> \o f[i + Len(e[1])]
                           ELSE <<IF cell[i] > 127 THEN Unreadable ELSE cell[i]>> \o f[i + 1]
           base == {n + 1}
           next == [i \in D |-> IF i = n + 1 THEN i ELSE NextRead(cell, i)]
           head == [i \in D |-> HeadRead(cell, i)]
           rank == [i \in D |-> n + 1 - i]
           solution == CHOOSE f : f = [i \in D |-> E(f, i)]
<1>1. n \in Nat /\ base \subseteq D
  OBVIOUS
<1>2. \A f, i : E(f, i) = IF i > n THEN <<>> ELSE HeadRead(cell, i) \o f[NextRead(cell, i)]
  BY DEF HeadRead, NextRead, EntitiesAt, EntityAt, ByteRead
<1>3. ASSUME NEW i \in D, i \notin base
      PROVE  /\ i \in 1 .. n /\ head[i] \in Seq(Nat) /\ head[i] = HeadRead(cell, i)
             /\ next[i] = NextRead(cell, i) /\ next[i] \in D /\ next[i] > i /\ ~(i > n)
  <2>1. i \in 1 .. n /\ i # n + 1
    BY <1>1, <1>3
  <2> QED BY <1>1, <2>1, ReadOn
<1>4. Descends(D, base, next, rank)
  <2>1. \A i \in D : next[i] \in D
    <3>1. next[n + 1] = n + 1
      BY <1>1
    <3> QED BY <1>1, <1>3, <3>1
  <2>2. next \in [D -> D]
    BY <2>1
  <2>3. rank \in [D -> Nat]
    BY <1>1
  <2>4. \A i \in D \ base : rank[next[i]] < rank[i]
    <3>1. ASSUME NEW i \in D \ base PROVE rank[next[i]] < rank[i]
      <4>1. PICK j : j = next[i] /\ j \in D /\ j > i
        BY <1>3
      <4>2. rank[j] = n + 1 - j /\ rank[i] = n + 1 - i
        BY <4>1
      <4> QED BY <1>1, <4>1, <4>2
    <3> QED BY <3>1
  <2> HIDE DEF D, base, next, rank
  <2> QED BY <2>2, <2>3, <2>4 DEF Descends
<1>5. n + 2 \in Nat /\ \A i \in D : rank[i] < n + 2
  BY <1>1
<1>6. \A i \in D : i \notin base => head[i] \in Seq(Nat)
  BY <1>3
<1>7. \A f : Unfolds(f, D, base, next, head) <=> f = [i \in D |-> E(f, i)]
  <2>1. ASSUME NEW f, NEW i \in D
        PROVE  (IF i \in base THEN <<>> ELSE head[i] \o f[next[i]]) = E(f, i)
    <3>1. CASE i \in base
      BY <1>1, <1>2, <3>1
    <3>2. CASE i \notin base
      <4>1. E(f, i) = HeadRead(cell, i) \o f[NextRead(cell, i)]
        BY <1>2, <1>3, <3>2, Zenon
      <4>2. head[i] = HeadRead(cell, i) /\ next[i] = NextRead(cell, i)
        BY <1>3, <3>2, Zenon
      <4> HIDE DEF head, next, E
      <4> QED BY <3>2, <4>1, <4>2, Zenon
    <3> QED BY <3>1, <3>2
  <2> HIDE DEF D, base, next, head, E
  <2>2. ASSUME NEW f PROVE Unfolds(f, D, base, next, head) <=> f = [i \in D |-> E(f, i)]
    <3>1. [i \in D |-> IF i \in base THEN <<>> ELSE head[i] \o f[next[i]]] = [i \in D |-> E(f, i)]
      BY <2>1, Zenon
    <3> QED BY <3>1, Zenon DEF Unfolds
  <2> QED BY <2>2, Zenon
<1>8. \E f : Unfolds(f, D, base, next, head)
  <2> HIDE DEF D, base, next, head, rank
  <2> QED BY <1>1, <1>4, <1>5, <1>6, UnfoldIs
<1>9. Unfolds(solution, D, base, next, head)
  <2> HIDE DEF D, base, next, head, E
  <2>1. \E f : f = [i \in D |-> E(f, i)]
    BY <1>7, <1>8, Zenon
  <2>2. solution = [i \in D |-> E(solution, i)]
    BY <2>1, Zenon
  <2> QED BY <1>7, <2>2, Zenon
<1>10. Read(cell) = solution[1]
  BY Zenon DEF Read
<1> HIDE DEF solution
<1>11. solution \in [D -> Seq(Nat)]
  <2> HIDE DEF D, base, next, head, rank
  <2> QED BY <1>4, <1>6, <1>9, UnfoldType
<1>12. \A i \in D : solution[i] = IF i \in base THEN <<>> ELSE head[i] \o solution[next[i]]
  <2> HIDE DEF D, base, next, head
  <2> QED BY <1>9 DEF Unfolds
<1>13. solution[n + 1] = <<>>
  BY <1>1, <1>12
<1>14. \A i \in 1 .. n : solution[i] = HeadRead(cell, i) \o solution[NextRead(cell, i)]
  <2>1. \A i \in 1 .. n : i \in D /\ i \notin base
    BY <1>1
  <2> HIDE DEF D, base, next, head
  <2> QED BY <1>3, <1>12, <2>1, Zenon
<1>15. Reads(solution, cell)
  BY <1>11, <1>13, <1>14 DEF Reads
<1> QED BY <1>10, <1>15

(* A byte that is not the '&' of an entity.                                *)
PlainAt(cell, place, c) ==
    /\ place \in Nat /\ place + 1 <= Len(cell) /\ cell[place + 1] = c
    /\ c # AMP \/ (place + 2 <= Len(cell) /\ cell[place + 2] = 114)

LEMMA ByteAt ==
    ASSUME NEW cell \in Seq(Bytes), NEW f, Reads(f, cell), NEW place, NEW c,
           PlainAt(cell, place, c)
    PROVE  f[place + 1] = <<ByteRead(c)>> \o f[place + 2]
<1>0. cell[place + 1] = c /\ (c # AMP \/ cell[place + 2] = 114)
  BY DEF PlainAt
<1>2. place \in 0 .. Len(cell)
  BY DEF PlainAt
<1>1. place + 1 \in 1 .. Len(cell) /\ (place + 1) + 1 = place + 2
  BY DEF PlainAt
<1>3. EntitiesAt(cell, place + 1) = {}
  <2>1. ASSUME NEW e \in EntitiesAt(cell, place + 1) PROVE FALSE
    <3>1. e \in Entities /\ IsName(e[1]) /\ PlacedAt(cell, place, e[1])
      BY <1>2, <2>1, EntityAtIs, Zenon
    <3>2. e[1][1] = AMP /\ e[1] \in Seq(Bytes) /\ Len(e[1]) >= 4
      BY <3>1, Zenon DEF IsName
    <3>3. 1 \in 1 .. Len(e[1]) /\ 2 \in 1 .. Len(e[1])
      BY <3>2
    <3>4. cell[place + 1] = e[1][1] /\ cell[place + 2] = e[1][2]
      BY <3>1, <3>3, Zenon DEF PlacedAt
    <3>5. e[1][2] \in {108, 97, 35}
      BY <3>1, EntityIsName, Zenon
    <3> QED BY <1>0, <3>2, <3>4, <3>5
  <2> QED BY <2>1, Zenon
<1>4. HeadRead(cell, place + 1) = <<ByteRead(c)>> /\ NextRead(cell, place + 1) = place + 2
  <2>1. HeadRead(cell, place + 1) = <<ByteRead(cell[place + 1])>>
        /\ NextRead(cell, place + 1) = (place + 1) + 1
    BY <1>3, Zenon DEF HeadRead, NextRead
  <2> QED BY <1>0, <1>1, <2>1, Zenon
<1> QED BY <1>1, <1>4, Zenon DEF Reads

LEMMA NameAt ==
    ASSUME NEW cell \in Seq(Bytes), NEW f, Reads(f, cell), NEW place \in Nat,
           NEW e \in Entities, PlacedAt(cell, place, e[1])
    PROVE  f[place + 1] = <<e[2]>> \o f[(place + 1) + Len(e[1])]
<1>1. place \in 0 .. Len(cell) /\ place + 1 \in 1 .. Len(cell)
  <2>1. IsName(e[1])
    BY EntityIsName, Zenon
  <2>2. PICK x : x = e[1] /\ x \in Seq(Bytes) /\ Len(x) >= 4
    BY <2>1, Zenon DEF IsName
  <2>3. place + Len(x) <= Len(cell)
    BY <2>2, Zenon DEF PlacedAt
  <2> QED BY <2>2, <2>3
<1>2. EntitiesAt(cell, place + 1) # {} /\ EntityAt(cell, place + 1) = e
  BY <1>1, EntityAtIs, Zenon
<1>3. HeadRead(cell, place + 1) = <<e[2]>> /\ NextRead(cell, place + 1) = (place + 1) + Len(e[1])
  BY <1>2, Zenon DEF HeadRead, NextRead
<1> QED BY <1>1, <1>3, Zenon DEF Reads

(* What a piece of a cell is read as.                                      *)
NoEntity == <<AMP, 114, 116, 59>>
Shows(piece, shown) ==
    \/ piece = <<>> /\ shown = <<>>
    \/ \E e \in Entities : piece = e[1] /\ shown = <<e[2]>>
    \/ \E c \in Bytes : c # AMP /\ c # LT /\ piece = <<c>> /\ shown = <<ByteRead(c)>>
    \/ piece = NoEntity /\ shown = NoEntity

LEMMA NoEntityIs ==
    /\ NoEntity \in Seq(Bytes) /\ NoEntity \in Seq(Nat) /\ Len(NoEntity) = 4
    /\ NoEntity[1] = AMP /\ NoEntity[2] = 114 /\ NoEntity[3] = 116 /\ NoEntity[4] = 59
    /\ ByteRead(AMP) = AMP /\ ByteRead(114) = 114 /\ ByteRead(116) = 116 /\ ByteRead(59) = 59
BY SMT DEF NoEntity, AMP, Bytes, ByteRead

ReadThere(f, place, piece, shown) ==
    f[place + 1] = shown \o f[(place + 1) + Len(piece)]

LEMMA ShownAt ==
    ASSUME NEW cell \in Seq(Bytes), NEW f, Reads(f, cell), NEW place \in Nat,
           NEW piece, NEW shown, Shows(piece, shown), PlacedAt(cell, place, piece)
    PROVE  ReadThere(f, place, piece, shown)
<1> USE DEF ReadThere
<1>0. Len(cell) \in Nat
  OBVIOUS
<1>1. \A i \in 1 .. Len(cell) + 1 : f[i] \in Seq(Nat)
  BY <1>0 DEF Reads
<1>2. place + Len(piece) <= Len(cell) /\ \A k \in 1 .. Len(piece) : cell[place + k] = piece[k]
  BY <1>0 DEF PlacedAt
<1>3. CASE piece = <<>> /\ shown = <<>>
  <2>1. Len(piece) = 0 /\ (place + 1) + Len(piece) = place + 1 /\ place + 1 \in 1 .. Len(cell) + 1
    BY <1>0, <1>2, <1>3
  <2>2. f[place + 1] \in Seq(Nat)
    BY <1>1, <2>1, Zenon
  <2>3. <<>> \o f[place + 1] = f[place + 1]
    BY <2>2
  <2> QED BY <1>3, <2>1, <2>3, Zenon
<1>4. ASSUME NEW e \in Entities, piece = e[1] /\ shown = <<e[2]>>
      PROVE  f[place + 1] = shown \o f[(place + 1) + Len(piece)]
  BY <1>4, NameAt, Zenon
<1>5. ASSUME NEW c \in Bytes, c # AMP /\ piece = <<c>> /\ shown = <<ByteRead(c)>>
      PROVE  f[place + 1] = shown \o f[(place + 1) + Len(piece)]
  <2>1. Len(piece) = 1 /\ piece[1] = c /\ 1 \in 1 .. 1
    BY <1>5
  <2>2. place + 1 <= Len(cell) /\ (place + 1) + Len(piece) = place + 2
    BY <1>0, <1>2, <2>1
  <2>3. cell[place + 1] = c
    BY <1>2, <2>1, Zenon
  <2>4. PlainAt(cell, place, c)
    BY <1>5, <2>2, <2>3, Zenon DEF PlainAt
  <2>5. f[place + 1] = <<ByteRead(c)>> \o f[place + 2]
    BY <2>4, ByteAt, Zenon
  <2> QED BY <1>5, <2>2, <2>5
<1>6. CASE piece = NoEntity /\ shown = NoEntity
  <2>1. Len(piece) = 4 /\ place + 4 <= Len(cell) /\ (place + 1) + Len(piece) = place + 5
    BY <1>0, <1>2, <1>6, NoEntityIs
  <2>2. cell[place + 1] = AMP /\ cell[place + 2] = 114 /\ cell[place + 3] = 116
        /\ cell[place + 4] = 59
    <3>1. 1 \in 1 .. 4 /\ 2 \in 1 .. 4 /\ 3 \in 1 .. 4 /\ 4 \in 1 .. 4
      OBVIOUS
    <3>2. \A k \in 1 .. 4 : cell[place + k] = NoEntity[k]
      BY <1>2, <1>6, <2>1, Zenon
    <3>3. /\ cell[place + 1] = NoEntity[1] /\ cell[place + 2] = NoEntity[2]
          /\ cell[place + 3] = NoEntity[3] /\ cell[place + 4] = NoEntity[4]
      BY <3>1, <3>2, Zenon
    <3> QED BY <3>3, NoEntityIs
  <2>3. f[place + 1] = <<AMP>> \o f[place + 2]
    <3>1. place + 1 <= Len(cell) /\ place + 2 <= Len(cell)
      BY <1>0, <2>1
    <3>2. f[place + 1] = <<ByteRead(AMP)>> \o f[place + 2]
      <4>1. PlainAt(cell, place, AMP)
        BY <2>2, <3>1, Zenon DEF PlainAt
      <4> QED BY <4>1, ByteAt, Zenon
    <3> QED BY <3>2, NoEntityIs, Zenon
  <2>4. ASSUME NEW k \in 1 .. 3, NEW c \in Nat, c # AMP, cell[(place + k) + 1] = c, ByteRead(c) = c
        PROVE  f[(place + k) + 1] = <<c>> \o f[(place + k) + 2]
    <3>1. place + k \in Nat /\ (place + k) + 1 <= Len(cell)
      BY <1>0, <2>1
    <3>2. f[(place + k) + 1] = <<ByteRead(c)>> \o f[(place + k) + 2]
      <4>1. PlainAt(cell, place + k, c)
        BY <2>4, <3>1, Zenon DEF PlainAt
      <4> QED BY <4>1, ByteAt, Zenon
    <3> QED BY <2>4, <3>2
  <2>5. /\ (place + 1) + 1 = place + 2 /\ (place + 1) + 2 = place + 3
        /\ (place + 2) + 1 = place + 3 /\ (place + 2) + 2 = place + 4
        /\ (place + 3) + 1 = place + 4 /\ (place + 3) + 2 = place + 5
        /\ 1 \in 1 .. 3 /\ 2 \in 1 .. 3 /\ 3 \in 1 .. 3 /\ 59 \in Nat /\ 114 \in Nat /\ 116 \in Nat
        /\ 114 # AMP /\ 116 # AMP /\ 59 # AMP
    BY <1>0 DEF AMP
  <2>6. f[place + 2] = <<114>> \o f[place + 3]
    <3>1. cell[(place + 1) + 1] = 114 /\ ByteRead(114) = 114 /\ 1 \in 1 .. 3
          /\ 114 \in Nat /\ 114 # AMP
      BY <2>2, <2>5, NoEntityIs, Zenon
    <3>2. f[(place + 1) + 1] = <<114>> \o f[(place + 1) + 2]
      BY <2>4, <3>1, Zenon
    <3> QED BY <2>5, <3>2, Zenon
  <2>7. f[place + 3] = <<116>> \o f[place + 4]
    <3>1. cell[(place + 2) + 1] = 116 /\ ByteRead(116) = 116 /\ 2 \in 1 .. 3
          /\ 116 \in Nat /\ 116 # AMP
      BY <2>2, <2>5, NoEntityIs, Zenon
    <3>2. f[(place + 2) + 1] = <<116>> \o f[(place + 2) + 2]
      BY <2>4, <3>1, Zenon
    <3> QED BY <2>5, <3>2, Zenon
  <2>8. f[place + 4] = <<59>> \o f[place + 5]
    <3>1. cell[(place + 3) + 1] = 59 /\ ByteRead(59) = 59 /\ 3 \in 1 .. 3
          /\ 59 \in Nat /\ 59 # AMP
      BY <2>2, <2>5, NoEntityIs, Zenon
    <3>2. f[(place + 3) + 1] = <<59>> \o f[(place + 3) + 2]
      BY <2>4, <3>1, Zenon
    <3> QED BY <2>5, <3>2, Zenon
  <2>9. f[place + 5] \in Seq(Nat)
    BY <1>0, <1>1, <2>1
  <2>10. f[place + 1] = <<AMP>> \o (<<114>> \o (<<116>> \o (<<59>> \o f[place + 5])))
    BY <2>3, <2>6, <2>7, <2>8, Zenon
  <2>11. \A t \in Seq(Nat) : <<AMP>> \o (<<114>> \o (<<116>> \o (<<59>> \o t))) = NoEntity \o t
    BY DEF NoEntity, AMP
  <2> QED BY <1>6, <2>1, <2>9, <2>10, <2>11, Zenon
<1> QED BY <1>3, <1>4, <1>5, <1>6, Zenon DEF Shows

LEMMA AllShown ==
    ASSUME NEW pieces \in Seq(Seq(Bytes)), NEW shown \in Seq(Seq(Nat)), Len(shown) = Len(pieces),
           \A i \in 1 .. Len(pieces) : Shows(pieces[i], shown[i])
    PROVE  Read(FlattenSeq(pieces)) = FlattenSeq(shown)
<1>1. PICK n : n = Len(pieces) /\ n = Len(shown) /\ n \in Nat
  <2>1. Len(pieces) \in Nat
    OBVIOUS
  <2> QED BY <2>1, Zenon
<1>2. PICK at : Flattens(at, pieces, Bytes) /\ FlattenSeq(pieces) = at[n]
  BY <1>1, FlattenIs, Zenon
<1>3. PICK cell : cell = FlattenSeq(pieces)
  OBVIOUS
<1>4. cell \in Seq(Bytes)
  BY <1>3, FlattenType, Zenon
<1>5. Places(at, pieces, cell)
  <2>1. <<>> \in Seq(Bytes)
    BY Empty, Zenon
  <2>2. Places(at, pieces, at[n] \o <<>>)
    BY <1>1, <1>2, <2>1, PlacesAre, Zenon
  <2>3. at[n] \o <<>> = cell
    BY <1>2, <1>3, <1>4
  <2> QED BY <2>2, <2>3, Zenon
<1>6. PICK f : Reads(f, cell) /\ Read(cell) = f[1]
  BY <1>4, ReadIs, Zenon
<1> DEFINE g == [i \in 0 .. n |-> f[Len(at[i]) + 1]]
<1>7. g[n] = <<>>
  <2>1. at[n] = cell /\ n \in 0 .. n
    BY <1>1, <1>2, <1>3
  <2> QED BY <1>6, <2>1 DEF Reads
<1>8. ASSUME NEW i \in 1 .. n PROVE g[i - 1] = shown[i] \o g[i]
  <2>1. PICK p, l : p = Len(at[i - 1]) /\ l = Len(pieces[i])
    OBVIOUS
  <2>2. /\ p \in Nat /\ Len(at[i]) = p + l /\ p + l <= Len(cell)
        /\ \A k \in 1 .. l : cell[p + k] = pieces[i][k]
    BY <1>1, <1>5, <2>1, Zenon DEF Places
  <2>3. pieces[i] \in Seq(Bytes) /\ l \in Nat
    BY <1>1, <2>1
  <2>4. PlacedAt(cell, p, pieces[i])
    BY <2>1, <2>2, <2>3, Zenon DEF PlacedAt
  <2>5. f[p + 1] = shown[i] \o f[(p + 1) + l]
    <3>1. Shows(pieces[i], shown[i])
      BY <1>1, Zenon
    <3>2. p \in Nat
      BY <2>2
    <3>3. Reads(f, cell)
      BY <1>6
    <3>4. ReadThere(f, p, pieces[i], shown[i])
      BY <1>4, <2>4, <3>1, <3>2, <3>3, ShownAt, Zenon
    <3> QED BY <2>1, <3>4, Zenon DEF ReadThere
  <2>6. i - 1 \in 0 .. n /\ i \in 0 .. n /\ (p + 1) + l = (p + l) + 1
    BY <1>1, <2>2, <2>3
  <2>7. g[i - 1] = f[p + 1] /\ g[i] = f[(p + l) + 1]
    BY <2>1, <2>2, <2>6, Zenon
  <2> QED BY <2>5, <2>6, <2>7, Zenon
<1>9. g[0] = FlattenSeq(shown)
  <2> HIDE DEF g
  <2> QED BY <1>1, <1>7, <1>8, WalkIs, Zenon
<1>10. g[0] = f[1]
  <2>1. at[0] = <<>> /\ 0 \in 0 .. n
    BY <1>1, <1>2 DEF Flattens
  <2> QED BY <2>1
<1> QED BY <1>3, <1>6, <1>9, <1>10, Zenon

-----------------------------------------------------------------------------
(* The content of a cell.                                                  *)
PagePiece(unit) ==
    IF IsUnit(unit) /\ Sense(unit.bytes) # 0
    THEN Piece("HTMLContent", Sense(unit.bytes), unit.bytes[Len(unit.bytes)])
    ELSE <<>>
PagePieces(units) == [i \in 1 .. Len(units) |-> PagePiece(units[i])]
ShownPieces(units) == [i \in 1 .. Len(units) |-> units[i].shown]

LEMMA PieceIs ==
    ASSUME NEW glyph \in Nat, NEW c \in Bytes
    PROVE  /\ glyph >= 128 => Piece("HTMLContent", glyph, c) = Entity(glyph)
           /\ glyph < 128 /\ c = LT => Piece("HTMLContent", glyph, c) = LessThan
           /\ glyph < 128 /\ c = GT => Piece("HTMLContent", glyph, c) = NoEntity
           /\ glyph < 128 /\ c = AMP => Piece("HTMLContent", glyph, c) = Ampersand
           /\ glyph < 128 /\ c # LT /\ c # GT /\ c # AMP => Piece("HTMLContent", glyph, c) = <<c>>
<1>1. EscapesBrackets("HTMLContent") /\ "HTMLContent" # "UTF8"
  BY DEF EscapesBrackets
<1>2. GT # LT /\ AMP # LT /\ AMP # GT
  BY DEF GT, LT, AMP
<1>3. glyph < 128 => ~(glyph >= 128)
  OBVIOUS
<1> QED BY <1>1, <1>2, <1>3, Zenon DEF Piece, LessThan, NoEntity, Ampersand

LEMMA LastContinues == \A x : Continues(x) => x > 127
BY SMT DEF Continues

LEMMA AtLeastOne ==
    /\ \A m \in Nat : m > 1 => m # 1 /\ m \in 2 .. m
    /\ \A m \in Nat : m # 0 /\ ~(m > 1) => m = 1
OBVIOUS

LEMMA SenseOfAscii ==
    ASSUME NEW b, NEW m \in Nat, m = Len(b), NEW s \in Nat, s = Sense(b), s < 128
    PROVE  /\ m = 1 => b[1] = s
           /\ m > 1 => b[m] > 127
<1>1. ~(Replacement < 128)
  BY SMT DEF Replacement
<1>2. ASSUME m = 1 PROVE b[1] = s
  <2>1. s = IF b[1] < 128 THEN b[1] ELSE Replacement
    BY <1>2, Zenon DEF Sense
  <2> QED BY <1>1, <2>1, Zenon
<1>3. ASSUME m > 1 PROVE b[m] > 127
  <2>1. m # 1 /\ m \in 2 .. m
    BY <1>3, AtLeastOne, Zenon
  <2>2. ~Continues(b[m]) => s = Replacement
    BY <2>1, Zenon DEF Sense
  <2> QED BY <1>1, <2>2, LastContinues, Zenon
<1> QED BY <1>2, <1>3, Zenon

LEMMA UnitShows ==
    ASSUME NEW units, IsReadable(units), NEW i \in 1 .. Len(units)
    PROVE  Shows(PagePiece(units[i]), units[i].shown)
<1>0. IsText(units)
  BY Zenon DEF IsReadable
<1>1. PICK u, b, s : u = units[i] /\ b = u.bytes /\ s = Sense(b)
  OBVIOUS
<1>2. /\ b \in Seq(Bytes) /\ b # <<>>
      /\ IsUnit(u) => s \in Nat /\ u.shown = OnPage(b) /\ ~IsCutOff(u)
      /\ IsCutOff(u) => u.shown = <<>>
      /\ IsUnit(u) \/ IsCutOff(u)
      /\ IsUnit(u) /\ s >= 128 => s \in CodePoints
  <2>1. b \in Seq(Bytes) /\ b # <<>>
    BY <1>0, <1>1, UnitIs, Zenon
  <2>2. /\ IsUnit(u) => s \in Nat /\ u.shown = OnPage(b) /\ ~IsCutOff(u)
        /\ IsCutOff(u) => u.shown = <<>>
        /\ IsUnit(u) \/ IsCutOff(u)
    BY <1>0, <1>1, UnitOrCutOff, Zenon
  <2>3. IsUnit(u) /\ s >= 128 => s \in CodePoints
    BY <1>1, Zenon DEF IsReadable
  <2> QED BY <2>1, <2>2, <2>3, Zenon
<1>3. CASE IsCutOff(u)
  BY <1>1, <1>2, <1>3, Zenon DEF PagePiece, Shows
<1> SUFFICES ASSUME IsUnit(u) PROVE Shows(PagePiece(u), OnPage(b))
  BY <1>1, <1>2, <1>3, Zenon
<1>4. CASE s = 0
  BY <1>1, <1>4, Zenon DEF PagePiece, OnPage, Shows
<1>5. PICK m, c : m = Len(b) /\ c = b[m] /\ c \in Bytes /\ m \in Nat /\ m # 0
  <2>1. b[Len(b)] \in Bytes /\ Len(b) \in Nat /\ Len(b) # 0
    BY <1>2
  <2> QED BY <2>1, Zenon
<1>6. s # 0 => PagePiece(u) = Piece("HTMLContent", s, c)
  BY <1>1, <1>5, Zenon DEF PagePiece
<1>7. s \in Nat
  BY <1>2
<1>8. CASE s >= 128
  <2>1. s \in CodePoints /\ s # 0 /\ s # GT /\ ~(s < 128)
    BY <1>2, <1>7, <1>8 DEF GT
  <2>2. PagePiece(u) = Entity(s)
    BY <1>5, <1>6, <1>7, <1>8, <2>1, PieceIs, Zenon
  <2>3. OnPage(b) = <<s>>
    BY <1>1, <2>1, Zenon DEF OnPage
  <2>4. PICK e : e = <<Entity(s), s>> /\ e \in Entities
    BY <2>1, Zenon DEF Entities
  <2>5. e[1] = Entity(s) /\ e[2] = s
    BY <2>4
  <2> QED BY <2>2, <2>3, <2>4, <2>5, Zenon DEF Shows
<1>9. CASE s < 128 /\ s # 0 /\ m > 1
  <2>1. c > 127
    BY <1>1, <1>5, <1>7, <1>9, SenseOfAscii, Zenon
  <2>2. c # LT /\ c # GT /\ c # AMP
    BY <1>5, <2>1 DEF LT, GT, AMP, Bytes
  <2>3. PagePiece(u) = <<c>>
    BY <1>5, <1>6, <1>7, <1>9, <2>2, PieceIs, Zenon
  <2>4. OnPage(b) = <<Unreadable>>
    BY <1>1, <1>5, <1>9, Zenon DEF OnPage
  <2>5. ByteRead(c) = Unreadable
    BY <2>1, Zenon DEF ByteRead
  <2> QED BY <1>5, <2>2, <2>3, <2>4, <2>5, Zenon DEF Shows
<1>10. CASE s < 128 /\ s # 0 /\ ~(m > 1)
  <2>1. m = 1
    BY <1>5, <1>10, AtLeastOne, Zenon
  <2>2. c = s
    <3>1. m = 1 => b[1] = s
      BY <1>1, <1>5, <1>7, <1>10, SenseOfAscii
    <3> QED BY <1>5, <2>1, <3>1
  <2>3. OnPage(b) = IF s = GT THEN NoEntity ELSE <<s>>
    BY <1>1, <1>5, <1>10, Zenon DEF OnPage, NoEntity
  <2>4. ByteRead(s) = s
    BY <1>7, <1>10, SMT DEF ByteRead
  <2>5. CASE s = LT
    <3>1. PagePiece(u) = LessThan
      BY <1>5, <1>6, <1>7, <1>10, <2>2, <2>5, PieceIs, Zenon
    <3>2. LT # GT
      BY DEF LT, GT
    <3>3. PICK e : e = <<LessThan, LT>> /\ e \in Entities
      BY Zenon DEF Entities, LessThan
    <3>4. e[1] = LessThan /\ e[2] = LT
      BY <3>3
    <3> QED BY <2>3, <2>5, <3>1, <3>2, <3>3, <3>4, Zenon DEF Shows
  <2>6. CASE s = AMP
    <3>1. PagePiece(u) = Ampersand
      BY <1>5, <1>6, <1>7, <1>10, <2>2, <2>6, PieceIs, Zenon
    <3>2. AMP # GT
      BY DEF AMP, GT
    <3>3. PICK e : e = <<Ampersand, AMP>> /\ e \in Entities
      BY Zenon DEF Entities, Ampersand
    <3>4. e[1] = Ampersand /\ e[2] = AMP
      BY <3>3
    <3> QED BY <2>3, <2>6, <3>1, <3>2, <3>3, <3>4, Zenon DEF Shows
  <2>7. CASE s = GT
    <3>1. PagePiece(u) = NoEntity
      BY <1>5, <1>6, <1>7, <1>10, <2>2, <2>7, PieceIs, Zenon
    <3> QED BY <2>3, <2>7, <3>1, Zenon DEF Shows
  <2>8. CASE s # LT /\ s # AMP /\ s # GT
    <3>1. PagePiece(u) = <<c>>
      BY <1>5, <1>6, <1>7, <1>10, <2>2, <2>8, PieceIs, Zenon
    <3> QED BY <1>5, <2>2, <2>3, <2>4, <2>8, <3>1, Zenon DEF Shows
  <2> QED BY <2>5, <2>6, <2>7, <2>8, Zenon
<1> QED BY <1>4, <1>7, <1>8, <1>9, <1>10

(* No piece of a content has a '<'.                                        *)
Unmarked == {c \in Bytes : c # LT}

LEMMA InertBytes ==
    ASSUME NEW x \in Seq(Unmarked)
    PROVE  /\ x \in Seq(Bytes)
           /\ \A k \in 1 .. Len(x) : x[k] # LT
BY DEF Unmarked

LEMMA InertSequence ==
    ASSUME NEW x \in Seq(Bytes), \A k \in 1 .. Len(x) : x[k] # LT
    PROVE  x \in Seq(Unmarked)
<1>1. Len(x) \in Nat /\ x \in [1 .. Len(x) -> Bytes] /\ DOMAIN x = 1 .. Len(x)
  BY SequenceIs, Zenon
<1>2. \A k \in 1 .. Len(x) : x[k] \in Unmarked
  BY DEF Unmarked
<1>3. x \in [1 .. Len(x) -> Unmarked]
  BY <1>1, <1>2
<1> QED BY <1>1, <1>3, IsSequence, Zenon

LEMMA ShowsInert ==
    ASSUME NEW piece, NEW shown, Shows(piece, shown)
    PROVE  piece \in Seq(Unmarked)
<1>1. CASE piece = <<>>
  BY <1>1, Empty, Zenon
<1>2. ASSUME NEW e \in Entities, piece = e[1] PROVE piece \in Seq(Unmarked)
  <2>1. IsName(piece)
    BY <1>2, EntityIsName, Zenon
  <2>2. piece \in Seq(Bytes) /\ \A k \in 1 .. Len(piece) : piece[k] # LT
    BY <2>1, Zenon DEF IsName
  <2> QED BY <2>2, InertSequence, Zenon
<1>3. ASSUME NEW c \in Bytes, c # LT, piece = <<c>> PROVE piece \in Seq(Unmarked)
  BY <1>3 DEF Unmarked
<1>4. CASE piece = NoEntity
  <2>1. \A k \in 1 .. 4 : k = 1 \/ k = 2 \/ k = 3 \/ k = 4
    OBVIOUS
  <2>2. AMP # LT /\ 114 # LT /\ 116 # LT /\ 59 # LT
    BY DEF AMP, LT
  <2>3. ASSUME NEW k \in 1 .. Len(NoEntity) PROVE NoEntity[k] # LT
    <3>1. k = 1 \/ k = 2 \/ k = 3 \/ k = 4
      BY <2>1, NoEntityIs, Zenon
    <3> QED BY <2>2, <3>1, NoEntityIs
  <2> QED BY <1>4, <2>3, NoEntityIs, InertSequence, Zenon
<1> QED BY <1>1, <1>2, <1>3, <1>4, Zenon DEF Shows

PageContent(units) == As("HTMLContent", "bytes", BytesOf(units))

LEMMA ContentFlattens ==
    ASSUME NEW units, IsReadable(units)
    PROVE  /\ PagePieces(units) \in Seq(Seq(Unmarked)) /\ Len(PagePieces(units)) = Len(units)
           /\ \A i \in 1 .. Len(units) : PagePieces(units)[i] = PagePiece(units[i])
           /\ PageContent(units) = FlattenSeq(PagePieces(units))
<1>0. IsText(units)
  BY Zenon DEF IsReadable
<1>1. PICK n : n = Len(units) /\ n \in Nat /\ DOMAIN units = 1 .. n
  BY <1>0, SensesType, Zenon
<1>2. PICK ww : ww = PagePieces(units)
  OBVIOUS
<1>3. ww = [i \in 1 .. n |-> PagePiece(units[i])]
  BY <1>1, <1>2, Zenon DEF PagePieces
<1>4. \A i \in 1 .. n : PagePiece(units[i]) \in Seq(Unmarked)
  BY <1>1, UnitShows, ShowsInert, Zenon
<1>5. PICK R : R = Seq(Unmarked)
  OBVIOUS
<1>6. ww \in [1 .. n -> R] /\ \A i \in 1 .. n : ww[i] = PagePiece(units[i])
  BY <1>3, <1>4, <1>5
<1>7. ww \in Seq(R) /\ Len(ww) = n
  <2>1. ww \in Seq(R)
    BY <1>1, <1>6, IsSequence
  <2> QED BY <1>1, <1>6, <2>1
<1>8. PICK text : text = BytesOf(units) /\ text \in Seq(Bytes)
  BY <1>0, BytesOfType, Zenon
<1>9. PICK d : Decodes(d, text)
  BY <1>8, Utf8DecodeIs, Zenon
<1>10. PICK pp : pp = Pieces("HTMLContent", d, text)
  OBVIOUS
<1>11. "HTMLContent" \in Formats
  BY DEF Formats
<1>12. pp \in Seq(Seq(Bytes)) /\ Len(pp) = Len(text)
  BY <1>8, <1>9, <1>10, <1>11, PiecesType, Zenon
<1>13. PageContent(units) = FlattenSeq(pp)
  BY <1>8, <1>9, <1>10, <1>11, ConvertedPieces, Zenon DEF PageContent, As
<1>14. MadeOf(pp, ww, units, text, d)
  <2>1. \A q \in 1 .. Len(text) : pp[q] = PieceAt("HTMLContent", d[q], text[q])
    BY <1>10 DEF Pieces
  <2>2. ASSUME NEW q \in 1 .. Len(text), Glyph(d[q]) = 0 PROVE pp[q] = <<>>
    BY <2>1, <2>2, Zenon DEF PieceAt
  <2>3. ASSUME NEW i \in 1 .. Len(units), NEW q \in 1 .. Len(text), IsUnit(units[i]),
               Glyph(d[q]) = Sense(units[i].bytes),
               text[q] = units[i].bytes[Len(units[i].bytes)]
        PROVE  pp[q] = ww[i]
    <3>1. ww[i] = PagePiece(units[i])
      BY <1>1, <1>6
    <3>2. PICK s, c : s = Glyph(d[q]) /\ c = text[q]
      OBVIOUS
    <3>3. pp[q] = IF s = 0 THEN <<>> ELSE Piece("HTMLContent", s, c)
      BY <2>1, <3>2, Zenon DEF PieceAt
    <3>4. PagePiece(units[i]) = IF s = 0 THEN <<>> ELSE Piece("HTMLContent", s, c)
      BY <2>3, <3>2, Zenon DEF PagePiece
    <3> QED BY <3>1, <3>3, <3>4, Zenon
  <2>4. ASSUME NEW i \in 1 .. Len(units), IsCutOff(units[i]) PROVE ww[i] = <<>>
    <3>1. ~IsUnit(units[i])
      BY <1>0, <2>4, UnitOrCutOff, Zenon
    <3> QED BY <1>1, <1>6, <3>1, Zenon DEF PagePiece
  <2> QED BY <1>1, <1>7, <1>12, <2>2, <2>3, <2>4, Zenon DEF MadeOf
<1>15. ww \in Seq(Seq(Bytes))
  <2>1. PICK Q : Q = Seq(Bytes)
    OBVIOUS
  <2>2. ww \in [1 .. n -> Q]
    <3>1. \A i \in 1 .. n : ww[i] \in Q
      BY <1>4, <1>6, <2>1, InertBytes, Zenon
    <3> QED BY <1>6, <3>1
  <2> QED BY <1>1, <2>1, <2>2, IsSequence
<1>16. FlattenSeq(pp) = FlattenSeq(ww)
  <2>1. text = BytesOf(units)
    BY <1>8
  <2>2. pp \in Seq(Seq(Bytes))
    BY <1>12
  <2> QED BY <1>0, <1>9, <1>14, <1>15, <2>1, <2>2, UnitsFlatten
<1> QED BY <1>1, <1>2, <1>5, <1>6, <1>7, <1>13, <1>16, Zenon

LEMMA ContentIsRead ==
    ASSUME NEW units, IsReadable(units)
    PROVE  PageContent(units) \in Seq(Unmarked) /\ Read(PageContent(units)) = ShownOf(units)
<1>0. IsText(units)
  BY Zenon DEF IsReadable
<1>1. PICK n, ww : n = Len(units) /\ n \in Nat /\ DOMAIN units = 1 .. n /\ ww = PagePieces(units)
  BY <1>0, SensesType, Zenon
<1>2. ww \in Seq(Seq(Unmarked)) /\ Len(ww) = n /\ \A i \in 1 .. n : ww[i] = PagePiece(units[i])
  BY <1>1, ContentFlattens, Zenon
<1>3. PageContent(units) = FlattenSeq(ww)
  BY <1>1, ContentFlattens, Zenon
<1>4. PageContent(units) \in Seq(Unmarked)
  BY <1>2, <1>3, FlattenType, Zenon
<1>5. PICK shown : shown = [i \in DOMAIN units |-> units[i].shown]
  OBVIOUS
<1>6. \A i \in 1 .. n : shown[i] = units[i].shown /\ shown[i] \in Seq(Nat)
  <2>1. ASSUME NEW i \in 1 .. n PROVE units[i].shown \in Seq(Nat)
    BY <1>0, <1>1, UnitOrCutOff, Zenon
  <2> QED BY <1>1, <1>5, <2>1
<1>7. shown \in Seq(Seq(Nat)) /\ Len(shown) = n
  <2>1. PICK R : R = Seq(Nat)
    OBVIOUS
  <2>2. shown \in [1 .. n -> R]
    BY <1>1, <1>5, <1>6, <2>1
  <2>3. shown \in Seq(R)
    BY <1>1, <2>2, IsSequence
  <2> QED BY <1>1, <2>1, <2>2, <2>3
<1>8. ww \in Seq(Seq(Bytes))
  <2>1. PICK Q, I : Q = Seq(Bytes) /\ I = Seq(Unmarked)
    OBVIOUS
  <2>2. \A x \in I : x \in Q
    BY <2>1, InertBytes, Zenon
  <2>3. ww \in Seq(I)
    BY <1>2, <2>1, Zenon
  <2>4. ww \in Seq(Q)
    BY <2>2, <2>3
  <2> QED BY <2>1, <2>4, Zenon
<1>9. \A i \in 1 .. Len(ww) : Shows(ww[i], shown[i])
  BY <1>1, <1>2, <1>6, UnitShows, Zenon
<1>10. Read(FlattenSeq(ww)) = FlattenSeq(shown)
  <2>1. Len(shown) = Len(ww)
    BY <1>2, <1>7, Zenon
  <2> QED BY <1>7, <1>8, <1>9, <2>1, AllShown, Zenon
<1> QED BY <1>3, <1>4, <1>5, <1>10, Zenon DEF ShownOf

-----------------------------------------------------------------------------
(* The browser finds the contents between the markup.                      *)
CellsAt(page, w, n, m) ==
    /\ page \in Seq(Bytes) /\ n \in Nat /\ w \in [1 .. n -> Seq(Unmarked)]
    /\ m \in [0 .. n -> Nat] /\ m[0] = 1 /\ Len(page) = m[n]
    /\ \A j \in 0 .. n : page[m[j]] = LT
    /\ \A j \in 1 .. n : /\ m[j] = m[j - 1] + Len(w[j]) + 1
                         /\ \A k \in 1 .. Len(w[j]) : page[m[j - 1] + k] = w[j][k]

LEMMA MarksAscend ==
    ASSUME NEW page, NEW w, NEW n, NEW m, CellsAt(page, w, n, m)
    PROVE  \A j \in 0 .. n : m[j] \in Nat /\ m[j] >= 1 /\ \A i \in 0 .. n : i < j => m[i] < m[j]
<1>1. n \in Nat /\ m \in [0 .. n -> Nat] /\ m[0] = 1
  BY DEF CellsAt
<1>2. ASSUME NEW j \in 1 .. n PROVE m[j - 1] < m[j] /\ m[j] \in Nat /\ m[j - 1] \in Nat
  <2>1. j - 1 \in 0 .. n /\ j \in 0 .. n
    BY <1>1
  <2>2. m[j] \in Nat /\ m[j - 1] \in Nat
    BY <1>1, <2>1
  <2>3. w[j] \in Seq(Unmarked) /\ m[j] = m[j - 1] + Len(w[j]) + 1
    BY DEF CellsAt
  <2>4. PICK l : l = Len(w[j]) /\ l \in Nat
    BY <2>3
  <2> QED BY <2>2, <2>3, <2>4
<1> DEFINE T == {j \in Nat : j <= n =>
                    m[j] >= 1 /\ \A i \in 0 .. n : i < j => m[i] < m[j]}
<1>3. 0 \in T
  BY <1>1
<1>4. ASSUME NEW j \in Nat, j \in T PROVE j + 1 \in T
  <2> SUFFICES ASSUME j + 1 <= n
               PROVE  m[j + 1] >= 1 /\ \A i \in 0 .. n : i < j + 1 => m[i] < m[j + 1]
    OBVIOUS
  <2>1. j + 1 \in 1 .. n /\ (j + 1) - 1 = j /\ j \in 0 .. n /\ j <= n
    BY <1>1
  <2>2. m[j] < m[j + 1] /\ m[j + 1] \in Nat /\ m[j] \in Nat
    BY <1>2, <2>1
  <2>3. m[j] >= 1 /\ \A i \in 0 .. n : i < j => m[i] < m[j]
    BY <1>4, <2>1
  <2>4. ASSUME NEW i \in 0 .. n, i < j + 1 PROVE m[i] < m[j + 1]
    <3>1. m[i] \in Nat /\ (i < j \/ i = j)
      BY <1>1, <2>4
    <3> QED BY <2>2, <2>3, <3>1
  <2> QED BY <2>2, <2>3, <2>4
<1>5. \A j \in 0 .. n : j \in T
  <2> HIDE DEF T
  <2>1. \A j \in 0 .. n : j \in Nat
    BY <1>1
  <2> QED BY <1>3, <1>4, <2>1, Induction
<1>6. \A j \in 0 .. n : j <= n /\ m[j] \in Nat
  BY <1>1
<1> QED BY <1>5, <1>6

Marks(page) == {i \in DOMAIN page : page[i] = LT}

LEMMA MarksAre ==
    ASSUME NEW page, NEW w, NEW n, NEW m, CellsAt(page, w, n, m)
    PROVE  Marks(page) = {m[j] : j \in 0 .. n}
<1>1. /\ page \in Seq(Bytes) /\ n \in Nat /\ w \in [1 .. n -> Seq(Unmarked)]
      /\ m \in [0 .. n -> Nat] /\ m[0] = 1 /\ Len(page) = m[n]
      /\ \A j \in 0 .. n : page[m[j]] = LT
  BY DEF CellsAt
<1>2. DOMAIN page = 1 .. m[n] /\ m[n] \in Nat
  BY <1>1
<1> DEFINE T == {j \in Nat : j <= n =>
                    \A p \in 1 .. m[j] : page[p] = LT => \E i \in 0 .. n : p = m[i]}
<1>3. 0 \in T
  <2>1. \A p \in 1 .. 1 : p = 1
    OBVIOUS
  <2>2. 0 \in 0 .. n
    BY <1>1
  <2> QED BY <1>1, <2>1, <2>2
<1>4. ASSUME NEW j \in Nat, j \in T PROVE j + 1 \in T
  <2> SUFFICES ASSUME j + 1 <= n, NEW p \in 1 .. m[j + 1], page[p] = LT
               PROVE  \E i \in 0 .. n : p = m[i]
    OBVIOUS
  <2>1. j + 1 \in 1 .. n /\ j + 1 \in 0 .. n /\ (j + 1) - 1 = j /\ j \in 0 .. n /\ j <= n
    BY <1>1
  <2>2. PICK x, l : x = w[j + 1] /\ l = Len(x)
    OBVIOUS
  <2>3. x \in Seq(Unmarked) /\ l \in Nat /\ m[j + 1] \in Nat /\ m[j] \in Nat
    BY <1>1, <2>1, <2>2
  <2>4. m[j + 1] = m[j] + l + 1 /\ \A k \in 1 .. l : page[m[j] + k] = x[k]
    <3>1. m[j + 1] = m[(j + 1) - 1] + Len(w[j + 1]) + 1
          /\ \A k \in 1 .. Len(w[j + 1]) : page[m[(j + 1) - 1] + k] = w[j + 1][k]
      BY <2>1, Zenon DEF CellsAt
    <3> QED BY <2>1, <2>2, <3>1, Zenon
  <2>5. CASE p <= m[j]
    <3>1. p \in 1 .. m[j]
      BY <2>3, <2>5
    <3> QED BY <1>4, <2>1, <3>1
  <2>6. CASE p > m[j] /\ p < m[j + 1]
    <3>1. PICK k : k \in 1 .. l /\ p = m[j] + k
      <4>1. p - m[j] \in 1 .. l /\ p = m[j] + (p - m[j])
        BY <2>3, <2>4, <2>6
      <4> QED BY <4>1, Zenon
    <3>2. page[p] = x[k]
      BY <2>4, <3>1, Zenon
    <3>3. x[k] # LT
      BY <2>2, <2>3, <3>1, InertBytes, Zenon
    <3> QED BY <3>2, <3>3
  <2>7. CASE p = m[j + 1]
    BY <2>1, <2>7, Zenon
  <2> QED BY <2>3, <2>5, <2>6, <2>7
<1>5. \A p \in 1 .. m[n] : page[p] = LT => \E i \in 0 .. n : p = m[i]
  <2>1. n \in T
    <3> HIDE DEF T
    <3> QED BY <1>1, <1>3, <1>4, Induction
  <2>2. n <= n
    BY <1>1
  <2> QED BY <2>1, <2>2
<1>6. ASSUME NEW j \in 0 .. n PROVE m[j] \in 1 .. m[n]
  <2>1. m[j] \in Nat /\ m[j] >= 1 /\ (j < n => m[j] < m[n]) /\ (j < n \/ j = n)
    <3>1. n \in 0 .. n
      BY <1>1
    <3>2. j < n \/ j = n
      BY <1>1
    <3>3. m[j] \in Nat /\ m[j] >= 1 /\ \A i \in 0 .. n : j < i => m[j] < m[i]
      BY MarksAscend, Zenon
    <3> QED BY <3>1, <3>2, <3>3, Zenon
  <2> QED BY <1>2, <2>1
<1>7. ASSUME NEW p PROVE p \in Marks(page) <=> \E j \in 0 .. n : p = m[j]
  <2>1. p \in Marks(page) => \E j \in 0 .. n : p = m[j]
    BY <1>2, <1>5, Zenon DEF Marks
  <2>2. ASSUME NEW j \in 0 .. n, p = m[j] PROVE p \in Marks(page)
    BY <1>1, <1>2, <1>6, <2>2, Zenon DEF Marks
  <2> QED BY <2>1, <2>2, Zenon
<1> QED BY <1>7

LEMMA LeastIs ==
    ASSUME NEW T \in SUBSET Nat, NEW x \in T, \A y \in T : x <= y
    PROVE  Min(T) = x
<1>1. Min(T) \in T /\ Min(T) <= x
  BY MinIs
<1>2. x <= Min(T) /\ Min(T) \in Nat /\ x \in Nat
  BY <1>1
<1> QED BY <1>1, <1>2

LEMMA GreatestIs ==
    ASSUME NEW N \in Nat, NEW T, T \subseteq 0 .. N, NEW x \in T, \A y \in T : y <= x
    PROVE  Max(T) = x
<1>1. Max(T) \in T /\ x <= Max(T)
  <2>1. T # {}
    OBVIOUS
  <2> QED BY <2>1, MaxIs, Zenon
<1>2. PICK m : m = Max(T) /\ m \in T /\ x <= m
  BY <1>1, Zenon
<1>3. m <= x /\ m \in 0 .. N /\ x \in 0 .. N
  BY <1>2, Zenon
<1> QED BY <1>2, <1>3

NextMark(page, i) == Min({j \in Marks(page) : j > i})

InOrder(page, n, m) ==
    /\ Marks(page) # {} /\ Marks(page) \subseteq 1 .. m[n]
    /\ Min(Marks(page)) = 1 /\ Max(Marks(page)) = m[n]
    /\ \A j \in 1 .. n : NextMark(page, m[j - 1]) = m[j]

LEMMA MarksInOrder ==
    ASSUME NEW page, NEW w, NEW n, NEW m, CellsAt(page, w, n, m)
    PROVE  InOrder(page, n, m)
<1>0. n \in Nat /\ 0 \in 0 .. n /\ n \in 0 .. n /\ m[0] = 1
      /\ \A j \in 0 .. n : m[j] \in Nat /\ m[j] >= 1
  <2>1. n \in Nat /\ m[0] = 1
    BY Zenon DEF CellsAt
  <2>2. \A j \in 0 .. n : m[j] \in Nat /\ m[j] >= 1
    BY MarksAscend, Zenon
  <2> QED BY <2>1, <2>2
<1>1. \A p : p \in Marks(page) <=> \E j \in 0 .. n : p = m[j]
  BY MarksAre
<1>2. ASSUME NEW i \in 0 .. n, NEW j \in 0 .. n
      PROVE  (i < j => m[i] < m[j]) /\ (i <= j => m[i] <= m[j])
  <2>1. i < j => m[i] < m[j]
    BY MarksAscend, Zenon
  <2>2. m[i] \in Nat /\ m[j] \in Nat /\ (i <= j => i < j \/ i = j)
    BY <1>0
  <2> QED BY <2>1, <2>2
<1>3. m[0] \in Marks(page) /\ m[n] \in Marks(page)
  BY <1>0, <1>1, Zenon
<1>4. ASSUME NEW p \in Marks(page) PROVE p \in Nat /\ p \in 1 .. m[n] /\ m[0] <= p /\ p <= m[n]
  <2>1. PICK j \in 0 .. n : p = m[j]
    BY <1>1
  <2>2. 0 <= j /\ j <= n
    BY <1>0
  <2>3. m[0] <= m[j] /\ m[j] <= m[n]
    BY <1>0, <1>2, <2>2, Zenon
  <2> QED BY <1>0, <2>1, <2>3
<1>5. Min(Marks(page)) = 1
  <2>1. Marks(page) \in SUBSET Nat
    BY <1>4
  <2> QED BY <1>0, <1>3, <1>4, <2>1, LeastIs, Zenon
<1>6. Max(Marks(page)) = m[n]
  <2>1. Marks(page) \subseteq 0 .. m[n] /\ m[n] \in Nat
    BY <1>0, <1>4
  <2> QED BY <1>3, <1>4, <2>1, GreatestIs, Zenon
<1>7. ASSUME NEW j \in 1 .. n PROVE NextMark(page, m[j - 1]) = m[j]
  <2>1. PICK i : i = j - 1 /\ i \in 0 .. n /\ i < j /\ j \in 0 .. n
    BY <1>0
  <2> DEFINE T == {q \in Marks(page) : q > m[i]}
  <2>2. T \in SUBSET Nat
    BY <1>4
  <2>3. m[j] \in T
    <3>1. m[i] < m[j] /\ m[j] \in Marks(page)
      BY <1>1, <1>2, <2>1, Zenon
    <3> QED BY <1>0, <2>1, <3>1
  <2>4. ASSUME NEW q \in T PROVE m[j] <= q
    <3>1. PICK h \in 0 .. n : q = m[h]
      BY <1>1
    <3>2. m[h] > m[i] /\ m[h] \in Nat /\ m[i] \in Nat
      BY <1>0, <2>1, <3>1
    <3>3. ~(h <= i)
      <4>1. h <= i => m[h] <= m[i]
        BY <1>2, <2>1, Zenon
      <4> QED BY <3>2, <4>1
    <3>4. j <= h
      BY <1>0, <2>1, <3>3
    <3> QED BY <1>2, <2>1, <3>1, <3>4, Zenon
  <2>5. Min(T) = m[j]
    <3> HIDE DEF T
    <3> QED BY <2>2, <2>3, <2>4, LeastIs, Zenon
  <2> QED BY <2>1, <2>5, Zenon DEF NextMark
<1>8. Marks(page) \subseteq 1 .. m[n]
  BY <1>4
<1> QED BY <1>3, <1>5, <1>6, <1>7, <1>8, Zenon DEF InOrder

LEMMA CellsOf ==
    ASSUME NEW page, NEW w, NEW n, NEW m, CellsAt(page, w, n, m)
    PROVE  Cells(page) = w
<1>1. /\ page \in Seq(Bytes) /\ n \in Nat /\ w \in [1 .. n -> Seq(Unmarked)]
      /\ m \in [0 .. n -> Nat] /\ m[0] = 1 /\ Len(page) = m[n]
  BY DEF CellsAt
<1>2. /\ Marks(page) # {} /\ Marks(page) \subseteq 1 .. m[n]
      /\ Min(Marks(page)) = 1 /\ Max(Marks(page)) = m[n]
      /\ \A j \in 1 .. n : NextMark(page, m[j - 1]) = m[j]
  <2>1. InOrder(page, n, m)
    BY MarksInOrder, Zenon
  <2> QED BY <2>1, Zenon DEF InOrder
<1> DEFINE D    == {i \in DOMAIN page : page[i] = LT}
           E(f, i) == IF i = Max(D) THEN <<>>
                      ELSE <<SubSeq(page, i + 1, Min({j \in D : j > i}) - 1)>>
                           \o f[Min({j \in D : j > i})]
           base == {Max(D)}
           next == [i \in D |-> IF i = Max(D) THEN i ELSE NextMark(page, i)]
           head == [i \in D |-> <<SubSeq(page, i + 1, NextMark(page, i) - 1)>>]
           rank == [i \in D |-> m[n] - i]
           S    == Seq(Bytes)
           solution == CHOOSE f : f = [i \in D |-> E(f, i)]
<1>3. D = Marks(page) /\ D # {} /\ D \subseteq 1 .. m[n] /\ Min(D) = 1 /\ Max(D) = m[n]
      /\ base = {m[n]} /\ m[n] \in Nat
  <2>1. D = Marks(page)
    BY Zenon DEF Marks
  <2>2. m[n] \in Nat
    BY <1>1
  <2> QED BY <1>2, <2>1, <2>2, Zenon
<1>4. Cells(page) = solution[1]
  <2>1. Cells(page) = IF D = {} THEN <<>> ELSE solution[Min(D)]
    BY Zenon DEF Cells
  <2> QED BY <1>3, <2>1, Zenon
<1>5. \A f, i : E(f, i) = IF i = m[n] THEN <<>>
                          ELSE <<SubSeq(page, i + 1, NextMark(page, i) - 1)>> \o f[NextMark(page, i)]
  <2>1. \A i : Min({j \in D : j > i}) = NextMark(page, i)
    BY <1>3, Zenon DEF NextMark
  <2> QED BY <1>3, <2>1, Zenon
<1>6. \A i : i \in D <=> \E j \in 0 .. n : i = m[j]
  <2>1. Marks(page) = {m[j] : j \in 0 .. n}
    BY MarksAre
  <2>2. \A i : i \in Marks(page) <=> \E j \in 0 .. n : i = m[j]
    BY <2>1
  <2> HIDE DEF D
  <2> QED BY <1>3, <2>2, Zenon
<1>7. ASSUME NEW i \in D, i \notin base
      PROVE  \E j \in 1 .. n : i = m[j - 1] /\ NextMark(page, i) = m[j]
  <2>1. PICK h \in 0 .. n : i = m[h]
    BY <1>6
  <2>2. h # n
    BY <1>3, <1>7, <2>1
  <2>3. h + 1 \in 1 .. n /\ (h + 1) - 1 = h
    BY <1>1, <2>2
  <2> QED BY <1>2, <2>1, <2>3
<1>8. ASSUME NEW i \in D, i \notin base
      PROVE  /\ next[i] = NextMark(page, i) /\ head[i] = <<SubSeq(page, i + 1, NextMark(page, i) - 1)>>
             /\ head[i] \in Seq(S) /\ next[i] \in D /\ next[i] > i
  <2>1. i # m[n] /\ i # Max(D)
    BY <1>3, <1>8
  <2>2. next[i] = NextMark(page, i) /\ head[i] = <<SubSeq(page, i + 1, NextMark(page, i) - 1)>>
    BY <2>1, Zenon
  <2>3. PICK j \in 1 .. n : i = m[j - 1] /\ NextMark(page, i) = m[j]
    BY <1>7, <1>8
  <2>4. j \in 0 .. n /\ j - 1 \in 0 .. n /\ j - 1 < j
    BY <1>1
  <2>5. m[j] \in D /\ m[j] > m[j - 1] /\ m[j] \in Nat /\ m[j - 1] \in Nat
    <3>1. m[j] \in D
      BY <1>6, <2>4, Zenon
    <3>2. m[j - 1] < m[j]
      BY <2>4, MarksAscend, Zenon
    <3> HIDE DEF D
    <3> QED BY <1>1, <2>4, <3>1, <3>2
  <2>6. SubSeq(page, i + 1, NextMark(page, i) - 1) \in S
    BY <1>1, <2>3, <2>5
  <2> HIDE DEF D, S, next, head
  <2> QED BY <2>2, <2>3, <2>5, <2>6
<1>9. Descends(D, base, next, rank)
  <2>1. \A i \in D : next[i] \in D
    <3>1. \A i \in D : i \in base => next[i] = i
      BY <1>3, Zenon
    <3> QED BY <1>8, <3>1, Zenon
  <2>2. next \in [D -> D]
    BY <2>1
  <2>3. \A i \in D : i \in Nat /\ i <= m[n]
    <3> HIDE DEF D
    <3> QED BY <1>3
  <2>4. rank \in [D -> Nat] /\ \A i \in D : rank[i] = m[n] - i
    <3>1. m[n] \in Nat
      BY <1>3
    <3> HIDE DEF D
    <3> QED BY <2>3, <3>1
  <2>5. \A i \in D \ base : rank[next[i]] < rank[i]
    <3>1. ASSUME NEW i \in D \ base PROVE rank[next[i]] < rank[i]
      <4>1. PICK j : j = next[i] /\ j \in D /\ j > i
        BY <1>8
      <4>2. m[n] \in Nat
        BY <1>3
      <4> HIDE DEF D, base, next, rank
      <4> QED BY <2>3, <2>4, <4>1, <4>2
    <3> QED BY <3>1
  <2> HIDE DEF D, base, next, rank
  <2> QED BY <2>2, <2>4, <2>5 DEF Descends
<1>10. m[n] + 1 \in Nat /\ \A i \in D : rank[i] < m[n] + 1
  <2>1. m[n] \in Nat
    BY <1>3
  <2>2. ASSUME NEW i \in D PROVE rank[i] < m[n] + 1
    <3>1. rank[i] = m[n] - i
      OBVIOUS
    <3>2. i \in 1 .. m[n]
      BY <1>3, Zenon
    <3> QED BY <2>1, <3>1, <3>2
  <2> QED BY <2>1, <2>2
<1>11. \A i \in D : i \notin base => head[i] \in Seq(S)
  BY <1>8
<1>12. \A f : Unfolds(f, D, base, next, head) <=> f = [i \in D |-> E(f, i)]
  <2>1. ASSUME NEW f, NEW i \in D
        PROVE  (IF i \in base THEN <<>> ELSE head[i] \o f[next[i]]) = E(f, i)
    <3>1. CASE i \in base
      <4>1. i = m[n]
        BY <1>3, <3>1
      <4> QED BY <1>5, <3>1, <4>1, Zenon
    <3>2. CASE i \notin base
      <4>1. i # m[n]
        BY <1>3, <3>2
      <4>2. E(f, i) = <<SubSeq(page, i + 1, NextMark(page, i) - 1)>> \o f[NextMark(page, i)]
        BY <1>5, <4>1, Zenon
      <4>3. head[i] = <<SubSeq(page, i + 1, NextMark(page, i) - 1)>> /\ next[i] = NextMark(page, i)
        BY <1>8, <3>2, Zenon
      <4> HIDE DEF D, base, head, next, E
      <4> QED BY <3>2, <4>2, <4>3, Zenon
    <3> QED BY <3>1, <3>2
  <2> HIDE DEF D, base, next, head, E
  <2>2. ASSUME NEW f PROVE Unfolds(f, D, base, next, head) <=> f = [i \in D |-> E(f, i)]
    <3>1. [i \in D |-> IF i \in base THEN <<>> ELSE head[i] \o f[next[i]]] = [i \in D |-> E(f, i)]
      BY <2>1, Zenon
    <3> QED BY <3>1, Zenon DEF Unfolds
  <2> QED BY <2>2, Zenon
<1>13. base \subseteq D
  BY <1>1, <1>3, <1>6
<1>14. \E f : Unfolds(f, D, base, next, head)
  <2> HIDE DEF D, base, next, head, rank, S
  <2> QED BY <1>9, <1>10, <1>11, <1>13, UnfoldIs
<1>15. Unfolds(solution, D, base, next, head)
  <2> HIDE DEF D, base, next, head, E
  <2>1. \E f : f = [i \in D |-> E(f, i)]
    BY <1>12, <1>14, Zenon
  <2>2. solution = [i \in D |-> E(solution, i)]
    BY <2>1, Zenon
  <2> QED BY <1>12, <2>2, Zenon
<1> HIDE DEF solution
<1>16. \A i \in D : solution[i] = IF i \in base THEN <<>> ELSE head[i] \o solution[next[i]]
  <2> HIDE DEF D, base, next, head
  <2> QED BY <1>15 DEF Unfolds
<1> DEFINE g  == [j \in 0 .. n |-> solution[m[j]]]
           ww == [j \in 1 .. n |-> <<w[j]>>]
<1>17. g[n] = <<>>
  <2>1. n \in 0 .. n
    BY <1>1
  <2>2. solution[m[n]] = <<>>
    <3>1. m[n] \in D /\ m[n] \in base
      BY <1>3, <1>6, <2>1, Zenon
    <3> HIDE DEF D, base, next, head
    <3> QED BY <1>16, <3>1, Zenon
  <2> QED BY <2>1, <2>2, Zenon
<1>18. ASSUME NEW j \in 1 .. n PROVE g[j - 1] = <<w[j]>> \o g[j]
  <2>1. PICK i, k, h : i = m[j - 1] /\ k = m[j] /\ h = j - 1
    OBVIOUS
  <2>2. h \in 0 .. n /\ j \in 0 .. n /\ h < j /\ n \in 0 .. n
    BY <1>1, <2>1
  <2>3. i < k
    BY <2>1, <2>2, MarksAscend, Zenon
  <2>4. i \in Nat /\ k \in Nat /\ m[n] \in Nat
    BY <1>1, <2>1, <2>2
  <2>5. k <= m[n]
    <3>1. j < n => k < m[n]
      BY <2>1, <2>2, MarksAscend, Zenon
    <3> QED BY <1>1, <2>1, <2>4, <3>1
  <2>6. i \in D /\ i \notin base
    <3>1. i # m[n]
      BY <2>3, <2>4, <2>5
    <3>2. i \in D
      BY <1>6, <2>1, <2>2, Zenon
    <3> HIDE DEF D
    <3> QED BY <1>3, <3>1, <3>2
  <2>7. NextMark(page, i) = k
    BY <1>2, <2>1, Zenon
  <2>8. SubSeq(page, i + 1, k - 1) = w[j]
    <3>1. PICK x, l : x = w[j] /\ l = Len(x)
      OBVIOUS
    <3>2. x \in Seq(Unmarked) /\ l \in Nat
      BY <1>1, <3>1
    <3>3. k = i + l + 1 /\ \A q \in 1 .. l : page[i + q] = x[q]
      BY <2>1, <3>1, Zenon DEF CellsAt
    <3>4. i + l <= Len(page) /\ k - 1 = i + l
      BY <1>1, <2>4, <2>5, <3>2, <3>3
    <3>5. IsPart(page, i, l, Bytes, SubSeq(page, i + 1, i + l))
      BY <1>1, <2>4, <3>2, <3>4, PartIs, Zenon
    <3>6. PICK y : y = SubSeq(page, i + 1, i + l)
      OBVIOUS
    <3>7. y \in Seq(Bytes) /\ Len(y) = l /\ \A q \in 1 .. l : y[q] = page[i + q]
      BY <3>5, <3>6 DEF IsPart
    <3>8. x \in Seq(Bytes)
      BY <3>2, InertBytes
    <3>9. y = x
      BY <3>1, <3>3, <3>7, <3>8, SeqEqual
    <3> QED BY <3>1, <3>4, <3>6, <3>9
  <2>9. solution[i] = <<w[j]>> \o solution[k]
    <3>1. solution[i] = head[i] \o solution[next[i]]
      <4> HIDE DEF D, base, next, head
      <4> QED BY <1>16, <2>6, Zenon
    <3>2. head[i] = <<w[j]>> /\ next[i] = k
      BY <1>8, <2>6, <2>7, <2>8, Zenon
    <3> HIDE DEF D, base, next, head
    <3> QED BY <3>1, <3>2, Zenon
  <2>10. g[h] = solution[i] /\ g[j] = solution[k]
    BY <2>1, <2>2, Zenon
  <2> HIDE DEF g
  <2> QED BY <2>1, <2>9, <2>10, Zenon
<1>19. ww \in Seq(Seq(S)) /\ Len(ww) = n /\ w \in Seq(S) /\ Len(w) = n
  <2>1. ASSUME NEW j \in 1 .. n PROVE w[j] \in S
    BY <1>1, InertBytes
  <2> HIDE DEF S
  <2>2. w \in [1 .. n -> S]
    BY <1>1, <2>1
  <2>3. ww \in [1 .. n -> Seq(S)]
    BY <2>1
  <2>4. Len(w) = n /\ Len(ww) = n
    BY <1>1, <2>2, <2>3
  <2> QED BY <1>1, <2>2, <2>3, <2>4, IsSequence, Zenon
<1>20. g[0] = FlattenSeq(ww)
  <2>1. \A j \in 1 .. n : g[j - 1] = ww[j] \o g[j]
    <3>1. \A j \in 1 .. n : ww[j] = <<w[j]>>
      BY Zenon
    <3> HIDE DEF g, ww
    <3> QED BY <1>18, <3>1, Zenon
  <2> HIDE DEF g, ww, S
  <2> QED BY <1>1, <1>17, <1>19, <2>1, WalkIs, Zenon
<1>21. FlattenSeq(ww) = w
  <2>1. FlattenSeq([i \in 1 .. Len(w) |-> <<w[i]>>]) = w
    <3> HIDE DEF S
    <3> QED BY <1>19, FlattenSingles, Zenon
  <2> QED BY <1>19, <2>1, Zenon
<1>22. g[0] = solution[1]
  BY <1>1
<1> HIDE DEF g, ww
<1> QED BY <1>4, <1>20, <1>21, <1>22, Zenon

(* What is true of the pieces of two sequences, and of what is put         *)
(* together from two pairs, is true of the whole.                          *)
LEMMA FlattenRelated ==
    ASSUME NEW S, NEW T, NEW ss \in Seq(Seq(S)), NEW tt \in Seq(Seq(T)), Len(ss) = Len(tt),
           NEW R, <<<<>>, <<>>>> \in R,
           \A a, c \in Seq(S) : \A b, d \in Seq(T) :
              <<a, b>> \in R /\ <<c, d>> \in R => <<a \o c, b \o d>> \in R,
           \A i \in 1 .. Len(ss) : <<ss[i], tt[i]>> \in R
    PROVE  <<FlattenSeq(ss), FlattenSeq(tt)>> \in R
<1>1. PICK f : Flattens(f, ss, S) /\ FlattenSeq(ss) = f[Len(ss)]
  BY FlattenIs, Zenon
<1>2. PICK g : Flattens(g, tt, T) /\ FlattenSeq(tt) = g[Len(tt)]
  BY FlattenIs, Zenon
<1>3. PICK n : n = Len(ss) /\ n = Len(tt) /\ n \in Nat
  OBVIOUS
<1>4. f \in [0 .. n -> Seq(S)] /\ f[0] = <<>> /\ \A i \in 1 .. n : f[i] = f[i - 1] \o ss[i]
  BY <1>1, <1>3, Zenon DEF Flattens
<1>5. g \in [0 .. n -> Seq(T)] /\ g[0] = <<>> /\ \A i \in 1 .. n : g[i] = g[i - 1] \o tt[i]
  BY <1>2, <1>3, Zenon DEF Flattens
<1> DEFINE P == {k \in Nat : k <= n => <<f[k], g[k]>> \in R}
<1>6. 0 \in P
  BY <1>4, <1>5
<1>7. ASSUME NEW k \in Nat, k \in P PROVE k + 1 \in P
  <2> SUFFICES ASSUME k + 1 <= n PROVE <<f[k + 1], g[k + 1]>> \in R
    OBVIOUS
  <2>1. PICK i : i = k + 1 /\ i \in 1 .. n /\ i - 1 = k /\ k \in 0 .. n /\ k <= n
    BY <1>3
  <2>2. f[k] \in Seq(S) /\ g[k] \in Seq(T)
    BY <1>4, <1>5, <2>1, Zenon
  <2>3. ss[i] \in Seq(S) /\ tt[i] \in Seq(T)
    <3>1. i \in 1 .. Len(ss) /\ i \in 1 .. Len(tt)
      BY <1>3, <2>1, Zenon
    <3>2. PICK A : A = Seq(S)
      OBVIOUS
    <3>3. PICK B : B = Seq(T)
      OBVIOUS
    <3>4. ss[i] \in A
      BY <3>1, <3>2, Element, Zenon
    <3>5. tt[i] \in B
      BY <3>1, <3>3, Element, Zenon
    <3> QED BY <3>2, <3>3, <3>4, <3>5, Zenon
  <2>4. <<f[k], g[k]>> \in R
    BY <1>7, <2>1
  <2>5. <<ss[i], tt[i]>> \in R
    BY <1>3, <2>1, Zenon
  <2>6. f[i] = f[k] \o ss[i] /\ g[i] = g[k] \o tt[i]
    BY <1>4, <1>5, <2>1, Zenon
  <2>7. <<f[k] \o ss[i], g[k] \o tt[i]>> \in R
    BY <2>2, <2>3, <2>4, <2>5, Zenon
  <2> QED BY <2>1, <2>6, <2>7, Zenon
<1>8. n \in P
  <2> HIDE DEF P
  <2> QED BY <1>3, <1>6, <1>7, Induction
<1>9. <<f[n], g[n]>> \in R
  <2>1. n <= n
    BY <1>3
  <2> QED BY <1>8, <2>1
<1> QED BY <1>1, <1>2, <1>3, <1>9, Zenon

-----------------------------------------------------------------------------
(* The uses of a page and the cells a browser is to show for them: a piece *)
(* of markup before each content.                                          *)
Tells(use, cell) ==
    \E units : IsReadable(units) /\ use = Content(BytesOf(units)) /\ cell = ShownOf(units)

Told(uses, cells) ==
    /\ uses \in Seq(Uses) /\ cells \in Seq(Seq(Nat)) /\ Len(uses) = 2 * Len(cells)
    /\ \A j \in 1 .. Len(cells) : uses[2 * j - 1] = Markup /\ Tells(uses[2 * j], cells[j])

Joined(s, t, w) ==
    /\ Len(w) = Len(s) + Len(t)
    /\ \A k \in 1 .. Len(s) : w[k] = s[k]
    /\ \A k \in 1 .. Len(t) : w[Len(s) + k] = t[k]

LEMMA JoinedIs ==
    ASSUME NEW S, NEW s \in Seq(S), NEW t \in Seq(S)
    PROVE  Joined(s, t, s \o t)
BY DEF Joined

LEMMA ToldJoin ==
    ASSUME NEW u, NEW c, Told(u, c), NEW v, NEW d, Told(v, d)
    PROVE  Told(u \o v, c \o d)
<1>1. PICK C : C = Seq(Nat)
  OBVIOUS
<1>2. PICK m, n : m = Len(c) /\ n = Len(d)
  OBVIOUS
<1>3. /\ u \in Seq(Uses) /\ c \in Seq(C) /\ Len(u) = 2 * m /\ m \in Nat
      /\ v \in Seq(Uses) /\ d \in Seq(C) /\ Len(v) = 2 * n /\ n \in Nat
  BY <1>1, <1>2 DEF Told
<1>4. PICK w, e : w = u \o v /\ e = c \o d
  OBVIOUS
<1>7. Joined(u, v, w) /\ Joined(c, d, e)
  BY <1>3, <1>4, JoinedIs, Zenon
<1>5. w \in Seq(Uses) /\ e \in Seq(C) /\ Len(w) = 2 * (m + n) /\ Len(e) = m + n
  <2>1. w \in Seq(Uses) /\ e \in Seq(C)
    BY <1>3, <1>4, Concat, Zenon
  <2> QED BY <1>2, <1>3, <1>7, <2>1 DEF Joined
<1>6. ASSUME NEW j \in 1 .. m + n PROVE w[2 * j - 1] = Markup /\ Tells(w[2 * j], e[j])
  <2>1. CASE j \in 1 .. m
    <3>1. 2 * j - 1 \in 1 .. Len(u) /\ 2 * j \in 1 .. Len(u) /\ j \in 1 .. Len(c)
      BY <1>2, <1>3, <2>1
    <3>2. w[2 * j - 1] = u[2 * j - 1] /\ w[2 * j] = u[2 * j] /\ e[j] = c[j]
      BY <1>7, <3>1, Zenon DEF Joined
    <3>3. u[2 * j - 1] = Markup /\ Tells(u[2 * j], c[j])
      BY <3>1, Zenon DEF Told
    <3> QED BY <3>2, <3>3, Zenon
  <2>2. CASE j \notin 1 .. m
    <3>1. j - m \in 1 .. n /\ j = m + (j - m)
      BY <1>3, <2>2
    <3>2. PICK i : i = j - m
      OBVIOUS
    <3>3. i \in 1 .. n /\ i \in 1 .. Len(d) /\ j = m + i
      BY <1>2, <3>1, <3>2
    <3>4. 2 * i - 1 \in 1 .. Len(v) /\ 2 * i \in 1 .. Len(v)
          /\ 2 * j - 1 = Len(u) + (2 * i - 1) /\ 2 * j = Len(u) + 2 * i /\ j = Len(c) + i
      BY <1>2, <1>3, <3>3
    <3>5. w[2 * j - 1] = v[2 * i - 1] /\ w[2 * j] = v[2 * i] /\ e[j] = d[i]
      BY <1>7, <3>3, <3>4, Zenon DEF Joined
    <3>6. v[2 * i - 1] = Markup /\ Tells(v[2 * i], d[i])
      BY <3>3, Zenon DEF Told
    <3> QED BY <3>5, <3>6, Zenon
  <2> QED BY <2>1, <2>2
<1>8. Told(w, e)
  BY <1>1, <1>5, <1>6 DEF Told
<1> QED BY <1>4, <1>8

LEMMA ToldNothing == Told(<<>>, <<>>)
BY DEF Told

(* A row of a table.                                                       *)
LEMMA ToldRow ==
    ASSUME NEW key, IsReadable(key), NEW value, IsReadable(value)
    PROVE  Told(Row(BytesOf(key), BytesOf(value)), <<ShownOf(key), ShownOf(value)>>)
<1>1. \A units : IsReadable(units) => BytesOf(units) \in Seq(Bytes) /\ ShownOf(units) \in Seq(Nat)
  <2> SUFFICES ASSUME NEW units, IsReadable(units)
               PROVE  BytesOf(units) \in Seq(Bytes) /\ ShownOf(units) \in Seq(Nat)
    BY Zenon
  <2>1. IsText(units)
    BY DEF IsReadable
  <2>2. BytesOf(units) \in Seq(Bytes)
    BY <2>1, BytesOfType, Zenon
  <2>3. PICK C : C = Seq(Nat)
    OBVIOUS
  <2>4. [i \in DOMAIN units |-> units[i].shown] \in Seq(C)
    <3>1. Len(units) \in Nat /\ DOMAIN units = 1 .. Len(units)
      BY <2>1, SensesType, Zenon
    <3>2. \A i \in 1 .. Len(units) : units[i].shown \in C
      BY <2>1, <2>3, UnitOrCutOff, Zenon
    <3>3. [i \in 1 .. Len(units) |-> units[i].shown] \in [1 .. Len(units) -> C]
      BY <3>2
    <3> QED BY <3>1, <3>3, IsSequence, Zenon
  <2>5. ShownOf(units) \in Seq(Nat)
    BY <2>3, <2>4, FlattenType, Zenon DEF ShownOf
  <2> QED BY <2>2, <2>5
<1>2. PICK a, b, x, y : /\ a = BytesOf(key) /\ b = BytesOf(value)
                        /\ x = ShownOf(key) /\ y = ShownOf(value)
  BY Zenon
<1>3. a \in Seq(Bytes) /\ b \in Seq(Bytes) /\ x \in Seq(Nat) /\ y \in Seq(Nat)
  BY <1>1, <1>2, Zenon
<1>4. Row(a, b) \in Seq(Uses)
  BY <1>3, RowType, Zenon
<1>5. <<x, y>> \in Seq(Seq(Nat)) /\ Len(<<x, y>>) = 2
  BY <1>3
<1>6. PICK r : r = Row(a, b)
  OBVIOUS
<1>7. Len(r) = 4 /\ r[1] = Markup /\ r[2] = Content(a) /\ r[3] = Markup /\ r[4] = Content(b)
  BY <1>6 DEF Row
<1>8. Tells(r[2], x) /\ Tells(r[4], y)
  BY <1>2, <1>7, Zenon DEF Tells
<1>9. ASSUME NEW j \in 1 .. 2 PROVE r[2 * j - 1] = Markup /\ Tells(r[2 * j], <<x, y>>[j])
  <2>1. j = 1 \/ j = 2
    OBVIOUS
  <2>2. <<x, y>>[1] = x /\ <<x, y>>[2] = y /\ 2 * 1 - 1 = 1 /\ 2 * 1 = 2 /\ 2 * 2 - 1 = 3 /\ 2 * 2 = 4
    OBVIOUS
  <2> QED BY <1>7, <1>8, <2>1, <2>2, Zenon
<1>10. Told(r, <<x, y>>)
  BY <1>4, <1>5, <1>6, <1>7, <1>9 DEF Told
<1> QED BY <1>2, <1>6, <1>10

(* Markup goes to the page as it is.                                       *)
LEMMA MarkupIs == As("HTML", "bytes", <<LT>>) = <<LT>>
<1>1. PICK text : text = <<LT>>
  OBVIOUS
<1>2. text \in Seq(Bytes) /\ Len(text) = 1 /\ text[1] = 60
  BY <1>1 DEF LT, Bytes
<1>3. PICK d : Decodes(d, text)
  BY <1>2, Utf8DecodeIs, Zenon
<1>4. d[1] = Decoding(60, 0, TRUE)
  <2>1. d[0] = ConvertState /\ d[1] = Utf8To32(text[1], d[1 - 1])
    BY <1>2, <1>3 DEF Decodes
  <2>2. d[0] = Decoding(0, 0, FALSE) /\ d[1] = Utf8To32(60, d[0])
    <3>1. 1 - 1 = 0
      OBVIOUS
    <3> QED BY <1>2, <2>1, <3>1, Zenon DEF ConvertState
  <2> QED BY <2>2 DEF Utf8To32, Decoding
<1>5. PieceAt("HTML", d[1], text[1]) = text
  <2>1. Glyph(d[1]) = 60
    BY <1>4 DEF Glyph, Decoding
  <2> QED BY <1>1, <1>2, <2>1 DEF PieceAt, Piece, EscapesBrackets, LT, GT, AMP
<1>6. Pieces("HTML", d, text) = <<text>>
  <2>1. Pieces("HTML", d, text) = [i \in 1 .. 1 |-> PieceAt("HTML", d[i], text[i])]
    BY <1>2, Zenon DEF Pieces
  <2> QED BY <1>5, <2>1
<1>7. "HTML" \in Formats
  BY DEF Formats
<1>8. As("HTML", "bytes", text) = FlattenSeq(<<text>>)
  BY <1>2, <1>3, <1>6, <1>7, ConvertedPieces, Zenon DEF As
<1>9. FlattenSeq(<<text>>) = text
  BY <1>2, FlattenOne, Zenon
<1> QED BY <1>1, <1>8, <1>9

(* What becomes of a use that is markup, and of one that is content.       *)
LEMMA MarkupSaid ==
    ASSUME NEW text \in Meanings("HTML", Markup)
    PROVE  text = <<LT>>
<1>1. Markup.op = "markup"
  BY DEF Markup
<1>2. Meanings("HTML", Markup) = {As("HTML", "bytes", <<LT>>)}
  BY <1>1 DEF Meanings
<1> QED BY <1>2, MarkupIs

LEMMA ContentSaid ==
    ASSUME NEW use, NEW cell, Tells(use, cell), NEW text \in Meanings("HTML", use)
    PROVE  text \in Seq(Unmarked) /\ Read(text) = cell
<1>1. PICK units : IsReadable(units) /\ use = Content(BytesOf(units)) /\ cell = ShownOf(units)
  BY Zenon DEF Tells
<1>2. use.op = "content" /\ use.text = BytesOf(units)
  BY <1>1 DEF Content
<1>3. ContentOf("HTML") = "HTMLContent"
  BY DEF ContentOf
<1>4. Meanings("HTML", use) = {As(ContentOf("HTML"), "bytes", use.text)}
  <2>1. use.op # "markup"
    BY <1>2
  <2> QED BY <1>2, <2>1, Zenon DEF Meanings
<1>5. text = PageContent(units)
  BY <1>2, <1>3, <1>4, Zenon DEF PageContent
<1> QED BY <1>1, <1>5, ContentIsRead, Zenon

(* The browser shows the cells, whatever is written for the uses.          *)
LEMMA PageSaid ==
    ASSUME NEW uses, NEW cells, Told(uses, cells),
           NEW said, Means("HTML", uses \o <<Markup>>, said)
    PROVE  LET found == Cells(FlattenSeq(said))
           IN  [i \in DOMAIN found |-> Read(found[i])] = cells
<1>1. PICK n, C : n = Len(cells) /\ C = Seq(Nat)
  OBVIOUS
<1>2. uses \in Seq(Uses) /\ Len(uses) = 2 * n /\ n \in Nat /\ cells \in Seq(C)
  BY <1>1 DEF Told
<1>3. PICK done : done = uses \o <<Markup>>
  OBVIOUS
<1>4. /\ done \in Seq(Uses) /\ said \in Seq(Seq(Bytes)) /\ Len(said) = Len(done)
      /\ \A i \in 1 .. Len(done) : said[i] \in Meanings("HTML", done[i])
  BY <1>3, Zenon DEF Means
<1>5. Joined(uses, <<Markup>>, done)
  <2>1. <<Markup>> \in Seq(Uses)
    BY DEF Uses
  <2> QED BY <1>2, <1>3, <2>1, JoinedIs, Zenon
<1>6. Len(done) = 2 * n + 1 /\ Len(said) = 2 * n + 1
  <2>1. Len(<<Markup>>) = 1
    OBVIOUS
  <2>2. Len(done) = Len(uses) + Len(<<Markup>>)
    BY <1>5, Zenon DEF Joined
  <2> QED BY <1>2, <1>4, <2>1, <2>2
<1>7. ASSUME NEW j \in 0 .. n PROVE said[2 * j + 1] = <<LT>>
  <2>1. 2 * j + 1 \in 1 .. 2 * n + 1
    BY <1>2
  <2>2. done[2 * j + 1] = Markup
    <3>1. CASE j < n
      <4>1. PICK i : i = j + 1
        OBVIOUS
      <4>2. i \in 1 .. n /\ 2 * i - 1 = 2 * j + 1 /\ 2 * i - 1 \in 1 .. Len(uses)
        BY <1>2, <3>1, <4>1
      <4>3. uses[2 * i - 1] = Markup
        BY <1>1, <4>2, Zenon DEF Told
      <4>4. done[2 * i - 1] = uses[2 * i - 1]
        BY <1>5, <4>2, Zenon DEF Joined
      <4> QED BY <4>2, <4>3, <4>4, Zenon
    <3>2. CASE j = n
      <4>1. 1 \in 1 .. Len(<<Markup>>) /\ <<Markup>>[1] = Markup
        OBVIOUS
      <4>2. done[Len(uses) + 1] = Markup
        BY <1>5, <4>1, Zenon DEF Joined
      <4> QED BY <1>2, <3>2, <4>2, Zenon
    <3> QED BY <1>2, <3>1, <3>2
  <2>3. said[2 * j + 1] \in Meanings("HTML", done[2 * j + 1])
    BY <1>4, <1>6, <2>1, Zenon
  <2> QED BY <2>2, <2>3, MarkupSaid, Zenon
<1>8. ASSUME NEW j \in 1 .. n PROVE said[2 * j] \in Seq(Unmarked) /\ Read(said[2 * j]) = cells[j]
  <2>1. 2 * j \in 1 .. 2 * n + 1 /\ 2 * j \in 1 .. 2 * n
    BY <1>2
  <2>2. said[2 * j] \in Meanings("HTML", done[2 * j])
    BY <1>4, <1>6, <2>1, Zenon
  <2>3. done[2 * j] = uses[2 * j]
    BY <1>2, <1>5, <2>1, Zenon DEF Joined
  <2>4. Tells(uses[2 * j], cells[j])
    BY <1>1, Zenon DEF Told
  <2> QED BY <2>2, <2>3, <2>4, ContentSaid, Zenon
<1>9. PICK page : page = FlattenSeq(said)
  OBVIOUS
<1>10. PICK f : Flattens(f, said, Bytes) /\ page = f[2 * n + 1]
  BY <1>4, <1>6, <1>9, FlattenIs, Zenon
<1>11. page \in Seq(Bytes)
  BY <1>4, <1>9, FlattenType, Zenon
<1>12. Places(f, said, page)
  <2>1. Places(f, said, f[Len(said)] \o <<>>)
    BY <1>4, <1>10, Empty, PlacesAre, Zenon
  <2>2. page \o <<>> = page
    BY <1>11, ConcatEmptySeq, Zenon
  <2> QED BY <1>6, <1>10, <2>1, <2>2, Zenon
<1>13. PICK w : w = [j \in 1 .. n |-> said[2 * j]]
  OBVIOUS
<1>14. PICK m : m = [j \in 0 .. n |-> Len(f[2 * j]) + 1]
  OBVIOUS
<1>15. ASSUME NEW j \in 0 .. n
       PROVE  /\ Len(f[2 * j]) \in Nat /\ Len(f[2 * j + 1]) = Len(f[2 * j]) + 1
              /\ page[Len(f[2 * j]) + 1] = LT /\ m[j] = Len(f[2 * j]) + 1
  <2>1. PICK i : i = 2 * j + 1
    OBVIOUS
  <2>2. i \in 1 .. Len(said) /\ i - 1 = 2 * j
    BY <1>2, <1>6, <2>1
  <2>3. /\ Len(f[i - 1]) \in Nat /\ Len(f[i]) = Len(f[i - 1]) + Len(said[i])
        /\ \A k \in 1 .. Len(said[i]) : page[Len(f[i - 1]) + k] = said[i][k]
    BY <1>12, <2>2, Zenon DEF Places
  <2>4. Len(said[i]) = 1 /\ said[i][1] = LT /\ 1 \in 1 .. Len(said[i])
    <3>1. said[i] = <<LT>>
      BY <1>7, <2>1, Zenon
    <3> QED BY <3>1
  <2>5. page[Len(f[2 * j]) + 1] = LT
    BY <2>2, <2>3, <2>4, Zenon
  <2> QED BY <1>14, <2>1, <2>2, <2>3, <2>4, <2>5, Zenon
<1>16. ASSUME NEW j \in 1 .. n
       PROVE  /\ m[j] = m[j - 1] + Len(w[j]) + 1
              /\ \A k \in 1 .. Len(w[j]) : page[m[j - 1] + k] = w[j][k]
  <2>1. PICK i, h : i = 2 * j /\ h = j - 1
    OBVIOUS
  <2>2. i \in 1 .. Len(said) /\ i - 1 = 2 * h + 1 /\ h \in 0 .. n /\ j \in 0 .. n
    BY <1>2, <1>6, <2>1
  <2>3. /\ Len(f[i]) = Len(f[i - 1]) + Len(said[i])
        /\ \A k \in 1 .. Len(said[i]) : page[Len(f[i - 1]) + k] = said[i][k]
    BY <1>12, <2>2, Zenon DEF Places
  <2>4. w[j] = said[i]
    BY <1>13, <2>1, Zenon
  <2>5. /\ m[h] = Len(f[2 * h]) + 1 /\ m[j] = Len(f[i]) + 1
        /\ Len(f[2 * h + 1]) = Len(f[2 * h]) + 1
    BY <1>15, <2>1, <2>2, Zenon
  <2>6. m[h] = Len(f[i - 1]) /\ m[j] = (Len(f[i - 1]) + Len(said[i])) + 1
    BY <2>2, <2>3, <2>5, Zenon
  <2>7. \A k \in 1 .. Len(w[j]) : page[m[h] + k] = w[j][k]
    BY <2>3, <2>4, <2>6, Zenon
  <2>8. m[j] = (m[h] + Len(w[j])) + 1
    BY <2>4, <2>6, Zenon
  <2> QED BY <2>1, <2>7, <2>8, Zenon
<1>17. w \in [1 .. n -> Seq(Unmarked)] /\ DOMAIN w = 1 .. n
  BY <1>8, <1>13
<1>18. CellsAt(page, w, n, m)
  <2>1. \A j \in 0 .. n : m[j] \in Nat /\ page[m[j]] = LT
    <3>1. ASSUME NEW j \in 0 .. n PROVE m[j] \in Nat /\ page[m[j]] = LT
      <4>1. Len(f[2 * j]) + 1 \in Nat
        BY <1>15
      <4> QED BY <1>15, <4>1, Zenon
    <3> QED BY <3>1
  <2>2. m \in [0 .. n -> Nat]
    BY <1>14, <2>1
  <2>3. m[0] = 1
    <3>1. 0 \in 0 .. n /\ 2 * 0 = 0 /\ Len(<<>>) = 0 /\ 0 + 1 = 1
      BY <1>2
    <3>2. f[0] = <<>>
      BY <1>10, Zenon DEF Flattens
    <3> QED BY <1>14, <3>1, <3>2, Zenon
  <2>4. Len(page) = m[n]
    <3>1. n \in 0 .. n
      BY <1>2
    <3> QED BY <1>10, <1>15, <3>1, Zenon
  <2> QED BY <1>2, <1>11, <1>16, <1>17, <2>1, <2>2, <2>3, <2>4, Zenon DEF CellsAt
<1>19. Cells(page) = w
  BY <1>18, CellsOf, Zenon
<1>20. [i \in DOMAIN w |-> Read(w[i])] = cells
  <2>1. \A i \in 1 .. n : Read(w[i]) = cells[i]
    BY <1>8, <1>13
  <2>2. cells = [i \in 1 .. n |-> cells[i]]
    BY <1>1, <1>2
  <2>3. [i \in 1 .. n |-> Read(w[i])] = [i \in 1 .. n |-> cells[i]]
    BY <2>1, Zenon
  <2> QED BY <1>17, <2>2, <2>3, Zenon
<1> QED BY <1>9, <1>19, <1>20, Zenon

-----------------------------------------------------------------------------
(* The order of the map is strict: two texts differ at a first place.      *)
Less(a, b, i) ==
    /\ i \in 1 .. Len(b) /\ i <= Len(a) + 1
    /\ \A j \in 1 .. i - 1 : a[j] = b[j]
    /\ i <= Len(a) => a[i] < b[i]

LEMMA BeforeIs ==
    ASSUME NEW a \in Seq(Bytes), NEW b \in Seq(Bytes), Before(a, b)
    PROVE  \E i : Less(a, b, i)
<1>1. PICK m, n : m = Len(a) /\ n = Len(b) /\ m \in Nat /\ n \in Nat /\ DOMAIN a = 1 .. m /\ DOMAIN b = 1 .. n
  BY SequenceIs, Zenon
<1>2. CASE IsStrictPrefix(a, b)
  <2>1. m <= n /\ \A k \in 1 .. m : a[k] = b[k]
    <3>1. IsPrefix(a, SubSeq(b, 0 + 1, Len(b)))
      <4>1. SubSeq(b, 0 + 1, Len(b)) = b
        OBVIOUS
      <4> QED BY <1>2, <4>1, Zenon DEF IsStrictPrefix
    <3>2. PlacedAt(b, 0, a)
      <4>1. 0 \in 0 .. Len(b)
        BY <1>1
      <4> QED BY <3>1, <4>1, PrefixAt, Zenon
    <3> QED BY <1>1, <3>2 DEF PlacedAt
  <2>2. m # n
    <3>1. a # b
      BY <1>2 DEF IsStrictPrefix
    <3> QED BY <1>1, <2>1, <3>1, SeqEqual
  <2>3. Less(a, b, m + 1)
    BY <1>1, <2>1, <2>2 DEF Less
  <2> QED BY <2>3, Zenon
<1>3. CASE \E i \in DOMAIN a \cap DOMAIN b : a[i] < b[i] /\ \A j \in 1 .. i - 1 : a[j] = b[j]
  <2>1. PICK i \in (1 .. m) \cap (1 .. n) : a[i] < b[i] /\ \A j \in 1 .. i - 1 : a[j] = b[j]
    BY <1>1, <1>3, Zenon
  <2>2. Less(a, b, i)
    BY <1>1, <2>1 DEF Less
  <2> QED BY <2>2, Zenon
<1> QED BY <1>2, <1>3, Zenon DEF Before

LEMMA BeforeStrict ==
    ASSUME NEW a \in Seq(Bytes), NEW b \in Seq(Bytes), Before(a, b)
    PROVE  ~Before(b, a)
<1> SUFFICES ASSUME Before(b, a) PROVE FALSE
  OBVIOUS
<1>1. PICK i, j : Less(a, b, i) /\ Less(b, a, j)
  <2>1. \E i : Less(a, b, i)
    BY BeforeIs, Zenon
  <2>2. \E j : Less(b, a, j)
    BY BeforeIs, Zenon
  <2> QED BY <2>1, <2>2, Zenon
<1>2. PICK m, n : m = Len(a) /\ n = Len(b) /\ m \in Nat /\ n \in Nat
  BY SequenceIs, Zenon
<1>3. /\ i \in 1 .. n /\ j \in 1 .. m
      /\ \A k \in 1 .. i - 1 : a[k] = b[k]
      /\ \A k \in 1 .. j - 1 : b[k] = a[k]
      /\ (i <= m => a[i] < b[i]) /\ (j <= n => b[j] < a[j])
  BY <1>1, <1>2, Zenon DEF Less
<1>4. (\A k \in 1 .. m : a[k] \in Nat) /\ (\A k \in 1 .. n : b[k] \in Nat)
  <2>1. (\A k \in 1 .. m : a[k] \in Bytes) /\ (\A k \in 1 .. n : b[k] \in Bytes)
    BY <1>2, Element, Zenon
  <2> QED BY <2>1, ByteIs, Zenon
<1>5. CASE i < j
  <2>1. i \in 1 .. j - 1 /\ i \in 1 .. m /\ i <= m
    BY <1>2, <1>3, <1>5
  <2>2. b[i] = a[i] /\ a[i] < b[i] /\ a[i] \in Nat
    BY <1>3, <1>4, <2>1, Zenon
  <2> QED BY <2>2
<1>6. CASE j < i
  <2>1. j \in 1 .. i - 1 /\ j \in 1 .. n /\ j <= n
    BY <1>2, <1>3, <1>6
  <2>2. a[j] = b[j] /\ b[j] < a[j] /\ b[j] \in Nat
    BY <1>3, <1>4, <2>1, Zenon
  <2> QED BY <2>2
<1>7. CASE i = j
  <2>1. i <= m /\ j <= n
    BY <1>2, <1>3, <1>7
  <2>2. a[i] < b[i] /\ b[i] < a[i] /\ a[i] \in Nat /\ b[i] \in Nat
    BY <1>3, <1>4, <1>7, <2>1, Zenon
  <2> QED BY <2>2
<1>8. i \in Nat /\ j \in Nat
  BY <1>2, <1>3
<1> QED BY <1>5, <1>6, <1>7, <1>8

(* So there is one way only to list a set in this order.                   *)
Lists(s, p, N) ==
    /\ N \subseteq Seq(Bytes) /\ p \in Nat /\ s \in [1 .. p -> N]
    /\ \A x \in N : \E i \in 1 .. p : x = s[i]
    /\ \A i, j \in 1 .. p : i < j => Before(s[i], s[j])

Agree(s, p, t, k) == k \in Nat /\ k <= p /\ \A i \in 1 .. k : s[i] = t[i]
Later(s, p, t, q, k) ==
    \A j \in 1 .. q : j > k => \E i \in 1 .. p : t[j] = s[i] /\ i > k

LEMMA ListedLater ==
    ASSUME NEW N, NEW s, NEW p, Lists(s, p, N), NEW t, NEW q, Lists(t, q, N),
           NEW k, Agree(s, p, t, k)
    PROVE  Later(s, p, t, q, k)
<1> SUFFICES ASSUME NEW j \in 1 .. q, j > k PROVE \E i \in 1 .. p : t[j] = s[i] /\ i > k
  BY Zenon DEF Later
<1>0. k \in Nat
  BY DEF Agree
<1>1. p \in Nat /\ q \in Nat /\ t[j] \in N
  BY DEF Lists
<1>2. PICK i \in 1 .. p : t[j] = s[i]
  BY <1>1, Zenon DEF Lists
<1>3. ~(i <= k)
  <2> SUFFICES ASSUME i <= k PROVE FALSE
    OBVIOUS
  <2>1. i \in 1 .. k /\ i \in 1 .. q /\ i < j
    BY <1>0, <1>1
  <2>2. t[i] = t[j] /\ Before(t[i], t[j]) /\ t[j] \in Seq(Bytes)
    <3>1. Before(t[i], t[j])
      BY <2>1, Zenon DEF Lists
    <3>2. t[j] \in Seq(Bytes)
      BY <1>1 DEF Lists
    <3>3. s[i] = t[i]
      BY <2>1, Zenon DEF Agree
    <3> QED BY <1>2, <3>1, <3>2, <3>3, Zenon
  <2> QED BY <2>2, BeforeStrict, Zenon
<1> QED BY <1>0, <1>1, <1>2, <1>3

SameList(s, p, t, q) == p = q /\ \A i \in 1 .. p : s[i] = t[i]

LEMMA ListedOnce ==
    ASSUME NEW N, NEW s, NEW p, Lists(s, p, N), NEW t, NEW q, Lists(t, q, N)
    PROVE  SameList(s, p, t, q)
<1>1. /\ p \in Nat /\ q \in Nat
      /\ \A i \in 1 .. p : s[i] \in Seq(Bytes)
      /\ \A i \in 1 .. q : t[i] \in Seq(Bytes)
  BY DEF Lists
<1> DEFINE T == {k \in Nat : k <= p \/ k <= q => k <= p /\ k <= q /\ \A i \in 1 .. k : s[i] = t[i]}
<1>2. 0 \in T
  BY <1>1
<1>3. ASSUME NEW k \in Nat, k \in T PROVE k + 1 \in T
  <2> SUFFICES ASSUME k + 1 <= p \/ k + 1 <= q
               PROVE  k + 1 <= p /\ k + 1 <= q /\ \A i \in 1 .. k + 1 : s[i] = t[i]
    OBVIOUS
  <2>1. PICK h : h = k + 1 /\ h \in Nat /\ h > k
    <3>1. k + 1 \in Nat /\ k + 1 > k
      OBVIOUS
    <3> QED BY <3>1, Zenon
  <2>2. k <= p /\ k <= q /\ \A i \in 1 .. k : s[i] = t[i] /\ t[i] = s[i]
    BY <1>1, <1>3
  <2>3. ASSUME NEW j \in 1 .. q, j > k PROVE \E i \in 1 .. p : t[j] = s[i] /\ i > k
    <3>1. Agree(s, p, t, k)
      BY <1>3, <2>2, Zenon DEF Agree
    <3>2. Later(s, p, t, q, k)
      BY <3>1, ListedLater, Zenon
    <3> QED BY <2>3, <3>2, Zenon DEF Later
  <2>4. ASSUME NEW i \in 1 .. p, i > k PROVE \E j \in 1 .. q : s[i] = t[j] /\ j > k
    <3>1. Agree(t, q, s, k)
      BY <1>3, <2>2, Zenon DEF Agree
    <3>2. Later(t, q, s, p, k)
      BY <3>1, ListedLater, Zenon
    <3> QED BY <2>4, <3>2, Zenon DEF Later
  <2>5. h \in 1 .. p /\ h \in 1 .. q
    <3>1. CASE h <= p
      <4>1. h \in 1 .. p
        BY <2>1, <3>1, <1>1
      <4>2. PICK j \in 1 .. q : j > k
        BY <2>1, <2>4, <4>1
      <4> QED BY <1>1, <2>1, <4>1, <4>2
    <3>2. CASE h <= q
      <4>1. h \in 1 .. q
        BY <2>1, <3>2, <1>1
      <4>2. PICK i \in 1 .. p : i > k
        BY <2>1, <2>3, <4>1
      <4> QED BY <1>1, <2>1, <4>1, <4>2
    <3> QED BY <2>1, <3>1, <3>2
  <2>6. PICK j \in 1 .. q : s[h] = t[j] /\ j > k
    BY <2>1, <2>4, <2>5, Zenon
  <2>7. PICK i \in 1 .. p : t[h] = s[i] /\ i > k
    BY <2>1, <2>3, <2>5, Zenon
  <2>8. s[h] = t[h]
    <3>1. (j = h \/ h < j) /\ (i = h \/ h < i)
      BY <1>1, <2>1, <2>6, <2>7
    <3>2. CASE h < j /\ h < i
      <4>1. Before(t[h], t[j]) /\ Before(s[h], s[i])
        BY <2>5, <3>2, Zenon DEF Lists
      <4>2. Before(t[h], s[h]) /\ Before(s[h], t[h])
        BY <2>6, <2>7, <4>1, Zenon
      <4> QED BY <1>1, <2>5, <4>2, BeforeStrict, Zenon
    <3> QED BY <2>6, <2>7, <3>1, <3>2, Zenon
  <2>9. \A l \in 1 .. k + 1 : s[l] = t[l]
    <3>1. \A l \in 1 .. k + 1 : l \in 1 .. k \/ l = h
      BY <2>1
    <3> QED BY <2>2, <2>8, <3>1, Zenon
  <2> QED BY <1>1, <2>1, <2>5, <2>9
<1>4. Nat \subseteq T
  <2> HIDE DEF T
  <2> QED BY <1>2, <1>3, Induction, Zenon
<1>5. p \in T /\ q \in T
  BY <1>1, <1>4, Zenon
<1>6. p = q /\ \A i \in 1 .. p : s[i] = t[i]
  BY <1>1, <1>5
<1> QED BY <1>6, Zenon DEF SameList

-----------------------------------------------------------------------------
(* The rows of a table, one after the other.                               *)
LEMMA ToldFlatten ==
    ASSUME NEW n \in Nat, NEW ss, ss = [i \in 1 .. n |-> ss[i]],
           NEW tt, tt = [i \in 1 .. n |-> tt[i]], \A i \in 1 .. n : Told(ss[i], tt[i])
    PROVE  Told(FlattenSeq(ss), FlattenSeq(tt))
<1>1. PICK C, A, B : C = Seq(Nat) /\ A = Seq(Uses) /\ B = Seq(C)
  OBVIOUS
<1> DEFINE R == {x \in A \X B : Told(x[1], x[2])}
<1>2. \A a, b : <<a, b>> \in R <=> Told(a, b)
  <2>1. \A a, b : Told(a, b) => a \in A /\ b \in B
    BY <1>1, Zenon DEF Told
  <2> QED BY <2>1
<1>3. ss \in Seq(A) /\ tt \in Seq(B) /\ Len(ss) = n /\ Len(tt) = n
  <2>1. \A i \in 1 .. n : ss[i] \in A /\ tt[i] \in B
    BY <1>1, Zenon DEF Told
  <2>2. ss \in [1 .. n -> A]
    BY <2>1, Zenon
  <2>3. tt \in [1 .. n -> B]
    BY <2>1, Zenon
  <2>4. ss \in Seq(A) /\ tt \in Seq(B)
    BY <2>2, <2>3, IsSequence, Zenon
  <2> QED BY <2>2, <2>3, <2>4
<1> HIDE DEF R
<1>4. <<<<>>, <<>>>> \in R
  BY <1>2, ToldNothing, Zenon
<1>5. \A a, c \in A : \A b, d \in B : <<a, b>> \in R /\ <<c, d>> \in R => <<a \o c, b \o d>> \in R
  BY <1>2, ToldJoin, Zenon
<1>6. \A i \in 1 .. Len(ss) : <<ss[i], tt[i]>> \in R
  BY <1>2, <1>3, Zenon
<1>7. <<FlattenSeq(ss), FlattenSeq(tt)>> \in R
  <2>1. /\ ss \in Seq(Seq(Uses)) /\ tt \in Seq(Seq(C)) /\ Len(ss) = Len(tt)
        /\ \A a, c \in Seq(Uses) : \A b, d \in Seq(C) :
              <<a, b>> \in R /\ <<c, d>> \in R => <<a \o c, b \o d>> \in R
    BY <1>1, <1>3, <1>5, Zenon
  <2> QED BY <1>4, <1>6, <2>1, FlattenRelated
<1> QED BY <1>2, <1>7, Zenon

(* A variable has its value in the map of the environment.                 *)
LEMMA VariableFound ==
    ASSUME NEW lines \in Seq(Seq(Bytes)), NEW variable, IsVariable(variable, lines)
    PROVE  /\ BytesOf(variable.name) \in DOMAIN EnvMap(lines)
           /\ EnvMap(lines)[BytesOf(variable.name)] = BytesOf(variable.value)
<1>1. PICK key, value : key = BytesOf(variable.name) /\ value = BytesOf(variable.value)
  OBVIOUS
<1>2. key \in Seq(Bytes) /\ value \in Seq(Bytes) /\ \A i \in 1 .. Len(key) : key[i] # EQUALS
  <2>1. IsText(variable.name) /\ IsText(variable.value) /\ ~Contains(key, EQUALS)
    BY <1>1, Zenon DEF IsVariable, IsReadable
  <2>2. key \in Seq(Bytes) /\ value \in Seq(Bytes)
    BY <1>1, <2>1, BytesOfType, Zenon
  <2> QED BY <2>1, <2>2, Zenon DEF Contains
<1>3. PICK i \in DOMAIN lines :
         /\ lines[i] = Named(key) \o value
         /\ \A k \in 1 .. i - 1 : ~IsPrefix(Named(key), lines[k])
  BY <1>1, Zenon DEF IsVariable, Beginning, Named
<1>4. Env(EnvMap(lines), key) = value
  BY <1>2, <1>3, VariableIs, Zenon
<1>5. key \in DOMAIN EnvMap(lines)
  <2>1. KeyValue(lines[i]) = <<key, value>> /\ Contains(lines[i], EQUALS)
    BY <1>2, <1>3, KeyValueOf, Zenon
  <2>2. KeyValue(lines[i])[1] = key
    BY <2>1
  <2>3. DOMAIN EnvMap(lines) = {KeyValue(lines[k])[1] : k \in {l \in DOMAIN lines : Contains(lines[l], EQUALS)}}
    BY DEF EnvMap
  <2>4. i \in {l \in DOMAIN lines : Contains(lines[l], EQUALS)}
    BY <2>1, Zenon
  <2> QED BY <2>2, <2>3, <2>4, Zenon
<1> QED BY <1>1, <1>4, <1>5, Zenon DEF Env

(* A name in the map is the name of one of the variables.                  *)
LEMMA NameFound ==
    ASSUME NEW lines \in Seq(Seq(Bytes)), NEW variables, IsEnvironment(variables, lines),
           NEW key \in DOMAIN EnvMap(lines)
    PROVE  \E i \in 1 .. Len(variables) : key = BytesOf(variables[i].name)
<1>1. PICK k \in DOMAIN lines : Contains(lines[k], EQUALS) /\ key = KeyValue(lines[k])[1]
  <2>1. DOMAIN EnvMap(lines) = {KeyValue(lines[k])[1] : k \in {l \in DOMAIN lines : Contains(lines[l], EQUALS)}}
    BY DEF EnvMap
  <2> QED BY <2>1
<1>2. PICK i \in 1 .. Len(variables) : IsPrefix(Beginning(variables[i]), lines[k])
  BY <1>1, Zenon DEF IsEnvironment
<1>3. IsVariable(variables[i], lines)
  BY Zenon DEF IsEnvironment
<1>4. PICK name, line : name = BytesOf(variables[i].name) /\ line = lines[k]
  OBVIOUS
<1>5. name \in Seq(Bytes) /\ line \in Seq(Bytes) /\ \A j \in 1 .. Len(name) : name[j] # EQUALS
  <2>1. IsText(variables[i].name) /\ ~Contains(name, EQUALS)
    BY <1>3, <1>4, Zenon DEF IsVariable, IsReadable
  <2>2. name \in Seq(Bytes)
    BY <1>4, <2>1, BytesOfType, Zenon
  <2>3. line \in Seq(Bytes)
    <3>1. PICK B : B = Seq(Bytes)
      OBVIOUS
    <3>2. lines[k] \in B
      BY <3>1, SequenceIs, Element, Zenon
    <3> QED BY <1>4, <3>1, <3>2
  <2> QED BY <2>1, <2>2, <2>3, Zenon DEF Contains
<1>6. PICK x : x = Named(name)
  OBVIOUS
<1>7. x \in Seq(Bytes) /\ IsPrefix(x, line)
  <2>1. IsPrefix(x, line)
    BY <1>2, <1>4, <1>6, Zenon DEF Beginning, Named
  <2> QED BY <1>5, <1>6, <2>1, NamedIs, Zenon
<1>8. PICK p, n : p = Len(x) /\ n = Len(line) /\ p \in Nat /\ n \in Nat
  BY <1>5, <1>7, SequenceIs, Zenon
<1>9. p <= n /\ SubSeq(line, 1, p) = x
  <2>1. p <= n /\ SubSeq(x, 1, p) = SubSeq(line, 1, p)
    BY <1>7, <1>8, Zenon DEF IsPrefix
  <2>2. SubSeq(x, 1, p) = x
    BY <1>7, <1>8
  <2> QED BY <2>1, <2>2
<1>10. PICK value : value = SubSeq(line, p + 1, n)
  OBVIOUS
<1>11. line = x \o value /\ value \in Seq(Bytes)
  <2>1. p \in 0 .. n
    BY <1>8, <1>9
  <2>2. IsSplit(line, n, p, Bytes, SubSeq(line, 1, p), SubSeq(line, p + 1, n))
    BY <1>5, <1>8, <2>1, SplitAt, Zenon
  <2> QED BY <1>9, <1>10, <2>2, Zenon DEF IsSplit
<1>12. KeyValue(line) = <<name, value>>
  BY <1>5, <1>6, <1>11, KeyValueOf, Zenon
<1>13. KeyValue(line)[1] = name
  BY <1>12
<1> QED BY <1>1, <1>4, <1>13, Zenon

(* The keys the handler takes from the map are the names, in their order.  *)
NamesOf(variables) == [i \in 1 .. Len(variables) |-> BytesOf(variables[i].name)]

LEMMA KeysListed ==
    ASSUME NEW N, N \subseteq Seq(Bytes), IsFiniteSet(N), NEW keys \in SetToSeqs(N), Ordered(keys)
    PROVE  Lists(keys, Cardinality(N), N) /\ Len(keys) = Cardinality(N)
<1>1. PICK c : c = Cardinality(N) /\ c \in Nat
  BY FS_CardinalityType
<1>2. keys \in [1 .. c -> N] /\ DOMAIN keys = 1 .. c
      /\ \A i, j \in 1 .. c : i # j => keys[i] # keys[j]
  BY <1>1 DEF SetToSeqs
<1>3. keys \in Injection(1 .. c, N)
  BY <1>2 DEF Injection, IsInjective
<1>4. Cardinality(1 .. c) = c
  <2>1. 1 \in Int /\ c \in Int
    BY <1>1
  <2>2. Cardinality(1 .. c) = IF 1 > c THEN 0 ELSE c - 1 + 1
    BY <2>1, FS_Interval
  <2> QED BY <1>1, <2>2
<1>5. keys \in Surjection(1 .. c, N)
  BY <1>1, <1>3, <1>4, FS_Injection
<1>6. \A x \in N : \E i \in 1 .. c : x = keys[i]
  BY <1>5 DEF Surjection
<1>7. \A i, j \in 1 .. c : i < j => Before(keys[i], keys[j])
  BY <1>2, Zenon DEF Ordered
<1>8. Lists(keys, c, N)
  BY <1>1, <1>2, <1>6, <1>7 DEF Lists
<1>9. Len(keys) = c
  BY <1>1, <1>2
<1> QED BY <1>1, <1>8, <1>9, Zenon

LEMMA NamesListed ==
    ASSUME NEW lines \in Seq(Seq(Bytes)), NEW variables, IsEnvironment(variables, lines)
    PROVE  Lists(NamesOf(variables), Len(variables), DOMAIN EnvMap(lines))
<1>1. PICK n, N, names : n = Len(variables) /\ N = DOMAIN EnvMap(lines) /\ names = NamesOf(variables)
  OBVIOUS
<1>2. n \in Nat
  BY <1>1 DEF IsEnvironment
<1>3. N \subseteq Seq(Bytes)
  <2>1. EnvMap(lines) \in EnvMaps
    BY EnvMapType, Zenon
  <2> QED BY <1>1, <2>1 DEF EnvMaps
<1>4. names = [i \in 1 .. n |-> BytesOf(variables[i].name)]
  BY <1>1, Zenon DEF NamesOf
<1>5. \A i \in 1 .. n : names[i] = BytesOf(variables[i].name) /\ names[i] \in N
  <2>1. ASSUME NEW i \in 1 .. n PROVE BytesOf(variables[i].name) \in N
    <3>1. IsVariable(variables[i], lines)
      BY <1>1, Zenon DEF IsEnvironment
    <3> QED BY <1>1, <3>1, VariableFound, Zenon
  <2> QED BY <1>4, <2>1
<1>6. names \in [1 .. n -> N]
  BY <1>4, <1>5
<1>7. \A x \in N : \E i \in 1 .. n : x = names[i]
  <2> SUFFICES ASSUME NEW x \in N PROVE \E i \in 1 .. n : x = names[i]
    OBVIOUS
  <2>1. PICK i \in 1 .. Len(variables) : x = BytesOf(variables[i].name)
    BY <1>1, NameFound, Zenon
  <2> QED BY <1>1, <1>5, <2>1, Zenon
<1>8. \A i, j \in 1 .. n : i < j => Before(names[i], names[j])
  BY <1>1, <1>5, Zenon DEF IsEnvironment
<1> QED BY <1>1, <1>2, <1>3, <1>6, <1>7, <1>8, Zenon DEF Lists

(* The rows of the environment.                                            *)
LEMMA EnvironmentTold ==
    ASSUME NEW lines \in Seq(Seq(Bytes)), NEW variables, IsEnvironment(variables, lines),
           env_map = EnvMap(lines), NEW keys \in SetToSeqs(DOMAIN env_map), Ordered(keys)
    PROVE  Told(EnvRows(keys),
                FlattenSeq([i \in DOMAIN variables |-> VariableCells(variables[i])]))
<1>1. PICK n, N, names : n = Len(variables) /\ N = DOMAIN env_map /\ names = NamesOf(variables)
  OBVIOUS
<1>2. n \in Nat /\ DOMAIN variables = 1 .. n
  BY <1>1 DEF IsEnvironment
<1>3. Lists(names, n, N)
  BY <1>1, NamesListed, Zenon
<1>4. Lists(keys, Cardinality(N), N) /\ Len(keys) = Cardinality(N)
  <2>1. N \subseteq Seq(Bytes)
    BY <1>3, Zenon DEF Lists
  <2>2. IsFiniteSet(N)
    BY <1>1, EnvMapType, Zenon
  <2> QED BY <1>1, <2>1, <2>2, KeysListed, Zenon
<1>5. Len(keys) = n /\ \A i \in 1 .. n : keys[i] = names[i]
  <2>1. SameList(keys, Cardinality(N), names, n)
    BY <1>3, <1>4, ListedOnce, Zenon
  <2> QED BY <1>4, <2>1, Zenon DEF SameList
<1>6. \A i \in 1 .. n : names[i] = BytesOf(variables[i].name)
  BY <1>1, Zenon DEF NamesOf
<1>7. PICK rows, cells : /\ rows = [i \in 1 .. n |-> Row(keys[i], env_map[keys[i]])]
                         /\ cells = [i \in 1 .. n |-> VariableCells(variables[i])]
  OBVIOUS
<1>8. ASSUME NEW i \in 1 .. n PROVE Told(rows[i], cells[i])
  <2>1. IsVariable(variables[i], lines)
    BY <1>1, Zenon DEF IsEnvironment
  <2>2. PICK variable : variable = variables[i]
    OBVIOUS
  <2>3. IsReadable(variable.name) /\ IsReadable(variable.value)
    BY <2>1, <2>2, Zenon DEF IsVariable
  <2>4. keys[i] = BytesOf(variable.name) /\ env_map[keys[i]] = BytesOf(variable.value)
    <3>1. keys[i] = BytesOf(variable.name)
      BY <1>5, <1>6, <2>2, Zenon
    <3>2. EnvMap(lines)[BytesOf(variable.name)] = BytesOf(variable.value)
      BY <2>1, <2>2, VariableFound, Zenon
    <3> QED BY <3>1, <3>2, Zenon
  <2>5. rows[i] = Row(BytesOf(variable.name), BytesOf(variable.value))
    BY <1>7, <2>4, Zenon
  <2>6. cells[i] = <<ShownOf(variable.name), ShownOf(variable.value)>>
    BY <1>7, <2>2, Zenon DEF VariableCells
  <2> QED BY <2>3, <2>5, <2>6, ToldRow, Zenon
<1>9. rows = [i \in 1 .. n |-> rows[i]] /\ cells = [i \in 1 .. n |-> cells[i]]
  BY <1>7
<1>10. Told(FlattenSeq(rows), FlattenSeq(cells))
  BY <1>2, <1>8, <1>9, ToldFlatten, Zenon
<1>11. EnvRows(keys) = FlattenSeq(rows)
  BY <1>5, <1>7, Zenon DEF EnvRows
<1> QED BY <1>2, <1>7, <1>10, <1>11, Zenon

-----------------------------------------------------------------------------
(* What the client sends for a text: a piece for each of its bytes.        *)
Encodes(units, bytes, except) ==
    /\ units \in Seq(UnitRecords) /\ bytes \in Seq(Bytes) /\ BytesOf(units) \in Seq(Bytes)
    /\ \A k \in 1 .. Len(BytesOf(units)) : BytesOf(units)[k] \notin except
    /\ \E pieces \in Seq(Seq(Bytes)) :
          /\ Len(pieces) = Len(bytes) /\ BytesOf(units) = FlattenSeq(pieces)
          /\ \A i \in 1 .. Len(bytes) : StandsFor(pieces[i], bytes[i])

LEMMA EncodesDecoded ==
    ASSUME NEW units, NEW bytes, NEW except, Encodes(units, bytes, except)
    PROVE  QueryDecode(BytesOf(units)) = bytes
<1>1. PICK pieces \in Seq(Seq(Bytes)) :
         /\ Len(pieces) = Len(bytes) /\ BytesOf(units) = FlattenSeq(pieces)
         /\ \A i \in 1 .. Len(bytes) : StandsFor(pieces[i], bytes[i])
  BY Zenon DEF Encodes
<1>2. bytes \in Seq(Bytes)
  BY Zenon DEF Encodes
<1>3. QueryDecode(FlattenSeq(pieces)) = bytes
  BY <1>1, <1>2, DecodedAsMeant, Zenon
<1> QED BY <1>1, <1>3

LEMMA EncodesNothing ==
    ASSUME NEW except
    PROVE  Encodes(<<>>, <<>>, except)
<1>1. BytesOf(<<>>) = <<>> /\ FlattenSeq(<<>>) = <<>>
  <2>1. [i \in DOMAIN <<>> |-> <<>>[i].bytes] = <<>>
    OBVIOUS
  <2>2. FlattenSeq(<<>>) = <<>>
    BY Empty, FlattenOne
  <2> QED BY <2>1, <2>2 DEF BytesOf
<1>2. <<>> \in Seq(UnitRecords) /\ <<>> \in Seq(Bytes) /\ <<>> \in Seq(Seq(Bytes))
  BY Empty, Zenon
<1>3. Len(<<>>) = 0 /\ \A k \in 1 .. 0 : FALSE
  OBVIOUS
<1> QED BY <1>1, <1>2, <1>3, Zenon DEF Encodes

LEMMA EncodesJoin ==
    ASSUME NEW except, NEW u, NEW a, Encodes(u, a, except), NEW v, NEW b, Encodes(v, b, except)
    PROVE  Encodes(u \o v, a \o b, except)
<1>1. PICK R, s, t : R = Seq(Bytes) /\ s = BytesOf(u) /\ t = BytesOf(v)
  OBVIOUS
<1>2. PICK p \in Seq(R) : /\ Len(p) = Len(a) /\ s = FlattenSeq(p)
                          /\ \A i \in 1 .. Len(a) : StandsFor(p[i], a[i])
  BY <1>1, Zenon DEF Encodes
<1>3. PICK q \in Seq(R) : /\ Len(q) = Len(b) /\ t = FlattenSeq(q)
                          /\ \A i \in 1 .. Len(b) : StandsFor(q[i], b[i])
  BY <1>1, Zenon DEF Encodes
<1>4. /\ u \in Seq(UnitRecords) /\ v \in Seq(UnitRecords)
      /\ a \in Seq(Bytes) /\ b \in Seq(Bytes) /\ s \in Seq(Bytes) /\ t \in Seq(Bytes)
      /\ (\A k \in 1 .. Len(s) : s[k] \notin except) /\ \A k \in 1 .. Len(t) : t[k] \notin except
  BY <1>1, Zenon DEF Encodes
<1>5. BytesOf(u \o v) = s \o t
  BY <1>1, <1>4, BytesOfConcat, Zenon
<1>6. s \o t = FlattenSeq(p \o q)
  <2>1. p \in Seq(Seq(Bytes)) /\ q \in Seq(Seq(Bytes))
    BY <1>1, Zenon
  <2>2. FlattenSeq(p \o q) = FlattenSeq(p) \o FlattenSeq(q)
    BY <2>1, FlattenConcat, Zenon
  <2> QED BY <1>2, <1>3, <2>2, Zenon
<1>7. /\ u \o v \in Seq(UnitRecords) /\ a \o b \in Seq(Bytes)
      /\ s \o t \in Seq(Bytes) /\ p \o q \in Seq(R)
  BY <1>4, Concat, Zenon
<1>8. Joined(s, t, s \o t) /\ Joined(a, b, a \o b) /\ Joined(p, q, p \o q)
  BY <1>4, JoinedIs, Zenon
<1>9. PICK w, c, r : w = s \o t /\ c = a \o b /\ r = p \o q
  OBVIOUS
<1>10. Len(s) \in Nat /\ Len(t) \in Nat /\ Len(a) \in Nat /\ Len(b) \in Nat
  BY <1>4, SequenceIs, Zenon
<1>11. \A m, n \in Nat : \A k \in 1 .. m + n : k \in 1 .. m \/ \E j \in 1 .. n : k = m + j
  <2> SUFFICES ASSUME NEW m \in Nat, NEW n \in Nat, NEW k \in 1 .. m + n, k \notin 1 .. m
               PROVE  \E j \in 1 .. n : k = m + j
    OBVIOUS
  <2>1. k - m \in 1 .. n /\ k = m + (k - m)
    OBVIOUS
  <2> QED BY <2>1
<1>12. ASSUME NEW k \in 1 .. Len(w) PROVE w[k] \notin except
  <2>1. k \in 1 .. Len(s) \/ \E j \in 1 .. Len(t) : k = Len(s) + j
    <3>1. k \in 1 .. Len(s) + Len(t)
      BY <1>8, <1>9, Zenon DEF Joined
    <3> QED BY <1>10, <1>11, <3>1, Zenon
  <2> QED BY <1>4, <1>8, <1>9, <2>1, Zenon DEF Joined
<1>13. ASSUME NEW k \in 1 .. Len(c) PROVE StandsFor(r[k], c[k])
  <2>1. k \in 1 .. Len(a) \/ \E j \in 1 .. Len(b) : k = Len(a) + j
    <3>1. k \in 1 .. Len(a) + Len(b)
      BY <1>8, <1>9, Zenon DEF Joined
    <3> QED BY <1>10, <1>11, <3>1, Zenon
  <2>2. /\ \A j \in 1 .. Len(a) : r[j] = p[j]
        /\ \A j \in 1 .. Len(b) : r[Len(a) + j] = q[j]
    BY <1>2, <1>3, <1>8, <1>9, Zenon DEF Joined
  <2>3. /\ \A j \in 1 .. Len(a) : c[j] = a[j]
        /\ \A j \in 1 .. Len(b) : c[Len(a) + j] = b[j]
    BY <1>8, <1>9, Zenon DEF Joined
  <2> QED BY <1>2, <1>3, <2>1, <2>2, <2>3, Zenon
<1>14. Len(r) = Len(c)
  BY <1>2, <1>3, <1>8, <1>9, Zenon DEF Joined
<1> QED BY <1>1, <1>5, <1>6, <1>7, <1>9, <1>12, <1>13, <1>14, Zenon DEF Encodes

LEMMA EncodesFlatten ==
    ASSUME NEW except, NEW n \in Nat, NEW uu, uu = [i \in 1 .. n |-> uu[i]],
           NEW bb, bb = [i \in 1 .. n |-> bb[i]],
           \A i \in 1 .. n : Encodes(uu[i], bb[i], except)
    PROVE  Encodes(FlattenSeq(uu), FlattenSeq(bb), except)
<1>1. PICK A, B : A = Seq(UnitRecords) /\ B = Seq(Bytes)
  OBVIOUS
<1> DEFINE R == {x \in A \X B : Encodes(x[1], x[2], except)}
<1>2. \A a, b : <<a, b>> \in R <=> Encodes(a, b, except)
  <2>1. \A a, b : Encodes(a, b, except) => a \in A /\ b \in B
    BY <1>1, Zenon DEF Encodes
  <2> QED BY <2>1
<1>3. uu \in Seq(A) /\ bb \in Seq(B) /\ Len(uu) = n /\ Len(bb) = n
  <2>1. \A i \in 1 .. n : uu[i] \in A /\ bb[i] \in B
    BY <1>1, Zenon DEF Encodes
  <2>2. uu \in [1 .. n -> A]
    BY <2>1, Zenon
  <2>3. bb \in [1 .. n -> B]
    BY <2>1, Zenon
  <2>4. uu \in Seq(A) /\ bb \in Seq(B)
    BY <2>2, <2>3, IsSequence, Zenon
  <2> QED BY <2>2, <2>3, <2>4
<1> HIDE DEF R
<1>4. <<<<>>, <<>>>> \in R
  BY <1>2, EncodesNothing, Zenon
<1>5. \A a, c \in A : \A b, d \in B : <<a, b>> \in R /\ <<c, d>> \in R => <<a \o c, b \o d>> \in R
  BY <1>2, EncodesJoin, Zenon
<1>6. \A i \in 1 .. Len(uu) : <<uu[i], bb[i]>> \in R
  BY <1>2, <1>3, Zenon
<1>7. <<FlattenSeq(uu), FlattenSeq(bb)>> \in R
  <2>1. /\ uu \in Seq(Seq(UnitRecords)) /\ bb \in Seq(Seq(Bytes)) /\ Len(uu) = Len(bb)
        /\ \A a, c \in Seq(UnitRecords) : \A b, d \in Seq(Bytes) :
              <<a, b>> \in R /\ <<c, d>> \in R => <<a \o c, b \o d>> \in R
    BY <1>1, <1>3, <1>5, Zenon
  <2> QED BY <1>4, <1>6, <2>1, FlattenRelated
<1> QED BY <1>2, <1>7, Zenon

(* An escape has no separator in it.                                       *)
Separators == {AMP, EQUALS}

LEMMA AsciiIs ==
    ASSUME NEW c \in Bytes
    PROVE  Ascii(c) \in UnitRecords /\ Ascii(c).bytes = <<c>>
<1>1. <<c>> \in Seq(Nat) /\ <<c>> \in Seq(Bytes)
  <2>1. c \in Nat
    BY ByteIs, Zenon
  <2> QED BY <2>1
<1> QED BY <1>1 DEF Ascii, Unit, UnitRecords

LEMMA EscapeEncodes ==
    ASSUME NEW byte \in Bytes, NEW except, except \subseteq Separators
    PROVE  Encodes(EscapeByte(byte), <<byte>>, except)
<1>1. PICK h, l : h = UpperDigit(byte \div 16) /\ l = HexDigit(byte % 16)
  OBVIOUS
<1>2. h \in 48 .. 57 \/ h \in 65 .. 70
  <2>1. byte \div 16 \in 0 .. 15
    BY DEF Bytes
  <2> QED BY <1>1, <2>1 DEF UpperDigit
<1>3. l \in 48 .. 57 \/ l \in 97 .. 102
  <2>1. byte % 16 \in 0 .. 15
    BY DEF Bytes
  <2> QED BY <1>1, <2>1 DEF HexDigit
<1>4. /\ PERCENT \in Bytes /\ h \in Bytes /\ l \in Bytes
      /\ PERCENT \notin Separators /\ h \notin Separators /\ l \notin Separators
  BY <1>2, <1>3 DEF Bytes, Separators, PERCENT, AMP, EQUALS
<1>5. PICK x, y, z : x = Ascii(PERCENT) /\ y = Ascii(h) /\ z = Ascii(l)
  OBVIOUS
<1>6. /\ x \in UnitRecords /\ y \in UnitRecords /\ z \in UnitRecords
      /\ x.bytes = <<PERCENT>> /\ y.bytes = <<h>> /\ z.bytes = <<l>>
  BY <1>4, <1>5, AsciiIs, Zenon
<1>7. PICK units, piece : units = <<x, y, z>> /\ piece = <<PERCENT, h, l>>
  OBVIOUS
<1>8. EscapeByte(byte) = units
  BY <1>1, <1>5, <1>7, Zenon DEF EscapeByte
<1>9. units \in Seq(UnitRecords) /\ piece \in Seq(Bytes) /\ Len(piece) = 3
      /\ \A k \in 1 .. 3 : piece[k] \notin except
  <2>1. piece[1] = PERCENT /\ piece[2] = h /\ piece[3] = l /\ Len(piece) = 3
    BY <1>7
  <2>2. \A k \in 1 .. 3 : k = 1 \/ k = 2 \/ k = 3
    OBVIOUS
  <2>3. \A k \in 1 .. 3 : piece[k] \notin except
    BY <1>4, <2>1, <2>2
  <2> QED BY <1>4, <1>6, <1>7, <2>1, <2>3
<1>10. BytesOf(units) = piece
  <2>1. BytesOf(units) = FlattenSeq(<<x.bytes, y.bytes, z.bytes>>)
    <3>1. [i \in DOMAIN units |-> units[i].bytes] = <<x.bytes, y.bytes, z.bytes>>
      BY <1>7
    <3> QED BY <3>1, Zenon DEF BytesOf
  <2>2. <<PERCENT>> \in Seq(Bytes) /\ <<h>> \in Seq(Bytes) /\ <<l>> \in Seq(Bytes)
    BY <1>4
  <2>3. FlattenSeq(<<<<PERCENT>>, <<h>>, <<l>>>>) = (<<PERCENT>> \o <<h>>) \o <<l>>
    BY <2>2, FlattenThree, Zenon
  <2>4. (<<PERCENT>> \o <<h>>) \o <<l>> = piece
    BY <1>7, Joined3, Zenon
  <2> QED BY <1>6, <2>1, <2>3, <2>4, Zenon
<1>11. PICK pieces, bytes : pieces = <<piece>> /\ bytes = <<byte>>
  OBVIOUS
<1>12. pieces \in Seq(Seq(Bytes)) /\ bytes \in Seq(Bytes) /\ Len(pieces) = 1 /\ Len(bytes) = 1
       /\ pieces[1] = piece /\ bytes[1] = byte
  BY <1>9, <1>11
<1>13. FlattenSeq(pieces) = piece
  BY <1>9, <1>11, FlattenOne, Zenon
<1>14. StandsFor(piece, byte)
  BY <1>1, <1>7, EscapeStandsFor, Zenon
<1>15. \A i \in 1 .. Len(bytes) : StandsFor(pieces[i], bytes[i])
  <2>1. \A i \in 1 .. 1 : i = 1
    OBVIOUS
  <2> QED BY <1>12, <1>14, <2>1, Zenon
<1>16. Encodes(units, bytes, except)
  BY <1>9, <1>10, <1>12, <1>13, <1>15, Zenon DEF Encodes
<1> QED BY <1>8, <1>11, <1>16

(* A unit that is sent as it is.                                           *)
LEMMA UnitEncodes ==
    ASSUME NEW unit \in UnitRecords, NEW except,
           \A k \in 1 .. Len(unit.bytes) : unit.bytes[k] # PERCENT /\ unit.bytes[k] \notin except
    PROVE  Encodes(<<unit>>, unit.bytes, except)
<1>1. PICK bytes, n : bytes = unit.bytes /\ n = Len(bytes)
  OBVIOUS
<1>2. bytes \in Seq(Bytes) /\ n \in Nat
  BY <1>1 DEF UnitRecords
<1>3. PICK pieces : pieces = [k \in 1 .. n |-> <<bytes[k]>>]
  OBVIOUS
<1>4. pieces \in Seq(Seq(Bytes)) /\ Len(pieces) = n
  <2>1. PICK R : R = Seq(Bytes)
    OBVIOUS
  <2>2. \A k \in 1 .. n : <<bytes[k]>> \in R
    BY <1>1, <1>2, <2>1
  <2>3. pieces \in [1 .. n -> R]
    BY <1>3, <2>2
  <2>4. pieces \in Seq(R)
    BY <1>2, <2>3, IsSequence, Zenon
  <2> QED BY <1>2, <2>1, <2>3, <2>4
<1>5. FlattenSeq(pieces) = bytes
  <2>1. FlattenSeq([i \in 1 .. Len(bytes) |-> <<bytes[i]>>]) = bytes
    BY <1>2, FlattenSingles, Zenon
  <2> QED BY <1>1, <1>3, <2>1, Zenon
<1>6. \A i \in 1 .. Len(bytes) : StandsFor(pieces[i], bytes[i])
  <2>1. \A i \in 1 .. n : pieces[i] = <<bytes[i]>> /\ bytes[i] # PERCENT
    BY <1>1, <1>3, Zenon
  <2> QED BY <1>1, <2>1, Zenon DEF StandsFor
<1>7. BytesOf(<<unit>>) = bytes /\ <<unit>> \in Seq(UnitRecords)
  <2>1. <<unit>> \in Seq(UnitRecords)
    OBVIOUS
  <2> QED BY <1>1, <2>1, OneUnit, Zenon
<1>8. \A k \in 1 .. Len(bytes) : bytes[k] \notin except
  BY <1>1, Zenon
<1>9. Encodes(<<unit>>, bytes, except)
  BY <1>1, <1>2, <1>4, <1>5, <1>6, <1>7, <1>8, Zenon DEF Encodes
<1> QED BY <1>1, <1>9

(* And a unit whose bytes are all escaped.                                 *)
LEMMA EscapedEncodes ==
    ASSUME NEW bytes \in Seq(Bytes), NEW except, except \subseteq Separators
    PROVE  Encodes(FlattenSeq([j \in DOMAIN bytes |-> EscapeByte(bytes[j])]), bytes, except)
<1>1. PICK n, uu, bb : /\ n = Len(bytes) /\ uu = [j \in 1 .. n |-> EscapeByte(bytes[j])]
                       /\ bb = [j \in 1 .. n |-> <<bytes[j]>>]
  OBVIOUS
<1>2. n \in Nat /\ DOMAIN bytes = 1 .. n
  BY <1>1, SequenceIs, Zenon
<1>3. uu = [j \in 1 .. n |-> uu[j]] /\ bb = [j \in 1 .. n |-> bb[j]]
  BY <1>1
<1>4. ASSUME NEW i \in 1 .. n PROVE Encodes(uu[i], bb[i], except)
  <2>1. bytes[i] \in Bytes
    BY <1>1, Element, Zenon
  <2>2. uu[i] = EscapeByte(bytes[i]) /\ bb[i] = <<bytes[i]>>
    BY <1>1, Zenon
  <2> QED BY <2>1, <2>2, EscapeEncodes, Zenon
<1>5. Encodes(FlattenSeq(uu), FlattenSeq(bb), except)
  BY <1>2, <1>3, <1>4, EncodesFlatten, Zenon
<1>6. FlattenSeq(bb) = bytes
  <2>1. FlattenSeq([i \in 1 .. Len(bytes) |-> <<bytes[i]>>]) = bytes
    BY FlattenSingles, Zenon
  <2> QED BY <1>1, <2>1, Zenon
<1> QED BY <1>1, <1>2, <1>5, <1>6, Zenon

(* A text as it is sent.                                                   *)
LEMMA SentEncodes ==
    ASSUME NEW except, except \subseteq Separators,
           NEW reserved, reserved = except \cup {PERCENT}, NEW text, IsTyped(text, reserved)
    PROVE  /\ Encodes(Sent(text), BytesOf(Units(text)), except)
           /\ IsReadable(Units(text)) /\ Sent(text) \in Seq(UnitRecords)
<1>1. PICK n : n = Len(text)
  OBVIOUS
<1>2. /\ text \in Seq(TypedUnits) /\ n \in Nat /\ DOMAIN text = 1 .. n
      /\ IsReadable(Units(text))
      /\ \A i \in 1 .. n : ~text[i].escaped =>
            \A k \in 1 .. Len(text[i].unit.bytes) : text[i].unit.bytes[k] \notin reserved
  BY <1>1 DEF IsTyped
<1>3. \A i \in 1 .. n : text[i].unit \in UnitRecords /\ text[i].unit.bytes \in Seq(Bytes)
  <2>1. \A i \in 1 .. n : text[i] \in TypedUnits
    BY <1>1, <1>2, Element, Zenon
  <2> QED BY <2>1 DEF TypedUnits, UnitRecords
<1>4. PICK uu, bb :
         /\ uu = [i \in 1 .. n |->
                     IF text[i].escaped
                     THEN FlattenSeq([j \in DOMAIN text[i].unit.bytes |->
                                         EscapeByte(text[i].unit.bytes[j])])
                     ELSE <<text[i].unit>>]
         /\ bb = [i \in 1 .. n |-> text[i].unit.bytes]
  OBVIOUS
<1>5. Sent(text) = FlattenSeq(uu)
  BY <1>2, <1>4, Zenon DEF Sent
<1>6. BytesOf(Units(text)) = FlattenSeq(bb)
  <2>1. Units(text) = [i \in 1 .. n |-> text[i].unit]
    BY <1>2, Zenon DEF Units
  <2>2. [i \in DOMAIN Units(text) |-> Units(text)[i].bytes] = bb
    BY <1>4, <2>1
  <2> QED BY <2>2, Zenon DEF BytesOf
<1>7. ASSUME NEW i \in 1 .. n PROVE Encodes(uu[i], bb[i], except)
  <2>1. bb[i] = text[i].unit.bytes /\ text[i].unit.bytes \in Seq(Bytes) /\ text[i].unit \in UnitRecords
    BY <1>3, <1>4, Zenon
  <2>2. CASE text[i].escaped
    <3>1. uu[i] = FlattenSeq([j \in DOMAIN text[i].unit.bytes |-> EscapeByte(text[i].unit.bytes[j])])
      BY <1>4, <2>2, Zenon
    <3> QED BY <2>1, <3>1, EscapedEncodes, Zenon
  <2>3. CASE ~text[i].escaped
    <3>1. uu[i] = <<text[i].unit>>
      BY <1>4, <2>3, Zenon
    <3>2. PICK u : u = text[i].unit
      OBVIOUS
    <3>3. \A k \in 1 .. Len(u.bytes) : u.bytes[k] # PERCENT /\ u.bytes[k] \notin except
      <4>1. \A c : c \notin reserved => c # PERCENT /\ c \notin except
        OBVIOUS
      <4> QED BY <1>2, <2>3, <3>2, <4>1, Zenon
    <3>4. Encodes(<<u>>, u.bytes, except)
      BY <2>1, <3>2, <3>3, UnitEncodes, Zenon
    <3> QED BY <2>1, <3>1, <3>2, <3>4, Zenon
  <2> QED BY <2>2, <2>3
<1>8. Encodes(FlattenSeq(uu), FlattenSeq(bb), except)
  <2>1. uu = [i \in 1 .. n |-> uu[i]] /\ bb = [i \in 1 .. n |-> bb[i]]
    BY <1>4
  <2> QED BY <1>2, <1>7, <2>1, EncodesFlatten, Zenon
<1>9. Encodes(Sent(text), BytesOf(Units(text)), except)
  BY <1>5, <1>6, <1>8, Zenon
<1>10. Sent(text) \in Seq(UnitRecords)
  BY <1>9, Zenon DEF Encodes
<1> QED BY <1>2, <1>9, <1>10, Zenon

-----------------------------------------------------------------------------
(* A query is its elements with a separator before each but the first.     *)
Behind1(i, element) == (IF i > 1 THEN <<AMP>> ELSE <<>>) \o element
JoinedBy(elements)  == [i \in 1 .. Len(elements) |-> Behind1(i, elements[i])]

Parted(text, ss, n, p) ==
    /\ n \in Nat /\ text \in Seq(Bytes) /\ ss \in Seq(Seq(Bytes)) /\ Len(ss) = n
    /\ p \in [0 .. n -> Nat] /\ p[0] = 0
    /\ n > 0 => p[n] = Len(text) + 1
    /\ n = 0 => text = <<>>
    /\ \A i \in 1 .. n :
          /\ p[i] = p[i - 1] + Len(ss[i]) + 1 /\ p[i] <= Len(text) + 1
          /\ \A k \in 1 .. Len(ss[i]) : text[p[i - 1] + k] = ss[i][k] /\ ss[i][k] # AMP
          /\ i < n => p[i] <= Len(text) /\ text[p[i]] = AMP

IsBehind(i, element, piece) ==
    /\ piece \in Seq(Bytes)
    /\ i > 1 => /\ Len(piece) = Len(element) + 1 /\ piece[1] = AMP
                /\ \A k \in 1 .. Len(element) : piece[k + 1] = element[k]
    /\ ~(i > 1) => piece = element

LEMMA Behind1Is ==
    ASSUME NEW element \in Seq(Bytes), NEW i \in Nat
    PROVE  IsBehind(i, element, Behind1(i, element))
<1>1. CASE i > 1
  <2>1. PICK s, piece : s = <<AMP>> /\ piece = s \o element
    OBVIOUS
  <2>2. s \in Seq(Bytes) /\ Len(s) = 1 /\ s[1] = AMP
    BY <2>1 DEF AMP, Bytes
  <2>3. Behind1(i, element) = piece
    BY <1>1, <2>1, Zenon DEF Behind1
  <2>4. piece \in Seq(Bytes) /\ Joined(s, element, piece)
    BY <2>1, <2>2, Concat, JoinedIs, Zenon
  <2>5. Len(element) \in Nat
    BY SequenceIs, Zenon
  <2>6. Len(piece) = 1 + Len(element) /\ piece[1] = AMP
        /\ \A k \in 1 .. Len(element) : piece[1 + k] = element[k]
    <3>1. 1 \in 1 .. 1
      OBVIOUS
    <3> QED BY <2>2, <2>4, <3>1, Zenon DEF Joined
  <2>7. \A k \in 1 .. Len(element) : k + 1 = 1 + k
    OBVIOUS
  <2>8. 1 + Len(element) = Len(element) + 1
    BY <2>5
  <2> QED BY <1>1, <2>3, <2>4, <2>6, <2>7, <2>8, Zenon DEF IsBehind
<1>2. CASE ~(i > 1)
  <2>1. Behind1(i, element) = <<>> \o element
    BY <1>2, Zenon DEF Behind1
  <2>2. <<>> \o element = element
    BY ConcatEmptySeq, Zenon
  <2> QED BY <1>2, <2>1, <2>2, Zenon DEF IsBehind
<1> QED BY <1>1, <1>2

LEMMA PartedIs ==
    ASSUME NEW ss \in Seq(Seq(Bytes)),
           \A i \in 1 .. Len(ss) : \A k \in 1 .. Len(ss[i]) : ss[i][k] # AMP
    PROVE  \E p : Parted(FlattenSeq(JoinedBy(ss)), ss, Len(ss), p)
<1>1. PICK n, R, qq : n = Len(ss) /\ R = Seq(Bytes) /\ qq = JoinedBy(ss)
  OBVIOUS
<1>2. n \in Nat /\ \A i \in 1 .. n : ss[i] \in R
  <2>1. ss \in Seq(R)
    BY <1>1, Zenon
  <2>2. n \in Nat
    BY <1>1
  <2> QED BY <1>1, <2>1, <2>2, Element, Zenon
<1>3. qq = [i \in 1 .. n |-> Behind1(i, ss[i])]
  BY <1>1, Zenon DEF JoinedBy
<1>4. ASSUME NEW i \in 1 .. n
      PROVE  /\ qq[i] \in R /\ qq[i] = Behind1(i, ss[i])
             /\ i > 1 => /\ Len(qq[i]) = Len(ss[i]) + 1 /\ qq[i][1] = AMP
                         /\ \A k \in 1 .. Len(ss[i]) : qq[i][k + 1] = ss[i][k]
             /\ ~(i > 1) => qq[i] = ss[i]
  <2>1. i \in Nat /\ ss[i] \in Seq(Bytes)
    <3>1. i \in Nat
      BY <1>2
    <3> QED BY <1>1, <1>2, <3>1
  <2>2. qq[i] = Behind1(i, ss[i])
    BY <1>3, Zenon
  <2>3. IsBehind(i, ss[i], qq[i])
    BY <2>1, <2>2, Behind1Is, Zenon
  <2> QED BY <1>1, <2>2, <2>3, Zenon DEF IsBehind
<1>5. qq \in Seq(Seq(Bytes)) /\ Len(qq) = n
  <2>1. qq \in [1 .. n -> R]
    BY <1>3, <1>4
  <2>2. qq \in Seq(R)
    BY <1>2, <2>1, IsSequence, Zenon
  <2> QED BY <1>1, <1>2, <2>1, <2>2
<1>6. PICK f : Flattens(f, qq, Bytes) /\ FlattenSeq(qq) = f[n]
  BY <1>5, FlattenIs, Zenon
<1>7. PICK text : text = FlattenSeq(qq) /\ text \in Seq(Bytes)
  BY <1>5, FlattenType, Zenon
<1>8. Places(f, qq, text)
  <2>1. Places(f, qq, f[Len(qq)] \o <<>>)
    BY <1>5, <1>6, Empty, PlacesAre, Zenon
  <2>2. text \o <<>> = text
    BY <1>7, ConcatEmptySeq, Zenon
  <2> QED BY <1>5, <1>6, <1>7, <2>1, <2>2, Zenon
<1>9. f[0] = <<>> /\ Len(f[0]) = 0 /\ \A i \in 0 .. n : Len(f[i]) \in Nat
  <2>1. f[0] = <<>> /\ \A i \in 0 .. n : f[i] \in Seq(Bytes)
    BY <1>5, <1>6, Zenon DEF Flattens
  <2>2. Len(<<>>) = 0
    OBVIOUS
  <2> QED BY <2>1, <2>2, SequenceIs, Zenon
<1>10. PICK p : p = [i \in 0 .. n |-> IF i = 0 THEN 0 ELSE Len(f[i]) + 1]
  OBVIOUS
<1>11. p \in [0 .. n -> Nat] /\ p[0] = 0 /\ \A i \in 1 .. n : p[i] = Len(f[i]) + 1
  <2>1. \A i \in 0 .. n : (IF i = 0 THEN 0 ELSE Len(f[i]) + 1) \in Nat
    BY <1>9
  <2>2. p \in [0 .. n -> Nat]
    BY <1>10, <2>1
  <2>3. 0 \in 0 .. n /\ \A i \in 1 .. n : i \in 0 .. n /\ i # 0
    BY <1>2
  <2> QED BY <1>10, <2>2, <2>3, Zenon
<1>12. ASSUME NEW i \in 1 .. n
       PROVE  /\ Len(f[i - 1]) \in Nat /\ Len(f[i]) = Len(f[i - 1]) + Len(qq[i])
              /\ Len(f[i]) <= Len(text) /\ Len(ss[i]) \in Nat /\ Len(text) \in Nat
              /\ \A k \in 1 .. Len(qq[i]) : text[Len(f[i - 1]) + k] = qq[i][k]
  <2>1. Len(ss[i]) \in Nat /\ Len(text) \in Nat
    BY <1>1, <1>2, <1>7, SequenceIs, Zenon
  <2> QED BY <1>5, <1>8, <2>1, Zenon DEF Places
<1>13. ASSUME NEW i \in 1 .. n
       PROVE  /\ p[i] = p[i - 1] + Len(ss[i]) + 1 /\ p[i] <= Len(text) + 1
              /\ \A k \in 1 .. Len(ss[i]) : text[p[i - 1] + k] = ss[i][k]
              /\ i > 1 => p[i - 1] <= Len(text) /\ text[p[i - 1]] = AMP
  <2>1. PICK l, b, e, h, m : /\ l = Len(ss[i]) /\ b = Len(f[i - 1]) /\ e = Len(f[i]) /\ h = i - 1
                             /\ m = Len(text)
    OBVIOUS
  <2>2. /\ l \in Nat /\ b \in Nat /\ e = b + Len(qq[i]) /\ e <= m /\ m \in Nat
        /\ \A k \in 1 .. Len(qq[i]) : text[b + k] = qq[i][k]
    BY <1>12, <2>1, Zenon
  <2>3. p[i] = e + 1
    BY <1>11, <2>1, Zenon
  <2>4. CASE i > 1
    <3>1. p[h] = b + 1
      <4>1. h \in 1 .. n
        BY <1>2, <2>1, <2>4
      <4> QED BY <1>11, <2>1, <4>1, Zenon
    <3>2. /\ Len(qq[i]) = l + 1 /\ qq[i][1] = AMP
          /\ \A k \in 1 .. l : qq[i][k + 1] = ss[i][k]
      BY <1>4, <2>1, <2>4, Zenon
    <3>3. p[i] = p[h] + l + 1 /\ p[i] <= m + 1 /\ p[h] <= m
      <4>1. e = b + (l + 1) /\ e <= m /\ l \in Nat /\ b \in Nat /\ m \in Nat
        BY <2>2, <3>2, Zenon
      <4>2. e + 1 = (b + 1) + l + 1 /\ e + 1 <= m + 1 /\ b + 1 <= m
        BY <4>1
      <4> QED BY <2>3, <3>1, <4>2, Zenon
    <3>4. text[p[h]] = AMP
      <4>1. 1 \in 1 .. l + 1
        BY <2>2
      <4> QED BY <2>2, <3>1, <3>2, <4>1, Zenon
    <3>5. ASSUME NEW k \in 1 .. l PROVE text[p[h] + k] = ss[i][k]
      <4>1. k + 1 \in 1 .. l + 1 /\ p[h] + k = b + (k + 1)
        BY <2>2, <3>1
      <4> QED BY <2>2, <3>2, <4>1, Zenon
    <3> QED BY <2>1, <2>4, <3>3, <3>4, <3>5, Zenon
  <2>5. CASE ~(i > 1)
    <3>1. i = 1 /\ h = 0
      BY <1>2, <2>1, <2>5
    <3>2. p[h] = 0 /\ b = 0
      BY <1>9, <1>11, <2>1, <3>1, Zenon
    <3>3. qq[i] = ss[i]
      BY <1>4, <2>5, Zenon
    <3>4. p[i] = p[h] + l + 1 /\ p[i] <= m + 1
      BY <2>1, <2>2, <2>3, <3>2, <3>3
    <3>5. \A k \in 1 .. l : text[p[h] + k] = ss[i][k]
      BY <2>1, <2>2, <3>2, <3>3, Zenon
    <3> QED BY <2>1, <2>5, <3>4, <3>5, Zenon
  <2> QED BY <2>4, <2>5
<1>14. ASSUME NEW i \in 1 .. n, i < n PROVE p[i] <= Len(text) /\ text[p[i]] = AMP
  <2>1. PICK j : j = i + 1
    OBVIOUS
  <2>2. j \in 1 .. n /\ j > 1 /\ j - 1 = i
    BY <1>2, <1>14, <2>1
  <2> QED BY <1>13, <2>2, Zenon
<1>15. (n > 0 => p[n] = Len(text) + 1) /\ (n = 0 => text = <<>>)
  <2>1. n > 0 => n \in 1 .. n
    BY <1>2
  <2> QED BY <1>6, <1>7, <1>9, <1>11, <2>1, Zenon
<1>16. Parted(text, ss, n, p)
  BY <1>1, <1>2, <1>7, <1>11, <1>13, <1>14, <1>15, Zenon DEF Parted
<1> QED BY <1>1, <1>7, <1>16, Zenon

LEMMA ElementFound ==
    ASSUME NEW text, NEW ss, NEW n, NEW p, Parted(text, ss, n, p), NEW i \in 1 .. n
    PROVE  /\ p[i - 1] \in Nat /\ Find(text, AMP, p[i - 1] + 1) = p[i]
           /\ SubSeq(text, p[i - 1] + 1, p[i] - 1) = ss[i]
<1>1. PICK h, l, e, m, s : h = p[i - 1] /\ l = Len(ss[i]) /\ e = p[i] /\ m = Len(text) /\ s = ss[i]
  OBVIOUS
<1>2. n \in Nat /\ text \in Seq(Bytes) /\ ss \in Seq(Seq(Bytes)) /\ Len(ss) = n /\ p \in [0 .. n -> Nat]
  BY Zenon DEF Parted
<1>3. s \in Seq(Bytes) /\ l \in Nat /\ m \in Nat /\ l = Len(s)
  <2>1. PICK R : R = Seq(Bytes)
    OBVIOUS
  <2>2. ss \in Seq(R)
    BY <1>2, <2>1, Zenon
  <2>3. s \in R
    BY <1>1, <1>2, <2>2, Element, Zenon
  <2> QED BY <1>1, <1>2, <2>1, <2>3, SequenceIs, Zenon
<1>4. h \in Nat
  <2>1. i - 1 \in 0 .. n
    BY <1>2
  <2> QED BY <1>1, <1>2, <2>1, Zenon
<1>5. e = h + l + 1 /\ e <= m + 1
  BY <1>1, Zenon DEF Parted
<1>6. /\ \A k \in 1 .. l : text[h + k] = s[k] /\ s[k] # AMP
      /\ i < n => e <= m /\ text[e] = AMP
  BY <1>1, Zenon DEF Parted
<1>7. ~(i < n) => e = m + 1
  <2>1. ~(i < n) => i = n /\ n > 0
    BY <1>2
  <2> QED BY <1>1, <2>1, Zenon DEF Parted
<1>8. PICK found, q : found = Find(text, AMP, h + 1) /\ q = h + 1
  OBVIOUS
<1>9. /\ found \in q .. m + 1 /\ (found <= m => text[found] = AMP)
      /\ \A k \in q .. found - 1 : text[k] # AMP
  <2>1. q \in 1 .. Len(text) + 1
    BY <1>1, <1>3, <1>4, <1>5, <1>8
  <2> QED BY <1>1, <1>2, <1>8, <2>1, FindIs, Zenon
<1>10. ~(found < e)
  <2> SUFFICES ASSUME found < e PROVE FALSE
    OBVIOUS
  <2>1. PICK k : k = found - h
    OBVIOUS
  <2>2. k \in 1 .. l /\ h + k = found /\ found <= m
    BY <1>3, <1>4, <1>5, <1>8, <1>9, <2>1
  <2> QED BY <1>6, <1>9, <2>2, Zenon
<1>11. ~(found > e)
  <2> SUFFICES ASSUME found > e PROVE FALSE
    OBVIOUS
  <2>1. e # m + 1 /\ e \in q .. found - 1
    BY <1>3, <1>4, <1>5, <1>8, <1>9
  <2> QED BY <1>6, <1>7, <1>9, <2>1, Zenon
<1>12. found = e
  BY <1>3, <1>4, <1>5, <1>8, <1>9, <1>10, <1>11
<1>13. SubSeq(text, h + 1, e - 1) = s
  <2>1. e - 1 = h + l /\ h + l <= m
    BY <1>3, <1>4, <1>5
  <2>2. PICK part : part = SubSeq(text, h + 1, h + l)
    OBVIOUS
  <2>3. IsPart(text, h, l, Bytes, part)
    BY <1>1, <1>2, <1>3, <1>4, <2>1, <2>2, PartIs, Zenon
  <2>4. part \in Seq(Bytes) /\ Len(part) = l /\ \A k \in 1 .. l : part[k] = s[k]
    BY <1>6, <2>3, Zenon DEF IsPart
  <2>5. part = s
    BY <1>3, <2>4, SeqEqual, Zenon
  <2> QED BY <2>1, <2>2, <2>5
<1> QED BY <1>1, <1>4, <1>8, <1>12, <1>13, Zenon

(* An empty element at the end is none.                                    *)
CountOf(ss) == IF Len(ss) > 0 /\ ss[Len(ss)] = <<>> THEN Len(ss) - 1 ELSE Len(ss)

LEMMA ElementsJoin ==
    ASSUME NEW ss \in Seq(Seq(Bytes)),
           \A i \in 1 .. Len(ss) : \A k \in 1 .. Len(ss[i]) : ss[i][k] # AMP
    PROVE  /\ Elements(FlattenSeq(JoinedBy(ss)), AMP) = [i \in 1 .. CountOf(ss) |-> ss[i]]
           /\ CountOf(ss) \in 0 .. Len(ss)
<1>1. PICK text, n, c : text = FlattenSeq(JoinedBy(ss)) /\ n = Len(ss) /\ c = CountOf(ss)
  OBVIOUS
<1>2. PICK p : Parted(text, ss, n, p)
  BY <1>1, PartedIs, Zenon
<1>3. n \in Nat /\ text \in Seq(Bytes) /\ p \in [0 .. n -> Nat]
  BY <1>2, Zenon DEF Parted
<1>4. c \in 0 .. n
  BY <1>1, <1>3 DEF CountOf
<1>5. PICK f, m : Splits(f, text, AMP) /\ Elements(text, AMP) = f[1] /\ m = Len(text)
  BY <1>3, ElementsIs, Zenon
<1>6. m \in Nat
  BY <1>3, <1>5, SequenceIs, Zenon
<1>7. ASSUME NEW i \in 1 .. m + 2
      PROVE  f[i] = IF i > m THEN <<>>
                    ELSE <<SubSeq(text, i, Find(text, AMP, i) - 1)>> \o f[Find(text, AMP, i) + 1]
  BY <1>5, Zenon DEF Splits
<1>8. PICK g : g = [j \in 0 .. n |-> f[p[j] + 1]]
  OBVIOUS
<1>9. \A i \in 1 .. n : /\ p[i - 1] \in Nat /\ p[i] \in Nat /\ Len(ss[i]) \in Nat
                        /\ p[i] = p[i - 1] + Len(ss[i]) + 1 /\ p[i] <= m + 1
  <2> TAKE i \in 1 .. n
  <2>1. i - 1 \in 0 .. n /\ i \in 0 .. n
    BY <1>3
  <2>2. Len(ss[i]) \in Nat
    <3>1. PICK R : R = Seq(Bytes)
      OBVIOUS
    <3>2. ss \in Seq(R)
      BY <3>1, Zenon
    <3>3. ss[i] \in R
      BY <1>1, <3>2, Element, Zenon
    <3> QED BY <3>1, <3>3, SequenceIs, Zenon
  <2> QED BY <1>2, <1>3, <1>5, <2>1, <2>2, Zenon DEF Parted
<1>10. ASSUME NEW j \in 1 .. c PROVE g[j - 1] = <<ss[j]>> \o g[j]
  <2>1. j \in 1 .. n /\ j - 1 \in 0 .. n /\ j \in 0 .. n
    BY <1>3, <1>4
  <2>2. PICK h, l, e, a : h = p[j - 1] /\ l = Len(ss[j]) /\ e = p[j] /\ a = h + 1
    OBVIOUS
  <2>3. h \in Nat /\ e \in Nat /\ l \in Nat /\ e = h + l + 1 /\ e <= m + 1
    BY <1>9, <2>1, <2>2, Zenon
  <2>4. a <= m
    <3>1. CASE j < n
      <4>1. e <= m
        BY <1>2, <1>5, <2>1, <2>2, <3>1, Zenon DEF Parted
      <4> QED BY <1>6, <2>2, <2>3, <4>1
    <3>2. CASE ~(j < n)
      <4>1. j = n /\ c = n /\ n > 0
        BY <1>3, <1>4, <2>1, <3>2
      <4>2. ss[j] # <<>>
        <5>1. c = IF n > 0 /\ ss[n] = <<>> THEN n - 1 ELSE n
          BY <1>1, Zenon DEF CountOf
        <5>2. n - 1 # n
          BY <1>3
        <5> QED BY <4>1, <5>1, <5>2, Zenon
      <4>3. l # 0
        <5>1. PICK R : R = Seq(Bytes)
          OBVIOUS
        <5>2. ss \in Seq(R)
          BY <5>1, Zenon
        <5>3. ss[j] \in R
          BY <1>1, <2>1, <5>2, Element, Zenon
        <5>4. PICK s : s = ss[j] /\ s \in Seq(Bytes) /\ s # <<>>
          BY <4>2, <5>1, <5>3, Zenon
        <5>5. Len(s) # 0
          BY <5>4
        <5> QED BY <2>2, <5>4, <5>5, Zenon
      <4> QED BY <1>6, <2>2, <2>3, <4>3
    <3> QED BY <3>1, <3>2
  <2>5. a \in 1 .. m + 2 /\ ~(a > m)
    BY <1>6, <2>2, <2>3, <2>4
  <2>6. Find(text, AMP, a) = e /\ SubSeq(text, a, e - 1) = ss[j]
    <3>1. /\ Find(text, AMP, p[j - 1] + 1) = p[j]
          /\ SubSeq(text, p[j - 1] + 1, p[j] - 1) = ss[j]
      BY <1>2, <2>1, ElementFound
    <3> QED BY <2>2, <3>1
  <2>7. f[a] = <<ss[j]>> \o f[e + 1]
    BY <1>7, <2>5, <2>6, Zenon
  <2> QED BY <1>8, <2>1, <2>2, <2>7, Zenon
<1>11. g[c] = <<>>
  <2>1. PICK a : a = p[c] + 1
    OBVIOUS
  <2>2. p[c] \in Nat
    BY <1>3, <1>4, Zenon
  <2>3. a > m /\ a <= m + 2
    <3>1. CASE n = 0
      <4>1. text = <<>> /\ p[0] = 0 /\ c = 0
        BY <1>2, <1>4, <3>1 DEF Parted
      <4>2. m = 0
        BY <1>5, <4>1
      <4> QED BY <2>1, <4>1, <4>2
    <3>2. CASE n > 0 /\ c = n
      <4>1. p[n] = m + 1
        BY <1>2, <1>5, <3>2, Zenon DEF Parted
      <4> QED BY <1>6, <2>1, <3>2, <4>1
    <3>3. CASE n > 0 /\ c # n
      <4>1. c = n - 1 /\ ss[n] = <<>>
        BY <1>1, <3>3, Zenon DEF CountOf
      <4>2. p[n] = m + 1 /\ n \in 1 .. n
        <5>1. n \in 1 .. n
          BY <1>3, <3>3
        <5> QED BY <1>2, <1>5, <3>3, <5>1, Zenon DEF Parted
      <4>3. Len(ss[n]) = 0
        BY <4>1
      <4>4. PICK b : b = p[c]
        OBVIOUS
      <4>5. p[n] = b + Len(ss[n]) + 1
        BY <1>9, <4>1, <4>2, <4>4, Zenon
      <4>6. m + 1 = b + 0 + 1
        BY <4>2, <4>3, <4>5, Zenon
      <4>7. b = m
        BY <1>6, <2>2, <4>4, <4>6
      <4> QED BY <1>6, <2>1, <4>4, <4>7
    <3> QED BY <1>3, <3>1, <3>2, <3>3
  <2>4. a \in 1 .. m + 2
    BY <1>6, <2>1, <2>2, <2>3
  <2> QED BY <1>4, <1>7, <1>8, <2>1, <2>3, <2>4, Zenon
<1>12. PICK s, S : s = [i \in 1 .. c |-> ss[i]] /\ S = Seq(Bytes)
  OBVIOUS
<1>13. c \in Nat /\ \A i \in 1 .. c : i \in 1 .. n
  BY <1>3, <1>4
<1>14. s \in Seq(S) /\ Len(s) = c /\ \A i \in 1 .. c : s[i] = ss[i]
  <2>1. ss \in Seq(S)
    BY <1>12, Zenon
  <2>2. \A i \in 1 .. c : ss[i] \in S
    BY <1>1, <1>13, <2>1, Element, Zenon
  <2>3. s \in [1 .. c -> S]
    BY <1>12, <2>2, Zenon
  <2>4. s \in Seq(S)
    BY <1>13, <2>3, IsSequence, Zenon
  <2>5. Len(s) = c
    BY <1>13, <2>3, <2>4
  <2> QED BY <1>12, <2>4, <2>5, Zenon
<1>15. PICK ww : ww = [i \in 1 .. c |-> <<s[i]>>]
  OBVIOUS
<1>16. ww \in Seq(Seq(S)) /\ Len(ww) = c /\ \A i \in 1 .. c : ww[i] = <<ss[i]>>
  <2>1. PICK R : R = Seq(S)
    OBVIOUS
  <2>2. \A i \in 1 .. c : <<s[i]>> \in R
    <3> TAKE i \in 1 .. c
    <3>1. PICK x : x = s[i]
      OBVIOUS
    <3>2. x \in S
      BY <1>14, <3>1, Element, Zenon
    <3>3. <<x>> \in Seq(S)
      BY <3>2
    <3> QED BY <2>1, <3>1, <3>3, Zenon
  <2>3. ww \in [1 .. c -> R]
    BY <1>15, <2>2, Zenon
  <2>4. ww \in Seq(R)
    BY <1>13, <2>3, IsSequence, Zenon
  <2>5. Len(ww) = c
    BY <1>13, <2>3, <2>4
  <2> QED BY <1>14, <1>15, <2>1, <2>4, <2>5, Zenon
<1>17. g[0] = FlattenSeq(ww)
  <2>1. \A i \in 1 .. c : g[i - 1] = ww[i] \o g[i]
    BY <1>10, <1>16, Zenon
  <2> QED BY <1>11, <1>13, <1>16, <2>1, WalkIs, Zenon
<1>18. FlattenSeq(ww) = s
  BY <1>14, <1>15, FlattenSingles, Zenon
<1>19. g[0] = f[1]
  <2>1. 0 \in 0 .. n /\ 0 + 1 = 1
    BY <1>3
  <2>2. p[0] = 0
    BY <1>2, Zenon DEF Parted
  <2> QED BY <1>8, <2>1, <2>2, Zenon
<1> QED BY <1>1, <1>4, <1>5, <1>12, <1>17, <1>18, <1>19, Zenon

-----------------------------------------------------------------------------
(* A field.  What is sent for a text has bytes, whatever it is.            *)
SolidUnits == {unit \in UnitRecords : unit.bytes # <<>>}

LEMMA NoBytes ==
    ASSUME NEW units \in Seq(SolidUnits), BytesOf(units) = <<>>
    PROVE  units = <<>>
<1> SUFFICES ASSUME units # <<>> PROVE FALSE
  OBVIOUS
<1>1. PICK n : n = Len(units) /\ units \in Seq(UnitRecords)
  BY DEF SolidUnits
<1>2. PICK u, rest1 : u = units[1] /\ rest1 = SubSeq(units, 1 + 1, n)
  OBVIOUS
<1>3. n \in Nat /\ n > 0 /\ 1 \in 1 .. n
  BY <1>1
<1>4. u \in SolidUnits
  BY <1>1, <1>2, <1>3, Element, Zenon
<1>5. IsSplit(units, n, 1, UnitRecords, SubSeq(units, 1, 1), rest1)
  <2>1. 1 \in 0 .. n
    BY <1>3
  <2> QED BY <1>1, <1>2, <1>3, <2>1, SplitAt, Zenon
<1>6. PICK head : head = SubSeq(units, 1, 1)
  OBVIOUS
<1>7. /\ head \in Seq(UnitRecords) /\ Len(head) = 1 /\ head[1] = u
      /\ rest1 \in Seq(UnitRecords) /\ units = head \o rest1
  <2>1. 1 \in 1 .. 1
    OBVIOUS
  <2> QED BY <1>2, <1>5, <1>6, <2>1, Zenon DEF IsSplit
<1>8. u \in UnitRecords /\ u.bytes # <<>> /\ u.bytes \in Seq(Bytes)
  BY <1>4 DEF SolidUnits, UnitRecords
<1>9. head = <<u>>
  <2>1. PICK R : R = UnitRecords
    OBVIOUS
  <2>2. head \in Seq(R)
    BY <1>7, <2>1, Zenon
  <2> QED BY <1>7, <2>2
<1>10. BytesOf(head) = u.bytes
  BY <1>8, <1>9, OneUnit, Zenon
<1>11. BytesOf(units) = u.bytes \o BytesOf(rest1) /\ BytesOf(rest1) \in Seq(Bytes)
  BY <1>7, <1>10, BytesOfConcat, Zenon
<1>12. PICK a, b : a = u.bytes /\ b = BytesOf(rest1)
  OBVIOUS
<1>13. a \in Seq(Bytes) /\ b \in Seq(Bytes) /\ a # <<>> /\ a \o b = <<>>
  BY <1>8, <1>11, <1>12
<1> QED BY <1>13

LEMMA SentSolid ==
    ASSUME NEW reserved, NEW text, IsTyped(text, reserved)
    PROVE  Sent(text) \in Seq(SolidUnits)
<1>1. PICK n, R : n = Len(text) /\ R = Seq(SolidUnits)
  OBVIOUS
<1>2. /\ text \in Seq(TypedUnits)
      /\ \A i \in 1 .. n : ~text[i].escaped => IsUnit(text[i].unit)
  BY <1>1, Zenon DEF IsTyped
<1>3. n \in Nat /\ DOMAIN text = 1 .. n
  <2>1. PICK T : T = TypedUnits
    OBVIOUS
  <2>2. text \in Seq(T)
    BY <1>2, <2>1, Zenon
  <2> QED BY <1>1, <2>2
<1>4. PICK uu :
         uu = [i \in 1 .. n |->
                  IF text[i].escaped
                  THEN FlattenSeq([j \in DOMAIN text[i].unit.bytes |->
                                      EscapeByte(text[i].unit.bytes[j])])
                  ELSE <<text[i].unit>>]
  OBVIOUS
<1>5. Sent(text) = FlattenSeq(uu)
  BY <1>3, <1>4, Zenon DEF Sent
<1>6. ASSUME NEW i \in 1 .. n PROVE uu[i] \in R
  <2>1. text[i] \in TypedUnits
    BY <1>1, <1>2, Element, Zenon
  <2>2. PICK u : u = text[i].unit /\ u \in UnitRecords
    BY <2>1 DEF TypedUnits
  <2>3. u.bytes \in Seq(Bytes)
    BY <2>2 DEF UnitRecords
  <2>4. CASE text[i].escaped
    <3>1. PICK b, m : b = u.bytes /\ m = Len(b)
      OBVIOUS
    <3>2. b \in Seq(Bytes) /\ m \in Nat /\ DOMAIN b = 1 .. m
      BY <2>3, <3>1
    <3>3. PICK ee : ee = [j \in 1 .. m |-> EscapeByte(b[j])]
      OBVIOUS
    <3>4. uu[i] = FlattenSeq(ee)
      BY <1>4, <2>2, <2>4, <3>1, <3>2, <3>3, Zenon
    <3>5. ASSUME NEW j \in 1 .. m PROVE EscapeByte(b[j]) \in R
      <4>1. b[j] \in Bytes
        BY <3>1, <3>2, Element, Zenon
      <4>2. EscapeByte(b[j]) \in Seq(UnitRecords)
        BY <4>1, EscapeEncodes, Zenon DEF Encodes
      <4>3. EscapeByte(b[j]) = <<Ascii(PERCENT), Ascii(UpperDigit(b[j] \div 16)),
                                 Ascii(HexDigit(b[j] % 16))>>
        BY Zenon DEF EscapeByte
      <4>4. \A c : Ascii(c).bytes # <<>>
        BY DEF Ascii, Unit
      <4>5. PICK x, y, z, U : /\ x = Ascii(PERCENT) /\ y = Ascii(UpperDigit(b[j] \div 16))
                              /\ z = Ascii(HexDigit(b[j] % 16)) /\ U = UnitRecords
        OBVIOUS
      <4>6. <<x, y, z>> \in Seq(U)
        BY <4>2, <4>3, <4>5, Zenon
      <4>7. x \in U /\ y \in U /\ z \in U
        BY <4>6
      <4>8. x \in SolidUnits /\ y \in SolidUnits /\ z \in SolidUnits
        BY <4>4, <4>5, <4>7 DEF SolidUnits
      <4>9. <<x, y, z>> \in Seq(SolidUnits)
        <5> HIDE DEF SolidUnits
        <5> QED BY <4>8
      <4> QED BY <1>1, <4>3, <4>5, <4>9, Zenon
    <3>6. ee \in Seq(R)
      <4>1. ee \in [1 .. m -> R]
        BY <3>3, <3>5, Zenon
      <4> QED BY <3>2, <4>1, IsSequence, Zenon
    <3> QED BY <1>1, <3>4, <3>6, FlattenType, Zenon
  <2>5. CASE ~text[i].escaped
    <3>1. uu[i] = <<u>>
      BY <1>4, <2>2, <2>5, Zenon
    <3>2. u.bytes # <<>>
      BY <1>2, <2>2, <2>5, Zenon DEF IsUnit
    <3>3. u \in SolidUnits
      BY <2>2, <3>2, Zenon DEF SolidUnits
    <3>4. <<u>> \in Seq(SolidUnits)
      <4> HIDE DEF SolidUnits
      <4> QED BY <3>3
    <3> QED BY <1>1, <3>1, <3>4, Zenon
  <2> QED BY <2>4, <2>5
<1>7. uu \in Seq(R)
  <2>1. uu \in [1 .. n -> R]
    BY <1>4, <1>6, Zenon
  <2> QED BY <1>3, <2>1, IsSequence, Zenon
<1> QED BY <1>1, <1>5, <1>7, FlattenType, Zenon

(* A text that cannot be split.                                            *)
LEMMA KeyValueAlone ==
    ASSUME NEW text \in Seq(Bytes), \A k \in 1 .. Len(text) : text[k] # EQUALS
    PROVE  KeyValue(text) = <<text, <<>>>>
<1>1. PICK n, cut : n = Len(text) /\ cut = Find(text, EQUALS, 1)
  OBVIOUS
<1>2. n \in Nat
  BY <1>1
<1>3. cut \in 1 .. n + 1 /\ (cut <= n => text[cut] = EQUALS)
  <2>1. 1 \in 1 .. Len(text) + 1
    BY <1>1, <1>2
  <2> QED BY <1>1, <2>1, FindIs, Zenon
<1>4. cut = n + 1
  <2>1. ~(cut <= n)
    <3>1. cut <= n => cut \in 1 .. n
      BY <1>2, <1>3
    <3> QED BY <1>1, <1>3, <3>1, Zenon
  <2> QED BY <1>2, <1>3, <2>1
<1>5. cut - 1 = n /\ cut + 1 > n /\ cut \in Nat
  BY <1>2, <1>4
<1>6. SubSeq(text, 1, cut - 1) = text
  BY <1>1, <1>5
<1>7. SubSeq(text, cut + 1, n) = <<>>
  BY <1>2, <1>5
<1> QED BY <1>1, <1>6, <1>7 DEF KeyValue

(* What a field is when it arrives.                                        *)
Arrives(field, text) ==
    /\ SentField(field) \in Seq(SolidUnits)
    /\ text = BytesOf(SentField(field)) /\ text \in Seq(Bytes)
    /\ \A k \in 1 .. Len(text) : text[k] # AMP
    /\ Told(Row(QueryDecode(KeyValue(text)[1]), QueryDecode(KeyValue(text)[2])),
            FieldCells(field))

LEMMA FieldArrives ==
    ASSUME NEW field, IsField(field)
    PROVE  Arrives(field, BytesOf(SentField(field)))
<1>1. PICK x, a, A, ka : /\ x = field[1] /\ a = Sent(x) /\ A = BytesOf(a)
                         /\ ka = BytesOf(Units(x))
  OBVIOUS
<1>2. Encodes(a, ka, Separators) /\ IsReadable(Units(x)) /\ a \in Seq(SolidUnits)
  <2>1. Separators \subseteq Separators /\ {AMP, PERCENT, EQUALS} = Separators \cup {PERCENT}
    BY DEF Separators
  <2>2. IsTyped(x, {AMP, PERCENT, EQUALS})
    BY <1>1, Zenon DEF IsField
  <2> QED BY <1>1, <2>1, <2>2, SentEncodes, SentSolid, Zenon
<1>3. A \in Seq(Bytes) /\ QueryDecode(A) = ka /\ \A k \in 1 .. Len(A) : A[k] # AMP /\ A[k] # EQUALS
  <2>1. QueryDecode(A) = ka
    BY <1>1, <1>2, EncodesDecoded, Zenon
  <2>2. \A c : c \notin Separators => c # AMP /\ c # EQUALS
    BY DEF Separators
  <2> QED BY <1>1, <1>2, <2>1, <2>2, Zenon DEF Encodes
<1>4. CASE Len(field) = 1
  <2>1. SentField(field) = a
    <3>1. SentField(field) = a \o <<>>
      <4>1. Len(field) # 2
        BY <1>4
      <4> QED BY <1>1, <4>1, Zenon DEF SentField
    <3> QED BY <1>2, <3>1, ConcatEmptySeq, Zenon
  <2>2. KeyValue(A) = <<A, <<>>>>
    BY <1>3, KeyValueAlone, Zenon
  <2>3. BytesOf(<<>>) = <<>> /\ ShownOf(<<>>) = <<>>
    <3>1. [i \in DOMAIN <<>> |-> <<>>[i].bytes] = <<>> /\ [i \in DOMAIN <<>> |-> <<>>[i].shown] = <<>>
      OBVIOUS
    <3>2. FlattenSeq(<<>>) = <<>>
      BY Empty, FlattenOne
    <3> QED BY <3>1, <3>2 DEF BytesOf, ShownOf
  <2>4. QueryDecode(<<>>) = <<>>
    <3>1. QueryDecode(BytesOf(<<>>)) = <<>>
      BY EncodesNothing, EncodesDecoded, Zenon
    <3> QED BY <2>3, <3>1
  <2>5. IsReadable(<<>>)
    <3>1. <<>> \in Seq(UnitRecords)
      BY Empty, Zenon
    <3>2. \A i \in 1 .. Len(<<>>) : FALSE
      OBVIOUS
    <3> QED BY <3>1, <3>2, Zenon DEF IsReadable, IsText
  <2>6. Told(Row(BytesOf(Units(x)), BytesOf(<<>>)), <<ShownOf(Units(x)), ShownOf(<<>>)>>)
    BY <1>2, <2>5, ToldRow, Zenon
  <2>7. FieldCells(field) = <<ShownOf(Units(x)), <<>>>>
    <3>1. Len(field) # 2
      BY <1>4
    <3> QED BY <1>1, <3>1, Zenon DEF FieldCells
  <2>8. KeyValue(A)[1] = A /\ KeyValue(A)[2] = <<>>
    BY <2>2
  <2>9. Told(Row(QueryDecode(KeyValue(A)[1]), QueryDecode(KeyValue(A)[2])), FieldCells(field))
    BY <1>1, <1>3, <2>3, <2>4, <2>6, <2>7, <2>8, Zenon
  <2> QED BY <1>1, <1>2, <1>3, <2>1, <2>9, Zenon DEF Arrives
<1>5. CASE Len(field) = 2
  <2>1. PICK y, b, B, kb : /\ y = field[2] /\ b = Sent(y) /\ B = BytesOf(b)
                           /\ kb = BytesOf(Units(y))
    OBVIOUS
  <2>2. Encodes(b, kb, {AMP}) /\ IsReadable(Units(y)) /\ b \in Seq(SolidUnits)
    <3>1. {AMP} \subseteq Separators /\ {AMP, PERCENT} = {AMP} \cup {PERCENT}
      BY DEF Separators
    <3>2. IsTyped(y, {AMP, PERCENT})
      BY <1>5, <2>1, Zenon DEF IsField
    <3> QED BY <2>1, <3>1, <3>2, SentEncodes, SentSolid, Zenon
  <2>3. B \in Seq(Bytes) /\ QueryDecode(B) = kb /\ \A k \in 1 .. Len(B) : B[k] # AMP
    <3>1. QueryDecode(B) = kb
      BY <2>1, <2>2, EncodesDecoded, Zenon
    <3>2. \A c : c \notin {AMP} => c # AMP
      OBVIOUS
    <3> QED BY <2>1, <2>2, <3>1, <3>2, Zenon DEF Encodes
  <2>4. PICK e : e = <<Ascii(EQUALS)>>
    OBVIOUS
  <2>5. e \in Seq(SolidUnits) /\ BytesOf(e) = <<EQUALS>> /\ e \in Seq(UnitRecords)
    <3>1. PICK u : u = Ascii(EQUALS)
      OBVIOUS
    <3>2. u \in UnitRecords /\ u.bytes = <<EQUALS>>
      <4>1. EQUALS \in Bytes
        BY DEF EQUALS, Bytes
      <4> QED BY <3>1, <4>1, AsciiIs, Zenon
    <3>3. u \in SolidUnits
      BY <3>2 DEF SolidUnits
    <3>4. <<u>> \in Seq(SolidUnits)
      <4> HIDE DEF SolidUnits
      <4> QED BY <3>3
    <3>5. <<u>> \in Seq(UnitRecords)
      <4> HIDE DEF UnitRecords
      <4> QED BY <3>2
    <3> QED BY <2>4, <3>1, <3>2, <3>4, <3>5, OneUnit, Zenon
  <2>6. PICK eb : eb = e \o b
    OBVIOUS
  <2>7. SentField(field) = a \o eb /\ SentField(field) \in Seq(SolidUnits) /\ eb \in Seq(UnitRecords)
    <3>1. SentField(field) = a \o eb
      BY <1>1, <1>5, <2>1, <2>4, <2>6, Zenon DEF SentField
    <3>2. eb \in Seq(SolidUnits)
      BY <2>2, <2>5, <2>6, Concat, Zenon
    <3>3. a \o eb \in Seq(SolidUnits)
      BY <1>2, <3>2, Concat, Zenon
    <3>4. b \in Seq(UnitRecords)
      BY <2>2, Zenon DEF Encodes
    <3>5. eb \in Seq(UnitRecords)
      BY <2>5, <2>6, <3>4, Concat, Zenon
    <3> QED BY <3>1, <3>3, <3>5, Zenon
  <2>8. PICK text : text = BytesOf(SentField(field))
    OBVIOUS
  <2>9. text = Named(A) \o B
    <3>1. BytesOf(eb) = <<EQUALS>> \o B
      <4>1. b \in Seq(UnitRecords)
        BY <2>2, Zenon DEF Encodes
      <4> QED BY <2>1, <2>5, <2>6, <4>1, BytesOfConcat, Zenon
    <3>2. text = A \o (<<EQUALS>> \o B)
      <4>1. a \in Seq(UnitRecords)
        BY <1>2, Zenon DEF Encodes
      <4> QED BY <1>1, <2>7, <2>8, <3>1, <4>1, BytesOfConcat, Zenon
    <3>3. PICK E : E = <<EQUALS>>
      OBVIOUS
    <3>4. E \in Seq(Bytes)
      BY <3>3 DEF EQUALS, Bytes
    <3>5. A \o (E \o B) = (A \o E) \o B
      BY <1>3, <2>3, <3>4
    <3>6. Named(A) = A \o E
      BY <3>3, Zenon DEF Named
    <3> QED BY <3>2, <3>3, <3>5, <3>6, Zenon
  <2>10. KeyValue(text)[1] = A /\ KeyValue(text)[2] = B
    <3>1. KeyValue(text) = <<A, B>>
      <4>1. \A i \in 1 .. Len(A) : A[i] # EQUALS
        BY <1>3
      <4>2. KeyValue(Named(A) \o B) = <<A, B>>
        BY <1>3, <2>3, <4>1, KeyValueOf
      <4> QED BY <2>9, <4>2
    <3> QED BY <3>1
  <2>11. text \in Seq(Bytes) /\ \A k \in 1 .. Len(text) : text[k] # AMP
    <3>1. PICK N : N = Bytes \ {AMP}
      OBVIOUS
    <3>2. Named(A) \in Seq(N)
      <4>1. PICK name, m : name = Named(A) /\ m = Len(A)
        OBVIOUS
      <4>2. /\ name \in Seq(Bytes) /\ Len(name) = m + 1 /\ m \in Nat
            /\ \A i \in 1 .. m : name[i] = A[i] /\ A[i] # AMP
            /\ name[m + 1] # AMP
        <5>1. EQUALS # AMP
          BY DEF EQUALS, AMP
        <5>2. m \in Nat
          BY <1>3, <4>1, SequenceIs, Zenon
        <5> QED BY <1>3, <4>1, <5>1, <5>2, NamedIs
      <4>3. \A i \in 1 .. Len(name) : name[i] \in N
        BY <3>1, <4>2
      <4> QED BY <4>1, <4>2, <4>3
    <3>3. B \in Seq(N)
      <4>1. \A i \in 1 .. Len(B) : B[i] \in N
        BY <2>3, <3>1
      <4> QED BY <2>3, <4>1
    <3>4. text \in Seq(N)
      BY <2>9, <3>2, <3>3, Concat, Zenon
    <3> QED BY <3>1, <3>4
  <2>12. Told(Row(ka, kb), <<ShownOf(Units(x)), ShownOf(Units(y))>>)
    BY <1>1, <1>2, <2>1, <2>2, ToldRow, Zenon
  <2>13. FieldCells(field) = <<ShownOf(Units(x)), ShownOf(Units(y))>>
    BY <1>1, <1>5, <2>1, Zenon DEF FieldCells
  <2>14. Told(Row(QueryDecode(KeyValue(text)[1]), QueryDecode(KeyValue(text)[2])), FieldCells(field))
    BY <1>3, <2>3, <2>10, <2>12, <2>13, Zenon
  <2> QED BY <2>7, <2>8, <2>11, <2>14, Zenon DEF Arrives
<1> QED
  <2>1. Len(field) = 1 \/ Len(field) = 2
    BY DEF IsField
  <2> QED BY <1>4, <1>5, <2>1


(* A form in bytes is its fields in bytes, with separators.                *)
LEMMA FormArrives ==
    ASSUME NEW form, NEW n \in Nat, DOMAIN form = 1 .. n,
           \A i \in 1 .. n : IsField(form[i]),
           NEW ss, ss = [i \in 1 .. n |-> BytesOf(SentField(form[i]))]
    PROVE  /\ ss \in Seq(Seq(Bytes)) /\ Len(ss) = n
           /\ BytesOf(SentForm(form)) = FlattenSeq(JoinedBy(ss))
<1>1. PICK R, U : R = Seq(Bytes) /\ U = Seq(UnitRecords)
  OBVIOUS
<1>2. ASSUME NEW i \in 1 .. n
      PROVE  /\ SentField(form[i]) \in U /\ ss[i] = BytesOf(SentField(form[i])) /\ ss[i] \in R
  <2>1. ss[i] = BytesOf(SentField(form[i]))
    OBVIOUS
  <2>2. Arrives(form[i], ss[i])
    BY <2>1, FieldArrives, Zenon
  <2>3. SentField(form[i]) \in Seq(SolidUnits) /\ ss[i] \in Seq(Bytes)
    BY <2>2, Zenon DEF Arrives
  <2>4. PICK sent : sent = SentField(form[i])
    OBVIOUS
  <2>5. sent \in Seq(UnitRecords)
    BY <2>3, <2>4 DEF SolidUnits
  <2> QED BY <1>1, <2>1, <2>3, <2>4, <2>5, Zenon
<1>3. ss \in Seq(R) /\ Len(ss) = n
  <2>1. ss \in [1 .. n -> R]
    BY <1>2
  <2> QED BY <2>1, IsSequence
<1>4. PICK uu, qq, b : /\ uu = [i \in 1 .. n |->
                                   (IF i > 1 THEN <<Ascii(AMP)>> ELSE <<>>) \o SentField(form[i])]
                       /\ qq = [i \in 1 .. n |-> Behind1(i, ss[i])]
                       /\ b = <<Ascii(AMP)>>
  OBVIOUS
<1>5. SentForm(form) = FlattenSeq(uu) /\ JoinedBy(ss) = qq
  BY <1>3, <1>4, Zenon DEF SentForm, JoinedBy
<1>6. b \in U /\ BytesOf(b) = <<AMP>>
  <2>1. PICK u : u = Ascii(AMP)
    OBVIOUS
  <2>2. u \in UnitRecords /\ u.bytes = <<AMP>>
    <3>1. AMP \in Bytes
      BY DEF AMP, Bytes
    <3> QED BY <2>1, <3>1, AsciiIs, Zenon
  <2>3. <<u>> \in Seq(UnitRecords)
    <3> HIDE DEF UnitRecords
    <3> QED BY <2>2
  <2> QED BY <1>1, <1>4, <2>1, <2>2, <2>3, OneUnit, Zenon
<1>7. ASSUME NEW i \in 1 .. n PROVE uu[i] \in U /\ qq[i] \in R /\ BytesOf(uu[i]) = qq[i]
  <2>1. PICK sent, s : sent = SentField(form[i]) /\ s = ss[i]
    OBVIOUS
  <2>2. sent \in Seq(UnitRecords) /\ s \in Seq(Bytes) /\ BytesOf(sent) = s
    BY <1>1, <1>2, <2>1, Zenon
  <2>3. CASE i > 1
    <3>1. uu[i] = b \o sent /\ qq[i] = <<AMP>> \o s
      BY <1>4, <2>1, <2>3, Zenon DEF Behind1
    <3>2. BytesOf(b \o sent) = <<AMP>> \o s
      BY <1>1, <1>6, <2>2, BytesOfConcat, Zenon
    <3>3. b \o sent \in Seq(UnitRecords)
      BY <1>1, <1>6, <2>2, Concat, Zenon
    <3>4. <<AMP>> \o s \in Seq(Bytes)
      BY <1>1, <1>6, <2>2, BytesOfConcat, Concat, Zenon
    <3> QED BY <1>1, <3>1, <3>2, <3>3, <3>4, Zenon
  <2>4. CASE ~(i > 1)
    <3>1. uu[i] = <<>> \o sent /\ qq[i] = <<>> \o s
      BY <1>4, <2>1, <2>4, Zenon DEF Behind1
    <3>2. <<>> \o sent = sent /\ <<>> \o s = s
      BY <2>2, ConcatEmptySeq, Zenon
    <3> QED BY <1>1, <2>2, <3>1, <3>2, Zenon
  <2> QED BY <2>3, <2>4
<1>8. /\ uu \in Seq(Seq(UnitRecords)) /\ qq \in Seq(Seq(Bytes)) /\ Len(uu) = n /\ Len(qq) = n
  <2>1. uu \in [1 .. n -> U] /\ qq \in [1 .. n -> R]
    BY <1>4, <1>7, Zenon
  <2>2. uu \in Seq(U) /\ qq \in Seq(R)
    BY <2>1, IsSequence, Zenon
  <2>3. Len(uu) = n /\ Len(qq) = n
    BY <2>1, <2>2
  <2> QED BY <1>1, <2>2, <2>3, Zenon
<1>9. PICK T : T = {x \in U \X R : BytesOf(x[1]) = x[2]}
  OBVIOUS
<1>10. \A u, c : <<u, c>> \in T <=> u \in U /\ c \in R /\ BytesOf(u) = c
  BY <1>9
<1>11. <<<<>>, <<>>>> \in T
  <2>1. BytesOf(<<>>) = <<>>
    <3>1. [i \in DOMAIN <<>> |-> <<>>[i].bytes] = <<>>
      OBVIOUS
    <3>2. FlattenSeq(<<>>) = <<>>
      BY Empty, FlattenOne
    <3> QED BY <3>1, <3>2 DEF BytesOf
  <2> QED BY <1>1, <1>10, <2>1, Empty, Zenon
<1>12. ASSUME NEW a \in U, NEW c \in U, NEW d \in R, NEW e \in R, <<a, d>> \in T, <<c, e>> \in T
       PROVE  <<a \o c, d \o e>> \in T
  <2>1. a \in Seq(UnitRecords) /\ c \in Seq(UnitRecords) /\ BytesOf(a) = d /\ BytesOf(c) = e
    BY <1>1, <1>10, <1>12, Zenon
  <2>2. BytesOf(a \o c) = d \o e
    BY <2>1, BytesOfConcat, Zenon
  <2>3. a \o c \in U /\ d \o e \in R
    BY <1>1, Concat, Zenon
  <2> QED BY <1>10, <2>2, <2>3, Zenon
<1>13. <<FlattenSeq(uu), FlattenSeq(qq)>> \in T
  <2>1. \A a, c \in Seq(UnitRecords) : \A d, e \in Seq(Bytes) :
           <<a, d>> \in T /\ <<c, e>> \in T => <<a \o c, d \o e>> \in T
    BY <1>1, <1>12, Zenon
  <2>2. \A i \in 1 .. Len(uu) : <<uu[i], qq[i]>> \in T
    BY <1>7, <1>8, <1>10, Zenon
  <2>3. Len(uu) = Len(qq)
    BY <1>8
  <2> QED BY <1>8, <1>11, <2>1, <2>2, <2>3, FlattenRelated, Zenon
<1> QED BY <1>1, <1>3, <1>5, <1>10, <1>13, Zenon

(* The first part of the page.                                             *)
LEMMA QueryTold ==
    ASSUME NEW form, NEW S, form \in Seq(S), \A i \in 1 .. Len(form) : IsField(form[i])
    PROVE  Told(QueryRows(Query(BytesOf(SentForm(form)))),
                FlattenSeq([i \in DOMAIN Counted(form) |-> FieldCells(Counted(form)[i])]))
<1>1. PICK n, ss, text : /\ n = Len(form) /\ ss = [i \in 1 .. n |-> BytesOf(SentField(form[i]))]
                         /\ text = BytesOf(SentForm(form))
  OBVIOUS
<1>2. n \in Nat /\ DOMAIN form = 1 .. n
  BY <1>1
<1>3. ASSUME NEW i \in 1 .. n PROVE Arrives(form[i], ss[i])
  <2>1. ss[i] = BytesOf(SentField(form[i])) /\ IsField(form[i])
    BY <1>1, Zenon
  <2> QED BY <2>1, FieldArrives, Zenon
<1>4. ss \in Seq(Seq(Bytes)) /\ Len(ss) = n /\ text = FlattenSeq(JoinedBy(ss))
  <2>1. \A i \in 1 .. n : IsField(form[i])
    BY <1>1, Zenon
  <2>2. /\ ss \in Seq(Seq(Bytes)) /\ Len(ss) = n
        /\ BytesOf(SentForm(form)) = FlattenSeq(JoinedBy(ss))
    BY <1>1, <1>2, <2>1, FormArrives
  <2> QED BY <1>1, <2>2, Zenon
<1>5. PICK c : c = CountOf(ss)
  OBVIOUS
<1>6. PICK elements : elements = Elements(text, AMP) /\ elements = [i \in 1 .. c |-> ss[i]] /\ c \in 0 .. n
  <2>1. \A i \in 1 .. Len(ss) : \A k \in 1 .. Len(ss[i]) : ss[i][k] # AMP
    BY <1>3, <1>4, Zenon DEF Arrives
  <2>2. /\ Elements(FlattenSeq(JoinedBy(ss)), AMP) = [i \in 1 .. CountOf(ss) |-> ss[i]]
        /\ CountOf(ss) \in 0 .. Len(ss)
    BY <1>4, <2>1, ElementsJoin
  <2> QED BY <1>4, <1>5, <2>2, Zenon
<1>7. c \in Nat /\ Len(elements) = c /\ \A i \in 1 .. c : i \in 1 .. n
  BY <1>2, <1>6
<1>8. PICK query : query = [i \in 1 .. c |-> KeyValue(ss[i])]
  OBVIOUS
<1>9. Query(text) = query /\ Len(query) = c
  <2>1. Query(text) = [i \in 1 .. c |-> KeyValue(elements[i])]
    BY <1>6, <1>7, Zenon DEF Query
  <2>2. \A i \in 1 .. c : elements[i] = ss[i]
    BY <1>6, Zenon
  <2>3. Query(text) = query
    BY <1>8, <2>1, <2>2
  <2>4. Len(query) = c
    BY <1>7, <1>8
  <2> QED BY <2>3, <2>4
<1>10. PICK rows : rows = [i \in 1 .. c |-> Row(QueryDecode(query[i][1]), QueryDecode(query[i][2]))]
  OBVIOUS
<1>11. QueryRows(Query(text)) = FlattenSeq(rows)
  BY <1>9, <1>10, Zenon DEF QueryRows
<1>12. DOMAIN Counted(form) = 1 .. c /\ \A i \in 1 .. c : Counted(form)[i] = form[i]
  <2>1. c = IF n > 0 /\ ss[n] = <<>> THEN n - 1 ELSE n
    BY <1>4, <1>5, Zenon DEF CountOf
  <2>2. form # <<>> <=> n > 0
    BY <1>1, <1>2
  <2>3. ASSUME n > 0 PROVE ss[n] = <<>> <=> SentField(Last(form)) = <<>>
    <3>1. n \in 1 .. n /\ Last(form) = form[n]
      BY <1>1, <1>2, <2>3 DEF Last
    <3>2. SentField(form[n]) \in Seq(SolidUnits) /\ ss[n] = BytesOf(SentField(form[n]))
      BY <1>3, <3>1, Zenon DEF Arrives
    <3>3. ss[n] = <<>> => SentField(form[n]) = <<>>
      BY <3>2, NoBytes, Zenon
    <3>4. BytesOf(<<>>) = <<>>
      <4>1. [i \in DOMAIN <<>> |-> <<>>[i].bytes] = <<>>
        OBVIOUS
      <4>2. FlattenSeq(<<>>) = <<>>
        BY Empty, FlattenOne
      <4> QED BY <4>1, <4>2 DEF BytesOf
    <3>5. SentField(form[n]) = <<>> => ss[n] = <<>>
      BY <3>2, <3>4
    <3> QED BY <3>1, <3>3, <3>5
  <2>4. CASE n > 0 /\ ss[n] = <<>>
    <3>1. Counted(form) = Front(form)
      BY <2>2, <2>3, <2>4, Zenon DEF Counted
    <3>2. Front(form) = SubSeq(form, 1, n - 1)
      BY <1>1 DEF Front
    <3>3. PICK s : s = SubSeq(form, 1, n - 1)
      OBVIOUS
    <3>4. DOMAIN s = 1 .. n - 1 /\ \A i \in 1 .. n - 1 : s[i] = form[i]
      BY <1>1, <1>2, <2>4, <3>3
    <3>5. c = n - 1
      BY <2>1, <2>4, Zenon
    <3> QED BY <3>1, <3>2, <3>3, <3>4, <3>5, Zenon
  <2>5. CASE ~(n > 0 /\ ss[n] = <<>>)
    <3>1. Counted(form) = form
      BY <2>2, <2>3, <2>5, Zenon DEF Counted
    <3>2. c = n
      BY <2>1, <2>5, Zenon
    <3> QED BY <1>2, <3>1, <3>2, Zenon
  <2> QED BY <2>4, <2>5
<1>13. PICK cells : cells = [i \in 1 .. c |-> FieldCells(form[i])]
  OBVIOUS
<1>14. [i \in DOMAIN Counted(form) |-> FieldCells(Counted(form)[i])] = cells
  <2>1. PICK fields : fields = Counted(form)
    OBVIOUS
  <2>2. DOMAIN fields = 1 .. c /\ \A i \in 1 .. c : fields[i] = form[i]
    BY <1>12, <2>1, Zenon
  <2>3. [i \in DOMAIN fields |-> FieldCells(fields[i])] = cells
    BY <1>13, <2>2
  <2> QED BY <2>1, <2>3, Zenon
<1>15. ASSUME NEW i \in 1 .. c PROVE Told(rows[i], cells[i])
  <2>1. query[i] = KeyValue(ss[i]) /\ i \in 1 .. n
    BY <1>7, <1>8, Zenon
  <2>2. rows[i] = Row(QueryDecode(KeyValue(ss[i])[1]), QueryDecode(KeyValue(ss[i])[2]))
    BY <1>10, <2>1, Zenon
  <2>3. cells[i] = FieldCells(form[i])
    BY <1>13, Zenon
  <2>4. Arrives(form[i], ss[i])
    BY <1>3, <2>1, Zenon
  <2> QED BY <2>2, <2>3, <2>4, Zenon DEF Arrives
<1>16. Told(FlattenSeq(rows), FlattenSeq(cells))
  <2>1. rows = [i \in 1 .. c |-> rows[i]] /\ cells = [i \in 1 .. c |-> cells[i]]
    BY <1>10, <1>13
  <2> QED BY <1>7, <1>15, <2>1, ToldFlatten, Zenon
<1> QED BY <1>1, <1>11, <1>14, <1>16, Zenon


(* The page shows what was typed: for any form, with any of it escaped,    *)
(* any environment and any route, and whatever the size of the buffer.     *)
THEOREM PageShowsTheRequest == Spec => []PageShowsRequest
<1>1. ASSUME SInv, SaidInv PROVE PageShowsRequest
  <2> SUFFICES ASSUME phase = "done", job.kind = "page"
               PROVE  [i \in DOMAIN Cells(out) |-> Read(Cells(out)[i])] \in job.expected
    BY DEF PageShowsRequest
  <2>1. PICK form, variables, lines : /\ form = job.form /\ variables = job.variables
                                      /\ lines = job.input
    OBVIOUS
  <2>2. IsPage(job) /\ lines \in Seq(Seq(Bytes))
    <3>1. job \in Jobs
      BY <1>1 DEF SInv, StreamsInv
    <3> QED BY <2>1, <3>1, JobsAssumption, PagesAssumption
  <2>3. /\ form \in Seq(Seq(Seq(TypedUnits))) /\ \A i \in 1 .. Len(form) : IsField(form[i])
        /\ IsEnvironment(variables, lines)
        /\ \E i \in 1 .. Len(variables) : /\ BytesOf(variables[i].name) = QUERY_STRING
                                          /\ variables[i].value = SentForm(form)
        /\ job = PageJob(form, variables, lines, job.route, job.slashes)
    BY <2>1, <2>2, Zenon DEF IsPage
  <2>4. PICK cells1, cells2 :
           /\ cells1 = FlattenSeq([i \in DOMAIN Counted(form) |-> FieldCells(Counted(form)[i])])
           /\ cells2 = FlattenSeq([i \in DOMAIN variables |-> VariableCells(variables[i])])
    OBVIOUS
  <2>5. job.expected = {cells1 \o cells2}
    <3>1. PageJob(form, variables, lines, job.route, job.slashes).expected = {cells1 \o cells2}
      BY <2>4 DEF PageJob
    <3> QED BY <2>3, <3>1, Zenon
  <2>6. env_map = EnvMap(lines) /\ work = <<>> /\ call = "none"
    BY <1>1, <2>1 DEF SaidInv
  <2>7. PICK uses, said : uses \o work \in Works /\ Means(Style, uses, said) /\ Total = FlattenSeq(said)
    BY <1>1, Zenon DEF SaidInv
  <2>8. Style = "HTML" /\ Total = out
    BY <2>6, Zenon DEF Style, Total
  <2>9. uses \in Works
    <3>1. uses \in Seq(Uses)
      BY <2>7, Zenon DEF Means
    <3>2. uses \o <<>> = uses
      BY <3>1, ConcatEmptySeq, Zenon
    <3> QED BY <2>6, <2>7, <3>2, Zenon
  <2>10. PICK keys : /\ keys \in SetToSeqs(DOMAIN env_map) /\ Ordered(keys)
                     /\ uses = QueryRows(Query(Env(env_map, QUERY_STRING))) \o EnvRows(keys)
                               \o <<Markup>>
    BY <2>9, Zenon DEF Works
  <2>11. Env(env_map, QUERY_STRING) = BytesOf(SentForm(form))
    <3>1. PICK i \in 1 .. Len(variables) : /\ BytesOf(variables[i].name) = QUERY_STRING
                                           /\ variables[i].value = SentForm(form)
      BY <2>3, Zenon
    <3>2. IsVariable(variables[i], lines)
      BY <2>3, Zenon DEF IsEnvironment
    <3>3. /\ BytesOf(variables[i].name) \in DOMAIN EnvMap(lines)
          /\ EnvMap(lines)[BytesOf(variables[i].name)] = BytesOf(variables[i].value)
      BY <2>2, <3>2, VariableFound
    <3> QED BY <2>6, <3>1, <3>3, Zenon DEF Env
  <2>12. PICK rows : rows = QueryRows(Query(Env(env_map, QUERY_STRING)))
    OBVIOUS
  <2>13. Told(rows, cells1)
    <3>1. Told(QueryRows(Query(BytesOf(SentForm(form)))), cells1)
      BY <2>3, <2>4, QueryTold, Zenon
    <3> QED BY <2>11, <2>12, <3>1, Zenon
  <2>14. Told(EnvRows(keys), cells2)
    BY <2>2, <2>3, <2>4, <2>6, <2>10, EnvironmentTold, Zenon
  <2>15. Told(rows \o EnvRows(keys), cells1 \o cells2)
    BY <2>13, <2>14, ToldJoin, Zenon
  <2>16. Means("HTML", (rows \o EnvRows(keys)) \o <<Markup>>, said)
    BY <2>7, <2>8, <2>10, <2>12, Zenon
  <2>17. PICK found : found = Cells(out)
    OBVIOUS
  <2>18. [i \in DOMAIN found |-> Read(found[i])] = cells1 \o cells2
    <3>1. Cells(FlattenSeq(said)) = found
      BY <2>7, <2>8, <2>17, Zenon
    <3>2. [i \in DOMAIN Cells(FlattenSeq(said)) |-> Read(Cells(FlattenSeq(said))[i])] = cells1 \o cells2
      BY <2>15, <2>16, PageSaid
    <3> QED BY <3>1, <3>2, Zenon
  <2> QED BY <2>5, <2>17, <2>18, Zenon
<1> QED BY <1>1, StreamsInvariant, StreamHasWhatItWasTold, PTL
================================================================================

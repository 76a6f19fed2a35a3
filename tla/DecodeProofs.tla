---------------------------- MODULE DecodeProofs ----------------------------
(***************************************************************************)
(* Proofs about module Decode, for objects of any names and line tables.   *)
(***************************************************************************)
EXTENDS Decode, FiniteSetTheorems, Induction, TLAPS

----------------------------------------------------------------------------
(* Characters and their bytes.                                             *)

\* The prover counts up to the end of an interval: MaxChar is hidden there.
LEMMA MaxCharIs == MaxChar \in Nat /\ MaxChar < 8 * 262144 /\ MaxChar < 256 * 65536
BY SMT DEF MaxChar

\* A character has at most 21 bits.
LEMMA CharBound ==
  ASSUME NEW ch \in 0..MaxChar
  PROVE  ch \in Nat /\ ch < 8 * 262144 /\ ch < 256 * 65536
<1>1. ch \in Nat /\ ch <= MaxChar BY MaxCharIs
<1> QED BY <1>1, MaxCharIs, SMT

\* A character is the sum of its bytes.
LEMMA ByteSums ==
  ASSUME NEW ch \in 0..MaxChar
  PROVE  /\ ch <= 255 => ByteOf(ch, 0) = ch
         /\ ch <= 65535 => ByteOf(ch, 0) + 256 * ByteOf(ch, 1) = ch
         /\ ByteOf(ch, 0) + 256 * ByteOf(ch, 1)
              + 65536 * (ByteOf(ch, 2) + 256 * ByteOf(ch, 3)) = ch
<1>1. /\ ByteOf(ch, 0) = ch % 256 /\ ByteOf(ch, 1) = (ch \div 256) % 256
      /\ ByteOf(ch, 2) = (ch \div 65536) % 256 /\ ByteOf(ch, 3) = (ch \div (256 * 65536)) % 256
  <2>1. ch \div 1 = ch OBVIOUS
  <2> QED BY <2>1 DEF ByteOf
<1>2. ch \in Nat /\ ch < 256 * 65536 BY CharBound
<1>3. ASSUME NEW c \in Nat, c < 256 * 65536
      PROVE  /\ c <= 255 => c % 256 = c
             /\ c <= 65535 => (c % 256) + 256 * ((c \div 256) % 256) = c
             /\ (c % 256) + 256 * ((c \div 256) % 256)
                  + 65536 * (((c \div 65536) % 256) + 256 * ((c \div (256 * 65536)) % 256)) = c
  BY <1>3, SMT
<1> QED BY <1>1, <1>2, <1>3

\* Byte j of character k.
LEMMA ByteOfChar ==
  ASSUME NEW o, o.chars \in Seq(Nat), NEW k \in Nat, NEW j \in 0..(Kind(o.chars) - 1)
  PROVE  ByteAt(o, k * Kind(o.chars) + j) = ByteOf(o.chars[k + 1], j)
<1> DEFINE n == Kind(o.chars)
<1>1. n \in {1, 2, 4} BY DEF Kind
<1> HIDE DEF n
<1>2. j \in 0..(n - 1) BY DEF n
<1>3. (k * n + j) \div n = k /\ (k * n + j) % n = j
  <2>1. CASE n = 1 BY <1>2, <2>1
  <2>2. CASE n = 2 BY <1>2, <2>2
  <2>3. CASE n = 4 BY <1>2, <2>3
  <2> QED BY <1>1, <2>1, <2>2, <2>3
<1> QED BY <1>3 DEF ByteAt, n

\* The loop of StringDataPython3 reads character k at byte k * ChSize.
LEMMA CharAtIs ==
  ASSUME object.chars \in Seq(0..MaxChar), NEW k \in 0..(Len(object.chars) - 1)
  PROVE  CharAt(k * ChSize) = object.chars[k + 1]
<1> DEFINE ch == object.chars[k + 1]
           n == Kind(object.chars)
           at == k * n
<1>1. k \in Nat /\ k + 1 \in DOMAIN object.chars /\ ch \in 0..MaxChar /\ ch \in Nat BY MaxCharIs
<1>2. n \in {1, 2, 4} /\ (n = 1 => ch <= 255) /\ (n = 2 => ch <= 65535)
  <2>1. \A m \in DOMAIN object.chars : object.chars[m] \in 0..MaxChar BY MaxCharIs
  <2> QED BY <1>1, <2>1 DEF Kind
<1>3. object.chars \in Seq(Nat) BY MaxCharIs
<1>4. \A j \in 0..(n - 1) : ByteAt(object, at + j) = ByteOf(ch, j)
  BY <1>1, <1>3, ByteOfChar
<1>5. at \in Nat /\ at + 0 = at BY <1>1, <1>2
<1> HIDE DEF ch, n, at
<1>6. CharAt(at) = ByteAt(object, at)
        + (IF n > 1 THEN 256 * ByteAt(object, at + 1) ELSE 0)
        + (IF n = 4 THEN 65536 * (ByteAt(object, at + 2) + 256 * ByteAt(object, at + 3)) ELSE 0)
  BY SMT DEF CharAt, ChSize, n
<1>7. CharAt(at) = ch
  <2>1. CASE n = 1
    <3>1. ByteAt(object, at) = ByteOf(ch, 0) BY <1>4, <1>5, <2>1
    <3>2. ByteOf(ch, 0) = ch BY <1>1, <1>2, <2>1, ByteSums
    <3> QED BY <1>1, <1>6, <2>1, <3>1, <3>2
  <2>2. CASE n = 2
    <3>1. ByteAt(object, at) = ByteOf(ch, 0) /\ ByteAt(object, at + 1) = ByteOf(ch, 1)
      BY <1>4, <1>5, <2>2
    <3>2. ByteOf(ch, 0) + 256 * ByteOf(ch, 1) = ch BY <1>1, <1>2, <2>2, ByteSums
    <3>3. CharAt(at) = ByteOf(ch, 0) + 256 * ByteOf(ch, 1) + 0 BY <1>6, <2>2, <3>1
    <3> QED BY <1>1, <3>2, <3>3
  <2>3. CASE n = 4
    <3>1. /\ ByteAt(object, at) = ByteOf(ch, 0) /\ ByteAt(object, at + 1) = ByteOf(ch, 1)
          /\ ByteAt(object, at + 2) = ByteOf(ch, 2) /\ ByteAt(object, at + 3) = ByteOf(ch, 3)
      BY <1>4, <1>5, <2>3
    <3>2. CharAt(at) = ByteOf(ch, 0) + 256 * ByteOf(ch, 1)
            + 65536 * (ByteOf(ch, 2) + 256 * ByteOf(ch, 3))
      BY <1>6, <2>3, <3>1
    <3> QED BY <1>1, <3>2, ByteSums
  <2> QED BY <1>2, <2>1, <2>2, <2>3
<1> QED BY <1>7 DEF ChSize, n, at, ch

\* The bytes of a character in UTF-8, and what a reader makes of them.
LEMMA Utf8Is ==
  ASSUME NEW ch \in 0..MaxChar
  PROVE  /\ Utf8(ch) \in Seq(0..255) /\ Len(Utf8(ch)) \in 1..4
         /\ \A m \in 2..Len(Utf8(ch)) : Utf8(ch)[m] \in 128..191
         /\ Followers(Utf8(ch)[1]) = Len(Utf8(ch)) - 1
         /\ Value(Utf8(ch), Len(Utf8(ch)), Len(Utf8(ch)) - 1) = ch
         /\ ch >= <<0, 128, 2048, 65536>>[Len(Utf8(ch))]
<1>0. ch \in Nat /\ ch < 8 * 262144 BY CharBound
<1>1. CASE ch < 128
  <2>1. Utf8(ch) = <<ch>> BY <1>1 DEF Utf8
  <2> QED BY <1>1, <2>1 DEF Followers, Value
<1>2. CASE ch >= 128 /\ ch < 2048
  <2> DEFINE b1 == 192 + (ch \div 64)
             b2 == 128 + (ch % 64)
  <2>1. Utf8(ch) = <<b1, b2>> BY <1>2 DEF Utf8, Two, Six
  <2>2. b1 \in 192..223 /\ b2 \in 128..191 BY <1>2
  <2>3. ch = 64 * (b1 - 192) + (b2 - 128) BY <1>2
  <2> HIDE DEF b1, b2
  <2> QED BY <1>2, <2>1, <2>2, <2>3 DEF Followers, Value
<1>3. CASE ch >= 2048 /\ ch < 65536
  <2> DEFINE b1 == 224 + (ch \div 4096)
             b2 == 128 + ((ch \div 64) % 64)
             b3 == 128 + (ch % 64)
  <2>1. Utf8(ch) = <<b1, b2, b3>> BY <1>3 DEF Utf8, Three, Six
  <2>2. b1 \in 224..239 /\ b2 \in 128..191 /\ b3 \in 128..191 BY <1>3
  <2>3. ch = 4096 * (b1 - 224) + 64 * (b2 - 128) + (b3 - 128) BY <1>0, <1>3, SMT
  <2> HIDE DEF b1, b2, b3
  <2> QED BY <1>3, <2>1, <2>2, <2>3 DEF Followers, Value
<1>4. CASE ch >= 65536
  <2> DEFINE b1 == 240 + (ch \div 262144)
             b2 == 128 + ((ch \div 4096) % 64)
             b3 == 128 + ((ch \div 64) % 64)
             b4 == 128 + (ch % 64)
  <2>1. Utf8(ch) = <<b1, b2, b3, b4>> BY <1>4 DEF Utf8, Four, Six
  <2>2. b1 \in 240..247 /\ b2 \in 128..191 /\ b3 \in 128..191 /\ b4 \in 128..191
    <3>1. b1 \in 240..247 BY <1>0, <1>4, SMT
    <3>2. b2 \in 128..191 /\ b3 \in 128..191 /\ b4 \in 128..191 BY <1>0, SMT
    <3> QED BY <3>1, <3>2
  <2>3. ch = 262144 * (b1 - 240) + 4096 * (b2 - 128) + 64 * (b3 - 128) + (b4 - 128)
    BY <1>0, <1>4, SMT
  <2> HIDE DEF b1, b2, b3, b4
  <2> QED BY <1>4, <2>1, <2>2, <2>3 DEF Followers, Value
<1> QED BY <1>1, <1>2, <1>3, <1>4

----------------------------------------------------------------------------
(* The reader of UTF-8.                                                    *)

\* What the last character of the first k bytes is, and where it starts.
EndsAt(s, k) == {n \in 0..3 : Ends(s, k, n)}
Back(s, k) == CHOOSE n \in EndsAt(s, k) : TRUE
Before(s, k) == IF EndsAt(s, k) = {} THEN k - 1 ELSE k - Back(s, k) - 1
Symbol(s, k) == IF EndsAt(s, k) = {} THEN -1 ELSE Value(s, k, Back(s, k))
\* The equation that ReadTo solves.
ReadEq(s, f, N) ==
  f = [k \in 0..N |->
         IF k = 0 THEN <<>>
         ELSE IF EndsAt(s, k) = {} THEN Append(f[k - 1], -1)
              ELSE Append(f[k - Back(s, k) - 1], Value(s, k, Back(s, k)))]

\* A character begins before it ends.
LEMMA BeforeIs ==
  ASSUME NEW s, NEW k \in Nat \ {0}
  PROVE  Before(s, k) \in 0..(k - 1)
<1>1. CASE EndsAt(s, k) = {} BY <1>1 DEF Before
<1>2. CASE EndsAt(s, k) # {}
  <2>1. Back(s, k) \in EndsAt(s, k) BY <1>2, Zenon DEF Back
  <2>2. Back(s, k) \in 0..3 /\ Back(s, k) < k BY <2>1 DEF EndsAt, Ends
  <2> QED BY <1>2, <2>2 DEF Before
<1> QED BY <1>1, <1>2

\* The equation, byte by byte.
LEMMA ReadEqIs ==
  ASSUME NEW s, NEW f, NEW N \in Nat
  PROVE  ReadEq(s, f, N) <=>
           /\ f = [k \in 0..N |-> f[k]]
           /\ N >= 0 => f[0] = <<>>
           /\ \A k \in 1..N : f[k] = Append(f[Before(s, k)], Symbol(s, k))
<1> DEFINE Made(k) == IF k = 0 THEN <<>>
                      ELSE IF EndsAt(s, k) = {} THEN Append(f[k - 1], -1)
                      ELSE Append(f[k - Back(s, k) - 1], Value(s, k, Back(s, k)))
<1>1. Made(0) = <<>> OBVIOUS
<1>2. ASSUME NEW k \in 1..N PROVE Made(k) = Append(f[Before(s, k)], Symbol(s, k))
  <2>1. k # 0 OBVIOUS
  <2> QED BY <2>1, Zenon DEF Before, Symbol
<1>3. ReadEq(s, f, N) <=> f = [k \in 0..N |-> Made(k)] BY DEF ReadEq
<1> HIDE DEF Made
<1>4. 0 \in 0..N /\ \A k \in 0..N : k = 0 \/ k \in 1..N OBVIOUS
<1>5. f = [k \in 0..N |-> Made(k)] <=>
        f = [k \in 0..N |-> f[k]] /\ \A k \in 0..N : f[k] = Made(k)
  OBVIOUS
<1>6. (\A k \in 0..N : f[k] = Made(k)) <=>
        f[0] = <<>> /\ \A k \in 1..N : f[k] = Append(f[Before(s, k)], Symbol(s, k))
  <2>1. \A k \in 1..N : k \in 0..N OBVIOUS
  <2> QED BY <1>1, <1>2, <1>4, <2>1, Zenon
<1> QED BY <1>3, <1>5, <1>6

\* The recursion of ReadTo.
LEMMA ReadIs ==
  ASSUME NEW s, Len(s) \in Nat
  PROVE  /\ ReadTo(s)[0] = <<>>
         /\ \A k \in 1..Len(s) : ReadTo(s)[k] = Append(ReadTo(s)[Before(s, k)], Symbol(s, k))
<1> DEFINE S == {m \in Nat : \E g : ReadEq(s, g, m)}
<1>1. 0 \in S
  <2> DEFINE g == [k \in 0..0 |-> <<>>]
  <2>1. g = [k \in 0..0 |-> g[k]] /\ g[0] = <<>> OBVIOUS
  <2>2. \A k \in 1..0 : g[k] = Append(g[Before(s, k)], Symbol(s, k)) OBVIOUS
  <2> HIDE DEF g
  <2>3. ReadEq(s, g, 0) BY <2>1, <2>2, ReadEqIs
  <2> QED BY <2>3
<1>2. ASSUME NEW m \in Nat, m \in S PROVE m + 1 \in S
  <2>1. PICK g : ReadEq(s, g, m) BY <1>2
  <2>2. g[0] = <<>> /\ \A k \in 1..m : g[k] = Append(g[Before(s, k)], Symbol(s, k))
    BY <2>1, ReadEqIs
  <2> DEFINE last == Append(g[Before(s, m + 1)], Symbol(s, m + 1))
             h == [k \in 0..(m + 1) |-> IF k <= m THEN g[k] ELSE last]
  <2>3. \A k \in 0..m : h[k] = g[k] BY ONLY m \in Nat
  <2>4. h[m + 1] = last BY ONLY m \in Nat
  <2>5. h = [k \in 0..(m + 1) |-> h[k]] OBVIOUS
  <2>6. \A k \in 1..(m + 1) : Before(s, k) \in 0..(k - 1) BY BeforeIs
  <2> HIDE DEF h
  <2>7. ASSUME NEW k \in 1..(m + 1) PROVE h[k] = Append(h[Before(s, k)], Symbol(s, k))
    <3>1. Before(s, k) \in 0..m BY <2>6
    <3>2. h[Before(s, k)] = g[Before(s, k)] BY <2>3, <3>1
    <3>3. CASE k = m + 1 BY <2>4, <3>2, <3>3
    <3>4. CASE k # m + 1
      <4>1. k \in 1..m /\ k \in 0..m BY <3>4
      <4> QED BY <2>2, <2>3, <3>2, <4>1
    <3> QED BY <3>3, <3>4
  <2>8. h[0] = <<>>
    <3>1. 0 \in 0..m OBVIOUS
    <3> QED BY <2>2, <2>3, <3>1
  <2>9. ReadEq(s, h, m + 1)
    <3>1. m + 1 \in Nat OBVIOUS
    <3> QED BY <2>5, <2>7, <2>8, <3>1, ReadEqIs
  <2> QED BY <2>9
<1> HIDE DEF S
<1>3. Nat \subseteq S BY <1>1, <1>2, SetInduction
<1>4. \E g : ReadEq(s, g, Len(s)) BY <1>3 DEF S
<1>5. ReadTo(s) = CHOOSE g : ReadEq(s, g, Len(s)) BY Zenon DEF ReadTo, ReadEq, EndsAt, Back
<1>6. ReadEq(s, ReadTo(s), Len(s)) BY <1>4, <1>5, Zenon
<1> QED BY <1>6, ReadEqIs

\* What is read of the first bytes does not depend on what follows them.
Agree(s, t, N) == \A m \in 1..N : s[m] = t[m]

\* What ends at a byte depends on the bytes up to it.
LEMMA EndsAgree ==
  ASSUME NEW N \in Nat, NEW s, NEW t, Agree(s, t, N), NEW k \in 1..N
  PROVE  Before(s, k) = Before(t, k) /\ Symbol(s, k) = Symbol(t, k)
<1>1. ASSUME NEW n \in 0..3, n < k
      PROVE  Value(s, k, n) = Value(t, k, n) /\ s[k - n] = t[k - n]
  <2>1. \A m \in 0..n : s[k - m] = t[k - m] BY <1>1 DEF Agree
  <2>2. s[k] = t[k] BY DEF Agree
  <2>3. CASE n = 0 BY <2>2, <2>3 DEF Value
  <2>4. CASE n = 1
    <3>1. s[k - 1] = t[k - 1] BY <2>1, <2>4
    <3> QED BY <2>2, <2>4, <3>1 DEF Value
  <2>5. CASE n = 2
    <3>1. s[k - 1] = t[k - 1] /\ s[k - 2] = t[k - 2] BY <2>1, <2>5
    <3> QED BY <2>2, <2>5, <3>1 DEF Value
  <2>6. CASE n = 3
    <3>1. s[k - 1] = t[k - 1] /\ s[k - 2] = t[k - 2] /\ s[k - 3] = t[k - 3] BY <2>1, <2>6
    <3> QED BY <2>2, <2>6, <3>1 DEF Value
  <2> QED BY <2>3, <2>4, <2>5, <2>6
<1>2. ASSUME NEW n \in 0..3 PROVE Ends(s, k, n) <=> Ends(t, k, n)
  <2>1. CASE n < k
    <3>1. Value(s, k, n) = Value(t, k, n) /\ s[k - n] = t[k - n] BY <1>1, <2>1
    <3>2. \A m \in (k - n + 1)..k : s[m] = t[m] BY <2>1 DEF Agree
    <3> QED BY <3>1, <3>2, SMT DEF Ends
  <2>2. CASE ~(n < k) BY <2>2, SMT DEF Ends
  <2> QED BY <2>1, <2>2
<1>3. EndsAt(s, k) = EndsAt(t, k) BY <1>2 DEF EndsAt
<1>4. Back(s, k) = Back(t, k) BY <1>3 DEF Back
<1>5. CASE EndsAt(s, k) = {} BY <1>3, <1>5 DEF Before, Symbol
<1>6. CASE EndsAt(s, k) # {}
  <2>1. Back(s, k) \in EndsAt(s, k) BY <1>6, Zenon DEF Back
  <2>2. Back(s, k) \in 0..3 /\ Back(s, k) < k
    <3>1. Back(s, k) \in 0..3 /\ Ends(s, k, Back(s, k)) BY <2>1, Zenon DEF EndsAt
    <3> QED BY <3>1, SMT DEF Ends
  <2>3. Value(s, k, Back(s, k)) = Value(t, k, Back(t, k)) BY <1>1, <1>4, <2>2
  <2> QED BY <1>3, <1>4, <2>3, Zenon DEF Before, Symbol
<1> QED BY <1>5, <1>6

\* So does what is read.
LEMMA ReadPrefix ==
  ASSUME NEW N \in Nat, NEW s, NEW t, Agree(s, t, N),
         Len(s) \in Nat, Len(t) \in Nat, N <= Len(s), N <= Len(t)
  PROVE  \A k \in 0..N : ReadTo(s)[k] = ReadTo(t)[k]
<1> DEFINE S == {m \in Nat : \A k \in 0..N : k <= m => ReadTo(s)[k] = ReadTo(t)[k]}
<1>1. /\ ReadTo(s)[0] = <<>> /\ ReadTo(t)[0] = <<>>
      /\ \A k \in 1..Len(s) : ReadTo(s)[k] = Append(ReadTo(s)[Before(s, k)], Symbol(s, k))
      /\ \A k \in 1..Len(t) : ReadTo(t)[k] = Append(ReadTo(t)[Before(t, k)], Symbol(t, k))
  BY ReadIs
<1>2. 0 \in S BY <1>1
<1>3. ASSUME NEW m \in Nat, m \in S PROVE m + 1 \in S
  <2> SUFFICES ASSUME m + 1 <= N PROVE ReadTo(s)[m + 1] = ReadTo(t)[m + 1] BY <1>3
  <2> DEFINE k == m + 1
  <2>1. k \in 1..N /\ k \in Nat \ {0} /\ k \in 1..Len(s) /\ k \in 1..Len(t) /\ k - 1 = m OBVIOUS
  <2> HIDE DEF k
  <2>2. Before(s, k) = Before(t, k) /\ Symbol(s, k) = Symbol(t, k) BY <2>1, EndsAgree
  <2>3. Before(s, k) \in 0..m BY <2>1, BeforeIs
  <2>4. ReadTo(s)[Before(s, k)] = ReadTo(t)[Before(s, k)] BY <1>3, <2>1, <2>3
  <2>5. ReadTo(s)[k] = ReadTo(t)[k] BY <1>1, <2>1, <2>2, <2>4
  <2> QED BY <2>5 DEF k
<1> HIDE DEF S
<1>4. Nat \subseteq S BY <1>2, <1>3, SetInduction
<1> QED BY <1>4 DEF S

\* Of two sequences, one behind the other.
Joined(S, s, t, u) ==
  /\ u \in Seq(S) /\ Len(u) = Len(s) + Len(t)
  /\ \A k \in 1..Len(s) : u[k] = s[k]
  /\ \A k \in 1..Len(t) : u[Len(s) + k] = t[k]

\* That is what \o makes.
LEMMA ConcatIs ==
  ASSUME NEW S, NEW s \in Seq(S), NEW t \in Seq(S)
  PROVE  Joined(S, s, t, s \o t)
BY DEF Joined

\* A byte that continues a character begins none.
LEMMA NoFollowers ==
  ASSUME NEW b \in 128..191
  PROVE  Followers(b) = -1
BY DEF Followers

\* A character behind what was read is read as itself.
LEMMA ReadOneMore ==
  ASSUME NEW d \in Seq(0..255), NEW ch \in 0..MaxChar
  PROVE  ReadTo(d \o Utf8(ch))[Len(d \o Utf8(ch))] = Append(ReadTo(d)[Len(d)], ch)
<1> DEFINE c == Utf8(ch)
           s == d \o c
           L == Len(d)
           n == Len(c) - 1
           k == L + (n + 1)
<1>1. /\ c \in Seq(0..255) /\ Len(c) = n + 1 /\ n \in 0..3
      /\ \A m \in 2..(n + 1) : c[m] \in 128..191
      /\ Followers(c[1]) = n /\ Value(c, n + 1, n) = ch
      /\ ch >= <<0, 128, 2048, 65536>>[n + 1]
  <2>1. /\ c \in Seq(0..255) /\ Len(c) \in 1..4 /\ Followers(c[1]) = Len(c) - 1
        /\ \A m \in 2..Len(c) : c[m] \in 128..191
        /\ Value(c, Len(c), Len(c) - 1) = ch /\ ch >= <<0, 128, 2048, 65536>>[Len(c)]
    BY Utf8Is
  <2> HIDE DEF c
  <2>2. Len(c) = n + 1 /\ n \in 0..3 /\ Len(c) - 1 = n BY <2>1
  <2> HIDE DEF n
  <2>3. ch >= <<0, 128, 2048, 65536>>[n + 1] BY <2>1, <2>2, SMT
  <2>4. Value(c, n + 1, n) = ch BY <2>1, <2>2, SMT
  <2>5. \A m \in 2..(n + 1) : c[m] \in 128..191 BY <2>1, <2>2, SMT
  <2> QED BY <2>1, <2>2, <2>3, <2>4, <2>5, SMT
<1>2. L \in Nat OBVIOUS
<1> HIDE DEF c
<1>3. /\ s \in Seq(0..255) /\ Len(s) = k
      /\ \A m \in 1..L : s[m] = d[m]
      /\ \A m \in 1..(n + 1) : s[L + m] = c[m]
  <2>1. Joined(0..255, d, c, s) BY <1>1, ConcatIs
  <2> HIDE DEF s, L, n
  <2>2. /\ s \in Seq(0..255) /\ Len(s) = L + Len(c)
        /\ \A m \in 1..L : s[m] = d[m]
        /\ \A m \in 1..Len(c) : s[L + m] = c[m]
    BY <2>1, Zenon DEF Joined, L
  <2>3. Len(c) = n + 1 BY <1>1
  <2> HIDE DEF c
  <2> QED BY <2>2, <2>3
<1> HIDE DEF s, L, n
<1>4. k \in Nat \ {0} /\ k \in 1..Len(s) /\ k - n = L + 1 BY <1>1, <1>2, <1>3
<1>5. s[k - n] = c[1] /\ Followers(s[k - n]) = n BY <1>1, <1>3, <1>4
<1>6. ASSUME NEW m \in (k - n + 1)..k PROVE s[m] \in 128..191
  <2> DEFINE j == m - L
  <2>1. j \in 2..(n + 1) /\ j \in 1..(n + 1) /\ L + j = m BY <1>1, <1>2
  <2> HIDE DEF j
  <2>2. s[m] = c[j] BY <1>3, <2>1
  <2> QED BY <1>1, <2>1, <2>2
<1>7. Value(s, k, n) = ch
  <2>1. \A m \in 0..n : s[k - m] = c[n + 1 - m]
    <3> TAKE m \in 0..n
    <3>1. n + 1 - m \in 1..(n + 1) /\ L + (n + 1 - m) = k - m BY <1>1, <1>2
    <3> QED BY <1>3, <3>1
  <2>2. s[k] = c[n + 1]
    <3>1. n + 1 \in 1..(n + 1) BY <1>1
    <3> QED BY <1>3, <3>1
  <2> HIDE DEF k
  <2>3. CASE n = 0 BY <1>1, <2>2, <2>3 DEF Value
  <2>4. CASE n = 1
    <3>1. s[k - 1] = c[1] /\ s[k] = c[2] BY <2>1, <2>2, <2>4
    <3> QED BY <1>1, <2>4, <3>1 DEF Value
  <2>5. CASE n = 2
    <3>1. s[k - 2] = c[1] /\ s[k - 1] = c[2] /\ s[k] = c[3] BY <2>1, <2>2, <2>5
    <3> QED BY <1>1, <2>5, <3>1 DEF Value
  <2>6. CASE n = 3
    <3>1. s[k - 3] = c[1] /\ s[k - 2] = c[2] /\ s[k - 1] = c[3] /\ s[k] = c[4]
      BY <2>1, <2>2, <2>6
    <3> QED BY <1>1, <2>6, <3>1 DEF Value
  <2> QED BY <1>1, <2>3, <2>4, <2>5, <2>6
<1>8. n < k BY <1>1, <1>2
<1> HIDE DEF k
<1>9. Ends(s, k, n) BY <1>1, <1>5, <1>6, <1>7, <1>8, SMT DEF Ends
<1>10. ASSUME NEW m \in 0..3, Ends(s, k, m) PROVE m = n
  <2>1. m < k /\ Followers(s[k - m]) = m /\ \A j \in (k - m + 1)..k : s[j] \in 128..191
    BY <1>10, SMT DEF Ends
  <2>2. CASE m < n
    <3>1. k - m \in (k - n + 1)..k BY <1>1, <1>4, <2>2
    <3>2. Followers(s[k - m]) = -1 BY <1>6, <3>1, NoFollowers
    <3> QED BY <2>1, <3>2
  <2>3. CASE m > n
    <3>1. k - n \in (k - m + 1)..k BY <1>1, <1>4, <2>3
    <3>2. Followers(s[k - n]) = -1 BY <2>1, <3>1, NoFollowers
    <3> QED BY <1>1, <1>5, <3>2
  <2> QED BY <1>1, <2>2, <2>3
<1>11. EndsAt(s, k) = {n} BY <1>1, <1>9, <1>10 DEF EndsAt
<1>12. Back(s, k) = n BY <1>11 DEF Back
<1>13. Before(s, k) = L /\ Symbol(s, k) = ch
  <2>1. Before(s, k) = k - n - 1 /\ Symbol(s, k) = Value(s, k, n)
    BY <1>11, <1>12 DEF Before, Symbol
  <2>2. k - n - 1 = L BY <1>1, <1>2, <1>4
  <2> QED BY <1>7, <2>1, <2>2
<1>14. ReadTo(s)[k] = Append(ReadTo(s)[L], ch)
  <2>1. Len(s) \in Nat BY <1>3
  <2>2. ReadTo(s)[k] = Append(ReadTo(s)[Before(s, k)], Symbol(s, k)) BY <1>4, <2>1, ReadIs
  <2> QED BY <1>13, <2>2
<1>15. ReadTo(s)[L] = ReadTo(d)[L]
  <2>1. Agree(s, d, L) BY <1>3 DEF Agree
  <2>2. Len(s) \in Nat /\ Len(d) \in Nat /\ L <= Len(s) /\ L <= Len(d)
    BY <1>1, <1>2, <1>3 DEF L, k
  <2>3. L \in 0..L BY <1>2
  <2> QED BY <1>2, <2>1, <2>2, <2>3, ReadPrefix
<1> QED BY <1>3, <1>14, <1>15 DEF s, c, L

----------------------------------------------------------------------------
(* The string: what is dumped is the name.                                 *)

\* Facts about sequences of any set.
LEMMA SequenceWidens ==
  ASSUME NEW S, NEW T, S \subseteq T, NEW s \in Seq(S)
  PROVE  s \in Seq(T)
OBVIOUS

LEMMA SequencesEqual ==
  ASSUME NEW S, NEW s \in Seq(S), NEW t \in Seq(S), Len(s) = Len(t),
         \A k \in 1..Len(s) : s[k] = t[k]
  PROVE  s = t
OBVIOUS

LEMMA PartIs ==
  ASSUME NEW S, NEW s \in Seq(S), NEW m \in 1..Len(s), NEW n \in 1..Len(s), m <= n
  PROVE  SubSeq(s, m, n) \in Seq(S) /\ Len(SubSeq(s, m, n)) = n - m + 1
OBVIOUS

LEMMA ElementIs ==
  ASSUME NEW S, NEW s \in Seq(S), NEW k \in 1..Len(s)
  PROVE  s[k] \in S
OBVIOUS

\* FirstNul finds the first 0, if there is one.
LEMMA FirstNulIs ==
  ASSUME NEW s \in Seq(Nat), NEW n \in 0..Len(s),
         \A k \in 1..Len(s) : s[k] = 0 => k >= n,
         IF n = 0 THEN \A k \in 1..Len(s) : s[k] # 0 ELSE s[n] = 0
  PROVE  FirstNul(s) = n
<1> DEFINE I == {k \in 1..Len(s) : s[k] = 0}
<1>1. FirstNul(s) = IF I # {} THEN Min(I) ELSE 0 BY DEF FirstNul, SelectInSeq
<1>2. CASE n = 0 BY <1>1, <1>2
<1>3. CASE n # 0
  <2>1. n \in I /\ I \subseteq Nat /\ \A y \in I : n <= y BY <1>3
  <2> HIDE DEF I
  <2>2. Min(I) \in I /\ \A y \in I : Min(I) <= y
    <3>1. \E x \in I : \A y \in I : x <= y BY <2>1
    <3> QED BY <3>1, Zenon DEF Min
  <2>3. Min(I) = n
    <3>1. Min(I) \in Nat /\ Min(I) <= n /\ n <= Min(I) BY <2>1, <2>2
    <3> QED BY <3>1
  <2> QED BY <1>1, <2>1, <2>3
<1> QED BY <1>2, <1>3

\* A word is copied up to its NUL.
LEMMA PeekIs ==
  ASSUME object.chars \in Seq(1..255), WordSize \in Nat \ {0}, NEW at \in 0..Len(object.chars),
         NEW got, got = LET nul == FirstNul(Chunk(at))
                        IN  IF nul = 0 THEN Chunk(at) ELSE SubSeq(Chunk(at), 1, nul - 1)
  PROVE  SubSeq(object.chars, 1, at) \o got =
           IF at + WordSize <= Len(object.chars) THEN SubSeq(object.chars, 1, at + WordSize)
           ELSE object.chars
<1> DEFINE c == object.chars
           L == Len(c)
           s == Chunk(at)
           W == WordSize
<1>1. /\ c \in Seq(Nat) /\ L \in Nat /\ W \in Nat \ {0} /\ at \in 0..L
      /\ \A k \in 1..L : c[k] # 0
  <2>1. c \in Seq(1..255) /\ at \in 0..L OBVIOUS
  <2>2. 1..255 \subseteq Nat OBVIOUS
  <2> HIDE DEF c
  <2>3. c \in Seq(Nat) BY <2>1, <2>2, SequenceWidens
  <2>4. ASSUME NEW k \in 1..L PROVE c[k] # 0
    <3>1. c[k] \in 1..255 BY <2>1, ElementIs
    <3>2. \A b \in 1..255 : b # 0 OBVIOUS
    <3> QED BY <3>1, <3>2, Zenon
  <2> QED BY <2>1, <2>3, <2>4
<1>2. /\ Memory \in Seq(Nat) /\ Len(Memory) = L + 1 + W
      /\ \A k \in 1..L : Memory[k] = c[k]
      /\ Memory[L + 1] = 0
  <2> DEFINE rest == [k \in 1..WordSize |-> 77]
  <2>1. rest \in Seq(Nat) /\ Len(rest) = W OBVIOUS
  <2>2. <<0>> \in Seq(Nat) /\ Len(<<0>>) = 1 /\ <<0>>[1] = 0 OBVIOUS
  <2> DEFINE one == <<0>>
             two == c \o one
  <2>3. Memory = two \o rest BY DEF Memory
  <2> HIDE DEF rest, one, c, W
  <2>4. /\ two \in Seq(Nat) /\ Len(two) = L + 1
        /\ \A k \in 1..L : two[k] = c[k]
        /\ two[L + 1] = 0
    <3>1. one \in Seq(Nat) /\ Len(one) = 1 /\ one[1] = 0 BY <2>2 DEF one
    <3>2. Joined(Nat, c, one, two) BY <1>1, <3>1, ConcatIs
    <3> HIDE DEF two
    <3> QED BY <3>1, <3>2 DEF Joined
  <2> HIDE DEF two
  <2>5. /\ two \o rest \in Seq(Nat) /\ Len(two \o rest) = L + 1 + W
        /\ \A k \in 1..(L + 1) : (two \o rest)[k] = two[k]
    <3>1. Joined(Nat, two, rest, two \o rest) BY <2>1, <2>4, ConcatIs
    <3> QED BY <2>1, <2>4, <3>1 DEF Joined
  <2>6. L + 1 \in 1..(L + 1) /\ \A k \in 1..L : k \in 1..(L + 1) BY <1>1
  <2> QED BY <2>3, <2>4, <2>5, <2>6
<1> HIDE DEF c, W
<1>3. s \in Seq(Nat) /\ Len(s) = W /\ \A k \in 1..W : s[k] = Memory[at + k]
  <2>1. s = SubSeq(Memory, at + 1, at + W) BY DEF Chunk, W
  <2> DEFINE from == at + 1
             to == at + W
  <2>2. from \in 1..Len(Memory) /\ to \in 1..Len(Memory) /\ from <= to /\ to - from + 1 = W
    BY <1>1, <1>2
  <2>3. \A k \in 1..W : from + k - 1 = at + k BY <1>1
  <2> HIDE DEF from, to
  <2>4. s = SubSeq(Memory, from, to) BY <2>1 DEF from, to
  <2>5. s \in Seq(Nat) /\ Len(s) = to - from + 1
    <3>1. SubSeq(Memory, from, to) \in Seq(Nat) /\ Len(SubSeq(Memory, from, to)) = to - from + 1
      <4>1. \A m, n \in 1..Len(Memory) : m <= n =>
              SubSeq(Memory, m, n) \in Seq(Nat) /\ Len(SubSeq(Memory, m, n)) = n - m + 1
        BY <1>2, PartIs
      <4>2. from \in 1..Len(Memory) /\ to \in 1..Len(Memory) /\ from <= to BY <2>2
      <4> QED BY <4>1, <4>2, Zenon
    <3> QED BY <2>4, <3>1, Zenon
  <2>6. \A k \in 1..(to - from + 1) : s[k] = Memory[from + k - 1] BY <1>2, <2>2, <2>4
  <2> QED BY <2>2, <2>3, <2>5, <2>6
<1> HIDE DEF s
<1>4. \A k \in 1..W : at + k <= L => s[k] = c[at + k] /\ s[k] # 0
  <2> TAKE k \in 1..W
  <2> HAVE at + k <= L
  <2>1. at + k \in 1..L BY <1>1
  <2> QED BY <1>1, <1>2, <1>3, <2>1
<1> DEFINE pre == SubSeq(c, 1, at)
<1>5. pre \in Seq(Nat) /\ Len(pre) = at /\ \A k \in 1..at : pre[k] = c[k] BY <1>1
<1> HIDE DEF pre
<1>6. CASE at + W <= L
  <2>1. \A k \in 1..W : s[k] # 0 BY <1>1, <1>4, <1>6
  <2>2. FirstNul(s) = 0
    <3>1. 0 \in 0..Len(s) BY <1>1, <1>3
    <3>2. \A k \in 1..Len(s) : s[k] # 0 BY <1>3, <2>1
    <3> QED BY <1>3, <3>1, <3>2, FirstNulIs
  <2>3. got = s BY <2>2 DEF s
  <2>4. /\ pre \o s \in Seq(Nat) /\ Len(pre \o s) = at + W
        /\ \A k \in 1..at : (pre \o s)[k] = pre[k]
        /\ \A k \in 1..W : (pre \o s)[at + k] = s[k]
    <3>1. Joined(Nat, pre, s, pre \o s) BY <1>3, <1>5, ConcatIs
    <3> QED BY <1>3, <1>5, <3>1 DEF Joined
  <2> DEFINE all == SubSeq(c, 1, at + W)
  <2>5. all \in Seq(Nat) /\ Len(all) = at + W /\ \A k \in 1..(at + W) : all[k] = c[k] BY <1>1, <1>6
  <2> DEFINE both == pre \o s
  <2> HIDE DEF all, both
  <2>6. ASSUME NEW k \in 1..(at + W) PROVE both[k] = all[k]
    <3>1. CASE k <= at
      <4>1. k \in 1..at BY <1>1, <3>1
      <4> QED BY <1>5, <2>4, <2>5, <4>1 DEF both
    <3>2. CASE ~(k <= at)
      <4>1. k - at \in 1..W /\ at + (k - at) = k /\ at + (k - at) <= L BY <1>1, <1>6, <3>2
      <4>2. both[at + (k - at)] = s[k - at] BY <2>4, <4>1 DEF both
      <4>3. s[k - at] = c[at + (k - at)] BY <1>4, <4>1
      <4> QED BY <2>5, <4>1, <4>2, <4>3
    <3> QED BY <3>1, <3>2
  <2>7. both = all BY <2>4, <2>5, <2>6, SequencesEqual DEF both
  <2> QED BY <1>6, <2>3, <2>7 DEF both, all, pre, c, W, L
<1>7. CASE ~(at + W <= L)
  <2> DEFINE n == L + 1 - at
             part == SubSeq(s, 1, n - 1)
             both == pre \o part
  <2>1. n \in 1..W /\ n - 1 \in 0..W /\ at + n = L + 1 /\ at + (n - 1) = L BY <1>1, <1>7
  <2> HIDE DEF n
  <2>2. FirstNul(s) = n
    <3>1. s[n] = 0 BY <1>2, <1>3, <2>1
    <3>2. \A k \in 1..Len(s) : s[k] = 0 => k >= n BY <1>1, <1>3, <1>4, <2>1
    <3>3. n \in 0..Len(s) /\ n # 0 BY <1>1, <1>3, <2>1
    <3> QED BY <1>3, <3>1, <3>2, <3>3, FirstNulIs
  <2>3. got = part BY <2>1, <2>2 DEF s
  <2>4. part \in Seq(Nat) /\ Len(part) = n - 1 /\ \A k \in 1..(n - 1) : part[k] = s[k]
    <3> DEFINE m == n - 1
    <3>1. m \in 0..Len(s) BY <1>1, <1>3, <2>1
    <3> HIDE DEF m
    <3>2. part \in Seq(Nat) /\ Len(part) = m BY <1>3, <3>1 DEF m
    <3>3. \A k \in 1..m : part[k] = s[k] BY <1>3, <3>1 DEF m
    <3> QED BY <3>2, <3>3 DEF m
  <2> HIDE DEF part
  <2>5. /\ both \in Seq(Nat) /\ Len(both) = at + (n - 1)
        /\ \A k \in 1..at : both[k] = pre[k]
        /\ \A k \in 1..(n - 1) : both[at + k] = part[k]
    <3>1. Joined(Nat, pre, part, both) BY <1>5, <2>4, ConcatIs
    <3> HIDE DEF both
    <3> QED BY <1>5, <2>1, <2>4, <3>1 DEF Joined
  <2> HIDE DEF both
  <2>6. ASSUME NEW k \in 1..L PROVE both[k] = c[k]
    <3>1. CASE k <= at
      <4>1. k \in 1..at BY <1>1, <3>1
      <4> QED BY <1>5, <2>5, <4>1
    <3>2. CASE ~(k <= at)
      <4>1. k - at \in 1..(n - 1) /\ k - at \in 1..W /\ at + (k - at) = k /\ at + (k - at) <= L
        BY <1>1, <2>1, <3>2
      <4>2. both[at + (k - at)] = s[k - at] BY <2>4, <2>5, <4>1
      <4>3. s[k - at] = c[at + (k - at)] BY <1>4, <4>1
      <4> QED BY <4>1, <4>2, <4>3
    <3> QED BY <3>1, <3>2
  <2>7. both = c BY <1>1, <2>1, <2>5, <2>6, SequencesEqual
  <2> QED BY <1>7, <2>3, <2>7 DEF both, pre, c, W, L
<1> QED BY <1>6, <1>7

\* What DecodeAssumption says of the object at hand.
LEMMA ObjectIs ==
  ASSUME object \in Objects
  PROVE  /\ object.py2 \in BOOLEAN
         /\ object.py2 => object.chars \in Seq(1..255)
         /\ ~object.py2 => object.chars \in Seq(0..MaxChar)
         /\ object.chars \in Seq(Nat)
         /\ object.steps \in Seq(Nat \X Int) /\ object.first \in Nat
         /\ object.lasti \in Nat \cup {-1}
<1>1. IsObject(object) BY DecodeAssumption
<1> DEFINE c == object.chars
<1>2. object.py2 => c \in Seq(1..255) BY <1>1, Zenon DEF IsObject
<1>3. ~object.py2 => c \in Seq(0..MaxChar) BY <1>1, Zenon DEF IsObject
<1>4. 0..MaxChar \subseteq Nat BY MaxCharIs
<1> HIDE DEF c
<1>5. object.py2 => c \in Seq(Nat)
  <2> SUFFICES ASSUME object.py2 PROVE c \in Seq(Nat) OBVIOUS
  <2>1. c \in Seq(1..255) BY <1>2
  <2>2. 1..255 \subseteq Nat OBVIOUS
  <2> QED BY <2>1, <2>2, SequenceWidens
<1>6. ~object.py2 => c \in Seq(Nat)
  <2> SUFFICES ASSUME ~object.py2 PROVE c \in Seq(Nat) OBVIOUS
  <2>1. c \in Seq(0..MaxChar) BY <1>3
  <2> QED BY <1>4, <2>1, SequenceWidens, Zenon
<1> QED BY <1>1, <1>2, <1>3, <1>5, <1>6, Zenon DEF IsObject, c

\* How much of the name is dumped while its string is read.
DumpedBytes ==
  /\ i \in Nat
  /\ IF i <= Len(object.chars) THEN dump = SubSeq(object.chars, 1, i) ELSE dump = object.chars
\* A Python 3's: what is dumped so far reads as its first k characters.
DumpedChars ==
  \E k \in 0..Len(object.chars) :
    i = k * ChSize /\ ReadTo(dump)[Len(dump)] = SubSeq(object.chars, 1, k)

\* The inductive invariant of the two loops that read the name.
NameInv ==
  /\ object \in Objects /\ pc \in {"string", "line", "done"}
  /\ i \in 0..(NameEnd + WordSize) /\ dump \in Seq(0..255)
  /\ pc = "string" => IF object.py2 THEN DumpedBytes ELSE DumpedChars
  /\ NameRight

\* It holds at first...
LEMMA NameBegins == Init => NameInv
<1> SUFFICES ASSUME Init PROVE NameInv OBVIOUS
<1> DEFINE c == object.chars
<1>1. /\ object \in Objects /\ pc = "string" /\ i = 0 /\ dump = <<>> BY DEF Init
<1>2. c \in Seq(Nat) BY <1>1, ObjectIs
<1>3. Kind(c) \in {1, 2, 4} BY DEF Kind
<1> HIDE DEF c
<1>4. SubSeq(c, 1, 0) = <<>> /\ Len(c) \in Nat BY <1>2
<1>5. NameEnd \in Nat /\ WordSize \in Nat
  <2>1. Len(c) * Kind(c) \in Nat BY <1>3, <1>4
  <2> QED BY <1>4, <2>1, DecodeAssumption DEF NameEnd, SizeOf, c
<1>6. dump \in Seq(0..255) /\ Len(dump) = 0 BY <1>1
<1>7. DumpedBytes BY <1>1, <1>4 DEF DumpedBytes, c
<1>8. DumpedChars
  <2>1. 0 \in 0..Len(c) /\ 0 = 0 * Kind(c) BY <1>3, <1>4
  <2>2. ReadTo(dump)[0] = <<>> BY <1>6, ReadIs
  <2> QED BY <1>1, <1>4, <1>6, <2>1, <2>2 DEF DumpedChars, ChSize, c
<1> QED BY <1>1, <1>5, <1>6, <1>7, <1>8 DEF NameInv, NameRight

\* ...and each step keeps it.
LEMMA NameKept == NameInv /\ [Next]_vars => NameInv'
<1> SUFFICES ASSUME NameInv, [Next]_vars PROVE NameInv' OBVIOUS
<1> DEFINE c == object.chars
           L == Len(c)
<1>1. /\ object \in Objects /\ pc \in {"string", "line", "done"}
      /\ i \in 0..(NameEnd + WordSize) /\ dump \in Seq(0..255)
      /\ pc = "string" => IF object.py2 THEN DumpedBytes ELSE DumpedChars
      /\ NameRight
  BY DEF NameInv
<1>2. c \in Seq(Nat) /\ object.py2 \in BOOLEAN BY <1>1, ObjectIs
<1>3. ChSize \in {1, 2, 4} BY DEF ChSize, Kind
<1>4. L \in Nat /\ WordSize \in Nat \ {0} BY <1>2, DecodeAssumption
<1>5. NameEnd = IF object.py2 THEN L + 1 ELSE L * ChSize BY DEF NameEnd, SizeOf, ChSize
<1> HIDE DEF c, L
<1>6. ASSUME object' = object
      PROVE  /\ NameEnd' = NameEnd /\ ChSize' = ChSize
             /\ (\E k \in 0..L : i' = k * ChSize /\ ReadTo(dump')[Len(dump')] = SubSeq(c, 1, k))
                  => DumpedChars'
  BY <1>6 DEF NameEnd, ChSize, DumpedChars, SizeOf, c, L
<1>7. CASE DumpChar
  <2>1. /\ pc = "string" /\ ~object.py2 /\ i < L * ChSize
        /\ dump' = dump \o Utf8(CharAt(i)) /\ i' = i + ChSize
        /\ object' = object /\ pc' = pc
    BY <1>7 DEF DumpChar, SizeOf, ChSize, c, L
  <2>2. PICK k \in 0..L : i = k * ChSize /\ ReadTo(dump)[Len(dump)] = SubSeq(c, 1, k)
    BY <1>1, <2>1 DEF DumpedChars, c, L
  <2>3. k \in 0..(L - 1) BY <1>3, <1>4, <2>1, <2>2
  <2>4. c \in Seq(0..MaxChar) BY <1>1, <2>1, ObjectIs DEF c
  <2>5. CharAt(i) = c[k + 1]
    <3>1. object.chars \in Seq(0..MaxChar) /\ k \in 0..(Len(object.chars) - 1)
      BY <2>3, <2>4 DEF c, L
    <3> QED BY <2>2, <3>1, CharAtIs DEF c
  <2> DEFINE ch == c[k + 1]
  <2>6. ch \in 0..MaxChar
    <3>1. k + 1 \in 1..Len(c) BY <2>3 DEF L
    <3> QED BY <2>4, <3>1, ElementIs
  <2>7. Utf8(ch) \in Seq(0..255) BY <2>6, Utf8Is
  <2>8. dump' \in Seq(0..255)
    <3> HIDE DEF ch
    <3>1. Joined(0..255, dump, Utf8(ch), dump \o Utf8(ch)) BY <1>1, <2>7, ConcatIs
    <3> QED BY <2>1, <2>5, <3>1 DEF Joined, ch
  <2>9. ReadTo(dump')[Len(dump')] = Append(ReadTo(dump)[Len(dump)], ch)
    <3> HIDE DEF ch
    <3> QED BY <1>1, <2>1, <2>5, <2>6, ReadOneMore DEF ch
  <2>10. Append(SubSeq(c, 1, k), c[k + 1]) = SubSeq(c, 1, k + 1)
    <3>1. k \in Nat /\ k + 1 \in 1..Len(c) BY <2>3 DEF L
    <3> QED BY <1>2, <3>1
  <2>11. k + 1 \in 0..L /\ i' = (k + 1) * ChSize
    <3>1. k \in Nat /\ k + 1 \in 0..L /\ i' = k * ChSize + ChSize BY <1>4, <2>1, <2>2, <2>3
    <3>2. \A n \in {1, 2, 4} : k * n + n = (k + 1) * n BY <3>1
    <3> QED BY <1>3, <3>1, <3>2
  <2>12. DumpedChars' BY <1>6, <2>1, <2>2, <2>9, <2>10, <2>11
  <2>13. i' \in 0..(NameEnd + WordSize)
    <3>1. (k + 1) * ChSize <= L * ChSize BY <1>3, <1>4, <2>3
    <3> QED BY <1>3, <1>4, <1>5, <2>1, <2>2, <2>11, <3>1
  <2> QED BY <1>1, <1>6, <2>1, <2>8, <2>12, <2>13 DEF NameInv, NameRight
<1>8. CASE PeekWord
  <2> DEFINE got == LET nul == FirstNul(Chunk(i))
                    IN  IF nul = 0 THEN Chunk(i) ELSE SubSeq(Chunk(i), 1, nul - 1)
  <2>1. /\ pc = "string" /\ object.py2 /\ i <= L /\ i' = i + WordSize
        /\ dump' = dump \o got
        /\ object' = object /\ pc' = pc
    BY <1>8 DEF PeekWord, c, L
  <2>2. i \in Nat /\ i \in 0..L /\ dump = SubSeq(c, 1, i)
    BY <1>1, <1>4, <2>1 DEF DumpedBytes, c, L
  <2>3. c \in Seq(1..255) BY <1>1, <2>1, ObjectIs DEF c
  <2>4. dump' = IF i + WordSize <= L THEN SubSeq(c, 1, i + WordSize) ELSE c
    <3>1. object.chars \in Seq(1..255) /\ i \in 0..Len(object.chars) BY <2>2, <2>3 DEF c, L
    <3> HIDE DEF got
    <3>2. SubSeq(object.chars, 1, i) \o got =
            IF i + WordSize <= Len(object.chars) THEN SubSeq(object.chars, 1, i + WordSize)
            ELSE object.chars
      BY <1>4, <3>1, PeekIs DEF got
    <3> QED BY <2>1, <2>2, <3>2 DEF c, L
  <2>5. dump' \in Seq(0..255)
    <3>1. c \in Seq(0..255)
      <4>1. 1..255 \subseteq 0..255 OBVIOUS
      <4> QED BY <2>3, <4>1, SequenceWidens
    <3>2. i + WordSize <= L => SubSeq(c, 1, i + WordSize) \in Seq(0..255)
      <4> SUFFICES ASSUME i + WordSize <= L PROVE SubSeq(c, 1, i + WordSize) \in Seq(0..255)
        OBVIOUS
      <4> DEFINE n == i + WordSize
      <4>1. 1 \in 1..Len(c) /\ n \in 1..Len(c) /\ 1 <= n BY <1>4, <2>2 DEF L
      <4> HIDE DEF n
      <4>2. SubSeq(c, 1, n) \in Seq(0..255) BY <3>1, <4>1, PartIs
      <4> QED BY <4>2 DEF n
    <3> QED BY <2>4, <3>1, <3>2
  <2>6. i' \in Nat /\ i' \in 0..(NameEnd + WordSize) BY <1>4, <1>5, <2>1, <2>2
  <2>7. DumpedBytes' BY <2>1, <2>4, <2>6 DEF DumpedBytes, c, L
  <2> QED BY <1>1, <1>6, <2>1, <2>5, <2>6, <2>7 DEF NameInv, NameRight
<1>9. CASE StartLine
  <2>1. /\ pc = "string" /\ i >= NameEnd /\ pc' \in {"line", "done"}
        /\ object' = object /\ i' = i /\ dump' = dump
    BY <1>9 DEF StartLine
  <2>2. NameRight'
    <3>1. CASE object.py2
      <4>1. DumpedBytes /\ ~(i <= L) BY <1>1, <1>4, <1>5, <2>1, <3>1 DEF DumpedBytes
      <4>2. dump = object.chars BY <4>1 DEF DumpedBytes, c, L
      <4> QED BY <2>1, <3>1, <4>2 DEF NameRight
    <3>2. CASE ~object.py2
      <4>1. PICK k \in 0..L : i = k * ChSize /\ ReadTo(dump)[Len(dump)] = SubSeq(c, 1, k)
        BY <1>1, <2>1, <3>2 DEF DumpedChars, c, L
      <4>2. k = L BY <1>3, <1>4, <1>5, <2>1, <3>2, <4>1
      <4>3. SubSeq(c, 1, L) = c BY <1>2 DEF L
      <4> QED BY <2>1, <3>2, <4>1, <4>2, <4>3 DEF NameRight, c
    <3> QED BY <3>1, <3>2
  <2> QED BY <1>1, <1>6, <2>1, <2>2 DEF NameInv
<1>10. ASSUME AddPair \/ EndOfTable \/ Terminated \/ UNCHANGED vars PROVE NameInv'
  <2>1. /\ object' = object /\ i' = i /\ dump' = dump
        /\ \/ pc = "line" /\ pc' \in {"line", "done"}
           \/ pc' = pc
    BY <1>10, SMT DEF AddPair, EndOfTable, Terminated, vars
  <2>2. (pc' # "string" => pc # "string") /\ (pc' = "string" => pc = "string") BY <2>1
  <2>3. NameRight' BY <1>1, <2>1, <2>2 DEF NameRight
  <2>4. DumpedBytes' <=> DumpedBytes BY <2>1 DEF DumpedBytes
  <2>5. DumpedChars' <=> DumpedChars BY <2>1 DEF DumpedChars, ChSize
  <2> QED BY <1>1, <1>6, <2>1, <2>2, <2>3, <2>4, <2>5 DEF NameInv
<1> QED BY <1>7, <1>8, <1>9, <1>10 DEF Next

\* The name that is reported is that of the function, for every name and
\* every width of its characters.
THEOREM NameIsRight == Spec => []NameRight
<1>1. NameInv => NameRight BY DEF NameInv
<1> QED BY <1>1, NameBegins, NameKept, PTL DEF Spec

----------------------------------------------------------------------------
(* The line table.                                                         *)

\* Pairs of the table, and places: instructions and lines.
PairSet == Nat \X Int

LEMMA PairIs ==
  /\ \A x \in Nat, y \in Int : <<x, y>> \in PairSet
  /\ \A q \in PairSet : q[1] \in Nat /\ q[2] \in Int
BY DEF PairSet

\* A pair of the table can count at least one line.
LEMMA MostIs == MaxByte \in Nat \ {0} /\ MostLines(object) \in 1..MaxByte
<1>1. MaxByte \in Nat \ {0, 1} BY DecodeAssumption
<1>2. MaxByte \div 2 \in 1..MaxByte BY <1>1
<1> QED BY <1>1, <1>2 DEF MostLines

\* As many times most as a pair is too small for.
LEMMA TimesIs ==
  ASSUME NEW n \in Int, NEW most \in Nat \ {0}
  PROVE  /\ Times(n, most) \in Nat
         /\ n \in Nat => n - Times(n, most) * most \in 0..most
<1>1. CASE ~(n > most)
  <2>1. Times(n, most) = 0 /\ 0 * most = 0 BY <1>1 DEF Times
  <2> QED BY <1>1, <2>1
<1>2. CASE n > most
  <2> DEFINE q == n \div most
             r == n % most
  <2>1. n \in Nat BY <1>2
  <2>2. q \in Nat /\ r \in 0..(most - 1) /\ n = q * most + r BY <2>1
  <2>3. Times(n, most) = q BY <1>2 DEF Times
  <2> HIDE DEF q, r
  <2>4. q * most \in Nat BY <2>2
  <2>5. n - q * most = r BY <2>1, <2>2, <2>4
  <2> QED BY <2>2, <2>3, <2>5
<1> QED BY <1>1, <1>2

\* The pairs of a step: first those that only count instructions, then those
\* that only count lines.
Many1(step) == Times(step[1], MaxByte)
Many2(step) == Times(step[2], MostLines(object))
Size(step) == Many1(step) + Many2(step) + 1

\* How many pairs a step takes, and which.
LEMMA PairsAre ==
  ASSUME NEW step \in PairSet
  PROVE  /\ Many1(step) \in Nat /\ Many2(step) \in Nat
         /\ Pairs(object, step) \in Seq(PairSet) /\ Len(Pairs(object, step)) = Size(step)
         /\ \A k \in 1..Size(step) :
              /\ Pairs(object, step)[k][1] =
                   IF k <= Many1(step) THEN MaxByte
                   ELSE IF k = Many1(step) + 1 THEN step[1] - Many1(step) * MaxByte ELSE 0
              /\ Pairs(object, step)[k][2] =
                   IF k <= Many1(step) THEN 0
                   ELSE IF k <= Many1(step) + Many2(step) THEN MostLines(object)
                   ELSE (step[2] - Many2(step) * MostLines(object)) % (MaxByte + 1)
<1> DEFINE a == Many1(step)
           l == Many2(step)
           most == MostLines(object)
           First(k) == IF k <= a THEN MaxByte ELSE IF k = a + 1 THEN step[1] - a * MaxByte ELSE 0
           Second(k) == IF k <= a THEN 0 ELSE IF k <= a + l THEN most
                        ELSE (step[2] - l * most) % (MaxByte + 1)
           s == Pairs(object, step)
<1>1. step[1] \in Nat /\ step[2] \in Int BY PairIs
<1>2. MaxByte \in Nat \ {0} /\ most \in Nat \ {0} BY MostIs
<1>3. a \in Nat /\ step[1] - a * MaxByte \in Nat
  <2> DEFINE n == step[1]
             rest == n - a * MaxByte
  <2>1. a = Times(n, MaxByte) /\ n \in Nat /\ n \in Int BY <1>1 DEF Many1
  <2> HIDE DEF n, a
  <2>2. a \in Nat BY <1>2, <2>1, TimesIs
  <2>3. rest \in 0..MaxByte BY <1>2, <2>1, TimesIs
  <2>4. rest \in Nat
    <3> HIDE DEF rest
    <3> QED BY <1>2, <2>3
  <2> QED BY <2>2, <2>4 DEF n
<1>4. l \in Nat BY <1>1, <1>2, TimesIs DEF Many2
<1>5. s = [k \in 1..(a + l + 1) |-> <<First(k), Second(k)>>]
  BY Zenon DEF Pairs, Many1, Many2
<1> HIDE DEF a, l, most, s
<1>6. ASSUME NEW k \in 1..(a + l + 1) PROVE First(k) \in Nat /\ Second(k) \in Int
  <2>1. First(k) \in Nat
    <3> DEFINE rest == step[1] - a * MaxByte
    <3>1. rest \in Nat BY <1>3
    <3>2. First(k) = IF k <= a THEN MaxByte ELSE IF k = a + 1 THEN rest ELSE 0 OBVIOUS
    <3> HIDE DEF rest, First
    <3>3. First(k) \in {MaxByte, rest, 0} BY <3>2, Zenon
    <3> QED BY <1>2, <3>1, <3>3
  <2>2. Second(k) \in Int
    <3> DEFINE x == step[2] - l * most
    <3>1. l * most \in Int BY <1>2, <1>4
    <3>2. x \in Int BY <1>1, <3>1
    <3> HIDE DEF x
    <3>3. x % (MaxByte + 1) \in Int BY <1>2, <3>2
    <3> DEFINE y == x % (MaxByte + 1)
    <3>4. Second(k) = IF k <= a THEN 0 ELSE IF k <= a + l THEN most ELSE y BY DEF x
    <3> HIDE DEF y, Second
    <3>5. Second(k) \in {0, most, y} BY <3>4, Zenon
    <3> QED BY <1>2, <3>3, <3>5 DEF y
  <2> QED BY <2>1, <2>2
<1>7. a + l + 1 \in Nat BY <1>3, <1>4
<1> DEFINE n == a + l + 1
<1> HIDE DEF First, Second, n
<1>8. ASSUME NEW k \in 1..n PROVE <<First(k), Second(k)>> \in PairSet
  BY <1>6, PairIs DEF n
<1>9. s = [k \in 1..n |-> <<First(k), Second(k)>>] /\ n \in Nat BY <1>5, <1>7 DEF n
<1>10. s \in Seq(PairSet) /\ Len(s) = n BY <1>8, <1>9
<1>11. \A k \in 1..n : s[k][1] = First(k) /\ s[k][2] = Second(k) BY <1>9
<1>12. Size(step) = n BY DEF Size, n, a, l
<1> QED BY <1>3, <1>4, <1>10, <1>11, <1>12 DEF s, First, Second, a, l, most

----------------------------------------------------------------------------
(* The steps, the table they make and the places they lead to.             *)

\* Where the line changes in the object at hand.
Steps == object.steps
NSteps == Len(object.steps)

\* What DecodeAssumption says of these.
LEMMA StepsAre ==
  ASSUME object \in Objects
  PROVE  /\ NSteps \in Nat /\ DOMAIN object.steps = 1..NSteps
         /\ \A n \in 1..NSteps : Steps[n] \in PairSet
         /\ object.first \in Nat
<1>1. object.steps \in Seq(PairSet) /\ object.first \in Nat BY ObjectIs DEF PairSet
<1> QED BY <1>1 DEF NSteps, Steps

\* The recursions of TableTo and Place.
LEMMA TableToIs ==
  ASSUME object \in Objects
  PROVE  /\ TableTo(object)[0] = <<>>
         /\ \A n \in 0..NSteps : TableTo(object)[n] \in Seq(PairSet)
         /\ \A n \in 1..NSteps :
              TableTo(object)[n] = TableTo(object)[n - 1] \o Pairs(object, Steps[n])
<1> DEFINE V == Seq(PairSet)
           F == [q \in V \X (1..NSteps) |-> q[1] \o Pairs(object, Steps[q[2]])]
           Eq(f) == f = [n \in 0..NSteps |-> IF n = 0 THEN <<>>
                                           ELSE f[n - 1] \o Pairs(object, Steps[n])]
<1>1. NSteps \in Nat /\ \A n \in 1..NSteps : Steps[n] \in PairSet BY StepsAre
<1>2. \A n \in 1..NSteps : Pairs(object, Steps[n]) \in V BY <1>1, PairsAre
<1>3. \A s, t \in V : s \o t \in V OBVIOUS
<1>4. <<>> \in V OBVIOUS
<1> HIDE DEF V
<1>5. F \in [V \X (1..NSteps) -> V] BY <1>2, <1>3
<1>6. \A s \in V, n \in 1..NSteps : F[<<s, n>>] = s \o Pairs(object, Steps[n]) OBVIOUS
<1> HIDE DEF F
<1>7. PICK f : f \in [0..NSteps -> V] /\ f[0] = <<>> /\ \A n \in 1..NSteps : f[n] = F[<<f[n - 1], n>>]
  <2>1. PICK f : Iterates(f, NSteps, V, <<>>, F) BY <1>1, <1>4, <1>5, Recursion
  <2> QED BY <2>1, Zenon DEF Iterates
<1>8. \A n \in 1..NSteps : n - 1 \in 0..NSteps /\ f[n - 1] \in V BY <1>1, <1>7
<1>9. \A n \in 1..NSteps : f[n] = f[n - 1] \o Pairs(object, Steps[n]) BY <1>6, <1>7, <1>8
<1>10. Eq(f)
  <2>1. \A n \in 0..NSteps : n = 0 \/ n \in 1..NSteps BY <1>1
  <2> QED BY <1>7, <1>9, <2>1
<1> HIDE DEF Eq
<1>11. TableTo(object) = CHOOSE g : Eq(g) BY Zenon DEF TableTo, Eq, NSteps, Steps
<1>12. Eq(TableTo(object)) BY <1>10, <1>11, Zenon
<1> DEFINE t == TableTo(object)
<1> HIDE DEF t
<1>13. /\ t[0] = <<>>
       /\ \A n \in 1..NSteps : t[n] = t[n - 1] \o Pairs(object, Steps[n])
  <2>1. t = [n \in 0..NSteps |-> IF n = 0 THEN <<>> ELSE t[n - 1] \o Pairs(object, Steps[n])]
    BY <1>12, Zenon DEF Eq, t
  <2>2. 0 \in 0..NSteps /\ \A n \in 1..NSteps : n \in 0..NSteps /\ n # 0 BY <1>1
  <2> QED BY <2>1, <2>2
<1> DEFINE S == {n \in Nat : t[n] \in V}
<1>14. 0 \in S BY <1>4, <1>13
<1>15. \A n \in 0..(NSteps - 1) : n \in S => n + 1 \in S
  <2> TAKE n \in 0..(NSteps - 1)
  <2> HAVE n \in S
  <2>1. n + 1 \in 1..NSteps /\ (n + 1) - 1 = n BY <1>1
  <2>2. t[n + 1] = t[n] \o Pairs(object, Steps[n + 1]) BY <1>13, <2>1
  <2>3. t[n] \in V BY DEF S
  <2>4. t[n + 1] \in V BY <1>2, <1>3, <2>1, <2>2, <2>3
  <2>5. n + 1 \in Nat OBVIOUS
  <2> QED BY <2>4, <2>5
<1> HIDE DEF S
<1>16. 0..NSteps \subseteq S BY <1>1, <1>14, <1>15, BoundedInduction
<1> QED BY <1>13, <1>16 DEF S, V, t

\* The recursion of Place: each step leads from one place to the next.
LEMMA PlaceIs ==
  ASSUME object \in Objects
  PROVE  /\ Place(object)[0] = <<0, object.first>>
         /\ \A n \in 0..NSteps : Place(object)[n] \in PairSet
         /\ \A n \in 1..NSteps :
              /\ Place(object)[n][1] = Place(object)[n - 1][1] + Steps[n][1]
              /\ Place(object)[n][2] = Place(object)[n - 1][2] + Steps[n][2]
<1> DEFINE F == [q \in PairSet \X (1..NSteps) |->
                   <<q[1][1] + Steps[q[2]][1], q[1][2] + Steps[q[2]][2]>>]
           Eq(f) == f = [n \in 0..NSteps |->
                           IF n = 0 THEN <<0, object.first>>
                           ELSE <<f[n - 1][1] + Steps[n][1], f[n - 1][2] + Steps[n][2]>>]
<1>1. NSteps \in Nat /\ \A n \in 1..NSteps : Steps[n] \in PairSet BY StepsAre
<1>2. ASSUME NEW q \in PairSet, NEW n \in 1..NSteps
      PROVE  <<q[1] + Steps[n][1], q[2] + Steps[n][2]>> \in PairSet
  <2>1. q[1] \in Nat /\ q[2] \in Int /\ Steps[n][1] \in Nat /\ Steps[n][2] \in Int
    BY <1>1, PairIs
  <2> QED BY <2>1, PairIs
<1>3. <<0, object.first>> \in PairSet
  <2>1. 0 \in Nat /\ object.first \in Int BY StepsAre
  <2> QED BY <2>1, PairIs
<1>4. F \in [PairSet \X (1..NSteps) -> PairSet] BY <1>2
<1>5. \A q \in PairSet, n \in 1..NSteps :
        F[<<q, n>>] = <<q[1] + Steps[n][1], q[2] + Steps[n][2]>>
  OBVIOUS
<1> HIDE DEF F
<1>6. PICK f : /\ f \in [0..NSteps -> PairSet] /\ f[0] = <<0, object.first>>
               /\ \A n \in 1..NSteps : f[n] = F[<<f[n - 1], n>>]
  <2>1. PICK f : Iterates(f, NSteps, PairSet, <<0, object.first>>, F)
    BY <1>1, <1>3, <1>4, Recursion
  <2> QED BY <2>1, Zenon DEF Iterates
<1>7. \A n \in 1..NSteps : n - 1 \in 0..NSteps /\ f[n - 1] \in PairSet BY <1>1, <1>6
<1>8. \A n \in 1..NSteps : f[n] = <<f[n - 1][1] + Steps[n][1], f[n - 1][2] + Steps[n][2]>>
  BY <1>5, <1>6, <1>7
<1>9. Eq(f)
  <2>1. \A n \in 0..NSteps : n = 0 \/ n \in 1..NSteps BY <1>1
  <2> QED BY <1>6, <1>8, <2>1
<1> HIDE DEF Eq
<1>10. Place(object) = CHOOSE g : Eq(g) BY Zenon DEF Place, Eq, NSteps, Steps
<1>11. Eq(Place(object)) BY <1>9, <1>10, Zenon
<1> DEFINE t == Place(object)
<1> HIDE DEF t
<1>12. /\ t[0] = <<0, object.first>>
       /\ \A n \in 1..NSteps : t[n] = <<t[n - 1][1] + Steps[n][1], t[n - 1][2] + Steps[n][2]>>
  <2>1. t = [n \in 0..NSteps |->
               IF n = 0 THEN <<0, object.first>>
               ELSE <<t[n - 1][1] + Steps[n][1], t[n - 1][2] + Steps[n][2]>>]
    BY <1>11, Zenon DEF Eq, t
  <2>2. 0 \in 0..NSteps /\ \A n \in 1..NSteps : n \in 0..NSteps /\ n # 0 BY <1>1
  <2> QED BY <2>1, <2>2
<1> DEFINE S == {n \in Nat : t[n] \in PairSet}
<1>13. 0 \in S BY <1>3, <1>12
<1>14. \A n \in 0..(NSteps - 1) : n \in S => n + 1 \in S
  <2> TAKE n \in 0..(NSteps - 1)
  <2> HAVE n \in S
  <2>1. n + 1 \in 1..NSteps /\ (n + 1) - 1 = n BY <1>1
  <2>2. t[n + 1] = <<t[n][1] + Steps[n + 1][1], t[n][2] + Steps[n + 1][2]>> BY <1>12, <2>1
  <2>3. t[n] \in PairSet BY DEF S
  <2>4. t[n + 1] \in PairSet BY <1>2, <2>1, <2>2, <2>3
  <2>5. n + 1 \in Nat OBVIOUS
  <2> QED BY <2>4, <2>5
<1> HIDE DEF S
<1>15. 0..NSteps \subseteq S BY <1>1, <1>13, <1>14, BoundedInduction
<1> QED BY <1>12, <1>15 DEF S, t

\* How far the first j pairs of a step lead.
AddrOf(step, j) == IF j <= Many1(step) THEN j * MaxByte ELSE step[1]
LinesOf(step, j) == IF j <= Many1(step) THEN 0 ELSE (j - Many1(step)) * MostLines(object)

\* Pair j + 1 leads from there to where j + 1 pairs lead, the last one to the
\* end of the step.  No line is counted before all its instructions are.
PairAdds(step, j) ==
  LET pair == Pairs(object, step)[j + 1]
  IN  /\ AddrOf(step, j) \in Nat /\ pair[1] \in Nat
      /\ AddrOf(step, j) + pair[1] <= step[1]
      /\ pair[1] # 0 => LinesOf(step, j) = 0
      /\ AddrOf(step, j) + pair[1] = IF j + 1 = Size(step) THEN step[1] ELSE AddrOf(step, j + 1)
      /\ LinesOf(step, j) + pair[2] = IF j + 1 = Size(step) THEN step[2] ELSE LinesOf(step, j + 1)

\* That is so of each pair of a step that does not go back.
LEMMA PairLeads ==
  ASSUME NEW step \in PairSet, step[2] >= 0, NEW j \in 0..(Size(step) - 1)
  PROVE  PairAdds(step, j)
<1> DEFINE a == Many1(step)
           l == Many2(step)
           M == MaxByte
           most == MostLines(object)
           s1 == step[1]
           s2 == step[2]
           pair == Pairs(object, step)[j + 1]
<1>1. s1 \in Nat /\ s2 \in Nat /\ s2 \in Int BY PairIs
<1>2. M \in Nat \ {0} /\ most \in Nat \ {0} /\ most <= M BY MostIs
<1>3. a \in Nat /\ s1 - a * M \in 0..M
  <2>1. a = Times(s1, M) BY DEF Many1
  <2> HIDE DEF M, s1, a
  <2>2. a \in Nat BY <1>1, <1>2, <2>1, TimesIs
  <2>3. s1 - a * M \in 0..M BY <1>1, <1>2, <2>1, TimesIs
  <2> QED BY <2>2, <2>3
<1>4. l \in Nat /\ s2 - l * most \in 0..most
  <2>1. l = Times(s2, most) BY DEF Many2
  <2> HIDE DEF most, s2, l
  <2>2. l \in Nat BY <1>1, <1>2, <2>1, TimesIs
  <2>3. s2 - l * most \in 0..most BY <1>1, <1>2, <2>1, TimesIs
  <2> QED BY <2>2, <2>3
<1>5. Size(step) = a + l + 1 BY DEF Size
<1>6. j \in Nat /\ j + 1 \in 1..(a + l + 1)
  <2> HIDE DEF a, l
  <2> QED BY <1>3, <1>4, <1>5
<1>7. /\ pair[1] = IF j + 1 <= a THEN M ELSE IF j + 1 = a + 1 THEN s1 - a * M ELSE 0
      /\ pair[2] = IF j + 1 <= a THEN 0 ELSE IF j + 1 <= a + l THEN most
                   ELSE (s2 - l * most) % (M + 1)
  <2>1. j + 1 \in 1..Size(step) BY <1>5, <1>6
  <2> QED BY <2>1, PairsAre
<1> DEFINE A(k) == IF k <= a THEN k * M ELSE s1
           B(k) == IF k <= a THEN 0 ELSE (k - a) * most
<1>8. \A k : AddrOf(step, k) = A(k) /\ LinesOf(step, k) = B(k) BY DEF AddrOf, LinesOf
<1> HIDE DEF a, l, M, most, s1, s2, pair
<1>9. a * M \in Nat /\ l * most \in Nat BY <1>2, <1>3, <1>4
<1>10. a * M <= s1 BY <1>1, <1>2, <1>3, <1>9
<1>11. (s2 - l * most) % (M + 1) = s2 - l * most
  <2> DEFINE x == s2 - l * most
  <2>1. x \in Nat /\ x < M + 1 BY <1>2, <1>4
  <2> HIDE DEF x
  <2>2. x % (M + 1) = x BY <1>2, <2>1
  <2> QED BY <2>2 DEF x
<1> DEFINE Bounded == A(j) \in Nat /\ pair[1] \in Nat /\ A(j) + pair[1] <= s1
           Zero == pair[1] # 0 => B(j) = 0
           Addr == A(j) + pair[1] = IF j + 1 = a + l + 1 THEN s1 ELSE A(j + 1)
           Lines == B(j) + pair[2] = IF j + 1 = a + l + 1 THEN s2 ELSE B(j + 1)
<1>12. ASSUME j < a PROVE Bounded /\ Zero /\ Addr /\ Lines
  <2>1. pair[1] = M /\ pair[2] = 0 /\ A(j) = j * M /\ A(j + 1) = (j + 1) * M /\ B(j) = 0 /\ B(j + 1) = 0
    BY <1>3, <1>6, <1>7, <1>12
  <2>2. j * M \in Nat /\ (j + 1) * M = j * M + M /\ (j + 1) * M <= a * M
    BY <1>2, <1>3, <1>6, <1>12
  <2>3. j + 1 # a + l + 1 BY <1>3, <1>4, <1>6, <1>12
  <2> HIDE DEF A, B
  <2>4. Bounded BY <1>1, <1>2, <1>9, <1>10, <2>1, <2>2
  <2>5. Zero BY <2>1
  <2>6. Addr BY <2>1, <2>2, <2>3
  <2>7. Lines BY <2>1, <2>3
  <2> QED BY <2>4, <2>5, <2>6, <2>7
<1>13. ASSUME j = a PROVE Bounded /\ Zero /\ Addr /\ Lines
  <2>1. pair[1] = s1 - a * M /\ A(j) = a * M /\ A(j + 1) = s1 /\ B(j) = 0
    BY <1>3, <1>6, <1>7, <1>13
  <2>2. pair[2] = IF l = 0 THEN s2 - l * most ELSE most BY <1>3, <1>4, <1>6, <1>7, <1>11, <1>13
  <2>3. B(j + 1) = 1 * most
    <3>1. ~(j + 1 <= a) /\ (j + 1) - a = 1 BY <1>3, <1>13
    <3> QED BY <3>1
  <2>4. (j + 1 = a + l + 1) <=> l = 0 BY <1>3, <1>4, <1>13
  <2>5. l = 0 => l * most = 0 BY <1>2
  <2> HIDE DEF A, B
  <2>6. Bounded BY <1>1, <1>9, <1>10, <2>1
  <2>7. Addr BY <1>1, <1>9, <2>1
  <2>8. Lines BY <1>1, <1>2, <2>1, <2>2, <2>3, <2>4, <2>5
  <2> QED BY <2>1, <2>6, <2>7, <2>8
<1>14. ASSUME j > a PROVE Bounded /\ Zero /\ Addr /\ Lines
  <2>1. pair[1] = 0 /\ A(j) = s1 /\ A(j + 1) = s1 BY <1>3, <1>6, <1>7, <1>14
  <2>2. B(j) = (j - a) * most /\ B(j + 1) = (j + 1 - a) * most BY <1>3, <1>6, <1>14
  <2>3. (j + 1 - a) * most = (j - a) * most + most
    <3> DEFINE m == j - a
    <3>1. m \in Nat /\ j + 1 - a = m + 1 BY <1>3, <1>6, <1>14
    <3> HIDE DEF m
    <3>2. (m + 1) * most = m * most + most BY <1>2, <3>1
    <3> QED BY <3>1, <3>2 DEF m
  <2>4. pair[2] = IF j + 1 = a + l + 1 THEN s2 - l * most ELSE most
    BY <1>3, <1>4, <1>6, <1>7, <1>11, <1>14
  <2>5. j + 1 = a + l + 1 => j - a = l BY <1>3, <1>4, <1>6
  <2>6. (j - a) * most \in Nat
    <3> DEFINE m == j - a
    <3>1. m \in Nat BY <1>3, <1>6, <1>14
    <3> HIDE DEF m
    <3>2. m * most \in Nat BY <1>2, <3>1
    <3> QED BY <3>2 DEF m
  <2> HIDE DEF A, B
  <2>7. Bounded BY <1>1, <2>1
  <2>8. Zero BY <2>1
  <2>9. Addr BY <1>1, <2>1
  <2>10. Lines
    <3>1. CASE j + 1 = a + l + 1
      <4>1. B(j) = l * most /\ pair[2] = s2 - l * most BY <2>2, <2>4, <2>5, <3>1
      <4> QED BY <1>1, <1>9, <3>1, <4>1
    <3>2. CASE j + 1 # a + l + 1 BY <2>2, <2>3, <2>4, <3>2
    <3> QED BY <3>1, <3>2
  <2> QED BY <2>7, <2>8, <2>9, <2>10
<1>15. j < a \/ j = a \/ j > a BY <1>3, <1>6
<1>16. Bounded /\ Zero /\ Addr /\ Lines BY <1>12, <1>13, <1>14, <1>15, Zenon
<1> HIDE DEF A, B
<1> QED BY <1>5, <1>8, <1>16 DEF PairAdds, pair, s1, s2

\* The pairs of step n + 1 follow those of the first n steps.
LEMMA StepInTable ==
  ASSUME object \in Objects, NEW n \in 0..(NSteps - 1)
  PROVE  /\ Len(TableTo(object)[n + 1]) = Len(TableTo(object)[n]) + Size(Steps[n + 1])
         /\ Len(TableTo(object)[n + 1]) <= Len(Table(object))
         /\ \A j \in 1..Size(Steps[n + 1]) :
              Table(object)[Len(TableTo(object)[n]) + j] = Pairs(object, Steps[n + 1])[j]
<1> DEFINE t == TableTo(object)
           s == Pairs(object, Steps[n + 1])
           L == Len(t[n])
           size == Size(Steps[n + 1])
<1>1. NSteps \in Nat /\ n \in Nat /\ n + 1 \in 1..NSteps /\ (n + 1) - 1 = n BY StepsAre
<1>2. /\ \A m \in 0..NSteps : t[m] \in Seq(PairSet)
      /\ \A m \in 1..NSteps : t[m] = t[m - 1] \o Pairs(object, Steps[m])
  BY TableToIs
<1>3. \A m \in 1..NSteps : /\ Pairs(object, Steps[m]) \in Seq(PairSet)
                           /\ Len(Pairs(object, Steps[m])) = Size(Steps[m])
  BY StepsAre, PairsAre
<1>4. s \in Seq(PairSet) /\ Len(s) = size /\ size \in Nat
  <2>1. s \in Seq(PairSet) /\ Len(s) = size BY <1>1, <1>3
  <2> HIDE DEF size, s
  <2> QED BY <2>1
<1>5. \A m \in 0..(NSteps - 1) : Joined(PairSet, t[m], Pairs(object, Steps[m + 1]), t[m + 1])
  <2> TAKE m \in 0..(NSteps - 1)
  <2>1. m \in 0..NSteps /\ m + 1 \in 1..NSteps /\ (m + 1) - 1 = m BY <1>1
  <2>2. t[m + 1] = t[m] \o Pairs(object, Steps[m + 1]) BY <1>2, <2>1
  <2>3. t[m] \in Seq(PairSet) /\ Pairs(object, Steps[m + 1]) \in Seq(PairSet) BY <1>2, <1>3, <2>1
  <2> HIDE DEF t
  <2>4. Joined(PairSet, t[m], Pairs(object, Steps[m + 1]), t[m] \o Pairs(object, Steps[m + 1]))
    BY <2>3, ConcatIs
  <2> QED BY <2>2, <2>4
<1>6. L \in Nat BY <1>1, <1>2
<1> HIDE DEF t, s, size
<1> DEFINE Holds(u) == Len(u) >= L + size /\ \A j \in 1..size : u[L + j] = s[j]
           S == {m \in Nat : n + 1 <= m /\ m <= NSteps => Holds(t[m])}
<1>7. Len(t[n + 1]) = L + size /\ \A j \in 1..size : t[n + 1][L + j] = s[j]
  <2>1. Joined(PairSet, t[n], s, t[n + 1]) BY <1>1, <1>5 DEF s
  <2> QED BY <1>4, <2>1 DEF Joined
<1>8. Holds(t[n + 1]) BY <1>4, <1>6, <1>7
<1>9. ASSUME NEW m \in (n + 1)..(NSteps - 1), Holds(t[m]) PROVE Holds(t[m + 1])
  <2> DEFINE x == Pairs(object, Steps[m + 1])
  <2>1. m \in 0..(NSteps - 1) /\ m \in 0..NSteps /\ m + 1 \in 1..NSteps BY <1>1
  <2>2. Joined(PairSet, t[m], x, t[m + 1]) BY <1>5, <2>1
  <2>3. t[m] \in Seq(PairSet) /\ x \in Seq(PairSet) BY <1>2, <1>3, <2>1
  <2> HIDE DEF x
  <2>4. Len(t[m]) \in Nat /\ Len(x) \in Nat BY <2>3
  <2>5. Len(t[m + 1]) = Len(t[m]) + Len(x) /\ \A k \in 1..Len(t[m]) : t[m + 1][k] = t[m][k]
    BY <2>2 DEF Joined
  <2>6. \A j \in 1..size : L + j \in 1..Len(t[m]) BY <1>4, <1>6, <1>9, <2>4
  <2>7. Len(t[m]) >= L + size /\ \A j \in 1..size : t[m][L + j] = s[j] BY <1>9
  <2>8. Len(t[m + 1]) >= L + size
    <3> DEFINE y == Len(t[m])
               z == Len(x)
    <3> HIDE DEF y, z
    <3>1. y \in Nat /\ z \in Nat /\ y >= L + size /\ Len(t[m + 1]) = y + z BY <2>4, <2>5, <2>7 DEF y, z
    <3> QED BY <1>4, <1>6, <3>1
  <2>9. \A j \in 1..size : t[m + 1][L + j] = s[j] BY <2>5, <2>6, <2>7
  <2> QED BY <2>8, <2>9
<1> HIDE DEF Holds
<1>10. 0 \in S BY <1>1
<1>11. ASSUME NEW m \in Nat, m \in S PROVE m + 1 \in S
  <2> SUFFICES ASSUME n + 1 <= m + 1, m + 1 <= NSteps PROVE Holds(t[m + 1]) OBVIOUS
  <2>1. CASE m = n BY <1>8, <2>1
  <2>2. CASE m # n
    <3>1. m \in (n + 1)..(NSteps - 1) /\ n + 1 <= m /\ m <= NSteps BY <1>1, <2>2
    <3>2. Holds(t[m]) BY <1>11, <3>1
    <3> QED BY <1>9, <3>1, <3>2
  <2> QED BY <2>1, <2>2
<1> HIDE DEF S
<1>12. NSteps \in S
  <2>1. Nat \subseteq S BY <1>10, <1>11, SetInduction
  <2> QED BY <1>1, <2>1
<1>13. Holds(t[NSteps]) BY <1>1, <1>12 DEF S
<1>14. Table(object) = t[NSteps] BY DEF Table, NSteps, t
<1> QED BY <1>7, <1>13, <1>14 DEF Holds, t, s, size

\* Places never go back.
LEMMA PlacesGrow ==
  ASSUME object \in Objects, NEW m \in 0..NSteps, NEW n \in 0..NSteps, m <= n
  PROVE  Place(object)[m][1] <= Place(object)[n][1]
<1> DEFINE t == Place(object)
           S == {k \in Nat : m <= k /\ k <= NSteps => t[m][1] <= t[k][1]}
<1>1. NSteps \in Nat /\ \A k \in 1..NSteps : Steps[k] \in PairSet BY StepsAre
<1>2. /\ \A k \in 0..NSteps : t[k] \in PairSet
      /\ \A k \in 1..NSteps : t[k][1] = t[k - 1][1] + Steps[k][1]
  BY PlaceIs
<1> HIDE DEF t
<1>3. \A k \in 0..NSteps : t[k][1] \in Nat BY <1>2, PairIs
<1>4. \A k \in 1..NSteps : Steps[k][1] \in Nat BY <1>1, PairIs
<1>5. 0 \in S BY <1>1, <1>3
<1>6. ASSUME NEW k \in Nat, k \in S PROVE k + 1 \in S
  <2> SUFFICES ASSUME m <= k + 1, k + 1 <= NSteps PROVE t[m][1] <= t[k + 1][1] OBVIOUS
  <2>1. CASE m = k + 1
    <3>1. t[m][1] \in Nat BY <1>3
    <3> QED BY <2>1, <3>1
  <2>2. CASE m # k + 1
    <3>1. m <= k /\ k <= NSteps /\ k \in 0..NSteps /\ k + 1 \in 1..NSteps /\ (k + 1) - 1 = k
      BY <1>1, <2>2
    <3>2. t[m][1] <= t[k][1] BY <1>6, <3>1
    <3>3. t[k + 1][1] = t[k][1] + Steps[k + 1][1] BY <1>2, <3>1
    <3>4. t[m][1] \in Nat /\ t[k][1] \in Nat /\ Steps[k + 1][1] \in Nat BY <1>3, <1>4, <3>1
    <3> QED BY <3>2, <3>3, <3>4
  <2> QED BY <2>1, <2>2
<1> HIDE DEF S
<1>7. Nat \subseteq S BY <1>5, <1>6, SetInduction
<1>8. n \in S /\ n \in Nat /\ n <= NSteps BY <1>1, <1>7
<1> QED BY <1>8 DEF S, t

\* The line is that of the last place the instruction has reached.
LEMMA LineOfIs ==
  ASSUME object \in Objects, object.lasti \in Nat, NEW n \in 0..NSteps,
         Place(object)[n][1] <= object.lasti,
         n < NSteps => Place(object)[n + 1][1] > object.lasti
  PROVE  LineOf(object) = Place(object)[n][2]
<1> DEFINE t == Place(object)
           reached == {m \in DOMAIN object.steps : t[m][1] <= object.lasti}
<1>1. NSteps \in Nat /\ DOMAIN object.steps = 1..NSteps /\ n \in Nat BY StepsAre
<1>2. \A k \in 0..NSteps : t[k][1] \in Nat
  <2>1. \A k \in 0..NSteps : t[k] \in PairSet BY PlaceIs
  <2> HIDE DEF t
  <2> QED BY <2>1, PairIs
<1>3. \A k, m \in 0..NSteps : k <= m => t[k][1] <= t[m][1] BY PlacesGrow
<1> HIDE DEF t
<1>4. ASSUME NEW m \in 1..NSteps PROVE t[m][1] <= object.lasti <=> m <= n
  <2>1. CASE m <= n
    <3>1. m \in 0..NSteps /\ t[m][1] <= t[n][1] BY <1>1, <1>3, <2>1
    <3>2. t[m][1] \in Nat /\ t[n][1] \in Nat /\ t[n][1] <= object.lasti BY <1>2, <3>1 DEF t
    <3> QED BY <2>1, <3>1, <3>2
  <2>2. CASE ~(m <= n)
    <3>1. n < NSteps /\ n + 1 \in 0..NSteps /\ m \in 0..NSteps /\ n + 1 <= m BY <1>1, <2>2
    <3>2. t[n + 1][1] <= t[m][1] /\ t[n + 1][1] > object.lasti BY <1>3, <3>1 DEF t
    <3>3. t[n + 1][1] \in Nat /\ t[m][1] \in Nat BY <1>2, <3>1
    <3> QED BY <2>2, <3>2, <3>3
  <2> QED BY <2>1, <2>2
<1>5. reached = 1..n BY <1>1, <1>4
<1>6. Cardinality(reached) = n BY <1>1, <1>5, CountTo
<1>7. LineOf(object) = t[Cardinality(reached)][2] BY Zenon DEF LineOf, t
<1> HIDE DEF reached
<1> QED BY <1>6, <1>7 DEF t

\* The line is a number.
LEMMA LineOfType ==
  ASSUME object \in Objects
  PROVE  LineOf(object) \in Int
<1> DEFINE reached == {m \in DOMAIN object.steps : Place(object)[m][1] <= object.lasti}
<1>1. NSteps \in Nat /\ reached \subseteq 1..NSteps BY StepsAre
<1>2. LineOf(object) = Place(object)[Cardinality(reached)][2] BY Zenon DEF LineOf
<1> HIDE DEF reached
<1>3. Cardinality(reached) \in 0..NSteps
  <2>1. IsFiniteSet(1..NSteps) /\ Cardinality(1..NSteps) = NSteps BY <1>1, CountTo
  <2>2. /\ IsFiniteSet(reached)
        /\ Cardinality(reached) <= Cardinality(1..NSteps)
    BY <1>1, <2>1, FS_Subset
  <2>3. Cardinality(reached) \in Nat BY <2>2, FS_CardinalityType
  <2> QED BY <1>1, <2>1, <2>2, <2>3
<1>4. Place(object)[Cardinality(reached)] \in PairSet BY <1>3, PlaceIs
<1> QED BY <1>2, <1>4, PairIs

----------------------------------------------------------------------------
(* GetLine.                                                                *)

\* What was consumed are the pairs of n steps and j pairs of the next one.
At(n, j, q, a, l) ==
  /\ n \in 0..NSteps /\ j \in Nat
  /\ q = Len(TableTo(object)[n]) + j
  /\ IF n = NSteps
     THEN j = 0 /\ a = Place(object)[n][1] /\ l = Place(object)[n][2]
     ELSE /\ j < Size(Steps[n + 1])
          /\ a = Place(object)[n][1] + AddrOf(Steps[n + 1], j)
          /\ l = Place(object)[n][2] + LinesOf(Steps[n + 1], j)

\* What holds whatever the table is like.
LineTypes ==
  /\ object \in Objects /\ pc \in {"string", "line", "done"}
  /\ p \in 0..Len(Table(object)) /\ addr \in Nat /\ line \in Int
  /\ pc = "string" => p = 0 /\ addr = 0

\* The inductive invariant of GetLine: as long as the loop runs on a table that
\* does not go back, addr and line are those of a position in it, and the
\* instruction is not before it.
LineInv ==
  /\ LineTypes
  /\ pc = "line" /\ object.lasti >= 0 /\ Forward =>
       addr <= object.lasti /\ \E n, j : At(n, j, p, addr, line)
  /\ pc = "line" => ~object.traced
  /\ LineRight

\* The table is a sequence of pairs.
LEMMA TableIs ==
  ASSUME object \in Objects
  PROVE  /\ Table(object) \in Seq(PairSet) /\ Len(Table(object)) \in Nat
         /\ \A k \in 1..Len(Table(object)) :
              Table(object)[k][1] \in Nat /\ Table(object)[k][2] \in Int
<1>1. NSteps \in Nat BY StepsAre
<1>2. NSteps \in 0..NSteps BY <1>1
<1>3. Table(object) \in Seq(PairSet) BY <1>2, TableToIs DEF Table, NSteps
<1> DEFINE t == Table(object)
<1> HIDE DEF t
<1>4. \A k \in 1..Len(t) : t[k] \in PairSet BY <1>3, ElementIs DEF t
<1> QED BY <1>3, <1>4, PairIs DEF t

\* Types are kept by each step.
LEMMA TypesKept == LineTypes /\ [Next]_vars => LineTypes'
<1> SUFFICES ASSUME LineTypes, [Next]_vars PROVE LineTypes' OBVIOUS
<1>1. /\ object \in Objects /\ pc \in {"string", "line", "done"}
      /\ p \in 0..Len(Table(object)) /\ addr \in Nat /\ line \in Int
      /\ pc = "string" => p = 0 /\ addr = 0
  BY DEF LineTypes
<1>2. /\ Len(Table(object)) \in Nat
      /\ \A k \in 1..Len(Table(object)) :
           Table(object)[k][1] \in Nat /\ Table(object)[k][2] \in Int
  BY <1>1, TableIs
<1>3. object' = object => Table(object)' = Table(object) BY DEF Table
<1>4. CASE DumpChar \/ PeekWord \/ EndOfTable \/ Terminated \/ UNCHANGED vars
  <2>1. /\ object' = object /\ p' = p /\ addr' = addr /\ line' = line
        /\ pc' = pc \/ (pc = "line" /\ pc' = "done")
    BY <1>4, Zenon DEF DumpChar, PeekWord, EndOfTable, Terminated, vars
  <2> QED BY <1>1, <1>3, <2>1 DEF LineTypes
<1>5. CASE StartLine
  <2>1. /\ object' = object /\ p' = p /\ addr' = addr /\ pc' \in {"line", "done"}
        /\ line' = FLineno(object) \/ line' = object.first
    BY <1>5 DEF StartLine
  <2>2. object.first \in Int /\ FLineno(object) \in Int
    BY <1>1, StepsAre, LineOfType DEF FLineno
  <2>3. line' \in Int BY <2>1, <2>2
  <2> QED BY <1>1, <1>3, <2>1, <2>3 DEF LineTypes
<1>6. CASE AddPair
  <2> DEFINE pair == Table(object)[p + 1]
  <2>1. /\ pc = "line" /\ p < Len(Table(object)) /\ p' = p + 1 /\ object' = object
        /\ addr' = addr + pair[1]
        /\ line' = line \/ line' = line + pair[2]
        /\ pc' = pc \/ pc' = "done"
    BY <1>6, Zenon DEF AddPair
  <2>2. p + 1 \in 1..Len(Table(object)) /\ p + 1 \in 0..Len(Table(object)) BY <1>1, <1>2, <2>1
  <2>3. pair[1] \in Nat /\ pair[2] \in Int BY <1>2, <2>2
  <2> HIDE DEF pair
  <2>4. addr' \in Nat /\ line' \in Int BY <1>1, <2>1, <2>3
  <2> QED BY <1>1, <1>3, <2>1, <2>2, <2>4 DEF LineTypes
<1> QED BY <1>4, <1>5, <1>6 DEF Next

\* A place is where its first pairs begin.
LEMMA AtPlace ==
  ASSUME object \in Objects, NEW n \in 0..NSteps
  PROVE  At(n, 0, Len(TableTo(object)[n]), Place(object)[n][1], Place(object)[n][2])
<1> DEFINE t == TableTo(object)[n]
           a == Place(object)[n][1]
           l == Place(object)[n][2]
<1>1. t \in Seq(PairSet) BY TableToIs
<1>2. a \in Nat /\ l \in Int
  <2>1. Place(object)[n] \in PairSet BY PlaceIs
  <2> QED BY <2>1, PairIs
<1>3. Len(t) + 0 = Len(t) BY <1>1
<1> HIDE DEF t, a, l
<1>4. CASE n = NSteps
  <2>1. At(n, 0, Len(t), a, l) BY <1>3, <1>4 DEF At, t, a, l
  <2> QED BY <2>1 DEF t, a, l
<1>5. CASE n # NSteps
  <2> DEFINE step == Steps[n + 1]
  <2>1. n + 1 \in 1..NSteps /\ step \in PairSet BY <1>5, StepsAre
  <2>2. Many1(step) \in Nat /\ Many2(step) \in Nat BY <2>1, PairsAre
  <2>3. AddrOf(step, 0) = 0 /\ LinesOf(step, 0) = 0 /\ 0 < Size(step)
    BY <2>2, MostIs DEF AddrOf, LinesOf, Size
  <2> HIDE DEF step
  <2>4. a = a + AddrOf(step, 0) /\ l = l + LinesOf(step, 0) BY <1>2, <2>3
  <2>5. At(n, 0, Len(t), a, l) BY <1>3, <1>5, <2>3, <2>4, Zenon DEF At, t, a, l, step
  <2> QED BY <2>5 DEF t, a, l
<1> QED BY <1>4, <1>5

\* The invariant holds at first...
LEMMA LineBegins == Init => LineInv
<1> SUFFICES ASSUME Init PROVE LineInv OBVIOUS
<1>1. object \in Objects /\ pc = "string" /\ p = 0 /\ addr = 0 /\ line = 0 BY DEF Init
<1>2. Len(Table(object)) \in Nat BY <1>1, TableIs
<1>3. LineTypes BY <1>1, <1>2 DEF LineTypes
<1> QED BY <1>1, <1>3 DEF LineInv, LineRight

\* A pair more: a place further, or the instruction lies before the next one.
LEMMA PairKeeps ==
  ASSUME LineTypes, AddPair, object.lasti \in Nat, Forward, addr <= object.lasti,
         NEW n, NEW j, At(n, j, p, addr, line)
  PROVE  IF addr' > object.lasti THEN line' = LineOf(object) /\ pc' = "done"
         ELSE pc' = "line" /\ \E m, k : At(m, k, p', addr', line')
<1> DEFINE step == Steps[n + 1]
           pair == Table(object)[p + 1]
           T == Len(TableTo(object)[n])
           a == Place(object)[n][1]
           l == Place(object)[n][2]
<1>1. /\ object \in Objects /\ p \in 0..Len(Table(object)) /\ addr \in Nat /\ line \in Int
  BY DEF LineTypes
<1>2. /\ pc = "line" /\ p < Len(Table(object)) /\ p' = p + 1 /\ addr' = addr + pair[1]
      /\ IF Beyond(addr') THEN pc' = "done" /\ line' = line
         ELSE line' = line + pair[2] /\ pc' = pc
  BY Zenon DEF AddPair
<1>3. Beyond(addr') <=> addr' > object.lasti
  <2>1. FLasti = object.lasti BY SMT DEF FLasti
  <2> QED BY <2>1 DEF Beyond
<1>4. NSteps \in Nat /\ n \in 0..NSteps /\ j \in Nat /\ p = T + j BY <1>1, StepsAre DEF At
<1>5. n # NSteps
  <2> SUFFICES ASSUME n = NSteps PROVE FALSE OBVIOUS
  <2>1. p = Len(Table(object)) + 0 BY <1>4 DEF At, Table, NSteps
  <2>2. Len(Table(object)) \in Nat BY <1>1, TableIs
  <2> QED BY <1>2, <2>1, <2>2
<1>6. /\ n \in 0..(NSteps - 1) /\ n + 1 \in 1..NSteps /\ n + 1 \in 0..NSteps /\ (n + 1) - 1 = n
      /\ n < NSteps
  BY <1>4, <1>5
<1>7. j < Size(step) /\ addr = a + AddrOf(step, j) /\ line = l + LinesOf(step, j)
  BY <1>5, Zenon DEF At
<1>8. step \in PairSet /\ step[1] \in Nat /\ step[2] \in Int /\ step[2] >= 0
  <2>1. step \in PairSet BY <1>1, <1>6, StepsAre
  <2>2. step[2] >= 0
    <3>1. n + 1 \in DOMAIN object.steps BY <1>1, <1>6, StepsAre
    <3> QED BY <3>1 DEF Forward, Steps
  <2> QED BY <2>1, <2>2, PairIs
<1>9. a \in Nat /\ l \in Int
  <2>1. Place(object)[n] \in PairSet BY <1>1, <1>4, PlaceIs
  <2> QED BY <2>1, PairIs
<1>10. /\ Place(object)[n + 1][1] = a + step[1]
       /\ Place(object)[n + 1][2] = l + step[2]
  BY <1>1, <1>6, PlaceIs
<1>11. Size(step) \in Nat /\ j \in 0..(Size(step) - 1) /\ j + 1 \in 1..Size(step)
  <2>1. Many1(step) \in Nat /\ Many2(step) \in Nat BY <1>8, PairsAre
  <2>2. Size(step) \in Nat BY <2>1 DEF Size
  <2> HIDE DEF step
  <2> QED BY <1>4, <1>7, <2>2
<1>12. PairAdds(step, j) BY <1>8, <1>11, PairLeads
<1>13. T \in Nat
  <2>1. TableTo(object)[n] \in Seq(PairSet) BY <1>1, <1>4, TableToIs
  <2> QED BY <2>1
<1>14. pair = Pairs(object, step)[j + 1] /\ Len(TableTo(object)[n + 1]) = T + Size(step)
  <2>1. Table(object)[T + (j + 1)] = Pairs(object, step)[j + 1]
    BY <1>1, <1>6, <1>11, StepInTable
  <2>2. T + (j + 1) = p + 1
    <3> HIDE DEF T
    <3> QED BY <1>4, <1>13
  <2>3. Len(TableTo(object)[n + 1]) = T + Size(step) BY <1>1, <1>6, StepInTable
  <2> QED BY <2>1, <2>2, <2>3
<1>15. /\ AddrOf(step, j) \in Nat /\ pair[1] \in Nat
       /\ AddrOf(step, j) + pair[1] <= step[1]
       /\ pair[1] # 0 => LinesOf(step, j) = 0
       /\ AddrOf(step, j) + pair[1] = IF j + 1 = Size(step) THEN step[1] ELSE AddrOf(step, j + 1)
       /\ LinesOf(step, j) + pair[2] = IF j + 1 = Size(step) THEN step[2] ELSE LinesOf(step, j + 1)
  BY <1>12, <1>14 DEF PairAdds
<1>16. pair[2] \in Int /\ LinesOf(step, j) \in Int
  <2>1. p + 1 \in 1..Len(Table(object)) BY <1>1, <1>2
  <2>2. pair[2] \in Int BY <1>1, <2>1, TableIs
  <2>3. Many1(step) \in Nat /\ MostLines(object) \in Nat BY <1>8, PairsAre, MostIs
  <2> HIDE DEF step
  <2>4. (j - Many1(step)) * MostLines(object) \in Int BY <1>4, <2>3
  <2>5. LinesOf(step, j) \in Int BY <2>4 DEF LinesOf
  <2> QED BY <2>2, <2>5
<1> DEFINE more == AddrOf(step, j) + pair[1]
           next == LinesOf(step, j) + pair[2]
<1>17. addr' = a + more /\ line + pair[2] = l + next
  <2> DEFINE x == AddrOf(step, j)
             y == LinesOf(step, j)
  <2> HIDE DEF x, y, pair, step, a, l
  <2>1. x \in Nat /\ y \in Int /\ addr = a + x /\ line = l + y BY <1>7, <1>15, <1>16 DEF x, y
  <2>2. (a + x) + pair[1] = a + (x + pair[1]) /\ (l + y) + pair[2] = l + (y + pair[2])
    BY <1>9, <1>15, <1>16, <2>1
  <2> QED BY <1>2, <2>1, <2>2 DEF x, y
<1>18. CASE addr' > object.lasti
  <2>1. line' = line /\ pc' = "done" BY <1>2, <1>3, <1>18
  <2>2. line = l
    <3>1. pair[1] # 0
      <4> SUFFICES ASSUME pair[1] = 0 PROVE FALSE OBVIOUS
      <4>1. addr' = addr BY <1>1, <1>2
      <4> QED BY <1>1, <1>18, <4>1
    <3>2. LinesOf(step, j) = 0 BY <1>15, <3>1
    <3> HIDE DEF l
    <3> QED BY <1>7, <1>9, <3>2
  <2>3. a <= object.lasti
    <3> DEFINE x == AddrOf(step, j)
    <3>1. x \in Nat /\ addr = a + x BY <1>7, <1>15
    <3> HIDE DEF x, a
    <3> QED BY <1>9, <3>1
  <2>4. Place(object)[n + 1][1] > object.lasti
    <3> DEFINE s1 == step[1]
    <3>1. more <= s1 /\ more \in Nat /\ s1 \in Nat BY <1>8, <1>15
    <3> HIDE DEF s1, more, a
    <3>2. a + s1 > object.lasti BY <1>9, <1>17, <1>18, <3>1
    <3> QED BY <1>10, <3>2 DEF s1
  <2>5. LineOf(object) = l BY <1>1, <1>4, <2>3, <2>4, LineOfIs
  <2> QED BY <1>18, <2>1, <2>2, <2>5
<1>19. CASE ~(addr' > object.lasti)
  <2>1. line' = l + next /\ pc' = "line" BY <1>2, <1>3, <1>17, <1>19
  <2>2. \E m, k : At(m, k, p', addr', line')
    <3>1. CASE j + 1 = Size(step)
      <4>1. more = step[1] /\ next = step[2] BY <1>15, <3>1
      <4>2. addr' = Place(object)[n + 1][1] /\ line' = Place(object)[n + 1][2]
        BY <1>10, <1>17, <2>1, <4>1
      <4>3. p' = Len(TableTo(object)[n + 1])
        <5> HIDE DEF T
        <5>1. p + 1 = T + (j + 1) BY <1>4, <1>13
        <5> QED BY <1>2, <1>14, <3>1, <5>1
      <4>4. At(n + 1, 0, p', addr', line') BY <1>1, <1>6, <4>2, <4>3, AtPlace
      <4> QED BY <4>4
    <3>2. CASE j + 1 # Size(step)
      <4>1. addr' = a + AddrOf(step, j + 1) /\ line' = l + LinesOf(step, j + 1)
        BY <1>15, <1>17, <2>1, <3>2
      <4>2. p' = T + (j + 1) /\ j + 1 \in Nat
        <5> HIDE DEF T
        <5> QED BY <1>2, <1>4, <1>13
      <4>3. j + 1 < Size(step)
        <5> DEFINE x == Size(step)
        <5>1. x \in Nat /\ j + 1 \in 1..x /\ j + 1 # x BY <1>11, <3>2
        <5> HIDE DEF x
        <5>2. j + 1 < x BY <1>4, <5>1
        <5> QED BY <5>2 DEF x
      <4>4. At(n, j + 1, p', addr', line') BY <1>4, <1>5, <4>1, <4>2, <4>3, Zenon DEF At
      <4> QED BY <4>4
    <3> QED BY <3>1, <3>2
  <2> QED BY <1>19, <2>1, <2>2
<1> QED BY <1>18, <1>19

\* ...and each step keeps it.
LEMMA LineKept == LineInv /\ [Next]_vars => LineInv'
<1> SUFFICES ASSUME LineInv, [Next]_vars PROVE LineInv' OBVIOUS
<1>1. /\ LineTypes /\ LineTypes' /\ LineRight
      /\ pc = "line" /\ object.lasti >= 0 /\ Forward =>
           addr <= object.lasti /\ \E n, j : At(n, j, p, addr, line)
      /\ pc = "line" => ~object.traced
  BY TypesKept DEF LineInv
<1>2. object \in Objects /\ addr \in Nat /\ object.lasti \in Nat \cup {-1}
  BY <1>1, ObjectIs DEF LineTypes
<1>3. object' = object BY DEF Next, DumpChar, PeekWord, StartLine, AddPair, EndOfTable, Terminated, vars
<1>4. /\ LineOf(object)' = LineOf(object) /\ Forward' = Forward
      /\ \A n, j : At(n, j, p, addr, line)' <=> At(n, j, p', addr', line')
  <2>1. LineOf(object)' = LineOf(object) BY <1>3
  <2>2. Forward' = Forward BY <1>3 DEF Forward
  <2>3. ASSUME NEW n, NEW j
        PROVE  At(n, j, p, addr, line)' <=> At(n, j, p', addr', line')
    BY <1>3, Zenon DEF At, NSteps, Steps, Size, Many1, Many2, AddrOf, LinesOf
  <2> QED BY <2>1, <2>2, <2>3
<1>5. CASE DumpChar \/ PeekWord \/ Terminated \/ UNCHANGED vars
  <2>1. p' = p /\ addr' = addr /\ line' = line /\ pc' = pc /\ (pc' = "line" => pc = "line")
    BY <1>5, Zenon DEF DumpChar, PeekWord, Terminated, vars
  <2>2. LineRight' <=> LineRight BY <1>3, <1>4, <2>1 DEF LineRight
  <2>3. \A n, j : At(n, j, p, addr, line)' <=> At(n, j, p, addr, line) BY <1>4, <2>1
  <2> QED BY <1>1, <1>3, <1>4, <2>1, <2>2, <2>3 DEF LineInv
<1>6. CASE StartLine
  <2>1. pc = "string" /\ p' = p /\ addr' = addr BY <1>6 DEF StartLine
  <2>2. p' = 0 /\ addr' = 0 BY <1>1, <2>1 DEF LineTypes
  <2>3. CASE object.traced
    <3>1. line' = LineOf(object) /\ pc' = "done" BY <1>6, <2>3 DEF StartLine, FLineno
    <3> QED BY <1>1, <1>4, <3>1 DEF LineInv, LineRight
  <2>4. CASE ~object.traced
    <3>1. line' = object.first /\ pc' = "line" BY <1>6, <2>4 DEF StartLine
    <3>2. At(0, 0, p', addr', line')
      <4>1. 0 \in 0..NSteps BY <1>2, StepsAre
      <4>2. /\ TableTo(object)[0] = <<>> /\ Place(object)[0] = <<0, object.first>>
        BY <1>2, TableToIs, PlaceIs
      <4>3. /\ Len(TableTo(object)[0]) = 0
            /\ Place(object)[0][1] = 0 /\ Place(object)[0][2] = object.first
        BY <4>2
      <4> QED BY <1>2, <2>2, <3>1, <4>1, <4>3, AtPlace
    <3>3. object.lasti >= 0 => addr' <= object.lasti BY <1>2, <2>2
    <3> QED BY <1>1, <1>3, <1>4, <2>4, <3>1, <3>2, <3>3 DEF LineInv, LineRight
  <2> QED BY <2>3, <2>4
<1>7. CASE AddPair
  <2>1. pc = "line" /\ ~object.traced /\ (pc' = "line" \/ pc' = "done")
    BY <1>1, <1>7, Zenon DEF AddPair
  <2>2. CASE object.lasti >= 0 /\ Forward
    <3>1. PICK n, j : At(n, j, p, addr, line) BY <1>1, <2>1, <2>2
    <3>2. object.lasti \in Nat /\ addr <= object.lasti BY <1>1, <1>2, <2>1, <2>2
    <3>3. IF addr' > object.lasti THEN line' = LineOf(object) /\ pc' = "done"
          ELSE pc' = "line" /\ \E m, k : At(m, k, p', addr', line')
      BY <1>1, <1>7, <2>2, <3>1, <3>2, PairKeeps
    <3>4. addr' \in Nat BY <1>1 DEF LineTypes
    <3>5. CASE addr' > object.lasti
      BY <1>1, <1>4, <3>3, <3>5 DEF LineInv, LineRight
    <3>6. CASE ~(addr' > object.lasti)
      <4>1. addr' <= object.lasti BY <3>2, <3>4, <3>6
      <4> QED BY <1>1, <1>3, <1>4, <2>1, <3>3, <3>6, <4>1 DEF LineInv, LineRight
    <3> QED BY <3>5, <3>6
  <2>3. CASE ~(object.lasti >= 0 /\ Forward)
    BY <1>1, <1>3, <1>4, <2>1, <2>3 DEF LineInv, LineRight
  <2> QED BY <2>2, <2>3
<1>8. CASE EndOfTable
  <2>1. pc = "line" /\ p = Len(Table(object)) /\ pc' = "done" /\ line' = line /\ ~object.traced
    BY <1>1, <1>8 DEF EndOfTable
  <2>2. ASSUME object.lasti >= 0, Forward PROVE line = LineOf(object)
    <3>1. PICK n, j : At(n, j, p, addr, line) BY <1>1, <2>1, <2>2
    <3>2. n \in 0..NSteps /\ j \in Nat /\ p = Len(TableTo(object)[n]) + j /\ NSteps \in Nat
      BY <1>2, <3>1, StepsAre DEF At
    <3>3. n = NSteps
      <4> SUFFICES ASSUME n # NSteps PROVE FALSE OBVIOUS
      <4>1. n \in 0..(NSteps - 1) BY <3>2
      <4>2. /\ Len(TableTo(object)[n + 1]) = Len(TableTo(object)[n]) + Size(Steps[n + 1])
            /\ Len(TableTo(object)[n + 1]) <= Len(Table(object))
        BY <1>2, <4>1, StepInTable
      <4>3. j < Size(Steps[n + 1]) BY <3>1 DEF At
      <4>4. Size(Steps[n + 1]) \in Nat
        <5>1. n + 1 \in 1..NSteps BY <3>2, <4>1
        <5>2. Steps[n + 1] \in PairSet BY <1>2, <5>1, StepsAre
        <5>3. Many1(Steps[n + 1]) \in Nat /\ Many2(Steps[n + 1]) \in Nat BY <5>2, PairsAre
        <5> QED BY <5>3 DEF Size
      <4>5. Len(TableTo(object)[n]) \in Nat
        <5>1. TableTo(object)[n] \in Seq(PairSet) BY <1>2, <3>2, TableToIs
        <5> QED BY <5>1
      <4> DEFINE T == Len(TableTo(object)[n])
                 x == Size(Steps[n + 1])
      <4>6. p = T + j /\ j < x /\ T + x <= p /\ T \in Nat /\ x \in Nat
        BY <2>1, <3>2, <4>2, <4>3, <4>4, <4>5
      <4> HIDE DEF T, x
      <4> QED BY <3>2, <4>6
    <3>4. addr = Place(object)[n][1] /\ line = Place(object)[n][2] BY <3>1, <3>3 DEF At
    <3>5. addr <= object.lasti /\ object.lasti \in Nat BY <1>1, <1>2, <2>1, <2>2
    <3>6. ~(n < NSteps) BY <3>2, <3>3
    <3>7. LineOf(object) = Place(object)[n][2] BY <1>2, <3>2, <3>4, <3>5, <3>6, LineOfIs
    <3> QED BY <3>4, <3>7
  <2> QED BY <1>1, <1>3, <1>4, <2>1, <2>2 DEF LineInv, LineRight
<1> QED BY <1>5, <1>6, <1>7, <1>8 DEF Next

\* The line that is reported is that of the instruction, for every table
\* whose lines never go back, however many pairs its steps take.
THEOREM LineIsRight == Spec => []LineRight
<1>1. LineInv => LineRight BY DEF LineInv
<1> QED BY <1>1, LineBegins, LineKept, PTL DEF Spec

\* Every variable keeps its type: each char of the output holds its byte, and
\* no read is beyond the string or the table.
THEOREM TypeCorrect == Spec => []TypeOK
<1>1. NameInv /\ LineInv => TypeOK
  <2> SUFFICES ASSUME NameInv, LineInv PROVE TypeOK OBVIOUS
  <2>1. dump \in Seq(0..255) BY DEF NameInv
  <2>2. \A k \in DOMAIN dump : dump[k] \in 0..255
    <3> SUFFICES ASSUME NEW k \in DOMAIN dump PROVE dump[k] \in 0..255 OBVIOUS
    <3>1. k \in 1..Len(dump) BY <2>1
    <3> QED BY <2>1, <3>1, ElementIs
  <2> QED BY <2>2 DEF NameInv, LineInv, LineTypes, TypeOK
<1> QED BY <1>1, NameBegins, NameKept, LineBegins, LineKept, PTL DEF Spec
=============================================================================

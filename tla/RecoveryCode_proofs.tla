------------------------ MODULE RecoveryCode_proofs -------------------------
(***************************************************************************)
(* Proofs about the recovery code.                                         *)
(***************************************************************************)
EXTENDS RecoveryCode, NaturalsInduction, WellFoundedInduction, SequenceTheorems, TLAPS

LEMMA SetInduction ==
    ASSUME NEW T, 0 \in T, \A n \in Nat : n \in T => n + 1 \in T
    PROVE  \A n \in Nat : n \in T
  <1> DEFINE R == OpToRel(<, Nat)
             U == {n \in Nat : n \notin T}
  <1>1. IsWellFoundedOn(R, Nat)
    BY NatLessThanWellFounded, Zenon
  <1>2. \A m, n \in Nat : <<m, n>> \in R <=> m < n
    BY DEF OpToRel
  <1>3. ASSUME U # {} PROVE FALSE
    <2> HIDE DEF R
    <2>1. PICK x \in U : \A y \in U : ~ (<<y, x>> \in R)
      <3>1. U \subseteq Nat OBVIOUS
      <3> HIDE DEF U
      <3> QED BY <1>1, <1>3, <3>1, WFMin
    <2>2. x \in Nat /\ x \notin T /\ x # 0
      OBVIOUS
    <2>3. x - 1 \in Nat /\ <<x - 1, x>> \in R
      BY <2>2, <1>2
    <2>4. x - 1 \in T
      BY <2>1, <2>3
    <2>5. (x - 1) + 1 \in T
      BY <2>3, <2>4
    <2> QED BY <2>2, <2>5
  <1> QED BY <1>3

-----------------------------------------------------------------------------
(* The recursive functions exist: the loops of the code, step by step. *)

LEMMA EncodeRun ==
    ASSUME NEW bytes, NEW n, Len(bytes) \in Nat
    PROVE  \E K : /\ K[0] = Start
                  /\ \A i \in 1..Len(bytes) : K[i] = EncodeByte(K[i - 1], bytes[i], n)
                  /\ encode_base32(bytes, n) = Flush(K[Len(bytes)], n)
  <1> DEFINE Runs(m, K) ==
               K = [i \in 0..m |-> IF i = 0 THEN Start ELSE EncodeByte(K[i - 1], bytes[i], n)]
             T == {m \in Nat : \E K : Runs(m, K)}
  <1>1. 0 \in T
    <2> DEFINE K0 == [i \in 0..0 |-> Start]
    <2>1. Runs(0, K0)
      OBVIOUS
    <2> HIDE DEF K0
    <2> QED BY <2>1
  <1>2. ASSUME NEW m \in Nat, m \in T PROVE m + 1 \in T
    <2>1. PICK K : Runs(m, K)
      BY <1>2
    <2> DEFINE L == [i \in 0..(m + 1) |->
                       IF i <= m THEN K[i] ELSE EncodeByte(K[m], bytes[m + 1], n)]
    <2>2. Runs(m + 1, L)
      <3>1. ASSUME NEW i \in 0..(m + 1)
            PROVE  L[i] = IF i = 0 THEN Start ELSE EncodeByte(L[i - 1], bytes[i], n)
        <4>1. CASE i = 0
          BY <2>1, <4>1
        <4>2. CASE i \in 1..m
          <5>1. L[i] = K[i] /\ L[i - 1] = K[i - 1] /\ i # 0
            BY <4>2
          <5>2. K[i] = EncodeByte(K[i - 1], bytes[i], n)
            BY <2>1, <4>2
          <5> QED BY <5>1, <5>2
        <4>3. CASE i = m + 1
          <5>1. L[i - 1] = K[m] /\ L[i] = EncodeByte(K[m], bytes[m + 1], n) /\ i # 0
            BY <4>3
          <5> QED BY <4>3, <5>1
        <4> QED BY <4>1, <4>2, <4>3
      <3> QED BY <3>1
    <2> HIDE DEF L
    <2> QED BY <2>2
  <1> HIDE DEF T
  <1>3. Len(bytes) \in T
    BY <1>1, <1>2, SetInduction
  <1>4. Runs(Len(bytes), CHOOSE K : Runs(Len(bytes), K))
    BY <1>3 DEF T
  <1>5. PICK K : Runs(Len(bytes), K) /\ encode_base32(bytes, n) = Flush(K[Len(bytes)], n)
    BY <1>4 DEF encode_base32
  <1> QED BY <1>5

LEMMA DecodeRun ==
    ASSUME NEW vals
    PROVE  \E K : /\ K[0] = Start
                  /\ \A i \in 1..CODE_DATA_CHARS : K[i] = DecodeChar(K[i - 1], vals[i] - 1)
                  /\ Decoded(vals) = K[CODE_DATA_CHARS].out
  <1> DEFINE Runs(m, K) ==
               K = [i \in 0..m |-> IF i = 0 THEN Start ELSE DecodeChar(K[i - 1], vals[i] - 1)]
             T == {m \in Nat : \E K : Runs(m, K)}
  <1>1. 0 \in T
    <2> DEFINE K0 == [i \in 0..0 |-> Start]
    <2>1. Runs(0, K0)
      OBVIOUS
    <2> HIDE DEF K0
    <2> QED BY <2>1
  <1>2. ASSUME NEW m \in Nat, m \in T PROVE m + 1 \in T
    <2>1. PICK K : Runs(m, K)
      BY <1>2
    <2> DEFINE L == [i \in 0..(m + 1) |->
                       IF i <= m THEN K[i] ELSE DecodeChar(K[m], vals[m + 1] - 1)]
    <2>2. Runs(m + 1, L)
      <3>1. ASSUME NEW i \in 0..(m + 1)
            PROVE  L[i] = IF i = 0 THEN Start ELSE DecodeChar(L[i - 1], vals[i] - 1)
        <4>1. CASE i = 0
          BY <2>1, <4>1
        <4>2. CASE i \in 1..m
          <5>1. L[i] = K[i] /\ L[i - 1] = K[i - 1] /\ i # 0
            BY <4>2
          <5>2. K[i] = DecodeChar(K[i - 1], vals[i] - 1)
            BY <2>1, <4>2
          <5> QED BY <5>1, <5>2
        <4>3. CASE i = m + 1
          <5>1. L[i - 1] = K[m] /\ L[i] = DecodeChar(K[m], vals[m + 1] - 1) /\ i # 0
            BY <4>3
          <5> QED BY <4>3, <5>1
        <4> QED BY <4>1, <4>2, <4>3
      <3> QED BY <3>1
    <2> HIDE DEF L
    <2> QED BY <2>2
  <1> HIDE DEF T
  <1>3. CODE_DATA_CHARS \in T
    BY <1>1, <1>2, SetInduction, SizeAssumption
  <1>4. Runs(CODE_DATA_CHARS, CHOOSE K : Runs(CODE_DATA_CHARS, K))
    BY <1>3 DEF T
  <1>5. PICK K : Runs(CODE_DATA_CHARS, K) /\ Decoded(vals) = K[CODE_DATA_CHARS].out
    BY <1>4 DEF Decoded
  <1> QED BY <1>5, SizeAssumption

(* one character of decode_code's first loop *)
ReadChar(s, c) == IF c \in {Dash, Space} THEN s ELSE Append(s, Position(c))

LEMMA ReadRun ==
    ASSUME NEW code, Len(code) \in Nat
    PROVE  \E K : /\ K[0] = <<>>
                  /\ \A i \in 1..Len(code) : K[i] = ReadChar(K[i - 1], code[i])
                  /\ Positions(code) = K[Len(code)]
  <1> DEFINE Runs(m, K) ==
               K = [i \in 0..m |-> IF i = 0 THEN <<>> ELSE ReadChar(K[i - 1], code[i])]
             T == {m \in Nat : \E K : Runs(m, K)}
  <1>1. 0 \in T
    <2> DEFINE K0 == [i \in 0..0 |-> <<>>]
    <2>1. Runs(0, K0)
      OBVIOUS
    <2> HIDE DEF K0
    <2> QED BY <2>1
  <1>2. ASSUME NEW m \in Nat, m \in T PROVE m + 1 \in T
    <2>1. PICK K : Runs(m, K)
      BY <1>2
    <2> DEFINE L == [i \in 0..(m + 1) |->
                       IF i <= m THEN K[i] ELSE ReadChar(K[m], code[m + 1])]
    <2>2. Runs(m + 1, L)
      <3>1. ASSUME NEW i \in 0..(m + 1)
            PROVE  L[i] = IF i = 0 THEN <<>> ELSE ReadChar(L[i - 1], code[i])
        <4>1. CASE i = 0
          BY <2>1, <4>1
        <4>2. CASE i \in 1..m
          <5>1. L[i] = K[i] /\ L[i - 1] = K[i - 1] /\ i # 0
            BY <4>2
          <5>2. K[i] = ReadChar(K[i - 1], code[i])
            BY <2>1, <4>2
          <5> QED BY <5>1, <5>2
        <4>3. CASE i = m + 1
          <5>1. L[i - 1] = K[m] /\ L[i] = ReadChar(K[m], code[m + 1]) /\ i # 0
            BY <4>3
          <5> QED BY <4>3, <5>1
        <4> QED BY <4>1, <4>2, <4>3
      <3> QED BY <3>1
    <2> HIDE DEF L
    <2> QED BY <2>2
  <1> HIDE DEF T
  <1>3. Len(code) \in T
    BY <1>1, <1>2, SetInduction
  <1>4. Runs(Len(code), CHOOSE K : Runs(Len(code), K))
    BY <1>3 DEF T
  <1>5. PICK K : Runs(Len(code), K) /\ Positions(code) = K[Len(code)]
    BY <1>4 DEF Positions, ReadChar
  <1> QED BY <1>5
-----------------------------------------------------------------------------
(* Arithmetic *)

LEMMA Pow2 ==
    /\ 2^0 = 1 /\ 2^1 = 2 /\ 2^2 = 4 /\ 2^3 = 8 /\ 2^4 = 16 /\ 2^5 = 32
    /\ 2^6 = 64 /\ 2^7 = 128 /\ 2^8 = 256
  OBVIOUS

(* The accumulator keeps its last twelve bits. *)
LEMMA AccLow ==
   ASSUME NEW n \in Nat
   PROVE  Acc(n) \in Nat /\ Acc(n) % 4096 = n % 4096
  <1> DEFINE M == 2^AccBits
             q == M \div 4096
  <1>1. M \in Nat /\ M > 0 /\ q \in Nat /\ M = 4096 * q
    BY AccAssumption
  <1>2. Acc(n) = n % M
    BY DEF Acc
  <1> HIDE DEF M, q
  <1> DEFINE d == n \div M
             a == n % M
  <1>3. d \in Nat /\ a \in Nat /\ n = M * d + a
    BY <1>1
  <1> HIDE DEF d, a
  <1> DEFINE e == q * d
  <1>4. M * d = 4096 * e /\ e \in Nat
    BY <1>1, <1>3
  <1> HIDE DEF e
  <1>5. n % 4096 = a % 4096
    BY <1>3, <1>4
  <1> QED BY <1>2, <1>3, <1>5 DEF a

-----------------------------------------------------------------------------
(* Binary digits: D(x, 2^k) is the digit of weight 2^k. *)

D(x, d) == (x \div d) % 2

LEMMA Digits ==
    ASSUME NEW b \in 0..255
    PROVE  /\ D(b, 128) \in 0..1 /\ D(b, 64) \in 0..1 /\ D(b, 32) \in 0..1
           /\ D(b, 16) \in 0..1 /\ D(b, 8) \in 0..1 /\ D(b, 4) \in 0..1
           /\ D(b, 2) \in 0..1 /\ D(b, 1) \in 0..1
           /\ b = 128 * D(b, 128) + 64 * D(b, 64) + 32 * D(b, 32) + 16 * D(b, 16)
                    + 8 * D(b, 8) + 4 * D(b, 4) + 2 * D(b, 2) + D(b, 1)
  <1>1. b \div 1 = b
    OBVIOUS
  <1> QED BY <1>1 DEF D

LEMMA Digits5 ==
    ASSUME NEW v \in 0..31
    PROVE  /\ D(v, 16) \in 0..1 /\ D(v, 8) \in 0..1 /\ D(v, 4) \in 0..1
           /\ D(v, 2) \in 0..1 /\ D(v, 1) \in 0..1
           /\ v = 16 * D(v, 16) + 8 * D(v, 8) + 4 * D(v, 4) + 2 * D(v, 2) + D(v, 1)
  <1>1. v \div 1 = v
    OBVIOUS
  <1> QED BY <1>1 DEF D

(* and back: digits determine the number they make up *)
Sum8(b7, b6, b5, b4, b3, b2, b1, b0) ==
    128 * b7 + 64 * b6 + 32 * b5 + 16 * b4 + 8 * b3 + 4 * b2 + 2 * b1 + b0

Sum5(b4, b3, b2, b1, b0) == 16 * b4 + 8 * b3 + 4 * b2 + 2 * b1 + b0

Digits8(x, b7, b6, b5, b4, b3, b2, b1, b0) ==
    /\ x \in 0..255
    /\ D(x, 128) = b7 /\ D(x, 64) = b6 /\ D(x, 32) = b5 /\ D(x, 16) = b4
    /\ D(x, 8) = b3 /\ D(x, 4) = b2 /\ D(x, 2) = b1 /\ D(x, 1) = b0

LEMMA Make8 ==
    ASSUME NEW b7 \in 0..1, NEW b6 \in 0..1, NEW b5 \in 0..1, NEW b4 \in 0..1,
           NEW b3 \in 0..1, NEW b2 \in 0..1, NEW b1 \in 0..1, NEW b0 \in 0..1, NEW x,
           x = Sum8(b7, b6, b5, b4, b3, b2, b1, b0)
    PROVE  Digits8(x, b7, b6, b5, b4, b3, b2, b1, b0)
  <1>0. x \in 0..255
    BY DEF Sum8
  <1> DEFINE c7 == D(x, 128)  c6 == D(x, 64)  c5 == D(x, 32)  c4 == D(x, 16)
             c3 == D(x, 8)    c2 == D(x, 4)   c1 == D(x, 2)   c0 == D(x, 1)
  <1>1. /\ c7 \in 0..1 /\ c6 \in 0..1 /\ c5 \in 0..1 /\ c4 \in 0..1
        /\ c3 \in 0..1 /\ c2 \in 0..1 /\ c1 \in 0..1 /\ c0 \in 0..1
        /\ x = 128 * c7 + 64 * c6 + 32 * c5 + 16 * c4 + 8 * c3 + 4 * c2 + 2 * c1 + c0
    BY <1>0, Digits, SMTT(30)
  <1> HIDE DEF c7, c6, c5, c4, c3, c2, c1, c0
  <1>2. /\ c7 = b7 /\ c6 = b6 /\ c5 = b5 /\ c4 = b4
        /\ c3 = b3 /\ c2 = b2 /\ c1 = b1 /\ c0 = b0
    BY <1>1 DEF Sum8
  <1> QED BY <1>0, <1>2 DEF Digits8, c7, c6, c5, c4, c3, c2, c1, c0

LEMMA Make5 ==
    ASSUME NEW b4 \in 0..1, NEW b3 \in 0..1, NEW b2 \in 0..1, NEW b1 \in 0..1,
           NEW b0 \in 0..1, NEW x, x = Sum5(b4, b3, b2, b1, b0)
    PROVE  /\ x \in 0..31
           /\ D(x, 16) = b4 /\ D(x, 8) = b3 /\ D(x, 4) = b2 /\ D(x, 2) = b1 /\ D(x, 1) = b0
  <1>0. x \in 0..31
    BY DEF Sum5
  <1> DEFINE c4 == D(x, 16)  c3 == D(x, 8)  c2 == D(x, 4)  c1 == D(x, 2)  c0 == D(x, 1)
  <1>1. /\ c4 \in 0..1 /\ c3 \in 0..1 /\ c2 \in 0..1 /\ c1 \in 0..1 /\ c0 \in 0..1
        /\ x = 16 * c4 + 8 * c3 + 4 * c2 + 2 * c1 + c0
    BY <1>0, Digits5
  <1> HIDE DEF c4, c3, c2, c1, c0
  <1>2. c4 = b4 /\ c3 = b3 /\ c2 = b2 /\ c1 = b1 /\ c0 = b0
    BY <1>1 DEF Sum5
  <1> QED BY <1>0, <1>2 DEF c4, c3, c2, c1, c0

(* What the accumulator holds when byte b follows byte p: the character    *)
(* that starts 0 to 4 bits before b, and the one after it.                 *)
Window(a, p, b) == a % 4096 = 256 * (p % 16) + b

CharsOf(a, p, b) ==
    /\ (a \div 8) % 32 = Sum5(D(b, 128), D(b, 64), D(b, 32), D(b, 16), D(b, 8))
    /\ (a \div 16) % 32 = Sum5(D(p, 1), D(b, 128), D(b, 64), D(b, 32), D(b, 16))
    /\ (a \div 32) % 32 = Sum5(D(p, 2), D(p, 1), D(b, 128), D(b, 64), D(b, 32))
    /\ (a \div 64) % 32 = Sum5(D(p, 4), D(p, 2), D(p, 1), D(b, 128), D(b, 64))
    /\ (a \div 128) % 32 = Sum5(D(p, 8), D(p, 4), D(p, 2), D(p, 1), D(b, 128))
    /\ a % 32 = Sum5(D(b, 16), D(b, 8), D(b, 4), D(b, 2), D(b, 1))
    /\ (a \div 2) % 32 = Sum5(D(b, 32), D(b, 16), D(b, 8), D(b, 4), D(b, 2))
    /\ (a \div 4) % 32 = Sum5(D(b, 64), D(b, 32), D(b, 16), D(b, 8), D(b, 4))

LEMMA Characters ==
    ASSUME NEW a \in Nat, NEW p \in 0..255, NEW b \in 0..255, Window(a, p, b)
    PROVE  CharsOf(a, p, b)
  <1> DEFINE q == a \div 4096
             r == p % 16
  <1>0. q \in Nat /\ r \in 0..15 /\ a = 4096 * q + 256 * r + b
    BY DEF Window
  <1>1. p % 2 = r % 2 /\ p % 4 = r % 4 /\ p % 8 = r % 8
    OBVIOUS
  <1> HIDE DEF q, r
  <1>2. (a \div 8) % 32 = b \div 8
    <2>1. a \div 8 = 512 * q + 32 * r + (b \div 8)
      BY <1>0
    <2> QED BY <1>0, <2>1
  <1>3. (a \div 16) % 32 = 16 * (r % 2) + (b \div 16)
    <2>1. a \div 16 = 256 * q + 16 * r + (b \div 16)
      BY <1>0
    <2> QED BY <1>0, <2>1
  <1>4. (a \div 32) % 32 = 8 * (r % 4) + (b \div 32)
    <2>1. a \div 32 = 128 * q + 8 * r + (b \div 32)
      BY <1>0
    <2> QED BY <1>0, <2>1
  <1>5. (a \div 64) % 32 = 4 * (r % 8) + (b \div 64)
    <2>1. a \div 64 = 64 * q + 4 * r + (b \div 64)
      BY <1>0
    <2> QED BY <1>0, <2>1
  <1>6. (a \div 128) % 32 = 2 * r + (b \div 128)
    <2>1. a \div 128 = 32 * q + 2 * r + (b \div 128)
      BY <1>0
    <2> QED BY <1>0, <2>1
  <1>7. a % 32 = b % 32
    BY <1>0
  <1>8. (a \div 2) % 32 = (b \div 2) % 32
    <2>1. a \div 2 = 2048 * q + 128 * r + (b \div 2)
      BY <1>0
    <2> QED BY <1>0, <2>1
  <1>9. (a \div 4) % 32 = (b \div 4) % 32
    <2>1. a \div 4 = 1024 * q + 64 * r + (b \div 4)
      BY <1>0
    <2> QED BY <1>0, <2>1
  <1>10. b \div 1 = b /\ p \div 1 = p
    OBVIOUS
  <1> USE DEF D, Sum5
  <1>11. b \div 8 = Sum5(D(b, 128), D(b, 64), D(b, 32), D(b, 16), D(b, 8))
    OBVIOUS
  <1>12. 16 * (p % 2) + (b \div 16) = Sum5(D(p, 1), D(b, 128), D(b, 64), D(b, 32), D(b, 16))
    BY <1>10
  <1>13. 8 * (p % 4) + (b \div 32) = Sum5(D(p, 2), D(p, 1), D(b, 128), D(b, 64), D(b, 32))
    BY <1>10
  <1>14. 4 * (p % 8) + (b \div 64) = Sum5(D(p, 4), D(p, 2), D(p, 1), D(b, 128), D(b, 64))
    BY <1>10
  <1>15. 2 * (p % 16) + (b \div 128) = Sum5(D(p, 8), D(p, 4), D(p, 2), D(p, 1), D(b, 128))
    BY <1>10
  <1>16. b % 32 = Sum5(D(b, 16), D(b, 8), D(b, 4), D(b, 2), D(b, 1))
    BY <1>10
  <1>17. (b \div 2) % 32 = Sum5(D(b, 32), D(b, 16), D(b, 8), D(b, 4), D(b, 2))
    OBVIOUS
  <1>18. (b \div 4) % 32 = Sum5(D(b, 64), D(b, 32), D(b, 16), D(b, 8), D(b, 4))
    OBVIOUS
  <1> HIDE DEF D, Sum5
  <1> QED
    BY <1>1, <1>2, <1>3, <1>4, <1>5, <1>6, <1>7, <1>8, <1>9, <1>11, <1>12, <1>13, <1>14,
       <1>15, <1>16, <1>17, <1>18
    DEF CharsOf, r

(* What it holds when character w follows characters u and v: the byte     *)
(* that ends 0 to 4 bits before the end of w.                              *)
Window5(a, u, v, w) == a % 4096 = 1024 * (u % 4) + 32 * v + w

OctetsOf(a, u, v, w) ==
    /\ a % 256 = Sum8(D(v, 4), D(v, 2), D(v, 1), D(w, 16), D(w, 8), D(w, 4), D(w, 2), D(w, 1))
    /\ (a \div 2) % 256
         = Sum8(D(v, 8), D(v, 4), D(v, 2), D(v, 1), D(w, 16), D(w, 8), D(w, 4), D(w, 2))
    /\ (a \div 4) % 256
         = Sum8(D(v, 16), D(v, 8), D(v, 4), D(v, 2), D(v, 1), D(w, 16), D(w, 8), D(w, 4))
    /\ (a \div 8) % 256
         = Sum8(D(u, 1), D(v, 16), D(v, 8), D(v, 4), D(v, 2), D(v, 1), D(w, 16), D(w, 8))
    /\ (a \div 16) % 256
         = Sum8(D(u, 2), D(u, 1), D(v, 16), D(v, 8), D(v, 4), D(v, 2), D(v, 1), D(w, 16))

LEMMA Octets ==
    ASSUME NEW a \in Nat, NEW u \in 0..31, NEW v \in 0..31, NEW w \in 0..31,
           Window5(a, u, v, w)
    PROVE  OctetsOf(a, u, v, w)
  <1> DEFINE q == a \div 4096
             r == u % 4
  <1>0. q \in Nat /\ r \in 0..3 /\ a = 4096 * q + 1024 * r + 32 * v + w
    BY DEF Window5
  <1>1. u % 2 = r % 2
    OBVIOUS
  <1> HIDE DEF q, r
  <1>2. a % 256 = 32 * (v % 8) + w
    BY <1>0
  <1>3. (a \div 2) % 256 = 16 * (v % 16) + (w \div 2)
    <2>1. a \div 2 = 2048 * q + 512 * r + 16 * v + (w \div 2)
      BY <1>0
    <2> QED BY <1>0, <2>1
  <1>4. (a \div 4) % 256 = 8 * v + (w \div 4)
    <2>1. a \div 4 = 1024 * q + 256 * r + 8 * v + (w \div 4)
      BY <1>0
    <2> QED BY <1>0, <2>1
  <1>5. (a \div 8) % 256 = 128 * (r % 2) + 4 * v + (w \div 8)
    <2>1. a \div 8 = 512 * q + 128 * r + 4 * v + (w \div 8)
      BY <1>0
    <2> QED BY <1>0, <2>1
  <1>6. (a \div 16) % 256 = 64 * r + 2 * v + (w \div 16)
    <2>1. a \div 16 = 256 * q + 64 * r + 2 * v + (w \div 16)
      BY <1>0
    <2> QED BY <1>0, <2>1
  <1>7. u \div 1 = u /\ v \div 1 = v /\ w \div 1 = w
    OBVIOUS
  <1> USE DEF D, Sum8
  <1>8. 32 * (v % 8) + w
          = Sum8(D(v, 4), D(v, 2), D(v, 1), D(w, 16), D(w, 8), D(w, 4), D(w, 2), D(w, 1))
    BY <1>7, SMTT(30)
  <1>9. 16 * (v % 16) + (w \div 2)
          = Sum8(D(v, 8), D(v, 4), D(v, 2), D(v, 1), D(w, 16), D(w, 8), D(w, 4), D(w, 2))
    BY <1>7, SMTT(30)
  <1>10. 8 * v + (w \div 4)
          = Sum8(D(v, 16), D(v, 8), D(v, 4), D(v, 2), D(v, 1), D(w, 16), D(w, 8), D(w, 4))
    BY <1>7, SMTT(30)
  <1>11. 128 * (u % 2) + 4 * v + (w \div 8)
          = Sum8(D(u, 1), D(v, 16), D(v, 8), D(v, 4), D(v, 2), D(v, 1), D(w, 16), D(w, 8))
    BY <1>7, SMTT(30)
  <1>12. 64 * (u % 4) + 2 * v + (w \div 16)
          = Sum8(D(u, 2), D(u, 1), D(v, 16), D(v, 8), D(v, 4), D(v, 2), D(v, 1), D(w, 16))
    BY <1>7, SMTT(30)
  <1> HIDE DEF D, Sum8
  <1> QED
    BY <1>1, <1>2, <1>3, <1>4, <1>5, <1>6, <1>8, <1>9, <1>10, <1>11, <1>12
    DEF OctetsOf, r

-----------------------------------------------------------------------------
(* Bits of a sequence of bytes *)

IsBytes(bytes) == Len(bytes) \in Nat /\ bytes \in [1..Len(bytes) -> 0..255]

BitsOfByte(bytes, m) ==
    /\ bytes[m + 1] \in 0..255
    /\ Bit(bytes, 8 * m) = D(bytes[m + 1], 128)
    /\ Bit(bytes, 8 * m + 1) = D(bytes[m + 1], 64)
    /\ Bit(bytes, 8 * m + 2) = D(bytes[m + 1], 32)
    /\ Bit(bytes, 8 * m + 3) = D(bytes[m + 1], 16)
    /\ Bit(bytes, 8 * m + 4) = D(bytes[m + 1], 8)
    /\ Bit(bytes, 8 * m + 5) = D(bytes[m + 1], 4)
    /\ Bit(bytes, 8 * m + 6) = D(bytes[m + 1], 2)
    /\ Bit(bytes, 8 * m + 7) = D(bytes[m + 1], 1)

LEMMA Bits ==
    ASSUME NEW bytes, IsBytes(bytes), NEW m \in Nat, m < Len(bytes)
    PROVE  BitsOfByte(bytes, m)
  <1>1. bytes[m + 1] \in 0..255
    <2>1. m + 1 \in 1..Len(bytes)
      BY DEF IsBytes
    <2> QED BY <2>1 DEF IsBytes
  <1>2. ASSUME NEW q \in 0..7
        PROVE  Bit(bytes, 8 * m + q) = D(bytes[m + 1], 2^(7 - q))
    <2>1. (8 * m + q) \div 8 = m /\ (8 * m + q) % 8 = q /\ ~(8 * m + q >= 8 * Len(bytes))
      BY DEF IsBytes
    <2> QED BY <2>1 DEF Bit, D
  <1>3. 8 * m = 8 * m + 0
    OBVIOUS
  <1>4. /\ 2^(7 - 0) = 128 /\ 2^(7 - 1) = 64 /\ 2^(7 - 2) = 32 /\ 2^(7 - 3) = 16
        /\ 2^(7 - 4) = 8 /\ 2^(7 - 5) = 4 /\ 2^(7 - 6) = 2 /\ 2^(7 - 7) = 1
    BY Pow2
  <1> QED BY <1>1, <1>2, <1>3, <1>4 DEF BitsOfByte

LEMMA BitRange ==
    ASSUME NEW bytes, IsBytes(bytes), NEW t \in Nat
    PROVE  Bit(bytes, t) \in 0..1
  <1>1. CASE t >= 8 * Len(bytes)
    BY <1>1 DEF Bit
  <1>2. CASE t < 8 * Len(bytes)
    <2> DEFINE m == t \div 8
               q == t % 8
    <2>1. m \in Nat /\ m < Len(bytes) /\ q \in 0..7 /\ t = 8 * m + q
      BY <1>2 DEF IsBytes
    <2> HIDE DEF m, q
    <2>2. BitsOfByte(bytes, m)
      BY <2>1, Bits
    <2>3. \/ t = 8 * m \/ t = 8 * m + 1 \/ t = 8 * m + 2 \/ t = 8 * m + 3
          \/ t = 8 * m + 4 \/ t = 8 * m + 5 \/ t = 8 * m + 6 \/ t = 8 * m + 7
      BY <2>1
    <2>4. /\ Bit(bytes, 8 * m) \in 0..1 /\ Bit(bytes, 8 * m + 1) \in 0..1
          /\ Bit(bytes, 8 * m + 2) \in 0..1 /\ Bit(bytes, 8 * m + 3) \in 0..1
          /\ Bit(bytes, 8 * m + 4) \in 0..1 /\ Bit(bytes, 8 * m + 5) \in 0..1
          /\ Bit(bytes, 8 * m + 6) \in 0..1 /\ Bit(bytes, 8 * m + 7) \in 0..1
      BY <2>2, Digits, SMTT(30) DEF BitsOfByte
    <2> QED BY <2>3, <2>4
  <1> QED BY <1>1, <1>2 DEF IsBytes

BitsOfChar(bytes, j) ==
    /\ Quintet(bytes, j) \in 0..31
    /\ D(Quintet(bytes, j), 16) = Bit(bytes, 5 * j)
    /\ D(Quintet(bytes, j), 8) = Bit(bytes, 5 * j + 1)
    /\ D(Quintet(bytes, j), 4) = Bit(bytes, 5 * j + 2)
    /\ D(Quintet(bytes, j), 2) = Bit(bytes, 5 * j + 3)
    /\ D(Quintet(bytes, j), 1) = Bit(bytes, 5 * j + 4)

LEMMA QuintetBits ==
    ASSUME NEW bytes, IsBytes(bytes), NEW j \in Nat
    PROVE  BitsOfChar(bytes, j)
  <1>1. /\ Bit(bytes, 5 * j) \in 0..1 /\ Bit(bytes, 5 * j + 1) \in 0..1
        /\ Bit(bytes, 5 * j + 2) \in 0..1 /\ Bit(bytes, 5 * j + 3) \in 0..1
        /\ Bit(bytes, 5 * j + 4) \in 0..1
    BY BitRange
  <1>2. Quintet(bytes, j) = Sum5(Bit(bytes, 5 * j), Bit(bytes, 5 * j + 1),
          Bit(bytes, 5 * j + 2), Bit(bytes, 5 * j + 3), Bit(bytes, 5 * j + 4))
    BY DEF Quintet, Sum5
  <1> QED BY <1>1, <1>2, Make5 DEF BitsOfChar

-----------------------------------------------------------------------------
(* encode_base32 *)

(* L characters are out and r bits left over after m bytes. *)
Aligned(L, r, m) == 5 * L + r = 8 * m

(* byte m, counted from 0, is b, and the one before it p *)
Follows(bytes, m, p, b) ==
    /\ p \in 0..255 /\ b \in 0..255
    /\ b = bytes[m + 1]
    /\ m > 0 => p = bytes[m]

(* what the loop reads off at bit e *)
Taken(a, e) == (a \div 2^e) % 32

(* With r bits left over from byte p, the first character that the next    *)
(* byte b completes, by its digits.                                        *)
LEMMA FirstChar ==
    ASSUME NEW bytes, IsBytes(bytes), NEW m \in Nat, m < Len(bytes),
           NEW L \in Nat, NEW r \in 0..4, Aligned(L, r, m),
           NEW p, NEW b, Follows(bytes, m, p, b), NEW a \in Nat, Window(a, p, b)
    PROVE  Taken(a, r + 3) = Quintet(bytes, L)
  <1>0. /\ 5 * L + r = 8 * m /\ p \in 0..255 /\ b \in 0..255
        /\ b = bytes[m + 1] /\ (m > 0 => p = bytes[m])
    BY DEF Aligned, Follows
  <1>1. BitsOfByte(bytes, m)
    BY Bits
  <1>2. r > 0 => BitsOfByte(bytes, m - 1) /\ p = bytes[(m - 1) + 1]
    <2> SUFFICES ASSUME r > 0 PROVE BitsOfByte(bytes, m - 1) /\ p = bytes[(m - 1) + 1]
      OBVIOUS
    <2>1. m > 0 /\ m - 1 \in Nat /\ m - 1 < Len(bytes) /\ (m - 1) + 1 = m
      BY <1>0 DEF IsBytes
    <2> QED BY <1>0, <2>1, Bits
  <1>3. CharsOf(a, p, b)
    BY <1>0, Characters
  <1>4. Quintet(bytes, L) = Sum5(Bit(bytes, 5 * L), Bit(bytes, 5 * L + 1),
          Bit(bytes, 5 * L + 2), Bit(bytes, 5 * L + 3), Bit(bytes, 5 * L + 4))
    BY DEF Quintet, Sum5
  <1>5. CASE r = 0
    <2>1. /\ 5 * L = 8 * m
          /\ 5 * L + 1 = 8 * m + 1
          /\ 5 * L + 2 = 8 * m + 2
          /\ 5 * L + 3 = 8 * m + 3
          /\ 5 * L + 4 = 8 * m + 4
      BY <1>0, <1>5
    <2>3. Quintet(bytes, L) = Sum5(D(b, 128), D(b, 64), D(b, 32), D(b, 16), D(b, 8))
      BY <1>0, <1>1, <1>4, <2>1, ZenonT(30) DEF BitsOfByte
    <2>4. r + 3 = 3
      BY <1>0, <1>5
    <2>5. 2^(r + 3) = 8
      BY <2>4, Pow2, ZenonT(30)
    <2>6. (a \div 8) % 32 = Sum5(D(b, 128), D(b, 64), D(b, 32), D(b, 16), D(b, 8))
      BY <1>3 DEF CharsOf
    <2> QED BY <2>3, <2>5, <2>6 DEF Taken
  <1>6. CASE r = 1
    <2>1. /\ 5 * L = 8 * (m - 1) + 7
          /\ 5 * L + 1 = 8 * m
          /\ 5 * L + 2 = 8 * m + 1
          /\ 5 * L + 3 = 8 * m + 2
          /\ 5 * L + 4 = 8 * m + 3
      BY <1>0, <1>6
    <2>2. BitsOfByte(bytes, m - 1) /\ p = bytes[(m - 1) + 1]
      BY <1>2, <1>6
    <2>3. Quintet(bytes, L) = Sum5(D(p, 1), D(b, 128), D(b, 64), D(b, 32), D(b, 16))
      BY <1>0, <1>1, <1>4, <2>1, <2>2, ZenonT(30) DEF BitsOfByte
    <2>4. r + 3 = 4
      BY <1>0, <1>6
    <2>5. 2^(r + 3) = 16
      BY <2>4, Pow2, ZenonT(30)
    <2>6. (a \div 16) % 32 = Sum5(D(p, 1), D(b, 128), D(b, 64), D(b, 32), D(b, 16))
      BY <1>3 DEF CharsOf
    <2> QED BY <2>3, <2>5, <2>6 DEF Taken
  <1>7. CASE r = 2
    <2>1. /\ 5 * L = 8 * (m - 1) + 6
          /\ 5 * L + 1 = 8 * (m - 1) + 7
          /\ 5 * L + 2 = 8 * m
          /\ 5 * L + 3 = 8 * m + 1
          /\ 5 * L + 4 = 8 * m + 2
      BY <1>0, <1>7
    <2>2. BitsOfByte(bytes, m - 1) /\ p = bytes[(m - 1) + 1]
      BY <1>2, <1>7
    <2>3. Quintet(bytes, L) = Sum5(D(p, 2), D(p, 1), D(b, 128), D(b, 64), D(b, 32))
      BY <1>0, <1>1, <1>4, <2>1, <2>2, ZenonT(30) DEF BitsOfByte
    <2>4. r + 3 = 5
      BY <1>0, <1>7
    <2>5. 2^(r + 3) = 32
      BY <2>4, Pow2, ZenonT(30)
    <2>6. (a \div 32) % 32 = Sum5(D(p, 2), D(p, 1), D(b, 128), D(b, 64), D(b, 32))
      BY <1>3 DEF CharsOf
    <2> QED BY <2>3, <2>5, <2>6 DEF Taken
  <1>8. CASE r = 3
    <2>1. /\ 5 * L = 8 * (m - 1) + 5
          /\ 5 * L + 1 = 8 * (m - 1) + 6
          /\ 5 * L + 2 = 8 * (m - 1) + 7
          /\ 5 * L + 3 = 8 * m
          /\ 5 * L + 4 = 8 * m + 1
      BY <1>0, <1>8
    <2>2. BitsOfByte(bytes, m - 1) /\ p = bytes[(m - 1) + 1]
      BY <1>2, <1>8
    <2>3. Quintet(bytes, L) = Sum5(D(p, 4), D(p, 2), D(p, 1), D(b, 128), D(b, 64))
      BY <1>0, <1>1, <1>4, <2>1, <2>2, ZenonT(30) DEF BitsOfByte
    <2>4. r + 3 = 6
      BY <1>0, <1>8
    <2>5. 2^(r + 3) = 64
      BY <2>4, Pow2, ZenonT(30)
    <2>6. (a \div 64) % 32 = Sum5(D(p, 4), D(p, 2), D(p, 1), D(b, 128), D(b, 64))
      BY <1>3 DEF CharsOf
    <2> QED BY <2>3, <2>5, <2>6 DEF Taken
  <1>9. CASE r = 4
    <2>1. /\ 5 * L = 8 * (m - 1) + 4
          /\ 5 * L + 1 = 8 * (m - 1) + 5
          /\ 5 * L + 2 = 8 * (m - 1) + 6
          /\ 5 * L + 3 = 8 * (m - 1) + 7
          /\ 5 * L + 4 = 8 * m
      BY <1>0, <1>9
    <2>2. BitsOfByte(bytes, m - 1) /\ p = bytes[(m - 1) + 1]
      BY <1>2, <1>9
    <2>3. Quintet(bytes, L) = Sum5(D(p, 8), D(p, 4), D(p, 2), D(p, 1), D(b, 128))
      BY <1>0, <1>1, <1>4, <2>1, <2>2, ZenonT(30) DEF BitsOfByte
    <2>4. r + 3 = 7
      BY <1>0, <1>9
    <2>5. 2^(r + 3) = 128
      BY <2>4, Pow2, ZenonT(30)
    <2>6. (a \div 128) % 32 = Sum5(D(p, 8), D(p, 4), D(p, 2), D(p, 1), D(b, 128))
      BY <1>3 DEF CharsOf
    <2> QED BY <2>3, <2>5, <2>6 DEF Taken
  <1> QED BY <1>5, <1>6, <1>7, <1>8, <1>9

LEMMA SecondChar ==
    ASSUME NEW bytes, IsBytes(bytes), NEW m \in Nat, m < Len(bytes),
           NEW L \in Nat, NEW r \in 2..4, Aligned(L, r, m),
           NEW p, NEW b, Follows(bytes, m, p, b), NEW a \in Nat, Window(a, p, b)
    PROVE  Taken(a, r - 2) = Quintet(bytes, L + 1)
  <1>0. /\ 5 * L + r = 8 * m /\ p \in 0..255 /\ b \in 0..255
        /\ b = bytes[m + 1] /\ (m > 0 => p = bytes[m])
    BY DEF Aligned, Follows
  <1>1. BitsOfByte(bytes, m)
    BY Bits
  <1>2. CharsOf(a, p, b)
    BY <1>0, Characters
  <1>3. a \div 1 = a
    OBVIOUS
  <1>4. Quintet(bytes, L + 1) = Sum5(Bit(bytes, 5 * (L + 1)), Bit(bytes, 5 * (L + 1) + 1),
          Bit(bytes, 5 * (L + 1) + 2), Bit(bytes, 5 * (L + 1) + 3), Bit(bytes, 5 * (L + 1) + 4))
    BY DEF Quintet, Sum5
  <1>5. CASE r = 2
    <2>1. /\ 5 * (L + 1) = 8 * m + 3
          /\ 5 * (L + 1) + 1 = 8 * m + 4
          /\ 5 * (L + 1) + 2 = 8 * m + 5
          /\ 5 * (L + 1) + 3 = 8 * m + 6
          /\ 5 * (L + 1) + 4 = 8 * m + 7
      BY <1>0, <1>5
    <2>2. Quintet(bytes, L + 1) = Sum5(D(b, 16), D(b, 8), D(b, 4), D(b, 2), D(b, 1))
      BY <1>0, <1>1, <1>4, <2>1, ZenonT(30) DEF BitsOfByte
    <2>3. r - 2 = 0
      BY <1>0, <1>5
    <2>4. 2^(r - 2) = 1
      BY <2>3, Pow2, SMTT(30)
    <2>5. a % 32 = Sum5(D(b, 16), D(b, 8), D(b, 4), D(b, 2), D(b, 1))
      BY <1>2 DEF CharsOf
    <2> QED BY <1>3, <2>2, <2>4, <2>5 DEF Taken
  <1>6. CASE r = 3
    <2>1. /\ 5 * (L + 1) = 8 * m + 2
          /\ 5 * (L + 1) + 1 = 8 * m + 3
          /\ 5 * (L + 1) + 2 = 8 * m + 4
          /\ 5 * (L + 1) + 3 = 8 * m + 5
          /\ 5 * (L + 1) + 4 = 8 * m + 6
      BY <1>0, <1>6
    <2>2. Quintet(bytes, L + 1) = Sum5(D(b, 32), D(b, 16), D(b, 8), D(b, 4), D(b, 2))
      BY <1>0, <1>1, <1>4, <2>1, ZenonT(30) DEF BitsOfByte
    <2>3. r - 2 = 1
      BY <1>0, <1>6
    <2>4. 2^(r - 2) = 2
      BY <2>3, Pow2, SMTT(30)
    <2>5. (a \div 2) % 32 = Sum5(D(b, 32), D(b, 16), D(b, 8), D(b, 4), D(b, 2))
      BY <1>2 DEF CharsOf
    <2> QED BY <2>2, <2>4, <2>5 DEF Taken
  <1>7. CASE r = 4
    <2>1. /\ 5 * (L + 1) = 8 * m + 1
          /\ 5 * (L + 1) + 1 = 8 * m + 2
          /\ 5 * (L + 1) + 2 = 8 * m + 3
          /\ 5 * (L + 1) + 3 = 8 * m + 4
          /\ 5 * (L + 1) + 4 = 8 * m + 5
      BY <1>0, <1>7
    <2>2. Quintet(bytes, L + 1) = Sum5(D(b, 64), D(b, 32), D(b, 16), D(b, 8), D(b, 4))
      BY <1>0, <1>1, <1>4, <2>1, ZenonT(30) DEF BitsOfByte
    <2>3. r - 2 = 2
      BY <1>0, <1>7
    <2>4. 2^(r - 2) = 4
      BY <2>3, Pow2, SMTT(30)
    <2>5. (a \div 4) % 32 = Sum5(D(b, 64), D(b, 32), D(b, 16), D(b, 8), D(b, 4))
      BY <1>2 DEF CharsOf
    <2> QED BY <2>2, <2>4, <2>5 DEF Taken
  <1> QED BY <1>5, <1>6, <1>7

(* The alphabet *)
LEMMA Alphabet ==
    /\ \A v \in 0..31 : Char(v) \in 48..90 /\ Char(v) \in Nat
    /\ \A u, v \in 0..31 : Char(u) = Char(v) => u = v
  <1>1. \A i \in 1..32 : CROCKFORD[i] \in 48..90
    BY DEF CROCKFORD
  <1>2. \A i, j \in 1..32 : CROCKFORD[i] = CROCKFORD[j] => i = j
    BY SMTT(60) DEF CROCKFORD
  <1>3. ASSUME NEW v \in 0..31 PROVE v + 1 \in 1..32
    OBVIOUS
  <1>4. ASSUME NEW u \in 0..31, NEW v \in 0..31, Char(u) = Char(v) PROVE u = v
    <2>1. u + 1 = v + 1
      BY <1>2, <1>3, <1>4 DEF Char
    <2> QED BY <2>1
  <1>5. ASSUME NEW v \in 0..31 PROVE Char(v) \in 48..90 /\ Char(v) \in Nat
    BY <1>1, <1>3 DEF Char
  <1> QED BY <1>4, <1>5

(* The state of encode_base32's loop after i bytes: the characters so far  *)
(* are the bits so far, and the last byte is still in the accumulator.     *)
EncState(s, bytes, i, n) ==
    /\ s.acc \in Nat /\ s.bits \in Nat /\ s.out \in Seq(Nat)
    /\ i > 0 => s.acc % 256 = bytes[i]
    /\ Len(s.out) <= n
    /\ s.bits + 5 * Len(s.out) = 8 * i
    /\ Len(s.out) < n => s.bits <= 4
    /\ \A j \in 1..Len(s.out) : s.out[j] = Char(Quintet(bytes, j - 1))

ShiftedIn(acc, b) ==
    /\ Acc(acc * 256 + b) \in Nat
    /\ Acc(acc * 256 + b) % 256 = b
    /\ Window(Acc(acc * 256 + b), acc % 256, b)

LEMMA ShiftIn ==
    ASSUME NEW acc \in Nat, NEW b \in 0..255
    PROVE  ShiftedIn(acc, b)
  <1> DEFINE n == acc * 256 + b
             a == Acc(n)
  <1>1. n \in Nat /\ n % 4096 = 256 * (acc % 16) + b /\ (acc % 256) % 16 = acc % 16
    OBVIOUS
  <1> HIDE DEF n
  <1>2. a \in Nat /\ a % 4096 = n % 4096
    BY <1>1, AccLow
  <1> HIDE DEF a
  <1>3. a % 4096 = 256 * ((acc % 256) % 16) + b
    BY <1>1, <1>2
  <1>4. acc % 16 \in 0..15
    OBVIOUS
  <1>5. a % 256 = b
    <2>1. a % 256 = (a % 4096) % 256
      BY <1>2
    <2>2. (256 * (acc % 16) + b) % 256 = b
      BY <1>4
    <2> QED BY <1>1, <1>2, <2>1, <2>2
  <1> QED BY <1>2, <1>3, <1>5 DEF ShiftedIn, Window, a, n

LEMMA HowMany ==
    ASSUME NEW r \in Nat, NEW L \in Nat, NEW n \in Nat, L <= n, L < n => r <= 4,
           NEW k, k = Min2((r + 8) \div 5, n - L)
    PROVE  /\ k \in 0..2 /\ L + k <= n
           /\ k > 0 => r \in 0..4
           /\ k = 2 => r \in 2..4
           /\ r + 8 - 5 * k \in Nat
           /\ L + k < n => r + 8 - 5 * k <= 4
  <1>1. CASE L = n
    <2>1. (r + 8) \div 5 > 0 /\ n - L = 0
      BY <1>1
    <2>2. k = 0
      BY <2>1 DEF Min2
    <2> QED BY <2>2, <1>1
  <1>2. CASE L < n
    <2>1. r \in 0..4
      BY <1>2
    <2>2. (r + 8) \div 5 = IF r >= 2 THEN 2 ELSE 1
      BY <2>1
    <2>3. CASE r >= 2
      <3>1. k = IF 2 < n - L THEN 2 ELSE n - L
        BY <2>2, <2>3 DEF Min2
      <3> QED BY <2>1, <2>3, <3>1, <1>2
    <2>4. CASE r < 2
      <3>1. k = 1
        BY <2>2, <2>4, <1>2 DEF Min2
      <3> QED BY <2>1, <2>4, <3>1, <1>2
    <2> QED BY <2>1, <2>3, <2>4
  <1> QED BY <1>1, <1>2

LEMMA EncodeStep ==
    ASSUME NEW bytes, IsBytes(bytes), NEW n \in Nat, NEW i \in Nat, i < Len(bytes),
           NEW s, EncState(s, bytes, i, n)
    PROVE  EncState(EncodeByte(s, bytes[i + 1], n), bytes, i + 1, n)
  <1> DEFINE b == bytes[i + 1]
             acc == s.acc
             r == s.bits
             out == s.out
             a == Acc(acc * 256 + b)
             p == acc % 256
             L == Len(out)
             bits == r + 8
             k == Min2(bits \div 5, n - L)
             new == [j \in 1..k |-> Char((a \div 2^(bits - 5 * j)) % 32)]
             t == EncodeByte(s, b, n)
  <1>1. /\ acc \in Nat /\ r \in Nat /\ out \in Seq(Nat) /\ L \in Nat /\ L <= n
        /\ r + 5 * L = 8 * i /\ (L < n => r <= 4)
        /\ \A j \in 1..L : out[j] = Char(Quintet(bytes, j - 1))
    BY LenProperties DEF EncState
  <1>2. b \in 0..255
    <2>1. BitsOfByte(bytes, i)
      BY Bits
    <2> QED BY <2>1 DEF BitsOfByte
  <1>4. i > 0 => p = bytes[i]
    BY DEF EncState
  <1>5. t.acc = a /\ t.bits = bits - 5 * k /\ t.out = out \o new
    BY DEF EncodeByte
  <1> HIDE DEF t, b, acc, r, out
  <1>3. a \in Nat /\ a % 256 = b /\ Window(a, p, b) /\ p \in 0..255
    <2>1. p \in 0..255
      BY <1>1
    <2>2. ShiftedIn(acc, b)
      BY <1>1, <1>2, ShiftIn
    <2> QED BY <2>1, <2>2 DEF ShiftedIn
  <1> HIDE DEF a, p, L
  <1>6. /\ k \in 0..2 /\ L + k <= n
        /\ k > 0 => r \in 0..4
        /\ k = 2 => r \in 2..4
        /\ r + 8 - 5 * k \in Nat
        /\ L + k < n => r + 8 - 5 * k <= 4
    <2>1. k = Min2((r + 8) \div 5, n - L)
      OBVIOUS
    <2> HIDE DEF k
    <2> QED BY <1>1, <2>1, HowMany
  <1> HIDE DEF k
  <1>7. ASSUME NEW j \in 1..k
        PROVE  Taken(a, bits - 5 * j) = Quintet(bytes, L + j - 1)
    <2>0. Aligned(L, r, i) /\ Follows(bytes, i, p, b)
      BY <1>1, <1>2, <1>3, <1>4 DEF Aligned, Follows, b
    <2>1. CASE j = 1
      <3>1. bits - 5 * j = r + 3 /\ L + j - 1 = L
        BY <1>1, <2>1
      <3>2. r \in 0..4
        BY <1>6
      <3>3. Taken(a, r + 3) = Quintet(bytes, L)
        BY <1>1, <1>3, <2>0, <3>2, FirstChar, SMTT(30)
      <3> QED BY <3>1, <3>3
    <2>2. CASE j = 2
      <3>1. bits - 5 * j = r - 2 /\ L + j - 1 = L + 1
        BY <1>1, <2>2
      <3>2. r \in 2..4
        BY <1>6, <2>2
      <3>3. Taken(a, r - 2) = Quintet(bytes, L + 1)
        BY <1>1, <1>3, <2>0, <3>2, SecondChar, SMTT(30)
      <3> QED BY <3>1, <3>3
    <2> QED BY <1>6, <2>1, <2>2
  <1>8. \A j \in 1..k : new[j] = Char(Quintet(bytes, L + j - 1))
    BY <1>7 DEF Taken
  <1>9. new \in Seq(Nat) /\ Len(new) = k
    <2>1. ASSUME NEW j \in 1..k PROVE new[j] \in Nat
      <3>1. L + j - 1 \in Nat
        BY <1>1, <1>6
      <3>2. Quintet(bytes, L + j - 1) \in 0..31
        BY <3>1, QuintetBits DEF BitsOfChar
      <3>4. Char(Quintet(bytes, L + j - 1)) \in Nat
        BY <3>2, Alphabet
      <3> QED BY <1>8, <3>4, Zenon
    <2>2. k \in Nat
      BY <1>6
    <2>3. new \in [1..k -> Nat]
      BY <2>1
    <2> QED BY <2>2, <2>3, LenProperties
  <1> HIDE DEF new, bits
  <1>10. /\ out \o new \in Seq(Nat) /\ Len(out \o new) = L + k
         /\ \A j \in 1..(L + k) : (out \o new)[j] = IF j <= L THEN out[j] ELSE new[j - L]
    BY <1>1, <1>9, ConcatProperties DEF L
  <1>11. \A j \in 1..(L + k) : t.out[j] = Char(Quintet(bytes, j - 1))
    <2> SUFFICES ASSUME NEW j \in 1..(L + k) PROVE t.out[j] = Char(Quintet(bytes, j - 1))
      OBVIOUS
    <2>1. CASE j <= L
      <3>1. j \in 1..L
        BY <2>1, <1>1, <1>6
      <3> QED BY <3>1, <2>1, <1>1, <1>5, <1>10
    <2>2. CASE j > L
      <3>1. j - L \in 1..k /\ L + (j - L) - 1 = j - 1 /\ ~(j <= L)
        BY <2>2, <1>1, <1>6
      <3>2. new[j - L] = Char(Quintet(bytes, L + (j - L) - 1))
        BY <3>1, <1>8
      <3>3. t.out[j] = new[j - L]
        BY <3>1, <1>5, <1>10
      <3> QED BY <3>1, <3>2, <3>3
    <2> QED BY <2>1, <2>2, <1>1, <1>6
  <1>12. t.bits + 5 * (L + k) = 8 * (i + 1)
    BY <1>1, <1>5, <1>6 DEF bits
  <1>13. t.acc \in Nat /\ t.acc % 256 = bytes[i + 1]
    BY <1>3, <1>5 DEF b
  <1>14. Len(t.out) = L + k /\ t.out \in Seq(Nat)
    BY <1>5, <1>10
  <1>15. t.bits \in Nat /\ L + k <= n /\ (L + k < n => t.bits <= 4)
    BY <1>5, <1>6 DEF bits
  <1>16. EncState(t, bytes, i + 1, n)
    BY <1>11, <1>12, <1>13, <1>14, <1>15 DEF EncState
  <1> QED BY <1>16 DEF t, b

(* what Flush makes of the r bits left *)
Padded(acc, r) == Acc(acc * 2^(5 - r)) % 32

LEMMA Acc32 ==
    ASSUME NEW x \in Nat PROVE Acc(x) % 32 = x % 32
  <1> DEFINE y == Acc(x)
  <1>1. y \in Nat /\ y % 4096 = x % 4096
    BY AccLow
  <1> HIDE DEF y
  <1>2. y % 32 = x % 32
    BY <1>1
  <1> QED BY <1>2 DEF y

LowDigits(acc, p) ==
    /\ (acc * 16) % 32 = Sum5(D(p, 1), 0, 0, 0, 0)
    /\ (acc * 8) % 32 = Sum5(D(p, 2), D(p, 1), 0, 0, 0)
    /\ (acc * 4) % 32 = Sum5(D(p, 4), D(p, 2), D(p, 1), 0, 0)
    /\ (acc * 2) % 32 = Sum5(D(p, 8), D(p, 4), D(p, 2), D(p, 1), 0)

LEMMA Low ==
    ASSUME NEW p \in 0..255, NEW acc \in Nat, acc % 256 = p
    PROVE  LowDigits(acc, p)
  <1> DEFINE q == acc \div 256
  <1>1. acc = 256 * q + p /\ q \in Nat
    OBVIOUS
  <1> HIDE DEF q
  <1>2. (acc * 16) % 32 = 16 * (p % 2)
    BY <1>1
  <1>3. (acc * 8) % 32 = 8 * (p % 4)
    BY <1>1
  <1>4. (acc * 4) % 32 = 4 * (p % 8)
    BY <1>1
  <1>5. (acc * 2) % 32 = 2 * (p % 16)
    BY <1>1
  <1>6. p \div 1 = p
    OBVIOUS
  <1>7. 16 * (p % 2) = Sum5(D(p, 1), 0, 0, 0, 0)
    BY <1>6 DEF D, Sum5
  <1>8. 8 * (p % 4) = Sum5(D(p, 2), D(p, 1), 0, 0, 0)
    BY <1>6 DEF D, Sum5
  <1>9. 4 * (p % 8) = Sum5(D(p, 4), D(p, 2), D(p, 1), 0, 0)
    BY <1>6 DEF D, Sum5
  <1>10. 2 * (p % 16) = Sum5(D(p, 8), D(p, 4), D(p, 2), D(p, 1), 0)
    BY <1>6 DEF D, Sum5
  <1> QED BY <1>2, <1>3, <1>4, <1>5, <1>7, <1>8, <1>9, <1>10 DEF LowDigits

(* The last character: the bits left over, then zeros. *)
LEMMA LastChar ==
    ASSUME NEW bytes, IsBytes(bytes), NEW L \in Nat, NEW r \in 1..4,
           Aligned(L, r, Len(bytes)), NEW acc \in Nat, acc % 256 = bytes[Len(bytes)]
    PROVE  Padded(acc, r) = Quintet(bytes, L)
  <1> DEFINE N == Len(bytes)
             m == N - 1
             p == acc % 256
  <1>0. 5 * L + r = 8 * N /\ N \in Nat /\ N > 0 /\ m \in Nat /\ m < N /\ m + 1 = N /\ 8 * N = 8 * m + 8
    BY DEF Aligned, IsBytes
  <1>1. BitsOfByte(bytes, m)
    BY <1>0, Bits
  <1>2. p = bytes[m + 1] /\ p \in 0..255
    BY <1>0
  <1>3. Bit(bytes, 8 * N) = 0 /\ Bit(bytes, 8 * N + 1) = 0
        /\ Bit(bytes, 8 * N + 2) = 0 /\ Bit(bytes, 8 * N + 3) = 0
    BY <1>0 DEF Bit
  <1>4. Quintet(bytes, L) = Sum5(Bit(bytes, 5 * L), Bit(bytes, 5 * L + 1),
          Bit(bytes, 5 * L + 2), Bit(bytes, 5 * L + 3), Bit(bytes, 5 * L + 4))
    BY DEF Quintet, Sum5
  <1> HIDE DEF p, m, N
  <1>5. LowDigits(acc, p)
    BY <1>2, Low DEF p
  <1>6. CASE r = 1
    <2>1. /\ 5 * L = 8 * m + 7
          /\ 5 * L + 1 = 8 * N
          /\ 5 * L + 2 = 8 * N + 1
          /\ 5 * L + 3 = 8 * N + 2
          /\ 5 * L + 4 = 8 * N + 3
      BY <1>0, <1>6
    <2>2. Quintet(bytes, L) = Sum5(D(p, 1), 0, 0, 0, 0)
      BY <1>1, <1>2, <1>3, <1>4, <2>1, SMTT(30) DEF BitsOfByte
    <2>3. 5 - r = 4
      BY <1>6
    <2>4. 2^(5 - r) = 16
      BY <2>3, Pow2, ZenonT(30)
    <2>5. (acc * 16) % 32 = Sum5(D(p, 1), 0, 0, 0, 0)
      BY <1>5 DEF LowDigits
    <2>6. Acc(acc * 16) % 32 = (acc * 16) % 32
      <3>1. acc * 16 \in Nat
        OBVIOUS
      <3> QED BY <3>1, Acc32
    <2> QED BY <2>2, <2>4, <2>5, <2>6 DEF Padded
  <1>7. CASE r = 2
    <2>1. /\ 5 * L = 8 * m + 6
          /\ 5 * L + 1 = 8 * m + 7
          /\ 5 * L + 2 = 8 * N
          /\ 5 * L + 3 = 8 * N + 1
          /\ 5 * L + 4 = 8 * N + 2
      BY <1>0, <1>7
    <2>2. Quintet(bytes, L) = Sum5(D(p, 2), D(p, 1), 0, 0, 0)
      BY <1>1, <1>2, <1>3, <1>4, <2>1, SMTT(30) DEF BitsOfByte
    <2>3. 5 - r = 3
      BY <1>7
    <2>4. 2^(5 - r) = 8
      BY <2>3, Pow2, ZenonT(30)
    <2>5. (acc * 8) % 32 = Sum5(D(p, 2), D(p, 1), 0, 0, 0)
      BY <1>5 DEF LowDigits
    <2>6. Acc(acc * 8) % 32 = (acc * 8) % 32
      <3>1. acc * 8 \in Nat
        OBVIOUS
      <3> QED BY <3>1, Acc32
    <2> QED BY <2>2, <2>4, <2>5, <2>6 DEF Padded
  <1>8. CASE r = 3
    <2>1. /\ 5 * L = 8 * m + 5
          /\ 5 * L + 1 = 8 * m + 6
          /\ 5 * L + 2 = 8 * m + 7
          /\ 5 * L + 3 = 8 * N
          /\ 5 * L + 4 = 8 * N + 1
      BY <1>0, <1>8
    <2>2. Quintet(bytes, L) = Sum5(D(p, 4), D(p, 2), D(p, 1), 0, 0)
      BY <1>1, <1>2, <1>3, <1>4, <2>1, SMTT(30) DEF BitsOfByte
    <2>3. 5 - r = 2
      BY <1>8
    <2>4. 2^(5 - r) = 4
      BY <2>3, Pow2, ZenonT(30)
    <2>5. (acc * 4) % 32 = Sum5(D(p, 4), D(p, 2), D(p, 1), 0, 0)
      BY <1>5 DEF LowDigits
    <2>6. Acc(acc * 4) % 32 = (acc * 4) % 32
      <3>1. acc * 4 \in Nat
        OBVIOUS
      <3> QED BY <3>1, Acc32
    <2> QED BY <2>2, <2>4, <2>5, <2>6 DEF Padded
  <1>9. CASE r = 4
    <2>1. /\ 5 * L = 8 * m + 4
          /\ 5 * L + 1 = 8 * m + 5
          /\ 5 * L + 2 = 8 * m + 6
          /\ 5 * L + 3 = 8 * m + 7
          /\ 5 * L + 4 = 8 * N
      BY <1>0, <1>9
    <2>2. Quintet(bytes, L) = Sum5(D(p, 8), D(p, 4), D(p, 2), D(p, 1), 0)
      BY <1>1, <1>2, <1>3, <1>4, <2>1, SMTT(30) DEF BitsOfByte
    <2>3. 5 - r = 1
      BY <1>9
    <2>4. 2^(5 - r) = 2
      BY <2>3, Pow2, ZenonT(30)
    <2>5. (acc * 2) % 32 = Sum5(D(p, 8), D(p, 4), D(p, 2), D(p, 1), 0)
      BY <1>5 DEF LowDigits
    <2>6. Acc(acc * 2) % 32 = (acc * 2) % 32
      <3>1. acc * 2 \in Nat
        OBVIOUS
      <3> QED BY <3>1, Acc32
    <2> QED BY <2>2, <2>4, <2>5, <2>6 DEF Padded
  <1> QED BY <1>6, <1>7, <1>8, <1>9

(* What encode_base32 gives: n characters, character j the bits 5(j - 1)   *)
(* to 5(j - 1) + 4.                                                        *)
IsCode(chars, bytes, n) ==
    /\ chars \in Seq(Nat) /\ Len(chars) = n
    /\ \A j \in 1..n : chars[j] = Char(Quintet(bytes, j - 1))

LEMMA FlushStep ==
    ASSUME NEW bytes, IsBytes(bytes), NEW n \in Nat, 5 * (n - 1) < 8 * Len(bytes),
           NEW s, EncState(s, bytes, Len(bytes), n)
    PROVE  IsCode(Flush(s, n), bytes, n)
  <1> DEFINE N == Len(bytes)
             acc == s.acc
             r == s.bits
             out == s.out
             L == Len(out)
  <1>1. /\ acc \in Nat /\ r \in Nat /\ out \in Seq(Nat) /\ L \in Nat /\ L <= n
        /\ r + 5 * L = 8 * N /\ (L < n => r <= 4) /\ N \in Nat
        /\ \A j \in 1..L : out[j] = Char(Quintet(bytes, j - 1))
    BY LenProperties DEF EncState, IsBytes
  <1>2. N > 0 => acc % 256 = bytes[N]
    BY DEF EncState
  <1>3. Flush(s, n) = IF L < n THEN Append(out, Char(Padded(acc, r))) ELSE out
    BY DEF Flush, Padded
  <1> HIDE DEF acc, r, out, L
  <1>4. CASE L = n
    <2>1. Flush(s, n) = out
      BY <1>1, <1>3, <1>4
    <2> QED BY <1>1, <1>4, <2>1 DEF IsCode, L
  <1>5. CASE L < n
    <2>1. r \in 1..4 /\ n = L + 1 /\ N > 0
      BY <1>1, <1>5
    <2>2. Aligned(L, r, N)
      BY <1>1 DEF Aligned
    <2>3. Padded(acc, r) = Quintet(bytes, L)
      BY <1>1, <1>2, <2>1, <2>2, LastChar
    <2> DEFINE c == Char(Quintet(bytes, L))
               chars == Append(out, c)
    <2>4. c \in Nat
      <3>1. Quintet(bytes, L) \in 0..31
        BY <1>1, QuintetBits DEF BitsOfChar
      <3> QED BY <3>1, Alphabet
    <2>5. Flush(s, n) = chars
      BY <1>3, <1>5, <2>3
    <2> HIDE DEF c
    <2>6. /\ chars \in Seq(Nat) /\ Len(chars) = L + 1
          /\ \A j \in 1..L : chars[j] = out[j]
          /\ chars[L + 1] = c
      BY <1>1, <2>4, AppendProperties DEF L
    <2> HIDE DEF chars
    <2>7. ASSUME NEW j \in 1..n PROVE chars[j] = Char(Quintet(bytes, j - 1))
      <3>1. CASE j \in 1..L
        BY <3>1, <1>1, <2>6
      <3>2. CASE j = L + 1
        <4>1. j - 1 = L
          BY <3>2, <1>1
        <4> QED BY <4>1, <3>2, <2>6 DEF c
      <3> QED BY <3>1, <3>2, <2>1, <1>1
    <2>8. IsCode(chars, bytes, n)
      BY <2>1, <2>6, <2>7 DEF IsCode
    <2> QED BY <2>5, <2>8
  <1> QED BY <1>1, <1>4, <1>5

LEMMA EncodeChars ==
    ASSUME NEW bytes, IsBytes(bytes), NEW n \in Nat, 5 * (n - 1) < 8 * Len(bytes)
    PROVE  IsCode(encode_base32(bytes, n), bytes, n)
  <1> DEFINE N == Len(bytes)
  <1>0. N \in Nat
    BY DEF IsBytes
  <1>1. PICK K : /\ K[0] = Start
                 /\ \A i \in 1..N : K[i] = EncodeByte(K[i - 1], bytes[i], n)
                 /\ encode_base32(bytes, n) = Flush(K[N], n)
    BY <1>0, EncodeRun
  <1> DEFINE T == {i \in Nat : i <= N => EncState(K[i], bytes, i, n)}
  <1>2. 0 \in T
    <2>1. Start.acc = 0 /\ Start.bits = 0 /\ Start.out = <<>>
      BY DEF Start
    <2>2. <<>> \in Seq(Nat) /\ Len(<<>>) = 0
      OBVIOUS
    <2>3. EncState(Start, bytes, 0, n)
      BY <2>1, <2>2 DEF EncState
    <2> QED BY <1>1, <2>3
  <1>3. ASSUME NEW i \in Nat, i \in T PROVE i + 1 \in T
    <2> SUFFICES ASSUME i + 1 <= N PROVE EncState(K[i + 1], bytes, i + 1, n)
      OBVIOUS
    <2>1. i < N /\ i <= N /\ i + 1 \in 1..N /\ (i + 1) - 1 = i
      BY <1>0
    <2>2. EncState(K[i], bytes, i, n)
      BY <1>3, <2>1
    <2>3. EncState(EncodeByte(K[i], bytes[i + 1], n), bytes, i + 1, n)
      BY <2>1, <2>2, EncodeStep
    <2> QED BY <1>1, <2>1, <2>3
  <1> HIDE DEF T
  <1>4. N \in T
    BY <1>0, <1>2, <1>3, SetInduction
  <1>5. EncState(K[N], bytes, N, n)
    BY <1>0, <1>4 DEF T
  <1> QED BY <1>1, <1>5, FlushStep

-----------------------------------------------------------------------------
(* Reading characters *)

(* Where a character stands in the alphabet. *)
LEMMA PositionIs ==
    ASSUME NEW c, NEW i \in 1..32, CROCKFORD[i] = Unambiguous(to_ascii_uppercase(c)) % 256
    PROVE  Position(c) = i
  <1> DEFINE u == Unambiguous(to_ascii_uppercase(c)) % 256
             I == {j \in 1..Len(CROCKFORD) : CROCKFORD[j] = u}
  <1>1. Len(CROCKFORD) = 32
    BY DEF CROCKFORD
  <1>2. \A j \in 1..32 : CROCKFORD[j] = CROCKFORD[i] => j = i
    BY SMTT(60) DEF CROCKFORD
  <1>3. I = {i}
    BY <1>1, <1>2
  <1>4. Position(c) = IF I # {} THEN Min(I) ELSE 0
    BY DEF Position, SelectInSeq
  <1> HIDE DEF I
  <1>5. Min({i}) = i
    BY DEF Min
  <1> QED BY <1>3, <1>4, <1>5

LEMMA PositionRange ==
    ASSUME NEW c PROVE Position(c) \in 0..32
  <1> DEFINE u == Unambiguous(to_ascii_uppercase(c)) % 256
             I == {j \in 1..Len(CROCKFORD) : CROCKFORD[j] = u}
  <1>1. Len(CROCKFORD) = 32
    BY DEF CROCKFORD
  <1>2. CASE \E i \in 1..32 : CROCKFORD[i] = u
    <2>1. PICK i \in 1..32 : CROCKFORD[i] = u
      BY <1>2
    <2>2. Position(c) = i
      BY <2>1, PositionIs
    <2> QED BY <2>2
  <1>3. CASE ~ \E i \in 1..32 : CROCKFORD[i] = u
    <2>1. I = {}
      BY <1>1, <1>3
    <2>2. Position(c) = IF I # {} THEN Min(I) ELSE 0
      BY DEF Position, SelectInSeq
    <2> QED BY <2>1, <2>2
  <1> QED BY <1>2, <1>3

LEMMA PositionOfChar ==
    ASSUME NEW v \in 0..31
    PROVE  Position(Char(v)) = v + 1 /\ Char(v) \notin {Dash, Space}
  <1> DEFINE c == Char(v)
  <1>1. v + 1 \in 1..32 /\ c = CROCKFORD[v + 1]
    BY DEF Char
  <1>2. \A i \in 1..32 : CROCKFORD[i] \in 48..90 \ {73, 76, 79}
    BY DEF CROCKFORD
  <1>3. c \in 48..90 \ {73, 76, 79}
    BY <1>1, <1>2
  <1> HIDE DEF c
  <1>4. to_ascii_uppercase(c) = c
    BY <1>3 DEF to_ascii_uppercase
  <1>5. Unambiguous(c) = c
    BY <1>3 DEF Unambiguous
  <1>6. c % 256 = c /\ c # Dash /\ c # Space
    BY <1>3 DEF Dash, Space
  <1>7. Position(c) = v + 1
    BY <1>1, <1>4, <1>5, <1>6, PositionIs
  <1> QED BY <1>6, <1>7 DEF c

(* s is what the first c characters read as *)
Reads(s, chars, c) ==
    /\ s \in Seq(Nat) /\ Len(s) = c
    /\ \A j \in 1..c : s[j] = Position(chars[j])

LEMMA ReadNext ==
    ASSUME NEW s, NEW chars, NEW c \in Nat, Reads(s, chars, c)
    PROVE  Reads(Append(s, Position(chars[c + 1])), chars, c + 1)
  <1> DEFINE x == Position(chars[c + 1])
  <1>1. x \in Nat
    <2>1. x \in 0..32
      BY PositionRange
    <2> HIDE DEF x
    <2> QED BY <2>1
  <1>2. s \in Seq(Nat) /\ Len(s) = c /\ \A j \in 1..c : s[j] = Position(chars[j])
    BY DEF Reads
  <1> DEFINE t == Append(s, x)
  <1> HIDE DEF x
  <1>3. t \in Seq(Nat) /\ Len(t) = c + 1 /\ t[c + 1] = x /\ \A j \in 1..c : t[j] = s[j]
    BY <1>1, <1>2, AppendProperties
  <1> HIDE DEF t
  <1>4. ASSUME NEW j \in 1..(c + 1) PROVE t[j] = Position(chars[j])
    <2>1. CASE j \in 1..c
      BY <2>1, <1>2, <1>3
    <2>2. CASE j = c + 1
      BY <2>2, <1>3 DEF x
    <2> QED BY <2>1, <2>2
  <1>5. Reads(t, chars, c + 1)
    BY <1>3, <1>4 DEF Reads
  <1> QED BY <1>5 DEF t, x

(* The dashes between the groups are skipped again. *)
LEMMA ReadGrouped ==
    ASSUME NEW chars, NEW N \in Nat \ {0}, Len(chars) = N,
           \A j \in 1..N : chars[j] \notin {Dash, Space}
    PROVE  Reads(Positions(Grouped(chars)), chars, N)
  <1> DEFINE M == N + (N - 1) \div 4
             code == Grouped(chars)
             Count(i) == i - i \div 5
  <1>1. M \in Nat /\ M >= N /\ Count(M) = N
    <2> DEFINE q == (N - 1) \div 4
               r == (N - 1) % 4
    <2>1. q \in Nat /\ r \in 0..3 /\ N = 4 * q + r + 1
      OBVIOUS
    <2> HIDE DEF q, r
    <2>2. N + q = 5 * q + (r + 1)
      BY <2>1
    <2>3. (5 * q + (r + 1)) \div 5 = q
      BY <2>1
    <2>4. (N + q) \div 5 = q
      BY <2>2, <2>3
    <2> QED BY <2>1, <2>4 DEF q
  <1> HIDE DEF M
  <1>2. /\ code = [i \in 1..M |-> IF i % 5 = 0 THEN Dash ELSE chars[i - i \div 5]]
        /\ Len(code) = M
    <2>1. code = [i \in 1..M |-> IF i % 5 = 0 THEN Dash ELSE chars[i - i \div 5]]
      BY DEF Grouped, M
    <2> HIDE DEF code
    <2>2. Len([i \in 1..M |-> IF i % 5 = 0 THEN Dash ELSE chars[i - i \div 5]]) = M
      BY <1>1
    <2> QED BY <2>1, <2>2
  <1> HIDE DEF code
  <1>3. PICK K : /\ K[0] = <<>>
                 /\ \A i \in 1..M : K[i] = ReadChar(K[i - 1], code[i])
                 /\ Positions(code) = K[M]
    BY <1>1, <1>2, ReadRun
  <1> DEFINE T == {i \in Nat : i <= M => Reads(K[i], chars, Count(i))}
  <1>4. 0 \in T
    <2>1. <<>> \in Seq(Nat) /\ Len(<<>>) = 0 /\ Count(0) = 0
      OBVIOUS
    <2>2. Reads(<<>>, chars, 0)
      BY DEF Reads
    <2>3. Reads(K[0], chars, Count(0))
      BY <1>3, <2>1, <2>2
    <2> HIDE DEF Count
    <2> QED BY <2>3
  <1>5. ASSUME NEW i \in Nat, i \in T PROVE i + 1 \in T
    <2> SUFFICES ASSUME i + 1 <= M PROVE Reads(K[i + 1], chars, Count(i + 1))
      OBVIOUS
    <2>1. i <= M /\ i + 1 \in 1..M /\ (i + 1) - 1 = i
      BY <1>1
    <2>2. Reads(K[i], chars, Count(i))
      BY <1>5, <2>1
    <2>3. K[i + 1] = ReadChar(K[i], code[i + 1])
      BY <1>3, <2>1
    <2>4. code[i + 1] = IF (i + 1) % 5 = 0 THEN Dash ELSE chars[Count(i + 1)]
      BY <1>2, <2>1
    <2>5. CASE (i + 1) % 5 = 0
      <3>1. Count(i + 1) = Count(i)
        BY <2>5
      <3>2. K[i + 1] = K[i]
        BY <2>3, <2>4, <2>5 DEF ReadChar
      <3> HIDE DEF Count
      <3> QED BY <2>2, <3>1, <3>2
    <2>6. CASE (i + 1) % 5 # 0
      <3>1. Count(i) \in Nat /\ Count(i + 1) = Count(i) + 1
        BY <2>6
      <3>2. Count(i + 1) <= Count(M)
        BY <1>1, <2>1
      <3>3. Count(i + 1) \in 1..N
        BY <1>1, <3>1, <3>2
      <3> HIDE DEF Count
      <3>4. code[i + 1] = chars[Count(i) + 1] /\ code[i + 1] \notin {Dash, Space}
        BY <2>4, <2>6, <3>1, <3>3
      <3>5. K[i + 1] = Append(K[i], Position(chars[Count(i) + 1]))
        BY <2>3, <3>4 DEF ReadChar
      <3>6. Reads(Append(K[i], Position(chars[Count(i) + 1])), chars, Count(i) + 1)
        BY <2>2, <3>1, ReadNext
      <3> QED BY <3>1, <3>5, <3>6
    <2> QED BY <2>5, <2>6
  <1> HIDE DEF T
  <1>6. M \in T
    BY <1>1, <1>4, <1>5, SetInduction
  <1>7. Reads(K[M], chars, Count(M))
    BY <1>1, <1>6 DEF T
  <1> QED BY <1>1, <1>3, <1>7 DEF code

(* A code with every character read the same reads the same. *)
LEMMA SameReading ==
    ASSUME NEW code \in Seq(Nat), NEW code2 \in Seq(Nat), Len(code2) = Len(code),
           \A i \in 1..Len(code) : \A s : ReadChar(s, code2[i]) = ReadChar(s, code[i])
    PROVE  Positions(code2) = Positions(code)
  <1> DEFINE N == Len(code)
  <1>0. N \in Nat
    BY LenProperties
  <1> HIDE DEF N
  <1>1. PICK K : /\ K[0] = <<>>
                 /\ \A i \in 1..N : K[i] = ReadChar(K[i - 1], code[i])
                 /\ Positions(code) = K[N]
    BY <1>0, ReadRun DEF N
  <1>2. PICK K2 : /\ K2[0] = <<>>
                  /\ \A i \in 1..N : K2[i] = ReadChar(K2[i - 1], code2[i])
                  /\ Positions(code2) = K2[N]
    BY <1>0, ReadRun DEF N
  <1> DEFINE T == {i \in Nat : i <= N => K2[i] = K[i]}
  <1>3. 0 \in T
    BY <1>1, <1>2
  <1>4. ASSUME NEW i \in Nat, i \in T PROVE i + 1 \in T
    <2> SUFFICES ASSUME i + 1 <= N PROVE K2[i + 1] = K[i + 1]
      OBVIOUS
    <2>1. i <= N /\ i + 1 \in 1..N /\ (i + 1) - 1 = i
      BY <1>0
    <2>2. K2[i] = K[i]
      BY <1>4, <2>1
    <2>3. K[i + 1] = ReadChar(K[i], code[i + 1])
      BY <1>1, <2>1
    <2>4. K2[i + 1] = ReadChar(K2[i], code2[i + 1])
      BY <1>2, <2>1
    <2>5. ReadChar(K[i], code2[i + 1]) = ReadChar(K[i], code[i + 1])
      BY <2>1 DEF N
    <2> QED BY <2>2, <2>3, <2>4, <2>5
  <1> HIDE DEF T
  <1>5. N \in T
    BY <1>0, <1>3, <1>4, SetInduction
  <1>6. K2[N] = K[N]
    BY <1>0, <1>5 DEF T
  <1> QED BY <1>1, <1>2, <1>6

(* code2 is code with x put in before place q *)
Inserted(code2, code, q, x) ==
    /\ Len(code2) = Len(code) + 1
    /\ \A i \in 1..(q - 1) : code2[i] = code[i]
    /\ code2[q] = x
    /\ \A i \in q..Len(code) : code2[i + 1] = code[i]

(* A separator more or less is not noticed. *)
LEMMA SkipReading ==
    ASSUME NEW code \in Seq(Nat), NEW code2, NEW q \in 1..(Len(code) + 1),
           NEW x \in {Dash, Space}, Inserted(code2, code, q, x)
    PROVE  Positions(code2) = Positions(code)
  <1> DEFINE N == Len(code)
  <1>0. N \in Nat /\ Len(code2) = N + 1 /\ q \in Nat /\ q >= 1 /\ q <= N + 1
    BY LenProperties DEF Inserted
  <1>9. /\ \A i \in 1..(q - 1) : code2[i] = code[i]
        /\ code2[q] = x
        /\ \A i \in q..N : code2[i + 1] = code[i]
    BY DEF Inserted
  <1> HIDE DEF N
  <1>1. PICK K : /\ K[0] = <<>>
                 /\ \A i \in 1..N : K[i] = ReadChar(K[i - 1], code[i])
                 /\ Positions(code) = K[N]
    BY <1>0, ReadRun DEF N
  <1>2. PICK K2 : /\ K2[0] = <<>>
                  /\ \A i \in 1..(N + 1) : K2[i] = ReadChar(K2[i - 1], code2[i])
                  /\ Positions(code2) = K2[N + 1]
    <2>1. Len(code2) \in Nat
      BY <1>0
    <2> QED BY <1>0, <2>1, ReadRun
  <1> DEFINE Same(i) == K2[i] = IF i < q THEN K[i] ELSE K[i - 1]
             T == {i \in Nat : i <= N + 1 => Same(i)}
  <1>3. 0 \in T
    BY <1>0, <1>1, <1>2
  <1>4. ASSUME NEW i \in Nat, i \in T PROVE i + 1 \in T
    <2> SUFFICES ASSUME i + 1 <= N + 1 PROVE Same(i + 1)
      OBVIOUS
    <2>1. i <= N + 1 /\ i + 1 \in 1..(N + 1) /\ (i + 1) - 1 = i
      BY <1>0
    <2>2. Same(i)
      BY <1>4, <2>1
    <2>3. K2[i + 1] = ReadChar(K2[i], code2[i + 1])
      BY <1>2, <2>1
    <2>4. CASE i + 1 < q
      <3>1. i + 1 \in 1..N /\ i < q /\ i + 1 \in 1..(q - 1)
        BY <1>0, <2>4
      <3>2. K[i + 1] = ReadChar(K[i], code[i + 1])
        BY <1>1, <2>1, <3>1
      <3>3. K2[i] = K[i] /\ code2[i + 1] = code[i + 1]
        BY <2>2, <3>1, <1>9
      <3> QED BY <2>3, <2>4, <3>2, <3>3
    <2>5. CASE i + 1 = q
      <3>1. K2[i] = K[i] /\ ~(i + 1 < q)
        BY <2>2, <2>5
      <3>2. code2[i + 1] = x
        BY <2>5, <1>9
      <3>3. K2[i + 1] = K[i]
        BY <2>3, <3>1, <3>2 DEF ReadChar
      <3> QED BY <2>1, <3>1, <3>3
    <2>6. CASE i + 1 > q
      <3>1. i \in q..N /\ i \in 1..N /\ ~(i < q) /\ ~(i + 1 < q)
        BY <1>0, <2>6
      <3>2. K[i] = ReadChar(K[i - 1], code[i])
        BY <1>1, <3>1
      <3>3. K2[i] = K[i - 1] /\ code2[i + 1] = code[i]
        BY <2>2, <3>1, <1>9
      <3>4. K2[i + 1] = K[i]
        BY <2>3, <3>2, <3>3
      <3> QED BY <2>1, <3>1, <3>4
    <2> QED BY <1>0, <2>4, <2>5, <2>6
  <1> HIDE DEF T
  <1>5. N + 1 \in T
    BY <1>0, <1>3, <1>4, SetInduction
  <1>6. Same(N + 1)
    BY <1>0, <1>5 DEF T
  <1>7. ~(N + 1 < q) /\ (N + 1) - 1 = N
    BY <1>0
  <1> QED BY <1>1, <1>2, <1>6, <1>7

LEMMA InsertsOne ==
    ASSUME NEW s \in Seq(Nat), NEW i \in 1..Len(s), NEW x \in Nat
    PROVE  InsertAt(s, i, x) \in Seq(Nat) /\ Inserted(InsertAt(s, i, x), s, i, x)
  <1> DEFINE N == Len(s)
             a == SubSeq(s, 1, i - 1)
             b == SubSeq(s, i, N)
             ax == a \o <<x>>
             t == ax \o b
  <1>0. N \in Nat /\ i \in Nat /\ i >= 1 /\ i <= N
    BY LenProperties
  <1>1. a \in Seq(Nat) /\ Len(a) = i - 1 /\ \A j \in 1..(i - 1) : a[j] = s[j]
    <2>1. i - 1 \in 0..N
      BY <1>0
    <2> QED BY <2>1, <1>0
  <1>2. b \in Seq(Nat) /\ Len(b) = N - i + 1 /\ \A j \in 1..(N - i + 1) : b[j] = s[i + j - 1]
    BY <1>0
  <1>3. <<x>> \in Seq(Nat) /\ Len(<<x>>) = 1 /\ <<x>>[1] = x
    OBVIOUS
  <1> HIDE DEF a, b, N
  <1>4. /\ ax \in Seq(Nat) /\ Len(ax) = i
        /\ \A j \in 1..(i - 1) : ax[j] = s[j]
        /\ ax[i] = x
    <2>1. /\ ax \in Seq(Nat) /\ Len(ax) = (i - 1) + 1
          /\ \A j \in 1..((i - 1) + 1) : ax[j] = IF j <= i - 1 THEN a[j] ELSE <<x>>[j - (i - 1)]
      BY <1>1, <1>3, ConcatProperties
    <2> HIDE DEF ax
    <2>2. (i - 1) + 1 = i /\ i - (i - 1) = 1 /\ ~(i <= i - 1)
      BY <1>0
    <2>3. ax[i] = x
      BY <2>1, <2>2, <1>0, <1>3
    <2>4. ASSUME NEW j \in 1..(i - 1) PROVE ax[j] = s[j]
      <3>1. j \in 1..((i - 1) + 1) /\ j <= i - 1
        BY <1>0
      <3> QED BY <3>1, <2>1, <1>1
    <2> QED BY <2>1, <2>2, <2>3, <2>4
  <1> HIDE DEF ax
  <1>5. /\ t \in Seq(Nat) /\ Len(t) = i + (N - i + 1)
        /\ \A j \in 1..(i + (N - i + 1)) : t[j] = IF j <= i THEN ax[j] ELSE b[j - i]
    <2>1. /\ t \in Seq(Nat) /\ Len(t) = Len(ax) + Len(b)
          /\ \A j \in 1..(Len(ax) + Len(b)) :
               t[j] = IF j <= Len(ax) THEN ax[j] ELSE b[j - Len(ax)]
      <3>1. ax \in Seq(Nat) /\ b \in Seq(Nat)
        BY <1>2, <1>4
      <3> QED BY <3>1, ConcatProperties
    <2> QED BY <1>2, <1>4, <2>1
  <1> HIDE DEF t
  <1>6. Len(t) = N + 1 /\ i + (N - i + 1) = N + 1
    BY <1>0, <1>5
  <1>7. ASSUME NEW j \in 1..(i - 1) PROVE t[j] = s[j]
    <2>1. j \in 1..(N + 1) /\ j <= i
      BY <1>0
    <2> QED BY <2>1, <1>4, <1>5, <1>6
  <1>8. t[i] = x
    BY <1>0, <1>4, <1>5, <1>6
  <1>9. ASSUME NEW j \in i..N PROVE t[j + 1] = s[j]
    <2>1. j + 1 \in 1..(N + 1) /\ ~(j + 1 <= i) /\ (j + 1) - i \in 1..(N - i + 1)
          /\ i + ((j + 1) - i) - 1 = j
      BY <1>0
    <2>2. t[j + 1] = b[(j + 1) - i]
      BY <2>1, <1>5, <1>6
    <2>3. b[(j + 1) - i] = s[i + ((j + 1) - i) - 1]
      BY <2>1, <1>2
    <2> QED BY <2>1, <2>2, <2>3
  <1>10. Inserted(t, s, i, x)
    BY <1>6, <1>7, <1>8, <1>9 DEF Inserted, N
  <1> QED BY <1>5, <1>10 DEF InsertAt, t, ax, a, b, N

LEMMA RemovesOne ==
    ASSUME NEW s \in Seq(Nat), NEW i \in 1..Len(s)
    PROVE  /\ RemoveAt(s, i) \in Seq(Nat) /\ Len(RemoveAt(s, i)) = Len(s) - 1
           /\ Inserted(s, RemoveAt(s, i), i, s[i])
  <1> DEFINE N == Len(s)
             a == SubSeq(s, 1, i - 1)
             b == SubSeq(s, i + 1, N)
             t == a \o b
  <1>0. N \in Nat /\ i \in Nat /\ i >= 1 /\ i <= N
    BY LenProperties
  <1>1. a \in Seq(Nat) /\ Len(a) = i - 1 /\ \A j \in 1..(i - 1) : a[j] = s[j]
    <2>1. i - 1 \in 0..N
      BY <1>0
    <2> QED BY <2>1, <1>0
  <1>2. b \in Seq(Nat) /\ Len(b) = N - i /\ \A j \in 1..(N - i) : b[j] = s[i + j]
    <2>1. b \in Seq(Nat) /\ Len(b) = N - (i + 1) + 1
          /\ \A j \in 1..(N - (i + 1) + 1) : b[j] = s[(i + 1) + j - 1]
      <3>1. CASE i = N
        BY <3>1, <1>0
      <3>2. CASE i < N
        BY <3>2, <1>0
      <3> QED BY <3>1, <3>2, <1>0
    <2> HIDE DEF b
    <2>2. N - (i + 1) + 1 = N - i
      BY <1>0
    <2>3. ASSUME NEW j \in 1..(N - i) PROVE b[j] = s[i + j]
      <3>1. (i + 1) + j - 1 = i + j
        BY <1>0
      <3> QED BY <2>1, <2>2, <3>1
    <2> QED BY <2>1, <2>2, <2>3
  <1> HIDE DEF a, b, N
  <1>3. /\ t \in Seq(Nat) /\ Len(t) = (i - 1) + (N - i)
        /\ \A j \in 1..((i - 1) + (N - i)) : t[j] = IF j <= i - 1 THEN a[j] ELSE b[j - (i - 1)]
    <2>1. /\ t \in Seq(Nat) /\ Len(t) = Len(a) + Len(b)
          /\ \A j \in 1..(Len(a) + Len(b)) :
               t[j] = IF j <= Len(a) THEN a[j] ELSE b[j - Len(a)]
      <3>1. a \in Seq(Nat) /\ b \in Seq(Nat)
        BY <1>1, <1>2
      <3> QED BY <3>1, ConcatProperties
    <2> QED BY <1>1, <1>2, <2>1
  <1> HIDE DEF t
  <1>4. (i - 1) + (N - i) = N - 1 /\ (N - 1) + 1 = N
    BY <1>0
  <1>5. ASSUME NEW j \in 1..(i - 1) PROVE s[j] = t[j]
    <2>1. j \in 1..(N - 1) /\ j <= i - 1
      BY <1>0
    <2> QED BY <2>1, <1>1, <1>3, <1>4
  <1>6. ASSUME NEW j \in i..(N - 1) PROVE s[j + 1] = t[j]
    <2>1. j \in 1..(N - 1) /\ ~(j <= i - 1) /\ j - (i - 1) \in 1..(N - i)
          /\ i + (j - (i - 1)) = j + 1
      BY <1>0
    <2>2. t[j] = b[j - (i - 1)]
      BY <2>1, <1>3, <1>4
    <2>3. b[j - (i - 1)] = s[i + (j - (i - 1))]
      BY <2>1, <1>2
    <2> QED BY <2>1, <2>2, <2>3
  <1>7. Len(t) = N - 1
    BY <1>3, <1>4
  <1>8. Inserted(s, t, i, s[i])
    BY <1>4, <1>5, <1>6, <1>7 DEF Inserted, N
  <1> QED BY <1>3, <1>7, <1>8 DEF RemoveAt, t, a, b, N

(* Another spelling of a character reads the same. *)
LEMMA Respelled ==
    ASSUME NEW c \in Nat, NEW d \in Spellings(c)
    PROVE  d \in Nat /\ \A s : ReadChar(s, d) = ReadChar(s, c)
  <1>1. /\ d \in Nat
        /\ d \notin {Dash, Space} /\ c \notin {Dash, Space}
        /\ Unambiguous(to_ascii_uppercase(d)) = Unambiguous(to_ascii_uppercase(c))
    <2> USE DEF Dash, Space, Unambiguous, to_ascii_uppercase
    <2>1. CASE c \in 65..90 /\ d = c + 32
      <3>1. to_ascii_uppercase(d) = c /\ to_ascii_uppercase(c) = c
        BY <2>1
      <3> HIDE DEF Unambiguous, to_ascii_uppercase
      <3> QED BY <2>1, <3>1
    <2>2. CASE c = 49 /\ d \in {73, 76, 105, 108}
      <3>1. to_ascii_uppercase(d) \in {73, 76} /\ to_ascii_uppercase(c) = 49
        BY <2>2
      <3> HIDE DEF to_ascii_uppercase
      <3> QED BY <2>2, <3>1
    <2>3. CASE c = 48 /\ d \in {79, 111}
      <3>1. to_ascii_uppercase(d) = 79 /\ to_ascii_uppercase(c) = 48
        BY <2>3
      <3> HIDE DEF to_ascii_uppercase
      <3> QED BY <2>3, <3>1
    <2> QED BY <2>1, <2>2, <2>3 DEF Spellings
  <1>2. Position(d) = Position(c)
    BY <1>1 DEF Position, SelectInSeq
  <1> QED BY <1>1, <1>2 DEF ReadChar

-----------------------------------------------------------------------------
(* The data part of decode_code *)

(* positions in the alphabet, all found *)
IsVals(vals) == \A j \in 1..CODE_DATA_CHARS : vals[j] \in 1..32

(* bit t of the data characters, most significant first *)
CodeBit(vals, t) == D(vals[t \div 5 + 1] - 1, 2^(4 - (t % 5)))

BitsOfVal(vals, j) ==
    /\ vals[j + 1] - 1 \in 0..31
    /\ CodeBit(vals, 5 * j) = D(vals[j + 1] - 1, 16)
    /\ CodeBit(vals, 5 * j + 1) = D(vals[j + 1] - 1, 8)
    /\ CodeBit(vals, 5 * j + 2) = D(vals[j + 1] - 1, 4)
    /\ CodeBit(vals, 5 * j + 3) = D(vals[j + 1] - 1, 2)
    /\ CodeBit(vals, 5 * j + 4) = D(vals[j + 1] - 1, 1)

LEMMA ValBits ==
    ASSUME NEW vals, IsVals(vals), NEW j \in Nat, j < CODE_DATA_CHARS
    PROVE  BitsOfVal(vals, j)
  <1>1. vals[j + 1] \in 1..32
    <2>1. j + 1 \in 1..CODE_DATA_CHARS
      BY SizeAssumption
    <2> QED BY <2>1 DEF IsVals
  <1>2. vals[j + 1] - 1 \in 0..31
    BY <1>1
  <1>3. ASSUME NEW q \in 0..4
        PROVE  CodeBit(vals, 5 * j + q) = D(vals[j + 1] - 1, 2^(4 - q))
    <2>1. (5 * j + q) \div 5 = j /\ (5 * j + q) % 5 = q
      OBVIOUS
    <2> QED BY <2>1 DEF CodeBit
  <1>4. 5 * j = 5 * j + 0
    OBVIOUS
  <1>5. 2^(4 - 0) = 16 /\ 2^(4 - 1) = 8 /\ 2^(4 - 2) = 4 /\ 2^(4 - 3) = 2 /\ 2^(4 - 4) = 1
    BY Pow2
  <1> QED BY <1>2, <1>3, <1>4, <1>5 DEF BitsOfVal

(* byte m of the data characters *)
Octet(vals, m) ==
    Sum8(CodeBit(vals, 8 * m), CodeBit(vals, 8 * m + 1), CodeBit(vals, 8 * m + 2),
         CodeBit(vals, 8 * m + 3), CodeBit(vals, 8 * m + 4), CodeBit(vals, 8 * m + 5),
         CodeBit(vals, 8 * m + 6), CodeBit(vals, 8 * m + 7))

(* m bytes are out and r + 3 bits left over after i characters *)
Aligned8(m, r, i) == 8 * m + r + 3 = 5 * i

(* character i, counted from 0, is w, and the two before it u and v *)
Follow3(vals, i, u, v, w) ==
    /\ u \in 0..31 /\ v \in 0..31 /\ w \in 0..31
    /\ w = vals[i + 1] - 1
    /\ i >= 1 => v = vals[i] - 1
    /\ i >= 2 => u = vals[i - 1] - 1

(* what the loop reads off at bit e *)
Taken8(a, e) == (a \div 2^e) % 256

LEMMA NextByte ==
    ASSUME NEW vals, IsVals(vals), NEW i \in Nat, i < CODE_DATA_CHARS,
           NEW m \in Nat, NEW r \in 0..4, Aligned8(m, r, i),
           NEW u, NEW v, NEW w, Follow3(vals, i, u, v, w),
           NEW a \in Nat, Window5(a, u, v, w)
    PROVE  Taken8(a, r) = Octet(vals, m)
  <1>0. /\ 8 * m + r + 3 = 5 * i
        /\ u \in 0..31 /\ v \in 0..31 /\ w \in 0..31
        /\ w = vals[i + 1] - 1 /\ (i >= 1 => v = vals[i] - 1) /\ (i >= 2 => u = vals[i - 1] - 1)
    BY DEF Aligned8, Follow3
  <1>1. BitsOfVal(vals, i)
    BY ValBits
  <1>2. BitsOfVal(vals, i - 1) /\ v = vals[(i - 1) + 1] - 1
    <2>1. i >= 1 /\ i - 1 \in Nat /\ i - 1 < CODE_DATA_CHARS /\ (i - 1) + 1 = i
      BY <1>0, SizeAssumption
    <2> QED BY <1>0, <2>1, ValBits
  <1>3. r >= 3 => BitsOfVal(vals, i - 2) /\ u = vals[(i - 2) + 1] - 1
    <2> SUFFICES ASSUME r >= 3 PROVE BitsOfVal(vals, i - 2) /\ u = vals[(i - 2) + 1] - 1
      OBVIOUS
    <2>1. i >= 2 /\ i - 2 \in Nat /\ i - 2 < CODE_DATA_CHARS /\ (i - 2) + 1 = i - 1
      BY <1>0, SizeAssumption
    <2> QED BY <1>0, <2>1, ValBits
  <1>4. OctetsOf(a, u, v, w)
    BY <1>0, Octets
  <1>5. CASE r = 0
    <2>1. /\ 8 * m = 5 * (i - 1) + 2
          /\ 8 * m + 1 = 5 * (i - 1) + 3
          /\ 8 * m + 2 = 5 * (i - 1) + 4
          /\ 8 * m + 3 = 5 * i
          /\ 8 * m + 4 = 5 * i + 1
          /\ 8 * m + 5 = 5 * i + 2
          /\ 8 * m + 6 = 5 * i + 3
          /\ 8 * m + 7 = 5 * i + 4
      BY <1>0, <1>5
    <2>2. Octet(vals, m)
            = Sum8(D(v, 4), D(v, 2), D(v, 1), D(w, 16), D(w, 8), D(w, 4), D(w, 2), D(w, 1))
      BY <1>0, <1>1, <1>2, <2>1 DEF Octet, BitsOfVal
    <2>3. 2^r = 1
      BY <1>5, Pow2
    <2>4. a % 256
            = Sum8(D(v, 4), D(v, 2), D(v, 1), D(w, 16), D(w, 8), D(w, 4), D(w, 2), D(w, 1))
      BY <1>4 DEF OctetsOf
    <2>5. a \div 1 = a
      OBVIOUS
    <2> QED BY <2>2, <2>3, <2>4, <2>5 DEF Taken8
  <1>6. CASE r = 1
    <2>1. /\ 8 * m = 5 * (i - 1) + 1
          /\ 8 * m + 1 = 5 * (i - 1) + 2
          /\ 8 * m + 2 = 5 * (i - 1) + 3
          /\ 8 * m + 3 = 5 * (i - 1) + 4
          /\ 8 * m + 4 = 5 * i
          /\ 8 * m + 5 = 5 * i + 1
          /\ 8 * m + 6 = 5 * i + 2
          /\ 8 * m + 7 = 5 * i + 3
      BY <1>0, <1>6
    <2>2. Octet(vals, m)
            = Sum8(D(v, 8), D(v, 4), D(v, 2), D(v, 1), D(w, 16), D(w, 8), D(w, 4), D(w, 2))
      BY <1>0, <1>1, <1>2, <2>1 DEF Octet, BitsOfVal
    <2>3. 2^r = 2
      BY <1>6, Pow2
    <2>4. (a \div 2) % 256
            = Sum8(D(v, 8), D(v, 4), D(v, 2), D(v, 1), D(w, 16), D(w, 8), D(w, 4), D(w, 2))
      BY <1>4 DEF OctetsOf
    <2> QED BY <2>2, <2>3, <2>4 DEF Taken8
  <1>7. CASE r = 2
    <2>1. /\ 8 * m = 5 * (i - 1)
          /\ 8 * m + 1 = 5 * (i - 1) + 1
          /\ 8 * m + 2 = 5 * (i - 1) + 2
          /\ 8 * m + 3 = 5 * (i - 1) + 3
          /\ 8 * m + 4 = 5 * (i - 1) + 4
          /\ 8 * m + 5 = 5 * i
          /\ 8 * m + 6 = 5 * i + 1
          /\ 8 * m + 7 = 5 * i + 2
      BY <1>0, <1>7
    <2>2. Octet(vals, m)
            = Sum8(D(v, 16), D(v, 8), D(v, 4), D(v, 2), D(v, 1), D(w, 16), D(w, 8), D(w, 4))
      BY <1>0, <1>1, <1>2, <2>1 DEF Octet, BitsOfVal
    <2>3. 2^r = 4
      BY <1>7, Pow2
    <2>4. (a \div 4) % 256
            = Sum8(D(v, 16), D(v, 8), D(v, 4), D(v, 2), D(v, 1), D(w, 16), D(w, 8), D(w, 4))
      BY <1>4 DEF OctetsOf
    <2> QED BY <2>2, <2>3, <2>4 DEF Taken8
  <1>8. CASE r = 3
    <2>1. /\ 8 * m = 5 * (i - 2) + 4
          /\ 8 * m + 1 = 5 * (i - 1)
          /\ 8 * m + 2 = 5 * (i - 1) + 1
          /\ 8 * m + 3 = 5 * (i - 1) + 2
          /\ 8 * m + 4 = 5 * (i - 1) + 3
          /\ 8 * m + 5 = 5 * (i - 1) + 4
          /\ 8 * m + 6 = 5 * i
          /\ 8 * m + 7 = 5 * i + 1
      BY <1>0, <1>8
    <2>2. Octet(vals, m)
            = Sum8(D(u, 1), D(v, 16), D(v, 8), D(v, 4), D(v, 2), D(v, 1), D(w, 16), D(w, 8))
      <3>1. BitsOfVal(vals, i - 2) /\ u = vals[(i - 2) + 1] - 1
        BY <1>3, <1>8
      <3> QED BY <1>0, <1>1, <1>2, <2>1, <3>1 DEF Octet, BitsOfVal
    <2>3. 2^r = 8
      BY <1>8, Pow2
    <2>4. (a \div 8) % 256
            = Sum8(D(u, 1), D(v, 16), D(v, 8), D(v, 4), D(v, 2), D(v, 1), D(w, 16), D(w, 8))
      BY <1>4 DEF OctetsOf
    <2> QED BY <2>2, <2>3, <2>4 DEF Taken8
  <1>9. CASE r = 4
    <2>1. /\ 8 * m = 5 * (i - 2) + 3
          /\ 8 * m + 1 = 5 * (i - 2) + 4
          /\ 8 * m + 2 = 5 * (i - 1)
          /\ 8 * m + 3 = 5 * (i - 1) + 1
          /\ 8 * m + 4 = 5 * (i - 1) + 2
          /\ 8 * m + 5 = 5 * (i - 1) + 3
          /\ 8 * m + 6 = 5 * (i - 1) + 4
          /\ 8 * m + 7 = 5 * i
      BY <1>0, <1>9
    <2>2. Octet(vals, m)
            = Sum8(D(u, 2), D(u, 1), D(v, 16), D(v, 8), D(v, 4), D(v, 2), D(v, 1), D(w, 16))
      <3>1. BitsOfVal(vals, i - 2) /\ u = vals[(i - 2) + 1] - 1
        BY <1>3, <1>9
      <3> QED BY <1>0, <1>1, <1>2, <2>1, <3>1 DEF Octet, BitsOfVal
    <2>3. 2^r = 16
      BY <1>9, Pow2
    <2>4. (a \div 16) % 256
            = Sum8(D(u, 2), D(u, 1), D(v, 16), D(v, 8), D(v, 4), D(v, 2), D(v, 1), D(w, 16))
      BY <1>4 DEF OctetsOf
    <2> QED BY <2>2, <2>3, <2>4 DEF Taken8
  <1> QED BY <1>5, <1>6, <1>7, <1>8, <1>9

LEMMA CodeBitRange ==
    ASSUME NEW vals, IsVals(vals), NEW t \in Nat, t < 5 * CODE_DATA_CHARS
    PROVE  CodeBit(vals, t) \in 0..1
  <1> DEFINE j == t \div 5
             q == t % 5
  <1>1. j \in Nat /\ j < CODE_DATA_CHARS /\ q \in 0..4 /\ t = 5 * j + q
    BY SizeAssumption
  <1> HIDE DEF j, q
  <1>2. BitsOfVal(vals, j)
    BY <1>1, ValBits
  <1>3. \/ t = 5 * j \/ t = 5 * j + 1 \/ t = 5 * j + 2 \/ t = 5 * j + 3 \/ t = 5 * j + 4
    BY <1>1
  <1>4. /\ CodeBit(vals, 5 * j) \in 0..1 /\ CodeBit(vals, 5 * j + 1) \in 0..1
        /\ CodeBit(vals, 5 * j + 2) \in 0..1 /\ CodeBit(vals, 5 * j + 3) \in 0..1
        /\ CodeBit(vals, 5 * j + 4) \in 0..1
    BY <1>2, Digits5 DEF BitsOfVal
  <1> QED BY <1>3, <1>4

BitsOfOctet(vals, m) ==
    /\ Octet(vals, m) \in 0..255
    /\ D(Octet(vals, m), 128) = CodeBit(vals, 8 * m)
    /\ D(Octet(vals, m), 64) = CodeBit(vals, 8 * m + 1)
    /\ D(Octet(vals, m), 32) = CodeBit(vals, 8 * m + 2)
    /\ D(Octet(vals, m), 16) = CodeBit(vals, 8 * m + 3)
    /\ D(Octet(vals, m), 8) = CodeBit(vals, 8 * m + 4)
    /\ D(Octet(vals, m), 4) = CodeBit(vals, 8 * m + 5)
    /\ D(Octet(vals, m), 2) = CodeBit(vals, 8 * m + 6)
    /\ D(Octet(vals, m), 1) = CodeBit(vals, 8 * m + 7)

LEMMA OctetBits ==
    ASSUME NEW vals, IsVals(vals), NEW m \in Nat, m < SECRET_BYTES
    PROVE  BitsOfOctet(vals, m)
  <1>1. ASSUME NEW q \in 0..7
        PROVE  8 * m + q \in Nat /\ 8 * m + q < 5 * CODE_DATA_CHARS
    BY SizeAssumption
  <1>2. ASSUME NEW q \in 0..7 PROVE CodeBit(vals, 8 * m + q) \in 0..1
    BY <1>1, CodeBitRange
  <1>3. 8 * m = 8 * m + 0
    OBVIOUS
  <1>4. /\ CodeBit(vals, 8 * m) \in 0..1 /\ CodeBit(vals, 8 * m + 1) \in 0..1
        /\ CodeBit(vals, 8 * m + 2) \in 0..1 /\ CodeBit(vals, 8 * m + 3) \in 0..1
        /\ CodeBit(vals, 8 * m + 4) \in 0..1 /\ CodeBit(vals, 8 * m + 5) \in 0..1
        /\ CodeBit(vals, 8 * m + 6) \in 0..1 /\ CodeBit(vals, 8 * m + 7) \in 0..1
    BY <1>2, <1>3
  <1>5. Octet(vals, m)
          = Sum8(CodeBit(vals, 8 * m), CodeBit(vals, 8 * m + 1), CodeBit(vals, 8 * m + 2),
                 CodeBit(vals, 8 * m + 3), CodeBit(vals, 8 * m + 4), CodeBit(vals, 8 * m + 5),
                 CodeBit(vals, 8 * m + 6), CodeBit(vals, 8 * m + 7))
    BY DEF Octet
  <1> DEFINE x == Octet(vals, m)
             c0 == CodeBit(vals, 8 * m)      c1 == CodeBit(vals, 8 * m + 1)
             c2 == CodeBit(vals, 8 * m + 2)  c3 == CodeBit(vals, 8 * m + 3)
             c4 == CodeBit(vals, 8 * m + 4)  c5 == CodeBit(vals, 8 * m + 5)
             c6 == CodeBit(vals, 8 * m + 6)  c7 == CodeBit(vals, 8 * m + 7)
  <1> HIDE DEF x, c0, c1, c2, c3, c4, c5, c6, c7
  <1>6. /\ c0 \in 0..1 /\ c1 \in 0..1 /\ c2 \in 0..1 /\ c3 \in 0..1
        /\ c4 \in 0..1 /\ c5 \in 0..1 /\ c6 \in 0..1 /\ c7 \in 0..1
        /\ x = Sum8(c0, c1, c2, c3, c4, c5, c6, c7)
    BY <1>4, <1>5 DEF x, c0, c1, c2, c3, c4, c5, c6, c7
  <1>7. /\ x \in 0..255
        /\ D(x, 128) = c0 /\ D(x, 64) = c1 /\ D(x, 32) = c2 /\ D(x, 16) = c3
        /\ D(x, 8) = c4 /\ D(x, 4) = c5 /\ D(x, 2) = c6 /\ D(x, 1) = c7
    <2>1. Digits8(x, c0, c1, c2, c3, c4, c5, c6, c7)
      BY <1>6, Make8
    <2> QED BY <2>1 DEF Digits8
  <1> QED BY <1>7 DEF BitsOfOctet, x, c0, c1, c2, c3, c4, c5, c6, c7

Shifted5In(acc, w) ==
    /\ Acc(acc * 32 + w) \in Nat
    /\ Acc(acc * 32 + w) % 32 = w
    /\ (Acc(acc * 32 + w) \div 32) % 32 = acc % 32
    /\ Window5(Acc(acc * 32 + w), (acc \div 32) % 32, acc % 32, w)

LEMMA Shift5In ==
    ASSUME NEW acc \in Nat, NEW w \in 0..31
    PROVE  Shifted5In(acc, w)
  <1> DEFINE n == acc * 32 + w
             a == Acc(n)
             v == acc % 32
             u == (acc \div 32) % 32
             h == acc \div 1024
             g == u % 4
  <1>1. acc = 1024 * h + 32 * u + v /\ u \in 0..31 /\ v \in 0..31 /\ h \in Nat
    <2>1. acc \div 1024 = (acc \div 32) \div 32
      OBVIOUS
    <2> QED BY <2>1
  <1>2. n = acc * 32 + w /\ n \in Nat
    OBVIOUS
  <1> HIDE DEF n, u, v, h
  <1>3. n = 32768 * h + 1024 * u + 32 * v + w
    BY <1>1, <1>2
  <1>4. n % 4096 = 1024 * g + 32 * v + w
    <2>1. g \in 0..3 /\ u = 4 * (u \div 4) + g /\ u \div 4 \in Nat
      BY <1>1
    <2> DEFINE f == u \div 4
    <2> HIDE DEF g, f
    <2>2. n = 4096 * (8 * h + f) + (1024 * g + 32 * v + w) /\ 8 * h + f \in Nat
      BY <1>1, <1>3, <2>1 DEF f
    <2>3. 1024 * g + 32 * v + w \in 0..4095
      BY <1>1, <2>1
    <2> DEFINE e == 8 * h + f
               l == 1024 * g + 32 * v + w
    <2> HIDE DEF e, l
    <2>4. n = 4096 * e + l /\ e \in Nat /\ l \in 0..4095
      BY <2>2, <2>3 DEF e, l
    <2>5. n % 4096 = l
      BY <2>4
    <2> QED BY <2>5 DEF l
  <1>5. a \in Nat /\ a % 4096 = n % 4096
    BY <1>2, AccLow
  <1> HIDE DEF a
  <1>6. g \in 0..3
    BY <1>1
  <1> HIDE DEF g
  <1> DEFINE x == a \div 4096
  <1>7. a = 4096 * x + 1024 * g + 32 * v + w /\ x \in Nat
    <2>1. a = 4096 * x + (a % 4096) /\ x \in Nat
      BY <1>5
    <2> HIDE DEF x
    <2> QED BY <1>1, <1>4, <1>5, <1>6, <2>1
  <1> HIDE DEF x
  <1>8. a % 32 = w
    BY <1>1, <1>6, <1>7
  <1>9. (a \div 32) % 32 = v
    <2>1. a \div 32 = 128 * x + 32 * g + v
      BY <1>1, <1>6, <1>7
    <2> QED BY <1>1, <1>6, <1>7, <2>1
  <1>10. Window5(a, u, v, w)
    BY <1>4, <1>5 DEF Window5, g
  <1> QED BY <1>5, <1>8, <1>9, <1>10 DEF Shifted5In, a, n, u, v

(* The state of decode_code's second loop after i characters: the bytes so *)
(* far are the bits so far, and the last two characters are still in the   *)
(* accumulator.                                                            *)
DecState(s, vals, i) ==
    /\ s \in [acc : Nat, bits : 0..7, out : Seq(Nat)]
    /\ i >= 1 => s.acc % 32 = vals[i] - 1
    /\ i >= 2 => (s.acc \div 32) % 32 = vals[i - 1] - 1
    /\ 8 * Len(s.out) + s.bits = 5 * i
    /\ \A m \in 1..Len(s.out) : s.out[m] = Octet(vals, m - 1)

CharDecoded(s, v, a, bits) ==
    /\ bits < 8 => DecodeChar(s, v) = [s EXCEPT !.acc = a, !.bits = bits]
    /\ ~(bits < 8) /\ Len(s.out) < SECRET_BYTES =>
         DecodeChar(s, v) = [acc |-> a, bits |-> bits - 8,
                             out |-> Append(s.out, Taken8(a, bits - 8))]

LEMMA DecodeCharIs ==
    ASSUME NEW s, NEW v, NEW a, a = Acc(s.acc * 32 + v), NEW bits, bits = s.bits + 5
    PROVE  CharDecoded(s, v, a, bits)
  <1>1. DecodeChar(s, v) = IF bits < 8 THEN [s EXCEPT !.acc = a, !.bits = bits]
        ELSE [acc |-> a, bits |-> bits - 8,
              out |-> IF Len(s.out) < SECRET_BYTES
                      THEN Append(s.out, (a \div 2^(bits - 8)) % 256) ELSE s.out]
    BY DEF DecodeChar
  <1>2. Taken8(a, bits - 8) = (a \div 2^(bits - 8)) % 256
    BY DEF Taken8
  <1>3. bits < 8 => DecodeChar(s, v) = [s EXCEPT !.acc = a, !.bits = bits]
    BY <1>1
  <1>4. ~(bits < 8) /\ Len(s.out) < SECRET_BYTES =>
          DecodeChar(s, v) = [acc |-> a, bits |-> bits - 8,
                              out |-> Append(s.out, Taken8(a, bits - 8))]
    BY <1>1, <1>2
  <1> QED BY <1>3, <1>4 DEF CharDecoded

LEMMA DecodeStep ==
    ASSUME NEW vals, IsVals(vals), NEW i \in Nat, i < CODE_DATA_CHARS,
           NEW s, DecState(s, vals, i)
    PROVE  DecState(DecodeChar(s, vals[i + 1] - 1), vals, i + 1)
  <1> DEFINE w == vals[i + 1] - 1
             acc == s.acc
             b == s.bits
             bits == b + 5
             out == s.out
             L == Len(out)
             a == Acc(acc * 32 + w)
             v == acc % 32
             u == (acc \div 32) % 32
             t == DecodeChar(s, w)
  <1>1. /\ acc \in Nat /\ b \in 0..7 /\ out \in Seq(Nat) /\ L \in Nat
        /\ 8 * L + b = 5 * i
        /\ \A m \in 1..L : out[m] = Octet(vals, m - 1)
        /\ i >= 1 => v = vals[i] - 1
        /\ i >= 2 => u = vals[i - 1] - 1
    BY LenProperties DEF DecState
  <1>2. w \in 0..31
    <2>1. BitsOfVal(vals, i)
      BY ValBits
    <2> QED BY <2>1 DEF BitsOfVal
  <1>3. /\ bits < 8 => t = [s EXCEPT !.acc = a, !.bits = bits]
        /\ ~(bits < 8) /\ L < SECRET_BYTES =>
             t = [acc |-> a, bits |-> bits - 8, out |-> Append(out, Taken8(a, bits - 8))]
    <2>1. a = Acc(s.acc * 32 + w) /\ bits = s.bits + 5
      OBVIOUS
    <2> HIDE DEF a, bits, w
    <2>2. CharDecoded(s, w, a, bits)
      BY <2>1, DecodeCharIs
    <2> QED BY <2>2 DEF CharDecoded
  <1> HIDE DEF t, w, acc, b, out, L
  <1>4. u \in 0..31 /\ v \in 0..31
    BY <1>1
  <1>5. Shifted5In(acc, w)
    BY <1>1, <1>2, Shift5In
  <1>6. a \in Nat /\ a % 32 = w /\ (a \div 32) % 32 = v /\ Window5(a, u, v, w)
    BY <1>5 DEF Shifted5In
  <1> HIDE DEF a, u, v
  <1>7. (i + 1) - 1 = i /\ (i + 1 >= 2 => i >= 1)
    OBVIOUS
  <1>8. CASE bits < 8
    <2>1. t = [acc |-> a, bits |-> bits, out |-> out]
      <3>1. s \in [acc : Nat, bits : 0..7, out : Seq(Nat)]
        BY DEF DecState
      <3> QED BY <1>3, <1>8, <3>1 DEF out
    <2>2. t.acc = a /\ t.bits = bits /\ t.out = out /\ bits \in 0..7
      BY <1>1, <1>8, <2>1
    <2>3. t \in [acc : Nat, bits : 0..7, out : Seq(Nat)]
      BY <1>1, <1>6, <2>1, <2>2
    <2>4. 8 * L + bits = 5 * (i + 1)
      BY <1>1
    <2>5. DecState(t, vals, i + 1)
      BY <1>1, <1>6, <1>7, <2>2, <2>3, <2>4 DEF DecState, L, w
    <2> QED BY <2>5 DEF t, w
  <1>9. CASE ~(bits < 8)
    <2> DEFINE r == bits - 8
               new == Append(out, Octet(vals, L))
    <2>1. r \in 0..4 /\ b = r + 3
      BY <1>1, <1>9
    <2>2. L < SECRET_BYTES
      BY <1>1, <2>1, SizeAssumption
    <2> HIDE DEF r
    <2>3. Aligned8(L, r, i) /\ Follow3(vals, i, u, v, w)
      BY <1>1, <1>2, <1>4, <2>1 DEF Aligned8, Follow3, w
    <2>4. Taken8(a, r) = Octet(vals, L)
      BY <1>1, <1>6, <2>1, <2>3, NextByte
    <2>5. t = [acc |-> a, bits |-> r, out |-> new]
      BY <1>3, <1>9, <2>2, <2>4 DEF r
    <2>6. Octet(vals, L) \in Nat
      <3>1. Octet(vals, L) \in 0..255
        BY <1>1, <2>2, OctetBits DEF BitsOfOctet
      <3> QED BY <3>1
    <2>7. /\ new \in Seq(Nat) /\ Len(new) = L + 1
          /\ \A m \in 1..L : new[m] = out[m]
          /\ new[L + 1] = Octet(vals, L)
      BY <1>1, <2>6, AppendProperties DEF L
    <2> HIDE DEF new
    <2>8. ASSUME NEW m \in 1..(L + 1) PROVE new[m] = Octet(vals, m - 1)
      <3>1. CASE m \in 1..L
        BY <3>1, <1>1, <2>7
      <3>2. CASE m = L + 1
        <4>1. m - 1 = L
          BY <3>2, <1>1
        <4> QED BY <4>1, <3>2, <2>7
      <3> QED BY <3>1, <3>2, <1>1
    <2>9. t.acc = a /\ t.bits = r /\ t.out = new
      BY <2>5
    <2>10. t \in [acc : Nat, bits : 0..7, out : Seq(Nat)]
      <3>1. r \in 0..7
        BY <2>1
      <3> QED BY <1>6, <2>5, <2>7, <3>1
    <2>11. 8 * (L + 1) + r = 5 * (i + 1)
      BY <1>1, <2>1
    <2>12. DecState(t, vals, i + 1)
      BY <1>1, <1>6, <1>7, <2>7, <2>8, <2>9, <2>10, <2>11 DEF DecState, w
    <2> QED BY <2>12 DEF t, w
  <1> QED BY <1>8, <1>9

(* What comes of it: SECRET_BYTES bytes, the bits of the characters. *)
IsDecoded(bytes, vals) ==
    /\ bytes \in Seq(Nat) /\ Len(bytes) = SECRET_BYTES
    /\ \A m \in 1..SECRET_BYTES : bytes[m] = Octet(vals, m - 1)

LEMMA DecodeBytes ==
    ASSUME NEW vals, IsVals(vals) PROVE IsDecoded(Decoded(vals), vals)
  <1> DEFINE N == CODE_DATA_CHARS
  <1>0. N \in Nat
    BY SizeAssumption
  <1>1. PICK K : /\ K[0] = Start
                 /\ \A i \in 1..N : K[i] = DecodeChar(K[i - 1], vals[i] - 1)
                 /\ Decoded(vals) = K[N].out
    BY DecodeRun
  <1> DEFINE T == {i \in Nat : i <= N => DecState(K[i], vals, i)}
  <1>2. 0 \in T
    <2>1. Start.acc = 0 /\ Start.bits = 0 /\ Start.out = <<>>
      BY DEF Start
    <2>2. <<>> \in Seq(Nat) /\ Len(<<>>) = 0
      OBVIOUS
    <2>3. Start \in [acc : Nat, bits : 0..7, out : Seq(Nat)]
      BY <2>2 DEF Start
    <2>4. DecState(Start, vals, 0)
      BY <2>1, <2>2, <2>3 DEF DecState
    <2> QED BY <1>1, <2>4
  <1>3. ASSUME NEW i \in Nat, i \in T PROVE i + 1 \in T
    <2> SUFFICES ASSUME i + 1 <= N PROVE DecState(K[i + 1], vals, i + 1)
      OBVIOUS
    <2>1. i < N /\ i <= N /\ i + 1 \in 1..N /\ (i + 1) - 1 = i
      BY <1>0
    <2>2. DecState(K[i], vals, i)
      BY <1>3, <2>1
    <2>3. DecState(DecodeChar(K[i], vals[i + 1] - 1), vals, i + 1)
      BY <2>1, <2>2, DecodeStep
    <2> QED BY <1>1, <2>1, <2>3
  <1> HIDE DEF T
  <1>4. N \in T
    BY <1>0, <1>2, <1>3, SetInduction
  <1>5. DecState(K[N], vals, N)
    BY <1>0, <1>4 DEF T
  <1> DEFINE out == K[N].out
             b == K[N].bits
             L == Len(out)
  <1>6. /\ out \in Seq(Nat) /\ L \in Nat /\ b \in 0..7 /\ 8 * L + b = 5 * N
        /\ \A m \in 1..L : out[m] = Octet(vals, m - 1)
    BY <1>5, LenProperties DEF DecState
  <1> HIDE DEF out, b, L
  <1>7. L = SECRET_BYTES
    BY <1>6, SizeAssumption
  <1>8. IsDecoded(out, vals)
    BY <1>6, <1>7 DEF IsDecoded, L
  <1> QED BY <1>1, <1>8 DEF out

-----------------------------------------------------------------------------
(* Codes read back *)

(* Whatever is typed reads as positions in the alphabet. *)
LEMMA PositionsType ==
    ASSUME NEW code \in Seq(Nat) PROVE Positions(code) \in Seq(0..32)
  <1> DEFINE N == Len(code)
  <1>0. N \in Nat
    BY LenProperties
  <1>1. PICK K : /\ K[0] = <<>>
                 /\ \A i \in 1..N : K[i] = ReadChar(K[i - 1], code[i])
                 /\ Positions(code) = K[N]
    BY <1>0, ReadRun
  <1> HIDE DEF N
  <1> DEFINE T == {i \in Nat : i <= N => K[i] \in Seq(0..32)}
  <1>2. 0 \in T
    <2>1. <<>> \in Seq(0..32)
      OBVIOUS
    <2> QED BY <1>1, <2>1
  <1>3. ASSUME NEW i \in Nat, i \in T PROVE i + 1 \in T
    <2> SUFFICES ASSUME i + 1 <= N PROVE K[i + 1] \in Seq(0..32)
      OBVIOUS
    <2>1. i <= N /\ i + 1 \in 1..N /\ (i + 1) - 1 = i
      BY <1>0
    <2>2. K[i] \in Seq(0..32)
      BY <1>3, <2>1
    <2>3. K[i + 1] = ReadChar(K[i], code[i + 1])
      BY <1>1, <2>1
    <2> DEFINE x == Position(code[i + 1])
    <2>4. x \in 0..32
      BY PositionRange
    <2>5. Append(K[i], x) \in Seq(0..32)
      <3> HIDE DEF x
      <3> QED BY <2>2, <2>4, AppendProperties
    <2> QED BY <2>2, <2>3, <2>5 DEF ReadChar
  <1> HIDE DEF T
  <1>4. N \in T
    BY <1>0, <1>2, <1>3, SetInduction
  <1> QED BY <1>0, <1>1, <1>4 DEF T

IsCheck(check, e) ==
    /\ e \in [1..CODE_CHECK_CHARS -> 0..31]
    /\ check = [i \in 1..CODE_CHECK_CHARS |-> Char(e[i])]

(* vals is how the code of bytes with check group e reads *)
CodeVals(vals, bytes, e) ==
    /\ vals \in Seq(Nat) /\ Len(vals) = CODE_DATA_CHARS + CODE_CHECK_CHARS
    /\ \A j \in 1..CODE_DATA_CHARS : vals[j] = Quintet(bytes, j - 1) + 1
    /\ \A j \in 1..CODE_CHECK_CHARS : vals[CODE_DATA_CHARS + j] = e[j] + 1

LEMMA CodeReading ==
    ASSUME NEW bytes, IsBytes(bytes), Len(bytes) = SECRET_BYTES,
           NEW e, IsCheck(CheckGroup(bytes), e)
    PROVE  CodeVals(Positions(encode_code(bytes)), bytes, e)
  <1> DEFINE N == CODE_DATA_CHARS
             C == CODE_CHECK_CHARS
             data == encode_base32(bytes, N)
             check == CheckGroup(bytes)
             all == data \o check
             vals == Positions(Grouped(all))
  <1>0. N \in Nat /\ C \in Nat /\ N > 0 /\ 5 * (N - 1) < 8 * Len(bytes)
    BY SizeAssumption
  <1>1. /\ data \in Seq(Nat) /\ Len(data) = N
        /\ \A j \in 1..N : data[j] = Char(Quintet(bytes, j - 1))
    <2>1. IsCode(data, bytes, N)
      BY <1>0, EncodeChars
    <2> QED BY <2>1 DEF IsCode
  <1>2. e \in [1..C -> 0..31] /\ check = [i \in 1..C |-> Char(e[i])]
    BY DEF IsCheck
  <1> HIDE DEF data, check
  <1>3. check \in Seq(Nat) /\ Len(check) = C
    <2>1. ASSUME NEW i \in 1..C PROVE Char(e[i]) \in Nat
      <3>1. e[i] \in 0..31
        BY <1>2
      <3> QED BY <3>1, Alphabet
    <2>2. check \in [1..C -> Nat]
      BY <1>2, <2>1
    <2> QED BY <1>0, <2>2, LenProperties
  <1>4. /\ all \in Seq(Nat) /\ Len(all) = N + C
        /\ \A j \in 1..(N + C) : all[j] = IF j <= N THEN data[j] ELSE check[j - N]
    BY <1>0, <1>1, <1>3, ConcatProperties
  <1> HIDE DEF all
  <1>5. ASSUME NEW j \in 1..N
        PROVE  j \in 1..(N + C) /\ all[j] \notin {Dash, Space}
               /\ Position(all[j]) = Quintet(bytes, j - 1) + 1
    <2>1. j \in 1..(N + C) /\ j <= N /\ j - 1 \in Nat
      BY <1>0
    <2>2. all[j] = Char(Quintet(bytes, j - 1))
      BY <1>1, <1>4, <2>1
    <2>3. Quintet(bytes, j - 1) \in 0..31
      BY <2>1, QuintetBits DEF BitsOfChar
    <2> QED BY <2>1, <2>2, <2>3, PositionOfChar
  <1>6. ASSUME NEW j \in 1..C
        PROVE  N + j \in 1..(N + C) /\ all[N + j] \notin {Dash, Space}
               /\ Position(all[N + j]) = e[j] + 1
    <2>1. N + j \in 1..(N + C) /\ ~(N + j <= N) /\ (N + j) - N = j
      BY <1>0
    <2>2. all[N + j] = check[j]
      BY <1>4, <2>1
    <2>3. e[j] \in 0..31 /\ check[j] = Char(e[j])
      BY <1>2
    <2> QED BY <2>1, <2>2, <2>3, PositionOfChar
  <1>7. ASSUME NEW j \in 1..(N + C) PROVE all[j] \notin {Dash, Space}
    <2>1. CASE j \in 1..N
      BY <2>1, <1>5
    <2>2. CASE j \notin 1..N
      <3>1. j - N \in 1..C /\ N + (j - N) = j
        BY <1>0, <2>2
      <3>2. all[N + (j - N)] \notin {Dash, Space}
        BY <3>1, <1>6
      <3> QED BY <3>1, <3>2
    <2> QED BY <2>1, <2>2
  <1>8. N + C \in Nat \ {0}
    BY <1>0
  <1>9. Reads(vals, all, N + C)
    BY <1>4, <1>7, <1>8, ReadGrouped
  <1> HIDE DEF vals
  <1>10. /\ vals \in Seq(Nat) /\ Len(vals) = N + C
         /\ \A j \in 1..(N + C) : vals[j] = Position(all[j])
    BY <1>9 DEF Reads
  <1>11. ASSUME NEW j \in 1..N PROVE vals[j] = Quintet(bytes, j - 1) + 1
    BY <1>5, <1>10
  <1>12. ASSUME NEW j \in 1..C PROVE vals[N + j] = e[j] + 1
    BY <1>6, <1>10
  <1>13. CodeVals(vals, bytes, e)
    BY <1>10, <1>11, <1>12 DEF CodeVals
  <1>14. encode_code(bytes) = Grouped(all)
    BY DEF encode_code, all, data, check
  <1> QED BY <1>13, <1>14 DEF vals

(* The bits of the characters are the bits of the bytes. *)
LEMMA CodeBitIs ==
    ASSUME NEW bytes, IsBytes(bytes), NEW vals, NEW e, CodeVals(vals, bytes, e)
    PROVE  /\ IsVals(vals)
           /\ \A t \in Nat : t < 5 * CODE_DATA_CHARS => CodeBit(vals, t) = Bit(bytes, t)
  <1>1. IsVals(vals)
    <2> SUFFICES ASSUME NEW j \in 1..CODE_DATA_CHARS PROVE vals[j] \in 1..32
      BY DEF IsVals
    <2> DEFINE x == Quintet(bytes, j - 1)
    <2>1. vals[j] = x + 1
      BY DEF CodeVals
    <2>2. x \in 0..31
      <3>1. j - 1 \in Nat
        BY SizeAssumption
      <3> QED BY <3>1, QuintetBits DEF BitsOfChar
    <2> HIDE DEF x
    <2> QED BY <2>1, <2>2
  <1>2. ASSUME NEW t \in Nat, t < 5 * CODE_DATA_CHARS PROVE CodeBit(vals, t) = Bit(bytes, t)
    <2> DEFINE j == t \div 5
               q == t % 5
               x == Quintet(bytes, j)
    <2>1. j \in Nat /\ j < CODE_DATA_CHARS /\ q \in 0..4 /\ t = 5 * j + q
          /\ j + 1 \in 1..CODE_DATA_CHARS /\ (j + 1) - 1 = j
      BY <1>2, SizeAssumption
    <2> HIDE DEF j, q
    <2>2. BitsOfVal(vals, j)
      BY <1>1, <2>1, ValBits
    <2>3. BitsOfChar(bytes, j)
      BY <2>1, QuintetBits
    <2>4. vals[j + 1] = x + 1
      BY <2>1 DEF CodeVals
    <2>5. x \in 0..31
      BY <2>3 DEF BitsOfChar
    <2>6. vals[j + 1] - 1 = x
      <3> HIDE DEF x
      <3> QED BY <2>4, <2>5
    <2>7. \/ t = 5 * j \/ t = 5 * j + 1 \/ t = 5 * j + 2 \/ t = 5 * j + 3 \/ t = 5 * j + 4
      BY <2>1
    <2>8. /\ CodeBit(vals, 5 * j) = Bit(bytes, 5 * j)
          /\ CodeBit(vals, 5 * j + 1) = Bit(bytes, 5 * j + 1)
          /\ CodeBit(vals, 5 * j + 2) = Bit(bytes, 5 * j + 2)
          /\ CodeBit(vals, 5 * j + 3) = Bit(bytes, 5 * j + 3)
          /\ CodeBit(vals, 5 * j + 4) = Bit(bytes, 5 * j + 4)
      BY <2>2, <2>3, <2>6 DEF BitsOfVal, BitsOfChar
    <2> QED BY <2>7, <2>8
  <1> QED BY <1>1, <1>2

(* Decoding the characters of bytes gives the bytes. *)
LEMMA DecodeInverts ==
    ASSUME NEW bytes, IsBytes(bytes), Len(bytes) = SECRET_BYTES,
           NEW vals, NEW e, CodeVals(vals, bytes, e)
    PROVE  Decoded(vals) = bytes
  <1> DEFINE S == SECRET_BYTES
             out == Decoded(vals)
  <1>0. S \in Nat /\ bytes \in [1..S -> 0..255]
    BY SizeAssumption DEF IsBytes
  <1>1. IsVals(vals) /\ \A t \in Nat : t < 5 * CODE_DATA_CHARS => CodeBit(vals, t) = Bit(bytes, t)
    BY CodeBitIs
  <1>2. out \in Seq(Nat) /\ Len(out) = S /\ \A m \in 1..S : out[m] = Octet(vals, m - 1)
    BY <1>1, DecodeBytes DEF IsDecoded
  <1> HIDE DEF out
  <1>3. ASSUME NEW n \in 1..S PROVE out[n] = bytes[n]
    <2> DEFINE m == n - 1
    <2>1. m \in Nat /\ m < Len(bytes) /\ m + 1 = n
      BY <1>0
    <2> HIDE DEF m
    <2>2. BitsOfByte(bytes, m)
      BY <2>1, Bits
    <2>3. ASSUME NEW q \in 0..7 PROVE CodeBit(vals, 8 * m + q) = Bit(bytes, 8 * m + q)
      <3>1. 8 * m + q \in Nat /\ 8 * m + q < 5 * CODE_DATA_CHARS
        BY <2>1, SizeAssumption
      <3> QED BY <3>1, <1>1
    <2>4. 8 * m = 8 * m + 0
      BY <2>1
    <2> DEFINE x == bytes[m + 1]
    <2>5. Octet(vals, m)
            = Sum8(D(x, 128), D(x, 64), D(x, 32), D(x, 16), D(x, 8), D(x, 4), D(x, 2), D(x, 1))
      <3>1. /\ CodeBit(vals, 8 * m) = D(x, 128) /\ CodeBit(vals, 8 * m + 1) = D(x, 64)
            /\ CodeBit(vals, 8 * m + 2) = D(x, 32) /\ CodeBit(vals, 8 * m + 3) = D(x, 16)
            /\ CodeBit(vals, 8 * m + 4) = D(x, 8) /\ CodeBit(vals, 8 * m + 5) = D(x, 4)
            /\ CodeBit(vals, 8 * m + 6) = D(x, 2) /\ CodeBit(vals, 8 * m + 7) = D(x, 1)
        BY <2>2, <2>3, <2>4 DEF BitsOfByte
      <3> QED BY <3>1 DEF Octet
    <2>6. x \in 0..255
      BY <2>2 DEF BitsOfByte
    <2> HIDE DEF x
    <2>7. x = Sum8(D(x, 128), D(x, 64), D(x, 32), D(x, 16), D(x, 8), D(x, 4), D(x, 2), D(x, 1))
      BY <2>6, Digits DEF Sum8
    <2>8. out[n] = Octet(vals, m)
      BY <1>2, <2>1 DEF m
    <2> QED BY <2>1, <2>5, <2>7, <2>8 DEF x
  <1>4. out = bytes
    BY <1>0, <1>2, <1>3
  <1> QED BY <1>4 DEF out

(* decode_code after its first loop *)
DecodeVals(vals) ==
    LET bytes == Decoded(vals)
        got   == [i \in 1..CODE_CHECK_CHARS |-> CROCKFORD[vals[CODE_DATA_CHARS + i]]]
    IN  IF \/ \E i \in DOMAIN vals : vals[i] = 0
           \/ Len(vals) # CODE_DATA_CHARS + CODE_CHECK_CHARS
           \/ Len(bytes) # SECRET_BYTES
           \/ got # CheckGroup(bytes)
        THEN None ELSE bytes

LEMMA DecodeOfVals ==
    ASSUME NEW code PROVE decode_code(code) = DecodeVals(Positions(code))
  BY DEF decode_code, DecodeVals

LEMMA FunctionIsBytes ==
    ASSUME NEW n \in Nat, NEW f \in [1..n -> 0..255]
    PROVE  IsBytes(f) /\ Len(f) = n
  <1>1. f \in Seq(0..255) /\ Len(f) = n
    OBVIOUS
  <1> QED BY <1>1 DEF IsBytes

LEMMA SecretIsBytes ==
    ASSUME NEW s \in Secrets
    PROVE  IsBytes(s) /\ Len(s) = SECRET_BYTES /\ IsBytes(Digest(s)) /\ Len(Digest(s)) = 3
  <1>1. s \in [1..SECRET_BYTES -> 0..255] /\ Digest(s) \in [1..3 -> 0..255]
    BY SecretAssumption
  <1>2. SECRET_BYTES \in Nat /\ 3 \in Nat
    BY SizeAssumption
  <1> QED BY <1>1, <1>2, FunctionIsBytes

LEMMA SecretCode ==
    ASSUME NEW s \in Secrets
    PROVE  \E e : IsCheck(CheckGroup(s), e) /\ CodeVals(Positions(encode_code(s)), s, e)
  <1> DEFINE C == CODE_CHECK_CHARS
             d == Digest(s)
             check == CheckGroup(s)
             e == [i \in 1..C |-> Quintet(d, i - 1)]
  <1>0. IsBytes(s) /\ Len(s) = SECRET_BYTES /\ IsBytes(d) /\ Len(d) = 3
    BY SecretIsBytes
  <1>1. C \in Nat /\ 5 * (C - 1) < 8 * Len(d)
    BY <1>0, SizeAssumption
  <1>2. check = encode_base32(d, C)
    BY DEF CheckGroup
  <1> HIDE DEF d
  <1>3. IsCode(check, d, C)
    BY <1>0, <1>1, <1>2, EncodeChars
  <1> HIDE DEF check
  <1>4. ASSUME NEW i \in 1..C PROVE e[i] = Quintet(d, i - 1) /\ e[i] \in 0..31
    <2>1. i - 1 \in Nat
      BY <1>1
    <2> QED BY <1>0, <2>1, QuintetBits DEF BitsOfChar
  <1>5. e \in [1..C -> 0..31]
    BY <1>4
  <1>6. check = [i \in 1..C |-> Char(e[i])]
    <2>1. check \in Seq(Nat) /\ Len(check) = C
          /\ \A j \in 1..C : check[j] = Char(Quintet(d, j - 1))
      BY <1>3 DEF IsCode
    <2>2. check = [i \in 1..C |-> check[i]]
      BY <2>1
    <2>3. ASSUME NEW i \in 1..C PROVE check[i] = Char(e[i])
      BY <2>1, <1>4
    <2> HIDE DEF e
    <2> QED BY <2>2, <2>3
  <1> HIDE DEF e
  <1>7. IsCheck(check, e)
    BY <1>5, <1>6 DEF IsCheck
  <1>8. CodeVals(Positions(encode_code(s)), s, e)
    BY <1>0, <1>7, CodeReading DEF check
  <1> QED BY <1>7, <1>8 DEF check

LEMMA DecodesItsCode ==
    ASSUME NEW s \in Secrets
    PROVE  DecodeVals(Positions(encode_code(s))) = s
  <1> DEFINE vals == Positions(encode_code(s))
             N == CODE_DATA_CHARS
             C == CODE_CHECK_CHARS
             got == [i \in 1..C |-> CROCKFORD[vals[N + i]]]
  <1>0. IsBytes(s) /\ Len(s) = SECRET_BYTES
    BY SecretIsBytes
  <1>1. PICK e : IsCheck(CheckGroup(s), e) /\ CodeVals(vals, s, e)
    BY SecretCode
  <1> HIDE DEF vals
  <1>2. Decoded(vals) = s
    BY <1>0, <1>1, DecodeInverts
  <1>3. /\ N \in Nat /\ C \in Nat
        /\ e \in [1..C -> 0..31] /\ CheckGroup(s) = [i \in 1..C |-> Char(e[i])]
        /\ vals \in Seq(Nat) /\ Len(vals) = N + C
        /\ \A j \in 1..C : vals[N + j] = e[j] + 1
    BY <1>1, SizeAssumption DEF IsCheck, CodeVals
  <1>4. got = CheckGroup(s)
    <2>1. ASSUME NEW i \in 1..C PROVE CROCKFORD[vals[N + i]] = Char(e[i])
      BY <1>3 DEF Char
    <2> QED BY <1>3, <2>1
  <1>5. ASSUME NEW i \in DOMAIN vals PROVE vals[i] # 0
    <2>0. i \in 1..(N + C)
      BY <1>3
    <2>1. CASE i \in 1..N
      <3>1. IsVals(vals)
        BY <1>0, <1>1, CodeBitIs
      <3>2. vals[i] \in 1..32
        BY <2>1, <3>1 DEF IsVals
      <3> QED BY <3>2
    <2>2. CASE i \notin 1..N
      <3>1. i - N \in 1..C /\ N + (i - N) = i
        BY <1>3, <2>0, <2>2
      <3>2. vals[N + (i - N)] = e[i - N] + 1 /\ e[i - N] \in 0..31
        BY <1>3, <3>1
      <3> QED BY <3>1, <3>2
    <2> QED BY <2>1, <2>2
  <1>6. DecodeVals(vals) = s
    BY <1>0, <1>2, <1>3, <1>4, <1>5 DEF DecodeVals
  <1> QED BY <1>6 DEF vals

(* The bits of what is decoded are those of the characters. *)
LEMMA DecodedBit ==
    ASSUME NEW vals, IsVals(vals)
    PROVE  LET bytes == Decoded(vals)
           IN  /\ IsBytes(bytes) /\ Len(bytes) = SECRET_BYTES
               /\ \A t \in Nat : t < 8 * SECRET_BYTES => Bit(bytes, t) = CodeBit(vals, t)
  <1> DEFINE S == SECRET_BYTES
             bytes == Decoded(vals)
  <1>0. S \in Nat
    BY SizeAssumption
  <1>1. bytes \in Seq(Nat) /\ Len(bytes) = S /\ \A m \in 1..S : bytes[m] = Octet(vals, m - 1)
    BY DecodeBytes DEF IsDecoded
  <1> HIDE DEF bytes
  <1>2. ASSUME NEW n \in 1..S
        PROVE  n - 1 \in Nat /\ n - 1 < S /\ BitsOfOctet(vals, n - 1) /\ bytes[n] \in 0..255
    <2>1. n - 1 \in Nat /\ n - 1 < S
      BY <1>0
    <2>2. BitsOfOctet(vals, n - 1)
      BY <2>1, OctetBits
    <2>3. Octet(vals, n - 1) \in 0..255
      BY <2>2 DEF BitsOfOctet
    <2> QED BY <1>1, <2>1, <2>2, <2>3
  <1>3. IsBytes(bytes)
    <2>1. bytes \in [1..S -> 0..255]
      <3>1. bytes \in [1..S -> Nat]
        BY <1>1, LenProperties
      <3> QED BY <1>2, <3>1
    <2> QED BY <1>0, <1>1, <2>1 DEF IsBytes
  <1>4. ASSUME NEW t \in Nat, t < 8 * S PROVE Bit(bytes, t) = CodeBit(vals, t)
    <2> DEFINE m == t \div 8
               q == t % 8
    <2>1. m \in Nat /\ m < S /\ q \in 0..7 /\ t = 8 * m + q /\ m + 1 \in 1..S /\ (m + 1) - 1 = m
      BY <1>0, <1>4
    <2> HIDE DEF m, q
    <2>2. BitsOfByte(bytes, m)
      BY <1>1, <1>3, <2>1, Bits
    <2>3. BitsOfOctet(vals, m)
      BY <2>1, OctetBits
    <2>4. bytes[m + 1] = Octet(vals, m)
      BY <1>1, <2>1
    <2>5. \/ t = 8 * m \/ t = 8 * m + 1 \/ t = 8 * m + 2 \/ t = 8 * m + 3
          \/ t = 8 * m + 4 \/ t = 8 * m + 5 \/ t = 8 * m + 6 \/ t = 8 * m + 7
      BY <2>1
    <2>6. /\ Bit(bytes, 8 * m) = CodeBit(vals, 8 * m)
          /\ Bit(bytes, 8 * m + 1) = CodeBit(vals, 8 * m + 1)
          /\ Bit(bytes, 8 * m + 2) = CodeBit(vals, 8 * m + 2)
          /\ Bit(bytes, 8 * m + 3) = CodeBit(vals, 8 * m + 3)
          /\ Bit(bytes, 8 * m + 4) = CodeBit(vals, 8 * m + 4)
          /\ Bit(bytes, 8 * m + 5) = CodeBit(vals, 8 * m + 5)
          /\ Bit(bytes, 8 * m + 6) = CodeBit(vals, 8 * m + 6)
          /\ Bit(bytes, 8 * m + 7) = CodeBit(vals, 8 * m + 7)
      BY <2>2, <2>3, <2>4 DEF BitsOfByte, BitsOfOctet
    <2> QED BY <2>5, <2>6
  <1> QED BY <1>1, <1>3, <1>4 DEF bytes

(* Characters with the same first digits. *)
LEMMA SameDigits ==
    ASSUME NEW x \in 0..31, NEW y \in 0..31, NEW p \in 0..4,
           D(x, 16) = D(y, 16),
           p <= 3 => D(x, 8) = D(y, 8),
           p <= 2 => D(x, 4) = D(y, 4),
           p <= 1 => D(x, 2) = D(y, 2),
           p <= 0 => D(x, 1) = D(y, 1)
    PROVE  x \div 2^p = y \div 2^p
  <1>0. x \div 1 = x /\ y \div 1 = y
    OBVIOUS
  <1>1. CASE p = 0
    <2>1. 2^p = 1
      BY <1>1, Pow2
    <2>2. x = y
      BY <1>1, <1>0 DEF D
    <2> QED BY <2>2
  <1>2. CASE p = 1
    <2>1. 2^p = 2
      BY <1>2, Pow2
    <2>2. x \div 2 = y \div 2
      BY <1>2 DEF D
    <2> QED BY <2>1, <2>2
  <1>3. CASE p = 2
    <2>1. 2^p = 4
      BY <1>3, Pow2
    <2>2. x \div 4 = y \div 4
      BY <1>3 DEF D
    <2> QED BY <2>1, <2>2
  <1>4. CASE p = 3
    <2>1. 2^p = 8
      BY <1>4, Pow2
    <2>2. x \div 8 = y \div 8
      BY <1>4 DEF D
    <2> QED BY <2>1, <2>2
  <1>5. CASE p = 4
    <2>1. 2^p = 16
      BY <1>5, Pow2
    <2>2. x \div 16 = y \div 16
      BY <1>5 DEF D
    <2> QED BY <2>1, <2>2
  <1> QED BY <1>1, <1>2, <1>3, <1>4, <1>5

(* read and code agree, but for the unused bits of the last data character *)
Agree(read, code) ==
    /\ Len(read) = Len(code)
    /\ \A i \in DOMAIN read :
         \/ read[i] = code[i]
         \/ i = CODE_DATA_CHARS /\ (read[i] - 1) \div 2^PadBits = (code[i] - 1) \div 2^PadBits

(* Characters that decode to bytes are the characters of these bytes. *)
LEMMA Unique ==
    ASSUME NEW read, IsVals(read), read \in Seq(0..32),
           Len(read) = CODE_DATA_CHARS + CODE_CHECK_CHARS,
           NEW e, NEW code, CodeVals(code, Decoded(read), e),
           \A j \in 1..CODE_CHECK_CHARS : read[CODE_DATA_CHARS + j] = e[j] + 1
    PROVE  Agree(read, code)
  <1> DEFINE N == CODE_DATA_CHARS
             C == CODE_CHECK_CHARS
             bytes == Decoded(read)
  <1>0. N \in Nat /\ C \in Nat /\ N > 0 /\ 5 * N = 8 * SECRET_BYTES + PadBits /\ PadBits \in 0..4
        /\ SECRET_BYTES \in Nat
    BY SizeAssumption DEF PadBits
  <1>1. IsBytes(bytes) /\ \A t \in Nat : t < 8 * SECRET_BYTES => Bit(bytes, t) = CodeBit(read, t)
    BY DecodedBit
  <1> HIDE DEF bytes
  <1>2. IsVals(code) /\ \A t \in Nat : t < 5 * N => CodeBit(code, t) = Bit(bytes, t)
    BY <1>1, CodeBitIs DEF bytes
  <1>3. ASSUME NEW t \in Nat, t < 8 * SECRET_BYTES PROVE CodeBit(read, t) = CodeBit(code, t)
    <2>1. t < 5 * N
      BY <1>0, <1>3
    <2> QED BY <1>1, <1>2, <1>3, <2>1
  <1>4. ASSUME NEW j \in Nat, j < N
        PROVE  LET x == read[j + 1] - 1
                   y == code[j + 1] - 1
               IN  /\ x \in 0..31 /\ y \in 0..31
                   /\ 5 * j < 8 * SECRET_BYTES => D(x, 16) = D(y, 16)
                   /\ 5 * j + 1 < 8 * SECRET_BYTES => D(x, 8) = D(y, 8)
                   /\ 5 * j + 2 < 8 * SECRET_BYTES => D(x, 4) = D(y, 4)
                   /\ 5 * j + 3 < 8 * SECRET_BYTES => D(x, 2) = D(y, 2)
                   /\ 5 * j + 4 < 8 * SECRET_BYTES => D(x, 1) = D(y, 1)
    <2>1. BitsOfVal(read, j) /\ BitsOfVal(code, j)
      BY <1>2, <1>4, ValBits
    <2>2. 5 * j \in Nat /\ 5 * j + 1 \in Nat /\ 5 * j + 2 \in Nat /\ 5 * j + 3 \in Nat
          /\ 5 * j + 4 \in Nat
      OBVIOUS
    <2>3. /\ 5 * j < 8 * SECRET_BYTES => CodeBit(read, 5 * j) = CodeBit(code, 5 * j)
          /\ 5 * j + 1 < 8 * SECRET_BYTES => CodeBit(read, 5 * j + 1) = CodeBit(code, 5 * j + 1)
          /\ 5 * j + 2 < 8 * SECRET_BYTES => CodeBit(read, 5 * j + 2) = CodeBit(code, 5 * j + 2)
          /\ 5 * j + 3 < 8 * SECRET_BYTES => CodeBit(read, 5 * j + 3) = CodeBit(code, 5 * j + 3)
          /\ 5 * j + 4 < 8 * SECRET_BYTES => CodeBit(read, 5 * j + 4) = CodeBit(code, 5 * j + 4)
      BY <1>3, <2>2
    <2> QED BY <2>1, <2>3 DEF BitsOfVal
  <1>5. ASSUME NEW i \in 1..N
        PROVE  \/ read[i] = code[i]
               \/ i = N /\ (read[i] - 1) \div 2^PadBits = (code[i] - 1) \div 2^PadBits
    <2> DEFINE j == i - 1
               x == read[i] - 1
               y == code[i] - 1
    <2>0. j \in Nat /\ j < N /\ j + 1 = i
      BY <1>0
    <2> HIDE DEF j
    <2>1. /\ x \in 0..31 /\ y \in 0..31
          /\ 5 * j < 8 * SECRET_BYTES => D(x, 16) = D(y, 16)
          /\ 5 * j + 1 < 8 * SECRET_BYTES => D(x, 8) = D(y, 8)
          /\ 5 * j + 2 < 8 * SECRET_BYTES => D(x, 4) = D(y, 4)
          /\ 5 * j + 3 < 8 * SECRET_BYTES => D(x, 2) = D(y, 2)
          /\ 5 * j + 4 < 8 * SECRET_BYTES => D(x, 1) = D(y, 1)
      BY <1>4, <2>0
    <2>2. read[i] \in 1..32 /\ code[i] \in 1..32
      BY <1>2 DEF IsVals
    <2>3. CASE i < N
      <3>1. /\ 5 * j < 8 * SECRET_BYTES /\ 5 * j + 1 < 8 * SECRET_BYTES
            /\ 5 * j + 2 < 8 * SECRET_BYTES /\ 5 * j + 3 < 8 * SECRET_BYTES
            /\ 5 * j + 4 < 8 * SECRET_BYTES
        BY <1>0, <2>0, <2>3
      <3>2. x = y
        <4> HIDE DEF x, y
        <4> QED BY <2>1, <3>1, Digits5
      <3> DEFINE a == read[i]
                 b == code[i]
      <3>3. a \in 1..32 /\ b \in 1..32 /\ a - 1 = b - 1
        BY <2>2, <3>2
      <3> HIDE DEF a, b
      <3>4. a = b
        BY <3>3
      <3> QED BY <3>4 DEF a, b
    <2>4. CASE i = N
      <3>1. /\ 5 * j < 8 * SECRET_BYTES
            /\ PadBits <= 3 => 5 * j + 1 < 8 * SECRET_BYTES
            /\ PadBits <= 2 => 5 * j + 2 < 8 * SECRET_BYTES
            /\ PadBits <= 1 => 5 * j + 3 < 8 * SECRET_BYTES
            /\ PadBits <= 0 => 5 * j + 4 < 8 * SECRET_BYTES
        BY <1>0, <2>0, <2>4
      <3>2. x \div 2^PadBits = y \div 2^PadBits
        <4> DEFINE p == PadBits
        <4>1. /\ p \in 0..4 /\ D(x, 16) = D(y, 16)
              /\ p <= 3 => D(x, 8) = D(y, 8)
              /\ p <= 2 => D(x, 4) = D(y, 4)
              /\ p <= 1 => D(x, 2) = D(y, 2)
              /\ p <= 0 => D(x, 1) = D(y, 1)
          BY <1>0, <2>1, <3>1
        <4> HIDE DEF x, y, p
        <4>2. x \div 2^p = y \div 2^p
          BY <2>1, <4>1, SameDigits
        <4> QED BY <4>2 DEF p
      <3> QED BY <2>4, <3>2
    <2> QED BY <1>0, <2>3, <2>4
  <1>6. ASSUME NEW i \in 1..(N + C), i \notin 1..N PROVE read[i] = code[i]
    <2>1. i - N \in 1..C /\ N + (i - N) = i
      BY <1>0, <1>6
    <2>2. read[N + (i - N)] = e[i - N] + 1 /\ code[N + (i - N)] = e[i - N] + 1
      BY <2>1 DEF CodeVals
    <2> QED BY <2>1, <2>2
  <1>7. Len(code) = N + C /\ DOMAIN read = 1..(N + C)
    BY LenProperties DEF CodeVals
  <1> QED BY <1>5, <1>6, <1>7 DEF Agree

LEMMA AcceptedAgrees ==
    ASSUME NEW typing \in Seq(Nat), NEW bytes, bytes = decode_code(typing), bytes # None
    PROVE  Agree(Positions(typing), Positions(encode_code(bytes)))
  <1> DEFINE N == CODE_DATA_CHARS
             C == CODE_CHECK_CHARS
             read == Positions(typing)
             e == [i \in 1..C |-> read[N + i] - 1]
  <1>0. N \in Nat /\ C \in Nat
    BY SizeAssumption
  <1>1. read \in Seq(0..32)
    BY PositionsType
  <1> HIDE DEF read
  <1>2. bytes = DecodeVals(read)
    BY DecodeOfVals DEF read
  <1>3. /\ \A i \in DOMAIN read : read[i] # 0
        /\ Len(read) = N + C
        /\ bytes = Decoded(read)
        /\ CheckGroup(bytes) = [i \in 1..C |-> CROCKFORD[read[N + i]]]
    BY <1>2 DEF DecodeVals
  <1>4. ASSUME NEW i \in 1..(N + C) PROVE read[i] \in 1..32
    <2>1. i \in DOMAIN read /\ read[i] \in 0..32
      BY <1>0, <1>1, <1>3, LenProperties
    <2>2. read[i] # 0
      BY <1>3, <2>1
    <2> DEFINE x == read[i]
    <2> HIDE DEF x
    <2>3. x \in 0..32 /\ x # 0
      BY <2>1, <2>2 DEF x
    <2>4. x \in 1..32
      BY <2>3
    <2> QED BY <2>4 DEF x
  <1>5. IsVals(read)
    <2> SUFFICES ASSUME NEW j \in 1..N PROVE read[j] \in 1..32
      BY DEF IsVals
    <2>1. j \in 1..(N + C)
      BY <1>0
    <2> QED BY <1>4, <2>1
  <1>6. ASSUME NEW i \in 1..C
        PROVE  e[i] \in 0..31 /\ read[N + i] = e[i] + 1 /\ Char(e[i]) = CROCKFORD[read[N + i]]
    <2>1. N + i \in 1..(N + C)
      BY <1>0
    <2>2. read[N + i] \in 1..32
      BY <1>4, <2>1
    <2>3. e[i] = read[N + i] - 1
      OBVIOUS
    <2> HIDE DEF e
    <2>4. e[i] \in 0..31 /\ read[N + i] = e[i] + 1
      <3> DEFINE x == read[N + i]
                 y == e[i]
      <3>1. x \in 1..32 /\ y = x - 1
        BY <2>2, <2>3
      <3> HIDE DEF x, y
      <3>2. y \in 0..31 /\ x = y + 1
        BY <3>1
      <3> QED BY <3>2 DEF x, y
    <2> QED BY <2>4 DEF Char
  <1>7. IsCheck(CheckGroup(bytes), e)
    <2>1. e \in [1..C -> 0..31]
      BY <1>6
    <2> HIDE DEF e
    <2> QED BY <1>3, <1>6, <2>1 DEF IsCheck
  <1>8. IsBytes(bytes) /\ Len(bytes) = SECRET_BYTES
    BY <1>3, <1>5, DecodedBit
  <1> HIDE DEF e
  <1>9. CodeVals(Positions(encode_code(bytes)), bytes, e)
    BY <1>7, <1>8, CodeReading
  <1>10. Agree(read, Positions(encode_code(bytes)))
    BY <1>1, <1>3, <1>5, <1>6, <1>9, Unique
  <1> QED BY <1>10 DEF read

-----------------------------------------------------------------------------
(* The invariant: as long as only the spelling was touched, what is typed  *)
(* reads like the code that was written down; and the result is what       *)
(* decode_code makes of it.                                                *)
CodeInv ==
    /\ secret \in Secrets
    /\ typed \in Seq(Nat)
    /\ faulty \in BOOLEAN
    /\ ~faulty => Positions(typed) = Positions(encode_code(secret))
    /\ result # Pending => result = decode_code(typed)

LEMMA GroupedType ==
    ASSUME NEW N \in Nat, NEW chars \in Seq(Nat), Len(chars) = N, N > 0
    PROVE  Grouped(chars) \in Seq(Nat)
  <1> DEFINE M == N + (N - 1) \div 4
  <1>1. M \in Nat
    OBVIOUS
  <1>2. ASSUME NEW i \in 1..M, i % 5 # 0 PROVE i - i \div 5 \in 1..N
    <2> DEFINE q == (N - 1) \div 4
               r == (N - 1) % 4
               f == i \div 5
               g == i % 5
    <2>1. q \in Nat /\ r \in 0..3 /\ N = 4 * q + r + 1 /\ M = N + q
      OBVIOUS
    <2>2. i = 5 * f + g /\ g \in 1..4 /\ f \in Nat /\ i <= M
      BY <1>1, <1>2
    <2> HIDE DEF q, r, f, g, M
    <2>3. 4 * f + g \in 1..N /\ i - f = 4 * f + g
      BY <2>1, <2>2
    <2> QED BY <2>3 DEF f
  <1>3. Grouped(chars) = [i \in 1..M |-> IF i % 5 = 0 THEN Dash ELSE chars[i - i \div 5]]
    BY DEF Grouped
  <1> HIDE DEF M
  <1>4. ASSUME NEW i \in 1..M PROVE (IF i % 5 = 0 THEN Dash ELSE chars[i - i \div 5]) \in Nat
    <2>1. CASE i % 5 = 0
      BY <2>1 DEF Dash
    <2>2. CASE i % 5 # 0
      <3>1. i - i \div 5 \in 1..N
        BY <1>2, <2>2
      <3>2. chars[i - i \div 5] \in Nat
        BY <3>1, ElementOfSeq
      <3> QED BY <2>2, <3>2
    <2> QED BY <2>1, <2>2
  <1>5. [i \in 1..M |-> IF i % 5 = 0 THEN Dash ELSE chars[i - i \div 5]] \in [1..M -> Nat]
    BY <1>4
  <1> DEFINE f == [i \in 1..M |-> IF i % 5 = 0 THEN Dash ELSE chars[i - i \div 5]]
  <1>6. f \in [1..M -> Nat] /\ Grouped(chars) = f
    BY <1>3, <1>5
  <1> HIDE DEF f
  <1>7. f \in Seq(Nat)
    BY <1>1, <1>6
  <1> QED BY <1>6, <1>7

LEMMA CodeType ==
    ASSUME NEW s \in Secrets PROVE encode_code(s) \in Seq(Nat)
  <1> DEFINE data == encode_base32(s, CODE_DATA_CHARS)
             d == Digest(s)
             check == CheckGroup(s)
             all == data \o check
             N == CODE_DATA_CHARS + CODE_CHECK_CHARS
  <1>0. /\ IsBytes(s) /\ Len(s) = SECRET_BYTES /\ IsBytes(d) /\ Len(d) = 3
        /\ CODE_DATA_CHARS \in Nat /\ CODE_CHECK_CHARS \in Nat /\ N \in Nat /\ N > 0
        /\ 5 * (CODE_DATA_CHARS - 1) < 8 * Len(s) /\ 5 * (CODE_CHECK_CHARS - 1) < 8 * Len(d)
    <2>1. IsBytes(s) /\ Len(s) = SECRET_BYTES /\ IsBytes(d) /\ Len(d) = 3
      BY SecretIsBytes
    <2>2. /\ CODE_DATA_CHARS \in Nat /\ CODE_CHECK_CHARS \in Nat /\ N \in Nat /\ N > 0
          /\ 5 * (CODE_DATA_CHARS - 1) < 8 * SECRET_BYTES /\ 5 * (CODE_CHECK_CHARS - 1) < 8 * 3
      BY SizeAssumption
    <2> HIDE DEF d
    <2> QED BY <2>1, <2>2
  <1>1. check = encode_base32(d, CODE_CHECK_CHARS)
    BY DEF CheckGroup
  <1> HIDE DEF d
  <1>2. data \in Seq(Nat) /\ Len(data) = CODE_DATA_CHARS
    BY <1>0, EncodeChars DEF IsCode
  <1>3. check \in Seq(Nat) /\ Len(check) = CODE_CHECK_CHARS
    BY <1>0, <1>1, EncodeChars DEF IsCode
  <1>4. encode_code(s) = Grouped(all)
    BY DEF encode_code
  <1> HIDE DEF data, check
  <1>5. all \in Seq(Nat) /\ Len(all) = N
    BY <1>2, <1>3, ConcatProperties
  <1> HIDE DEF all, N
  <1> QED BY <1>0, <1>4, <1>5, GroupedType

LEMMA CodeInit ==
    Init => CodeInv
  <1> SUFFICES ASSUME Init PROVE CodeInv
    OBVIOUS
  <1>1. secret \in Secrets /\ typed = encode_code(secret) /\ faulty = FALSE /\ result = Pending
    BY DEF Init
  <1>2. typed \in Seq(Nat)
    BY <1>1, CodeType
  <1> QED BY <1>1, <1>2 DEF CodeInv

(* An edit of the spelling keeps the reading, a mistake sets faulty. *)
LEMMA EditKeeps ==
    ASSUME CodeInv, NEW new \in Seq(Nat), NEW fault \in BOOLEAN, Edit(new, fault),
           ~fault => Positions(new) = Positions(typed)
    PROVE  CodeInv'
  <1>1. /\ secret' = secret /\ result' = result /\ result = Pending
        /\ typed' = new /\ faulty' = (faulty \/ fault)
    BY DEF Edit
  <1>2. ~faulty' => Positions(typed') = Positions(encode_code(secret'))
    BY <1>1 DEF CodeInv
  <1>3. faulty' \in BOOLEAN
    BY <1>1, Zenon DEF CodeInv
  <1> QED BY <1>1, <1>2, <1>3 DEF CodeInv

LEMMA RespellKeeps ==
    ASSUME CodeInv, Respell PROVE CodeInv'
  <1>1. typed \in Seq(Nat)
    BY DEF CodeInv
  <1>0. PICK i \in DOMAIN typed : \E c \in Spellings(typed[i]) : Edit(ReplaceAt(typed, i, c), FALSE)
    BY DEF Respell
  <1>2. PICK c \in Spellings(typed[i]) : Edit(ReplaceAt(typed, i, c), FALSE)
    BY <1>0
  <1> DEFINE new == ReplaceAt(typed, i, c)
  <1>3. i \in 1..Len(typed) /\ typed[i] \in Nat /\ DOMAIN typed = 1..Len(typed)
    BY <1>1, LenProperties, ElementOfSeq
  <1>4. c \in Nat /\ \A s : ReadChar(s, c) = ReadChar(s, typed[i])
    BY <1>3, Respelled
  <1>5. new = [typed EXCEPT ![i] = c]
    BY DEF ReplaceAt
  <1>6. new \in Seq(Nat) /\ Len(new) = Len(typed)
        /\ \A j \in 1..Len(typed) : new[j] = IF j = i THEN c ELSE typed[j]
    BY <1>1, <1>3, <1>4, <1>5, ExceptSeq
  <1> HIDE DEF new
  <1>7. Positions(new) = Positions(typed)
    <2>1. \A j \in 1..Len(typed) : \A s : ReadChar(s, new[j]) = ReadChar(s, typed[j])
      BY <1>4, <1>6
    <2> QED BY <1>1, <1>6, <2>1, SameReading
  <1> QED BY <1>2, <1>6, <1>7, EditKeeps DEF new

LEMMA LowercaseKeeps ==
    ASSUME CodeInv, Lowercase PROVE CodeInv'
  <1> DEFINE new == [i \in DOMAIN typed |-> IF typed[i] \in 65..90 THEN typed[i] + 32 ELSE typed[i]]
  <1>1. typed \in Seq(Nat) /\ Edit(new, FALSE)
    BY DEF CodeInv, Lowercase
  <1>2. Len(typed) \in Nat /\ DOMAIN typed = 1..Len(typed)
        /\ \A i \in 1..Len(typed) : typed[i] \in Nat
    BY <1>1, LenProperties, ElementOfSeq
  <1>3. ASSUME NEW i \in 1..Len(typed)
        PROVE  new[i] \in Nat /\ \A s : ReadChar(s, new[i]) = ReadChar(s, typed[i])
    <2>1. CASE typed[i] \in 65..90
      <3>1. typed[i] + 32 \in Spellings(typed[i])
        BY <2>1 DEF Spellings
      <3>2. new[i] = typed[i] + 32
        BY <1>2, <2>1
      <3> HIDE DEF new
      <3> QED BY <1>2, <3>1, <3>2, Respelled
    <2>2. CASE typed[i] \notin 65..90
      <3>1. new[i] = typed[i]
        BY <1>2, <2>2
      <3> HIDE DEF new
      <3> QED BY <1>2, <3>1
    <2> QED BY <2>1, <2>2
  <1>4. DOMAIN new = 1..Len(typed) /\ new = [i \in 1..Len(typed) |-> new[i]]
    BY <1>2
  <1> HIDE DEF new
  <1>5. new \in [1..Len(typed) -> Nat]
    BY <1>3, <1>4
  <1>6. new \in Seq(Nat) /\ Len(new) = Len(typed)
    BY <1>2, <1>5, LenProperties
  <1>7. Positions(new) = Positions(typed)
    BY <1>1, <1>3, <1>6, SameReading
  <1> QED BY <1>1, <1>6, <1>7, EditKeeps

LEMMA SeparateKeeps ==
    ASSUME CodeInv, Separate PROVE CodeInv'
  <1>1. typed \in Seq(Nat) /\ Len(typed) \in Nat /\ DOMAIN typed = 1..Len(typed)
    BY LenProperties DEF CodeInv
  <1>2. CASE \E i \in DOMAIN typed : Edit(InsertAt(typed, i, Space), FALSE)
    <2>1. PICK i \in 1..Len(typed) : Edit(InsertAt(typed, i, Space), FALSE)
      BY <1>1, <1>2
    <2> DEFINE new == InsertAt(typed, i, Space)
    <2>2. new \in Seq(Nat) /\ Inserted(new, typed, i, Space)
      <3>1. Space \in Nat
        BY DEF Space
      <3> QED BY <1>1, <3>1, InsertsOne
    <2>3. i \in 1..(Len(typed) + 1)
      BY <1>1
    <2> HIDE DEF new
    <2>4. Positions(new) = Positions(typed)
      BY <1>1, <2>2, <2>3, SkipReading
    <2> QED BY <2>1, <2>2, <2>4, EditKeeps DEF new
  <1>3. CASE \E i \in DOMAIN typed : typed[i] = Dash /\ Edit(RemoveAt(typed, i), FALSE)
    <2>1. PICK i \in 1..Len(typed) : typed[i] = Dash /\ Edit(RemoveAt(typed, i), FALSE)
      BY <1>1, <1>3
    <2> DEFINE new == RemoveAt(typed, i)
    <2>2. new \in Seq(Nat) /\ Len(new) = Len(typed) - 1 /\ Inserted(typed, new, i, Dash)
      BY <1>1, <2>1, RemovesOne
    <2>3. i \in 1..(Len(new) + 1)
      BY <1>1, <2>2
    <2> HIDE DEF new
    <2>4. Positions(typed) = Positions(new)
      BY <1>1, <2>2, <2>3, SkipReading
    <2> QED BY <2>1, <2>2, <2>4, EditKeeps DEF new
  <1> QED BY <1>2, <1>3 DEF Separate

LEMMA MistypeKeeps ==
    ASSUME CodeInv, Mistype PROVE CodeInv'
  <1>1. typed \in Seq(Nat) /\ Len(typed) \in Nat /\ DOMAIN typed = 1..Len(typed)
    BY LenProperties DEF CodeInv
  <1>2. PICK i \in 1..Len(typed) :
           \/ \E c \in Typos : Edit(ReplaceAt(typed, i, c), TRUE)
           \/ Edit(RemoveAt(typed, i), TRUE)
           \/ Edit(InsertAt(typed, i, typed[i]), TRUE)
           \/ i < Len(typed) /\ Edit([typed EXCEPT ![i] = typed[i + 1], ![i + 1] = typed[i]], TRUE)
    BY <1>1 DEF Mistype
  <1>3. typed[i] \in Nat
    BY <1>1, ElementOfSeq
  <1>4. CASE \E c \in Typos : Edit(ReplaceAt(typed, i, c), TRUE)
    <2>1. PICK c \in Typos : Edit(ReplaceAt(typed, i, c), TRUE)
      BY <1>4
    <2>2. ReplaceAt(typed, i, c) \in Seq(Nat)
      BY <1>1, TyposAssumption, ExceptSeq DEF ReplaceAt
    <2> QED BY <2>1, <2>2, EditKeeps
  <1>5. CASE Edit(RemoveAt(typed, i), TRUE)
    <2>1. RemoveAt(typed, i) \in Seq(Nat)
      BY <1>1, RemovesOne
    <2> QED BY <1>5, <2>1, EditKeeps
  <1>6. CASE Edit(InsertAt(typed, i, typed[i]), TRUE)
    <2>1. InsertAt(typed, i, typed[i]) \in Seq(Nat)
      BY <1>1, <1>3, InsertsOne
    <2> QED BY <1>6, <2>1, EditKeeps
  <1>7. CASE i < Len(typed) /\ Edit([typed EXCEPT ![i] = typed[i + 1], ![i + 1] = typed[i]], TRUE)
    <2> DEFINE new == [typed EXCEPT ![i] = typed[i + 1], ![i + 1] = typed[i]]
    <2>1. i + 1 \in 1..Len(typed)
      BY <1>1, <1>7
    <2>2. typed[i + 1] \in Nat
      BY <1>1, <2>1, ElementOfSeq
    <2>3. new \in Seq(Nat)
      BY <1>1, <1>3, <2>1, <2>2, ExceptSeq
    <2> HIDE DEF new
    <2> QED BY <1>7, <2>3, EditKeeps DEF new
  <1> QED BY <1>2, <1>4, <1>5, <1>6, <1>7

LEMMA CodeNext ==
    CodeInv /\ [Next]_vars => CodeInv'
  <1> SUFFICES ASSUME CodeInv, [Next]_vars PROVE CodeInv'
    OBVIOUS
  <1>1. CASE Respell
    BY <1>1, RespellKeeps
  <1>2. CASE Lowercase
    BY <1>2, LowercaseKeeps
  <1>3. CASE Separate
    BY <1>3, SeparateKeeps
  <1>4. CASE Mistype
    BY <1>4, MistypeKeeps
  <1>5. CASE Submit
    BY <1>5 DEF CodeInv, Submit
  <1>6. CASE UNCHANGED vars
    BY <1>6 DEF CodeInv, vars
  <1> QED BY <1>1, <1>2, <1>3, <1>4, <1>5, <1>6 DEF Next

LEMMA CodeInvariant ==
    Spec => []CodeInv
  BY CodeInit, CodeNext, PTL DEF Spec

(* encode_base32 writes down the bits of the secret, five to a character   *)
(* and zeros at the end, for a secret of any length: the accumulator, of   *)
(* any width from 12 bits on, has lost nothing that is still needed.       *)
THEOREM CodesHoldTheBits ==
    Spec => []CodeIsBits
  <1>1. CodeInv => CodeIsBits
    <2> SUFFICES ASSUME CodeInv, NEW j \in 0 .. CODE_DATA_CHARS - 1
                 PROVE  encode_base32(secret, CODE_DATA_CHARS)[j + 1] = Char(Quintet(secret, j))
      BY DEF CodeIsBits
    <2>1. secret \in Secrets
      BY DEF CodeInv
    <2>2. IsBytes(secret) /\ Len(secret) = SECRET_BYTES
      BY <2>1, SecretIsBytes
    <2>3. CODE_DATA_CHARS \in Nat /\ 5 * (CODE_DATA_CHARS - 1) < 8 * Len(secret)
      BY <2>2, SizeAssumption
    <2>4. IsCode(encode_base32(secret, CODE_DATA_CHARS), secret, CODE_DATA_CHARS)
      BY <2>2, <2>3, EncodeChars
    <2>5. j + 1 \in 1..CODE_DATA_CHARS /\ (j + 1) - 1 = j
      BY <2>3
    <2>6. encode_base32(secret, CODE_DATA_CHARS)[j + 1] = Char(Quintet(secret, (j + 1) - 1))
      BY <2>4, <2>5 DEF IsCode
    <2> QED BY <2>5, <2>6
  <1> QED BY <1>1, CodeInvariant, PTL

(* decode_code gives back the secret encode_code wrote down, whatever was  *)
(* done to the spelling of the code: case, look-alikes, spaces, dashes.    *)
THEOREM CodesRoundTrip ==
    Spec => []RoundTrip
  <1>1. CodeInv => RoundTrip
    <2> SUFFICES ASSUME CodeInv, result # Pending, ~faulty PROVE result = secret
      BY DEF RoundTrip
    <2>1. result = decode_code(typed) /\ secret \in Secrets
          /\ Positions(typed) = Positions(encode_code(secret))
      BY DEF CodeInv
    <2>2. DecodeVals(Positions(encode_code(secret))) = secret
      BY <2>1, DecodesItsCode
    <2> QED BY <2>1, <2>2, DecodeOfVals
  <1> QED BY <1>1, CodeInvariant, PTL

(* What decode_code accepts is, character for character, the code of the   *)
(* secret it returns, but for the unused bits of the last data character.  *)
THEOREM AcceptedCodesAreCodes ==
    Spec => []AcceptedIsACode
  <1>1. CodeInv => AcceptedIsACode
    <2> SUFFICES ASSUME CodeInv, result \notin {Pending, None}
                 PROVE  Agree(Positions(typed), Positions(encode_code(result)))
      BY DEF AcceptedIsACode, Agree
    <2>1. result = decode_code(typed) /\ typed \in Seq(Nat) /\ result # None
      BY DEF CodeInv
    <2> QED BY <2>1, AcceptedAgrees
  <1> QED BY <1>1, CodeInvariant, PTL

=============================================================================

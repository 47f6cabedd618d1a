-------------------------- MODULE WireFormatProofs --------------------------
(***************************************************************************)
(* The parts every message is made of: integers, chars and lengths.  For   *)
(* every base, set of widths, integer type, encoding and byte order: what  *)
(* an integer type wrote is read back, with the announced size, and its    *)
(* bytes cut short are an error.  For all bytes: the decoder of char takes *)
(* what the standard library takes, and no more.  For every width of usize *)
(* on either side, limit, element size and length: a length is read as it  *)
(* was written or refused, not refused where the writer has checked it,    *)
(* bounded by the limit, and leaves room for every entry of a map.  The    *)
(* inductive invariant for lengths says what the bytes on the wire stand   *)
(* for and which of the two checks the length has passed.                  *)
(***************************************************************************)
EXTENDS SequenceLength, Utf8, TLAPS, FiniteSetTheorems, WellFoundedInduction, SequenceTheorems

-----------------------------------------------------------------------------
(* Induction and recursion over numbers *)

(* A set of numbers that has a member has a least one. *)
LEMMA LeastNumber ==
  ASSUME NEW T, T \subseteq Nat, T # {}
  PROVE  \E x \in T : \A y \in T : x <= y
<1> DEFINE R == {ss \in Nat \X Nat : ss[1] < ss[2]}
<1>1. OpToRel(<, Nat) = R
  BY DEF OpToRel
<1>2. IsWellFoundedOn(R, Nat)
  BY NatLessThanWellFounded, <1>1
<1> HIDE DEF R
<1>3. PICK x \in T : \A y \in T : <<y, x>> \notin R
  BY <1>2, WFMin, Zenon
<1>4. ASSUME NEW y \in T
      PROVE  x <= y
  <2>1. x \in Nat /\ y \in Nat /\ <<y, x>> \in Nat \X Nat
    OBVIOUS
  <2>2. y < x => <<y, x>> \in R
    BY <2>1 DEF R
  <2> QED
    BY <1>3, <2>1, <2>2
<1> QED
  BY <1>4

(* Induction, with a set in the place of the predicate *)
LEMMA FromZero ==
  ASSUME NEW S, 0 \in S, \A k \in Nat : k \in S => k + 1 \in S
  PROVE  Nat \subseteq S
<1> SUFFICES ASSUME Nat \ S # {}
             PROVE  FALSE
  OBVIOUS
<1>1. PICK x \in Nat \ S : \A y \in Nat \ S : x <= y
  BY LeastNumber
<1>2. x # 0 /\ x - 1 \in Nat /\ ~(x <= x - 1)
  BY <1>1
<1>3. x - 1 \in S
  BY <1>1, <1>2
<1>4. (x - 1) + 1 = x
  BY <1>2
<1> QED
  BY <1>1, <1>2, <1>3, <1>4

(* f[0] is base, and Step makes f[k] out of k and f[k - 1]. *)
Recursive(f, D, base, Step) ==
  f = [k \in D |-> IF k = 0 THEN base ELSE Step[<<k, f[k - 1]>>]]

(* A recursion over numbers has a solution. *)
LEMMA Recursion ==
  ASSUME NEW D, D \subseteq Nat, \A k \in D : k # 0 => k - 1 \in D,
         NEW V, NEW base \in V, NEW Step \in [Nat \X V -> V]
  PROVE  \E f \in [D -> V] : Recursive(f, D, base, Step)
<1> DEFINE Value(f, k) == IF k = 0 THEN base ELSE Step[<<k, f[k - 1]>>]
           Good(f, h) == \A k \in D : k <= h => f[k] = Value(f, k)
           S == {h \in Nat : \E f \in [D -> V] : Good(f, h)}
           Same == {h \in Nat : \A f, g \in [D -> V] :
                      h \in D /\ Good(f, h) /\ Good(g, h) => f[h] = g[h]}
<1>1. ASSUME NEW f \in [D -> V], NEW k \in D
      PROVE  Value(f, k) \in V
  <2>1. k \in Nat /\ (k # 0 => <<k, f[k - 1]>> \in Nat \X V)
    OBVIOUS
  <2> QED
    BY <2>1
<1>2. Nat \subseteq Same
  <2>1. 0 \in Same
    <3>1. ASSUME NEW f \in [D -> V], 0 \in D, Good(f, 0)
          PROVE  f[0] = base
      <4>1. f[0] = Value(f, 0)
        <5> HIDE DEF Value
        <5> QED
          BY <3>1
      <4> QED
        BY <4>1
    <3> QED
      BY <3>1
  <2>2. ASSUME NEW h \in Nat, h \in Same
        PROVE  h + 1 \in Same
    <3> SUFFICES ASSUME NEW f \in [D -> V], NEW g \in [D -> V],
                        h + 1 \in D, Good(f, h + 1), Good(g, h + 1)
                 PROVE  f[h + 1] = g[h + 1]
      BY <2>2
    <3>1. h \in D /\ h + 1 # 0 /\ (h + 1) - 1 = h /\ h + 1 <= h + 1
      <4>1. (h + 1) - 1 = h /\ h + 1 # 0 /\ h + 1 <= h + 1
        OBVIOUS
      <4> QED
        BY <4>1
    <3>2. \A k \in D : k <= h => k <= h + 1
      OBVIOUS
    <3>3. Good(f, h) /\ Good(g, h)
      <4> HIDE DEF Value
      <4> QED
        BY <3>2
    <3>4. f[h] = g[h]
      <4> HIDE DEF Good
      <4> QED
        BY <2>2, <3>1, <3>3
    <3>5. f[h + 1] = Step[<<h + 1, f[h]>>] /\ g[h + 1] = Step[<<h + 1, g[h]>>]
      BY <3>1
    <3> QED
      BY <3>4, <3>5
  <2> HIDE DEF Same
  <2> QED
    BY <2>1, <2>2, FromZero
<1>3. Nat \subseteq S
  <2>1. 0 \in S
    <3> DEFINE f == [k \in D |-> base]
    <3>1. f \in [D -> V]
      OBVIOUS
    <3>2. Good(f, 0)
      OBVIOUS
    <3> QED
      BY <3>1, <3>2
  <2>2. ASSUME NEW h \in Nat, h \in S
        PROVE  h + 1 \in S
    <3>1. PICK f \in [D -> V] : Good(f, h)
      BY <2>2
    <3> DEFINE g == [k \in D |-> IF k = h + 1 THEN Value(f, k) ELSE f[k]]
    <3>2. g \in [D -> V]
      <4> HIDE DEF Value
      <4> QED
        BY <1>1
    <3>3. ASSUME NEW k \in D, k <= h + 1
          PROVE  g[k] = Value(g, k)
      <4>1. k \in Nat
        OBVIOUS
      <4>2. k # 0 => k - 1 \in D /\ k - 1 # h + 1 /\ g[k - 1] = f[k - 1]
        BY <3>3, <4>1
      <4>3. Value(g, k) = Value(f, k)
        <5> HIDE DEF g
        <5> QED
          BY <4>2
      <4>4. CASE k = h + 1
        <5> HIDE DEF Value
        <5> QED
          BY <4>3, <4>4
      <4>5. CASE k # h + 1
        <5>1. k <= h
          BY <3>3, <4>1, <4>5
        <5>2. f[k] = Value(f, k) /\ g[k] = f[k]
          BY <3>1, <4>5, <5>1
        <5> HIDE DEF g, Value
        <5> QED
          BY <4>3, <5>2
      <4> QED
        BY <4>4, <4>5
    <3> HIDE DEF g
    <3>4. Good(g, h + 1)
      BY <3>3
    <3>5. h + 1 \in Nat
      OBVIOUS
    <3> QED
      BY <3>2, <3>4, <3>5
  <2> HIDE DEF S
  <2> QED
    BY <2>1, <2>2, FromZero
<1> DEFINE Sol(h) == CHOOSE f \in [D -> V] : Good(f, h)
<1>4. ASSUME NEW h \in Nat
      PROVE  Sol(h) \in [D -> V] /\ Good(Sol(h), h)
  <2> HIDE DEF Good
  <2> QED
    BY <1>3
<1> HIDE DEF Sol
<1> DEFINE F == [k \in D |-> Sol(k)[k]]
<1>5. F \in [D -> V]
  BY <1>4
<1>6. ASSUME NEW k \in D
      PROVE  F[k] = Value(F, k)
  <2>1. k \in Nat /\ Sol(k) \in [D -> V] /\ Good(Sol(k), k) /\ k <= k
    BY <1>4
  <2>2. F[k] = Value(Sol(k), k)
    BY <2>1
  <2>3. ASSUME k # 0
        PROVE  F[k - 1] = Sol(k)[k - 1]
    <3>1. k - 1 \in D /\ k - 1 \in Nat
      BY <2>3
    <3>2. Sol(k - 1) \in [D -> V] /\ Good(Sol(k - 1), k - 1)
      BY <1>4, <3>1
    <3>3. \A j \in D : j <= k - 1 => j <= k
      BY <2>1
    <3>4. Good(Sol(k), k - 1)
      <4> HIDE DEF Value
      <4> QED
        BY <2>1, <3>3
    <3>5. Sol(k)[k - 1] = Sol(k - 1)[k - 1]
      <4> HIDE DEF Good
      <4> QED
        BY <1>2, <2>1, <3>1, <3>2, <3>4
    <3> QED
      BY <3>1, <3>5
  <2> HIDE DEF F
  <2> QED
    BY <2>2, <2>3
<1> HIDE DEF F
<1>7. F = [k \in D |-> Value(F, k)]
  BY <1>5, <1>6
<1> QED
  BY <1>5, <1>7 DEF Recursive

-----------------------------------------------------------------------------
(* Powers, division, and the casts of int_encoding.rs *)

LEMMA BaseFacts ==
  /\ Base \in Nat /\ SingleByteMax \in Nat /\ Base > 0
  /\ Base % 2 = 0 /\ SingleByteMax + Len(Widths) < Base
  /\ Len(Widths) \in Nat /\ DOMAIN Widths = 1 .. Len(Widths)
  /\ \A w \in DOMAIN Widths : Widths[w] \in Nat /\ Widths[w] > 0
BY IntAssumption

LEMMA PowerEquation ==
  Power = [k \in Nat |-> IF k = 0 THEN 1 ELSE Base * Power[k - 1]]
<1> DEFINE Equation(f) == f = [k \in Nat |-> IF k = 0 THEN 1 ELSE Base * f[k - 1]]
           Step == [x \in Nat \X Nat |-> Base * x[2]]
<1>1. Step \in [Nat \X Nat -> Nat]
  <2>1. \A x \in Nat \X Nat : Base * x[2] \in Nat
    BY BaseFacts
  <2> QED
    BY <2>1
<1>2. \A k \in Nat : k # 0 => k - 1 \in Nat
  OBVIOUS
<1>3. PICK f \in [Nat -> Nat] : Recursive(f, Nat, 1, Step)
  <2> HIDE DEF Step
  <2> QED
    BY <1>1, <1>2, Recursion
<1>4. ASSUME NEW k \in Nat, k # 0
      PROVE  Step[<<k, f[k - 1]>>] = Base * f[k - 1]
  BY <1>2, <1>4
<1> HIDE DEF Step
<1>5. Equation(f)
  BY <1>3, <1>4 DEF Recursive
<1>6. Equation(CHOOSE g : Equation(g))
  <2> HIDE DEF Equation
  <2> QED
    BY <1>5
<1>7. Power = CHOOSE g : Equation(g)
  BY DEF Power
<1>8. Equation(Power)
  <2> HIDE DEF Equation
  <2> QED
    BY <1>6, <1>7
<1> QED
  BY <1>8

LEMMA TimesPositive ==
  ASSUME NEW a \in Nat, NEW b \in Nat, a > 0, b > 0
  PROVE  a * b \in Nat /\ a * b > 0
OBVIOUS

LEMMA PowerFacts ==
  /\ Power[0] = 1
  /\ \A k \in Nat : Power[k] \in Nat /\ Power[k] > 0 /\ Power[k + 1] = Base * Power[k]
<1>1. Power[0] = 1
  BY PowerEquation
<1>2. \A k \in Nat : Power[k + 1] = Base * Power[k]
  <2> TAKE k \in Nat
  <2>1. k + 1 \in Nat /\ k + 1 # 0 /\ (k + 1) - 1 = k
    OBVIOUS
  <2> QED
    BY <2>1, PowerEquation
<1> DEFINE S == {k \in Nat : Power[k] \in Nat /\ Power[k] > 0}
<1>3. 0 \in S
  BY <1>1
<1>4. ASSUME NEW k \in Nat, k \in S
      PROVE  k + 1 \in S
  <2>1. Power[k] \in Nat /\ Power[k] > 0
    BY <1>4
  <2>2. Base * Power[k] \in Nat /\ Base * Power[k] > 0
    BY <2>1, BaseFacts, TimesPositive
  <2> QED
    BY <1>2, <2>2
<1>5. Nat \subseteq S
  <2> HIDE DEF S
  <2> QED
    BY <1>3, <1>4, FromZero
<1> QED
  BY <1>1, <1>2, <1>5

LEMMA TimesMonotone ==
  ASSUME NEW n \in Nat, NEW a \in Int, NEW b \in Int, a <= b
  PROVE  n * a <= n * b
<1> DEFINE d == b - a
<1>1. d \in Nat /\ b = a + d
  OBVIOUS
<1> HIDE DEF d
<1>2. n * b = n * a + n * d
  BY <1>1
<1>3. n * d \in Nat /\ n * a \in Int
  BY <1>1
<1> QED
  BY <1>2, <1>3

(* Division by a positive number determines quotient and remainder. *)
LEMMA Division ==
  ASSUME NEW n \in Int, NEW d \in Nat, d > 0
  PROVE  /\ n \div d \in Int /\ n % d \in 0 .. d - 1
         /\ n = d * (n \div d) + (n % d)
         /\ n >= 0 => n \div d \in Nat
<1>1. n \div d \in Int /\ n % d \in 0 .. d - 1
  OBVIOUS
<1>2. n = d * (n \div d) + (n % d)
  OBVIOUS
<1>3. ASSUME n >= 0
      PROVE  n \div d >= 0
  <2> SUFFICES ASSUME n \div d < 0 PROVE FALSE
    BY <1>1
  <2>1. d * ((n \div d) + 1) <= d * 0
    BY <1>1, TimesMonotone
  <2>2. d * ((n \div d) + 1) = d * (n \div d) + d /\ d * (n \div d) \in Int
    BY <1>1
  <2> QED
    BY <1>1, <1>2, <1>3, <2>1, <2>2
<1> QED
  BY <1>1, <1>2, <1>3

LEMMA DivisionUnique ==
  ASSUME NEW d \in Nat, d > 0, NEW q \in Int, NEW r \in 0 .. d - 1,
         NEW n \in Int, n = d * q + r
  PROVE  n \div d = q /\ n % d = r
<1> DEFINE p == n \div d
           s == n % d
<1>1. p \in Int /\ s \in 0 .. d - 1 /\ n = d * p + s
  BY Division
<1>2. d * p \in Int /\ d * q \in Int /\ d * p + s = d * q + r
  BY <1>1
<1> HIDE DEF p, s
<1>3. ~(p < q)
  <2> SUFFICES ASSUME p < q PROVE FALSE
    OBVIOUS
  <2>1. d * (p + 1) <= d * q
    BY <1>1, TimesMonotone
  <2>2. d * (p + 1) = d * p + d
    BY <1>1
  <2> QED
    BY <1>1, <1>2, <2>1, <2>2
<1>4. ~(q < p)
  <2> SUFFICES ASSUME q < p PROVE FALSE
    OBVIOUS
  <2>1. d * (q + 1) <= d * p
    BY <1>1, TimesMonotone
  <2>2. d * (q + 1) = d * q + d
    BY <1>1
  <2> QED
    BY <1>1, <1>2, <2>1, <2>2
<1>5. p = q
  BY <1>1, <1>3, <1>4
<1>6. s = r
  BY <1>1, <1>2, <1>5
<1> QED
  BY <1>5, <1>6 DEF p, s

(* To divide by one number and then by another is to divide by their product. *)
LEMMA DivisionTwice ==
  ASSUME NEW n \in Nat, NEW a \in Nat, NEW b \in Nat, a > 0, b > 0
  PROVE  n \div (b * a) = (n \div a) \div b
<1> DEFINE q == n \div a
           r == n % a
           s == q \div b
           t == q % b
<1>1. q \in Nat /\ r \in 0 .. a - 1 /\ n = a * q + r
  BY Division
<1>2. s \in Nat /\ t \in 0 .. b - 1 /\ q = b * s + t
  BY <1>1, Division
<1> HIDE DEF q, r, s, t
<1>3. b * a \in Nat /\ b * a > 0
  BY TimesPositive
<1>4. n = (b * a) * s + (a * t + r)
  <2>1. a * (b * s + t) = a * (b * s) + a * t
    BY <1>1, <1>2
  <2>2. a * (b * s) = (b * a) * s
    BY <1>2
  <2>3. (b * a) * s \in Nat /\ a * t \in Nat
    BY <1>2, <1>3
  <2> QED
    BY <1>1, <1>2, <2>1, <2>2, <2>3
<1>5. a * t + r \in 0 .. b * a - 1
  <2>1. a * (t + 1) <= a * b
    BY <1>2, TimesMonotone
  <2>2. a * (t + 1) = a * t + a /\ a * b = b * a /\ a * t \in Nat
    BY <1>2
  <2> QED
    BY <1>1, <1>3, <2>1, <2>2
<1>6. n \div (b * a) = s
  <2> DEFINE m == b * a
             x == a * t + r
  <2>1. m \in Nat /\ m > 0 /\ n = m * s + x /\ x \in 0 .. m - 1 /\ s \in Int /\ n \in Int
    BY <1>2, <1>3, <1>4, <1>5
  <2> HIDE DEF m, x
  <2>2. n \div m = s
    BY <2>1, DivisionUnique
  <2> QED
    BY <2>2 DEF m
<1> QED
  BY <1>6 DEF s, q

LEMMA Small ==
  ASSUME NEW n \in Nat, NEW d \in Nat, n < d
  PROVE  n \div d = 0 /\ n % d = n
<1>1. d > 0 /\ n \in 0 .. d - 1 /\ n = d * 0 + n
  OBVIOUS
<1> QED
  BY <1>1, DivisionUnique

LEMMA ModulusFacts ==
  ASSUME NEW w \in DOMAIN Widths
  PROVE  /\ Modulus(w) \in Nat /\ Modulus(w) > 0
         /\ \E h \in Nat : h > 0 /\ Modulus(w) = 2 * h /\ Modulus(w) \div 2 = h
<1> DEFINE k == Widths[w] - 1
           b == Base \div 2
           p == Power[k]
<1>1. k \in Nat /\ k + 1 = Widths[w]
  BY BaseFacts
<1>2. Modulus(w) = Base * p /\ p \in Nat /\ p > 0
  <2> HIDE DEF k
  <2> QED
    BY <1>1, PowerFacts DEF Modulus, p
<1>3. b \in Nat /\ b > 0 /\ Base = 2 * b
  BY BaseFacts
<1> HIDE DEF p, b
<1> DEFINE h == b * p
<1>4. h \in Nat /\ h > 0
  BY <1>2, <1>3, TimesPositive
<1>5. Modulus(w) = 2 * h
  BY <1>2, <1>3
<1> HIDE DEF h
<1>6. Modulus(w) \div 2 = h
  BY <1>4, <1>5
<1> QED
  BY <1>4, <1>5, <1>6

(* Casting to the unsigned type and back, and the zigzag order, lose nothing. *)
LEMMA CastsInvert ==
  ASSUME NEW w \in DOMAIN Widths,
         NEW v \in -(Modulus(w) \div 2) .. Modulus(w) \div 2 - 1
  PROVE  /\ AsUnsigned(v, w) \in 0 .. Modulus(w) - 1
         /\ AsSigned(AsUnsigned(v, w), w) = v
         /\ ZigZag(v, w) \in 0 .. Modulus(w) - 1
         /\ UnZigZag(ZigZag(v, w), w) = v
<1> DEFINE M == Modulus(w)
<1>1. PICK h \in Nat : h > 0 /\ M = 2 * h /\ M \div 2 = h
  BY ModulusFacts
<1>2. v \in Int /\ -h <= v /\ v <= h - 1 /\ M \in Nat /\ M > 0
  BY <1>1
<1>3. CASE v >= 0
  <2>1. AsUnsigned(v, w) = v
    <3>1. v \in Nat /\ v < M
      BY <1>1, <1>2, <1>3
    <3> QED
      BY <1>2, <3>1, Small DEF AsUnsigned
  <2>2. 2 * v \in Nat /\ v * 2 = 2 * v /\ 2 * v < M
    BY <1>1, <1>2, <1>3
  <2>3. ZigZag(v, w) = 2 * v
    <3>1. ZigZag(v, w) = (v * 2) % M
      BY <1>2, <1>3, <2>1 DEF ZigZag
    <3> QED
      BY <1>2, <2>2, <3>1, Small
  <2>4. (2 * v) % 2 = 0 /\ (2 * v) \div 2 = v
    BY <1>2
  <2>5. AsSigned(v, w) = v
    BY <1>1, <1>2 DEF AsSigned
  <2>6. UnZigZag(2 * v, w) = v
    BY <2>4, <2>5 DEF UnZigZag
  <2> QED
    BY <1>2, <1>3, <2>1, <2>2, <2>3, <2>5, <2>6
<1>4. CASE v < 0
  <2>1. AsUnsigned(v, w) = M + v
    <3>1. M + v \in 0 .. M - 1 /\ v = M * (-1) + (M + v) /\ -1 \in Int
      BY <1>1, <1>2, <1>4
    <3>2. v % M = M + v
      <4> HIDE DEF M
      <4> QED
        BY <1>2, <3>1, DivisionUnique
    <3> QED
      BY <3>2 DEF AsUnsigned
  <2> DEFINE z == -(2 * v) - 1
  <2>2. z \in Nat /\ z < M /\ z % 2 = 1 /\ z \div 2 = -v - 1
    BY <1>1, <1>2, <1>4
  <2>3. Not(M + v, w) = -v - 1 /\ (-v - 1) * 2 + 1 = z
    BY <1>2 DEF Not
  <2>4. ZigZag(v, w) = z
    <3>1. ZigZag(v, w) = ((-v - 1) * 2 + 1) % M
      BY <1>2, <1>4, <2>1, <2>3 DEF ZigZag
    <3> HIDE DEF z
    <3> QED
      BY <1>2, <2>2, <2>3, <3>1, Small
  <2>5. Not(-v - 1, w) = M + v
    BY <1>2 DEF Not
  <2>6. AsSigned(M + v, w) = v
    BY <1>1, <1>2 DEF AsSigned
  <2>7. UnZigZag(z, w) = v
    <3> HIDE DEF z
    <3> QED
      BY <2>2, <2>5, <2>6 DEF UnZigZag
  <2> QED
    BY <1>2, <1>4, <2>1, <2>2, <2>4, <2>6, <2>7
<1> QED
  BY <1>2, <1>3, <1>4

-----------------------------------------------------------------------------
(* Numbers as bytes *)

Byte == 0 .. Base - 1
Digit(n, j) == (n \div Power[j]) % Base

LEMMA DigitFacts ==
  ASSUME NEW n \in Nat, NEW j \in Nat
  PROVE  /\ n \div Power[j] \in Nat /\ Digit(n, j) \in Byte
         /\ n \div Power[j] = Base * (n \div Power[j + 1]) + Digit(n, j)
<1> DEFINE p == Power[j]
           q == n \div p
<1>1. p \in Nat /\ p > 0 /\ Power[j + 1] = Base * p
  BY PowerFacts
<1>2. q \in Nat
  BY <1>1, Division
<1>3. n \div (Base * p) = q \div Base
  <2>1. Base \in Nat /\ Base > 0
    BY BaseFacts
  <2> HIDE DEF p
  <2> QED
    BY <1>1, <2>1, DivisionTwice
<1>4. q % Base \in 0 .. Base - 1 /\ q = Base * (q \div Base) + (q % Base)
  <2> HIDE DEF q
  <2> QED
    BY <1>2, BaseFacts, Division
<1> QED
  BY <1>1, <1>2, <1>3, <1>4 DEF Digit, Byte

(* The bytes of a number, the most significant one first *)
LEMMA BytesOf ==
  ASSUME NEW n \in Nat, NEW w \in DOMAIN Widths, NEW endian \in Endians
  PROVE  LET bytes == ToBytes(n, w, endian)
             big == IF endian = "big" THEN bytes ELSE Reverse(bytes)
         IN /\ bytes \in Seq(Byte) /\ Len(bytes) = Widths[w]
            /\ \A k \in 1 .. Widths[w] : big[k] = Digit(n, Widths[w] - k)
<1> DEFINE W == Widths[w]
           little == [k \in 1 .. W |-> Digit(n, k - 1)]
           bytes == ToBytes(n, w, endian)
<1>1. W \in Nat
  BY BaseFacts
<1>2. little \in Seq(Byte) /\ Len(little) = W /\ \A k \in 1 .. W : little[k] = Digit(n, k - 1)
  <2>1. ASSUME NEW k \in 1 .. W
        PROVE  Digit(n, k - 1) \in Byte
    BY <1>1, DigitFacts
  <2> QED
    BY <1>1, <2>1
<1>3. bytes = IF endian = "little" THEN little ELSE Reverse(little)
  BY DEF ToBytes, Digit
<1> HIDE DEF little, bytes
<1>4. ASSUME NEW s \in Seq(Byte), Len(s) = W
      PROVE  /\ Reverse(s) \in Seq(Byte) /\ Len(Reverse(s)) = W
             /\ \A k \in 1 .. W : Reverse(s)[k] = s[W - k + 1]
  BY <1>1, <1>4 DEF Reverse
<1>5. bytes \in Seq(Byte) /\ Len(bytes) = W
  BY <1>2, <1>3, <1>4
<1>6. ASSUME NEW k \in 1 .. W
      PROVE  Reverse(little)[k] = Digit(n, W - k)
  <2>1. W - k + 1 \in 1 .. W /\ (W - k + 1) - 1 = W - k
    BY <1>1
  <2>2. Reverse(little)[k] = little[W - k + 1]
    BY <1>2, <1>4
  <2> QED
    BY <1>2, <2>1, <2>2
<1>7. endian = "little" => bytes = little
  BY <1>3
<1>8. endian # "little" => endian = "big" /\ bytes = Reverse(little)
  BY <1>3 DEF Endians
<1>9. \A k \in 1 .. W : (IF endian = "big" THEN bytes ELSE Reverse(bytes))[k] = Digit(n, W - k)
  BY <1>6, <1>7, <1>8
<1> QED
  BY <1>5, <1>9 DEF bytes

LEMMA FromBytesEquation ==
  ASSUME NEW bytes \in Seq(Nat), NEW endian \in Endians
  PROVE  LET big == IF endian = "big" THEN bytes ELSE Reverse(bytes)
         IN \E f : /\ FromBytes(bytes, endian) = f[Len(bytes)] /\ f[0] = 0
                   /\ \A k \in 1 .. Len(bytes) : f[k] = Base * f[k - 1] + big[k]
<1> DEFINE big == IF endian = "big" THEN bytes ELSE Reverse(bytes)
           D == 0 .. Len(bytes)
           Equation(f) == f = [k \in D |-> IF k = 0 THEN 0 ELSE Base * f[k - 1] + big[k]]
           Step == [x \in Nat \X Nat |-> IF x[1] \in 1 .. Len(bytes) THEN Base * x[2] + big[x[1]] ELSE 0]
<1>1. Len(bytes) \in Nat
  OBVIOUS
<1>2. \A k \in 1 .. Len(bytes) : big[k] \in Nat
  BY <1>1 DEF Reverse
<1>3. FromBytes(bytes, endian) = (CHOOSE f : Equation(f))[Len(bytes)]
  BY DEF FromBytes
<1> HIDE DEF big
<1>4. Step \in [Nat \X Nat -> Nat]
  <2>1. \A x \in Nat \X Nat : Base * x[2] \in Nat
    BY BaseFacts
  <2> QED
    BY <1>2, <2>1
<1>5. D \subseteq Nat /\ \A k \in D : k # 0 => k - 1 \in D /\ k \in 1 .. Len(bytes)
  BY <1>1
<1>6. PICK f \in [D -> Nat] : Recursive(f, D, 0, Step)
  <2> HIDE DEF Step, D
  <2>1. 0 \in Nat
    OBVIOUS
  <2> QED
    BY <1>4, <1>5, <2>1, Recursion
<1>7. ASSUME NEW k \in D, k # 0
      PROVE  Step[<<k, f[k - 1]>>] = Base * f[k - 1] + big[k]
  <2>1. k \in Nat /\ k \in 1 .. Len(bytes) /\ f[k - 1] \in Nat
    BY <1>5, <1>7
  <2> QED
    BY <2>1
<1> HIDE DEF Step, D
<1>8. Equation(f)
  BY <1>6, <1>7 DEF Recursive
<1>9. Equation(CHOOSE g : Equation(g))
  <2> HIDE DEF Equation
  <2> QED
    BY <1>8
<1> DEFINE g == CHOOSE g : Equation(g)
<1>10. FromBytes(bytes, endian) = g[Len(bytes)] /\ Equation(g)
  BY <1>3, <1>9
<1> HIDE DEF g
<1>11. 0 \in D /\ \A k \in 1 .. Len(bytes) : k \in D /\ k # 0
  BY <1>1 DEF D
<1>12. g[0] = 0 /\ \A k \in 1 .. Len(bytes) : g[k] = Base * g[k - 1] + big[k]
  BY <1>10, <1>11
<1> QED
  BY <1>10, <1>12 DEF big

(* What to_le_bytes and to_be_bytes made, from_le_bytes and from_be_bytes undo. *)
LEMMA BytesInvert ==
  ASSUME NEW w \in DOMAIN Widths, NEW n \in 0 .. Modulus(w) - 1, NEW endian \in Endians
  PROVE  FromBytes(ToBytes(n, w, endian), endian) = n
<1> DEFINE W == Widths[w]
           bytes == ToBytes(n, w, endian)
           big == IF endian = "big" THEN bytes ELSE Reverse(bytes)
<1>1. W \in Nat /\ n \in Nat
  BY BaseFacts, ModulusFacts
<1>2. /\ bytes \in Seq(Byte) /\ Len(bytes) = W
      /\ \A k \in 1 .. W : big[k] = Digit(n, W - k)
  BY <1>1, BytesOf
<1>3. bytes \in Seq(Nat)
  BY <1>2, BaseFacts DEF Byte
<1>4. PICK f : /\ FromBytes(bytes, endian) = f[Len(bytes)] /\ f[0] = 0
               /\ \A k \in 1 .. Len(bytes) : f[k] = Base * f[k - 1] + big[k]
  <2> HIDE DEF bytes
  <2> QED
    BY <1>3, FromBytesEquation
<1> HIDE DEF bytes, big
<1> DEFINE S == {k \in Nat : k <= W => f[k] = n \div Power[W - k]}
<1>5. 0 \in S
  <2>1. W - 0 = W /\ Power[W] = Modulus(w)
    BY <1>1 DEF Modulus
  <2>2. n \div Modulus(w) = 0
    BY <1>1, ModulusFacts, Small
  <2> QED
    BY <1>4, <2>1, <2>2
<1>6. ASSUME NEW k \in Nat, k \in S
      PROVE  k + 1 \in S
  <2> SUFFICES ASSUME k + 1 <= W PROVE f[k + 1] = n \div Power[W - (k + 1)]
    OBVIOUS
  <2> DEFINE j == W - (k + 1)
  <2>1. j \in Nat /\ j + 1 = W - k /\ k + 1 \in 1 .. W /\ k <= W /\ (k + 1) - 1 = k
    BY <1>1
  <2> HIDE DEF j
  <2>2. f[k] = n \div Power[j + 1]
    BY <1>6, <2>1
  <2>3. f[k + 1] = Base * f[k] + Digit(n, j)
    BY <1>2, <1>4, <2>1 DEF j
  <2>4. n \div Power[j] = Base * (n \div Power[j + 1]) + Digit(n, j)
    BY <1>1, <2>1, DigitFacts
  <2> QED
    BY <2>2, <2>3, <2>4 DEF j
<1>7. W \in S
  <2> HIDE DEF S
  <2> QED
    BY <1>1, <1>5, <1>6, FromZero
<1>8. f[W] = n \div Power[0]
  <2>1. W - W = 0 /\ W <= W
    BY <1>1
  <2> QED
    BY <1>7, <2>1
<1>9. n \div 1 = n
  BY <1>1
<1> QED
  BY <1>2, <1>4, <1>8, <1>9, PowerFacts DEF bytes

-----------------------------------------------------------------------------
(* The encodings: bytes as they are, or a tag and the narrowest width *)

LEMMA ChosenFacts ==
  ASSUME NEW w \in DOMAIN Widths, NEW n \in 0 .. Modulus(w) - 1
  PROVE  /\ Chosen(n, w) \in 1 .. w /\ Chosen(n, w) \in DOMAIN Widths
         /\ n \in 0 .. Modulus(Chosen(n, w)) - 1
<1> DEFINE Holds(c) == c = w \/ n < Modulus(c)
           T == {c \in 1 .. w : Holds(c)}
<1>1. /\ w \in 1 .. Len(Widths) /\ Len(Widths) \in Nat /\ 1 .. w \subseteq DOMAIN Widths
      /\ n \in Nat /\ n < Modulus(w)
  BY BaseFacts, ModulusFacts
<1>2. PICK c \in T : \A d \in T : c <= d
  <2>1. T \subseteq Nat /\ w \in T
    BY <1>1
  <2> HIDE DEF T
  <2> QED
    BY <2>1, LeastNumber
<1>3. c \in 1 .. w /\ Holds(c)
  BY <1>2
<1>4. ASSUME NEW d \in 1 .. c - 1
      PROVE  n >= Modulus(d)
  <2>1. d \in 1 .. w /\ ~(c <= d) /\ d # w
    BY <1>1, <1>3
  <2>2. d \notin T
    BY <1>2, <2>1
  <2>3. ~(n < Modulus(d))
    BY <2>1, <2>2
  <2>4. Modulus(d) \in Nat
    BY <1>1, <2>1, ModulusFacts
  <2> QED
    BY <1>1, <2>3, <2>4
<1>5. \E b \in 1 .. w : /\ (b = w \/ n < Modulus(b))
                         /\ \A narrower \in 1 .. b - 1 : n >= Modulus(narrower)
  BY <1>3, <1>4
<1>6. Chosen(n, w) \in 1 .. w /\ (Chosen(n, w) = w \/ n < Modulus(Chosen(n, w)))
  BY <1>5 DEF Chosen
<1>7. n < Modulus(Chosen(n, w)) /\ Chosen(n, w) \in DOMAIN Widths
  BY <1>1, <1>6
<1>8. Modulus(Chosen(n, w)) \in Nat
  BY <1>7, ModulusFacts
<1> QED
  BY <1>1, <1>6, <1>7, <1>8

(* take_array picks the bytes of a number from between others. *)
LEMMA TakeBytes ==
  ASSUME NEW w \in DOMAIN Widths, NEW n \in 0 .. Modulus(w) - 1, NEW endian \in Endians,
         NEW bytes \in Seq(Nat), NEW skip \in Nat, Len(bytes) >= skip + Widths[w],
         \A k \in 1 .. Widths[w] : bytes[skip + k] = ToBytes(n, w, endian)[k]
  PROVE  Take(bytes, skip, w, endian) = Decoded(n, skip + Widths[w])
<1> DEFINE W == Widths[w]
           own == ToBytes(n, w, endian)
           part == SubSeq(bytes, skip + 1, skip + W)
<1>1. W \in Nat /\ n \in Nat /\ W > 0
  BY BaseFacts, ModulusFacts
<1>2. own \in Seq(Byte) /\ Len(own) = W
  BY <1>1, BytesOf
<1> HIDE DEF own
<1>3. part \in Seq(Nat) /\ Len(part) = W /\ \A k \in 1 .. W : part[k] = bytes[skip + k]
  <2>1. /\ skip + 1 \in 1 .. Len(bytes) + 1 /\ skip + W \in 0 .. Len(bytes)
        /\ (skip + W) - (skip + 1) + 1 = W /\ skip + 1 <= skip + W
        /\ \A k \in 1 .. W : (skip + 1) + k - 1 = skip + k
    BY <1>1
  <2> DEFINE first == skip + 1
             last == skip + W
  <2>2. /\ first \in Int /\ last \in Int /\ first .. last \subseteq 1 .. Len(bytes)
        /\ first <= last /\ last - first + 1 = W
        /\ part = SubSeq(bytes, first, last) /\ \A k \in 1 .. W : first + k - 1 = skip + k
    BY <2>1
  <2> HIDE DEF first, last, part
  <2>3. /\ SubSeq(bytes, first, last) \in Seq(Nat)
        /\ Len(SubSeq(bytes, first, last)) = last - first + 1
        /\ \A k \in 1 .. last - first + 1 :
             SubSeq(bytes, first, last)[k] = bytes[first + k - 1]
    <3>1. first \in Int /\ last \in Int /\ \A i \in first .. last : bytes[i] \in Nat
      BY <2>2
    <3>2. /\ SubSeq(bytes, first, last) \in Seq(Nat)
          /\ Len(SubSeq(bytes, first, last)) = IF first <= last THEN last - first + 1 ELSE 0
          /\ \A k \in 1 .. last - first + 1 :
               SubSeq(bytes, first, last)[k] = bytes[first + k - 1]
      BY <3>1, SubSeqProperties
    <3> QED
      BY <2>2, <3>2
  <2> QED
    BY <2>2, <2>3
<1>4. \A k \in 1 .. W : part[k] = own[k]
  BY <1>3 DEF own
<1> HIDE DEF part
<1>5. part = own
  <2>1. part = [k \in 1 .. W |-> part[k]] /\ own = [k \in 1 .. W |-> own[k]]
    BY <1>2, <1>3
  <2> QED
    BY <1>4, <2>1
<1>6. FromBytes(own, endian) = n
  BY BytesInvert DEF own
<1>7. ~(Len(bytes) < skip + W)
  BY <1>1
<1> QED
  BY <1>5, <1>6, <1>7 DEF Take, part

(* The ladder of size_of climbs as far as the one of write. *)
LEMMA SameLadder ==
  ASSUME NEW w \in DOMAIN Widths, NEW n \in 0 .. Modulus(w) - 1
  PROVE  Announced(n, w) = Chosen(n, w)
<1>1. /\ w \in 1 .. Len(Widths) /\ Len(Widths) \in Nat /\ 1 .. w \subseteq DOMAIN Widths
      /\ n \in Nat
  BY BaseFacts, ModulusFacts
<1> DEFINE High(c) == Highest([width |-> c, signed |-> FALSE])
<1>2. \A c \in 1 .. w : (n <= High(c) <=> n < Modulus(c)) /\ (n > High(c) <=> n >= Modulus(c))
  <2> SUFFICES ASSUME NEW c \in 1 .. w
               PROVE  (n <= High(c) <=> n < Modulus(c)) /\ (n > High(c) <=> n >= Modulus(c))
    OBVIOUS
  <2>1. Modulus(c) \in Nat
    BY <1>1, ModulusFacts
  <2>2. High(c) = Modulus(c) - 1
    BY DEF Highest
  <2> QED
    BY <1>1, <2>1, <2>2
<1> HIDE DEF High
<1>3. \A c \in 1 .. w :
         (/\ c = w \/ n <= High(c)
          /\ \A narrower \in 1 .. c - 1 : n > High(narrower))
       <=> (/\ c = w \/ n < Modulus(c)
            /\ \A narrower \in 1 .. c - 1 : n >= Modulus(narrower))
  <2> SUFFICES ASSUME NEW c \in 1 .. w
               PROVE  (/\ c = w \/ n <= High(c)
                       /\ \A narrower \in 1 .. c - 1 : n > High(narrower))
                      <=> (/\ c = w \/ n < Modulus(c)
                           /\ \A narrower \in 1 .. c - 1 : n >= Modulus(narrower))
    OBVIOUS
  <2>1. 1 .. c - 1 \subseteq 1 .. w
    BY <1>1
  <2> QED
    BY <1>2, <2>1, Zenon
<1>4. Announced(n, w) = CHOOSE c \in 1 .. w :
        /\ c = w \/ n <= High(c)
        /\ \A narrower \in 1 .. c - 1 : n > High(narrower)
  BY DEF Announced, High
<1> QED
  BY <1>3, <1>4, Zenon DEF Chosen

(* The VarInt bytes of an unsigned number: the number itself, or a tag and *)
(* the bytes of the narrowest width that holds it.                         *)
LEMMA VarIntBytes ==
  ASSUME NEW w \in DOMAIN Widths, NEW n \in 0 .. Modulus(w) - 1, NEW endian \in Endians
  PROVE  LET own == EncodeUnsigned(n, w, endian)
             c == Chosen(n, w)
         IN /\ own \in Seq(Byte) /\ Len(own) = SizeOfUnsigned(n, w) /\ Len(own) > 0
            /\ n <= SingleByteMax => own[1] = n /\ Len(own) = 1
            /\ n > SingleByteMax =>
                 /\ Len(own) = 1 + Widths[c] /\ own[1] = SingleByteMax + c
                 /\ \A k \in 1 .. Widths[c] : own[1 + k] = ToBytes(n, c, endian)[k]
<1> DEFINE own == EncodeUnsigned(n, w, endian)
           c == Chosen(n, w)
           B == ToBytes(n, c, endian)
<1>1. /\ c \in 1 .. w /\ c \in DOMAIN Widths /\ n \in 0 .. Modulus(c) - 1
      /\ n \in Nat /\ w \in 1 .. Len(Widths)
  BY BaseFacts, ModulusFacts, ChosenFacts
<1>2. Widths[c] \in Nat /\ Widths[c] > 0
  BY <1>1, BaseFacts
<1>3. B \in Seq(Byte) /\ Len(B) = Widths[c]
  BY <1>1, BytesOf
<1>4. n % Modulus(c) = n
  <2>1. Modulus(c) \in Nat /\ n < Modulus(c)
    BY <1>1, ModulusFacts
  <2> QED
    BY <1>1, <2>1, Small
<1>5. own = IF n <= SingleByteMax THEN <<n>> ELSE <<SingleByteMax + c>> \o B
  BY <1>4 DEF EncodeUnsigned
<1>6. SizeOfUnsigned(n, w) = IF n <= SingleByteMax THEN 1 ELSE 1 + Widths[c]
  BY SameLadder DEF SizeOfUnsigned
<1>7. /\ n <= SingleByteMax => n \in Byte
      /\ SingleByteMax + c \in Byte
  BY <1>1, BaseFacts DEF Byte
<1> HIDE DEF own, c, B
<1>8. CASE n <= SingleByteMax
  <2>1. own = <<n>> /\ n \in Byte /\ ~(n > SingleByteMax)
    BY <1>1, <1>5, <1>7, <1>8, BaseFacts
  <2>2. own \in Seq(Byte) /\ Len(own) = 1 /\ own[1] = n
    BY <2>1
  <2> QED
    BY <1>6, <1>8, <2>1, <2>2 DEF own
<1>9. CASE ~(n <= SingleByteMax)
  <2>1. own = <<SingleByteMax + c>> \o B
    BY <1>5, <1>9
  <2>2. <<SingleByteMax + c>> \in Seq(Byte) /\ Len(<<SingleByteMax + c>>) = 1
    BY <1>7
  <2>3. own \in Seq(Byte) /\ Len(own) = 1 + Widths[c] /\ own[1] = SingleByteMax + c
    BY <1>2, <1>3, <2>1, <2>2
  <2>4. ASSUME NEW k \in 1 .. Widths[c]
        PROVE  own[1 + k] = B[k]
    BY <1>2, <1>3, <2>1, <2>2
  <2>5. Len(own) > 0
    BY <1>2, <2>3
  <2> QED
    BY <1>6, <1>9, <2>3, <2>4, <2>5 DEF own, c, B
<1> QED
  BY <1>8, <1>9

(* They are read back, whatever follows; and not at all if the last of them *)
(* are missing.                                                             *)
LEMMA VarIntInverts ==
  ASSUME NEW w \in DOMAIN Widths, NEW n \in 0 .. Modulus(w) - 1, NEW endian \in Endians,
         NEW bytes \in Seq(Nat), Len(bytes) >= SizeOfUnsigned(n, w),
         \A k \in 1 .. SizeOfUnsigned(n, w) : bytes[k] = EncodeUnsigned(n, w, endian)[k]
  PROVE  DecodeUnsigned(bytes, w, endian) = Decoded(n, SizeOfUnsigned(n, w))
<1> DEFINE own == EncodeUnsigned(n, w, endian)
           size == SizeOfUnsigned(n, w)
           c == Chosen(n, w)
<1>1. /\ own \in Seq(Byte) /\ Len(own) = size /\ size > 0 /\ size \in Nat
      /\ n <= SingleByteMax => own[1] = n /\ size = 1
      /\ n > SingleByteMax =>
           /\ size = 1 + Widths[c] /\ own[1] = SingleByteMax + c
           /\ \A k \in 1 .. Widths[c] : own[1 + k] = ToBytes(n, c, endian)[k]
  BY VarIntBytes
<1>2. /\ n \in Nat /\ c \in 1 .. w /\ c \in DOMAIN Widths /\ n \in 0 .. Modulus(c) - 1
      /\ Widths[c] \in Nat
  BY BaseFacts, ModulusFacts, ChosenFacts
<1>3. \A k \in 1 .. size : bytes[k] = own[k]
  OBVIOUS
<1> HIDE DEF own, size, c
<1>4. bytes # <<>> /\ bytes[1] = own[1]
  BY <1>1, <1>3 DEF size
<1> DEFINE tag == bytes[1] - SingleByteMax
<1>5. CASE n <= SingleByteMax
  <2>1. tag <= 0 /\ bytes[1] = n /\ size = 1
    BY <1>1, <1>2, <1>4, <1>5, BaseFacts
  <2>2. DecodeUnsigned(bytes, w, endian) = Decoded(bytes[1], 1)
    <3>1. bytes[1] \in Int /\ SingleByteMax \in Int /\ w \in Int
      BY <1>2, <2>1, BaseFacts
    <3>2. tag <= 0 /\ tag \notin WidthsTaken(w)
      BY <2>1, <3>1 DEF WidthsTaken
    <3> HIDE DEF tag
    <3> QED
      BY <1>4, <3>2 DEF DecodeUnsigned, tag
  <2> QED
    BY <2>1, <2>2 DEF size
<1>6. CASE n > SingleByteMax
  <2>1. tag = c /\ ~(c <= 0)
    BY <1>1, <1>2, <1>4, <1>6, BaseFacts
  <2>2. DecodeUnsigned(bytes, w, endian) = Take(bytes, 1, c, endian)
    <3> HIDE DEF tag
    <3>1. c \in WidthsTaken(w)
      BY <1>2 DEF WidthsTaken
    <3> QED
      BY <1>4, <2>1, <3>1 DEF DecodeUnsigned, tag
  <2>3. \A k \in 1 .. Widths[c] : bytes[1 + k] = ToBytes(n, c, endian)[k]
    <3>1. \A k \in 1 .. Widths[c] : 1 + k \in 1 .. size
      BY <1>1, <1>2, <1>6
    <3> QED
      BY <1>1, <1>3, <1>6, <3>1
  <2>4. Len(bytes) >= 1 + Widths[c] /\ size = 1 + Widths[c]
    BY <1>1, <1>6 DEF size
  <2>5. Take(bytes, 1, c, endian) = Decoded(n, 1 + Widths[c])
    BY <1>2, <2>3, <2>4, TakeBytes
  <2> QED
    BY <2>2, <2>4, <2>5 DEF size
<1> QED
  BY <1>2, <1>5, <1>6, BaseFacts

LEMMA VarIntCut ==
  ASSUME NEW w \in DOMAIN Widths, NEW n \in 0 .. Modulus(w) - 1, NEW endian \in Endians,
         NEW bytes \in Seq(Nat), Len(bytes) < SizeOfUnsigned(n, w),
         \A k \in 1 .. Len(bytes) : bytes[k] = EncodeUnsigned(n, w, endian)[k]
  PROVE  DecodeUnsigned(bytes, w, endian) = Failed
<1> DEFINE own == EncodeUnsigned(n, w, endian)
           size == SizeOfUnsigned(n, w)
           c == Chosen(n, w)
<1>1. /\ Len(own) = size /\ size > 0 /\ size \in Nat
      /\ n <= SingleByteMax => size = 1
      /\ n > SingleByteMax => size = 1 + Widths[c] /\ own[1] = SingleByteMax + c
  <2> HIDE DEF own, size, c
  <2>1. /\ own \in Seq(Byte) /\ Len(own) = size /\ Len(own) > 0
        /\ n <= SingleByteMax => own[1] = n /\ Len(own) = 1
        /\ n > SingleByteMax => Len(own) = 1 + Widths[c] /\ own[1] = SingleByteMax + c
    BY VarIntBytes DEF own, size, c
  <2> QED
    BY <2>1
<1>2. /\ n \in Nat /\ c \in 1 .. w /\ c \in DOMAIN Widths /\ Widths[c] \in Nat
  BY BaseFacts, ModulusFacts, ChosenFacts
<1>3. \A k \in 1 .. Len(bytes) : bytes[k] = own[k]
  OBVIOUS
<1>4. Len(bytes) \in Nat /\ Len(bytes) < size
  OBVIOUS
<1> HIDE DEF own, size, c
<1> DEFINE tag == bytes[1] - SingleByteMax
<1>5. CASE bytes = <<>>
  BY <1>5 DEF DecodeUnsigned
<1>6. CASE bytes # <<>>
  <2>1. 1 \in 1 .. Len(bytes)
    BY <1>4, <1>6
  <2>2. n > SingleByteMax
    BY <1>1, <1>2, <1>4, <2>1, BaseFacts
  <2>3. tag = c /\ ~(c <= 0)
    BY <1>1, <1>2, <1>3, <2>1, <2>2, BaseFacts
  <2>4. DecodeUnsigned(bytes, w, endian) = Take(bytes, 1, c, endian)
    <3> HIDE DEF tag
    <3>1. c \in WidthsTaken(w)
      BY <1>2 DEF WidthsTaken
    <3> QED
      BY <1>6, <2>3, <3>1 DEF DecodeUnsigned, tag
  <2>5. Len(bytes) < 1 + Widths[c]
    BY <1>1, <1>4, <2>2
  <2> QED
    BY <2>4, <2>5 DEF Take
<1> QED
  BY <1>5, <1>6

(* The unsigned number an encoding writes for v, and how it is written. *)
Number(v, t, coding) ==
  IF coding = "var" /\ t.signed THEN ZigZag(v, t.width) ELSE AsUnsigned(v, t.width)

LEMMA NumberFacts ==
  ASSUME NEW t \in Types, NEW coding \in Encodings, NEW endian \in Endians,
         NEW v \in Lowest(t) .. Highest(t)
  PROVE  LET n == Number(v, t, coding)
             w == t.width
         IN /\ w \in DOMAIN Widths /\ n \in 0 .. Modulus(w) - 1
            /\ coding = "fix" => /\ Encode(v, t, coding, endian) = ToBytes(n, w, endian)
                                 /\ IntSize(v, t, coding) = Widths[w]
            /\ coding = "var" => /\ Encode(v, t, coding, endian) = EncodeUnsigned(n, w, endian)
                                 /\ IntSize(v, t, coding) = SizeOfUnsigned(n, w)
            /\ ~t.signed => n = v
            /\ t.signed /\ coding = "fix" => AsSigned(n, w) = v
            /\ t.signed /\ coding = "var" => UnZigZag(n, w) = v
<1> DEFINE n == Number(v, t, coding)
           w == t.width
<1>1. w \in DOMAIN Widths /\ t.signed \in BOOLEAN
  BY DEF Types
<1>2. Modulus(w) \in Nat /\ Modulus(w) > 0
  BY <1>1, ModulusFacts
<1>3. CASE t.signed
  <2>1. v \in -(Modulus(w) \div 2) .. Modulus(w) \div 2 - 1
    BY <1>3 DEF Lowest, Highest
  <2>2. /\ AsUnsigned(v, w) \in 0 .. Modulus(w) - 1
        /\ AsSigned(AsUnsigned(v, w), w) = v
        /\ ZigZag(v, w) \in 0 .. Modulus(w) - 1
        /\ UnZigZag(ZigZag(v, w), w) = v
    BY <1>1, <2>1, CastsInvert
  <2>3. CASE coding = "fix"
    <3>1. n = AsUnsigned(v, w) /\ coding # "var"
      BY <2>3 DEF Number
    <3>2. Encode(v, t, coding, endian) = ToBytes(n, w, endian) /\ IntSize(v, t, coding) = Widths[w]
      BY <2>3, <3>1 DEF Encode, IntSize
    <3> QED
      BY <1>1, <1>3, <2>2, <2>3, <3>1, <3>2
  <2>4. CASE coding = "var"
    <3>1. n = ZigZag(v, w) /\ coding # "fix"
      BY <1>3, <2>4 DEF Number
    <3>2. /\ Encode(v, t, coding, endian) = EncodeUnsigned(n, w, endian)
          /\ IntSize(v, t, coding) = SizeOfUnsigned(n, w)
      BY <1>3, <2>4, <3>1 DEF Encode, IntSize
    <3> QED
      BY <1>1, <1>3, <2>2, <2>4, <3>1, <3>2
  <2> QED
    BY <2>3, <2>4 DEF Encodings
<1>4. CASE ~t.signed
  <2>1. v \in Nat /\ v < Modulus(w)
    BY <1>2, <1>4 DEF Lowest, Highest
  <2>2. n = v
    BY <1>2, <1>4, <2>1, Small DEF Number, AsUnsigned
  <2>3. n \in 0 .. Modulus(w) - 1
    BY <1>2, <2>1, <2>2
  <2>4. coding = "fix" => /\ Encode(v, t, coding, endian) = ToBytes(n, w, endian)
                          /\ IntSize(v, t, coding) = Widths[w]
    BY <1>4 DEF Encode, IntSize, Number
  <2>5. coding = "var" => /\ Encode(v, t, coding, endian) = EncodeUnsigned(n, w, endian)
                          /\ IntSize(v, t, coding) = SizeOfUnsigned(n, w)
    BY <1>4, <2>2 DEF Encode, IntSize
  <2> QED
    BY <1>1, <1>4, <2>2, <2>3, <2>4, <2>5
<1> QED
  BY <1>1, <1>3, <1>4

LEMMA EncodedSize ==
  ASSUME NEW t \in Types, NEW coding \in Encodings, NEW endian \in Endians,
         NEW v \in Lowest(t) .. Highest(t)
  PROVE  /\ Encode(v, t, coding, endian) \in Seq(Byte)
         /\ Len(Encode(v, t, coding, endian)) = IntSize(v, t, coding)
         /\ IntSize(v, t, coding) \in Nat
<1> DEFINE n == Number(v, t, coding)
           w == t.width
<1>1. /\ w \in DOMAIN Widths /\ n \in 0 .. Modulus(w) - 1
      /\ coding = "fix" => /\ Encode(v, t, coding, endian) = ToBytes(n, w, endian)
                           /\ IntSize(v, t, coding) = Widths[w]
      /\ coding = "var" => /\ Encode(v, t, coding, endian) = EncodeUnsigned(n, w, endian)
                           /\ IntSize(v, t, coding) = SizeOfUnsigned(n, w)
  BY NumberFacts
<1> HIDE DEF n, w
<1>2. n \in Nat
  BY <1>1, ModulusFacts
<1>3. ToBytes(n, w, endian) \in Seq(Byte) /\ Len(ToBytes(n, w, endian)) = Widths[w]
  BY <1>1, <1>2, BytesOf
<1>4. /\ EncodeUnsigned(n, w, endian) \in Seq(Byte)
      /\ Len(EncodeUnsigned(n, w, endian)) = SizeOfUnsigned(n, w)
  BY <1>1, VarIntBytes
<1>5. /\ Len(Encode(v, t, coding, endian)) = IntSize(v, t, coding)
      /\ Encode(v, t, coding, endian) \in Seq(Byte)
  BY <1>1, <1>3, <1>4 DEF Encodings
<1> QED
  BY <1>5

LEMMA WithValue ==
  ASSUME NEW n, NEW used, NEW x
  PROVE  Decoded(n, used).value = n /\ [Decoded(n, used) EXCEPT !.value = x] = Decoded(x, used)
<1>1. ASSUME NEW ok
      PROVE  [[ok |-> ok, value |-> n, used |-> used] EXCEPT !.value = x]
               = [ok |-> ok, value |-> x, used |-> used]
  OBVIOUS
<1>2. [Decoded(n, used) EXCEPT !.value = x] = Decoded(x, used)
  BY <1>1, Zenon DEF Decoded
<1> QED
  BY <1>2 DEF Decoded

(* What Decode makes of the unsigned number that was read *)
LEMMA DecodeBySign ==
  ASSUME NEW t, t.signed \in BOOLEAN, NEW coding \in Encodings, NEW endian, NEW bytes
  PROVE  LET n == IF coding = "fix" THEN Take(bytes, 0, t.width, endian)
                                 ELSE DecodeUnsigned(bytes, t.width, endian)
         IN Decode(bytes, t, coding, endian) =
              IF ~t.signed THEN n
              ELSE IF coding = "fix" THEN [n EXCEPT !.value = AsSigned(n.value, t.width)]
              ELSE [n EXCEPT !.value = UnZigZag(n.value, t.width)]
<1> DEFINE n == IF coding = "fix" THEN Take(bytes, 0, t.width, endian)
                               ELSE DecodeUnsigned(bytes, t.width, endian)
           fix == [n EXCEPT !.value = AsSigned(n.value, t.width)]
           var == [n EXCEPT !.value = UnZigZag(n.value, t.width)]
<1>1. Decode(bytes, t, coding, endian) =
        CASE ~t.signed -> n [] t.signed /\ coding = "fix" -> fix [] OTHER -> var
  BY DEF Decode
<1> HIDE DEF n, fix, var
<1>2. (CASE ~t.signed -> n [] t.signed /\ coding = "fix" -> fix [] OTHER -> var) =
        IF ~t.signed THEN n ELSE IF coding = "fix" THEN fix ELSE var
  BY SMT
<1> QED
  BY <1>1, <1>2 DEF n, fix, var

(* Every integer type reads back, in either encoding and byte order, the value *)
(* that was written, and takes exactly the bytes that size_of announced,       *)
(* whatever follows them (int_encoding.rs).                                    *)
THEOREM IntegerRoundTrip ==
  ASSUME NEW t \in Types, NEW coding \in Encodings, NEW endian \in Endians,
         NEW v \in Lowest(t) .. Highest(t),
         NEW bytes \in Seq(Nat), Len(bytes) >= IntSize(v, t, coding),
         \A k \in 1 .. IntSize(v, t, coding) : bytes[k] = Encode(v, t, coding, endian)[k]
  PROVE  Decode(bytes, t, coding, endian) = Decoded(v, IntSize(v, t, coding))
<1> DEFINE n == Number(v, t, coding)
           w == t.width
<1>1. /\ w \in DOMAIN Widths /\ n \in 0 .. Modulus(w) - 1
      /\ coding = "fix" => /\ Encode(v, t, coding, endian) = ToBytes(n, w, endian)
                           /\ IntSize(v, t, coding) = Widths[w]
      /\ coding = "var" => /\ Encode(v, t, coding, endian) = EncodeUnsigned(n, w, endian)
                           /\ IntSize(v, t, coding) = SizeOfUnsigned(n, w)
      /\ ~t.signed => n = v
      /\ t.signed /\ coding = "fix" => AsSigned(n, w) = v
      /\ t.signed /\ coding = "var" => UnZigZag(n, w) = v
  BY NumberFacts
<1>2. t.signed \in BOOLEAN
  BY DEF Types
<1> HIDE DEF n
<1>3. ASSUME NEW used
      PROVE  LET d == Decoded(n, used)
             IN /\ [d EXCEPT !.value = AsSigned(d.value, w)] = Decoded(AsSigned(n, w), used)
                /\ [d EXCEPT !.value = UnZigZag(d.value, w)] = Decoded(UnZigZag(n, w), used)
  BY WithValue
<1> DEFINE d == IF coding = "fix" THEN Take(bytes, 0, w, endian)
                               ELSE DecodeUnsigned(bytes, w, endian)
<1>4. Decode(bytes, t, coding, endian) =
        IF ~t.signed THEN d
        ELSE IF coding = "fix" THEN [d EXCEPT !.value = AsSigned(d.value, w)]
        ELSE [d EXCEPT !.value = UnZigZag(d.value, w)]
  BY <1>2, DecodeBySign
<1>5. CASE coding = "fix"
  <2>1. 0 \in Nat /\ Widths[w] \in Nat /\ 0 + Widths[w] = Widths[w] /\ \A k \in Nat : 0 + k = k
    BY <1>1, BaseFacts
  <2>2. \A k \in 1 .. Widths[w] : bytes[0 + k] = ToBytes(n, w, endian)[k]
    BY <1>1, <1>5, <2>1
  <2>3. Len(bytes) >= 0 + Widths[w]
    BY <1>1, <1>5, <2>1
  <2>4. Take(bytes, 0, w, endian) = Decoded(n, Widths[w])
    BY <1>1, <2>1, <2>2, <2>3, TakeBytes
  <2>5. d = Decoded(n, Widths[w]) /\ coding # "var"
    BY <1>5, <2>4
  <2> HIDE DEF d, w
  <2> QED
    BY <1>1, <1>2, <1>3, <1>5, <1>4, <2>5, Zenon
<1>6. CASE coding = "var"
  <2>1. DecodeUnsigned(bytes, w, endian) = Decoded(n, SizeOfUnsigned(n, w))
    BY <1>1, <1>6, VarIntInverts
  <2>2. d = Decoded(n, SizeOfUnsigned(n, w)) /\ coding # "fix"
    BY <1>6, <2>1
  <2> HIDE DEF d, w
  <2> QED
    BY <1>1, <1>2, <1>3, <1>6, <1>4, <2>2, Zenon
<1> QED
  BY <1>5, <1>6 DEF Encodings

(* An integer whose bytes end early is an error, never another integer. *)
THEOREM CutIntegerFails ==
  ASSUME NEW t \in Types, NEW coding \in Encodings, NEW endian \in Endians,
         NEW v \in Lowest(t) .. Highest(t),
         NEW bytes \in Seq(Nat), Len(bytes) < IntSize(v, t, coding),
         \A k \in 1 .. Len(bytes) : bytes[k] = Encode(v, t, coding, endian)[k]
  PROVE  ~Decode(bytes, t, coding, endian).ok
<1> DEFINE n == Number(v, t, coding)
           w == t.width
<1>1. /\ w \in DOMAIN Widths /\ n \in 0 .. Modulus(w) - 1
      /\ coding = "fix" => IntSize(v, t, coding) = Widths[w]
      /\ coding = "var" => /\ Encode(v, t, coding, endian) = EncodeUnsigned(n, w, endian)
                           /\ IntSize(v, t, coding) = SizeOfUnsigned(n, w)
  BY NumberFacts
<1>2. t.signed \in BOOLEAN /\ (t.signed \/ ~t.signed)
  BY DEF Types
<1> HIDE DEF n
<1>3. /\ ~Failed.ok
      /\ ~[Failed EXCEPT !.value = AsSigned(@, w)].ok
      /\ ~[Failed EXCEPT !.value = UnZigZag(@, w)].ok
  BY DEF Failed
<1>4. CASE coding = "fix"
  <2>1. Len(bytes) < 0 + Widths[w]
    BY <1>1, <1>4, BaseFacts
  <2>2. Take(bytes, 0, w, endian) = Failed
    BY <2>1 DEF Take
  <2> QED
    BY <1>2, <1>3, <1>4, <2>2 DEF Decode
<1>5. CASE coding = "var"
  <2>1. DecodeUnsigned(bytes, w, endian) = Failed
    BY <1>1, <1>5, VarIntCut
  <2> QED
    BY <1>2, <1>3, <1>5, <2>1 DEF Decode
<1> QED
  BY <1>4, <1>5 DEF Encodings

LEMMA ReadBack ==
  ASSUME NEW t \in Types, NEW coding \in Encodings, NEW v \in Lowest(t) .. Highest(t)
  PROVE  Decode(Encode(v, t, coding, "little"), t, coding, "little").value = v
<1> DEFINE own == Encode(v, t, coding, "little")
<1>1. "little" \in Endians
  BY DEF Endians
<1>2. own \in Seq(Byte) /\ Len(own) = IntSize(v, t, coding) /\ IntSize(v, t, coding) \in Nat
  BY <1>1, EncodedSize
<1>3. own \in Seq(Nat)
  BY <1>2, BaseFacts DEF Byte
<1>4. Decode(own, t, coding, "little") = Decoded(v, IntSize(v, t, coding))
  <2>1. Len(own) >= IntSize(v, t, coding)
    BY <1>2
  <2> QED
    BY <1>1, <1>3, <2>1, IntegerRoundTrip
<1> QED
  BY <1>4 DEF Decoded

(* Every integer type decodes what it encoded (int_encoding.rs). *)
THEOREM IntegerTypesReadBack == IntegersReadBack
BY ReadBack DEF IntegersReadBack

-----------------------------------------------------------------------------
(* Chars *)

Octet == 0 .. 255

(* A lead byte and its continuation bytes, as the decoder wants them *)
WellFormed(bytes) ==
  /\ Len(bytes) \in 1 .. 4 /\ Len(bytes) = CharBytes(bytes[1])
  /\ \A k \in 2 .. Len(bytes) : bytes[k] \in Continuation
  /\ Len(bytes) > 1 => ~OutOfRange(bytes[1], bytes[2])

(* The digits of a number in base 64 *)
LEMMA Sixtyfour ==
  ASSUME NEW n \in Nat
  PROVE  /\ (n \div 1) = n
         /\ n = 64 * (n \div 64) + (n % 64) /\ (n % 64) \in 0 .. 63 /\ (n \div 64) \in Nat
         /\ (n \div 4096) = ((n \div 64) \div 64) /\ (n \div 262144) = ((n \div 4096) \div 64)
OBVIOUS

(* The members of a short sequence *)
LEMMA Members ==
  ASSUME NEW S, NEW p \in S, NEW q \in S, NEW r \in S, NEW t \in S
  PROVE  /\ <<p>> \in Seq(S) /\ Len(<<p>>) = 1 /\ <<p>>[1] = p
         /\ <<p, q>> \in Seq(S) /\ Len(<<p, q>>) = 2 /\ <<p, q>>[1] = p /\ <<p, q>>[2] = q
         /\ <<p, q, r>> \in Seq(S) /\ Len(<<p, q, r>>) = 3
         /\ <<p, q, r>>[1] = p /\ <<p, q, r>>[2] = q /\ <<p, q, r>>[3] = r
         /\ <<p, q, r, t>> \in Seq(S) /\ Len(<<p, q, r, t>>) = 4
         /\ <<p, q, r, t>>[1] = p /\ <<p, q, r, t>>[2] = q
         /\ <<p, q, r, t>>[3] = r /\ <<p, q, r, t>>[4] = t
OBVIOUS

LEMMA ByMembers ==
  ASSUME NEW S, NEW s \in Seq(S)
  PROVE  /\ Len(s) = 1 => s = <<s[1]>>
         /\ Len(s) = 2 => s = <<s[1], s[2]>>
         /\ Len(s) = 3 => s = <<s[1], s[2], s[3]>>
         /\ Len(s) = 4 => s = <<s[1], s[2], s[3], s[4]>>
OBVIOUS

LEMMA CharBytesFacts ==
  /\ \A lead \in 0 .. 127 : CharBytes(lead) = 1
  /\ \A lead \in 194 .. 223 : CharBytes(lead) = 2
  /\ \A lead \in 224 .. 239 : CharBytes(lead) = 3
  /\ \A lead \in 240 .. 244 : CharBytes(lead) = 4
  /\ \A lead \in Nat : \/ lead \in 0 .. 127 \/ lead \in 194 .. 223
                       \/ lead \in 224 .. 239 \/ lead \in 240 .. 244
                       \/ CharBytes(lead) = 0
  /\ \A lead : CharBytes(lead) \in 0 .. 4
BY DEF CharBytes

(* What char::encode_utf8 writes has the form the decoder wants. *)
LEMMA EncodedForm ==
  ASSUME NEW code \in Nat, Scalar(code)
  PROVE  /\ Utf8(code) \in Seq(Octet)
         /\ WellFormed(Utf8(code))
         /\ CodePoint(Utf8(code)) = code
<1> DEFINE u == Utf8(code)
           a == (code \div 64)
           x == (code % 64)
           b == (a \div 64)
           y == (a % 64)
           c == (b \div 64)
           z == (b % 64)
<1>1. /\ a \in Nat /\ b \in Nat /\ c \in Nat
      /\ x \in 0 .. 63 /\ y \in 0 .. 63 /\ z \in 0 .. 63
      /\ code = 64 * a + x /\ a = 64 * b + y /\ b = 64 * c + z
      /\ (code \div 1) = code
  BY Sixtyfour
<1>2. (code \div 4096) = b /\ (code \div 262144) = c
  <2>1. (code \div 4096) = b
    BY Sixtyfour
  <2>2. (code \div 262144) = ((code \div 4096) \div 64)
    BY Sixtyfour
  <2> QED
    BY <2>1, <2>2
<1>3. /\ (code \div 64) = a
      /\ ((code \div 1) % 64) = x /\ ((code \div 64) % 64) = y /\ ((code \div 4096) % 64) = z
  BY <1>1, <1>2
<1> HIDE DEF a, b, c, x, y, z
<1>4. u = IF code < 128 THEN <<code>>
          ELSE IF code < 2048 THEN <<192 + a, 128 + x>>
          ELSE IF code < 65536 THEN <<224 + b, 128 + y, 128 + x>>
          ELSE <<240 + c, 128 + z, 128 + y, 128 + x>>
  BY <1>2, <1>3, SMT DEF Utf8
<1>5. /\ 128 + x \in Octet /\ 128 + y \in Octet /\ 128 + z \in Octet
      /\ 128 + x \in Continuation /\ 128 + y \in Continuation /\ 128 + z \in Continuation
      /\ ((128 + x) % 64) = x /\ ((128 + y) % 64) = y /\ ((128 + z) % 64) = z
  BY <1>1, SMT DEF Octet, Continuation
<1> HIDE DEF u
<1>6. CASE code < 128
  <2>1. u = <<code>> /\ code \in Octet /\ CharBytes(code) = 1
    BY <1>4, <1>6, CharBytesFacts, SMT DEF Octet
  <2>2. u \in Seq(Octet) /\ Len(u) = 1 /\ u[1] = code
    BY <2>1, Members
  <2> QED
    BY <2>1, <2>2, SMT DEF u, WellFormed, CodePoint
<1>7. CASE 128 <= code /\ code < 2048
  <2> DEFINE lead == 192 + a
             second == 128 + x
  <2>1. u = <<lead, second>> /\ a \in 2 .. 31
    BY <1>1, <1>4, <1>7, SMT
  <2>2. lead \in Octet /\ lead \in 194 .. 223 /\ (lead % 32) = a
    BY <2>1, SMT DEF Octet
  <2>3. CharBytes(lead) = 2 /\ ~OutOfRange(lead, second)
    BY <2>2, CharBytesFacts, SMT DEF OutOfRange
  <2> HIDE DEF lead, second
  <2>4. second \in Octet /\ second \in Continuation /\ (second % 64) = x
    BY <1>5 DEF second
  <2>5. u \in Seq(Octet) /\ Len(u) = 2 /\ u[1] = lead /\ u[2] = second
    BY <2>1, <2>2, <2>4, Members
  <2>6. CodePoint(u) = a * 64 + x
    BY <2>2, <2>4, <2>5, SMT DEF CodePoint
  <2>7. WellFormed(u)
    BY <2>3, <2>4, <2>5, SMT DEF WellFormed
  <2> QED
    BY <1>1, <2>5, <2>6, <2>7, SMT DEF u
<1>8. CASE 2048 <= code /\ code < 65536
  <2> DEFINE lead == 224 + b
             second == 128 + y
             third == 128 + x
  <2>1. u = <<lead, second, third>> /\ b \in 0 .. 15
    BY <1>1, <1>4, <1>8, SMT
  <2>2. lead \in Octet /\ lead \in 224 .. 239 /\ (lead % 16) = b
    BY <2>1, SMT DEF Octet
  <2>3. (b = 0 => y >= 32) /\ (b = 13 => y < 32)
    BY <1>1, <1>8, SMT DEF Scalar
  <2>4. CharBytes(lead) = 3 /\ ~OutOfRange(lead, second)
    BY <1>1, <2>2, <2>1, <2>3, CharBytesFacts, SMT DEF OutOfRange
  <2> HIDE DEF lead, second, third
  <2>5. /\ second \in Octet /\ second \in Continuation /\ (second % 64) = y
        /\ third \in Octet /\ third \in Continuation /\ (third % 64) = x
    BY <1>5 DEF second, third
  <2>6. u \in Seq(Octet) /\ Len(u) = 3 /\ u[1] = lead /\ u[2] = second /\ u[3] = third
    BY <2>1, <2>2, <2>5, Members
  <2>7. CodePoint(u) = b * 4096 + y * 64 + x
    BY <2>2, <2>5, <2>6, SMT DEF CodePoint
  <2>8. WellFormed(u)
    BY <2>4, <2>5, <2>6, SMT DEF WellFormed
  <2>9. code = b * 4096 + y * 64 + x
    BY <1>1, SMT
  <2> QED
    BY <2>6, <2>7, <2>8, <2>9 DEF u
<1>9. CASE 65536 <= code
  <2> DEFINE lead == 240 + c
             second == 128 + z
             third == 128 + y
             fourth == 128 + x
  <2>1. u = <<lead, second, third, fourth>> /\ c \in 0 .. 4
    BY <1>1, <1>4, <1>9, SMT DEF Scalar
  <2>2. lead \in Octet /\ lead \in 240 .. 244 /\ (lead % 8) = c
    BY <2>1, SMT DEF Octet
  <2>3. (c = 0 => z >= 16) /\ (c = 4 => z < 16)
    BY <1>1, <1>9, SMT DEF Scalar
  <2>4. CharBytes(lead) = 4 /\ ~OutOfRange(lead, second)
    BY <1>1, <2>2, <2>1, <2>3, CharBytesFacts, SMT DEF OutOfRange
  <2> HIDE DEF lead, second, third, fourth
  <2>5. /\ second \in Octet /\ second \in Continuation /\ (second % 64) = z
        /\ third \in Octet /\ third \in Continuation /\ (third % 64) = y
        /\ fourth \in Octet /\ fourth \in Continuation /\ (fourth % 64) = x
    BY <1>5 DEF second, third, fourth
  <2>6. /\ u \in Seq(Octet) /\ Len(u) = 4
        /\ u[1] = lead /\ u[2] = second /\ u[3] = third /\ u[4] = fourth
    BY <2>1, <2>2, <2>5, Members
  <2>7. CodePoint(u) = c * 262144 + z * 4096 + y * 64 + x
    BY <2>2, <2>5, <2>6, SMT DEF CodePoint
  <2>8. WellFormed(u)
    BY <2>4, <2>5, <2>6, SMT DEF WellFormed
  <2>9. code = c * 262144 + z * 4096 + y * 64 + x
    BY <1>1, SMT
  <2> QED
    BY <2>6, <2>7, <2>8, <2>9, SMT DEF u
<1> QED
  BY <1>6, <1>7, <1>8, <1>9, SMT

(* What has that form is what char::encode_utf8 writes for its code point. *)
LEMMA FormIsEncoded ==
  ASSUME NEW bytes \in Seq(Octet), WellFormed(bytes)
  PROVE  IsChar(bytes)
<1> DEFINE n == Len(bytes)
           lead == bytes[1]
           second == bytes[2]
           third == bytes[3]
           fourth == bytes[4]
           code == CodePoint(bytes)
<1>1. n \in 1 .. 4 /\ n = CharBytes(lead) /\ lead \in Nat
  <2>1. n \in 1 .. 4 /\ n = CharBytes(lead)
    BY DEF WellFormed
  <2>2. 1 \in 1 .. n
    BY <2>1
  <2>3. lead \in Octet
    BY <2>2
  <2> HIDE DEF n, lead
  <2> QED
    BY <2>1, <2>3 DEF Octet
<1>2. \/ n = 1 /\ lead \in 0 .. 127
      \/ n = 2 /\ lead \in 194 .. 223
      \/ n = 3 /\ lead \in 224 .. 239
      \/ n = 4 /\ lead \in 240 .. 244
  <2> HIDE DEF n, lead
  <2>1. CharBytes(lead) # 0
    BY <1>1
  <2>2. lead \in 0 .. 127 \/ lead \in 194 .. 223 \/ lead \in 224 .. 239 \/ lead \in 240 .. 244
    BY <1>1, <2>1, CharBytesFacts
  <2>3. /\ lead \in 0 .. 127 => CharBytes(lead) = 1
        /\ lead \in 194 .. 223 => CharBytes(lead) = 2
        /\ lead \in 224 .. 239 => CharBytes(lead) = 3
        /\ lead \in 240 .. 244 => CharBytes(lead) = 4
    BY CharBytesFacts
  <2>4. n = CharBytes(lead)
    BY <1>1
  <2> DEFINE one == lead \in 0 .. 127
             two == lead \in 194 .. 223
             three == lead \in 224 .. 239
             four == lead \in 240 .. 244
  <2>5. (one \/ two \/ three \/ four) /\ (one => n = 1) /\ (two => n = 2)
    BY <2>2, <2>3, <2>4
  <2>6. (three => n = 3) /\ (four => n = 4)
    BY <2>3, <2>4
  <2> HIDE DEF one, two, three, four
  <2>7. \/ n = 1 /\ one
        \/ n = 2 /\ two
        \/ n = 3 /\ three
        \/ n = 4 /\ four
    BY <2>5, <2>6, Zenon
  <2> QED
    BY <2>7, Zenon DEF one, two, three, four
<1>3. /\ n >= 2 => second \in 128 .. 191
      /\ n >= 3 => third \in 128 .. 191
      /\ n >= 4 => fourth \in 128 .. 191
  <2>1. \A k \in 2 .. n : bytes[k] \in 128 .. 191
    BY DEF WellFormed, Continuation
  <2> QED
    BY <1>1, <2>1
<1>4. n > 1 => ~OutOfRange(lead, second)
  BY DEF WellFormed
<1>5. bytes = IF n = 1 THEN <<lead>>
              ELSE IF n = 2 THEN <<lead, second>>
              ELSE IF n = 3 THEN <<lead, second, third>>
              ELSE <<lead, second, third, fourth>>
  BY <1>2, ByMembers
<1>6. SUFFICES Scalar(code) /\ Utf8(code) = bytes
  BY DEF IsChar
<1> HIDE DEF n, lead, second, third, fourth, code
<1>7. CASE n = 1
  <2>1. lead \in 0 .. 127 /\ bytes = <<lead>>
    BY <1>2, <1>5, <1>7
  <2>2. code = lead
    BY <1>7, SMT DEF code, n, lead, second, third, fourth, CodePoint
  <2> QED
    BY <2>1, <2>2, SMT DEF Scalar, Utf8
<1>8. CASE n = 2
  <2> DEFINE a == lead - 192
             x == second - 128
  <2>1. lead \in 194 .. 223 /\ second \in 128 .. 191 /\ bytes = <<lead, second>>
    BY <1>2, <1>3, <1>5, <1>8
  <2>2. /\ a \in 2 .. 31 /\ x \in 0 .. 63 /\ (lead % 32) = a /\ (second % 64) = x
        /\ lead = 192 + a /\ second = 128 + x
    BY <2>1, SMT
  <2>3. bytes = <<192 + a, 128 + x>>
    BY <2>1, <2>2
  <2> HIDE DEF a, x
  <2>4. code = 64 * a + x
    <3>1. code = (lead % 32) * 64 + (second % 64)
      BY <1>8, SMT DEF code, n, lead, second, third, fourth, CodePoint
    <3> QED
      BY <2>2, <3>1, SMT
  <2>5. /\ code \in Nat /\ 128 <= code /\ code < 2048 /\ (code \div 64) = a /\ (code % 64) = x
        /\ (code \div 1) = code
    BY <2>2, <2>4, SMT
  <2>6. Utf8(code) = <<192 + a, 128 + x>>
    BY <2>5, SMT DEF Utf8
  <2> QED
    BY <2>3, <2>5, <2>6, SMT DEF Scalar
<1>9. CASE n = 3
  <2> DEFINE b == lead - 224
             y == second - 128
             x == third - 128
  <2>1. /\ lead \in 224 .. 239 /\ second \in 128 .. 191 /\ third \in 128 .. 191
        /\ bytes = <<lead, second, third>> /\ ~OutOfRange(lead, second)
    BY <1>2, <1>3, <1>4, <1>5, <1>9
  <2>2. /\ b \in 0 .. 15 /\ x \in 0 .. 63 /\ y \in 0 .. 63
        /\ (lead % 16) = b /\ (second % 64) = y /\ (third % 64) = x
        /\ lead = 224 + b /\ second = 128 + y /\ third = 128 + x
    BY <2>1, SMT
  <2>3. bytes = <<224 + b, 128 + y, 128 + x>>
    BY <2>1, <2>2
  <2> HIDE DEF b, x, y
  <2>4. (b = 0 => y >= 32) /\ (b = 13 => y < 32)
    BY <2>1, <2>2, SMT DEF OutOfRange
  <2>5. code = 4096 * b + 64 * y + x
    <3>1. code = (lead % 16) * 4096 + (second % 64) * 64 + (third % 64)
      BY <1>9, SMT DEF code, n, lead, second, third, fourth, CodePoint
    <3> QED
      BY <2>2, <3>1, SMT
  <2>6. /\ code \in Nat /\ 2048 <= code /\ code < 65536 /\ (code \div 1) = code
        /\ (code \div 64) = 64 * b + y /\ (code % 64) = x
        /\ (code \div 4096) = b /\ ((64 * b + y) % 64) = y
    BY <2>2, <2>4, <2>5, SMT
  <2>7. Utf8(code) = <<224 + b, 128 + y, 128 + x>>
    <3>1. ((code \div 1) % 64) = x /\ ((code \div 64) % 64) = y
      BY <2>6
    <3>2. /\ code \in Nat /\ ~(code < 128) /\ ~(code < 2048) /\ code < 65536
          /\ (code \div 4096) = b
      BY <2>6, SMT
    <3> QED
      BY <3>1, <3>2, SMT DEF Utf8
  <2>8. Scalar(code)
    BY <2>2, <2>4, <2>5, <2>6, SMT DEF Scalar
  <2> QED
    BY <2>3, <2>7, <2>8
<1>10. CASE n = 4
  <2> DEFINE c == lead - 240
             z == second - 128
             y == third - 128
             x == fourth - 128
  <2>1. /\ lead \in 240 .. 244 /\ second \in 128 .. 191
        /\ third \in 128 .. 191 /\ fourth \in 128 .. 191
        /\ bytes = <<lead, second, third, fourth>> /\ ~OutOfRange(lead, second)
    BY <1>2, <1>3, <1>4, <1>5, <1>10
  <2>2. /\ c \in 0 .. 4 /\ x \in 0 .. 63 /\ y \in 0 .. 63 /\ z \in 0 .. 63
        /\ (lead % 8) = c
        /\ (second % 64) = z /\ (third % 64) = y /\ (fourth % 64) = x
        /\ lead = 240 + c /\ second = 128 + z /\ third = 128 + y /\ fourth = 128 + x
    BY <2>1, SMT
  <2>3. bytes = <<240 + c, 128 + z, 128 + y, 128 + x>>
    BY <2>1, <2>2
  <2> HIDE DEF c, x, y, z
  <2>4. (c = 0 => z >= 16) /\ (c = 4 => z < 16)
    BY <2>1, <2>2, SMT DEF OutOfRange
  <2>5. code = 262144 * c + 4096 * z + 64 * y + x
    <3>1. code = (lead % 8) * 262144 + (second % 64) * 4096
                   + (third % 64) * 64 + (fourth % 64)
      BY <1>10, SMT DEF code, n, lead, second, third, fourth, CodePoint
    <3> QED
      BY <2>2, <3>1, SMT
  <2>6. /\ code \in Nat /\ 65536 <= code /\ code <= 1114111 /\ (code \div 1) = code
        /\ (code \div 64) = 4096 * c + 64 * z + y /\ (code % 64) = x
        /\ ((4096 * c + 64 * z + y) % 64) = y
        /\ (code \div 4096) = 64 * c + z /\ ((64 * c + z) % 64) = z
        /\ (code \div 262144) = c
    BY <2>2, <2>4, <2>5, SMT
  <2>7. Utf8(code) = <<240 + c, 128 + z, 128 + y, 128 + x>>
    <3>1. /\ ((code \div 1) % 64) = x /\ ((code \div 64) % 64) = y
          /\ ((code \div 4096) % 64) = z
      BY <2>6
    <3>2. /\ code \in Nat /\ ~(code < 128) /\ ~(code < 2048) /\ ~(code < 65536)
          /\ (code \div 262144) = c
      BY <2>6, SMT
    <3> QED
      BY <3>1, <3>2, SMT DEF Utf8
  <2> QED
    BY <2>3, <2>6, <2>7, SMT DEF Scalar
<1> QED
  BY <1>1, <1>7, <1>8, <1>9, <1>10, SMT

(* The chars are the sequences of that form. *)
LEMMA CharForm ==
  ASSUME NEW bytes \in Seq(Octet), Len(bytes) \in 1 .. 4
  PROVE  IsChar(bytes) <=> WellFormed(bytes)
<1>1. ASSUME IsChar(bytes) PROVE WellFormed(bytes)
  <2>1. CodePoint(bytes) \in Nat
    <3>1. \A k \in 1 .. Len(bytes) : bytes[k] \in Nat
      <4>1. \A k \in 1 .. Len(bytes) : bytes[k] \in Octet
        OBVIOUS
      <4>2. Octet \subseteq Nat
        BY DEF Octet
      <4> QED
        BY <4>1, <4>2
    <3>2. \A v \in Nat : (v % 8) \in Nat /\ (v % 16) \in Nat /\ (v % 32) \in Nat /\ (v % 64) \in Nat
      OBVIOUS
    <3>3. CASE Len(bytes) = 1
      <4>1. CodePoint(bytes) = bytes[1]
        BY <3>3, SMT DEF CodePoint
      <4> QED
        BY <3>1, <3>3, <4>1
    <3>4. CASE Len(bytes) = 2
      <4> DEFINE p == (bytes[1] % 32)
                 q == (bytes[2] % 64)
      <4>1. p \in Nat /\ q \in Nat
        BY <3>1, <3>2, <3>4
      <4>2. CodePoint(bytes) = p * 64 + q
        BY <3>4, SMT DEF CodePoint
      <4> HIDE DEF p, q
      <4> QED
        BY <4>1, <4>2, SMT
    <3>5. CASE Len(bytes) = 3
      <4> DEFINE p == (bytes[1] % 16)
                 q == (bytes[2] % 64)
                 r == (bytes[3] % 64)
      <4>1. p \in Nat /\ q \in Nat /\ r \in Nat
        BY <3>1, <3>2, <3>5
      <4>2. CodePoint(bytes) = p * 4096 + q * 64 + r
        BY <3>5, SMT DEF CodePoint
      <4> HIDE DEF p, q, r
      <4> QED
        BY <4>1, <4>2, SMT
    <3>6. CASE Len(bytes) = 4
      <4> DEFINE p == (bytes[1] % 8)
                 q == (bytes[2] % 64)
                 r == (bytes[3] % 64)
                 t == (bytes[4] % 64)
      <4>1. bytes[1] \in Nat /\ bytes[2] \in Nat /\ bytes[3] \in Nat /\ bytes[4] \in Nat
        BY <3>1, <3>6
      <4>2. p \in Nat /\ q \in Nat /\ r \in Nat /\ t \in Nat
        BY <3>2, <4>1
      <4>3. CodePoint(bytes) = p * 262144 + q * 4096 + r * 64 + t
        BY <3>6, SMT DEF CodePoint
      <4> HIDE DEF p, q, r, t
      <4> QED
        BY <4>2, <4>3, SMT
    <3> QED
      BY <3>3, <3>4, <3>5, <3>6
  <2>2. Scalar(CodePoint(bytes)) /\ Utf8(CodePoint(bytes)) = bytes
    BY <1>1 DEF IsChar
  <2>3. WellFormed(Utf8(CodePoint(bytes)))
    BY <2>1, <2>2, EncodedForm
  <2> QED
    BY <2>2, <2>3
<1> QED
  BY <1>1, FormIsEncoded

(* A char at the front is as long as the lead byte says. *)
LEMMA CharAtFront ==
  ASSUME NEW bytes \in Seq(Octet), NEW n \in 1 .. 4, n <= Len(bytes)
  PROVE  /\ SubSeq(bytes, 1, n) \in Seq(Octet) /\ Len(SubSeq(bytes, 1, n)) = n
         /\ \A k \in 1 .. n : SubSeq(bytes, 1, n)[k] = bytes[k]
         /\ IsChar(SubSeq(bytes, 1, n)) <=>
              /\ n = CharBytes(bytes[1]) /\ \A k \in 2 .. n : bytes[k] \in Continuation
              /\ n > 1 => ~OutOfRange(bytes[1], bytes[2])
<1> DEFINE taken == SubSeq(bytes, 1, n)
<1>1. \A i \in 1 .. n : bytes[i] \in Octet
  OBVIOUS
<1>2. /\ taken \in Seq(Octet) /\ Len(taken) = n
      /\ \A k \in 1 .. n : taken[k] = bytes[k]
  BY <1>1, SubSeqProperties
<1> HIDE DEF taken
<1>3. IsChar(taken) <=> WellFormed(taken)
  BY <1>2, CharForm
<1>4. taken[1] = bytes[1] /\ (n > 1 => taken[2] = bytes[2])
  BY <1>2
<1>5. (\A k \in 2 .. n : taken[k] \in Continuation) <=> (\A k \in 2 .. n : bytes[k] \in Continuation)
  BY <1>2
<1>6. WellFormed(taken) <=>
        /\ n = CharBytes(bytes[1]) /\ \A k \in 2 .. n : bytes[k] \in Continuation
        /\ n > 1 => ~OutOfRange(bytes[1], bytes[2])
  BY <1>2, <1>4, <1>5 DEF WellFormed
<1> QED
  BY <1>2, <1>3, <1>6 DEF taken

(* From every number up to L that is not in Stop there is a jump down. *)
JumpsDown(L, Stop, Jump) == \A k \in 0 .. L : k \notin Stop => Jump[k] \in 1 .. k

(* f takes each number to where it lands. *)
Lands(f, L, Stop, Jump) ==
  /\ f \in [0 .. L -> Nat]
  /\ \A k \in 0 .. L : f[k] = IF k \in Stop THEN k ELSE f[k - Jump[k]]

(* A recursion that jumps down until it stops has a solution. *)
LEMMA Jumps ==
  ASSUME NEW L \in Nat, NEW Stop, NEW Jump, JumpsDown(L, Stop, Jump)
  PROVE  \E f : Lands(f, L, Stop, Jump)
<1> DEFINE Value(f, k) == IF k \in Stop THEN k ELSE f[k - Jump[k]]
           Solves(f, l) == \A k \in 0 .. l : f[k] = Value(f, k)
           S == {l \in Nat : l <= L => \E f \in [0 .. l -> Nat] : Solves(f, l)}
<1>1. 0 \in S
  <2> DEFINE f == [k \in 0 .. 0 |-> 0]
  <2>1. f \in [0 .. 0 -> Nat] /\ Solves(f, 0)
    BY DEF JumpsDown
  <2> QED
    BY <2>1
<1>2. ASSUME NEW l \in Nat, l \in S
      PROVE  l + 1 \in S
  <2> SUFFICES ASSUME l + 1 <= L
               PROVE  \E g \in [0 .. l + 1 -> Nat] : Solves(g, l + 1)
    OBVIOUS
  <2>1. PICK f \in [0 .. l -> Nat] : Solves(f, l)
    BY <1>2
  <2> DEFINE g == [k \in 0 .. l + 1 |-> IF k = l + 1 THEN Value(f, k) ELSE f[k]]
  <2>2. l + 1 \in Stop \/ (l + 1) - Jump[l + 1] \in 0 .. l
    BY DEF JumpsDown
  <2>3. Value(f, l + 1) \in Nat
    BY <2>2
  <2>4. g \in [0 .. l + 1 -> Nat] /\ g[l + 1] = Value(f, l + 1) /\ \A k \in 0 .. l : g[k] = f[k]
    BY <2>3
  <2> HIDE DEF g
  <2>5. g[l + 1] = Value(g, l + 1)
    BY <2>2, <2>4
  <2>6. ASSUME NEW k \in 0 .. l
        PROVE  g[k] = Value(g, k)
    <3>1. k \in Stop \/ k - Jump[k] \in 0 .. l
      BY DEF JumpsDown
    <3> QED
      BY <2>1, <2>4, <3>1
  <2>7. \A k \in 0 .. l + 1 : k = l + 1 \/ k \in 0 .. l
    OBVIOUS
  <2>8. Solves(g, l + 1)
    BY <2>5, <2>6, <2>7
  <2> QED
    BY <2>4, <2>8, Zenon
<1> HIDE DEF S
<1>3. L \in S
  BY <1>1, <1>2, FromZero
<1> QED
  BY <1>3 DEF S, Lands

(* Bytes that do not begin with a char are not valid. *)
LEMMA NoCharNotValid ==
  ASSUME NEW bytes \in Seq(Octet), bytes # <<>>,
         \A n \in 1 .. 4 : n <= Len(bytes) => ~IsChar(SubSeq(bytes, 1, n))
  PROVE  ~ValidUtf8(bytes)
<1> DEFINE L == Len(bytes)
           Chars(k) == {n \in 1 .. 4 : n <= k /\ IsChar(SubSeq(bytes, L - k + 1, L - k + n))}
           Stop == {k \in 0 .. L : Chars(k) = {}}
           Jump == [k \in 0 .. L |-> CHOOSE n \in Chars(k) : TRUE]
           Left(f) == f = [k \in 0 .. L |->
                            IF Chars(k) = {} THEN k ELSE f[k - (CHOOSE n \in Chars(k) : TRUE)]]
<1>1. L \in Nat /\ L # 0
  OBVIOUS
<1>2. Chars(L) = {}
  <2>1. L - L + 1 = 1 /\ \A n \in 1 .. 4 : L - L + n = n
    BY <1>1
  <2> QED
    BY <2>1
<1>3. \A k \in 0 .. L : Chars(k) \subseteq 1 .. k
  OBVIOUS
<1> HIDE DEF Chars
<1>4. JumpsDown(L, Stop, Jump)
  BY <1>3 DEF JumpsDown
<1> HIDE DEF L
<1>5. PICK f : Lands(f, L, Stop, Jump)
  <2> HIDE DEF Stop, Jump
  <2> QED
    BY <1>1, <1>4, Jumps
<1>6. Left(f)
  <2>1. \A k \in 0 .. L :
          f[k] = IF Chars(k) = {} THEN k ELSE f[k - (CHOOSE n \in Chars(k) : TRUE)]
    BY <1>5 DEF Lands
  <2> QED
    BY <1>5, <2>1 DEF Lands
<1> DEFINE left == CHOOSE g : Left(g)
<1>7. Left(left)
  <2> HIDE DEF Left
  <2> QED
    BY <1>6, Zenon
<1>8. ValidUtf8(bytes) <=> left[L] = 0
  BY Zenon DEF ValidUtf8, L, Chars
<1>9. left[L] = L
  <2> HIDE DEF left
  <2>1. left = [k \in 0 .. L |->
                 IF Chars(k) = {} THEN k ELSE left[k - (CHOOSE n \in Chars(k) : TRUE)]]
    BY <1>7
  <2>2. L \in 0 .. L
    BY <1>1
  <2> QED
    BY <1>2, <2>1, <2>2, Zenon
<1> QED
  BY <1>1, <1>8, <1>9

(* The decoder of char takes the char at the front if there is one, and fails *)
(* in all other cases; unwrap_err never meets an Ok (impls.rs).               *)
THEOREM CharsAreStandard ==
  ASSUME NEW bytes \in Seq(Octet)
  PROVE  \/ \E n \in 1 .. 4 : /\ n <= Len(bytes) /\ IsChar(SubSeq(bytes, 1, n))
                              /\ DecodeChar(bytes) = Decoded(CodePoint(SubSeq(bytes, 1, n)), n)
         \/ /\ \A n \in 1 .. 4 : n <= Len(bytes) => ~IsChar(SubSeq(bytes, 1, n))
            /\ DecodeChar(bytes) = Failed
<1> DEFINE m == CharBytes(bytes[1])
           taken == SubSeq(bytes, 1, m)
           None == \A n \in 1 .. 4 : n <= Len(bytes) => ~IsChar(SubSeq(bytes, 1, n))
<1>1. \A n \in 1 .. 4 : n <= Len(bytes) /\ IsChar(SubSeq(bytes, 1, n)) => n = m
  BY CharAtFront
<1>2. CASE bytes = <<>>
  <2>1. None
    BY <1>2
  <2>2. DecodeChar(bytes) = Failed
    <3>1. Len(bytes) = 0 /\ 0 # 1 /\ 0 \notin 2 .. 0
      BY <1>2
    <3> QED
      BY <1>2, <3>1, Zenon DEF DecodeChar
  <2> QED
    BY <2>1, <2>2
<1>3. CASE bytes # <<>> /\ (m = 0 \/ m > Len(bytes))
  <2>1. None
    BY <1>1, <1>3
  <2>2. DecodeChar(bytes) = Failed
    <3>1. m # 1 /\ m \notin 2 .. Len(bytes)
      BY <1>3
    <3> QED
      BY <1>3, <3>1, Zenon DEF DecodeChar
  <2> QED
    BY <2>1, <2>2
<1>4. CASE bytes # <<>> /\ m # 0 /\ m <= Len(bytes)
  <2>1. m \in 1 .. 4 /\ m <= Len(bytes)
    BY <1>4, CharBytesFacts
  <2>2. /\ taken \in Seq(Octet) /\ Len(taken) = m /\ taken # <<>>
        /\ taken[1] = bytes[1] /\ (m > 1 => taken[2] = bytes[2])
        /\ \A k \in 1 .. m : taken[k] = bytes[k]
    <3>1. taken \in Seq(Octet) /\ Len(taken) = m /\ \A k \in 1 .. m : taken[k] = bytes[k]
      BY <2>1, CharAtFront
    <3> HIDE DEF taken, m
    <3> QED
      BY <2>1, <3>1
  <2>3. IsChar(taken) <=> /\ \A k \in 2 .. m : taken[k] \in Continuation
                          /\ m > 1 => ~OutOfRange(taken[1], taken[2])
    <3>1. IsChar(taken) <=> /\ \A k \in 2 .. m : bytes[k] \in Continuation
                            /\ m > 1 => ~OutOfRange(bytes[1], bytes[2])
      BY <2>1, CharAtFront
    <3> HIDE DEF taken, m
    <3> QED
      BY <2>1, <2>2, <3>1
  <2>4. CASE m = 1
    <3>1. DecodeChar(bytes) = Decoded(bytes[1], 1)
      BY <1>4, <2>1, <2>4 DEF DecodeChar
    <3>2. IsChar(taken)
      BY <2>3, <2>4
    <3>3. CodePoint(taken) = bytes[1]
      BY <2>2, <2>4, SMT DEF CodePoint
    <3> QED
      BY <2>1, <2>4, <3>1, <3>2, <3>3
  <2>5. CASE m # 1
    <3> DEFINE Bad == (\E k \in 2 .. m : taken[k] \notin Continuation) \/ OutOfRange(taken[1], taken[2])
    <3>1. DecodeChar(bytes) = IF Bad THEN Utf8Error(taken)
                              ELSE IF Scalar(CodePoint(taken)) THEN Decoded(CodePoint(taken), m)
                              ELSE Failed
      <4>1. ~(m = 0 \/ m > Len(bytes)) /\ m \in 2 .. Len(bytes)
        BY <2>1, <2>5
      <4> QED
        BY <1>4, <2>5, <4>1, Zenon DEF DecodeChar
    <3>2. CASE Bad
      <4>1. ~IsChar(taken)
        BY <2>1, <2>3, <2>5, <3>2
      <4>2. None
        BY <1>1, <4>1
      <4>3. ~ValidUtf8(taken)
        <5>1. ASSUME NEW n \in 1 .. 4, n <= Len(taken), IsChar(SubSeq(taken, 1, n))
              PROVE  FALSE
          <6>1. n = CharBytes(taken[1])
            BY <2>2, <5>1, CharAtFront
          <6>2. n = m
            BY <2>2, <6>1
          <6>3. SubSeq(taken, 1, m) = taken
            <7>1. /\ SubSeq(taken, 1, m) \in Seq(Octet) /\ Len(SubSeq(taken, 1, m)) = m
                  /\ \A k \in 1 .. m : SubSeq(taken, 1, m)[k] = taken[k]
              BY <2>1, <2>2, CharAtFront
            <7> HIDE DEF taken, m
            <7> QED
              BY <2>2, <7>1
          <6> QED
            BY <4>1, <5>1, <6>2, <6>3
        <5> HIDE DEF taken, m
        <5> QED
          BY <2>2, <5>1, NoCharNotValid
      <4>4. DecodeChar(bytes) = Failed
        BY <3>1, <3>2, <4>3 DEF Utf8Error
      <4> QED
        BY <4>2, <4>4
    <3>3. CASE ~Bad
      <4>1. IsChar(taken)
        BY <2>3, <3>3
      <4>2. DecodeChar(bytes) = Decoded(CodePoint(taken), m)
        BY <3>1, <3>3, <4>1 DEF IsChar
      <4> QED
        BY <2>1, <4>1, <4>2
    <3> QED
      BY <3>2, <3>3
  <2> QED
    BY <2>4, <2>5
<1> QED
  <2>1. bytes = <<>> \/ m = 0 \/ m > Len(bytes) \/ m <= Len(bytes)
    <3>1. bytes = <<>> \/ m \in 0 .. 4
      BY CharBytesFacts
    <3> HIDE DEF m
    <3> QED
      BY <3>1
  <2> QED
    BY <1>2, <1>3, <1>4, <2>1

(* A char that was written is read back, whatever follows it, and exactly its *)
(* bytes are consumed.                                                        *)
THEOREM CharsReadBack ==
  ASSUME NEW code \in Nat, Scalar(code), NEW bytes \in Seq(Octet),
         Len(bytes) >= Len(Utf8(code)),
         \A k \in 1 .. Len(Utf8(code)) : bytes[k] = Utf8(code)[k]
  PROVE  DecodeChar(bytes) = Decoded(code, Len(Utf8(code)))
<1> DEFINE u == Utf8(code)
           n == Len(u)
<1>1. u \in Seq(Octet) /\ n \in 1 .. 4 /\ WellFormed(u) /\ CodePoint(u) = code
  BY EncodedForm DEF WellFormed
<1>2. /\ SubSeq(bytes, 1, n) \in Seq(Octet) /\ Len(SubSeq(bytes, 1, n)) = n
      /\ \A k \in 1 .. n : SubSeq(bytes, 1, n)[k] = bytes[k]
  BY <1>1, CharAtFront
<1>3. SubSeq(bytes, 1, n) = u
  <2>1. \A k \in 1 .. n : SubSeq(bytes, 1, n)[k] = u[k]
    BY <1>2
  <2> HIDE DEF u
  <2> QED
    BY <1>1, <1>2, <2>1
<1>4. IsChar(u)
  BY <1>1, CharForm
<1>5. \A k \in 1 .. 4 : k <= Len(bytes) /\ IsChar(SubSeq(bytes, 1, k)) => k = CharBytes(bytes[1])
  BY CharAtFront
<1>6. n = CharBytes(bytes[1])
  BY <1>1, <1>3, <1>4, <1>5
<1> HIDE DEF u, n
<1> QED
  <2>1. n <= Len(bytes) /\ IsChar(SubSeq(bytes, 1, n))
    BY <1>1, <1>3, <1>4 DEF n, u
  <2>2. PICK k \in 1 .. 4 : /\ k <= Len(bytes) /\ IsChar(SubSeq(bytes, 1, k))
                            /\ DecodeChar(bytes) = Decoded(CodePoint(SubSeq(bytes, 1, k)), k)
    BY <1>1, <2>1, CharsAreStandard
  <2>3. k = n
    BY <1>5, <1>6, <2>2
  <2> QED
    BY <1>1, <1>3, <2>2, <2>3 DEF u, n

(* A char whose bytes end early is an error. *)
THEOREM CutCharFails ==
  ASSUME NEW code \in Nat, Scalar(code), NEW bytes \in Seq(Octet),
         Len(bytes) < Len(Utf8(code)),
         \A k \in 1 .. Len(bytes) : bytes[k] = Utf8(code)[k]
  PROVE  DecodeChar(bytes) = Failed
<1> DEFINE u == Utf8(code)
<1>1. u \in Seq(Octet) /\ Len(u) = CharBytes(u[1])
  BY EncodedForm DEF WellFormed
<1>2. CASE bytes = <<>>
  <2>1. \A k \in 1 .. 4 : ~(k <= Len(bytes))
    BY <1>2
  <2> QED
    BY <2>1, CharsAreStandard
<1>3. CASE bytes # <<>>
  <2>1. bytes[1] = u[1]
    BY <1>3
  <2>2. \A k \in 1 .. 4 : k <= Len(bytes) /\ IsChar(SubSeq(bytes, 1, k)) => k = CharBytes(bytes[1])
    BY CharAtFront
  <2> HIDE DEF u
  <2>3. \A k \in 1 .. 4 : k <= Len(bytes) => ~IsChar(SubSeq(bytes, 1, k))
    BY <1>1, <2>1, <2>2 DEF u
  <2> QED
    BY <2>3, CharsAreStandard
<1> QED
  BY <1>2, <1>3

-----------------------------------------------------------------------------
(* Lengths: the inductive invariants *)

Inputs ==
  /\ writer \in Words /\ reader \in Words
  /\ lenType \in Types /\ enc \in Encodings
  /\ override \in {0, UsizeMax} \cup Limits /\ config \in {NoLimit} \cup Limits
  /\ wsize \in Sizes /\ rsize \in Sizes

(* The reader keeps a length only if it has passed the reader's check. *)
Accepted ==
  result # Refused =>
    /\ result \in 0 .. reader
    /\ "read" \in checked => Prealloc(result, rsize, reader)
    /\ capacity = UniqueKeyCapacity(result, rsize, reader)

BoundInv == Inputs /\ Accepted

(* What a reader makes of the length `len`. *)
Passes ==
  len \in 0 .. reader /\ ("read" \in checked => Prealloc(len, rsize, reader))

OnTheWire ==
  /\ phase \in {"new", "refused", "written", "foreign", "read", "read_foreign"}
  /\ phase \in {"written", "foreign"} =>
       /\ len \in Lowest(lenType) .. Highest(lenType)
       /\ wire = Encode(len, lenType, enc, "little")
  /\ phase \in {"written", "read"} =>
       /\ len \in 0 .. writer
       /\ "write" \in checked => Prealloc(len, wsize, writer)
  /\ result = IF phase \in {"read", "read_foreign"} /\ Passes THEN len ELSE Refused

WireInv == Inputs /\ OnTheWire

-----------------------------------------------------------------------------
(* Arithmetic *)

LEMMA PowerOfTwo ==
  ASSUME NEW k \in Nat
  PROVE  2 ^ k \in Nat
<1>1. IsFiniteSet(1 .. k) /\ Cardinality(1 .. k) = k
  BY FS_Interval
<1>2. IsFiniteSet(SUBSET (1 .. k)) /\ Cardinality(SUBSET (1 .. k)) = 2 ^ Cardinality(1 .. k)
  BY <1>1, FS_SUBSET, Zenon
<1>3. Cardinality(SUBSET (1 .. k)) \in Nat
  BY <1>2, FS_CardinalityType, Zenon
<1> QED
  BY <1>1, <1>2, <1>3, Zenon

LEMMA TimesNat ==
  ASSUME NEW a \in Nat, NEW b \in Nat
  PROVE  a * b \in Nat
OBVIOUS

LEMMA WordsAreNumbers == Words \subseteq Nat
<1> SUFFICES ASSUME NEW b \in WordBytes PROVE Power[b] - 1 \in Nat
  BY DEF Words
<1>1. b \in Nat /\ Power[b] \in Nat /\ Power[b] > 0
  BY LengthAssumption, PowerFacts
<1> QED
  BY <1>1

LEMMA InputTypes ==
  ASSUME Inputs
  PROVE  /\ writer \in Nat /\ reader \in Nat /\ wsize \in Nat /\ rsize \in Nat
         /\ Effective(writer) \in Int /\ Effective(reader) \in Int
         /\ 2 ^ (BitsPerByte * rsize) \in Nat
<1>1. writer \in Nat /\ reader \in Nat /\ wsize \in Nat /\ rsize \in Nat
  BY LengthAssumption, WordsAreNumbers DEF Inputs
<1>2. override \in Int /\ config \in Int
  BY LengthAssumption DEF Inputs, NoLimit, UsizeMax
<1>3. Effective(writer) \in Int /\ Effective(reader) \in Int
  BY <1>1, <1>2 DEF Effective, Configured, NoLimit
<1>4. BitsPerByte * rsize \in Nat
  BY <1>1, LengthAssumption, TimesNat
<1>5. 2 ^ (BitsPerByte * rsize) \in Nat
  BY <1>4, PowerOfTwo, Zenon
<1> QED
  BY <1>1, <1>3, <1>5

(* The capacity of a map: the length, or the number of keys if that is less. *)
LEMMA CapacityValue ==
  ASSUME NEW n \in Nat, NEW size, NEW word \in Nat, n <= word,
         2 ^ (BitsPerByte * size) \in Nat
  PROVE  UniqueKeyCapacity(n, size, word) = Smaller(n, 2 ^ (BitsPerByte * size))
<1> DEFINE keys == 2 ^ (BitsPerByte * size)
<1>1. keys \in Nat
  OBVIOUS
<1>2. UniqueKeyCapacity(n, size, word) = IF keys <= word THEN Smaller(n, keys) ELSE n
  BY DEF UniqueKeyCapacity
<1> HIDE DEF keys
<1>3. UniqueKeyCapacity(n, size, word) = Smaller(n, keys)
  BY <1>1, <1>2 DEF Smaller
<1> QED
  BY <1>3 DEF keys

-----------------------------------------------------------------------------
(* Without a word about the encodings *)

LEMMA InitBound == Init => BoundInv
BY DEF Init, BoundInv, Inputs, Accepted

LEMMA StepBound == BoundInv /\ [Next]_vars => BoundInv'
<1> SUFFICES ASSUME BoundInv, [Next]_vars PROVE BoundInv'
  OBVIOUS
<1>1. CASE Read
  <2> DEFINE field == Decode(wire, lenType, enc, "little").value
             n == ToWord(field, reader)
             accepted == n # Refused /\ ("read" \in checked => Prealloc(n, rsize, reader))
  <2>1. /\ UNCHANGED inputs
        /\ result' = IF accepted THEN n ELSE Refused
        /\ capacity' = IF accepted THEN UniqueKeyCapacity(n, rsize, reader) ELSE 0
    BY <1>1, Zenon DEF Read
  <2>2. n # Refused => n \in 0 .. reader
    BY Zenon DEF ToWord
  <2> HIDE DEF n
  <2>3. Inputs'
    BY <2>1 DEF BoundInv, Inputs, inputs
  <2>4. reader' = reader /\ rsize' = rsize /\ checked' = checked
    BY <2>1 DEF inputs
  <2>5. ASSUME result' # Refused
        PROVE  /\ result' \in 0 .. reader
               /\ "read" \in checked => Prealloc(result', rsize, reader)
               /\ capacity' = UniqueKeyCapacity(result', rsize, reader)
    BY <2>1, <2>2, <2>5, Zenon
  <2>6. Accepted'
    BY <2>1, <2>4, <2>5 DEF Accepted, Prealloc, Effective, Configured, UniqueKeyCapacity, inputs
  <2> QED
    BY <2>3, <2>6 DEF BoundInv
<1>2. CASE Write \/ Foreign \/ UNCHANGED vars
  <2>1. UNCHANGED <<inputs, result, capacity>>
    BY <1>2, Zenon DEF Write, Foreign, vars
  <2> QED
    BY <2>1 DEF BoundInv, Inputs, Accepted, Prealloc, Effective, Configured, UniqueKeyCapacity, inputs
<1> QED
  BY <1>1, <1>2 DEF Next

(* Every length that was accepted has passed the check of the reader. *)
THEOREM BoundInvariant == Spec => []BoundInv
BY InitBound, StepBound, PTL DEF Spec

(* read_prealloc_check: an accepted length never stands for more memory than *)
(* the limit allows, nor for more than usize can count.                      *)
THEOREM LimitBoundsAllocation == Spec => []AllocationBounded
<1>1. ASSUME BoundInv PROVE AllocationBounded
  <2> SUFFICES ASSUME "read" \in checked, result # Refused, Effective(reader) # NoLimit
               PROVE  result * Larger(rsize, 1) <= Smaller(Effective(reader), reader)
    BY DEF AllocationBounded
  <2> DEFINE needed == result * Larger(rsize, 1)
  <2>1. needed <= reader /\ needed <= Effective(reader)
    BY <1>1 DEF BoundInv, Accepted, Prealloc
  <2> HIDE DEF needed
  <2>2. needed <= Smaller(Effective(reader), reader)
    BY <2>1 DEF Smaller
  <2> QED
    BY <2>2 DEF needed
<1> QED
  BY <1>1, BoundInvariant, PTL

(* unique_key_capacity: what a map reserves never falls short of the entries *)
(* it can hold, and never exceeds its length or the number of keys.          *)
THEOREM CapacitySuffices == Spec => []CapacityIsExact
<1>1. ASSUME BoundInv PROVE CapacityIsExact
  <2> SUFFICES ASSUME result # Refused
               PROVE  capacity = Smaller(result, 2 ^ (BitsPerByte * rsize))
    BY DEF CapacityIsExact
  <2>1. reader \in Nat /\ 2 ^ (BitsPerByte * rsize) \in Nat
    BY <1>1, InputTypes DEF BoundInv
  <2>2. result \in Nat /\ result <= reader /\ capacity = UniqueKeyCapacity(result, rsize, reader)
    BY <1>1, <2>1 DEF BoundInv, Accepted
  <2> QED
    BY <2>1, <2>2, CapacityValue
<1> QED
  BY <1>1, BoundInvariant, PTL

-----------------------------------------------------------------------------
(* What is on the wire *)

LEMMA InitWire == Init => WireInv
BY DEF Init, WireInv, Inputs, OnTheWire

LEMMA WriteWire ==
  ASSUME WireInv, Write \/ Foreign
  PROVE  WireInv'
<1>1. Inputs'
  BY Zenon DEF Write, Foreign, WireInv, Inputs, inputs
<1>2. UNCHANGED <<inputs, result>> /\ phase = "new"
  BY DEF Write, Foreign
<1>3. CASE Write
  <2>1. len \in 0 .. writer
    BY <1>3 DEF Write
  <2>2. \/ /\ "write" \in checked => Prealloc(len, wsize, writer)
           /\ len \in Lowest(lenType) .. Highest(lenType)
           /\ wire' = Encode(len, lenType, enc, "little") /\ phase' = "written"
        \/ phase' = "refused"
    BY <1>3, Zenon DEF Write, Fits
  <2>3. OnTheWire'
    BY <1>2, <2>1, <2>2 DEF WireInv, OnTheWire, Passes, Prealloc, Effective, Configured, inputs
  <2> QED
    BY <1>1, <2>3 DEF WireInv
<1>4. CASE Foreign
  <2>1. /\ len \in Lowest(lenType) .. Highest(lenType)
        /\ wire' = Encode(len, lenType, enc, "little") /\ phase' = "foreign"
    BY <1>4, Zenon DEF Foreign
  <2>2. OnTheWire'
    BY <1>2, <2>1 DEF WireInv, OnTheWire, Passes, Prealloc, Effective, Configured, inputs
  <2> QED
    BY <1>1, <2>2 DEF WireInv
<1> QED
  BY <1>3, <1>4

LEMMA ReadWire ==
  ASSUME WireInv, Read
  PROVE  WireInv'
<1> DEFINE field == Decode(wire, lenType, enc, "little").value
           n == ToWord(field, reader)
           accepted == n # Refused /\ ("read" \in checked => Prealloc(n, rsize, reader))
<1>1. /\ phase \in {"written", "foreign"} /\ UNCHANGED inputs
      /\ result' = IF accepted THEN n ELSE Refused
      /\ phase' = IF phase = "written" THEN "read" ELSE "read_foreign"
  BY Zenon DEF Read
<1>2. field = len
  BY <1>1, ReadBack, Zenon DEF WireInv, Inputs, OnTheWire
<1> HIDE DEF field
<1>3. n = IF len \in 0 .. reader THEN len ELSE Refused
  BY <1>2 DEF ToWord
<1>4. reader \in Nat
  BY InputTypes DEF WireInv
<1>5. accepted <=> Passes
  BY <1>3, <1>4 DEF Passes, Refused
<1> HIDE DEF n, accepted
<1>6. result' = IF Passes THEN len ELSE Refused
  BY <1>1, <1>3, <1>5 DEF Passes
<1>7. Inputs'
  BY <1>1 DEF WireInv, Inputs, inputs
<1>8. Passes' <=> Passes
  BY <1>1 DEF Passes, Prealloc, Effective, Configured, inputs
<1>9. phase' \in {"read", "read_foreign"} /\ (phase' = "read" => phase = "written")
  BY <1>1
<1>10. OnTheWire'
  BY <1>1, <1>6, <1>8, <1>9 DEF WireInv, OnTheWire, Prealloc, Effective, Configured, inputs
<1> QED
  BY <1>7, <1>10 DEF WireInv

LEMMA StepWire == WireInv /\ [Next]_vars => WireInv'
<1> SUFFICES ASSUME WireInv, [Next]_vars PROVE WireInv'
  OBVIOUS
<1>1. CASE UNCHANGED vars
  BY <1>1 DEF WireInv, Inputs, OnTheWire, Passes, Prealloc, Effective, Configured, vars, inputs
<1>2. CASE Write \/ Foreign
  BY <1>2, WriteWire
<1>3. CASE Read
  BY <1>3, ReadWire
<1> QED
  BY <1>1, <1>2, <1>3 DEF Next

(* The bytes on the wire stand for the length, and a length that was read is *)
(* the one on the wire, checked as the sides do.                             *)
THEOREM WireInvariant == Spec => []WireInv
BY InitWire, StepWire, PTL DEF Spec

(* Len::write and Len::read: a reader gets the length that was written, or   *)
(* an error, also over another width of usize and from a foreign field.      *)
THEOREM LengthSurvives == Spec => []SameLength
<1>1. WireInv => SameLength
  BY DEF WireInv, OnTheWire, SameLength
<1> QED
  BY <1>1, WireInvariant, PTL

(* The limit passed on the writing side holds on the reading side too. *)
LEMMA LimitMirrors ==
  ASSUME Inputs, len \in 0 .. writer, Prealloc(len, wsize, writer),
         rsize <= wsize, writer <= reader, Effective(writer) = Effective(reader)
  PROVE  Prealloc(len, rsize, reader)
<1>1. /\ writer \in Nat /\ reader \in Nat /\ wsize \in Nat /\ rsize \in Nat
      /\ Effective(writer) \in Int
  BY InputTypes
<1>2. CASE Effective(writer) = NoLimit
  BY <1>2 DEF Prealloc
<1>3. CASE Effective(writer) # NoLimit
  <2>1. len * Larger(wsize, 1) <= writer /\ len * Larger(wsize, 1) <= Effective(writer)
    BY <1>3 DEF Prealloc
  <2>2. Larger(rsize, 1) \in Nat /\ Larger(wsize, 1) \in Nat
        /\ Larger(rsize, 1) <= Larger(wsize, 1)
    BY <1>1 DEF Larger
  <2>3. len \in Nat
    BY <1>1
  <2>4. len * Larger(rsize, 1) <= len * Larger(wsize, 1)
    BY <2>2, <2>3, TimesMonotone
  <2>5. len * Larger(rsize, 1) \in Nat /\ len * Larger(wsize, 1) \in Nat
    BY <2>2, <2>3, TimesNat
  <2> DEFINE a == len * Larger(rsize, 1)
             b == len * Larger(wsize, 1)
  <2> HIDE DEF a, b
  <2>6. a \in Nat /\ b \in Nat /\ a <= b /\ b <= writer /\ b <= Effective(writer)
    BY <2>1, <2>4, <2>5 DEF a, b
  <2>7. a <= reader /\ a <= Effective(reader)
    BY <1>1, <2>6
  <2> QED
    BY <2>7 DEF Prealloc, a
<1> QED
  BY <1>2, <1>3

(* encode_from_iter_prealloc_check: what a checking writer accepts, a reader *)
(* with the same limit and elements that are no larger accepts as well.      *)
THEOREM CheckMirrors == Spec => []ReadsBack
<1>1. ASSUME WireInv PROVE ReadsBack
  <2> SUFFICES ASSUME phase = "read", "write" \in checked, rsize <= wsize,
                      writer <= reader, Effective(writer) = Effective(reader)
               PROVE  result = len
    BY DEF ReadsBack
  <2>1. len \in 0 .. writer /\ Prealloc(len, wsize, writer)
    BY <1>1 DEF WireInv, OnTheWire
  <2>2. Prealloc(len, rsize, reader)
    BY <1>1, <2>1, LimitMirrors DEF WireInv
  <2>3. writer \in Nat /\ reader \in Nat
    BY <1>1, InputTypes DEF WireInv
  <2>4. Passes
    BY <2>1, <2>2, <2>3 DEF Passes
  <2> QED
    BY <1>1, <2>4 DEF WireInv, OnTheWire
<1> QED
  BY <1>1, WireInvariant, PTL
=============================================================================

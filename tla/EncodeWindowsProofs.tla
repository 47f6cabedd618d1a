------------------------ MODULE EncodeWindowsProofs -------------------------
(***************************************************************************)
(* For every tree of values, kind of writer, room, and length an iterator  *)
(* reports: the unchecked writes of a trusted window stay inside it, no    *)
(* byte below the position is left out, and the output is at every step a  *)
(* prefix of the encoding.  The hypothesis is that the size of a window    *)
(* does not wrap around (NeverWraps).                                      *)
(***************************************************************************)
EXTENDS EncodeWindows, Integers, TLAPS, FiniteSetTheorems, WellFoundedInduction

(* Own + Elem * says fits usize, which write_elem_iter takes for granted. *)
NeverWraps ==
  \A n \in Opens \cap Seqs : \A k \in 0 .. MaxSays : Own[n] + Elem[n] * k <= WordMax

-----------------------------------------------------------------------------
(* What holds of every step of every node *)

LEMMA LeastNumber ==
  ASSUME NEW T, T \subseteq Nat, T # {}
  PROVE  \E x \in T : \A y \in T : x <= y
<1> DEFINE R == {ss \in Nat \X Nat : ss[1] < ss[2]}
<1>1. OpToRel(<, Nat) = R
  BY DEF OpToRel
<1>2. IsWellFoundedOn(R, Nat)
  BY NatLessThanWellFounded, <1>1
<1> HIDE DEF R
<1>3. PICK x \in T : \A y \in T : <<y, x>> \notin R
  BY <1>2, WFMin, Zenon
<1>4. ASSUME NEW y \in T
      PROVE  x <= y
  <2>1. x \in Nat /\ y \in Nat /\ <<y, x>> \in Nat \X Nat
    OBVIOUS
  <2>2. y < x => <<y, x>> \in R
    BY <2>1 DEF R
  <2> QED
    BY <1>3, <2>1, <2>2
<1> QED
  BY <1>4

LEMMA KidFacts ==
  /\ \A n \in Node : Kids[n] \in Seq(Node) /\ Len(Kids[n]) \in Nat /\ Height[n] \in Nat
                     /\ Own[n] \in Nat
  /\ \A n \in Node : \A k \in 1 .. Len(Kids[n]) :
       /\ Kids[n][k] \in Node
       /\ Height[Kids[n][k]] + Len(Kids[Kids[n][k]]) <= Height[n]
<1>1. \A n \in Node : Kids[n] \in Seq(Node) /\ Height[n] \in Nat /\ Own[n] \in Nat
  BY EncodeAssumption
<1>2. ASSUME NEW n \in Node, NEW k \in 1 .. Len(Kids[n])
      PROVE  k \in DOMAIN Kids[n] /\ Kids[n][k] \in Node
  BY <1>1
<1> QED
  BY <1>1, <1>2, TreeAssumption

(* When a step is reached, the step before it and all of the child between. *)
Before(n, k) ==
  {<<n, k - 1>>} \cup {<<Kids[n][k], j>> : j \in 0 .. Len(Kids[Kids[n][k]])}

Measure(p) == Height[p[1]] + p[2]

LEMMA StepTypes ==
  ASSUME NEW n \in Node, NEW k \in Nat, k <= Len(Kids[n])
  PROVE  /\ <<n, k>> \in Steps /\ Measure(<<n, k>>) \in Nat
         /\ k # 0 => /\ k \in 1 .. Len(Kids[n]) /\ k - 1 \in Nat /\ Kids[n][k] \in Node
                     /\ <<n, k - 1>> \in Steps
                     /\ Before(n, k) \subseteq Steps
                     /\ \A q \in Before(n, k) : Measure(q) \in Nat /\ Measure(q) < Measure(<<n, k>>)
<1>1. <<n, k>> \in Steps /\ Measure(<<n, k>>) = Height[n] + k /\ Height[n] \in Nat
  BY KidFacts DEF Steps, Measure
<1>2. ASSUME k # 0
      PROVE  /\ k \in 1 .. Len(Kids[n]) /\ k - 1 \in Nat /\ Kids[n][k] \in Node
             /\ <<n, k - 1>> \in Steps
             /\ Before(n, k) \subseteq Steps
             /\ \A q \in Before(n, k) : Measure(q) \in Nat /\ Measure(q) < Measure(<<n, k>>)
  <2>1. k \in 1 .. Len(Kids[n]) /\ k - 1 \in Nat
    BY <1>2, KidFacts
  <2> DEFINE kid == Kids[n][k]
  <2>2. kid \in Node /\ Height[kid] + Len(Kids[kid]) <= Height[n] /\ Len(Kids[kid]) \in Nat
        /\ Height[kid] \in Nat
    BY <2>1, KidFacts
  <2> HIDE DEF kid
  <2>3. <<n, k - 1>> \in Steps /\ Measure(<<n, k - 1>>) = Height[n] + (k - 1)
    BY <2>1, KidFacts DEF Steps, Measure
  <2>4. ASSUME NEW j \in 0 .. Len(Kids[kid])
        PROVE  <<kid, j>> \in Steps /\ Measure(<<kid, j>>) = Height[kid] + j /\ j \in Nat
                /\ j <= Len(Kids[kid])
    BY <2>2 DEF Steps, Measure
  <2>5. ASSUME NEW q \in Before(n, k)
        PROVE  q \in Steps /\ Measure(q) \in Nat /\ Measure(q) < Measure(<<n, k>>)
    <3>1. CASE q = <<n, k - 1>>
      BY <1>1, <2>1, <2>3, <3>1
    <3>2. CASE \E j \in 0 .. Len(Kids[kid]) : q = <<kid, j>>
      BY <1>1, <2>1, <2>2, <2>4, <3>2
    <3> QED
      BY <3>1, <3>2 DEF Before, kid
  <2> QED
    BY <2>1, <2>2, <2>3, <2>5 DEF kid
<1>3. Measure(<<n, k>>) \in Nat
  BY <1>1
<1> QED
  BY <1>1, <1>2, <1>3, Zenon

LEMMA Counts ==
  ASSUME NEW n \in Node, NEW k \in 0 .. Len(Kids[n])
  PROVE  k \in Nat /\ k <= Len(Kids[n]) /\ <<n, k>> \in Steps /\ Len(Kids[n]) \in Nat
<1>1. Len(Kids[n]) \in Nat
  BY KidFacts
<1>2. k \in Nat /\ k <= Len(Kids[n])
  BY <1>1
<1> QED
  BY <1>1, <1>2, StepTypes

LEMMA FromTheStart ==
  ASSUME NEW S,
         \A n \in Node : \A k \in 0 .. Len(Kids[n]) :
           (k # 0 => Before(n, k) \subseteq S) => <<n, k>> \in S
  PROVE  Steps \subseteq S
<1> SUFFICES ASSUME Steps \ S # {}
             PROVE  FALSE
  OBVIOUS
<1>1. ASSUME NEW p \in Steps
      PROVE  /\ p[1] \in Node /\ p[2] \in 0 .. Len(Kids[p[1]]) /\ p = <<p[1], p[2]>>
             /\ p[2] \in Nat /\ p[2] <= Len(Kids[p[1]])
  BY KidFacts DEF Steps
<1> DEFINE T == {Measure(p) : p \in Steps \ S}
<1>2. T \subseteq Nat
  <2> SUFFICES ASSUME NEW p \in Steps PROVE Measure(p) \in Nat
    OBVIOUS
  <2> QED
    BY <1>1, StepTypes
<1>3. T # {}
  OBVIOUS
<1>4. PICK p \in Steps \ S : \A q \in Steps \ S : Measure(p) <= Measure(q)
  <2> HIDE DEF T
  <2>1. PICK x \in T : \A y \in T : x <= y
    BY <1>2, <1>3, LeastNumber
  <2> QED
    BY <2>1 DEF T
<1> DEFINE n == p[1]
           k == p[2]
<1>5. n \in Node /\ k \in 0 .. Len(Kids[n]) /\ p = <<n, k>> /\ k \in Nat /\ k <= Len(Kids[n])
  BY <1>1
<1> HIDE DEF n, k
<1>6. k # 0 => Before(n, k) \subseteq S
  <2> SUFFICES ASSUME k # 0, NEW q \in Before(n, k), q \notin S
               PROVE  FALSE
    OBVIOUS
  <2>1. q \in Steps /\ Measure(q) \in Nat /\ Measure(p) \in Nat /\ Measure(q) < Measure(p)
    BY <1>5, StepTypes
  <2> QED
    BY <1>4, <2>1
<1> QED
  BY <1>5, <1>6

(* SizeUpTo and EncodedUpTo are well defined: an equation that gives a step *)
(* its value from those of the steps before it has a solution.              *)
LEMMA StepParts ==
  ASSUME NEW p \in Steps
  PROVE  /\ p[1] \in Node /\ p[2] \in Nat /\ p[2] <= Len(Kids[p[1]]) /\ p = <<p[1], p[2]>>
         /\ p[2] \in 0 .. Len(Kids[p[1]])
         /\ Measure(p) \in Nat
<1>1. p[1] \in Node /\ p[2] \in Nat /\ p[2] <= Len(Kids[p[1]]) /\ p = <<p[1], p[2]>>
  BY DEF Steps
<1>2. p[2] \in 0 .. Len(Kids[p[1]])
  BY <1>1, KidFacts
<1>3. Height[p[1]] \in Nat
  BY <1>1, KidFacts
<1>4. Measure(p) \in Nat
  BY <1>1, <1>3 DEF Measure
<1> QED
  BY <1>1, <1>2, <1>4

Solves(f, base, op, full) ==
  f = [p \in Steps |->
        IF p[2] = 0 THEN base[p[1]]
        ELSE op[<<f[<<p[1], p[2] - 1>>], f[<<Kids[p[1]][p[2]], full[Kids[p[1]][p[2]]]>>]>>]]

LEMMA Solution ==
  ASSUME NEW V, NEW base \in [Node -> V], NEW op \in [V \X V -> V],
         NEW full \in [Node -> Nat], \A n \in Node : full[n] <= Len(Kids[n])
  PROVE  \E f \in [Steps -> V] : Solves(f, base, op, full)
<1> DEFINE Elder(p) == <<p[1], p[2] - 1>>
           Kid(p)   == <<Kids[p[1]][p[2]], full[Kids[p[1]][p[2]]]>>
           Value(f, p) == IF p[2] = 0 THEN base[p[1]] ELSE op[<<f[Elder(p)], f[Kid(p)]>>]
           Good(f, h) == \A p \in Steps : Measure(p) < h => f[p] = Value(f, p)
<1>1. ASSUME NEW p \in Steps, p[2] # 0
      PROVE  /\ Elder(p) \in Before(p[1], p[2]) /\ Kid(p) \in Before(p[1], p[2])
             /\ Elder(p) \in Steps /\ Kid(p) \in Steps
             /\ Measure(Elder(p)) \in Nat /\ Measure(Kid(p)) \in Nat
             /\ Measure(Elder(p)) < Measure(p) /\ Measure(Kid(p)) < Measure(p)
  <2>1. p[1] \in Node /\ p[2] \in Nat /\ p[2] <= Len(Kids[p[1]]) /\ p = <<p[1], p[2]>>
    BY StepParts
  <2>2. /\ p[2] \in 1 .. Len(Kids[p[1]]) /\ Kids[p[1]][p[2]] \in Node
        /\ Before(p[1], p[2]) \subseteq Steps
        /\ \A q \in Before(p[1], p[2]) : Measure(q) \in Nat /\ Measure(q) < Measure(p)
    BY <1>1, <2>1, StepTypes
  <2>3. full[Kids[p[1]][p[2]]] \in 0 .. Len(Kids[Kids[p[1]][p[2]]])
    BY <2>2, KidFacts
  <2>4. Elder(p) \in Before(p[1], p[2]) /\ Kid(p) \in Before(p[1], p[2])
    BY <2>3 DEF Before
  <2> HIDE DEF Elder, Kid
  <2> QED
    BY <2>2, <2>4
<1>2. ASSUME NEW p \in Steps
      PROVE  p[1] \in Node /\ Measure(p) \in Nat
  BY StepParts
<1> HIDE DEF Elder, Kid
<1>3. ASSUME NEW f \in [Steps -> V], NEW p \in Steps
      PROVE  Value(f, p) \in V
  <2>1. CASE p[2] = 0
    BY <1>2, <2>1
  <2>2. CASE p[2] # 0
    BY <1>1, <2>2
  <2> QED
    BY <2>1, <2>2
<1>4. ASSUME NEW f \in [Steps -> V], NEW g \in [Steps -> V], NEW h \in Nat,
             Good(f, h), Good(g, h)
      PROVE  \A p \in Steps : Measure(p) < h => f[p] = g[p]
  <2> DEFINE S == {p \in Steps : Measure(p) < h => f[p] = g[p]}
  <2>1. ASSUME NEW n \in Node, NEW k \in 0 .. Len(Kids[n]), k # 0 => Before(n, k) \subseteq S
        PROVE  <<n, k>> \in S
    <3> DEFINE p == <<n, k>>
    <3>1. p \in Steps /\ Measure(p) \in Nat /\ p[1] = n /\ p[2] = k
      <4>1. k \in Nat /\ k <= Len(Kids[n])
        BY KidFacts
      <4> QED
        BY <4>1, StepTypes
    <3> HIDE DEF p
    <3>2. SUFFICES ASSUME Measure(p) < h PROVE f[p] = g[p]
      BY <3>1 DEF p
    <3>3. f[p] = Value(f, p) /\ g[p] = Value(g, p)
      BY <1>4, <3>1, <3>2
    <3>4. CASE k = 0
      BY <3>1, <3>3, <3>4
    <3>5. CASE k # 0
      <4>1. f[Elder(p)] = g[Elder(p)]
        BY <1>1, <2>1, <3>1, <3>2, <3>5
      <4>2. f[Kid(p)] = g[Kid(p)]
        BY <1>1, <2>1, <3>1, <3>2, <3>5
      <4> QED
        BY <3>1, <3>3, <3>5, <4>1, <4>2
    <3> QED
      BY <3>4, <3>5
  <2> HIDE DEF S
  <2>2. Steps \subseteq S
    BY <2>1, FromTheStart
  <2> QED
    BY <2>2 DEF S
<1>5. \A h \in Nat : \E f \in [Steps -> V] : Good(f, h)
  <2> DEFINE T == {h \in Nat : ~\E f \in [Steps -> V] : Good(f, h)}
  <2> SUFFICES ASSUME T # {} PROVE FALSE
    OBVIOUS
  <2>1. PICK h \in T : \A i \in T : h <= i
    BY LeastNumber
  <2>2. h \in Nat
    OBVIOUS
  <2>3. CASE h = 0
    <3> DEFINE f == [p \in Steps |-> base[p[1]]]
    <3>1. f \in [Steps -> V]
      BY <1>2
    <3>2. Good(f, h)
      BY <1>2, <2>3
    <3> QED
      BY <3>1, <3>2
  <2>4. CASE h # 0
    <3>1. h - 1 \in Nat /\ h - 1 \notin T
      BY <2>1, <2>2, <2>4
    <3>2. PICK f \in [Steps -> V] : Good(f, h - 1)
      BY <3>1
    <3> DEFINE g == [p \in Steps |-> Value(f, p)]
    <3>3. g \in [Steps -> V]
      BY <1>3
    <3>4. ASSUME NEW q \in Steps, Measure(q) < h - 1
          PROVE  g[q] = f[q]
      BY <3>2, <3>4
    <3>5. ASSUME NEW p \in Steps, Measure(p) < h
          PROVE  g[p] = Value(g, p)
      <4>1. g[p] = Value(f, p)
        OBVIOUS
      <4> HIDE DEF g
      <4>2. CASE p[2] = 0
        BY <4>1, <4>2
      <4>3. CASE p[2] # 0
        <5>1. /\ Elder(p) \in Steps /\ Measure(Elder(p)) < h - 1
              /\ Kid(p) \in Steps /\ Measure(Kid(p)) < h - 1
          BY <1>1, <1>2, <2>2, <3>5, <4>3
        <5>2. g[Elder(p)] = f[Elder(p)] /\ g[Kid(p)] = f[Kid(p)]
          BY <3>4, <5>1
        <5> QED
          BY <4>1, <4>3, <5>2
      <4> QED
        BY <4>2, <4>3
    <3> HIDE DEF g
    <3>6. Good(g, h)
      BY <3>5
    <3> QED
      BY <3>3, <3>6
  <2> QED
    BY <2>3, <2>4
<1> DEFINE Sol(h) == CHOOSE f \in [Steps -> V] : Good(f, h)
<1>6. ASSUME NEW h \in Nat
      PROVE  Sol(h) \in [Steps -> V] /\ Good(Sol(h), h)
  <2> HIDE DEF Good
  <2> QED
    BY <1>5
<1> HIDE DEF Sol
<1> DEFINE F == [p \in Steps |-> Sol(Measure(p) + 1)[p]]
<1>7. F \in [Steps -> V]
  BY <1>2, <1>6
<1>8. ASSUME NEW p \in Steps
      PROVE  F[p] = Value(F, p)
  <2> DEFINE f == Sol(Measure(p) + 1)
  <2>1. f \in [Steps -> V] /\ Good(f, Measure(p) + 1) /\ Measure(p) \in Nat
    BY <1>2, <1>6
  <2>2. F[p] = f[p]
    OBVIOUS
  <2> HIDE DEF f
  <2>3. f[p] = Value(f, p)
    BY <2>1
  <2>4. ASSUME NEW q \in Steps, Measure(q) < Measure(p)
        PROVE  F[q] = f[q]
    <3> DEFINE g == Sol(Measure(q) + 1)
    <3>1. g \in [Steps -> V] /\ Good(g, Measure(q) + 1) /\ Measure(q) \in Nat
      BY <1>2, <1>6
    <3>2. F[q] = g[q]
      OBVIOUS
    <3> HIDE DEF g, F
    <3>3. Good(f, Measure(q) + 1)
      <4> SUFFICES ASSUME NEW r \in Steps, Measure(r) < Measure(q) + 1
                   PROVE  f[r] = Value(f, r)
        OBVIOUS
      <4> HIDE DEF Value
      <4>1. Measure(r) < Measure(p) + 1
        BY <1>2, <2>4
      <4> QED
        BY <2>1, <4>1
    <3>4. f[q] = g[q]
      <4> HIDE DEF Good
      <4>1. Measure(q) + 1 \in Nat /\ Measure(q) < Measure(q) + 1
        BY <3>1
      <4> QED
        BY <1>4, <2>1, <3>1, <3>3, <4>1
    <3> QED
      BY <3>2, <3>4
  <2> HIDE DEF F
  <2>5. CASE p[2] = 0
    BY <2>2, <2>3, <2>5
  <2>6. CASE p[2] # 0
    <3>1. F[Elder(p)] = f[Elder(p)] /\ F[Kid(p)] = f[Kid(p)]
      BY <1>1, <2>4, <2>6
    <3> QED
      BY <2>2, <2>3, <2>6, <3>1
  <2> QED
    BY <2>5, <2>6
<1> HIDE DEF F
<1>9. F = [p \in Steps |-> Value(F, p)]
  BY <1>7, <1>8
<1> QED
  BY <1>7, <1>9 DEF Elder, Kid, Solves

(* Static sizes *)
LEMMA SizeSolves ==
  SizeUpTo = [p \in Steps |->
    IF p[2] = 0 THEN Own[p[1]]
    ELSE SizeUpTo[<<p[1], p[2] - 1>>]
         + SizeUpTo[<<Kids[p[1]][p[2]], Len(Kids[Kids[p[1]][p[2]]])>>]]
<1> DEFINE Equation(f) ==
             f = [p \in Steps |->
               IF p[2] = 0 THEN Own[p[1]]
               ELSE f[<<p[1], p[2] - 1>>] + f[<<Kids[p[1]][p[2]], Len(Kids[Kids[p[1]][p[2]]])>>]]
           sum == [x \in Nat \X Nat |-> x[1] + x[2]]
           full == [n \in Node |-> Len(Kids[n])]
<1>1. /\ Own \in [Node -> Nat] /\ sum \in [Nat \X Nat -> Nat] /\ full \in [Node -> Nat]
      /\ \A n \in Node : full[n] <= Len(Kids[n])
  BY KidFacts, EncodeAssumption
<1>2. \A a, b \in Nat : sum[<<a, b>>] = a + b
  OBVIOUS
<1>3. \A n \in Node : full[n] = Len(Kids[n])
  OBVIOUS
<1> HIDE DEF sum, full
<1>4. PICK f \in [Steps -> Nat] : Solves(f, Own, sum, full)
  BY <1>1, Solution
<1>5. ASSUME NEW p \in Steps
      PROVE  f[p] = IF p[2] = 0 THEN Own[p[1]]
                    ELSE f[<<p[1], p[2] - 1>>]
                         + f[<<Kids[p[1]][p[2]], Len(Kids[Kids[p[1]][p[2]]])>>]
  <2>1. f[p] = IF p[2] = 0 THEN Own[p[1]]
               ELSE sum[<<f[<<p[1], p[2] - 1>>], f[<<Kids[p[1]][p[2]], full[Kids[p[1]][p[2]]]>>]>>]
    BY <1>4, Zenon DEF Solves
  <2>2. CASE p[2] # 0
    <3> DEFINE kid == Kids[p[1]][p[2]]
               last == Len(Kids[kid])
    <3>1. p[1] \in Node /\ p[2] \in Nat /\ p[2] <= Len(Kids[p[1]])
      BY StepParts
    <3>2. <<p[1], p[2] - 1>> \in Steps /\ kid \in Node
      BY <2>2, <3>1, StepTypes
    <3>3. <<kid, last>> \in Steps
      BY <3>2, KidFacts DEF Steps
    <3>4. full[kid] = last
      BY <1>3, <3>2
    <3> HIDE DEF kid, last
    <3>5. f[<<p[1], p[2] - 1>>] \in Nat /\ f[<<kid, last>>] \in Nat
      BY <3>2, <3>3
    <3>6. f[p] = sum[<<f[<<p[1], p[2] - 1>>], f[<<kid, last>>]>>]
      BY <2>1, <2>2, <3>4 DEF kid
    <3> QED
      BY <1>2, <2>2, <3>5, <3>6 DEF kid, last
  <2> QED
    BY <2>1, <2>2
<1>6. Equation(f)
  BY <1>5, Zenon
<1>7. Equation(CHOOSE g : Equation(g))
  <2> HIDE DEF Equation
  <2> QED
    BY <1>6
<1>8. SizeUpTo = CHOOSE g : Equation(g)
  BY DEF SizeUpTo
<1>9. Equation(SizeUpTo)
  <2> HIDE DEF Equation
  <2> QED
    BY <1>7, <1>8
<1> QED
  BY <1>9

LEMMA SizeEquation ==
  ASSUME NEW n \in Node
  PROVE  /\ <<n, 0>> \in Steps /\ SizeUpTo[<<n, 0>>] = Own[n]
         /\ \A k \in 1 .. Len(Kids[n]) :
              /\ <<n, k>> \in Steps
              /\ SizeUpTo[<<n, k>>] = SizeUpTo[<<n, k - 1>>] + StaticSize(Kids[n][k])
<1>1. ASSUME NEW k \in Nat, k <= Len(Kids[n])
      PROVE  /\ <<n, k>> \in Steps
             /\ SizeUpTo[<<n, k>>] =
                  IF k = 0 THEN Own[n]
                  ELSE SizeUpTo[<<n, k - 1>>] + SizeUpTo[<<Kids[n][k], Len(Kids[Kids[n][k]])>>]
  <2> DEFINE p == <<n, k>>
  <2>1. p \in Steps /\ p[1] = n /\ p[2] = k
    BY <1>1, StepTypes
  <2> HIDE DEF p
  <2>2. SizeUpTo[p] =
          IF p[2] = 0 THEN Own[p[1]]
          ELSE SizeUpTo[<<p[1], p[2] - 1>>]
               + SizeUpTo[<<Kids[p[1]][p[2]], Len(Kids[Kids[p[1]][p[2]]])>>]
    BY <2>1, SizeSolves, Zenon
  <2> QED
    BY <2>1, <2>2 DEF p
<1>2. 0 \in Nat /\ 0 <= Len(Kids[n])
  BY KidFacts
<1>3. \A k \in 1 .. Len(Kids[n]) : k \in Nat /\ k <= Len(Kids[n]) /\ k # 0
  BY KidFacts
<1> QED
  BY <1>1, <1>2, <1>3 DEF StaticSize

LEMMA SizeNat == \A p \in Steps : SizeUpTo[p] \in Nat
<1> DEFINE S == {p \in Steps : SizeUpTo[p] \in Nat}
<1>1. ASSUME NEW n \in Node, NEW k \in 0 .. Len(Kids[n]), k # 0 => Before(n, k) \subseteq S
      PROVE  <<n, k>> \in S
  <2>1. CASE k = 0
    BY <2>1, SizeEquation, KidFacts
  <2>2. CASE k # 0
    <3>1. k \in 1 .. Len(Kids[n])
      BY <2>2, KidFacts
    <3>2. Len(Kids[Kids[n][k]]) \in 0 .. Len(Kids[Kids[n][k]])
      BY <3>1, KidFacts
    <3>3. <<n, k - 1>> \in S /\ <<Kids[n][k], Len(Kids[Kids[n][k]])>> \in S
      BY <1>1, <2>2, <3>2 DEF Before
    <3>4. SizeUpTo[<<n, k>>] = SizeUpTo[<<n, k - 1>>] + StaticSize(Kids[n][k]) /\ <<n, k>> \in Steps
      BY <3>1, SizeEquation
    <3> QED
      BY <3>3, <3>4 DEF StaticSize
  <2> QED
    BY <2>1, <2>2
<1> HIDE DEF S
<1>2. Steps \subseteq S
  BY <1>1, FromTheStart
<1> QED
  BY <1>2 DEF S

LEMMA StaticSizeNat == \A n \in Node : StaticSize(n) \in Nat /\ <<n, Len(Kids[n])>> \in Steps
<1> SUFFICES ASSUME NEW n \in Node
             PROVE  StaticSize(n) \in Nat /\ <<n, Len(Kids[n])>> \in Steps
  OBVIOUS
<1>1. <<n, Len(Kids[n])>> \in Steps
  BY KidFacts DEF Steps
<1> QED
  BY <1>1, SizeNat DEF StaticSize

(* Encodings *)
SaysOK == says \in [Seqs -> 0 .. MaxSays]
Bytes == Node \X Nat

LEMMA WrittenRange ==
  ASSUME SaysOK, NEW n \in Node
  PROVE  /\ Loops(n) \in Nat /\ Written(n) \in Nat
         /\ Written(n) <= Len(Kids[n]) /\ Written(n) <= Loops(n)
         /\ Written(n) \in 0 .. Len(Kids[n]) /\ <<n, Written(n)>> \in Steps
         /\ n \notin Seqs => Written(n) = Len(Kids[n]) /\ Loops(n) = Len(Kids[n])
<1>1. Len(Kids[n]) \in Nat
  BY KidFacts
<1>2. Loops(n) \in Nat
  BY <1>1, EncodeAssumption DEF SaysOK, Loops
<1>3. Written(n) \in Nat /\ Written(n) <= Len(Kids[n]) /\ Written(n) <= Loops(n)
  BY <1>1, <1>2 DEF Written
<1>4. n \notin Seqs => Loops(n) = Len(Kids[n])
  BY DEF Loops
<1>5. n \notin Seqs => Written(n) = Len(Kids[n])
  BY <1>1, <1>4 DEF Written
<1> QED
  BY <1>1, <1>2, <1>3, <1>4, <1>5 DEF Steps

LEMMA EncodedSolves ==
  ASSUME SaysOK
  PROVE  EncodedUpTo = [p \in Steps |->
           IF p[2] = 0 THEN [i \in 1 .. Own[p[1]] |-> <<p[1], i>>]
           ELSE EncodedUpTo[<<p[1], p[2] - 1>>]
                \o EncodedUpTo[<<Kids[p[1]][p[2]], Written(Kids[p[1]][p[2]])>>]]
<1> DEFINE Equation(f) ==
             f = [p \in Steps |->
               IF p[2] = 0 THEN [i \in 1 .. Own[p[1]] |-> <<p[1], i>>]
               ELSE f[<<p[1], p[2] - 1>>] \o f[<<Kids[p[1]][p[2]], Written(Kids[p[1]][p[2]])>>]]
           V == Seq(Bytes)
           base == [n \in Node |-> [i \in 1 .. Own[n] |-> <<n, i>>]]
           cat == [x \in V \X V |-> x[1] \o x[2]]
           full == [n \in Node |-> Written(n)]
<1>1. base \in [Node -> V]
  <2> SUFFICES ASSUME NEW n \in Node PROVE [i \in 1 .. Own[n] |-> <<n, i>>] \in V
    OBVIOUS
  <2>1. Own[n] \in Nat
    BY KidFacts
  <2> QED
    BY <2>1 DEF Bytes
<1>2. cat \in [V \X V -> V]
  OBVIOUS
<1>3. full \in [Node -> Nat] /\ \A n \in Node : full[n] <= Len(Kids[n])
  BY WrittenRange
<1>4. \A a, b \in V : cat[<<a, b>>] = a \o b
  OBVIOUS
<1>5. /\ \A n \in Node : full[n] = Written(n)
      /\ \A n \in Node : base[n] = [i \in 1 .. Own[n] |-> <<n, i>>]
  OBVIOUS
<1> HIDE DEF base, cat, full, V
<1>6. PICK f \in [Steps -> V] : Solves(f, base, cat, full)
  BY <1>1, <1>2, <1>3, Solution
<1>7. ASSUME NEW p \in Steps
      PROVE  f[p] = IF p[2] = 0 THEN [i \in 1 .. Own[p[1]] |-> <<p[1], i>>]
                    ELSE f[<<p[1], p[2] - 1>>]
                         \o f[<<Kids[p[1]][p[2]], Written(Kids[p[1]][p[2]])>>]
  <2>1. f[p] = IF p[2] = 0 THEN base[p[1]]
               ELSE cat[<<f[<<p[1], p[2] - 1>>], f[<<Kids[p[1]][p[2]], full[Kids[p[1]][p[2]]]>>]>>]
    BY <1>6, Zenon DEF Solves
  <2>2. p[1] \in Node /\ p[2] \in Nat /\ p[2] <= Len(Kids[p[1]])
    BY StepParts
  <2>3. CASE p[2] # 0
    <3> DEFINE kid == Kids[p[1]][p[2]]
    <3>1. <<p[1], p[2] - 1>> \in Steps /\ kid \in Node
      BY <2>2, <2>3, StepTypes
    <3>2. <<kid, Written(kid)>> \in Steps
      BY <3>1, WrittenRange
    <3>3. full[kid] = Written(kid)
      BY <1>5, <3>1
    <3> HIDE DEF kid
    <3>4. f[<<p[1], p[2] - 1>>] \in V /\ f[<<kid, Written(kid)>>] \in V
      BY <3>1, <3>2
    <3>5. f[p] = cat[<<f[<<p[1], p[2] - 1>>], f[<<kid, Written(kid)>>]>>]
      BY <2>1, <2>3, <3>3 DEF kid
    <3> QED
      BY <1>4, <2>3, <3>4, <3>5 DEF kid
  <2>4. CASE p[2] = 0
    BY <1>5, <2>1, <2>2, <2>4
  <2> QED
    BY <2>3, <2>4
<1>8. Equation(f)
  BY <1>7, Zenon
<1>9. Equation(CHOOSE g : Equation(g))
  <2> HIDE DEF Equation
  <2> QED
    BY <1>8
<1>10. EncodedUpTo = CHOOSE g : Equation(g)
  BY DEF EncodedUpTo
<1>11. Equation(EncodedUpTo)
  <2> HIDE DEF Equation
  <2> QED
    BY <1>9, <1>10
<1> QED
  BY <1>11

LEMMA EncodedEquation ==
  ASSUME SaysOK, NEW n \in Node
  PROVE  /\ <<n, 0>> \in Steps /\ EncodedUpTo[<<n, 0>>] = [i \in 1 .. Own[n] |-> <<n, i>>]
         /\ \A k \in 1 .. Len(Kids[n]) :
              /\ <<n, k>> \in Steps
              /\ EncodedUpTo[<<n, k>>] = EncodedUpTo[<<n, k - 1>>] \o Encoding(Kids[n][k])
<1>1. ASSUME NEW k \in Nat, k <= Len(Kids[n])
      PROVE  /\ <<n, k>> \in Steps
             /\ EncodedUpTo[<<n, k>>] =
                  IF k = 0 THEN [i \in 1 .. Own[n] |-> <<n, i>>]
                  ELSE EncodedUpTo[<<n, k - 1>>] \o EncodedUpTo[<<Kids[n][k], Written(Kids[n][k])>>]
  <2> DEFINE p == <<n, k>>
  <2>1. p \in Steps /\ p[1] = n /\ p[2] = k
    BY <1>1, StepTypes
  <2> HIDE DEF p
  <2>2. EncodedUpTo[p] =
          IF p[2] = 0 THEN [i \in 1 .. Own[p[1]] |-> <<p[1], i>>]
          ELSE EncodedUpTo[<<p[1], p[2] - 1>>]
               \o EncodedUpTo[<<Kids[p[1]][p[2]], Written(Kids[p[1]][p[2]])>>]
    BY <2>1, EncodedSolves, Zenon
  <2> QED
    BY <2>1, <2>2 DEF p
<1>2. 0 \in Nat /\ 0 <= Len(Kids[n])
  BY KidFacts
<1>3. \A k \in 1 .. Len(Kids[n]) : k \in Nat /\ k <= Len(Kids[n]) /\ k # 0
  BY KidFacts
<1> QED
  BY <1>1, <1>2, <1>3 DEF Encoding

LEMMA Concat ==
  ASSUME NEW B, NEW a \in Seq(B), NEW b \in Seq(B)
  PROVE  /\ a \o b \in Seq(B) /\ Len(a \o b) = Len(a) + Len(b)
         /\ \A i \in 1 .. Len(a) : (a \o b)[i] = a[i]
         /\ \A i \in 1 .. Len(b) : (a \o b)[Len(a) + i] = b[i]
OBVIOUS

LEMMA EncodedType == ASSUME SaysOK PROVE \A p \in Steps : EncodedUpTo[p] \in Seq(Bytes)
<1> DEFINE S == {p \in Steps : EncodedUpTo[p] \in Seq(Bytes)}
<1>1. ASSUME NEW n \in Node, NEW k \in 0 .. Len(Kids[n]), k # 0 => Before(n, k) \subseteq S
      PROVE  <<n, k>> \in S
  <2>1. CASE k = 0
    <3>1. Own[n] \in Nat
      BY KidFacts
    <3>2. [i \in 1 .. Own[n] |-> <<n, i>>] \in Seq(Bytes)
      BY <3>1 DEF Bytes
    <3> QED
      BY <2>1, <3>2, EncodedEquation
  <2>2. CASE k # 0
    <3>1. k \in 1 .. Len(Kids[n])
      BY <2>2, KidFacts
    <3> DEFINE kid == Kids[n][k]
    <3>2. kid \in Node
      BY <3>1, KidFacts
    <3>3. Written(kid) \in 0 .. Len(Kids[kid])
      BY <3>2, WrittenRange
    <3>4. <<n, k - 1>> \in S /\ <<kid, Written(kid)>> \in S
      BY <1>1, <2>2, <3>3 DEF Before
    <3>5. EncodedUpTo[<<n, k>>] = EncodedUpTo[<<n, k - 1>>] \o Encoding(kid) /\ <<n, k>> \in Steps
      BY <3>1, EncodedEquation
    <3>6. EncodedUpTo[<<n, k - 1>>] \in Seq(Bytes) /\ Encoding(kid) \in Seq(Bytes)
      BY <3>4 DEF Encoding
    <3> HIDE DEF kid
    <3>7. EncodedUpTo[<<n, k>>] \in Seq(Bytes)
      BY <3>5, <3>6, Concat
    <3> QED
      BY <3>5, <3>7
  <2> QED
    BY <2>1, <2>2
<1> HIDE DEF S
<1>2. Steps \subseteq S
  BY <1>1, FromTheStart
<1> QED
  BY <1>2 DEF S

(* `part` stands in `whole` behind the first `from` elements. *)
Within(from, part, whole) ==
  /\ from + Len(part) <= Len(whole)
  /\ \A j \in 1 .. Len(part) : whole[from + j] = part[j]

LEMMA WithinTransitive ==
  ASSUME NEW a, NEW b, NEW c, Len(a) \in Nat, Len(b) \in Nat, Len(c) \in Nat,
         NEW x \in Nat, NEW y \in Nat, Within(x, a, b), Within(y, b, c)
  PROVE  Within(y + x, a, c)
<1>1. y + x + Len(a) <= Len(c)
  BY DEF Within
<1>2. ASSUME NEW j \in 1 .. Len(a)
      PROVE  c[y + x + j] = a[j]
  <2>1. x + j \in 1 .. Len(b) /\ y + (x + j) = y + x + j
    BY DEF Within
  <2> QED
    BY <2>1 DEF Within
<1> QED
  BY <1>1, <1>2 DEF Within

LEMMA StepEncoded ==
  ASSUME SaysOK, NEW n \in Node, NEW k \in 0 .. Len(Kids[n])
  PROVE  /\ EncodedUpTo[<<n, k>>] \in Seq(Bytes) /\ Len(EncodedUpTo[<<n, k>>]) \in Nat
         /\ Encoding(n) \in Seq(Bytes) /\ Len(Encoding(n)) \in Nat
<1>1. k \in Nat /\ k <= Len(Kids[n])
  BY KidFacts
<1>2. <<n, k>> \in Steps /\ <<n, Written(n)>> \in Steps
  BY <1>1, StepTypes, WrittenRange
<1>3. EncodedUpTo[<<n, k>>] \in Seq(Bytes) /\ Encoding(n) \in Seq(Bytes)
  BY <1>2, EncodedType DEF Encoding
<1> QED
  BY <1>3

(* What a node has encoded after k children is a prefix of what it has after m. *)
LEMMA EncodedGrows ==
  ASSUME SaysOK
  PROVE  \A n \in Node : \A m \in 0 .. Len(Kids[n]) : \A k \in 0 .. m :
           Within(0, EncodedUpTo[<<n, k>>], EncodedUpTo[<<n, m>>])
<1> DEFINE S == {p \in Steps : \A k \in 0 .. p[2] :
                   Within(0, EncodedUpTo[<<p[1], k>>], EncodedUpTo[<<p[1], p[2]>>])}
<1>1. ASSUME NEW n \in Node, NEW m \in 0 .. Len(Kids[n]), m # 0 => Before(n, m) \subseteq S
      PROVE  <<n, m>> \in S
  <2> DEFINE E(k) == EncodedUpTo[<<n, k>>]
  <2>1. \A k \in 0 .. Len(Kids[n]) : E(k) \in Seq(Bytes) /\ Len(E(k)) \in Nat
    BY StepEncoded
  <2>2. m \in Nat /\ m <= Len(Kids[n]) /\ <<n, m>> \in Steps /\ Len(Kids[n]) \in Nat
    BY Counts
  <2>3. ASSUME NEW k \in 0 .. m
        PROVE  Within(0, E(k), E(m))
    <3>1. CASE k = m
      BY <2>1, <2>2, <3>1 DEF Within
    <3>2. CASE k # m
      <4>1. m \in 1 .. Len(Kids[n]) /\ k \in 0 .. m - 1 /\ m - 1 \in 0 .. Len(Kids[n]) /\ m # 0
            /\ k \in 0 .. Len(Kids[n])
        BY <2>2, <3>2
      <4>2. <<n, m - 1>> \in S
        BY <1>1, <4>1 DEF Before
      <4>3. Within(0, E(k), E(m - 1))
        BY <4>1, <4>2
      <4>4. E(m) = E(m - 1) \o Encoding(Kids[n][m])
        BY <4>1, EncodedEquation
      <4>5. Kids[n][m] \in Node /\ 0 \in 0 .. Len(Kids[Kids[n][m]])
        BY <4>1, KidFacts
      <4>6. Encoding(Kids[n][m]) \in Seq(Bytes)
        BY <4>5, StepEncoded
      <4>7. E(m - 1) \in Seq(Bytes) /\ Len(E(m - 1)) \in Nat /\ Len(E(k)) \in Nat
            /\ Len(E(m)) \in Nat
        BY <2>1, <2>2, <4>1
      <4> HIDE DEF E, S
      <4>8. Within(0, E(m - 1), E(m))
        BY <4>4, <4>6, <4>7, Concat DEF Within
      <4>9. Within(0 + 0, E(k), E(m))
        BY <4>3, <4>7, <4>8, WithinTransitive
      <4> QED
        BY <4>9
    <3> QED
      BY <3>1, <3>2
  <2> QED
    BY <2>2, <2>3
<1> HIDE DEF S
<1>2. Steps \subseteq S
  BY <1>1, FromTheStart
<1>3. ASSUME NEW n \in Node, NEW m \in 0 .. Len(Kids[n])
      PROVE  <<n, m>> \in S
  BY <1>2, Counts
<1> QED
  BY <1>3 DEF S

(* Where a node's own bytes and its children stand in its encoding. *)
LEMMA OwnWithin ==
  ASSUME SaysOK, NEW n \in Node
  PROVE  /\ Len(EncodedUpTo[<<n, 0>>]) = Own[n]
         /\ \A j \in 1 .. Own[n] : EncodedUpTo[<<n, 0>>][j] = <<n, j>>
         /\ \A k \in 0 .. Written(n) : Within(0, EncodedUpTo[<<n, k>>], Encoding(n))
<1>1. Own[n] \in Nat
  BY KidFacts
<1>2. EncodedUpTo[<<n, 0>>] = [i \in 1 .. Own[n] |-> <<n, i>>]
  BY EncodedEquation
<1>3. \A k \in 0 .. Written(n) : Within(0, EncodedUpTo[<<n, k>>], Encoding(n))
  BY WrittenRange, EncodedGrows DEF Encoding
<1> QED
  BY <1>1, <1>2, <1>3

LEMMA KidWithin ==
  ASSUME SaysOK, NEW n \in Node, NEW k \in 1 .. Written(n)
  PROVE  /\ Kids[n][k] \in Node
         /\ Len(EncodedUpTo[<<n, k>>]) = Len(EncodedUpTo[<<n, k - 1>>]) + Len(Encoding(Kids[n][k]))
         /\ Within(Len(EncodedUpTo[<<n, k - 1>>]), Encoding(Kids[n][k]), Encoding(n))
<1> DEFINE before == EncodedUpTo[<<n, k - 1>>]
           kid == Encoding(Kids[n][k])
           after == EncodedUpTo[<<n, k>>]
           whole == Encoding(n)
<1>1. k \in 1 .. Len(Kids[n]) /\ k - 1 \in 0 .. Len(Kids[n]) /\ k \in 0 .. Len(Kids[n])
      /\ k \in 0 .. Written(n) /\ 0 \in 0 .. Len(Kids[n])
  <2>1. Written(n) \in Nat /\ Written(n) <= Len(Kids[n]) /\ Len(Kids[n]) \in Nat
    BY WrittenRange, KidFacts
  <2> QED
    BY <2>1
<1>2. Kids[n][k] \in Node /\ 0 \in 0 .. Len(Kids[Kids[n][k]])
  BY <1>1, KidFacts
<1>3. /\ before \in Seq(Bytes) /\ kid \in Seq(Bytes)
      /\ Len(before) \in Nat /\ Len(kid) \in Nat /\ Len(after) \in Nat /\ Len(whole) \in Nat
  BY <1>1, <1>2, StepEncoded
<1>4. after = before \o kid
  BY <1>1, EncodedEquation
<1>5. Within(0, after, whole)
  BY <1>1, OwnWithin
<1> HIDE DEF before, kid, after, whole
<1>6. Len(after) = Len(before) + Len(kid) /\ Within(Len(before), kid, after)
  BY <1>3, <1>4, Concat DEF Within
<1>7. Within(0 + Len(before), kid, whole)
  BY <1>3, <1>5, <1>6, WithinTransitive
<1> QED
  BY <1>2, <1>3, <1>6, <1>7 DEF before, kid, after, whole

(* join_types adds up what a static value writes. *)
LEMMA StaticLength ==
  ASSUME SaysOK
  PROVE  \A n \in Static : \A k \in 0 .. Len(Kids[n]) :
           Len(EncodedUpTo[<<n, k>>]) = SizeUpTo[<<n, k>>]
<1> DEFINE S == {p \in Steps : p[1] \in Static => Len(EncodedUpTo[p]) = SizeUpTo[p]}
<1>1. ASSUME NEW n \in Node, NEW k \in 0 .. Len(Kids[n]), k # 0 => Before(n, k) \subseteq S
      PROVE  <<n, k>> \in S
  <2>1. <<n, k>> \in Steps /\ <<n, k>>[1] = n /\ k \in Nat /\ k <= Len(Kids[n])
    BY Counts
  <2> SUFFICES ASSUME n \in Static
               PROVE  Len(EncodedUpTo[<<n, k>>]) = SizeUpTo[<<n, k>>]
    BY <2>1
  <2>2. CASE k = 0
    BY <2>2, OwnWithin, SizeEquation
  <2>3. CASE k # 0
    <3> DEFINE kid == Kids[n][k]
               last == Len(Kids[kid])
    <3>1. k \in 1 .. Len(Kids[n]) /\ k - 1 \in 0 .. Len(Kids[n]) /\ k \in DOMAIN Kids[n]
      BY <2>1, <2>3, KidFacts
    <3>2. kid \in Node /\ kid \in Static /\ kid \notin Seqs
      BY <3>1, KidFacts, TreeAssumption
    <3>3. last \in 0 .. last /\ Written(kid) = last
      BY <3>2, KidFacts, WrittenRange
    <3>4. <<n, k - 1>> \in S /\ <<kid, last>> \in S
      BY <1>1, <2>3, <3>3 DEF Before
    <3>5. Len(EncodedUpTo[<<n, k - 1>>]) = SizeUpTo[<<n, k - 1>>]
          /\ Len(Encoding(kid)) = StaticSize(kid)
      BY <3>2, <3>3, <3>4 DEF Encoding, StaticSize
    <3>6. EncodedUpTo[<<n, k>>] = EncodedUpTo[<<n, k - 1>>] \o Encoding(kid)
      BY <3>1, EncodedEquation
    <3>7. EncodedUpTo[<<n, k - 1>>] \in Seq(Bytes) /\ Encoding(kid) \in Seq(Bytes)
      BY <3>1, <3>2, <3>3, StepEncoded
    <3>8. SizeUpTo[<<n, k>>] = SizeUpTo[<<n, k - 1>>] + StaticSize(kid)
      BY <3>1, SizeEquation
    <3>9. Len(EncodedUpTo[<<n, k>>]) = Len(EncodedUpTo[<<n, k - 1>>]) + Len(Encoding(kid))
      BY <3>6, <3>7, Concat, Zenon
    <3> HIDE DEF kid, last
    <3> QED
      BY <3>5, <3>8, <3>9
  <2> QED
    BY <2>2, <2>3
<1> HIDE DEF S
<1>2. Steps \subseteq S
  BY <1>1, FromTheStart
<1>3. Static \subseteq Node
  BY TreeAssumption
<1>4. ASSUME NEW n \in Static, NEW k \in 0 .. Len(Kids[n])
      PROVE  <<n, k>> \in S
  BY <1>2, <1>3, Counts
<1> QED
  BY <1>4 DEF S

LEMMA StaticEncoding ==
  ASSUME SaysOK, NEW n \in Static
  PROVE  n \in Node /\ n \notin Seqs /\ Len(Encoding(n)) = StaticSize(n)
<1>1. n \in Node /\ n \notin Seqs
  BY TreeAssumption
<1>2. Written(n) = Len(Kids[n]) /\ Written(n) \in 0 .. Len(Kids[n])
  BY <1>1, WrittenRange
<1> QED
  BY <1>1, <1>2, StaticLength DEF Encoding, StaticSize

(* Elements of one static size *)
LEMMA OneMore ==
  ASSUME NEW e \in Nat, NEW j, j - 1 \in Nat, j \in Nat
  PROVE  e * j = e * (j - 1) + e /\ e * (j - 1) \in Nat
OBVIOUS

LEMMA ElementsLength ==
  ASSUME SaysOK
  PROVE  \A n \in Opens \cap Seqs : \A k \in 0 .. Len(Kids[n]) :
           Len(EncodedUpTo[<<n, k>>]) = Own[n] + Elem[n] * k
<1> DEFINE S == {p \in Steps : p[1] \in Opens \cap Seqs =>
                   Len(EncodedUpTo[p]) = Own[p[1]] + Elem[p[1]] * p[2]}
<1>1. ASSUME NEW n \in Node, NEW k \in 0 .. Len(Kids[n]), k # 0 => Before(n, k) \subseteq S
      PROVE  <<n, k>> \in S
  <2>1. <<n, k>> \in Steps /\ <<n, k>>[1] = n /\ <<n, k>>[2] = k /\ k \in Nat
        /\ k <= Len(Kids[n]) /\ Own[n] \in Nat
    BY Counts, KidFacts
  <2> SUFFICES ASSUME n \in Opens \cap Seqs
               PROVE  Len(EncodedUpTo[<<n, k>>]) = Own[n] + Elem[n] * k
    BY <2>1
  <2>2. Elem[n] \in Nat
    BY EncodeAssumption DEF Seqs
  <2>3. CASE k = 0
    BY <2>1, <2>2, <2>3, OwnWithin
  <2>4. CASE k # 0
    <3> DEFINE kid == Kids[n][k]
    <3>1. k \in 1 .. Len(Kids[n]) /\ k - 1 \in 0 .. Len(Kids[n]) /\ k \in DOMAIN Kids[n]
          /\ 0 \in 0 .. Len(Kids[n])
      BY <2>1, <2>4, KidFacts
    <3>2. kid \in Static /\ StaticSize(kid) = Elem[n]
      BY <3>1, TreeAssumption
    <3>3. <<n, k - 1>> \in S /\ <<n, k - 1>>[1] = n /\ <<n, k - 1>>[2] = k - 1
      BY <1>1, <2>4 DEF Before
    <3>4. Len(EncodedUpTo[<<n, k - 1>>]) = Own[n] + Elem[n] * (k - 1)
      BY <3>3
    <3>5. Len(Encoding(kid)) = Elem[n] /\ kid \in Node
      BY <3>2, StaticEncoding
    <3>6. EncodedUpTo[<<n, k>>] = EncodedUpTo[<<n, k - 1>>] \o Encoding(kid)
      BY <3>1, EncodedEquation
    <3>7. 0 \in 0 .. Len(Kids[kid])
      BY <3>5, KidFacts
    <3>8. EncodedUpTo[<<n, k - 1>>] \in Seq(Bytes) /\ Encoding(kid) \in Seq(Bytes)
      BY <3>1, <3>5, <3>7, StepEncoded
    <3>9. Len(EncodedUpTo[<<n, k>>]) = Len(EncodedUpTo[<<n, k - 1>>]) + Len(Encoding(kid))
      BY <3>6, <3>8, Concat, Zenon
    <3>10. Elem[n] * k = Elem[n] * (k - 1) + Elem[n] /\ Elem[n] * (k - 1) \in Nat
      <4>1. k - 1 \in Nat
        BY <2>1, <2>4
      <4> QED
        BY <2>1, <2>2, <4>1, OneMore, Zenon
    <3> DEFINE less == Elem[n] * (k - 1)
               all == Elem[n] * k
    <3> HIDE DEF kid, less, all
    <3>11. Len(EncodedUpTo[<<n, k>>]) = (Own[n] + less) + Elem[n] /\ all = less + Elem[n]
           /\ less \in Nat
      BY <3>4, <3>5, <3>9, <3>10 DEF less, all
    <3>12. Len(EncodedUpTo[<<n, k>>]) = Own[n] + all
      BY <2>1, <2>2, <3>11
    <3> QED
      BY <3>12 DEF all
  <2> QED
    BY <2>3, <2>4
<1> HIDE DEF S
<1>2. Steps \subseteq S
  BY <1>1, FromTheStart
<1>3. Opens \subseteq Node
  BY EncodeAssumption
<1>4. ASSUME NEW n \in Opens \cap Seqs, NEW k \in 0 .. Len(Kids[n])
      PROVE  <<n, k>> \in S
  BY <1>2, <1>3, Counts
<1> QED
  BY <1>4 DEF S

-----------------------------------------------------------------------------
(* The window a node asks for holds what the node writes, exactly so when   *)
(* the iterator is as long as it said.                                      *)
LEMMA TimesMonotone ==
  ASSUME NEW n \in Nat, NEW a \in Nat, NEW b \in Nat, a <= b
  PROVE  n * a \in Nat /\ n * b \in Nat /\ n * a <= n * b
<1> DEFINE d == b - a
<1>1. d \in Nat /\ b = a + d
  OBVIOUS
<1>2. n * b = n * a + n * d
  BY <1>1
<1>3. n * d \in Nat /\ n * a \in Nat
  BY <1>1
<1> HIDE DEF d
<1> QED
  BY <1>2, <1>3

LEMMA SmallModulo ==
  ASSUME NEW x \in Nat, NEW top \in Nat, x <= top
  PROVE  x % (top + 1) = x
OBVIOUS

LEMMA NeededCovers ==
  ASSUME SaysOK, NeverWraps, NEW n \in Opens
  PROVE  /\ n \in Node /\ Needed(n) \in Nat
         /\ Len(Encoding(n)) <= Needed(n)
         /\ Written(n) = Loops(n) => Len(Encoding(n)) = Needed(n)
<1>1. CASE n \in Seqs
  <2>1. n \in Node /\ says[n] \in 0 .. MaxSays /\ Elem[n] \in Nat /\ Own[n] \in Nat
        /\ Loops(n) = says[n] /\ says[n] \in Nat /\ WordMax \in Nat
    BY <1>1, EncodeAssumption, KidFacts DEF SaysOK, Loops
  <2>2. Written(n) \in Nat /\ Written(n) <= says[n] /\ Written(n) \in 0 .. Len(Kids[n])
    BY <2>1, WrittenRange
  <2>3. Len(Encoding(n)) = Own[n] + Elem[n] * Written(n)
    BY <1>1, <2>2, ElementsLength DEF Encoding
  <2>4. Own[n] + Elem[n] * says[n] <= WordMax
    BY <1>1, <2>1 DEF NeverWraps
  <2> DEFINE w == Elem[n] * Written(n)
             l == Elem[n] * says[n]
  <2>5. w \in Nat /\ l \in Nat /\ w <= l
    BY <2>1, <2>2, TimesMonotone
  <2>6. Needed(n) = (Own[n] + l) % (WordMax + 1)
    BY <1>1 DEF Needed
  <2>7. Written(n) = Loops(n) => w = l
    BY <2>1
  <2> HIDE DEF w, l
  <2>8. Own[n] + l \in Nat /\ Own[n] + l <= WordMax
    BY <2>1, <2>4, <2>5 DEF l
  <2>9. Needed(n) = Own[n] + l
    BY <2>1, <2>6, <2>8, SmallModulo
  <2>10. Len(Encoding(n)) = Own[n] + w
    BY <2>3 DEF w
  <2> QED
    BY <2>1, <2>5, <2>7, <2>8, <2>9, <2>10
<1>2. CASE n \notin Seqs
  <2>1. n \in Static
    BY <1>2, TreeAssumption
  <2>2. n \in Node /\ Len(Encoding(n)) = StaticSize(n)
    BY <2>1, StaticEncoding
  <2>3. StaticSize(n) \in Nat /\ Needed(n) = StaticSize(n)
    BY <1>2, <2>2, StaticSizeNat DEF Needed
  <2> QED
    BY <2>2, <2>3
<1> QED
  BY <1>1, <1>2

-----------------------------------------------------------------------------
(* The inductive invariant.  Full, Count, Off and Wants are what the above  *)
(* says of a node: its encoding, how many children are in it, how long it   *)
(* is up to a step, and the window that is asked for.                       *)
Full  == [n \in Node |-> Encoding(n)]
Count == [n \in Node |-> Written(n)]
Off   == [p \in Steps |-> Len(EncodedUpTo[p])]
Wants == [n \in Opens |-> Needed(n)]

LEMMA Facts ==
  ASSUME SaysOK, NEW n \in Node
  PROVE  /\ Count[n] \in Nat /\ Count[n] <= Len(Kids[n]) /\ Count[n] <= Loops(n)
         /\ Len(Kids[n]) \in Nat /\ Loops(n) \in Nat
         /\ Loops(n) <= Len(Kids[n]) => Count[n] = Loops(n)
         /\ Full[n] \in Seq(Bytes) /\ Len(Full[n]) \in Nat
         /\ \A k \in 0 .. Count[n] : Off[<<n, k>>] \in Nat /\ Off[<<n, k>>] <= Len(Full[n])
         /\ Off[<<n, 0>>] = Own[n] /\ Own[n] \in Nat /\ Own[n] <= Len(Full[n])
         /\ \A j \in 1 .. Own[n] : Full[n][j] = <<n, j>>
         /\ Off[<<n, Count[n]>>] = Len(Full[n])
<1>1. /\ Loops(n) \in Nat /\ Written(n) \in Nat
      /\ Written(n) <= Len(Kids[n]) /\ Written(n) <= Loops(n)
      /\ Written(n) \in 0 .. Len(Kids[n]) /\ <<n, Written(n)>> \in Steps
  BY WrittenRange
<1>2. Len(Kids[n]) \in Nat /\ Own[n] \in Nat
  BY KidFacts
<1>3. Loops(n) <= Len(Kids[n]) => Written(n) = Loops(n)
  BY <1>1, <1>2 DEF Written
<1>4. Count[n] = Written(n) /\ Full[n] = Encoding(n)
  BY DEF Count, Full
<1>5. Full[n] \in Seq(Bytes) /\ Len(Full[n]) \in Nat
  BY <1>1, <1>4, StepEncoded
<1>6. ASSUME NEW k \in 0 .. Written(n)
      PROVE  /\ <<n, k>> \in Steps /\ Off[<<n, k>>] = Len(EncodedUpTo[<<n, k>>])
             /\ Off[<<n, k>>] \in Nat /\ Off[<<n, k>>] <= Len(Full[n])
  <2>1. k \in 0 .. Len(Kids[n])
    BY <1>1, <1>2
  <2>2. <<n, k>> \in Steps
    BY <2>1, Counts
  <2>3. Off[<<n, k>>] = Len(EncodedUpTo[<<n, k>>])
    BY <2>2 DEF Off
  <2>4. Len(EncodedUpTo[<<n, k>>]) \in Nat
    BY <2>1, StepEncoded
  <2>5. Within(0, EncodedUpTo[<<n, k>>], Encoding(n))
    BY OwnWithin
  <2>6. 0 + Len(EncodedUpTo[<<n, k>>]) <= Len(Encoding(n))
    BY <2>5 DEF Within
  <2> QED
    BY <1>4, <2>2, <2>3, <2>4, <2>6
<1>7. 0 \in 0 .. Written(n) /\ Written(n) \in 0 .. Written(n)
  BY <1>1
<1>8. Off[<<n, 0>>] = Own[n]
  BY <1>6, <1>7, OwnWithin
<1>9. Off[<<n, Written(n)>>] = Len(Full[n])
  BY <1>4, <1>6, <1>7 DEF Encoding
<1>10. Own[n] <= Len(Full[n])
  BY <1>6, <1>7, <1>8
<1>11. ASSUME NEW j \in 1 .. Own[n]
       PROVE  Full[n][j] = <<n, j>>
  <2>1. Within(0, EncodedUpTo[<<n, 0>>], Encoding(n)) /\ Len(EncodedUpTo[<<n, 0>>]) = Own[n]
        /\ EncodedUpTo[<<n, 0>>][j] = <<n, j>>
    BY <1>7, OwnWithin
  <2>2. Encoding(n)[0 + j] = EncodedUpTo[<<n, 0>>][j]
    BY <2>1 DEF Within
  <2>3. 0 + j = j
    BY <1>2
  <2> QED
    BY <1>4, <2>1, <2>2, <2>3
<1> QED
  BY <1>1, <1>2, <1>3, <1>4, <1>5, <1>6, <1>8, <1>9, <1>10, <1>11

LEMMA KidOffset ==
  ASSUME SaysOK, NEW n \in Node, NEW k \in 1 .. Count[n]
  PROVE  /\ Kids[n][k] \in Node /\ k \in DOMAIN Kids[n]
         /\ k - 1 \in 0 .. Count[n] /\ k \in 0 .. Count[n]
         /\ Off[<<n, k>>] = Off[<<n, k - 1>>] + Len(Full[Kids[n][k]])
         /\ Within(Off[<<n, k - 1>>], Full[Kids[n][k]], Full[n])
<1>1. Count[n] = Written(n) /\ Count[n] \in Nat /\ Count[n] <= Len(Kids[n]) /\ Full[n] = Encoding(n)
      /\ Len(Kids[n]) \in Nat
  BY Facts DEF Count, Full
<1>2. k \in 1 .. Len(Kids[n]) /\ k - 1 \in 0 .. Len(Kids[n]) /\ k \in 0 .. Len(Kids[n])
      /\ k - 1 \in 0 .. Count[n] /\ k \in 0 .. Count[n] /\ k \in DOMAIN Kids[n]
  BY <1>1, KidFacts
<1>3. Off[<<n, k>>] = Len(EncodedUpTo[<<n, k>>]) /\ Off[<<n, k - 1>>] = Len(EncodedUpTo[<<n, k - 1>>])
  BY <1>2, Counts DEF Off
<1>4. /\ Kids[n][k] \in Node
      /\ Len(EncodedUpTo[<<n, k>>]) = Len(EncodedUpTo[<<n, k - 1>>]) + Len(Encoding(Kids[n][k]))
      /\ Within(Len(EncodedUpTo[<<n, k - 1>>]), Encoding(Kids[n][k]), Encoding(n))
  BY <1>1, KidWithin
<1>5. Full[Kids[n][k]] = Encoding(Kids[n][k])
  BY <1>4 DEF Full
<1> QED
  BY <1>1, <1>2, <1>3, <1>4, <1>5

LEMMA WindowSize ==
  ASSUME SaysOK, NeverWraps, NEW n \in Opens
  PROVE  /\ n \in Node /\ Wants[n] = Needed(n) /\ Wants[n] \in Nat
         /\ Len(Full[n]) <= Wants[n]
         /\ Count[n] = Loops(n) => Len(Full[n]) = Wants[n]
         /\ \A k \in DOMAIN Kids[n] : Kids[n][k] \in Static
<1>1. \A k \in DOMAIN Kids[n] : Kids[n][k] \in Static
  BY TreeAssumption
<1> QED
  BY <1>1, NeededCovers DEF Full, Count, Wants

LEMMA InputsKept ==
  ASSUME UNCHANGED inputs
  PROVE  /\ Full' = Full /\ Count' = Count /\ Off' = Off /\ Wants' = Wants
         /\ SaysOK => SaysOK'
         /\ UNCHANGED <<sink, room, root, says>>
<1>1. UNCHANGED <<sink, room, root, says>>
  BY DEF inputs
<1>2. EncodedUpTo' = EncodedUpTo
  BY <1>1 DEF EncodedUpTo, Written, Loops
<1>3. Full' = Full
  BY <1>1, <1>2 DEF Full, Encoding, Written, Loops
<1>4. Count' = Count
  BY <1>1 DEF Count, Written, Loops
<1>5. Off' = Off
  BY <1>2 DEF Off
<1>6. Wants' = Wants
  BY <1>1 DEF Wants, Needed
<1>7. SaysOK => SaysOK'
  BY <1>1 DEF SaysOK
<1> QED
  BY <1>1, <1>3, <1>4, <1>5, <1>6, <1>7

(* Where the next byte goes, and what a frame has written by its next step. *)
Cursor == IF InWindow THEN win.at ELSE pos
Done(f) == IF f.next <= 1 THEN 0 ELSE Off[<<f.node, f.next - 2>>]

(* Every frame but the last is inside the child that the next frame writes. *)
StackInv ==
  /\ \A i \in 1 .. Len(stack) : stack[i].next <= Count[stack[i].node] + 2
  /\ \A i \in 1 .. Len(stack) - 1 :
       /\ stack[i].next >= 2 /\ stack[i].next - 1 <= Count[stack[i].node]
       /\ stack[i + 1].node = Kids[stack[i].node][stack[i].next - 1]

(* A window belongs to a frame on the stack; above it all sizes are static. *)
WindowInv ==
  InWindow =>
    /\ sink # "stream"
    /\ win.owner \in 1 .. Len(stack)
    /\ stack[win.owner].node \in Opens /\ stack[win.owner].next >= 1
    /\ \A i \in win.owner + 1 .. Len(stack) : stack[i].node \in Static
    /\ pos = IF sink \in Ahead THEN win.edge ELSE win.at

(* Frame i began to write at start[i], where its encoding stands in the     *)
(* whole one; the window ends where the encoding of its owner must end.     *)
Laid(start) ==
  /\ stack # <<>> => stack[1].node = root /\ start[1] = 0
  /\ \A i \in 1 .. Len(stack) - 1 : start[i + 1] = start[i] + Done(stack[i])
  /\ \A i \in 1 .. Len(stack) : Within(start[i], Full[stack[i].node], Full[root])
  /\ stack # <<>> /\ (mode = "run" \/ InWindow) => Cursor = start[Len(stack)] + Done(Top)
  /\ InWindow =>
       /\ win.edge = start[win.owner] + Wants[stack[win.owner].node]
       /\ \A i \in win.owner .. Len(stack) : start[i] + Len(Full[stack[i].node]) <= win.edge

(* The first w bytes are written, as the encoding has them, and no others. *)
Holds(w) ==
  /\ w <= Len(Full[root])
  /\ mode # "failed" => w = Cursor
  /\ \A i \in 1 .. room : (out[i] # Blank) <=> (i <= w)
  /\ \A i \in 1 .. room : i <= w => out[i] = Full[root][i]

EndInv ==
  /\ stack = <<>> => Cursor = Len(Full[root])
  /\ closed => mode = "ok"
  /\ mode = "ok" => stack = <<>>

IInv ==
  /\ TypeOK /\ StackInv /\ WindowInv /\ EndInv
  /\ \E start \in [1 .. Len(stack) -> Nat] : Laid(start)
  /\ \E w \in 0 .. room : Holds(w)

Frames == [node : Node, next : Nat]

(* How the stack changes *)
LEMMA StackTypes ==
  ASSUME stack \in Seq(Frames)
  PROVE  /\ Len(stack) \in Nat
         /\ \A i \in 1 .. Len(stack) : stack[i].node \in Node /\ stack[i].next \in Nat
         /\ stack # <<>> => /\ Len(stack) \in 1 .. Len(stack) /\ Len(stack) >= 1
                            /\ Top = stack[Len(stack)]
                            /\ Top.node \in Node /\ Top.next \in Nat
<1>1. Len(stack) \in Nat /\ \A i \in 1 .. Len(stack) : stack[i] \in Frames
  OBVIOUS
<1>2. \A f \in Frames : f.node \in Node /\ f.next \in Nat
  BY DEF Frames
<1>3. stack # <<>> => Len(stack) \in 1 .. Len(stack) /\ Len(stack) >= 1
  OBVIOUS
<1> QED
  BY <1>1, <1>2, <1>3 DEF Top

LEMMA SteppedStack ==
  ASSUME stack \in Seq(Frames), stack # <<>>, stack' = Stepped
  PROVE  /\ stack' \in Seq(Frames) /\ Len(stack') = Len(stack) /\ stack' # <<>>
         /\ \A i \in 1 .. Len(stack) : stack'[i].node = stack[i].node
         /\ \A i \in 1 .. Len(stack) - 1 : stack'[i] = stack[i]
         /\ stack'[Len(stack)].next = Top.next + 1
         /\ Top' = stack'[Len(stack)]
<1> DEFINE L == Len(stack)
           top == [stack[L] EXCEPT !.next = @ + 1]
<1>1. L \in Nat /\ L \in 1 .. L /\ stack[L] \in Frames /\ Top = stack[L]
  BY DEF Top
<1>2. top \in Frames /\ top.node = stack[L].node /\ top.next = stack[L].next + 1
  BY <1>1 DEF Frames
<1>3. stack' = [stack EXCEPT ![L] = top]
  BY DEF Stepped
<1> HIDE DEF top
<1>4. /\ stack' \in Seq(Frames) /\ Len(stack') = L /\ stack'[L] = top
      /\ \A i \in 1 .. L : i # L => stack'[i] = stack[i]
  BY <1>1, <1>2, <1>3
<1>5. stack' # <<>> /\ Top' = stack'[L]
  BY <1>1, <1>4 DEF Top
<1>6. \A i \in 1 .. L - 1 : i \in 1 .. L /\ i # L
  BY <1>1
<1> QED
  BY <1>1, <1>2, <1>4, <1>5, <1>6

LEMMA PushedStack ==
  ASSUME stack \in Seq(Frames), NEW kid \in Node, stack' = Append(stack, Frame(kid))
  PROVE  /\ stack' \in Seq(Frames) /\ Len(stack') = Len(stack) + 1 /\ stack' # <<>>
         /\ \A i \in 1 .. Len(stack) : stack'[i] = stack[i]
         /\ stack'[Len(stack) + 1].node = kid /\ stack'[Len(stack) + 1].next = 0
         /\ Top' = stack'[Len(stack) + 1]
<1>1. Frame(kid) \in Frames /\ Frame(kid).node = kid /\ Frame(kid).next = 0
  BY DEF Frame, Frames
<1>2. /\ stack' \in Seq(Frames) /\ Len(stack') = Len(stack) + 1
      /\ \A i \in 1 .. Len(stack) : stack'[i] = stack[i]
      /\ stack'[Len(stack) + 1] = Frame(kid)
  BY <1>1
<1> QED
  BY <1>1, <1>2 DEF Top

LEMMA PoppedStack ==
  ASSUME stack \in Seq(Frames), stack # <<>>, stack' = Popped
  PROVE  /\ stack' \in Seq(Frames) /\ Len(stack') = Len(stack) - 1
         /\ \A i \in 1 .. Len(stack) - 1 : stack'[i].node = stack[i].node
         /\ \A i \in 1 .. Len(stack) - 2 : stack'[i] = stack[i]
         /\ Len(stack) = 1 <=> stack' = <<>>
         /\ Len(stack) # 1 =>
              /\ Len(stack) - 1 \in 1 .. Len(stack) - 1
              /\ stack'[Len(stack) - 1].next = stack[Len(stack) - 1].next + 1
              /\ Top' = stack'[Len(stack) - 1]
<1> DEFINE L == Len(stack)
<1>1. L \in Nat /\ L >= 1 /\ \A i \in 1 .. L : stack[i] \in Frames
  OBVIOUS
<1>2. CASE L = 1
  BY <1>2 DEF Popped
<1>3. CASE L # 1
  <2> DEFINE m == L - 1
             f == stack[m]
             top == [f EXCEPT !.next = @ + 1]
  <2>1. m \in Nat /\ m \in 1 .. m /\ m \in 1 .. L /\ f \in Frames /\ L = m + 1
    <3>1. m \in Nat /\ m \in 1 .. m /\ m \in 1 .. L /\ L = m + 1
      BY <1>1, <1>3
    <3> QED
      BY <1>1, <3>1
  <2>2. top \in Frames /\ top.node = f.node /\ top.next = f.next + 1
    BY <2>1 DEF Frames
  <2>3. stack' = [i \in 1 .. m |-> IF i = m THEN top ELSE stack[i]]
    BY <1>3 DEF Popped
  <2> HIDE DEF top, f
  <2>4. \A i \in 1 .. m : i \in 1 .. L
    BY <2>1
  <2> HIDE DEF m
  <2>5. /\ stack' \in Seq(Frames) /\ Len(stack') = m /\ stack'[m] = top
        /\ \A i \in 1 .. m : i # m => stack'[i] = stack[i]
    BY <1>1, <2>1, <2>2, <2>3, <2>4
  <2>6. stack' # <<>> /\ Top' = stack'[m]
    BY <2>1, <2>5 DEF Top
  <2>7. \A i \in 1 .. L - 2 : i \in 1 .. m /\ i # m
    BY <2>1
  <2>8. \A i \in 1 .. m : stack'[i].node = stack[i].node
    BY <2>2, <2>5 DEF f
  <2>9. stack'[m].next = stack[m].next + 1
    BY <2>2, <2>5 DEF f
  <2> QED
    BY <1>3, <2>1, <2>5, <2>6, <2>7, <2>8, <2>9 DEF m
<1> QED
  BY <1>2, <1>3

-----------------------------------------------------------------------------
(* What is known while a frame runs *)
LEMMA Running ==
  ASSUME IInv, mode = "run", stack # <<>>,
         NEW start \in [1 .. Len(stack) -> Nat], Laid(start)
  PROVE  /\ SaysOK /\ root \in Node /\ room \in Nat /\ pos \in 0 .. room
         /\ stack \in Seq(Frames) /\ Len(stack) \in Nat /\ Len(stack) \in 1 .. Len(stack)
         /\ Top = stack[Len(stack)] /\ Top.node \in Node /\ Top.next \in Nat
         /\ Top.next <= Count[Top.node] + 2
         /\ start[Len(stack)] \in Nat
         /\ Cursor = start[Len(stack)] + Done(Top)
         /\ Within(start[Len(stack)], Full[Top.node], Full[root])
         /\ start[Len(stack)] + Len(Full[Top.node]) <= Len(Full[root])
         /\ Len(Full[root]) \in Nat
         /\ InWindow => start[Len(stack)] + Len(Full[Top.node]) <= win.edge
         /\ ~closed /\ Holds(Cursor) /\ Cursor \in 0 .. room
<1>1. /\ SaysOK /\ root \in Node /\ room \in Nat /\ pos \in 0 .. room /\ stack \in Seq(Frames)
  BY EncodeAssumption DEF IInv, TypeOK, SaysOK, Frames
<1>2. /\ Len(stack) \in Nat /\ Len(stack) \in 1 .. Len(stack)
      /\ Top = stack[Len(stack)] /\ Top.node \in Node /\ Top.next \in Nat
  BY <1>1, StackTypes
<1>3. Top.next <= Count[Top.node] + 2
  BY <1>2 DEF IInv, StackInv
<1>4. start[Len(stack)] \in Nat
  BY <1>2
<1>5. Cursor = start[Len(stack)] + Done(Top)
      /\ Within(start[Len(stack)], Full[Top.node], Full[root])
  BY <1>2 DEF Laid
<1>6. start[Len(stack)] + Len(Full[Top.node]) <= Len(Full[root])
  BY <1>5 DEF Within
<1>7. Len(Full[root]) \in Nat
  BY <1>1, Facts
<1>8. InWindow => start[Len(stack)] + Len(Full[Top.node]) <= win.edge
  <2> SUFFICES ASSUME InWindow PROVE start[Len(stack)] + Len(Full[Top.node]) <= win.edge
    OBVIOUS
  <2>1. win.owner \in 1 .. Len(stack)
    BY DEF IInv, WindowInv
  <2>2. Len(stack) \in win.owner .. Len(stack)
    BY <1>2, <2>1
  <2> QED
    BY <1>2, <2>2 DEF Laid
<1>9. ~closed
  BY DEF IInv, EndInv
<1>10. Holds(Cursor) /\ Cursor \in 0 .. room
  <2>1. PICK w \in 0 .. room : Holds(w)
    BY DEF IInv
  <2>2. w = Cursor
    BY <2>1 DEF Holds
  <2> QED
    BY <2>1, <2>2
<1> QED
  BY <1>1, <1>2, <1>3, <1>4, <1>5, <1>6, <1>7, <1>8, <1>9, <1>10

(* A frame goes from its first step to its second, or from there to its children. *)
LEMMA SteppedKeeps ==
  ASSUME IInv, stack # <<>>, Top.next <= 1, stack' = Stepped, UNCHANGED inputs,
         NEW start \in [1 .. Len(stack) -> Nat], Laid(start)
  PROVE  /\ stack' \in Seq(Frames) /\ Len(stack') = Len(stack) /\ stack' # <<>>
         /\ Top'.node = Top.node /\ Top'.next = Top.next + 1
         /\ \A i \in 1 .. Len(stack) : stack'[i].node = stack[i].node
         /\ \A i \in 1 .. Len(stack) : stack'[i].next \in Nat /\ stack'[i].next >= stack[i].next
         /\ stack'[Len(stack)].next >= 1
         /\ StackInv'
         /\ start \in [1 .. Len(stack') -> Nat]
         /\ stack'[1].node = root' /\ start[1] = 0
         /\ \A i \in 1 .. Len(stack') - 1 : start[i + 1] = start[i] + Done(stack[i])'
         /\ \A i \in 1 .. Len(stack') : Within(start[i], Full'[stack'[i].node], Full'[root'])
<1>1. stack \in Seq(Frames)
  BY DEF IInv, TypeOK, Frames
<1>2. /\ Len(stack) \in Nat /\ Len(stack) \in 1 .. Len(stack) /\ Len(stack) >= 1
      /\ Top = stack[Len(stack)] /\ Top.next \in Nat
      /\ \A i \in 1 .. Len(stack) : stack[i].node \in Node /\ stack[i].next \in Nat
  BY <1>1, StackTypes
<1>3. /\ stack' \in Seq(Frames) /\ Len(stack') = Len(stack) /\ stack' # <<>>
      /\ \A i \in 1 .. Len(stack) : stack'[i].node = stack[i].node
      /\ \A i \in 1 .. Len(stack) - 1 : stack'[i] = stack[i]
      /\ stack'[Len(stack)].next = Top.next + 1
      /\ Top' = stack'[Len(stack)]
  BY <1>1, SteppedStack
<1>4. /\ Full' = Full /\ Count' = Count /\ Off' = Off /\ root' = root
  BY InputsKept
<1>5. \A i \in 1 .. Len(stack) : i \in 1 .. Len(stack) - 1 \/ i = Len(stack)
  BY <1>2
<1>6. \A i \in 1 .. Len(stack) : stack'[i].next \in Nat /\ stack'[i].next >= stack[i].next
  BY <1>2, <1>3, <1>5
<1>7. StackInv'
  <2>0. SaysOK
    BY DEF IInv, TypeOK, SaysOK
  <2>1. ASSUME NEW i \in 1 .. Len(stack)
        PROVE  stack'[i].next <= Count[stack'[i].node] + 2
    <3>1. CASE i \in 1 .. Len(stack) - 1
      BY <1>3, <3>1 DEF IInv, StackInv
    <3>2. CASE i = Len(stack)
      <4>1. Count[stack[i].node] \in Nat
        BY <2>0, <1>2, Facts
      <4> QED
        BY <1>2, <1>3, <3>2, <4>1
    <3> QED
      BY <1>5, <3>1, <3>2
  <2>2. ASSUME NEW i \in 1 .. Len(stack) - 1
        PROVE  /\ stack'[i].next >= 2 /\ stack'[i].next - 1 <= Count[stack'[i].node]
               /\ stack'[i + 1].node = Kids[stack'[i].node][stack'[i].next - 1]
    <3>1. stack'[i] = stack[i] /\ i + 1 \in 1 .. Len(stack)
      BY <1>2, <1>3
    <3> QED
      BY <1>3, <3>1 DEF IInv, StackInv
  <2> QED
    BY <1>3, <1>4, <2>1, <2>2 DEF StackInv
<1>8. stack'[1].node = root' /\ start[1] = 0
  BY <1>2, <1>3, <1>4 DEF Laid
<1>9. \A i \in 1 .. Len(stack') - 1 : start[i + 1] = start[i] + Done(stack[i])'
  <2> SUFFICES ASSUME NEW i \in 1 .. Len(stack) - 1
               PROVE  start[i + 1] = start[i] + Done(stack[i])'
    BY <1>3
  <2>1. stack'[i] = stack[i]
    BY <1>3
  <2>2. Done(stack[i])' = Done(stack[i])
    BY <1>4, <2>1 DEF Done
  <2> QED
    BY <2>2 DEF Laid
<1>10. \A i \in 1 .. Len(stack') : Within(start[i], Full'[stack'[i].node], Full'[root'])
  BY <1>3, <1>4 DEF Laid
<1> QED
  BY <1>2, <1>3, <1>6, <1>7, <1>8, <1>9, <1>10

(* The frames of an open window keep their nodes. *)
LEMMA WindowStepped ==
  ASSUME IInv, stack # <<>>, Top.next <= 1, stack' = Stepped, UNCHANGED inputs, InWindow,
         NEW start \in [1 .. Len(stack) -> Nat], Laid(start)
  PROVE  /\ win.owner \in 1 .. Len(stack)
         /\ stack'[win.owner].node \in Opens /\ stack'[win.owner].next >= 1
         /\ \A i \in win.owner + 1 .. Len(stack) : stack'[i].node \in Static
         /\ win.edge = start[win.owner] + Wants[stack'[win.owner].node]
         /\ \A i \in win.owner .. Len(stack) : start[i] + Len(Full[stack'[i].node]) <= win.edge
<1>1. stack \in Seq(Frames)
  BY DEF IInv, TypeOK, Frames
<1>2. /\ Len(stack) \in Nat
      /\ \A i \in 1 .. Len(stack) : stack[i].node \in Node /\ stack[i].next \in Nat
  BY <1>1, StackTypes
<1>3. /\ \A i \in 1 .. Len(stack) : stack'[i].node = stack[i].node
      /\ \A i \in 1 .. Len(stack) : stack'[i].next \in Nat /\ stack'[i].next >= stack[i].next
  BY SteppedKeeps
<1>4. /\ win.owner \in 1 .. Len(stack)
      /\ stack[win.owner].node \in Opens /\ stack[win.owner].next >= 1
      /\ \A i \in win.owner + 1 .. Len(stack) : stack[i].node \in Static
  BY DEF IInv, WindowInv
<1>5. /\ win.edge = start[win.owner] + Wants[stack[win.owner].node]
      /\ \A i \in win.owner .. Len(stack) : start[i] + Len(Full[stack[i].node]) <= win.edge
  BY DEF Laid
<1>6. stack'[win.owner].next >= 1
  <2> DEFINE a == stack[win.owner].next
             b == stack'[win.owner].next
  <2>1. a \in Nat /\ b \in Nat /\ b >= a /\ a >= 1
    BY <1>2, <1>3, <1>4
  <2> HIDE DEF a, b
  <2>2. b >= 1
    BY <2>1
  <2> QED
    BY <2>2 DEF b
<1>7. \A i \in win.owner .. Len(stack) : i \in 1 .. Len(stack)
  BY <1>2, <1>4
<1>8. \A i \in win.owner + 1 .. Len(stack) : i \in 1 .. Len(stack)
  BY <1>2, <1>4
<1> QED
  BY <1>3, <1>4, <1>5, <1>6, <1>7, <1>8

LEMMA EnterInvariant ==
  ASSUME IInv, Enter
  PROVE  IInv'
<1>1. /\ mode = "run" /\ stack # <<>> /\ Top.next = 0 /\ stack' = Stepped
      /\ UNCHANGED <<inputs, win, out, pos, closed, mode>>
  BY DEF Enter, At
<1>2. PICK start \in [1 .. Len(stack) -> Nat] : Laid(start)
  BY DEF IInv
<1>3. /\ stack' \in Seq(Frames) /\ Len(stack') = Len(stack) /\ stack' # <<>>
      /\ Top'.node = Top.node /\ Top'.next = Top.next + 1
      /\ \A i \in 1 .. Len(stack) : stack'[i].node = stack[i].node
      /\ \A i \in 1 .. Len(stack) : stack'[i].next \in Nat /\ stack'[i].next >= stack[i].next
      /\ StackInv'
      /\ start \in [1 .. Len(stack') -> Nat]
      /\ stack'[1].node = root' /\ start[1] = 0
      /\ \A i \in 1 .. Len(stack') - 1 : start[i + 1] = start[i] + Done(stack[i])'
      /\ \A i \in 1 .. Len(stack') : Within(start[i], Full'[stack'[i].node], Full'[root'])
  BY <1>1, <1>2, SteppedKeeps
<1>4. /\ Full' = Full /\ Count' = Count /\ Off' = Off /\ Wants' = Wants
      /\ UNCHANGED <<sink, room, root, says>>
  BY <1>1, InputsKept
<1>5. Cursor' = Cursor /\ InWindow' = InWindow
  BY <1>1 DEF Cursor, InWindow
<1>6. TypeOK'
  BY <1>1, <1>3, <1>4 DEF IInv, TypeOK, Frames
<1>7. WindowInv'
  <2> SUFFICES ASSUME InWindow'
               PROVE  /\ sink # "stream"
                      /\ win.owner \in 1 .. Len(stack)
                      /\ stack'[win.owner].node \in Opens /\ stack'[win.owner].next >= 1
                      /\ \A i \in win.owner + 1 .. Len(stack) : stack'[i].node \in Static
                      /\ pos = IF sink \in Ahead THEN win.edge ELSE win.at
    BY <1>1, <1>3, <1>4 DEF WindowInv
  <2>1. /\ sink # "stream"
        /\ win.owner \in 1 .. Len(stack)
        /\ stack[win.owner].node \in Opens /\ stack[win.owner].next >= 1
        /\ \A i \in win.owner + 1 .. Len(stack) : stack[i].node \in Static
        /\ pos = IF sink \in Ahead THEN win.edge ELSE win.at
    BY <1>5 DEF IInv, WindowInv
  <2>2. InWindow
    BY <1>5
  <2> QED
    BY <1>1, <1>2, <2>1, <2>2, WindowStepped
<1>8. Laid(start)'
  <2>1. Cursor' = start[Len(stack')] + Done(Top)'
    <3>1. Cursor = start[Len(stack)] + Done(Top)
      BY <1>1, <1>2, Running
    <3>2. Done(Top)' = 0 /\ Done(Top) = 0
      BY <1>1, <1>3 DEF Done
    <3> QED
      BY <1>3, <1>5, <3>1, <3>2
  <2>2. InWindow' =>
          /\ win'.edge = start[win'.owner] + Wants'[stack'[win'.owner].node]
          /\ \A i \in win'.owner .. Len(stack') : start[i] + Len(Full'[stack'[i].node]) <= win'.edge
    <3> SUFFICES ASSUME InWindow
                 PROVE  /\ win.edge = start[win.owner] + Wants[stack'[win.owner].node]
                        /\ \A i \in win.owner .. Len(stack) :
                             start[i] + Len(Full[stack'[i].node]) <= win.edge
      BY <1>1, <1>3, <1>4, <1>5
    <3>1. Top.next <= 1 /\ stack' = Stepped /\ UNCHANGED inputs /\ stack # <<>>
      BY <1>1
    <3> QED
      BY <1>2, <3>1, WindowStepped, Zenon
  <2> QED
    BY <1>3, <2>1, <2>2 DEF Laid
<1>9. (\E w \in 0 .. room : Holds(w))'
  <2>1. PICK w \in 0 .. room : Holds(w)
    BY DEF IInv
  <2>2. Holds(w)'
    BY <1>1, <1>4, <1>5, <2>1 DEF Holds
  <2> QED
    BY <1>4, <2>2
<1>10. EndInv'
  BY <1>1, <1>3 DEF IInv, EndInv
<1>11. (\E s \in [1 .. Len(stack) -> Nat] : Laid(s))'
  BY <1>3, <1>8
<1> QED
  BY <1>3, <1>6, <1>7, <1>9, <1>10, <1>11 DEF IInv

(* as_trusted_for: the window is as wide as its owner's encoding may get. *)
LEMMA OpenWindowInvariant ==
  ASSUME NeverWraps, IInv, OpenWindow
  PROVE  IInv'
<1> DEFINE n == Top.node
           L == Len(stack)
           edge == pos + Needed(n)
<1>1. /\ mode = "run" /\ stack # <<>> /\ Top.next = 0 /\ stack' = Stepped
      /\ n \in Opens /\ ~InWindow /\ sink # "stream"
      /\ edge <= room
      /\ win' = [owner |-> L, at |-> pos, edge |-> edge]
      /\ pos' = ParentAfter(edge)
      /\ UNCHANGED <<inputs, out, closed, mode>>
  BY DEF OpenWindow, At, WantsWindow
<1>2. PICK start \in [1 .. Len(stack) -> Nat] : Laid(start)
  BY DEF IInv
<1>3. /\ stack' \in Seq(Frames) /\ Len(stack') = L /\ stack' # <<>>
      /\ Top'.node = n /\ Top'.next = Top.next + 1
      /\ \A i \in 1 .. L : stack'[i].node = stack[i].node
      /\ stack'[L].next >= 1
      /\ StackInv'
      /\ start \in [1 .. Len(stack') -> Nat]
      /\ stack'[1].node = root' /\ start[1] = 0
      /\ \A i \in 1 .. Len(stack') - 1 : start[i + 1] = start[i] + Done(stack[i])'
      /\ \A i \in 1 .. Len(stack') : Within(start[i], Full'[stack'[i].node], Full'[root'])
  BY <1>1, <1>2, SteppedKeeps
<1>4. /\ Full' = Full /\ Count' = Count /\ Off' = Off /\ Wants' = Wants
      /\ UNCHANGED <<sink, room, root, says>>
  BY <1>1, InputsKept
<1>5. /\ SaysOK /\ room \in Nat /\ pos \in 0 .. room
      /\ L \in Nat /\ L \in 1 .. L /\ Top = stack[L] /\ start[L] \in Nat
      /\ Cursor = start[L] + Done(Top)
  BY <1>1, <1>2, Running
<1>6. /\ Wants[n] = Needed(n) /\ Wants[n] \in Nat /\ Len(Full[n]) <= Wants[n]
      /\ Len(Full[n]) \in Nat
  BY <1>1, <1>5, WindowSize, Facts
<1>7. edge \in 0 .. room /\ edge = pos + Wants[n]
  BY <1>1, <1>5, <1>6
<1> HIDE DEF edge
<1>8. /\ win'.owner = L /\ win'.at = pos /\ win'.edge = edge
      /\ win' # NoWindow /\ InWindow'
  BY <1>1, <1>5 DEF NoWindow, InWindow
<1>9. Cursor' = pos /\ Cursor = pos /\ start[L] = pos
  BY <1>1, <1>5, <1>8 DEF Cursor, Done
<1>10. TypeOK'
  <2>1. win' \in [owner : 0 .. Len(stack'), at : Nat, edge : 0 .. room']
    BY <1>1, <1>3, <1>4, <1>5, <1>7
  <2>2. pos' \in 0 .. room'
    BY <1>1, <1>4, <1>5, <1>7 DEF ParentAfter
  <2> QED
    BY <1>1, <1>3, <1>4, <2>1, <2>2 DEF IInv, TypeOK, Frames
<1>11. WindowInv'
  <2>1. stack'[L].node = n
    BY <1>3, <1>5
  <2>2. pos' = IF sink' \in Ahead THEN win'.edge ELSE win'.at
    BY <1>1, <1>4, <1>8 DEF ParentAfter
  <2>3. \A i \in L + 1 .. L : FALSE
    BY <1>5
  <2> QED
    BY <1>1, <1>3, <1>4, <1>5, <1>8, <2>1, <2>2, <2>3 DEF WindowInv
<1>12. Laid(start)'
  <2>1. Cursor' = start[Len(stack')] + Done(Top)'
    BY <1>1, <1>3, <1>5, <1>9 DEF Done
  <2>2. win'.edge = start[win'.owner] + Wants'[stack'[win'.owner].node]
    BY <1>3, <1>4, <1>5, <1>7, <1>8, <1>9
  <2>3. ASSUME NEW i \in win'.owner .. Len(stack')
        PROVE  start[i] + Len(Full'[stack'[i].node]) <= win'.edge
    <3>1. i = L
      BY <1>3, <1>5, <1>8
    <3>2. stack'[i].node = n /\ start[i] = pos
      BY <1>3, <1>5, <1>9, <3>1
    <3>3. pos + Len(Full[n]) <= pos + Wants[n]
      BY <1>5, <1>6
    <3> QED
      BY <1>4, <1>7, <1>8, <3>2, <3>3
  <2> QED
    BY <1>3, <2>1, <2>2, <2>3 DEF Laid
<1>13. (\E w \in 0 .. room : Holds(w))'
  <2>1. PICK w \in 0 .. room : Holds(w)
    BY DEF IInv
  <2>2. Holds(w)'
    BY <1>1, <1>4, <1>9, <2>1 DEF Holds
  <2> QED
    BY <1>4, <2>2
<1>14. EndInv'
  BY <1>1, <1>3 DEF IInv, EndInv
<1>15. (\E s \in [1 .. Len(stack) -> Nat] : Laid(s))'
  BY <1>3, <1>12
<1> QED
  BY <1>3, <1>10, <1>11, <1>13, <1>14, <1>15 DEF IInv

(* Writing the first `len` of a node's own bytes where they belong *)
LEMMA PutHolds ==
  ASSUME NEW at \in Nat, NEW len \in Nat,
         SaysOK, root \in Node, Top.node \in Node, room \in Nat,
         at + len <= room, len <= Own[Top.node],
         Holds(at), Within(at, Full[Top.node], Full[root]),
         out \in [1 .. room -> {Blank} \cup (Node \X Nat)]
  PROVE  /\ at + len <= Len(Full[root])
         /\ Put(at, len) \in [1 .. room -> {Blank} \cup (Node \X Nat)]
         /\ \A i \in 1 .. room : (Put(at, len)[i] # Blank) <=> (i <= at + len)
         /\ \A i \in 1 .. room : i <= at + len => Put(at, len)[i] = Full[root][i]
         /\ \A i \in 1 .. room : out[i] # Blank => Put(at, len)[i] # Blank
<1> DEFINE n == Top.node
<1>0. /\ Own[n] \in Nat /\ Own[n] <= Len(Full[n]) /\ Len(Full[n]) \in Nat
      /\ \A j \in 1 .. Own[n] : Full[n][j] = <<n, j>>
      /\ Len(Full[root]) \in Nat
  BY Facts
<1>1. Put(at, len) =
        [i \in 1 .. room |-> IF i \in at + 1 .. at + len THEN <<n, i - at>> ELSE out[i]]
  BY DEF Put
<1>2. at + len <= Len(Full[root])
  BY <1>0 DEF Within
<1>3. \A i \in 1 .. room : (out[i] # Blank <=> i <= at) /\ (i <= at => out[i] = Full[root][i])
  BY DEF Holds
<1>4. ASSUME NEW i \in 1 .. room
      PROVE  /\ Put(at, len)[i] \in {Blank} \cup (Node \X Nat)
             /\ (Put(at, len)[i] # Blank) <=> (i <= at + len)
             /\ i <= at + len => Put(at, len)[i] = Full[root][i]
             /\ out[i] # Blank => Put(at, len)[i] # Blank
  <2>1. CASE i \in at + 1 .. at + len
    <3>1. Put(at, len)[i] = <<n, i - at>> /\ i - at \in 1 .. Own[n] /\ i - at \in Nat
      BY <1>0, <1>1, <2>1
    <3>2. Full[root][at + (i - at)] = Full[n][i - at] /\ at + (i - at) = i
      <4> DEFINE j == i - at
      <4>1. j \in 1 .. Len(Full[n]) /\ at + j = i
        BY <1>0, <2>1, <3>1
      <4> HIDE DEF j
      <4>2. Full[root][at + j] = Full[n][j]
        BY <4>1 DEF Within
      <4> QED
        BY <4>1, <4>2 DEF j
    <3>3. Put(at, len)[i] = Full[root][i]
      BY <1>0, <3>1, <3>2
    <3>4. Put(at, len)[i] # Blank /\ Put(at, len)[i] \in Node \X Nat
      BY <3>1 DEF Blank
    <3> QED
      BY <2>1, <3>3, <3>4
  <2>2. CASE i \notin at + 1 .. at + len
    <3>1. Put(at, len)[i] = out[i] /\ (i <= at <=> i <= at + len)
      BY <1>1, <2>2
    <3> QED
      BY <1>3, <3>1
  <2> QED
    BY <2>1, <2>2
<1> QED
  BY <1>1, <1>2, <1>4

(* A write inside a window needs no check: the window ends behind the node. *)
LEMMA WriteUncheckedInvariant ==
  ASSUME IInv, WriteUnchecked
  PROVE  IInv'
<1> DEFINE n == Top.node
           L == Len(stack)
           at == win.at
           own == Own[n]
<1>1. /\ mode = "run" /\ stack # <<>> /\ Top.next = 1 /\ stack' = Stepped
      /\ InWindow /\ out' = Put(win.at, Own[n])
      /\ win' = [win EXCEPT !.at = @ + Own[n]]
      /\ pos' = IF sink = "vec" THEN win'.at ELSE pos
      /\ UNCHANGED <<inputs, closed, mode>>
  BY DEF WriteUnchecked, At
<1>2. PICK start \in [1 .. Len(stack) -> Nat] : Laid(start)
  BY DEF IInv
<1>3. /\ stack' \in Seq(Frames) /\ Len(stack') = L /\ stack' # <<>>
      /\ Top'.node = n /\ Top'.next = Top.next + 1
      /\ StackInv'
      /\ start \in [1 .. Len(stack') -> Nat]
      /\ stack'[1].node = root' /\ start[1] = 0
      /\ \A i \in 1 .. Len(stack') - 1 : start[i + 1] = start[i] + Done(stack[i])'
      /\ \A i \in 1 .. Len(stack') : Within(start[i], Full'[stack'[i].node], Full'[root'])
  BY <1>1, <1>2, SteppedKeeps
<1>4. /\ Full' = Full /\ Count' = Count /\ Off' = Off /\ Wants' = Wants
      /\ UNCHANGED <<sink, room, root, says>>
  BY <1>1, InputsKept
<1>5. /\ SaysOK /\ room \in Nat /\ pos \in 0 .. room /\ root \in Node /\ n \in Node
      /\ L \in Nat /\ L \in 1 .. L /\ Top = stack[L] /\ start[L] \in Nat
      /\ Cursor = start[L] + Done(Top)
      /\ Within(start[L], Full[n], Full[root])
      /\ start[L] + Len(Full[n]) <= Len(Full[root]) /\ Len(Full[root]) \in Nat
      /\ start[L] + Len(Full[n]) <= win.edge
      /\ Holds(Cursor) /\ Cursor \in 0 .. room
  BY <1>1, <1>2, Running
<1>6. /\ own \in Nat /\ own <= Len(Full[n]) /\ Len(Full[n]) \in Nat /\ Off[<<n, 0>>] = own
      /\ \A j \in 1 .. own : Full[n][j] = <<n, j>>
  BY <1>5, Facts
<1>7. /\ win.owner \in 0 .. L /\ win.at \in Nat /\ win.edge \in 0 .. room
      /\ win \in [owner : 0 .. L, at : Nat, edge : 0 .. room]
  BY DEF IInv, TypeOK
<1>8. /\ win'.owner = win.owner /\ win'.edge = win.edge /\ win'.at = at + own
      /\ win' \in [owner : 0 .. L, at : Nat, edge : 0 .. room]
  <2>1. at + own \in Nat
    BY <1>6, <1>7
  <2>2. win' = [win EXCEPT !.at = at + own]
    BY <1>1, <1>7
  <2> HIDE DEF at, own
  <2> QED
    BY <1>7, <2>1, <2>2
<1>9. /\ win.owner \in 1 .. L
      /\ stack'[win.owner].node \in Opens /\ stack'[win.owner].next >= 1
      /\ \A i \in win.owner + 1 .. L : stack'[i].node \in Static
      /\ win.edge = start[win.owner] + Wants[stack'[win.owner].node]
      /\ \A i \in win.owner .. L : start[i] + Len(Full[stack'[i].node]) <= win.edge
  <2>1. Top.next <= 1 /\ stack' = Stepped /\ UNCHANGED inputs /\ stack # <<>> /\ InWindow
    BY <1>1
  <2> QED
    BY <1>2, <2>1, WindowStepped, Zenon
<1>10. InWindow'
  BY <1>8, <1>9 DEF InWindow, NoWindow
<1>11. Cursor = at /\ at = start[L] /\ Cursor' = at + own
  BY <1>1, <1>5, <1>8, <1>10 DEF Cursor, Done
<1>12. at + own <= win.edge /\ at + own <= room /\ at + own <= Len(Full[root]) /\ at \in Nat
  <2> DEFINE e == win.edge
             f == Len(Full[n])
             r == Len(Full[root])
  <2>1. at + f <= e /\ at + f <= r /\ own <= f
    BY <1>5, <1>6, <1>11
  <2>2. at \in Nat /\ own \in Nat /\ f \in Nat /\ r \in Nat /\ e \in Nat /\ e <= room
        /\ room \in Nat
    BY <1>5, <1>6, <1>7
  <2> HIDE DEF at, own, e, f, r
  <2>3. at + own <= e /\ at + own <= room /\ at + own <= r
    BY <2>1, <2>2
  <2> QED
    BY <2>2, <2>3 DEF e, r
<1>13. sink # "stream" /\ pos = IF sink \in Ahead THEN win.edge ELSE win.at
  BY <1>1 DEF IInv, WindowInv
<1>14. pos' = IF sink \in Ahead THEN win.edge ELSE at + own
  <2>1. sink \in Sinks
    BY DEF IInv, TypeOK
  <2>2. CASE sink = "vec"
    BY <1>1, <1>8, <2>2 DEF Ahead
  <2>3. CASE sink # "vec"
    BY <1>1, <1>13, <2>1, <2>3 DEF Ahead, Sinks
  <2> QED
    BY <2>2, <2>3
<1> HIDE DEF at, own
<1>15. TypeOK'
  <2>1. pos' \in 0 .. room
    BY <1>5, <1>6, <1>7, <1>12, <1>14
  <2>2. out' \in [1 .. room -> {Blank} \cup (Node \X Nat)]
    <3>1. out \in [1 .. room -> {Blank} \cup (Node \X Nat)]
      BY DEF IInv, TypeOK
    <3>2. \A i \in 1 .. room : i \in at + 1 .. at + own => <<n, i - at>> \in Node \X Nat
      <4>1. n \in Node /\ at \in Nat /\ own \in Nat /\ room \in Nat
        BY <1>5, <1>6, <1>12
      <4>2. \A i \in 1 .. room : i \in at + 1 .. at + own => i - at \in Nat
        BY <4>1
      <4> QED
        BY <4>1, <4>2
    <3>3. out' = [i \in 1 .. room |-> IF i \in at + 1 .. at + own THEN <<n, i - at>> ELSE out[i]]
      BY <1>1, <3>1 DEF Put, at, own
    <3> QED
      BY <3>1, <3>2, <3>3
  <2> QED
    BY <1>1, <1>3, <1>4, <1>8, <2>1, <2>2 DEF IInv, TypeOK, Frames
<1>16. WindowInv'
  BY <1>3, <1>4, <1>8, <1>9, <1>13, <1>14 DEF WindowInv
<1>17. Laid(start)'
  <2>1. Cursor' = start[Len(stack')] + Done(Top)'
    <3>1. Done(Top)' = own
      BY <1>1, <1>3, <1>4, <1>6 DEF Done
    <3> QED
      BY <1>3, <1>11, <3>1
  <2> QED
    BY <1>3, <1>4, <1>8, <1>9, <2>1 DEF Laid
<1>18. (\E w \in 0 .. room : Holds(w))'
  <2>1. PICK w \in 0 .. room : w = at + own
    BY <1>5, <1>6, <1>12
  <2>2. Holds(w)'
    <3>1. out \in [1 .. room -> {Blank} \cup (Node \X Nat)]
      BY DEF IInv, TypeOK
    <3>2. out' = Put(at, own) /\ Holds(at) /\ Within(at, Full[n], Full[root]) /\ own <= Own[n]
      BY <1>1, <1>5, <1>6, <1>11 DEF at, own
    <3>3. /\ at + own <= Len(Full[root])
          /\ \A i \in 1 .. room : (out'[i] # Blank) <=> (i <= at + own)
          /\ \A i \in 1 .. room : i <= at + own => out'[i] = Full[root][i]
      <4>1. at \in Nat /\ own \in Nat /\ at + own <= room
        BY <1>6, <1>12
      <4>2. /\ at + own <= Len(Full[root])
            /\ \A i \in 1 .. room : (Put(at, own)[i] # Blank) <=> (i <= at + own)
            /\ \A i \in 1 .. room : i <= at + own => Put(at, own)[i] = Full[root][i]
        <5>1. /\ SaysOK /\ root \in Node /\ Top.node = n /\ n \in Node
              /\ room \in Nat /\ own <= Own[n]
          BY <1>5, <3>2
        <5> HIDE DEF at, own
        <5> QED
          BY <3>1, <3>2, <4>1, <5>1, PutHolds
      <4> QED
        BY <3>2, <4>2, Zenon
    <3>4. Cursor' = w /\ room' = room /\ Full' = Full /\ root' = root
      BY <1>4, <1>11, <2>1
    <3> QED
      BY <2>1, <3>3, <3>4 DEF Holds
  <2> QED
    BY <1>4, <2>2
<1>19. EndInv'
  BY <1>1, <1>3 DEF IInv, EndInv
<1>20. (\E s \in [1 .. Len(stack) -> Nat] : Laid(s))'
  BY <1>3, <1>17
<1> QED
  BY <1>3, <1>15, <1>16, <1>18, <1>19, <1>20 DEF IInv

LEMMA WriteCheckedInvariant ==
  ASSUME IInv, WriteChecked
  PROVE  IInv'
<1> DEFINE n == Top.node
           L == Len(stack)
           own == Own[n]
<1>1. /\ mode = "run" /\ stack # <<>> /\ Top.next = 1 /\ stack' = Stepped
      /\ ~InWindow /\ pos + own <= room /\ out' = Put(pos, own) /\ pos' = pos + own
      /\ UNCHANGED <<inputs, win, closed, mode>>
  BY DEF WriteChecked, At
<1>2. PICK start \in [1 .. Len(stack) -> Nat] : Laid(start)
  BY DEF IInv
<1>3. /\ stack' \in Seq(Frames) /\ Len(stack') = L /\ stack' # <<>>
      /\ Top'.node = n /\ Top'.next = Top.next + 1
      /\ StackInv'
      /\ start \in [1 .. Len(stack') -> Nat]
      /\ stack'[1].node = root' /\ start[1] = 0
      /\ \A i \in 1 .. Len(stack') - 1 : start[i + 1] = start[i] + Done(stack[i])'
      /\ \A i \in 1 .. Len(stack') : Within(start[i], Full'[stack'[i].node], Full'[root'])
  BY <1>1, <1>2, SteppedKeeps
<1>4. /\ Full' = Full /\ Count' = Count /\ Off' = Off /\ Wants' = Wants
      /\ UNCHANGED <<sink, room, root, says>>
  BY <1>1, InputsKept
<1>5. /\ SaysOK /\ room \in Nat /\ pos \in 0 .. room /\ root \in Node /\ n \in Node
      /\ L \in Nat /\ L \in 1 .. L /\ start[L] \in Nat
      /\ Cursor = start[L] + Done(Top)
      /\ Within(start[L], Full[n], Full[root])
      /\ Holds(Cursor)
  BY <1>1, <1>2, Running
<1>6. own \in Nat /\ Off[<<n, 0>>] = own
  BY <1>5, Facts
<1>7. InWindow' = InWindow
  BY <1>1 DEF InWindow
<1>8. Cursor = pos /\ start[L] = pos /\ Cursor' = pos + own
  BY <1>1, <1>5, <1>7 DEF Cursor, Done
<1>9. pos \in Nat /\ pos + own \in 0 .. room
  BY <1>1, <1>5, <1>6
<1>10. /\ pos + own <= Len(Full[root])
       /\ Put(pos, own) \in [1 .. room -> {Blank} \cup (Node \X Nat)]
       /\ \A i \in 1 .. room : (Put(pos, own)[i] # Blank) <=> (i <= pos + own)
       /\ \A i \in 1 .. room : i <= pos + own => Put(pos, own)[i] = Full[root][i]
  <2>1. /\ out \in [1 .. room -> {Blank} \cup (Node \X Nat)]
        /\ Holds(pos) /\ Within(pos, Full[n], Full[root]) /\ own <= Own[n]
    BY <1>5, <1>6, <1>8 DEF IInv, TypeOK
  <2> QED
    BY <1>1, <1>5, <1>6, <1>9, <2>1, PutHolds
<1> HIDE DEF own
<1>11. TypeOK'
  BY <1>1, <1>3, <1>4, <1>9, <1>10 DEF IInv, TypeOK, Frames
<1>12. WindowInv'
  BY <1>1, <1>7 DEF WindowInv
<1>13. Laid(start)'
  <2>1. Cursor' = start[Len(stack')] + Done(Top)'
    <3>1. Done(Top)' = own
      BY <1>1, <1>3, <1>4, <1>6 DEF Done
    <3> QED
      BY <1>3, <1>8, <3>1
  <2> QED
    BY <1>1, <1>3, <1>4, <1>7, <2>1 DEF Laid
<1>14. (\E w \in 0 .. room : Holds(w))'
  <2>1. PICK w \in 0 .. room : w = pos + own
    BY <1>9
  <2>2. out' = Put(pos, own) /\ Cursor' = w /\ room' = room /\ Full' = Full /\ root' = root
    BY <1>1, <1>4, <1>8, <2>1
  <2>3. Holds(w)'
    BY <1>10, <2>1, <2>2 DEF Holds
  <2> QED
    BY <1>4, <2>3
<1>15. EndInv'
  BY <1>1, <1>3 DEF IInv, EndInv
<1>16. (\E s \in [1 .. Len(stack) -> Nat] : Laid(s))'
  BY <1>3, <1>13
<1> QED
  BY <1>3, <1>11, <1>12, <1>14, <1>15, <1>16 DEF IInv

(* A failure leaves the frames where they are. *)
LEMMA FailKeeps ==
  ASSUME IInv, stack # <<>>, mode = "run", mode' = "failed", UNCHANGED <<inputs, stack, win, closed>>,
         pos' \in 0 .. room, InWindow => pos' = pos,
         out' \in [1 .. room -> {Blank} \cup (Node \X Nat)],
         NEW w \in 0 .. room, w <= Len(Full[root]),
         \A i \in 1 .. room : (out'[i] # Blank) <=> (i <= w),
         \A i \in 1 .. room : i <= w => out'[i] = Full[root][i]
  PROVE  IInv'
<1>1. /\ Full' = Full /\ Count' = Count /\ Off' = Off /\ Wants' = Wants
      /\ UNCHANGED <<sink, room, root, says>>
  BY InputsKept
<1>2. InWindow' = InWindow /\ (InWindow => Cursor' = Cursor) /\ Top' = Top
  BY DEF InWindow, Cursor, Top
<1>3. TypeOK'
  BY <1>1 DEF IInv, TypeOK
<1>4. StackInv'
  BY <1>1 DEF IInv, StackInv
<1>5. WindowInv'
  BY <1>1, <1>2 DEF IInv, WindowInv
<1>6. (\E start \in [1 .. Len(stack) -> Nat] : Laid(start))'
  <2>1. PICK start \in [1 .. Len(stack) -> Nat] : Laid(start)
    BY DEF IInv
  <2>2. \A i \in 1 .. Len(stack) - 1 : Done(stack[i])' = Done(stack[i])
    BY <1>1 DEF Done
  <2>3. Done(Top)' = Done(Top)
    BY <1>1, <1>2 DEF Done
  <2>4. Laid(start)'
    BY <1>1, <1>2, <2>1, <2>2, <2>3 DEF Laid
  <2> QED
    BY <2>1, <2>4
<1>7. Holds(w)'
  BY <1>1 DEF Holds
<1>8. EndInv'
  BY DEF IInv, EndInv
<1> QED
  BY <1>1, <1>3, <1>4, <1>5, <1>6, <1>7, <1>8 DEF IInv

LEMMA FailInvariant ==
  ASSUME IInv, RefuseWindow \/ RefuseWrite \/ FailWrite \/ ShortIter
  PROVE  IInv'
<1> DEFINE n == Top.node
           L == Len(stack)
           own == Own[n]
<1>1. /\ mode = "run" /\ stack # <<>> /\ mode' = "failed"
      /\ UNCHANGED <<inputs, stack, win, closed>>
  BY DEF RefuseWindow, RefuseWrite, FailWrite, ShortIter, At
<1>2. PICK start \in [1 .. Len(stack) -> Nat] : Laid(start)
  BY DEF IInv
<1>3. /\ SaysOK /\ room \in Nat /\ pos \in 0 .. room /\ root \in Node /\ n \in Node
      /\ L \in Nat /\ L \in 1 .. L /\ start[L] \in Nat
      /\ Cursor = start[L] + Done(Top)
      /\ Within(start[L], Full[n], Full[root])
      /\ start[L] + Len(Full[n]) <= Len(Full[root]) /\ Len(Full[root]) \in Nat
      /\ Holds(Cursor) /\ Cursor \in 0 .. room
  BY <1>1, <1>2, Running
<1>4. out \in [1 .. room -> {Blank} \cup (Node \X Nat)]
  BY DEF IInv, TypeOK
<1>5. /\ Cursor <= Len(Full[root])
      /\ \A i \in 1 .. room : (out[i] # Blank) <=> (i <= Cursor)
      /\ \A i \in 1 .. room : i <= Cursor => out[i] = Full[root][i]
  BY <1>3 DEF Holds
<1>6. PICK c \in 0 .. room : c = Cursor
  BY <1>3
<1>7. ASSUME out' = out, pos' \in 0 .. room, InWindow => pos' = pos
      PROVE  IInv'
  BY <1>1, <1>4, <1>5, <1>6, <1>7, FailKeeps
<1>8. CASE RefuseWindow
  <2>1. out' = out /\ pos' \in 0 .. room /\ ~InWindow
    BY <1>3, <1>8 DEF RefuseWindow, WantsWindow
  <2> QED
    BY <1>7, <2>1
<1>9. CASE FailWrite \/ ShortIter
  <2>1. out' = out /\ pos' = pos
    BY <1>9 DEF FailWrite, ShortIter
  <2> QED
    BY <1>3, <1>7, <2>1
<1>10. CASE RefuseWrite
  <2>1. /\ Top.next = 1 /\ ~InWindow /\ pos + own > room
        /\ out' = IF sink \in Partial THEN Put(pos, room - pos) ELSE out
        /\ pos' \in 0 .. room
    BY <1>3, <1>10 DEF RefuseWrite, At
  <2>2. CASE sink \notin Partial
    BY <1>7, <2>1, <2>2
  <2>3. CASE sink \in Partial
    <3>1. Cursor = pos /\ start[L] = pos
      BY <1>3, <2>1 DEF Cursor, Done
    <3>2. own \in Nat
      BY <1>3, Facts
    <3>3. PICK len \in Nat : len = room - pos
      BY <1>3
    <3>4. pos \in Nat /\ len <= own /\ pos + len = room
      <4>1. room \in Nat /\ pos \in 0 .. room /\ pos + own > room
        BY <1>3, <2>1
      <4> QED
        BY <3>2, <3>3, <4>1
    <3>5. pos + len <= room /\ Holds(pos) /\ Within(pos, Full[n], Full[root])
      BY <1>3, <3>1, <3>4
    <3>6. /\ pos + len <= Len(Full[root])
          /\ Put(pos, len) \in [1 .. room -> {Blank} \cup (Node \X Nat)]
          /\ \A i \in 1 .. room : (Put(pos, len)[i] # Blank) <=> (i <= pos + len)
          /\ \A i \in 1 .. room : i <= pos + len => Put(pos, len)[i] = Full[root][i]
      <4>1. /\ SaysOK /\ root \in Node /\ Top.node \in Node /\ room \in Nat /\ pos \in Nat
            /\ pos + len <= room /\ len <= Own[Top.node]
            /\ Holds(pos) /\ Within(pos, Full[Top.node], Full[root])
        BY <1>3, <3>4, <3>5
      <4> QED
        BY <1>4, <4>1, PutHolds, Zenon
    <3>7. room \in 0 .. room /\ out' = Put(pos, len) /\ (InWindow => pos' = pos)
      BY <1>3, <2>1, <2>3, <3>3
    <3>8. PICK w \in 0 .. room : w = room
      BY <1>3
    <3>9. /\ out' \in [1 .. room -> {Blank} \cup (Node \X Nat)]
          /\ w <= Len(Full[root])
          /\ \A i \in 1 .. room : (out'[i] # Blank) <=> (i <= w)
          /\ \A i \in 1 .. room : i <= w => out'[i] = Full[root][i]
      BY <3>4, <3>6, <3>7, <3>8
    <3> QED
      BY <1>1, <2>1, <3>7, <3>9, FailKeeps
  <2> QED
    BY <2>2, <2>3
<1> QED
  BY <1>8, <1>9, <1>10

(* write of the next child: its encoding stands where the bytes before end. *)
LEMMA WriteKidInvariant ==
  ASSUME NeverWraps, IInv, WriteKid
  PROVE  IInv'
<1> DEFINE n == Top.node
           L == Len(stack)
           k == Top.next - 1
           kid == Kids[n][k]
<1>1. /\ mode = "run" /\ stack # <<>> /\ Top.next >= 2
      /\ k <= Loops(n) /\ k <= Len(Kids[n])
      /\ stack' = Append(stack, Frame(kid))
      /\ UNCHANGED <<inputs, win, out, pos, closed, mode>>
  BY DEF WriteKid
<1>2. PICK start \in [1 .. Len(stack) -> Nat] : Laid(start)
  BY DEF IInv
<1>3. /\ SaysOK /\ room \in Nat /\ pos \in 0 .. room /\ root \in Node /\ n \in Node
      /\ stack \in Seq(Frames) /\ L \in Nat /\ L \in 1 .. L /\ start[L] \in Nat
      /\ Top = stack[L] /\ Top.next \in Nat
      /\ Cursor = start[L] + Done(Top)
      /\ Within(start[L], Full[n], Full[root])
      /\ Len(Full[root]) \in Nat
      /\ InWindow => start[L] + Len(Full[n]) <= win.edge
  BY <1>1, <1>2, Running
<1>4. /\ Full' = Full /\ Count' = Count /\ Off' = Off /\ Wants' = Wants
      /\ UNCHANGED <<sink, room, root, says>>
  BY <1>1, InputsKept
<1>5. k \in 1 .. Count[n]
  <2>1. Loops(n) \in Nat /\ Len(Kids[n]) \in Nat
    BY <1>3, Facts
  <2>2. k <= Count[n] /\ Count[n] = Written(n)
    BY <1>1, <1>3, <2>1 DEF Written, Count
  <2>3. Count[n] \in Nat
    BY <1>3, Facts
  <2> QED
    BY <1>1, <1>3, <2>2, <2>3
<1>6. /\ kid \in Node /\ k \in DOMAIN Kids[n] /\ k - 1 \in 0 .. Count[n] /\ k \in 0 .. Count[n]
      /\ Off[<<n, k>>] = Off[<<n, k - 1>>] + Len(Full[kid])
      /\ Within(Off[<<n, k - 1>>], Full[kid], Full[n])
  BY <1>3, <1>5, KidOffset
<1>7. /\ Off[<<n, k - 1>>] \in Nat /\ Off[<<n, k>>] \in Nat /\ Off[<<n, k>>] <= Len(Full[n])
      /\ Len(Full[n]) \in Nat
  BY <1>3, <1>6, Facts
<1>8. Len(Full[kid]) \in Nat /\ Count[kid] \in Nat
  BY <1>3, <1>6, Facts
<1>9. Done(Top) = Off[<<n, k - 1>>]
  <2>1. Top.next - 2 = k - 1 /\ ~(Top.next <= 1)
    BY <1>1, <1>3
  <2> QED
    BY <2>1 DEF Done
<1> HIDE DEF n, k, kid
<1>10. /\ stack' \in Seq(Frames) /\ Len(stack') = L + 1 /\ stack' # <<>>
       /\ \A i \in 1 .. L : stack'[i] = stack[i]
       /\ stack'[L + 1].node = kid /\ stack'[L + 1].next = 0
       /\ Top' = stack'[L + 1]
  BY <1>1, <1>3, <1>6, PushedStack
<1> DEFINE more == [i \in 1 .. L + 1 |-> IF i = L + 1 THEN start[L] + Off[<<n, k - 1>>] ELSE start[i]]
<1>11. PICK s \in [1 .. L + 1 -> Nat] :
         /\ s[L + 1] = start[L] + Off[<<n, k - 1>>]
         /\ \A i \in 1 .. L : s[i] = start[i]
  <2>1. more \in [1 .. L + 1 -> Nat]
    <3>1. start[L] + Off[<<n, k - 1>>] \in Nat
      BY <1>3, <1>7
    <3>2. ASSUME NEW i \in 1 .. L + 1, i # L + 1
          PROVE  start[i] \in Nat
      <4>1. i \in 1 .. L
        BY <1>3, <3>2
      <4> QED
        BY <1>2, <4>1
    <3> QED
      BY <3>1, <3>2
  <2>2. more[L + 1] = start[L] + Off[<<n, k - 1>>]
    BY <1>3
  <2>3. \A i \in 1 .. L : more[i] = start[i]
    BY <1>3
  <2> HIDE DEF more
  <2> QED
    BY <2>1, <2>2, <2>3
<1>12. \A i \in 1 .. L + 1 : i \in 1 .. L \/ i = L + 1
  BY <1>3
<1>13. Cursor' = Cursor /\ InWindow' = InWindow
  BY <1>1 DEF Cursor, InWindow
<1>14. TypeOK'
  <2>1. win.owner \in 0 .. L /\ win \in [owner : 0 .. L, at : Nat, edge : 0 .. room]
    BY DEF IInv, TypeOK
  <2>2. win \in [owner : 0 .. L + 1, at : Nat, edge : 0 .. room]
    <3>1. win.owner \in 0 .. L + 1
      BY <1>3, <2>1
    <3> QED
      BY <2>1, <3>1
  <2> QED
    BY <1>1, <1>4, <1>10, <2>2 DEF IInv, TypeOK, Frames
<1>15. StackInv'
  <2>1. ASSUME NEW i \in 1 .. L + 1
        PROVE  stack'[i].next <= Count[stack'[i].node] + 2
    <3>1. CASE i \in 1 .. L
      BY <1>10, <3>1 DEF IInv, StackInv
    <3>2. CASE i = L + 1
      BY <1>8, <1>10, <3>2
    <3> QED
      BY <1>12, <3>1, <3>2
  <2>2. ASSUME NEW i \in 1 .. L
        PROVE  /\ stack'[i].next >= 2 /\ stack'[i].next - 1 <= Count[stack'[i].node]
               /\ stack'[i + 1].node = Kids[stack'[i].node][stack'[i].next - 1]
    <3>1. CASE i = L
      <4>1. stack'[L] = Top /\ stack'[L + 1].node = Kids[n][k]
        BY <1>3, <1>10 DEF kid
      <4>2. Top.next >= 2 /\ Top.next - 1 = k /\ k <= Count[n]
        BY <1>1, <1>3, <1>5 DEF k
      <4> QED
        BY <3>1, <4>1, <4>2 DEF n
    <3>2. CASE i # L
      <4>1. i \in 1 .. L - 1 /\ i + 1 \in 1 .. L
        BY <1>3, <3>2
      <4>2. stack'[i] = stack[i] /\ stack'[i + 1] = stack[i + 1]
        BY <1>10, <4>1
      <4> QED
        BY <4>1, <4>2 DEF IInv, StackInv
    <3> QED
      BY <3>1, <3>2
  <2>3. L + 1 - 1 = L
    BY <1>3
  <2> QED
    BY <1>4, <1>10, <2>1, <2>2, <2>3 DEF StackInv
<1>16. ASSUME InWindow
       PROVE  /\ win.owner \in 1 .. L /\ stack'[win.owner] = stack[win.owner]
              /\ stack[win.owner].node \in Opens /\ stack[win.owner].next >= 1
              /\ \A i \in win.owner + 1 .. L : stack[i].node \in Static
              /\ pos = IF sink \in Ahead THEN win.edge ELSE win.at
              /\ sink # "stream"
              /\ kid \in Static
  <2>1. /\ win.owner \in 1 .. L /\ stack[win.owner].node \in Opens /\ stack[win.owner].next >= 1
        /\ \A i \in win.owner + 1 .. L : stack[i].node \in Static
        /\ pos = IF sink \in Ahead THEN win.edge ELSE win.at
        /\ sink # "stream"
    BY <1>16 DEF IInv, WindowInv
  <2>2. CASE win.owner = L
    BY <1>3, <1>6, <1>10, <2>1, <2>2, WindowSize DEF n, kid
  <2>3. CASE win.owner # L
    <3>1. L \in win.owner + 1 .. L
      BY <1>3, <2>1, <2>3
    <3>2. n \in Static
      BY <1>3, <2>1, <3>1 DEF n
    <3> QED
      BY <1>6, <1>10, <2>1, <3>2, TreeAssumption DEF kid
  <2> QED
    BY <2>2, <2>3
<1>17. WindowInv'
  <2> SUFFICES ASSUME InWindow
               PROVE  /\ sink # "stream" /\ win.owner \in 1 .. L + 1
                      /\ stack'[win.owner].node \in Opens /\ stack'[win.owner].next >= 1
                      /\ \A i \in win.owner + 1 .. L + 1 : stack'[i].node \in Static
                      /\ pos = IF sink \in Ahead THEN win.edge ELSE win.at
    BY <1>1, <1>4, <1>10, <1>13 DEF WindowInv
  <2>1. win.owner \in 1 .. L + 1
    BY <1>3, <1>16
  <2>2. ASSUME NEW i \in win.owner + 1 .. L + 1
        PROVE  stack'[i].node \in Static
    <3>1. CASE i = L + 1
      BY <1>10, <1>16, <3>1
    <3>2. CASE i # L + 1
      <4>1. i \in win.owner + 1 .. L /\ i \in 1 .. L
        BY <1>3, <1>16, <3>2
      <4> QED
        BY <1>10, <1>16, <4>1
    <3> QED
      BY <3>1, <3>2
  <2> QED
    BY <1>16, <2>1, <2>2
<1>18. Laid(s)'
  <2>1. stack'[1].node = root /\ s[1] = 0
    <3>1. 1 \in 1 .. L
      BY <1>3
    <3> QED
      BY <1>1, <1>2, <1>10, <1>11, <3>1 DEF Laid
  <2>2. ASSUME NEW i \in 1 .. L
        PROVE  s[i + 1] = s[i] + Done(stack[i])'
    <3>1. Done(stack[i])' = Done(stack[i])
      BY <1>4, <1>10 DEF Done
    <3>2. CASE i = L
      BY <1>3, <1>9, <1>11, <3>1, <3>2
    <3>3. CASE i # L
      <4>1. i \in 1 .. L - 1 /\ i + 1 \in 1 .. L
        BY <1>3, <3>3
      <4>2. start[i + 1] = start[i] + Done(stack[i])
        BY <1>2, <4>1 DEF Laid
      <4> QED
        BY <1>11, <3>1, <4>1, <4>2
    <3> QED
      BY <3>2, <3>3
  <2>3. ASSUME NEW i \in 1 .. L + 1
        PROVE  Within(s[i], Full[stack'[i].node], Full[root])
    <3>1. CASE i \in 1 .. L
      BY <1>2, <1>10, <1>11, <3>1 DEF Laid
    <3>2. CASE i = L + 1
      <4>1. Within(start[L] + Off[<<n, k - 1>>], Full[kid], Full[root])
        BY <1>3, <1>6, <1>7, <1>8, WithinTransitive DEF n
      <4> QED
        BY <1>10, <1>11, <3>2, <4>1
    <3> QED
      BY <1>12, <3>1, <3>2
  <2>4. Cursor' = s[L + 1] + Done(Top)'
    <3>1. Done(Top)' = 0
      BY <1>10 DEF Done
    <3> QED
      BY <1>3, <1>7, <1>9, <1>11, <1>13, <3>1
  <2>5. ASSUME InWindow
        PROVE  /\ win.edge = s[win.owner] + Wants[stack'[win.owner].node]
               /\ \A i \in win.owner .. L + 1 : s[i] + Len(Full[stack'[i].node]) <= win.edge
    <3>1. /\ win.edge = start[win.owner] + Wants[stack[win.owner].node]
          /\ \A i \in win.owner .. L : start[i] + Len(Full[stack[i].node]) <= win.edge
      BY <1>2, <2>5 DEF Laid
    <3>2. win.edge = s[win.owner] + Wants[stack'[win.owner].node]
      BY <1>11, <1>16, <2>5, <3>1
    <3>3. ASSUME NEW i \in win.owner .. L + 1
          PROVE  s[i] + Len(Full[stack'[i].node]) <= win.edge
      <4>1. CASE i = L + 1
        <5> DEFINE a == start[L]
                   b == Off[<<n, k - 1>>]
                   c == Len(Full[kid])
                   d == Len(Full[n])
                   e == win.edge
        <5>1. a \in Nat /\ b \in Nat /\ c \in Nat /\ d \in Nat /\ e \in Nat
          BY <1>3, <1>7, <1>8 DEF IInv, TypeOK
        <5>2. a + d <= e /\ b + c <= d
          BY <1>3, <1>6, <1>7, <2>5 DEF n
        <5>3. s[i] = a + b /\ Len(Full[stack'[i].node]) = c
          BY <1>10, <1>11, <4>1
        <5> HIDE DEF a, b, c, d, e
        <5>4. a + b + c <= e
          BY <5>1, <5>2
        <5> QED
          BY <5>3, <5>4 DEF e
      <4>2. CASE i # L + 1
        <5>1. i \in win.owner .. L /\ i \in 1 .. L
          BY <1>3, <1>16, <2>5, <4>2
        <5> QED
          BY <1>10, <1>11, <3>1, <5>1
      <4> QED
        BY <4>1, <4>2
    <3> QED
      BY <3>2, <3>3
  <2>6. Len(stack') - 1 = L
    BY <1>3, <1>10
  <2>7. stack'[1].node = root' /\ s[1] = 0
    BY <1>4, <2>1
  <2>8. \A i \in 1 .. Len(stack') - 1 : s[i + 1] = s[i] + Done(stack[i])'
    BY <2>2, <2>6
  <2>9. \A i \in 1 .. Len(stack') : Within(s[i], Full'[stack'[i].node], Full'[root'])
    BY <1>4, <1>10, <2>3
  <2>10. Cursor' = s[Len(stack')] + Done(Top)'
    BY <1>10, <2>4
  <2>11. InWindow' =>
           /\ win'.edge = s[win'.owner] + Wants'[stack'[win'.owner].node]
           /\ \A i \in win'.owner .. Len(stack') : s[i] + Len(Full'[stack'[i].node]) <= win'.edge
    BY <1>1, <1>4, <1>10, <1>13, <2>5
  <2> QED
    BY <2>7, <2>8, <2>9, <2>10, <2>11 DEF Laid
<1>19. (\E w \in 0 .. room : Holds(w))'
  <2>1. PICK w \in 0 .. room : Holds(w)
    BY DEF IInv
  <2>2. Holds(w)'
    BY <1>1, <1>4, <1>13, <2>1 DEF Holds
  <2> QED
    BY <1>4, <2>2
<1>20. EndInv'
  BY <1>1, <1>10 DEF IInv, EndInv
<1>21. (\E start_1 \in [1 .. Len(stack) -> Nat] : Laid(start_1))'
  BY <1>10, <1>11, <1>18
<1> QED
  BY <1>14, <1>15, <1>17, <1>19, <1>20, <1>21 DEF IInv

LEMMA NextStep ==
  ASSUME NEW next \in Nat, NEW count \in Nat, next - 1 <= count
  PROVE  next + 1 <= count + 2
OBVIOUS

(* write returns: the node is complete, and so is the window it opened. *)
LEMMA ReturnInvariant ==
  ASSUME NeverWraps, IInv, Return
  PROVE  IInv'
<1> DEFINE n == Top.node
           L == Len(stack)
<1>1. /\ mode = "run" /\ stack # <<>> /\ Top.next >= 2 /\ Top.next - 1 > Loops(n)
      /\ stack' = Popped
      /\ win' = IF win.owner = L THEN NoWindow ELSE win
      /\ UNCHANGED <<inputs, closed, out, pos, mode>>
  BY DEF Return, LoopEnded, FinishTrusted
<1>2. PICK start \in [1 .. Len(stack) -> Nat] : Laid(start)
  BY DEF IInv
<1>3. /\ SaysOK /\ room \in Nat /\ pos \in 0 .. room /\ root \in Node /\ n \in Node
      /\ stack \in Seq(Frames) /\ L \in Nat /\ L \in 1 .. L /\ start[L] \in Nat
      /\ Top = stack[L] /\ Top.next \in Nat /\ Top.next <= Count[n] + 2
      /\ Cursor = start[L] + Done(Top)
      /\ Len(Full[root]) \in Nat
      /\ Holds(Cursor) /\ Cursor \in 0 .. room
  BY <1>1, <1>2, Running
<1>4. /\ Full' = Full /\ Count' = Count /\ Off' = Off /\ Wants' = Wants
      /\ UNCHANGED <<sink, room, root, says>>
  BY <1>1, InputsKept
<1>5. Top.next - 2 = Count[n] /\ Count[n] = Loops(n) /\ ~(Top.next <= 1)
  <2>1. Count[n] \in Nat /\ Loops(n) \in Nat /\ Count[n] <= Loops(n)
    BY <1>3, Facts
  <2>2. /\ Top.next - 1 > Loops(n) /\ Top.next <= Count[n] + 2
        /\ Top.next \in Nat
    BY <1>1, <1>3
  <2> QED
    BY <2>1, <2>2
<1>6. Done(Top) = Len(Full[n]) /\ Len(Full[n]) \in Nat
  BY <1>3, <1>5, Facts DEF Done
<1>7. Cursor = start[L] + Len(Full[n])
  BY <1>3, <1>6
<1> HIDE DEF n
<1>8. PICK m \in Nat :
        /\ L = m + 1 /\ m = L - 1 /\ m - 1 = L - 2
        /\ L # 1 => m >= 1
        /\ \A i \in 1 .. m : i \in 1 .. L /\ (i \in 1 .. m - 1 \/ i = m) /\ m >= 1
        /\ \A i \in 1 .. m - 1 : i + 1 \in 1 .. m /\ i \in 1 .. m
  <2>1. ASSUME NEW m \in Nat, m = L - 1
        PROVE  /\ L = m + 1 /\ m = L - 1 /\ m - 1 = L - 2
               /\ L # 1 => m >= 1
               /\ \A i \in 1 .. m : i \in 1 .. L /\ (i \in 1 .. m - 1 \/ i = m) /\ m >= 1
               /\ \A i \in 1 .. m - 1 : i + 1 \in 1 .. m /\ i \in 1 .. m
    BY <1>3, <2>1
  <2>2. L - 1 \in Nat
    BY <1>3
  <2> QED
    BY <2>1, <2>2, Zenon
<1>9. /\ stack' \in Seq(Frames) /\ Len(stack') = m
      /\ \A i \in 1 .. m : stack'[i].node = stack[i].node
      /\ \A i \in 1 .. L - 2 : stack'[i] = stack[i]
      /\ L = 1 <=> stack' = <<>>
      /\ L # 1 => /\ m \in 1 .. m /\ stack'[m].next = stack[m].next + 1
                  /\ Top' = stack'[m]
  BY <1>1, <1>3, <1>8, PoppedStack
<1>10. \A i \in 1 .. m : stack[i].node \in Node /\ stack[i].next \in Nat
  BY <1>3, <1>8, StackTypes
<1>11. /\ Cursor' = Cursor
       /\ InWindow' => InWindow /\ win' = win /\ win.owner \in 1 .. m
       /\ win' \in [owner : 0 .. m, at : Nat, edge : 0 .. room]
  <2>1. win \in [owner : 0 .. L, at : Nat, edge : 0 .. room]
    BY DEF IInv, TypeOK
  <2>2. NoWindow \in [owner : 0 .. m, at : Nat, edge : 0 .. room] /\ NoWindow.owner = 0
    BY <1>3, <1>8 DEF NoWindow
  <2>3. CASE ~InWindow
    <3>1. win = NoWindow /\ win.owner # L
      BY <1>3, <2>2, <2>3 DEF InWindow
    <3> QED
      BY <1>1, <2>2, <3>1 DEF InWindow, Cursor
  <2>4. CASE InWindow /\ win.owner = L
    <3>1. n \in Opens /\ pos = IF sink \in Ahead THEN win.edge ELSE win.at
      BY <1>3, <2>4 DEF IInv, WindowInv, n
    <3>2. win.edge = start[L] + Wants[n]
      BY <1>2, <1>3, <2>4 DEF Laid, n
    <3>3. Wants[n] = Len(Full[n])
      BY <1>3, <1>5, <3>1, WindowSize
    <3>4. Cursor = win.at /\ win.edge = win.at /\ pos = win.at
      BY <1>7, <2>4, <3>1, <3>2, <3>3 DEF Cursor
    <3> QED
      BY <1>1, <2>2, <2>4, <3>4 DEF InWindow, Cursor
  <2>5. CASE InWindow /\ win.owner # L
    <3>1. win.owner \in 1 .. L
      BY <2>5 DEF IInv, WindowInv
    <3>2. win.owner \in 1 .. m /\ win.owner \in 0 .. m
      BY <1>3, <1>8, <2>5, <3>1
    <3>3. win' = win /\ win \in [owner : 0 .. m, at : Nat, edge : 0 .. room]
      BY <1>1, <2>1, <2>5, <3>2
    <3> QED
      BY <1>1, <3>2, <3>3, <2>5 DEF InWindow, Cursor
  <2> QED
    BY <2>3, <2>4, <2>5
<1>12. TypeOK'
  BY <1>1, <1>4, <1>9, <1>11 DEF IInv, TypeOK, Frames
<1>13. ASSUME L # 1
       PROVE  /\ m \in 1 .. m /\ m \in 1 .. L - 1
              /\ stack[m].next >= 2 /\ stack[m].next - 1 <= Count[stack[m].node]
              /\ stack[m].next \in Nat /\ stack[m].node \in Node
              /\ n = Kids[stack[m].node][stack[m].next - 1]
              /\ stack'[m].next = stack[m].next + 1 /\ stack'[m].node = stack[m].node
              /\ Top' = stack'[m]
              /\ Done(stack[m])' = Done(stack[m]) + Len(Full[n])
  <2>1. m \in 1 .. m /\ m \in 1 .. L - 1 /\ m + 1 = L
    BY <1>8, <1>13
  <2>2. /\ stack[m].next >= 2 /\ stack[m].next - 1 <= Count[stack[m].node]
        /\ stack[m + 1].node = Kids[stack[m].node][stack[m].next - 1]
    BY <2>1 DEF IInv, StackInv
  <2>3. stack[m].next \in Nat /\ stack[m].node \in Node
    BY <1>10, <2>1
  <2>4. /\ stack'[m].next = stack[m].next + 1 /\ stack'[m].node = stack[m].node
        /\ Top' = stack'[m]
    BY <1>9, <1>13, <2>1
  <2>5. n = Kids[stack[m].node][stack[m].next - 1]
    BY <1>3, <2>1, <2>2 DEF n
  <2> DEFINE p == stack[m].node
             k == stack[m].next - 1
  <2>6. Count[p] \in Nat
    BY <1>3, <2>3, Facts
  <2>7. k \in 1 .. Count[p] /\ k - 1 = stack[m].next - 2
    BY <2>2, <2>3, <2>6
  <2>8. Off[<<p, k>>] = Off[<<p, k - 1>>] + Len(Full[Kids[p][k]])
    BY <1>3, <2>3, <2>7, KidOffset
  <2>9. Done(stack[m]) = Off[<<p, k - 1>>]
    <3>1. ~(stack[m].next <= 1)
      BY <2>2, <2>3
    <3> QED
      BY <2>7, <3>1 DEF Done
  <2>10. ~(stack'[m].next <= 1) /\ stack'[m].next - 2 = k
    BY <2>2, <2>3, <2>4
  <2>11. Done(stack[m])' = Off[<<p, k>>]
    BY <1>4, <2>4, <2>10 DEF Done
  <2> QED
    BY <2>1, <2>2, <2>3, <2>4, <2>5, <2>8, <2>9, <2>11
<1>14. StackInv'
  <2>1. ASSUME NEW i \in 1 .. m
        PROVE  stack'[i].next <= Count[stack'[i].node] + 2
    <3>1. CASE i \in 1 .. m - 1
      BY <1>9, <1>8, <3>1 DEF IInv, StackInv
    <3>2. CASE i = m
      <4>0. L # 1
        BY <1>8, <3>2
      <4>1. /\ stack'[m].next = stack[m].next + 1 /\ stack'[m].node = stack[m].node
            /\ stack[m].next \in Nat /\ stack[m].node \in Node
            /\ stack[m].next - 1 <= Count[stack[m].node]
        BY <1>13, <4>0
      <4>2. Count[stack[m].node] \in Nat
        BY <1>3, <4>1, Facts
      <4>3. stack[m].next + 1 <= Count[stack[m].node] + 2
        BY <4>1, <4>2, NextStep
      <4>4. stack'[m].next <= Count[stack'[m].node] + 2
        BY <4>1, <4>3
      <4> QED
        BY <3>2, <4>4
    <3> QED
      BY <1>8, <3>1, <3>2
  <2>2. ASSUME NEW i \in 1 .. m - 1
        PROVE  /\ stack'[i].next >= 2 /\ stack'[i].next - 1 <= Count[stack'[i].node]
               /\ stack'[i + 1].node = Kids[stack'[i].node][stack'[i].next - 1]
    <3>1. stack'[i] = stack[i] /\ i \in 1 .. L - 1 /\ stack'[i + 1].node = stack[i + 1].node
      BY <1>9, <1>8
    <3> QED
      BY <3>1 DEF IInv, StackInv
  <2>3. \A i \in 1 .. Len(stack') : stack'[i].next <= Count'[stack'[i].node] + 2
    BY <1>4, <1>9, <2>1
  <2>4. \A i \in 1 .. Len(stack') - 1 :
          /\ stack'[i].next >= 2 /\ stack'[i].next - 1 <= Count'[stack'[i].node]
          /\ stack'[i + 1].node = Kids[stack'[i].node][stack'[i].next - 1]
    BY <1>4, <1>9, <2>2
  <2> QED
    BY <2>3, <2>4 DEF StackInv
<1>15. WindowInv'
  <2> SUFFICES ASSUME InWindow'
               PROVE  /\ sink # "stream" /\ win.owner \in 1 .. m
                      /\ stack'[win.owner].node \in Opens /\ stack'[win.owner].next >= 1
                      /\ \A i \in win.owner + 1 .. m : stack'[i].node \in Static
                      /\ pos = IF sink \in Ahead THEN win.edge ELSE win.at
    BY <1>1, <1>4, <1>9, <1>11 DEF WindowInv
  <2>1. InWindow /\ win.owner \in 1 .. m
    BY <1>11
  <2>2. /\ sink # "stream"
        /\ stack[win.owner].node \in Opens /\ stack[win.owner].next >= 1
        /\ \A i \in win.owner + 1 .. L : stack[i].node \in Static
        /\ pos = IF sink \in Ahead THEN win.edge ELSE win.at
    BY <2>1 DEF IInv, WindowInv
  <2>3. stack'[win.owner].next >= 1
    <3>1. CASE win.owner \in 1 .. m - 1
      BY <1>9, <1>8, <2>2, <3>1
    <3>2. CASE win.owner = m
      <4>1. L # 1
        BY <1>8, <2>1, <3>2
      <4> QED
        BY <1>13, <3>2, <4>1
    <3> QED
      BY <1>8, <2>1, <3>1, <3>2
  <2>4. \A i \in win.owner + 1 .. m : i \in 1 .. m /\ i \in win.owner + 1 .. L
    BY <1>8, <2>1
  <2> QED
    BY <1>9, <2>1, <2>2, <2>3, <2>4
<1> DEFINE fewer == [i \in 1 .. m |-> start[i]]
<1>16. PICK s \in [1 .. m -> Nat] : \A i \in 1 .. m : s[i] = start[i]
  <2>1. fewer \in [1 .. m -> Nat] /\ \A i \in 1 .. m : fewer[i] = start[i]
    BY <1>8
  <2> HIDE DEF fewer
  <2> QED
    BY <2>1
<1>17. Laid(s)'
  <2>1. stack' # <<>> => stack'[1].node = root' /\ s[1] = 0
    <3> SUFFICES ASSUME L # 1 PROVE stack'[1].node = root' /\ s[1] = 0
      BY <1>9
    <3>1. 1 \in 1 .. m
      BY <1>8, <1>13
    <3> QED
      BY <1>1, <1>2, <1>4, <1>9, <1>16, <3>1 DEF Laid
  <2>2. ASSUME NEW i \in 1 .. m - 1
        PROVE  s[i + 1] = s[i] + Done(stack[i])'
    <3>1. stack'[i] = stack[i] /\ i \in 1 .. L - 1 /\ i \in 1 .. m /\ i + 1 \in 1 .. m
      BY <1>9, <1>8
    <3>2. Done(stack[i])' = Done(stack[i])
      BY <1>4, <3>1 DEF Done
    <3>3. start[i + 1] = start[i] + Done(stack[i])
      BY <1>2, <3>1 DEF Laid
    <3> QED
      BY <1>16, <3>1, <3>2, <3>3
  <2>3. ASSUME NEW i \in 1 .. m
        PROVE  Within(s[i], Full[stack'[i].node], Full[root])
    <3>1. Within(start[i], Full[stack[i].node], Full[root])
      BY <1>2, <1>8 DEF Laid
    <3> QED
      BY <1>9, <1>16, <3>1
  <2>4. ASSUME L # 1
        PROVE  Cursor' = s[m] + Done(Top)'
    <3>1. start[m + 1] = start[m] + Done(stack[m]) /\ m + 1 = L /\ m \in 1 .. L
      BY <1>2, <1>8, <1>13, <2>4 DEF Laid
    <3>2. Done(Top)' = Done(stack[m])'
      BY <1>13, <2>4 DEF Done
    <3>3. Done(stack[m])' = Done(stack[m]) + Len(Full[n]) /\ s[m] = start[m] /\ start[m] \in Nat
      BY <1>13, <1>16, <2>4, <3>1
    <3>4. Done(stack[m]) \in Nat
      <4>1. Count[stack[m].node] \in Nat
        BY <1>3, <1>13, <2>4, Facts
      <4>2. stack[m].next - 2 \in 0 .. Count[stack[m].node] /\ ~(stack[m].next <= 1)
        <5>1. /\ stack[m].next >= 2 /\ stack[m].next \in Nat
              /\ stack[m].next - 1 <= Count[stack[m].node]
          BY <1>13, <2>4
        <5> QED
          BY <4>1, <5>1
      <4>3. Off[<<stack[m].node, stack[m].next - 2>>] \in Nat
        BY <1>3, <1>13, <2>4, <4>2, Facts
      <4> QED
        BY <4>2, <4>3 DEF Done
    <3> DEFINE a == start[m]
               b == Done(stack[m])
               c == Len(Full[n])
    <3>5. a \in Nat /\ b \in Nat /\ c \in Nat /\ Cursor = a + b + c
      BY <1>6, <1>7, <3>1, <3>3, <3>4
    <3>6. Done(Top)' = b + c /\ s[m] = a
      BY <3>2, <3>3
    <3> HIDE DEF a, b, c
    <3> QED
      BY <1>11, <3>5, <3>6
  <2>5. ASSUME InWindow'
        PROVE  /\ win.edge = s[win.owner] + Wants[stack'[win.owner].node]
               /\ \A i \in win.owner .. m : s[i] + Len(Full[stack'[i].node]) <= win.edge
    <3>1. InWindow /\ win.owner \in 1 .. m
      BY <1>11, <2>5
    <3>2. /\ win.edge = start[win.owner] + Wants[stack[win.owner].node]
          /\ \A i \in win.owner .. L : start[i] + Len(Full[stack[i].node]) <= win.edge
      BY <1>2, <3>1 DEF Laid
    <3>3. \A i \in win.owner .. m : i \in 1 .. m /\ i \in win.owner .. L
      BY <1>8, <3>1
    <3> QED
      BY <1>9, <1>16, <3>1, <3>2, <3>3
  <2>6. \A i \in 1 .. Len(stack') - 1 : s[i + 1] = s[i] + Done(stack[i])'
    BY <1>9, <2>2
  <2>7. \A i \in 1 .. Len(stack') : Within(s[i], Full'[stack'[i].node], Full'[root'])
    BY <1>4, <1>9, <2>3
  <2>8. stack' # <<>> => Cursor' = s[Len(stack')] + Done(Top)'
    BY <1>9, <2>4
  <2>9. InWindow' =>
          /\ win'.edge = s[win'.owner] + Wants'[stack'[win'.owner].node]
          /\ \A i \in win'.owner .. Len(stack') : s[i] + Len(Full'[stack'[i].node]) <= win'.edge
    BY <1>4, <1>9, <1>11, <2>5
  <2> QED
    BY <2>1, <2>6, <2>7, <2>8, <2>9 DEF Laid
<1>18. (\E w \in 0 .. room : Holds(w))'
  <2>1. PICK w \in 0 .. room : Holds(w)
    BY DEF IInv
  <2>2. Holds(w)'
    BY <1>1, <1>4, <1>11, <2>1 DEF Holds
  <2> QED
    BY <1>4, <2>2
<1>19. EndInv'
  <2>1. ASSUME stack' = <<>>
        PROVE  Cursor' = Len(Full[root])
    <3>1. L = 1
      BY <1>9, <2>1
    <3>2. start[L] = 0 /\ n = root
      BY <1>1, <1>2, <1>3, <3>1 DEF Laid, n
    <3> QED
      BY <1>3, <1>7, <1>11, <3>2
  <2> QED
    BY <1>1, <1>4, <2>1 DEF IInv, EndInv
<1>20. (\E start_1 \in [1 .. Len(stack) -> Nat] : Laid(start_1))'
  BY <1>9, <1>16, <1>17
<1> QED
  BY <1>12, <1>14, <1>15, <1>18, <1>19, <1>20 DEF IInv

(* serialize_into finishes the writer behind the last byte. *)
LEMMA FinishInvariant ==
  ASSUME IInv, Finish
  PROVE  IInv'
<1>1. /\ mode = "run" /\ stack = <<>> /\ ~closed
      /\ UNCHANGED <<inputs, stack, win, out, pos>>
      /\ closed' \in BOOLEAN /\ mode' \in {"ok", "failed"} /\ (closed' => mode' = "ok")
  <2>1. mode = "run" /\ stack = <<>> /\ UNCHANGED <<inputs, stack, win, out, pos>>
    BY DEF Finish
  <2>2. closed = FALSE
    BY <2>1 DEF IInv, TypeOK, EndInv
  <2>3. \/ closed' = TRUE /\ mode' = "ok"
        \/ closed' = FALSE /\ mode' = "failed"
    BY <2>2 DEF Finish
  <2> QED
    BY <2>1, <2>2, <2>3
<1>2. /\ Full' = Full /\ Count' = Count /\ Off' = Off /\ Wants' = Wants
      /\ UNCHANGED <<sink, room, root, says>>
  BY <1>1, InputsKept
<1>3. InWindow' = InWindow /\ Cursor' = Cursor /\ Top' = Top
  BY <1>1 DEF InWindow, Cursor, Top
<1>4. TypeOK' /\ StackInv' /\ WindowInv' /\ EndInv'
  <2>1. TypeOK'
    BY <1>1, <1>2 DEF IInv, TypeOK
  <2>2. StackInv'
    BY <1>1, <1>2 DEF IInv, StackInv
  <2>3. WindowInv'
    BY <1>1, <1>2, <1>3 DEF IInv, WindowInv
  <2>4. EndInv'
    BY <1>1, <1>2, <1>3 DEF IInv, EndInv
  <2> QED
    BY <2>1, <2>2, <2>3, <2>4
<1>5. (\E start \in [1 .. Len(stack) -> Nat] : Laid(start))'
  <2>1. PICK start \in [1 .. Len(stack) -> Nat] : Laid(start)
    BY DEF IInv
  <2>2. \A i \in 1 .. Len(stack) - 1 : Done(stack[i])' = Done(stack[i])
    BY <1>1, <1>2 DEF Done
  <2>3. Laid(start)'
    BY <1>1, <1>2, <1>3, <2>1, <2>2 DEF Laid
  <2> QED
    BY <1>1, <2>1, <2>3
<1>6. (\E w \in 0 .. room : Holds(w))'
  <2>1. PICK w \in 0 .. room : Holds(w)
    BY DEF IInv
  <2>2. Holds(w)'
    BY <1>1, <1>2, <1>3, <2>1 DEF Holds
  <2> QED
    BY <1>2, <2>2
<1> QED
  BY <1>4, <1>5, <1>6 DEF IInv

LEMMA InitInvariant ==
  ASSUME Init
  PROVE  IInv
<1>1. /\ sink \in Sinks /\ room \in 0 .. MaxRoom /\ root \in Roots /\ SaysOK
      /\ stack = <<Frame(root)>> /\ win = NoWindow
      /\ out = [i \in 1 .. room |-> Blank] /\ pos = 0 /\ closed = FALSE /\ mode = "run"
  BY DEF Init, SaysOK
<1>2. root \in Node /\ room \in Nat
  BY <1>1, EncodeAssumption
<1>3. Frame(root) \in Frames /\ Frame(root).node = root /\ Frame(root).next = 0
  BY <1>2 DEF Frame, Frames
<1>4. /\ stack \in Seq(Frames) /\ Len(stack) = 1 /\ stack # <<>> /\ stack[1] = Frame(root)
      /\ Top = Frame(root)
  BY <1>1, <1>3 DEF Top
<1>5. ~InWindow /\ Cursor = 0
  BY <1>1 DEF InWindow, Cursor
<1>6. Len(Full[root]) \in Nat /\ Count[root] \in Nat
  BY <1>1, <1>2, Facts
<1>7. TypeOK
  <2>1. win \in [owner : 0 .. Len(stack), at : Nat, edge : 0 .. room]
    BY <1>1, <1>2, <1>4 DEF NoWindow
  <2>2. out \in [1 .. room -> {Blank} \cup (Node \X Nat)]
    BY <1>1
  <2>3. pos \in 0 .. room /\ closed \in BOOLEAN /\ mode \in {"run", "ok", "failed"}
    <3>1. pos \in 0 .. room /\ mode \in {"run", "ok", "failed"}
      BY <1>1, <1>2
    <3>2. closed \in BOOLEAN
      BY <1>1, Zenon
    <3> QED
      BY <3>1, <3>2
  <2>4. stack \in Seq([node : Node, next : Nat]) /\ says \in [Seqs -> 0 .. MaxSays]
    BY <1>1, <1>4 DEF SaysOK, Frames
  <2> QED
    BY <1>1, <2>1, <2>2, <2>3, <2>4 DEF TypeOK
<1>8. StackInv
  BY <1>3, <1>4, <1>6 DEF StackInv
<1>9. WindowInv
  BY <1>5 DEF WindowInv
<1>10. EndInv
  BY <1>1, <1>4 DEF EndInv
<1> DEFINE zero == [i \in 1 .. 1 |-> 0]
<1>11. zero \in [1 .. Len(stack) -> Nat] /\ zero[1] = 0
  BY <1>4
<1> HIDE DEF zero
<1>12. Laid(zero)
  <2>1. Within(0, Full[root], Full[root])
    BY <1>6 DEF Within
  <2>2. Done(Top) = 0
    BY <1>3, <1>4 DEF Done
  <2> QED
    BY <1>3, <1>4, <1>5, <1>11, <2>1, <2>2 DEF Laid
<1>13. Holds(0)
  BY <1>1, <1>2, <1>5, <1>6 DEF Holds
<1>14. 0 \in 0 .. room
  BY <1>2
<1> QED
  BY <1>7, <1>8, <1>9, <1>10, <1>11, <1>12, <1>13, <1>14 DEF IInv

LEMMA StepInvariant ==
  ASSUME NeverWraps, IInv, [Next]_vars
  PROVE  IInv'
<1>1. CASE Enter
  BY <1>1, EnterInvariant
<1>2. CASE OpenWindow
  BY <1>2, OpenWindowInvariant
<1>3. CASE RefuseWindow \/ RefuseWrite \/ FailWrite \/ ShortIter
  BY <1>3, FailInvariant
<1>4. CASE WriteUnchecked
  BY <1>4, WriteUncheckedInvariant
<1>5. CASE WriteChecked
  BY <1>5, WriteCheckedInvariant
<1>6. CASE WriteKid
  BY <1>6, WriteKidInvariant
<1>7. CASE Return
  BY <1>7, ReturnInvariant
<1>8. CASE Finish
  BY <1>8, FinishInvariant
<1>9. CASE UNCHANGED vars
  <2>1. UNCHANGED <<inputs, stack, win, out, pos, closed, mode>>
    BY <1>9 DEF vars, inputs
  <2>2. /\ Full' = Full /\ Count' = Count /\ Off' = Off /\ Wants' = Wants
        /\ UNCHANGED <<sink, room, root, says>>
    BY <2>1, InputsKept
  <2>3. InWindow' = InWindow /\ Cursor' = Cursor /\ Top' = Top
    BY <2>1 DEF InWindow, Cursor, Top
  <2>4. TypeOK'
    BY <2>1, <2>2 DEF IInv, TypeOK
  <2>5. StackInv'
    BY <2>1, <2>2 DEF IInv, StackInv
  <2>6. WindowInv'
    BY <2>1, <2>2, <2>3 DEF IInv, WindowInv
  <2>7. EndInv'
    BY <2>1, <2>2, <2>3 DEF IInv, EndInv
  <2>8. (\E start \in [1 .. Len(stack) -> Nat] : Laid(start))'
    <3>1. PICK start \in [1 .. Len(stack) -> Nat] : Laid(start)
      BY DEF IInv
    <3>2. \A i \in 1 .. Len(stack) - 1 : Done(stack[i])' = Done(stack[i])
      BY <2>1, <2>2 DEF Done
    <3>3. Done(Top)' = Done(Top)
      BY <2>2, <2>3 DEF Done
    <3>4. Laid(start)'
      BY <2>1, <2>2, <2>3, <3>1, <3>2, <3>3 DEF Laid
    <3> QED
      BY <2>1, <3>1, <3>4
  <2>9. (\E w \in 0 .. room : Holds(w))'
    <3>1. PICK w \in 0 .. room : Holds(w)
      BY DEF IInv
    <3>2. Holds(w)'
      BY <2>1, <2>2, <2>3, <3>1 DEF Holds
    <3> QED
      BY <2>2, <3>2
  <2> QED
    BY <2>4, <2>5, <2>6, <2>7, <2>8, <2>9 DEF IInv
<1> QED
  BY <1>1, <1>2, <1>3, <1>4, <1>5, <1>6, <1>7, <1>8, <1>9 DEF Next

-----------------------------------------------------------------------------
(* What follows for every behaviour *)

(* The frames of write are laid out as the encoding is, a window ends where *)
(* its owner's encoding must end, and the output holds the encoding up to   *)
(* the cursor: an inductive invariant.                                      *)
THEOREM Invariant == ASSUME NeverWraps PROVE Spec => []IInv
<1>1. Init => IInv
  BY InitInvariant
<1>2. IInv /\ [Next]_vars => IInv'
  BY StepInvariant
<1> QED
  BY <1>1, <1>2, PTL DEF Spec

(* Every variable has its type; a window's edge is inside the output, also  *)
(* where no room is checked any more.                                       *)
THEOREM TypeCorrect == ASSUME NeverWraps PROVE Spec => []TypeOK
<1>1. IInv => TypeOK
  BY DEF IInv
<1> QED
  BY <1>1, Invariant, PTL

(* The unchecked writes of a trusted window never reach past its edge,      *)
(* whatever an iterator says of its length (the SAFETY comments at          *)
(* as_trusted_for in schema/mod.rs and in the derives).                     *)
THEOREM WritesStayInside == ASSUME NeverWraps PROVE Spec => []StaysInside
<1>1. IInv => StaysInside
  <2> SUFFICES ASSUME IInv PROVE win.at <= win.edge
    BY DEF StaysInside
  <2>1. CASE ~InWindow
    BY <2>1 DEF InWindow, NoWindow
  <2>2. CASE InWindow
    <3>1. PICK start \in [1 .. Len(stack) -> Nat] : Laid(start)
      BY DEF IInv
    <3>2. stack \in Seq(Frames) /\ SaysOK /\ win.owner \in 1 .. Len(stack)
          /\ win.at \in Nat /\ win.edge \in 0 .. room /\ room \in 0 .. MaxRoom
      BY <2>2 DEF IInv, TypeOK, WindowInv, Frames, SaysOK
    <3> DEFINE L == Len(stack)
               n == Top.node
    <3>3. L \in Nat /\ stack # <<>> /\ L \in win.owner .. L /\ L \in 1 .. L
      BY <3>2
    <3>4. Top = stack[L] /\ n \in Node /\ Top.next \in Nat /\ start[L] \in Nat
      BY <3>1, <3>2, <3>3, StackTypes
    <3>5. Cursor = start[L] + Done(Top) /\ start[L] + Len(Full[n]) <= win.edge
      BY <2>2, <3>1, <3>3, <3>4 DEF Laid
    <3>6. Done(Top) \in Nat /\ Done(Top) <= Len(Full[n]) /\ Len(Full[n]) \in Nat
      <4>1. Top.next <= Count[n] + 2
        BY <3>3, <3>4 DEF IInv, StackInv
      <4>2. Count[n] \in Nat /\ Len(Full[n]) \in Nat
            /\ \A k \in 0 .. Count[n] : Off[<<n, k>>] \in Nat /\ Off[<<n, k>>] <= Len(Full[n])
        BY <3>2, <3>4, Facts
      <4>3. CASE Top.next <= 1
        BY <4>2, <4>3 DEF Done
      <4>4. CASE ~(Top.next <= 1)
        <5>1. Top.next - 2 \in 0 .. Count[n]
          BY <3>4, <4>1, <4>2, <4>4
        <5> QED
          BY <4>2, <4>4, <5>1 DEF Done
      <4> QED
        BY <4>3, <4>4
    <3> DEFINE a == start[L]
               d == Done(Top)
               e == Len(Full[n])
               edge == win.edge
    <3>7. a \in Nat /\ d \in Nat /\ e \in Nat /\ edge \in Nat /\ d <= e /\ a + e <= edge
          /\ win.at = a + d
      <4>1. edge \in Nat
        BY <3>2, EncodeAssumption
      <4> QED
        BY <2>2, <3>4, <3>5, <3>6, <4>1 DEF Cursor
    <3> HIDE DEF a, d, e, edge
    <3>8. win.at <= edge
      BY <3>7
    <3> QED
      BY <3>8 DEF edge
  <2> QED
    BY <2>1, <2>2
<1> QED
  BY <1>1, Invariant, PTL

(* What the output holds is the encoding up to the cursor. *)
LEMMA OutputHolds ==
  ASSUME IInv, NEW w \in 0 .. room, Holds(w)
  PROVE  /\ {i \in DOMAIN out : out[i] # Blank} = 1 .. w
         /\ Sent = [i \in 1 .. w |-> Full[root][i]]
         /\ w \in Nat /\ w <= Len(Full[root])
         /\ Full[root] \in Seq(Bytes) /\ Len(Full[root]) \in Nat /\ Full[root] = Encoding(root)
<1>1. SaysOK /\ room \in Nat /\ root \in Node /\ DOMAIN out = 1 .. room
  BY EncodeAssumption DEF IInv, TypeOK, SaysOK
<1>2. /\ Full[root] \in Seq(Bytes) /\ Len(Full[root]) \in Nat /\ Full[root] = Encoding(root)
  BY <1>1, Facts DEF Full
<1>3. w \in Nat /\ w <= Len(Full[root])
  BY <1>1 DEF Holds
<1>4. \A i \in 1 .. w : i \in 1 .. room /\ i <= w
  BY <1>1, <1>3
<1>5. {i \in DOMAIN out : out[i] # Blank} = 1 .. w
  <2>1. ASSUME NEW i \in 1 .. room
        PROVE  out[i] # Blank <=> i \in 1 .. w
    BY <1>1, <1>3 DEF Holds
  <2> QED
    BY <1>1, <1>4, <2>1
<1>6. Cardinality(1 .. w) = w
  <2>1. 1 \in Int /\ w \in Int /\ w - 1 + 1 = w /\ (1 > w => w = 0)
    BY <1>3
  <2> QED
    BY <2>1, FS_Interval
<1>7. Sent = [i \in 1 .. w |-> out[i]]
  BY <1>5, <1>6 DEF Sent
<1>8. \A i \in 1 .. w : out[i] = Full[root][i]
  BY <1>4 DEF Holds
<1> QED
  BY <1>2, <1>3, <1>5, <1>7, <1>8

(* A writer that is used directly has no byte left out below its position:  *)
(* a window that ends without an error was filled.  `serialize` exposes     *)
(* exactly these bytes with set_len.                                        *)
THEOREM NothingLeftOut == ASSUME NeverWraps PROVE Spec => []NoHoles
<1>1. IInv => NoHoles
  <2> SUFFICES ASSUME IInv, ~InWindow, mode # "failed", NEW i \in 1 .. pos
               PROVE  out[i] # Blank
    BY DEF NoHoles
  <2>1. PICK w \in 0 .. room : Holds(w)
    BY DEF IInv
  <2>2. w = pos /\ pos \in 0 .. room /\ room \in Nat
    BY <2>1, EncodeAssumption DEF Holds, Cursor, IInv, TypeOK
  <2>3. i \in 1 .. room /\ i <= w
    BY <2>2
  <2> QED
    BY <2>1, <2>3 DEF Holds
<1> QED
  BY <1>1, Invariant, PTL

(* When the writer is finished the output is the whole encoding. *)
LEMMA Complete ==
  ASSUME IInv, stack = <<>>, mode # "failed"
  PROVE  Sent = Encoding(root)
<1>1. PICK w \in 0 .. room : Holds(w)
  BY DEF IInv
<1>2. /\ Sent = [i \in 1 .. w |-> Full[root][i]]
      /\ Full[root] \in Seq(Bytes) /\ Full[root] = Encoding(root)
  BY <1>1, OutputHolds
<1>3. w = Len(Full[root])
  BY <1>1 DEF Holds, IInv, EndInv
<1>4. Full[root] = [i \in 1 .. Len(Full[root]) |-> Full[root][i]]
  BY <1>2
<1> QED
  BY <1>2, <1>3, <1>4

(* The writer is finished behind the last byte and no earlier: the finish   *)
(* of a trusted window does not reach its parent.                           *)
THEOREM FinishIsLast == ASSUME NeverWraps PROVE Spec => []FinishedLast
<1>1. IInv => FinishedLast
  <2> SUFFICES ASSUME IInv, closed
               PROVE  stack = <<>> /\ Sent = Encoding(root)
    BY DEF FinishedLast
  <2>1. stack = <<>> /\ mode # "failed"
    BY DEF IInv, EndInv
  <2> QED
    BY <2>1, Complete
<1> QED
  BY <1>1, Invariant, PTL

-----------------------------------------------------------------------------
(* The refinement of SerialOutput *)

(* No step takes a byte back. *)
LEMMA OutputGrows ==
  ASSUME IInv, [Next]_vars, NEW i \in DOMAIN out, out[i] # Blank
  PROVE  DOMAIN out' = DOMAIN out /\ out'[i] # Blank
<1>1. ASSUME NEW from, NEW n, out' = Put(from, n)
      PROVE  DOMAIN out' = DOMAIN out /\ out'[i] # Blank
  BY <1>1 DEF Put, Blank
<1>2. ASSUME out' = out
      PROVE  DOMAIN out' = DOMAIN out /\ out'[i] # Blank
  BY <1>2
<1>3. CASE WriteUnchecked
  BY <1>1, <1>3 DEF WriteUnchecked
<1>4. CASE WriteChecked
  BY <1>1, <1>4 DEF WriteChecked
<1>5. CASE RefuseWrite
  BY <1>1, <1>2, <1>5 DEF RefuseWrite
<1>6. CASE UNCHANGED vars
  BY <1>2, <1>6 DEF vars
<1>7. CASE \/ Enter \/ OpenWindow \/ RefuseWindow \/ FailWrite
           \/ WriteKid \/ ShortIter \/ Return \/ Finish
  BY <1>2, <1>7 DEF Enter, OpenWindow, RefuseWindow, FailWrite, WriteKid, ShortIter, Return, Finish
<1> QED
  BY <1>3, <1>4, <1>5, <1>6, <1>7 DEF Next

LEMMA PrefixOf ==
  ASSUME NEW full \in Seq(Bytes), NEW v \in Nat, NEW w \in Nat, v <= w, w <= Len(full)
  PROVE  /\ Output!IsPrefix([i \in 1 .. v |-> full[i]], [i \in 1 .. w |-> full[i]])
         /\ Output!IsPrefix([i \in 1 .. w |-> full[i]], full)
<1>1. \A k \in 0 .. Len(full) :
        /\ [i \in 1 .. k |-> full[i]] \in Seq(Bytes)
        /\ Len([i \in 1 .. k |-> full[i]]) = k
  OBVIOUS
<1> QED
  BY <1>1 DEF Output!IsPrefix

(* What the caller of serialize_into can see of the invariant *)
Visible ==
  /\ \E w \in Nat :
       /\ {i \in DOMAIN out : out[i] # Blank} = 1 .. w
       /\ Sent = [i \in 1 .. w |-> Full[root][i]]
       /\ w <= Len(Full[root])
  /\ Full[root] \in Seq(Bytes) /\ Full[root] = Encoding(root)
  /\ stack = <<>> /\ mode # "failed" => Sent = Encoding(root)
  /\ mode # "run" => mode \in {"ok", "failed"}

LEMMA InvariantVisible == IInv => Visible
<1> SUFFICES ASSUME IInv PROVE Visible
  OBVIOUS
<1>1. PICK w \in 0 .. room : Holds(w)
  BY DEF IInv
<1>2. /\ {i \in DOMAIN out : out[i] # Blank} = 1 .. w
      /\ Sent = [i \in 1 .. w |-> Full[root][i]]
      /\ w \in Nat /\ w <= Len(Full[root])
      /\ Full[root] \in Seq(Bytes) /\ Full[root] = Encoding(root)
  BY <1>1, OutputHolds
<1>3. stack = <<>> /\ mode # "failed" => Sent = Encoding(root)
  BY Complete
<1>4. mode # "run" => mode \in {"ok", "failed"}
  BY DEF IInv, TypeOK
<1> QED
  BY <1>2, <1>3, <1>4 DEF Visible

LEMMA StepRefines ==
  ASSUME IInv, Visible, Visible', [Next]_vars
  PROVE  [Output!Next]_(Output!vars)
<1>1. CASE UNCHANGED vars
  <2>1. Sent' = Sent /\ mode' = mode
    BY <1>1 DEF vars, Sent
  <2>2. Encoding(root)' = Encoding(root)
    BY <1>1 DEF vars, Encoding, EncodedUpTo, Written, Loops
  <2> QED
    BY <2>1, <2>2 DEF Output!vars
<1>2. CASE Next
  <2>1. UNCHANGED inputs /\ mode = "run"
    BY <1>2
    DEF Next, Enter, OpenWindow, RefuseWindow, WriteUnchecked, WriteChecked, RefuseWrite,
        FailWrite, WriteKid, ShortIter, Return, Finish, At
  <2>2. Full' = Full /\ root' = root
    BY <2>1, InputsKept
  <2>3. PICK v \in Nat :
          /\ {i \in DOMAIN out : out[i] # Blank} = 1 .. v
          /\ Sent = [i \in 1 .. v |-> Full[root][i]]
          /\ v <= Len(Full[root])
    BY DEF Visible
  <2>4. PICK w \in Nat :
          /\ {i \in DOMAIN out' : out'[i] # Blank} = 1 .. w
          /\ Sent' = [i \in 1 .. w |-> Full[root][i]]
          /\ w <= Len(Full[root])
    BY <2>2 DEF Visible
  <2>5. Full[root] \in Seq(Bytes) /\ Full[root] = Encoding(root)
        /\ Encoding(root)' = Encoding(root)
    BY <2>2 DEF Visible
  <2>6. v <= w
    <3>1. \A i \in 1 .. v : i \in 1 .. w
      <4> SUFFICES ASSUME NEW i \in 1 .. v PROVE i \in 1 .. w
        OBVIOUS
      <4>1. i \in DOMAIN out /\ out[i] # Blank
        BY <2>3
      <4>2. i \in DOMAIN out' /\ out'[i] # Blank
        BY <4>1, OutputGrows
      <4> QED
        BY <2>4, <4>2
    <3>2. v # 0 => v \in 1 .. v
      OBVIOUS
    <3> QED
      BY <3>1, <3>2
  <2>7. Output!IsPrefix(Sent, Sent') /\ Output!IsPrefix(Sent', Encoding(root))
    BY <2>3, <2>4, <2>5, <2>6, PrefixOf
  <2>8. CASE mode' = "run"
    BY <2>1, <2>5, <2>7, <2>8 DEF Output!Next, Output!Send
  <2>9. CASE mode' = "failed"
    BY <2>1, <2>5, <2>7, <2>9 DEF Output!Next, Output!Fail
  <2>10. CASE mode' = "ok"
    <3>1. stack = <<>> /\ out' = out
      BY <1>2, <2>1, <2>10
      DEF Next, Enter, OpenWindow, RefuseWindow, WriteUnchecked, WriteChecked, RefuseWrite,
          FailWrite, WriteKid, ShortIter, Return, Finish
    <3>2. Sent' = Sent /\ Sent = Encoding(root)
      BY <2>1, <3>1 DEF Sent, Visible
    <3> QED
      BY <2>1, <2>5, <2>10, <3>2 DEF Output!Next, Output!Finish
  <2>11. mode' \in {"run", "ok", "failed"}
    BY DEF Visible
  <2> QED
    BY <2>8, <2>9, <2>10, <2>11
<1> QED
  BY <1>1, <1>2

(* The output only grows, is at every step a prefix of the encoding, also   *)
(* when the call fails, and is all of it when serialize_into returns Ok.    *)
THEOREM OutputIsAPrefix == ASSUME NeverWraps PROVE Spec => ImplementsOutput
<1>1. Init => Output!Init
  <2> SUFFICES ASSUME Init PROVE Sent = <<>> /\ mode = "run"
    BY DEF Output!Init
  <2>1. IInv /\ mode = "run" /\ room \in Nat /\ \A i \in DOMAIN out : out[i] = Blank
    <3>1. IInv
      BY InitInvariant
    <3>2. mode = "run" /\ room \in 0 .. MaxRoom /\ out = [i \in 1 .. room |-> Blank]
      BY DEF Init
    <3>3. room \in Nat /\ \A i \in DOMAIN out : out[i] = Blank
      BY <3>2, EncodeAssumption
    <3> QED
      BY <3>1, <3>2, <3>3
  <2>2. PICK w \in 0 .. room : Holds(w)
    BY <2>1 DEF IInv
  <2>3. {i \in DOMAIN out : out[i] # Blank} = 1 .. w /\ w \in Nat
        /\ Sent = [i \in 1 .. w |-> Full[root][i]]
    BY <2>1, <2>2, OutputHolds
  <2>4. w = 0
    <3>1. 1 .. w = {}
      BY <2>1, <2>3
    <3> QED
      BY <2>3, <3>1
  <2>5. Sent = <<>>
    BY <2>3, <2>4
  <2> QED
    BY <2>1, <2>5
<1>2. IInv /\ Visible /\ Visible' /\ [Next]_vars => [Output!Next]_(Output!vars)
  BY StepRefines
<1>3. IInv => Visible
  BY InvariantVisible
<1> QED
  BY Invariant, <1>1, <1>2, <1>3, PTL DEF Spec, ImplementsOutput, Output!Spec
=============================================================================

------------------------ MODULE InPlaceDecodeProofs -------------------------
(***************************************************************************)
(* Proofs about InPlaceDecode, for every forest of places: types of every  *)
(* shape and depth, and a failure, a panic or a duplicate at every point.  *)
(***************************************************************************)
EXTENDS InPlaceDecode, Integers, TLAPS, WellFoundedInduction, FiniteSetTheorems

(* First, the trees of places: what Under contains, that siblings share    *)
(* nothing, and how the path from the root to a place changes when the     *)
(* place moves to a child or to its parent.                                *)

(* A set of numbers that has a member has a least one. *)
LEMMA LeastNumber ==
  ASSUME NEW T, T \subseteq Nat, T # {}
  PROVE  \E x \in T : \A y \in T : x <= y
<1> DEFINE R == {ss \in Nat \X Nat : ss[1] < ss[2]}
<1>1. OpToRel(<, Nat) = R
  BY DEF OpToRel
<1>2. IsWellFoundedOn(R, Nat)
  BY NatLessThanWellFounded, <1>1
<1> HIDE DEF R
<1>3. PICK x \in T : \A y \in T : <<y, x>> \notin R
  BY <1>2, WFMin, Zenon
<1>4. ASSUME NEW y \in T
      PROVE  x <= y
  <2>1. x \in Nat /\ y \in Nat /\ <<y, x>> \in Nat \X Nat
    OBVIOUS
  <2>2. y < x => <<y, x>> \in R
    BY <2>1 DEF R
  <2>3. QED
    BY <1>3, <2>1, <2>2
<1>5. QED
  BY <1>4

LEMMA KidFacts ==
  /\ \A n \in Node : KidSet(n) \subseteq Node
  /\ \A n \in Node : \A k \in KidSet(n) : Height[k] < Height[n] /\ Height[k] \in Nat
  /\ \A p, q, k \in Node : k \in KidSet(p) /\ k \in KidSet(q) => p = q
<1>1. \A n \in Node : KidSet(n) \subseteq Node
  BY ForestAssumption DEF KidSet
<1>2. QED
  BY <1>1, ForestAssumption

(* What holds of a place as soon as it holds of its children holds of all. *)
LEMMA FromTheLeaves ==
  ASSUME NEW S, \A n \in Node : KidSet(n) \subseteq S => n \in S
  PROVE  Node \subseteq S
<1> SUFFICES ASSUME Node \ S # {}
             PROVE  FALSE
  OBVIOUS
<1> DEFINE T == {Height[n] : n \in Node \ S}
<1>1. T \subseteq Nat /\ T # {}
  BY ForestAssumption
<1>2. PICK n \in Node \ S : \A m \in Node \ S : Height[n] <= Height[m]
  <2> HIDE DEF T
  <2>1. PICK x \in T : \A y \in T : x <= y
    BY <1>1, LeastNumber
  <2>2. QED
    BY <2>1 DEF T
<1>3. \A k \in KidSet(n) : k \in Node /\ Height[k] < Height[n] /\ Height[n] \in Nat /\ Height[k] \in Nat
  BY KidFacts, ForestAssumption
<1>4. KidSet(n) \subseteq S
  BY <1>2, <1>3
<1>5. QED
  BY <1>4

-----------------------------------------------------------------------------
(* Under is well defined: the members of every set that contains n and,    *)
(* with a place, its children, are a solution of the equation it is.       *)

Closed(S) == \A p \in S : KidSet(p) \subseteq S

Reach == [n \in Node |-> {m \in Node : \A S \in SUBSET Node : n \in S /\ Closed(S) => m \in S}]

LEMMA ReachIsClosed ==
  ASSUME NEW n \in Node
  PROVE  n \in Reach[n] /\ Reach[n] \subseteq Node /\ Closed(Reach[n])
<1>1. Reach[n] = {m \in Node : \A S \in SUBSET Node : n \in S /\ Closed(S) => m \in S}
  BY DEF Reach
<1>2. ASSUME NEW p \in Reach[n], NEW k \in KidSet(p)
      PROVE  k \in Reach[n]
  <2>1. p \in Node /\ k \in Node
    BY <1>1, KidFacts
  <2>2. ASSUME NEW S \in SUBSET Node, n \in S, Closed(S)
        PROVE  k \in S
    BY <1>1, <2>2 DEF Closed
  <2>3. QED
    BY <1>1, <2>1, <2>2
<1>3. QED
  BY <1>1, <1>2 DEF Closed

LEMMA ReachIsLeast ==
  ASSUME NEW n \in Node, NEW S \in SUBSET Node, n \in S, Closed(S)
  PROVE  Reach[n] \subseteq S
BY DEF Reach

LEMMA ReachSolves ==
  ASSUME NEW n \in Node
  PROVE  Reach[n] = {n} \cup UNION {Reach[k] : k \in KidSet(n)}
<1> DEFINE S == {n} \cup UNION {Reach[k] : k \in KidSet(n)}
<1>1. \A k \in KidSet(n) : k \in Node /\ k \in Reach[k] /\ Reach[k] \subseteq Node /\ Closed(Reach[k])
  BY KidFacts, ReachIsClosed
<1>2. S \subseteq Node /\ n \in S
  BY <1>1
<1>3. Closed(S)
  <2> SUFFICES ASSUME NEW p \in S
               PROVE  KidSet(p) \subseteq S
    BY DEF Closed
  <2>1. CASE p = n
    BY <1>1, <2>1
  <2>2. CASE \E k \in KidSet(n) : p \in Reach[k]
    BY <1>1, <2>2 DEF Closed
  <2>3. QED
    BY <2>1, <2>2
<1>4. Reach[n] \subseteq S
  <2> HIDE DEF S
  <2>1. QED
    BY <1>2, <1>3, ReachIsLeast
<1>5. \A k \in KidSet(n) : Reach[k] \subseteq Reach[n]
  BY <1>1, ReachIsClosed, ReachIsLeast DEF Closed
<1>6. S \subseteq Reach[n]
  BY <1>5, ReachIsClosed
<1>7. QED
  BY <1>4, <1>6

LEMMA UnderEquation ==
  ASSUME NEW n \in Node
  PROVE  Under[n] = {n} \cup UNION {Under[k] : k \in KidSet(n)}
<1> DEFINE Solution(f) == f = [m \in Node |-> {m} \cup UNION {f[k] : k \in KidSet(m)}]
           F == CHOOSE f : Solution(f)
<1>1. Solution(Reach)
  <2>1. \A m \in Node : Reach[m] = {m} \cup UNION {Reach[k] : k \in KidSet(m)}
    BY ReachSolves
  <2>2. Reach = [m \in Node |-> Reach[m]]
    BY DEF Reach
  <2>3. QED
    BY <2>1, <2>2, Zenon
<1>2. Solution(F)
  <2> HIDE DEF Solution
  <2>1. QED
    BY <1>1
<1>3. Under = F
  BY DEF Under
<1> HIDE DEF F
<1>4. Solution(Under)
  <2> HIDE DEF Solution
  <2>1. QED
    BY <1>2, <1>3
<1>5. QED
  BY <1>4, Zenon

-----------------------------------------------------------------------------
(* What Under contains. *)

LEMMA UnderSelf ==
  ASSUME NEW n \in Node
  PROVE  /\ n \in Under[n]
         /\ \A k \in KidSet(n) : k \in Node /\ Under[k] \subseteq Under[n]
         /\ \A x \in Under[n] : x = n \/ \E k \in KidSet(n) : x \in Under[k]
         /\ n \in Leaf => Under[n] = {n}
<1>1. n \in Leaf => KidSet(n) = {}
  BY ForestAssumption DEF Leaf, KidSet
<1>2. QED
  BY <1>1, UnderEquation, KidFacts

LEMMA UnderInNode ==
  ASSUME NEW n \in Node
  PROVE  Under[n] \subseteq Node
<1> DEFINE S == {m \in Node : Under[m] \subseteq Node}
<1>1. ASSUME NEW m \in Node, KidSet(m) \subseteq S
      PROVE  m \in S
  BY <1>1, UnderSelf
<1> HIDE DEF S
<1>2. Node \subseteq S
  BY <1>1, FromTheLeaves
<1>3. QED
  BY <1>2 DEF S

LEMMA UnderTransitive ==
  ASSUME NEW n \in Node, NEW m \in Under[n]
  PROVE  Under[m] \subseteq Under[n]
<1> DEFINE S == {a \in Node : \A b \in Under[a] : Under[b] \subseteq Under[a]}
<1>1. ASSUME NEW a \in Node, KidSet(a) \subseteq S
      PROVE  a \in S
  BY <1>1, UnderSelf
<1> HIDE DEF S
<1>2. Node \subseteq S
  BY <1>1, FromTheLeaves
<1>3. QED
  BY <1>2 DEF S

LEMMA UnderIsLower ==
  ASSUME NEW n \in Node, NEW m \in Under[n], m # n
  PROVE  Height[m] < Height[n] /\ n \notin Under[m]
<1> DEFINE S == {a \in Node : \A b \in Under[a] : b # a => Height[b] < Height[a]}
<1>1. ASSUME NEW a \in Node, KidSet(a) \subseteq S
      PROVE  a \in S
  <2> SUFFICES ASSUME NEW b \in Under[a], b # a
               PROVE  Height[b] < Height[a]
    OBVIOUS
  <2>1. PICK k \in KidSet(a) : b \in Under[k]
    BY UnderSelf
  <2>2. /\ k \in Node /\ b \in Node /\ Height[k] < Height[a]
        /\ b # k => Height[b] < Height[k]
    BY <1>1, <2>1, KidFacts, UnderInNode
  <2>3. Height[a] \in Nat /\ Height[b] \in Nat /\ Height[k] \in Nat
    BY <2>2, ForestAssumption
  <2>4. QED
    BY <2>2, <2>3
<1> HIDE DEF S
<1>2. Node \subseteq S
  BY <1>1, FromTheLeaves
<1>3. \A a, b \in Node : b \in Under[a] /\ b # a => Height[b] < Height[a]
  BY <1>2 DEF S
<1>4. m \in Node /\ Height[m] \in Nat /\ Height[n] \in Nat
  BY UnderInNode, ForestAssumption
<1>5. QED
  BY <1>3, <1>4

(* The way to a place leads through its parent ... *)
LEMMA ThroughParent ==
  ASSUME NEW n \in Node, NEW a \in Node, NEW x \in KidSet(a), x \in Under[n], x # n
  PROVE  a \in Under[n]
<1> DEFINE S == {m \in Node : x \in Under[m] /\ x # m => a \in Under[m]}
<1>1. ASSUME NEW m \in Node, KidSet(m) \subseteq S
      PROVE  m \in S
  <2> SUFFICES ASSUME x \in Under[m], x # m
               PROVE  a \in Under[m]
    OBVIOUS
  <2>1. PICK k \in KidSet(m) : x \in Under[k]
    BY UnderSelf
  <2>2. CASE x = k
    BY <2>1, <2>2, KidFacts, UnderSelf
  <2>3. CASE x # k
    BY <1>1, <2>1, <2>3, UnderSelf
  <2>4. QED
    BY <2>2, <2>3
<1> HIDE DEF S
<1>2. Node \subseteq S
  BY <1>1, FromTheLeaves
<1>3. QED
  BY <1>2 DEF S

(* ... which is there for every place but the first. *)
LEMMA ParentUnder ==
  ASSUME NEW n \in Node, NEW x \in Under[n], x # n
  PROVE  Parent(x) \in Under[n] /\ x \in KidSet(Parent(x))
<1> DEFINE S == {m \in Node : x \in Under[m] /\ x # m => \E p \in Under[m] : x \in KidSet(p)}
<1>1. ASSUME NEW m \in Node, KidSet(m) \subseteq S
      PROVE  m \in S
  <2> SUFFICES ASSUME x \in Under[m], x # m
               PROVE  \E p \in Under[m] : x \in KidSet(p)
    OBVIOUS
  <2>1. PICK k \in KidSet(m) : x \in Under[k]
    BY UnderSelf
  <2>2. CASE x = k
    BY <2>1, <2>2, UnderSelf
  <2>3. CASE x # k
    BY <1>1, <2>1, <2>3, UnderSelf
  <2>4. QED
    BY <2>2, <2>3
<1> HIDE DEF S
<1>2. Node \subseteq S
  BY <1>1, FromTheLeaves
<1>3. PICK p \in Under[n] : x \in KidSet(p)
  BY <1>2 DEF S
<1>4. Parent(x) \in Node /\ x \in KidSet(Parent(x))
  BY <1>3, UnderInNode DEF Parent
<1>5. Parent(x) = p
  BY <1>3, <1>4, KidFacts, UnderInNode
<1>6. QED
  BY <1>3, <1>4, <1>5

LEMMA ParentOfKid ==
  ASSUME NEW p \in Node, NEW k \in KidSet(p)
  PROVE  Parent(k) = p
<1>1. Parent(k) \in Node /\ k \in KidSet(Parent(k))
  BY DEF Parent
<1>2. QED
  BY <1>1, KidFacts

LEMMA KidByIndex ==
  ASSUME NEW p \in Node
  PROVE  /\ Len(Kids[p]) \in Nat
         /\ \A i \in 1 .. Len(Kids[p]) : Kids[p][i] \in KidSet(p)
         /\ \A i, j \in 1 .. Len(Kids[p]) : Kids[p][i] = Kids[p][j] => i = j
         /\ \A k \in KidSet(p) : IndexIn(p, k) \in 1 .. Len(Kids[p]) /\ Kids[p][IndexIn(p, k)] = k
<1>1. Kids[p] \in Seq(Node) /\ DOMAIN Kids[p] = 1 .. Len(Kids[p]) /\ Len(Kids[p]) \in Nat
  BY ForestAssumption
<1>2. \A k \in KidSet(p) : \E i \in DOMAIN Kids[p] : Kids[p][i] = k
  BY DEF KidSet
<1>3. QED
  BY <1>1, <1>2, ForestAssumption DEF KidSet, IndexIn

(* Two places that have something in common lie one within the other. *)
LEMMA Nested ==
  ASSUME NEW a \in Node, NEW b \in Node, NEW x \in Under[a], x \in Under[b]
  PROVE  a \in Under[b] \/ b \in Under[a]
<1> DEFINE S == {m \in Node : x \in Under[m] => m \in Under[b] \/ b \in Under[m]}
<1>1. ASSUME NEW m \in Node, KidSet(m) \subseteq S
      PROVE  m \in S
  <2> SUFFICES ASSUME x \in Under[m], x # m
               PROVE  m \in Under[b] \/ b \in Under[m]
    OBVIOUS
  <2>1. PICK k \in KidSet(m) : x \in Under[k]
    BY UnderSelf
  <2>2. k \in Under[b] \/ b \in Under[k]
    BY <1>1, <2>1
  <2>3. CASE k \in Under[b] /\ k # b
    BY <2>1, <2>3, ThroughParent
  <2>4. CASE b \in Under[k] \/ k = b
    BY <2>1, <2>4, UnderSelf
  <2>5. QED
    BY <2>2, <2>3, <2>4
<1> HIDE DEF S
<1>2. Node \subseteq S
  BY <1>1, FromTheLeaves
<1>3. QED
  BY <1>2 DEF S

(* Siblings have nothing in common. *)
LEMMA SiblingsDisjoint ==
  ASSUME NEW p \in Node, NEW j \in KidSet(p), NEW k \in KidSet(p), j # k
  PROVE  Under[j] \cap Under[k] = {}
<1> SUFFICES ASSUME NEW x \in Under[j], x \in Under[k]
             PROVE  FALSE
  OBVIOUS
<1>1. j \in Node /\ k \in Node
  BY KidFacts
<1>2. CASE j \in Under[k]
  <2>1. p \in Under[k]
    BY <1>1, <1>2, ThroughParent
  <2>2. k \in Under[p] /\ k # p
    BY <1>1, UnderSelf, KidFacts, ForestAssumption
  <2>3. QED
    BY <1>1, <2>1, <2>2, UnderIsLower
<1>3. CASE k \in Under[j]
  <2>1. p \in Under[j]
    BY <1>1, <1>3, ThroughParent
  <2>2. j \in Under[p] /\ j # p
    BY <1>1, UnderSelf, KidFacts, ForestAssumption
  <2>3. QED
    BY <1>1, <2>1, <2>2, UnderIsLower
<1>4. QED
  BY <1>1, <1>2, <1>3, Nested

-----------------------------------------------------------------------------
(* The path from r to c: the activations of read that c is nested in. *)
Path(r, c) == {n \in Under[r] : c \in Under[n]}

LEMMA PathDown ==
  ASSUME NEW r \in Node, NEW c \in Under[r], NEW k \in KidSet(c)
  PROVE  /\ k \in Under[r] /\ k \notin Path(r, c) /\ k # r
         /\ Path(r, k) = Path(r, c) \cup {k}
<1>1. c \in Node /\ k \in Node /\ k # c /\ k \in Under[c]
  BY UnderInNode, UnderSelf, KidFacts, ForestAssumption
<1>2. k \in Under[r]
  BY <1>1, UnderTransitive
<1>3. k \notin Path(r, c)
  BY <1>1, UnderIsLower DEF Path
<1>4. Path(r, c) \subseteq Path(r, k)
  BY <1>1, UnderTransitive, UnderInNode DEF Path
<1>5. Path(r, k) \subseteq Path(r, c) \cup {k}
  BY <1>1, ThroughParent, UnderInNode DEF Path
<1>6. r \in Path(r, c)
  BY UnderSelf DEF Path
<1>7. QED
  BY <1>1, <1>2, <1>3, <1>4, <1>5, <1>6, UnderSelf DEF Path

LEMMA PathUp ==
  ASSUME NEW r \in Node, NEW c \in Under[r], c # r
  PROVE  /\ Parent(c) \in Under[r] /\ c \in KidSet(Parent(c))
         /\ c \notin Path(r, Parent(c))
         /\ Path(r, c) = Path(r, Parent(c)) \cup {c}
BY ParentUnder, PathDown

LEMMA PathOfRoot ==
  ASSUME NEW r \in Node
  PROVE  Path(r, r) = {r}
BY UnderSelf, UnderIsLower, UnderInNode DEF Path

(* Next, the inductive invariant and the steps of the decoder. *)

(* The activations that have a guard on the stack ... *)
Open == {f \in Path(root, cur) : f # cur \/ mode = "loop"}

(* ... the children they have read ... *)
DoneKids(f) == {Kids[f][i] : i \in 1 .. at[f]}

(* ... and, of the values they stand for, the ones that are complete:      *)
(* those outside of the place at hand, and what there is of it.            *)
Outer == UNION {DoneKids(f) : f \in Path(root, cur) \ {cur}}

Inner ==
  IF mode = "loop" THEN DoneKids(cur)
  ELSE IF mode \in {"ret", "ok"} THEN {cur} ELSE {}

Complete == Outer \cup Inner

Owned == Owning \cup Heap

(* Every activation but the innermost is in the midst of a child, and that *)
(* child is the next one it has to count.                                  *)
OnTheWay(f) == at[f] < Len(Kids[f]) /\ cur \in Under[Kids[f][at[f] + 1]]

Shape ==
  /\ mode \in Outcomes => cur = root
  /\ mode = "loop" => cur \notin Leaf
  /\ \A f \in Path(root, cur) : f # cur => OnTheWay(f)

(* What is alive are the contents of the complete values, all of them. *)
Accounted ==
  /\ \A x \in Owned : x \in Live <=> x \in Content(Complete, displaced)
  /\ \A l \in Leaf : l \in Content(Complete, displaced) => slot[l] = "init"

(* An allocation without a value belongs to an open frame, and the other   *)
(* way round.                                                              *)
HeldByFrames == \A h \in Heap : heap[h] = "held" <=> h \in Open

(* A guard may overlook a child only if nothing in it has to be dropped,   *)
(* or if nothing can fail any more.                                        *)
Covering(f) ==
  at[f] < Len(Kids[f]) =>
    \A i \in 1 .. at[f] : i \notin kept[f] =>
      \A x \in Owned : x \notin Content({Kids[f][i]}, displaced)

(* Refused entries are parts of complete values, until those are unwound.  *)
DisplacedWithin ==
  \A d \in displaced :
    /\ d \in Refusable(root)
    /\ \/ \E k \in Complete : d \in Under[k]
       \/ mode \in {"err", "failed"} /\ d \in Under[cur]

IInv ==
  /\ TypeOK /\ Shape /\ Accounted /\ HeldByFrames /\ NoInvalidDrop
  /\ \A f \in Open : Covering(f)
  /\ DisplacedWithin

-----------------------------------------------------------------------------
LEMMA InContent ==
  ASSUME NEW P, NEW gone, NEW x
  PROVE  x \in Content(P, gone) <=>
           (\E n \in P : x \in Under[n]) /\ (\A d \in gone : x \notin Under[d])
<1>1. x \in UNION {Under[n] : n \in P} <=> \E n \in P : x \in Under[n]
  OBVIOUS
<1>2. x \in UNION {Under[n] : n \in gone} <=> \E n \in gone : x \in Under[n]
  OBVIOUS
<1>3. QED
  BY <1>1, <1>2 DEF Content

LEMMA PlaceFacts ==
  /\ Roots \subseteq Node /\ Leaf \subseteq Node /\ Heap \subseteq Node
  /\ Owning \subseteq Leaf /\ Leaf \cap Heap = {}
  /\ \A n \in Node : Kind[n] \in Kinds
BY ForestAssumption DEF Leaf, Heap

LEMMA CurFacts ==
  ASSUME TypeOK
  PROVE  /\ root \in Node /\ cur \in Node /\ cur \in Under[root]
         /\ cur \in Path(root, cur) /\ Path(root, cur) \subseteq Node
         /\ \A f \in Path(root, cur) : cur \in Under[f]
<1>1. root \in Node /\ cur \in Under[root]
  BY PlaceFacts DEF TypeOK
<1>2. cur \in Node
  BY <1>1, UnderInNode
<1>3. QED
  BY <1>1, <1>2, UnderInNode, UnderSelf DEF Path

(* What an activation has read has nothing in common with what it reads. *)
LEMMA Apart ==
  ASSUME NEW f \in Node, NEW a \in Nat, a < Len(Kids[f]),
         NEW c \in Under[Kids[f][a + 1]], NEW i \in 1 .. a
  PROVE  /\ Kids[f][i] \in Node /\ Kids[f][i] \in KidSet(f)
         /\ Under[Kids[f][i]] \cap Under[c] = {}
<1>1. Len(Kids[f]) \in Nat
  BY KidByIndex
<1>2. i \in 1 .. Len(Kids[f]) /\ a + 1 \in 1 .. Len(Kids[f]) /\ i # a + 1
  BY <1>1
<1>3. /\ Kids[f][i] \in KidSet(f) /\ Kids[f][a + 1] \in KidSet(f)
      /\ Kids[f][i] # Kids[f][a + 1]
  BY <1>2, KidByIndex
<1>4. Under[Kids[f][i]] \cap Under[Kids[f][a + 1]] = {}
  BY <1>3, SiblingsDisjoint
<1>5. Kids[f][i] \in Node /\ Kids[f][a + 1] \in Node
  BY <1>3, KidFacts
<1>6. Under[c] \subseteq Under[Kids[f][a + 1]]
  BY <1>5, UnderTransitive
<1>7. QED
  BY <1>3, <1>4, <1>5, <1>6

LEMMA OuterApart ==
  ASSUME TypeOK, Shape, NEW k \in Outer
  PROVE  k \in Node /\ Under[k] \cap Under[cur] = {}
<1>1. PICK f \in Path(root, cur) \ {cur} : \E i \in 1 .. at[f] : k = Kids[f][i]
  BY DEF Outer, DoneKids
<1>2. /\ f \in Node /\ at[f] \in Nat /\ at[f] < Len(Kids[f])
      /\ cur \in Under[Kids[f][at[f] + 1]]
  BY <1>1, CurFacts DEF TypeOK, Shape, OnTheWay
<1>3. PICK i \in 1 .. at[f] : k = Kids[f][i]
  BY <1>1
<1>4. /\ Kids[f][i] \in Node
      /\ Under[Kids[f][i]] \cap Under[cur] = {}
  BY <1>2, Apart
<1>5. QED
  BY <1>3, <1>4

LEMMA InnerWithin ==
  ASSUME TypeOK, NEW k \in Inner
  PROVE  /\ k \in Node /\ Under[k] \subseteq Under[cur]
         /\ mode = "loop" => k \in KidSet(cur) /\ cur \notin Under[k]
<1>1. CASE mode = "loop"
  <2>1. PICK i \in 1 .. at[cur] : k = Kids[cur][i]
    BY <1>1 DEF Inner, DoneKids
  <2>2. i \in 1 .. Len(Kids[cur])
    BY CurFacts, KidByIndex DEF TypeOK
  <2>3. k \in KidSet(cur) /\ k # cur
    BY <2>1, <2>2, CurFacts, KidByIndex, KidFacts, ForestAssumption
  <2>4. k \in Node /\ k \in Under[cur] /\ Under[k] \subseteq Under[cur]
    BY <2>3, CurFacts, UnderSelf
  <2>5. QED
    BY <2>3, <2>4, CurFacts, UnderIsLower
<1>2. CASE mode # "loop"
  BY <1>2, CurFacts DEF Inner
<1>3. QED
  BY <1>1, <1>2

(* Nothing that is still to be read, or being read, was refused. *)
LEMMA NotRefused ==
  ASSUME TypeOK, Shape, DisplacedWithin, mode \in {"call", "loop"}, NEW d \in displaced
  PROVE  cur \notin Under[d]
<1>1. PICK k \in Complete : d \in Under[k]
  BY DEF DisplacedWithin
<1>2. k \in Node /\ cur \notin Under[k]
  <2>1. CASE k \in Outer
    BY <2>1, OuterApart, CurFacts, UnderSelf
  <2>2. CASE k \in Inner
    <3>1. mode = "loop"
      BY <2>2 DEF Inner
    <3>2. QED
      BY <2>2, <3>1, InnerWithin
  <2>3. QED
    BY <1>1, <2>1, <2>2 DEF Complete
<1>3. Under[d] \subseteq Under[k]
  BY <1>1, <1>2, UnderTransitive
<1>4. QED
  BY <1>2, <1>3

(* Drop glue that runs over what is alive, and only over that. *)
LEMMA Dropping ==
  ASSUME TypeOK, NoInvalidDrop, NEW D, \A x \in Owned : x \in D => x \in Live
  PROVE  /\ DropSlots(slot, D) \in [Leaf -> {"uninit", "init", "dropped"}]
         /\ FreeHeap(heap, D) \in [Heap -> {"none", "held", "owned", "freed"}]
         /\ \A l \in Leaf : l \notin D => DropSlots(slot, D)[l] = slot[l]
         /\ \A l \in Owning : l \in D => DropSlots(slot, D)[l] = "dropped"
         /\ \A h \in Heap : h \notin D => FreeHeap(heap, D)[h] = heap[h]
         /\ \A h \in Heap : h \in D => FreeHeap(heap, D)[h] = "freed" /\ heap[h] = "owned"
<1>1. \A l \in Owning : l \in D => slot[l] = "init"
  BY PlaceFacts DEF Owned, Live
<1>2. \A h \in Heap : h \in D => heap[h] = "owned"
  BY PlaceFacts DEF Owned, Live
<1>3. /\ \A l \in Leaf : slot[l] \in {"uninit", "init", "dropped"}
      /\ \A h \in Heap : heap[h] \in {"none", "held", "owned", "freed"}
  BY DEF TypeOK, NoInvalidDrop
<1>4. QED
  BY <1>1, <1>2, <1>3, PlaceFacts DEF DropSlots, FreeHeap

-----------------------------------------------------------------------------
LEMMA InitInvariant == Init => IInv
<1> SUFFICES ASSUME Init
             PROVE  IInv
  OBVIOUS
<1>1. /\ root \in Node /\ root \in Under[root] /\ Path(root, root) = {root}
      /\ cur = root /\ mode = "call" /\ displaced = {}
  BY PlaceFacts, UnderSelf, PathOfRoot DEF Init
<1>2. TypeOK
  BY <1>1, KidByIndex, ForestAssumption DEF Init, TypeOK, Outcomes
<1>3. Open = {} /\ Outer = {} /\ Inner = {} /\ Complete = {}
  BY <1>1 DEF Open, Outer, Inner, Complete
<1>4. Shape
  BY <1>1 DEF Shape, Outcomes
<1>5. Accounted
  BY <1>3, InContent, PlaceFacts DEF Init, Accounted, Owned, Live
<1>6. HeldByFrames /\ NoInvalidDrop
  BY <1>3 DEF Init, HeldByFrames, NoInvalidDrop
<1>7. QED
  BY <1>1, <1>2, <1>3, <1>4, <1>5, <1>6 DEF IInv, DisplacedWithin

LEMMA LeafRead ==
  ASSUME IInv, ReadLeaf
  PROVE  IInv'
<1>1. /\ mode = "call" /\ cur \in Leaf /\ mode' = "ret"
      /\ slot' = [slot EXCEPT ![cur] = "init"]
      /\ UNCHANGED <<root, cur, at, kept, heap, displaced, attempt>>
  BY DEF ReadLeaf
<1>2. TypeOK /\ Shape /\ DisplacedWithin
  BY DEF IInv
<1>3. /\ Open' = Open /\ Outer' = Outer
      /\ Complete = Outer /\ Complete' = Outer \cup {cur}
  BY <1>1 DEF Open, Outer, DoneKids, Inner, Complete
<1>4. Under[cur] = {cur} /\ cur \in Node
  BY <1>1, <1>2, CurFacts, UnderSelf
<1>5. \A d \in displaced : cur \notin Under[d]
  BY <1>1, <1>2, NotRefused
<1>6. \A x : x \in Content(Complete', displaced) <=> x \in Content(Complete, displaced) \/ x = cur
  BY <1>3, <1>4, <1>5, InContent
<1>7. TypeOK'
  BY <1>1, <1>2 DEF TypeOK
<1>8. Shape'
  BY <1>1, <1>2 DEF Shape, OnTheWay, Outcomes
<1>9. Accounted'
  BY <1>1, <1>2, <1>6, PlaceFacts DEF IInv, TypeOK, Accounted, Owned, Live
<1>10. HeldByFrames' /\ NoInvalidDrop'
  BY <1>1, <1>2, <1>3 DEF IInv, TypeOK, HeldByFrames, NoInvalidDrop
<1>11. \A f \in Open' : Covering(f)'
  BY <1>1, <1>3 DEF IInv, Covering
<1>12. DisplacedWithin'
  BY <1>1, <1>2, <1>3 DEF DisplacedWithin
<1>13. QED
  BY <1>7, <1>8, <1>9, <1>10, <1>11, <1>12 DEF IInv

LEMMA ReadFailed ==
  ASSUME IInv, FailRead
  PROVE  IInv'
<1>1. /\ mode = "call" /\ mode' = "err"
      /\ UNCHANGED <<root, cur, at, kept, slot, heap, displaced, attempt>>
  BY DEF FailRead
<1>2. Open' = Open /\ Complete' = Complete
  BY <1>1 DEF Open, Outer, DoneKids, Inner, Complete
<1>3. TypeOK' /\ Shape' /\ HeldByFrames' /\ NoInvalidDrop'
  BY <1>1, <1>2 DEF IInv, TypeOK, Shape, OnTheWay, Outcomes, HeldByFrames, NoInvalidDrop
<1>4. Accounted'
  BY <1>1, <1>2 DEF IInv, Accounted, Live
<1>5. DisplacedWithin' /\ \A f \in Open' : Covering(f)'
  BY <1>1, <1>2 DEF IInv, DisplacedWithin, Covering
<1>6. QED
  BY <1>3, <1>4, <1>5 DEF IInv

LEMMA FrameOpened ==
  ASSUME IInv, OpenFrame
  PROVE  IInv'
<1>1. /\ mode = "call" /\ cur \notin Leaf /\ mode' = "loop"
      /\ heap' = IF cur \in Heap THEN [heap EXCEPT ![cur] = "held"] ELSE heap
      /\ at' = [at EXCEPT ![cur] = 0]
      /\ kept' = [kept EXCEPT ![cur] = {}]
      /\ UNCHANGED <<root, cur, slot, displaced, attempt>>
  BY DEF OpenFrame
<1>2. TypeOK /\ Shape
  BY DEF IInv
<1>3. /\ cur \in Node /\ at'[cur] = 0 /\ kept'[cur] = {}
      /\ \A f \in Node \ {cur} : at'[f] = at[f] /\ kept'[f] = kept[f]
  BY <1>1, <1>2, CurFacts DEF TypeOK
<1>4. Path(root, cur) \subseteq Node /\ cur \in Path(root, cur)
  BY <1>2, CurFacts
<1>5. Outer' = Outer
  BY <1>1, <1>3, <1>4 DEF Outer, DoneKids
<1>6. Inner = {} /\ Inner' = {}
  BY <1>1, <1>3 DEF Inner, DoneKids
<1>7. Complete' = Complete /\ Complete = Outer /\ Open' = Open \cup {cur} /\ cur \notin Open
  BY <1>1, <1>4, <1>5, <1>6 DEF Complete, Open
<1>8. cur \in Heap => cur \notin Live
  <2>1. cur \notin Content(Complete, displaced)
    BY <1>2, <1>3, <1>7, OuterApart, InContent, UnderSelf
  <2>2. QED
    BY <2>1 DEF IInv, Accounted, Owned
<1>9. /\ cur \in Heap => heap'[cur] = "held" /\ heap[cur] # "owned"
      /\ \A h \in Heap \ {cur} : heap'[h] = heap[h]
  BY <1>1, <1>2, <1>8 DEF TypeOK, Live
<1>10. TypeOK'
  BY <1>1, <1>2, <1>3, KidByIndex DEF TypeOK
<1>11. Shape'
  BY <1>1, <1>2, <1>3, <1>4 DEF Shape, OnTheWay, Outcomes
<1>12. Accounted'
  BY <1>1, <1>7, <1>9, PlaceFacts DEF IInv, Accounted, Owned, Live
<1>13. HeldByFrames' /\ NoInvalidDrop'
  BY <1>1, <1>7, <1>9 DEF IInv, HeldByFrames, NoInvalidDrop
<1>14. \A f \in Open' : Covering(f)'
  BY <1>1, <1>3, <1>4, <1>7 DEF IInv, Covering, Open
<1>15. DisplacedWithin'
  BY <1>1, <1>7 DEF IInv, DisplacedWithin
<1>16. QED
  BY <1>10, <1>11, <1>12, <1>13, <1>14, <1>15 DEF IInv

LEMMA KidEntered ==
  ASSUME IInv, ReadKid
  PROVE  IInv'
<1> DEFINE k == Kids[cur][at[cur] + 1]
<1>1. /\ mode = "loop" /\ at[cur] < Len(Kids[cur]) /\ mode' = "call" /\ cur' = k
      /\ UNCHANGED <<root, at, kept, slot, heap, displaced, attempt>>
  BY DEF ReadKid
<1>2. TypeOK /\ Shape
  BY DEF IInv
<1>3. root \in Node /\ cur \in Node /\ cur \in Under[root] /\ Path(root, cur) \subseteq Node
  BY <1>2, CurFacts
<1>4. k \in KidSet(cur) /\ k \in Node
  <2>1. at[cur] + 1 \in 1 .. Len(Kids[cur])
    BY <1>1, <1>2, <1>3, KidByIndex DEF TypeOK
  <2>2. QED
    BY <1>3, <2>1, KidByIndex, KidFacts
<1> HIDE DEF k
<1>5. /\ k \in Under[root] /\ k \notin Path(root, cur) /\ k # root
      /\ Path(root, k) = Path(root, cur) \cup {k} /\ k \in Under[k]
  BY <1>3, <1>4, PathDown, UnderSelf
<1>6. cur \in Path(root, cur)
  BY <1>2, CurFacts
<1>7. Open' = Path(root, cur) /\ Open = Path(root, cur)
  BY <1>1, <1>5 DEF Open
<1>8. Complete' = Complete
  <2>1. Outer' = UNION {DoneKids(f) : f \in Path(root, cur)}
    BY <1>1, <1>5 DEF Outer, DoneKids
  <2>2. Inner' = {} /\ Inner = DoneKids(cur)
    BY <1>1 DEF Inner
  <2>3. QED
    BY <1>6, <2>1, <2>2 DEF Complete, Outer
<1>9. TypeOK'
  BY <1>1, <1>2, <1>5 DEF TypeOK
<1>10. Shape'
  <2>1. at'[cur] < Len(Kids[cur]) /\ cur' \in Under[Kids[cur][at'[cur] + 1]]
    BY <1>1, <1>5 DEF k
  <2>2. ASSUME NEW f \in Path(root, cur), f # cur
        PROVE  OnTheWay(f)'
    <3>1. f \in Node /\ at[f] \in Nat /\ OnTheWay(f)
      BY <1>2, <1>3, <2>2 DEF Shape, TypeOK
    <3>2. Kids[f][at[f] + 1] \in Node
      BY <3>1, KidByIndex, KidFacts DEF OnTheWay
    <3>3. k \in Under[Kids[f][at[f] + 1]]
      BY <1>3, <1>4, <3>1, <3>2, UnderTransitive, UnderSelf DEF OnTheWay
    <3>4. QED
      BY <1>1, <3>1, <3>3 DEF OnTheWay
  <2>3. QED
    BY <1>1, <1>5, <2>1, <2>2 DEF Shape, OnTheWay, Outcomes
<1>11. Accounted' /\ HeldByFrames' /\ NoInvalidDrop'
  BY <1>1, <1>7, <1>8 DEF IInv, Accounted, Live, HeldByFrames, NoInvalidDrop
<1>12. DisplacedWithin' /\ \A f \in Open' : Covering(f)'
  BY <1>1, <1>7, <1>8 DEF IInv, DisplacedWithin, Covering
<1>13. QED
  BY <1>9, <1>10, <1>11, <1>12 DEF IInv

LEMMA FrameClosed ==
  ASSUME IInv, CloseFrame
  PROVE  IInv'
<1>1. /\ mode = "loop" /\ at[cur] = Len(Kids[cur]) /\ mode' = "ret"
      /\ heap' = IF cur \in Heap THEN [heap EXCEPT ![cur] = "owned"] ELSE heap
      /\ UNCHANGED <<root, cur, at, kept, slot, displaced, attempt>>
  BY DEF CloseFrame
<1>2. TypeOK /\ Shape /\ DisplacedWithin
  BY DEF IInv
<1>3. cur \in Node /\ cur \in Path(root, cur) /\ cur \notin Leaf
  BY <1>1, <1>2, CurFacts DEF Shape
<1>4. Outer' = Outer /\ Inner = DoneKids(cur) /\ Inner' = {cur} /\ Open' = Open \ {cur}
  BY <1>1 DEF Outer, DoneKids, Inner, Open
<1>5. DoneKids(cur) = KidSet(cur)
  <2>1. Kids[cur] \in Seq(Node)
    BY <1>3, ForestAssumption
  <2>2. DOMAIN Kids[cur] = 1 .. at[cur]
    BY <1>1, <2>1
  <2>3. QED
    BY <2>2 DEF DoneKids, KidSet
<1>6. \A d \in displaced : cur \notin Under[d]
  BY <1>1, <1>2, NotRefused
<1>7. \A x : x \in Content(Complete', displaced) <=> x \in Content(Complete, displaced) \/ x = cur
  <2>1. \A x : x \in Under[cur] <=> x = cur \/ \E k \in KidSet(cur) : x \in Under[k]
    BY <1>3, UnderSelf
  <2>2. QED
    BY <1>4, <1>5, <1>6, <2>1, InContent DEF Complete
<1>8. TypeOK' /\ Shape' /\ HeldByFrames' /\ NoInvalidDrop'
  BY <1>1, <1>2, <1>4 DEF IInv, TypeOK, Shape, OnTheWay, Outcomes, HeldByFrames, NoInvalidDrop
<1>9. Accounted'
  BY <1>1, <1>2, <1>3, <1>7, PlaceFacts DEF IInv, TypeOK, Accounted, Owned, Live
<1>10. \A f \in Open' : Covering(f)'
  BY <1>1, <1>4 DEF IInv, Covering
<1>11. DisplacedWithin'
  <2>1. \A d : (\E k \in Complete : d \in Under[k]) => \E k \in Complete' : d \in Under[k]
    BY <1>3, <1>4, <1>5, UnderSelf DEF Complete
  <2>2. QED
    BY <1>1, <1>2, <2>1 DEF DisplacedWithin
<1>12. QED
  BY <1>8, <1>9, <1>10, <1>11 DEF IInv

-----------------------------------------------------------------------------
(* The activation that a returning or failing one returns to. *)
LEMMA ParentFacts ==
  ASSUME TypeOK, Shape, cur # root, NEW p, p = Parent(cur)
  PROVE  /\ p \in Node /\ p \in Under[root] /\ p # cur /\ p \in Path(root, p)
         /\ cur \in KidSet(p) /\ Under[cur] \subseteq Under[p]
         /\ Path(root, cur) = Path(root, p) \cup {cur} /\ cur \notin Path(root, p)
         /\ at[p] \in Nat /\ at[p] < Len(Kids[p]) /\ Len(Kids[p]) \in Nat
         /\ IndexIn(p, cur) = at[p] + 1 /\ Kids[p][at[p] + 1] = cur
         /\ \A f \in Path(root, p) : f # p =>
              at[f] < Len(Kids[f]) /\ p \in Under[Kids[f][at[f] + 1]]
<1>1. root \in Node /\ cur \in Node /\ cur \in Under[root]
  BY CurFacts
<1>2. /\ p \in Under[root] /\ cur \in KidSet(p)
      /\ Path(root, cur) = Path(root, p) \cup {cur} /\ cur \notin Path(root, p)
  BY <1>1, PathUp
<1>3. p \in Node /\ p # cur /\ p \in Under[p] /\ Under[cur] \subseteq Under[p]
  BY <1>1, <1>2, UnderInNode, UnderSelf, KidFacts, ForestAssumption
<1>4. p \in Path(root, p) /\ OnTheWay(p)
  BY <1>2, <1>3 DEF Path, Shape
<1>5. /\ at[p] \in Nat /\ Len(Kids[p]) \in Nat /\ at[p] + 1 \in 1 .. Len(Kids[p])
      /\ Kids[p][at[p] + 1] \in KidSet(p)
  BY <1>3, <1>4, KidByIndex DEF TypeOK, OnTheWay
<1>6. Kids[p][at[p] + 1] = cur
  <2>1. cur \in Under[Kids[p][at[p] + 1]] /\ cur \in Under[cur]
    BY <1>1, <1>4, UnderSelf DEF OnTheWay
  <2>2. QED
    BY <1>2, <1>3, <1>5, <2>1, SiblingsDisjoint
<1>7. IndexIn(p, cur) = at[p] + 1
  BY <1>2, <1>3, <1>5, <1>6, KidByIndex
<1>8. ASSUME NEW f \in Path(root, p), f # p
      PROVE  at[f] < Len(Kids[f]) /\ p \in Under[Kids[f][at[f] + 1]]
  <2> DEFINE k == Kids[f][at[f] + 1]
  <2>1. f \in Node /\ OnTheWay(f) /\ f # cur
    BY <1>1, <1>2, <1>8, CurFacts DEF Shape
  <2>2. k \in KidSet(f) /\ k \in Node /\ cur \in Under[k] /\ at[f] < Len(Kids[f])
    BY <2>1, KidByIndex, KidFacts DEF OnTheWay, TypeOK
  <2> HIDE DEF k
  <2>3. k # cur
    BY <1>2, <1>3, <1>8, <2>1, <2>2, KidFacts
  <2>4. p \in Under[k]
    BY <1>2, <1>3, <2>2, <2>3, ThroughParent
  <2>5. QED
    BY <2>2, <2>4 DEF k
<1>9. QED
  BY <1>2, <1>3, <1>4, <1>5, <1>6, <1>7, <1>8 DEF OnTheWay

(* Back in the parent, with one child more: nothing else has changed. *)
LEMMA BackInParent ==
  ASSUME TypeOK, Shape, mode = "ret", cur # root, NEW p, p = Parent(cur),
         NEW K, K \subseteq 1 .. at[p] + 1,
         ReturnTo(p, at[p] + 1, K), root' = root
  PROVE  /\ Open' = Open /\ Open = Path(root, p) /\ Complete' = Complete
         /\ Kids[p][at[p] + 1] \in Complete /\ DoneKids(p) \subseteq Complete
         /\ Shape' /\ cur' \in Under[root] /\ mode' = "loop"
         /\ at' \in [Node -> Nat] /\ \A n \in Node : at'[n] <= Len(Kids[n])
         /\ kept' \in [Node -> SUBSET Nat] /\ \A n \in Node : kept'[n] \subseteq 1 .. at'[n]
         /\ at'[p] = at[p] + 1 /\ kept'[p] = K
         /\ \A f \in Node \ {p} : at'[f] = at[f] /\ kept'[f] = kept[f]
<1>1. /\ at' = [at EXCEPT ![p] = at[p] + 1] /\ kept' = [kept EXCEPT ![p] = K]
      /\ cur' = p /\ mode' = "loop"
  BY DEF ReturnTo
<1>2. /\ p \in Node /\ p \in Under[root] /\ p # cur /\ p \in Path(root, p)
      /\ cur \in KidSet(p)
      /\ Path(root, cur) = Path(root, p) \cup {cur} /\ cur \notin Path(root, p)
      /\ at[p] \in Nat /\ at[p] < Len(Kids[p]) /\ Len(Kids[p]) \in Nat
      /\ Kids[p][at[p] + 1] = cur
      /\ \A f \in Path(root, p) : f # p =>
           at[f] < Len(Kids[f]) /\ p \in Under[Kids[f][at[f] + 1]]
  BY ParentFacts
<1>3. /\ at'[p] = at[p] + 1 /\ kept'[p] = K
      /\ \A f \in Node \ {p} : at'[f] = at[f] /\ kept'[f] = kept[f]
  BY <1>1, <1>2 DEF TypeOK
<1>4. /\ at' \in [Node -> Nat] /\ \A n \in Node : at'[n] <= Len(Kids[n])
      /\ kept' \in [Node -> SUBSET Nat] /\ \A n \in Node : kept'[n] \subseteq 1 .. at'[n]
  <2>1. at[p] + 1 \in Nat /\ at[p] + 1 <= Len(Kids[p]) /\ K \in SUBSET Nat
    BY <1>2
  <2>2. at' \in [Node -> Nat] /\ kept' \in [Node -> SUBSET Nat]
    BY <1>1, <2>1 DEF TypeOK
  <2>3. \A n \in Node \ {p} : at'[n] <= Len(Kids[n]) /\ kept'[n] \subseteq 1 .. at'[n]
    BY <1>3 DEF TypeOK
  <2>4. QED
    BY <1>3, <2>1, <2>2, <2>3
<1>5. Path(root, p) \subseteq Node /\ cur \in Node
  BY <1>2, CurFacts
<1>6. Open' = Open /\ Open = Path(root, p)
  BY <1>1, <1>2 DEF Open
<1>7. Complete' = Complete
  <2>1. Outer = UNION {DoneKids(f) : f \in Path(root, p)}
    BY <1>2 DEF Outer
  <2>2. Outer' = UNION {DoneKids(f) : f \in Path(root, p) \ {p}}
    BY <1>1, <1>3, <1>5 DEF Outer, DoneKids
  <2>3. Inner = {cur} /\ Inner' = DoneKids(p) \cup {cur}
    <3>1. 1 .. at[p] + 1 = (1 .. at[p]) \cup {at[p] + 1}
      BY <1>2
    <3>2. QED
      BY <1>1, <1>2, <1>3, <3>1 DEF Inner, DoneKids
  <2>4. QED
    BY <1>2, <2>1, <2>2, <2>3 DEF Complete
<1>8. Kids[p][at[p] + 1] \in Complete /\ DoneKids(p) \subseteq Complete
  BY <1>2 DEF Complete, Inner, Outer
<1>9. Shape'
  <2>1. cur' \notin Leaf
    <3>1. p \in Leaf => KidSet(p) = {}
      BY ForestAssumption DEF Leaf, KidSet
    <3>2. QED
      BY <1>1, <1>2, <3>1
  <2>2. \A f \in Path(root, p) : f # p =>
           at'[f] < Len(Kids[f]) /\ p \in Under[Kids[f][at'[f] + 1]]
    BY <1>2, <1>3, <1>5
  <2>3. QED
    BY <1>1, <2>1, <2>2 DEF Shape, OnTheWay, Outcomes
<1>10. QED
  BY <1>1, <1>2, <1>3, <1>4, <1>6, <1>7, <1>8, <1>9

LEMMA KidCounted ==
  ASSUME IInv, KidReturned
  PROVE  IInv'
<1> DEFINE p == Parent(cur)
           i == at[p] + 1
<1>1. TypeOK /\ Shape /\ mode = "ret" /\ cur # root
  BY DEF IInv, KidReturned
<1>2. /\ p \in Node /\ IndexIn(p, cur) = i /\ at[p] \in Nat /\ i \in 1 .. Len(Kids[p])
      /\ Len(Kids[p]) \in Nat /\ p \in Path(root, p) /\ Path(root, p) \subseteq Node
  <2>1. /\ p \in Node /\ IndexIn(p, cur) = i /\ at[p] \in Nat /\ at[p] < Len(Kids[p])
        /\ Len(Kids[p]) \in Nat /\ p \in Path(root, p)
    BY <1>1, ParentFacts
  <2>2. Path(root, p) \subseteq Node
    BY <1>1, CurFacts, UnderInNode DEF Path
  <2>3. QED
    BY <2>1, <2>2
<1>3. ReturnTo(p, i, Covered(p, i)) /\ UNCHANGED <<root, slot, heap, displaced, attempt>>
  BY <1>2 DEF KidReturned
<1> HIDE DEF p
<1>4. /\ kept[p] \subseteq Covered(p, i) /\ Covered(p, i) \subseteq 1 .. i
      /\ i \notin Covered(p, i) /\ i < Len(Kids[p]) => Under[Kids[p][i]] \cap Owned = {}
  <2>1. Kind[p] \in Kinds /\ kept[p] \subseteq 1 .. at[p] /\ (Kind[p] = "box" => Len(Kids[p]) = 1)
    BY <1>1, <1>2, PlaceFacts, ForestAssumption DEF TypeOK
  <2>2. CASE Kind[p] = "struct"
    BY <1>2, <2>1, <2>2 DEF Covered
  <2>3. CASE Kind[p] \in {"array", "vec"}
    <3>1. Covered(p, i) = kept[p] \cup (IF NeedsDrop(Kids[p][i]) THEN {i} ELSE {})
      BY <2>3 DEF Covered
    <3>2. ~NeedsDrop(Kids[p][i]) => Under[Kids[p][i]] \cap Owned = {}
      BY DEF NeedsDrop, Owned
    <3>3. kept[p] \subseteq 1 .. i /\ i \in 1 .. i
      BY <1>2, <2>1
    <3> HIDE DEF i
    <3>4. i \notin Covered(p, i) => ~NeedsDrop(Kids[p][i])
      BY <3>1
    <3>5. kept[p] \subseteq Covered(p, i) /\ Covered(p, i) \subseteq kept[p] \cup {i}
      BY <3>1
    <3>6. QED
      BY <3>2, <3>3, <3>4, <3>5
  <2>4. CASE Kind[p] = "box"
    <3>1. Covered(p, i) = kept[p]
      BY <2>4 DEF Covered
    <3>2. Len(Kids[p]) = 1
      BY <2>1, <2>4
    <3>3. QED
      BY <1>2, <2>1, <3>1, <3>2
  <2>5. CASE Kind[p] \notin {"struct", "array", "vec", "box"}
    BY <1>2, <2>1, <2>5 DEF Covered
  <2>6. QED
    BY <2>2, <2>3, <2>4, <2>5
<1>5. /\ Open' = Open /\ Open = Path(root, p) /\ Complete' = Complete
      /\ Shape' /\ cur' \in Under[root] /\ mode' = "loop"
      /\ at' \in [Node -> Nat] /\ \A n \in Node : at'[n] <= Len(Kids[n])
      /\ kept' \in [Node -> SUBSET Nat] /\ \A n \in Node : kept'[n] \subseteq 1 .. at'[n]
      /\ at'[p] = i /\ kept'[p] = Covered(p, i)
      /\ \A f \in Node \ {p} : at'[f] = at[f] /\ kept'[f] = kept[f]
  BY <1>1, <1>3, <1>4, BackInParent DEF p
<1>6. TypeOK'
  BY <1>1, <1>3, <1>5 DEF TypeOK
<1>7. Accounted' /\ HeldByFrames' /\ NoInvalidDrop'
  BY <1>3, <1>5 DEF IInv, Accounted, Live, HeldByFrames, NoInvalidDrop
<1>8. \A f \in Open' : Covering(f)'
  <2>1. ASSUME NEW f \in Path(root, p), f # p
        PROVE  Covering(f)'
    BY <1>2, <1>3, <1>5, <2>1 DEF IInv, Covering
  <2>2. ASSUME at'[p] < Len(Kids[p]), NEW j \in 1 .. at'[p], j \notin kept'[p],
               NEW x \in Owned
        PROVE  x \notin Content({Kids[p][j]}, displaced')
    <3>1. CASE j = i
      BY <1>4, <1>5, <2>2, <3>1, InContent
    <3>2. CASE j # i
      BY <1>2, <1>3, <1>4, <1>5, <2>2, <3>2 DEF IInv, Covering
    <3>3. QED
      BY <3>1, <3>2
  <2>3. \A f \in {p} : Covering(f)'
    BY <2>2 DEF Covering
  <2>4. QED
    BY <1>5, <2>1, <2>3
<1>9. DisplacedWithin'
  BY <1>1, <1>3, <1>5 DEF IInv, DisplacedWithin
<1>10. QED
  BY <1>5, <1>6, <1>7, <1>8, <1>9 DEF IInv

LEMMA EntryRefused ==
  ASSUME IInv, DropDuplicate
  PROVE  IInv'
<1> DEFINE p == Parent(cur)
           i == at[p] + 1
<1>1. TypeOK /\ Shape /\ mode = "ret" /\ cur # root
  BY DEF IInv, DropDuplicate
<1>2. /\ p \in Node /\ p \in Under[root] /\ IndexIn(p, cur) = i
      /\ at[p] \in Nat /\ i \in 1 .. Len(Kids[p]) /\ Len(Kids[p]) \in Nat
      /\ p \in Path(root, p) /\ Path(root, p) \subseteq Node
  <2>1. /\ p \in Node /\ p \in Under[root] /\ IndexIn(p, cur) = i
        /\ at[p] \in Nat /\ at[p] < Len(Kids[p])
        /\ Len(Kids[p]) \in Nat /\ p \in Path(root, p)
    BY <1>1, ParentFacts
  <2>2. Path(root, p) \subseteq Node
    BY <1>1, CurFacts, UnderInNode DEF Path
  <2>3. QED
    BY <2>1, <2>2
<1>3. PICK dups \in SUBSET (1 .. i) :
        /\ \/ /\ Kind[p] = "map" /\ i % 2 = 0
              /\ \E j \in kept[p] : j % 2 = 0 /\ dups = {j, i - 1}
           \/ Kind[p] = "set" /\ kept[p] # {} /\ dups = {i}
        /\ DropValues({Kids[p][j] : j \in dups})
        /\ displaced' = displaced \cup {Kids[p][j] : j \in dups}
        /\ ReturnTo(p, i, (kept[p] \cup {i}) \ dups)
        /\ UNCHANGED <<root, attempt>>
  BY <1>2 DEF DropDuplicate
<1> HIDE DEF p
<1> DEFINE K == {Kids[p][j] : j \in dups}
           D == Content(K, displaced)
<1>4. kept[p] \subseteq 1 .. at[p] /\ (kept[p] \cup {i}) \ dups \subseteq 1 .. i
  BY <1>1, <1>2 DEF TypeOK
<1>5. /\ Open' = Open /\ Open = Path(root, p) /\ Complete' = Complete
      /\ Kids[p][i] \in Complete /\ DoneKids(p) \subseteq Complete
      /\ Shape' /\ cur' \in Under[root] /\ mode' = "loop"
      /\ at' \in [Node -> Nat] /\ \A n \in Node : at'[n] <= Len(Kids[n])
      /\ kept' \in [Node -> SUBSET Nat] /\ \A n \in Node : kept'[n] \subseteq 1 .. at'[n]
      /\ at'[p] = i /\ kept'[p] = (kept[p] \cup {i}) \ dups
      /\ \A f \in Node \ {p} : at'[f] = at[f] /\ kept'[f] = kept[f]
  BY <1>1, <1>3, <1>4, BackInParent DEF p
<1>6. K \subseteq Complete /\ K \subseteq Node
  <2>1. \A j \in 1 .. i : j = i \/ j \in 1 .. at[p]
    BY <1>2
  <2>2. \A j \in 1 .. i : Kids[p][j] \in Complete
    BY <1>5, <2>1 DEF DoneKids
  <2>3. \A j \in 1 .. i : j \in 1 .. Len(Kids[p])
    BY <1>2
  <2>4. QED
    BY <1>2, <2>2, <2>3, KidByIndex, KidFacts
<1>7. K \subseteq Refusable(root)
  <2>1. Kind[p] \in {"map", "set"} /\ \A j \in dups : j \in 2 .. Len(Kids[p])
    <3>1. CASE Kind[p] = "set" /\ kept[p] # {} /\ dups = {i}
      <4>1. i >= 2
        BY <1>2, <1>4, <3>1
      <4>2. QED
        BY <1>2, <3>1, <4>1
    <3>2. ASSUME Kind[p] = "map", i % 2 = 0, NEW j \in kept[p], j % 2 = 0, dups = {j, i - 1}
          PROVE  Kind[p] \in {"map", "set"} /\ \A d \in dups : d \in 2 .. Len(Kids[p])
      <4>1. j \in Nat /\ 1 <= j /\ j <= at[p]
        BY <1>2, <1>4
      <4>2. j # 1
        BY <3>2
      <4>3. QED
        BY <1>2, <3>2, <4>1, <4>2
    <3>3. QED
      BY <1>3, <3>1, <3>2
  <2>2. QED
    BY <1>2, <2>1 DEF Refusable
<1>8. slot' = DropSlots(slot, D) /\ heap' = FreeHeap(heap, D)
  BY <1>3 DEF DropValues
<1>9. displaced' = displaced \cup K /\ root' = root /\ attempt' = attempt
  BY <1>3
<1> HIDE DEF K
<1>10. \A x : x \in D <=> x \in Content(Complete, displaced) /\ \E n \in K : x \in Under[n]
  BY <1>6, InContent
<1>11. \A x : x \in Content(Complete', displaced') <=> x \in Content(Complete, displaced) /\ x \notin D
  BY <1>5, <1>9, InContent
<1> HIDE DEF D
<1>12. \A x \in Owned : x \in D => x \in Live
  BY <1>10 DEF IInv, Accounted
<1>13. /\ slot' \in [Leaf -> {"uninit", "init", "dropped"}]
       /\ heap' \in [Heap -> {"none", "held", "owned", "freed"}]
       /\ \A l \in Leaf : l \notin D => slot'[l] = slot[l]
       /\ \A l \in Owning : l \in D => slot'[l] = "dropped"
       /\ \A h \in Heap : h \notin D => heap'[h] = heap[h]
       /\ \A h \in Heap : h \in D => heap'[h] = "freed" /\ heap[h] = "owned"
  BY <1>1, <1>8, <1>12, Dropping DEF IInv
<1>14. TypeOK' /\ NoInvalidDrop'
  <2>1. /\ slot' \in [Leaf -> {"uninit", "init", "dropped", "corrupt"}]
        /\ heap' \in [Heap -> {"none", "held", "owned", "freed", "corrupt"}]
        /\ NoInvalidDrop'
    BY <1>13 DEF NoInvalidDrop
  <2>2. QED
    BY <1>1, <1>5, <1>6, <1>9, <2>1 DEF TypeOK
<1>15. Accounted'
  <2>1. \A x \in Owned : x \in Live' <=> x \in Live /\ x \notin D
    BY <1>13, PlaceFacts DEF Owned, Live
  <2>2. QED
    BY <1>11, <1>13, <2>1 DEF IInv, Accounted
<1>16. HeldByFrames'
  BY <1>5, <1>13 DEF IInv, HeldByFrames
<1>17. \A f \in Open' : Covering(f)'
  <2>1. ASSUME NEW f \in Node, NEW j, NEW x, x \notin Content({Kids[f][j]}, displaced)
        PROVE  x \notin Content({Kids[f][j]}, displaced')
    BY <1>9, <2>1, InContent
  <2>2. ASSUME NEW f \in Path(root, p), f # p
        PROVE  Covering(f)'
    BY <1>2, <1>5, <2>1, <2>2 DEF IInv, Covering
  <2>3. ASSUME at'[p] < Len(Kids[p]), NEW j \in 1 .. at'[p], j \notin kept'[p],
               NEW x \in Owned
        PROVE  x \notin Content({Kids[p][j]}, displaced')
    <3>1. CASE j \in dups
      BY <1>9, <3>1, InContent DEF K
    <3>2. CASE j \notin dups
      <4>1. j \in 1 .. at[p] /\ j \notin kept[p] /\ at[p] < Len(Kids[p])
        BY <1>2, <1>5, <2>3, <3>2
      <4>2. QED
        BY <1>2, <1>5, <2>1, <4>1 DEF IInv, Covering
    <3>3. QED
      BY <3>1, <3>2
  <2>4. \A f \in {p} : Covering(f)'
    BY <2>3 DEF Covering
  <2>5. QED
    BY <1>5, <2>2, <2>4
<1>18. DisplacedWithin'
  <2>1. \A d \in K : d \in Complete /\ d \in Under[d]
    BY <1>6, UnderSelf
  <2>2. QED
    BY <1>1, <1>5, <1>7, <1>9, <2>1 DEF IInv, DisplacedWithin
<1>19. QED
  BY <1>5, <1>14, <1>15, <1>16, <1>17, <1>18 DEF IInv

-----------------------------------------------------------------------------
(* The parent's guard runs: over all that the parent had read, and over    *)
(* the entry it was about to take when that is what panicked.              *)
LEMMA ParentUnwound ==
  ASSUME IInv, mode \in {"ret", "err"}, cur # root, NEW p, p = Parent(cur),
         Unwind(p, IF mode = "ret" THEN kept[p] \cup {at[p] + 1} ELSE kept[p])
  PROVE  IInv'
<1> DEFINE W == IF mode = "ret" THEN kept[p] \cup {at[p] + 1} ELSE kept[p]
           K == {Kids[p][j] : j \in W}
           D == Content(K, displaced)
<1>1. TypeOK /\ Shape
  BY DEF IInv
<1>2. /\ p \in Node /\ p \in Under[root] /\ p # cur /\ p \in Path(root, p)
      /\ cur \in KidSet(p) /\ Under[cur] \subseteq Under[p]
      /\ Path(root, cur) = Path(root, p) \cup {cur} /\ cur \notin Path(root, p)
      /\ at[p] \in Nat /\ at[p] < Len(Kids[p]) /\ Len(Kids[p]) \in Nat
      /\ Kids[p][at[p] + 1] = cur
      /\ \A f \in Path(root, p) : f # p =>
           at[f] < Len(Kids[f]) /\ p \in Under[Kids[f][at[f] + 1]]
  BY <1>1, ParentFacts
<1>3. Path(root, p) \subseteq Node /\ cur \in Node
  BY <1>1, <1>2, CurFacts
<1>4. /\ slot' = DropSlots(slot, D)
      /\ heap' = IF p \in Heap
                 THEN [FreeHeap(heap, D) EXCEPT ![p] = IF @ = "held" THEN "freed" ELSE "corrupt"]
                 ELSE FreeHeap(heap, D)
      /\ kept' = [kept EXCEPT ![p] = {}]
      /\ cur' = p /\ mode' = "err"
      /\ UNCHANGED <<root, at, displaced, attempt>>
  BY DEF Unwind
<1>5. Open = Path(root, p) /\ Open' = Path(root, p) \ {p}
  BY <1>2, <1>4 DEF Open
<1>6. /\ Complete = Complete' \cup DoneKids(p) \cup (IF mode = "ret" THEN {cur} ELSE {})
      /\ Complete' = UNION {DoneKids(f) : f \in Path(root, p) \ {p}}
  <2>1. Outer = UNION {DoneKids(f) : f \in Path(root, p)}
    BY <1>2 DEF Outer
  <2>2. Outer' = UNION {DoneKids(f) : f \in Path(root, p) \ {p}} /\ Inner' = {}
    BY <1>4 DEF Outer, DoneKids, Inner
  <2>3. Inner = IF mode = "ret" THEN {cur} ELSE {}
    BY DEF Inner
  <2>4. QED
    BY <1>2, <2>1, <2>2, <2>3 DEF Complete
<1>7. \A j \in W : j \in 1 .. Len(Kids[p])
  BY <1>1, <1>2 DEF TypeOK
<1>8. \A k \in K : k \in Complete /\ k \in Node /\ Under[k] \subseteq Under[p]
  <2>1. \A j \in W : Kids[p][j] \in DoneKids(p) \/ (mode = "ret" /\ Kids[p][j] = cur)
    BY <1>1, <1>2 DEF TypeOK, DoneKids
  <2>2. QED
    BY <1>2, <1>6, <1>7, <2>1, KidByIndex, UnderSelf
<1>9. ASSUME NEW k \in DoneKids(p) \cup (IF mode = "ret" THEN {cur} ELSE {}),
             NEW x \in Owned, x \in Under[k], \A d \in displaced : x \notin Under[d]
      PROVE  x \in D
  <2>1. CASE k = cur /\ mode = "ret"
    BY <1>2, <1>9, <2>1, InContent
  <2>2. CASE k \in DoneKids(p)
    <3>1. PICK j \in 1 .. at[p] : k = Kids[p][j]
      BY <2>2 DEF DoneKids
    <3>2. x \in Content({Kids[p][j]}, displaced)
      BY <1>9, <3>1, InContent
    <3>3. j \in W
      BY <1>2, <1>5, <3>2 DEF IInv, Covering
    <3>4. QED
      BY <1>9, <3>1, <3>3, InContent
  <2>3. QED
    BY <1>9, <2>1, <2>2
<1>10. ASSUME NEW k \in Complete'
       PROVE  Under[k] \cap Under[p] = {}
  <2>1. PICK f \in Path(root, p) \ {p} : k \in DoneKids(f)
    BY <1>6
  <2>2. PICK j \in 1 .. at[f] : k = Kids[f][j]
    BY <2>1 DEF DoneKids
  <2>3. /\ f \in Node /\ at[f] \in Nat /\ at[f] < Len(Kids[f])
        /\ p \in Under[Kids[f][at[f] + 1]]
    BY <1>1, <1>2, <1>3 DEF TypeOK
  <2>4. QED
    BY <2>2, <2>3, Apart
<1> HIDE DEF W
<1>11. \A x : x \in D => x \in Content(Complete, displaced) /\ x \in Under[p]
  BY <1>8, InContent
<1> HIDE DEF K
<1>12. \A x : x \in Content(Complete', displaced) => x \in Content(Complete, displaced) /\ x \notin D
  BY <1>6, <1>10, <1>11, InContent
<1>13. \A x \in Owned : x \in Content(Complete, displaced) /\ x \notin D => x \in Content(Complete', displaced)
  BY <1>6, <1>9, InContent
<1> HIDE DEF D
<1>14. \A x \in Owned : x \in D => x \in Live
  BY <1>11 DEF IInv, Accounted
<1>15. /\ slot' \in [Leaf -> {"uninit", "init", "dropped"}]
       /\ FreeHeap(heap, D) \in [Heap -> {"none", "held", "owned", "freed"}]
       /\ \A l \in Leaf : l \notin D => slot'[l] = slot[l]
       /\ \A l \in Owning : l \in D => slot'[l] = "dropped"
       /\ \A h \in Heap : h \notin D => FreeHeap(heap, D)[h] = heap[h]
       /\ \A h \in Heap : h \in D => FreeHeap(heap, D)[h] = "freed" /\ heap[h] = "owned"
  BY <1>1, <1>4, <1>14, Dropping DEF IInv
<1>16. p \in Heap => heap[p] = "held"
  BY <1>2, <1>5 DEF IInv, HeldByFrames
<1>17. /\ heap' \in [Heap -> {"none", "held", "owned", "freed"}]
       /\ \A h \in Heap \ {p} : h \notin D => heap'[h] = heap[h]
       /\ \A h \in Heap \ {p} : h \in D => heap'[h] = "freed" /\ heap[h] = "owned"
       /\ p \in Heap => heap'[p] = "freed"
  BY <1>4, <1>15, <1>16
<1>18. TypeOK' /\ NoInvalidDrop'
  <2>1. kept' \in [Node -> SUBSET Nat] /\ \A n \in Node : kept'[n] \subseteq 1 .. at'[n]
    BY <1>1, <1>4 DEF TypeOK
  <2>2. /\ slot' \in [Leaf -> {"uninit", "init", "dropped", "corrupt"}]
        /\ heap' \in [Heap -> {"none", "held", "owned", "freed", "corrupt"}]
        /\ NoInvalidDrop'
    BY <1>15, <1>17 DEF NoInvalidDrop
  <2>3. QED
    BY <1>1, <1>2, <1>4, <2>1, <2>2 DEF TypeOK
<1>19. Shape'
  BY <1>2, <1>4 DEF Shape, OnTheWay, Outcomes
<1>20. Accounted'
  <2>1. \A x \in Owned : x \in Live' <=> x \in Live /\ x \notin D
    BY <1>15, <1>16, <1>17, PlaceFacts DEF Owned, Live
  <2>2. QED
    BY <1>4, <1>12, <1>13, <1>15, <2>1 DEF IInv, Accounted
<1>21. HeldByFrames'
  BY <1>5, <1>17 DEF IInv, HeldByFrames
<1>22. \A f \in Open' : Covering(f)'
  BY <1>1, <1>3, <1>4, <1>5 DEF IInv, TypeOK, Covering
<1>23. DisplacedWithin'
  <2>1. ASSUME NEW k \in Complete, NEW d \in Under[k]
        PROVE  d \in Under[p] \/ \E m \in Complete' : d \in Under[m]
    <3>1. \A j \in 1 .. at[p] : Under[Kids[p][j]] \subseteq Under[p]
      BY <1>2, KidByIndex, UnderSelf
    <3>2. k \in Complete' \/ Under[k] \subseteq Under[p]
      BY <1>2, <1>6, <3>1 DEF DoneKids
    <3>3. QED
      BY <2>1, <3>2
  <2>2. QED
    BY <1>2, <1>4, <2>1 DEF IInv, DisplacedWithin
<1>24. QED
  BY <1>18, <1>19, <1>20, <1>21, <1>22, <1>23 DEF IInv

LEMMA FailureUnwinds ==
  ASSUME IInv, KidFailed \/ InsertPanics
  PROVE  IInv'
<1>1. cur # root /\ mode \in {"ret", "err"}
  BY DEF KidFailed, InsertPanics
<1>2. IndexIn(Parent(cur), cur) = at[Parent(cur)] + 1
  BY <1>1, ParentFacts DEF IInv
<1>3. Unwind(Parent(cur), IF mode = "ret" THEN kept[Parent(cur)] \cup {at[Parent(cur)] + 1}
                                          ELSE kept[Parent(cur)])
  BY <1>2 DEF KidFailed, InsertPanics
<1>4. QED
  BY <1>1, <1>3, ParentUnwound

-----------------------------------------------------------------------------
LEMMA AtTheRoot ==
  ASSUME TypeOK, cur = root
  PROVE  /\ Path(root, cur) = {root} /\ Outer = {} /\ root \in Node
         /\ mode # "loop" => Open = {}
BY CurFacts, PathOfRoot DEF Outer, Open

LEMMA CallOver ==
  ASSUME IInv, Finish
  PROVE  IInv'
<1>1. /\ cur = root /\ mode \in {"ret", "err"}
      /\ mode' = IF mode = "ret" THEN "ok" ELSE "failed"
      /\ UNCHANGED <<root, cur, at, kept, slot, heap, displaced, attempt>>
  BY DEF Finish
<1>2. /\ Open' = Open /\ Open = {} /\ Complete' = Complete /\ Path(root, cur) = {cur}
  BY <1>1, AtTheRoot DEF IInv, Open, Outer, DoneKids, Inner, Complete
<1>3. TypeOK' /\ Shape' /\ HeldByFrames' /\ NoInvalidDrop'
  BY <1>1, <1>2 DEF IInv, TypeOK, Shape, Outcomes, HeldByFrames, NoInvalidDrop
<1>4. Accounted'
  BY <1>1, <1>2 DEF IInv, Accounted, Live
<1>5. DisplacedWithin'
  BY <1>1, <1>2 DEF IInv, DisplacedWithin
<1>6. QED
  BY <1>2, <1>3, <1>4, <1>5 DEF IInv

(* After a failure the destination is as good as new. *)
LEMMA CalledAgain ==
  ASSUME IInv, Retry
  PROVE  IInv'
<1>1. /\ mode = "failed" /\ mode' = "call" /\ cur' = root /\ displaced' = {}
      /\ attempt < MaxAttempts /\ attempt' = attempt + 1
      /\ UNCHANGED <<root, at, kept, slot, heap>>
  BY DEF Retry
<1>2. TypeOK /\ Shape /\ cur = root
  BY <1>1 DEF IInv, Shape, Outcomes
<1>3. /\ Open = {} /\ Complete = {} /\ Path(root, cur) = {root} /\ root \in Node
      /\ Open' = {} /\ Complete' = {}
  BY <1>1, <1>2, AtTheRoot DEF Open, Outer, Inner, Complete
<1>4. TypeOK'
  BY <1>1, <1>2, CurFacts, ForestAssumption DEF TypeOK
<1>5. Shape' /\ HeldByFrames' /\ NoInvalidDrop' /\ DisplacedWithin'
  BY <1>1, <1>2, <1>3
  DEF IInv, Shape, Outcomes, HeldByFrames, NoInvalidDrop, DisplacedWithin
<1>6. Accounted'
  BY <1>1, <1>3, InContent DEF IInv, Accounted, Live
<1>7. QED
  BY <1>3, <1>4, <1>5, <1>6 DEF IInv

LEMMA NextInvariant == IInv /\ [Next]_vars => IInv'
<1> SUFFICES ASSUME IInv, [Next]_vars
             PROVE  IInv'
  OBVIOUS
<1>1. CASE Read
  BY <1>1, LeafRead, ReadFailed, FrameOpened, KidEntered, FrameClosed, KidCounted, EntryRefused,
     FailureUnwinds, CallOver
  DEF Read
<1>2. CASE Retry
  BY <1>2, CalledAgain
<1>3. CASE UNCHANGED vars
  <2>1. /\ UNCHANGED <<root, cur, mode, at, kept, slot, heap, displaced, attempt>>
        /\ Open' = Open /\ Complete' = Complete
    BY <1>3 DEF vars, Open, Outer, DoneKids, Inner, Complete
  <2>2. TypeOK' /\ Shape' /\ HeldByFrames' /\ NoInvalidDrop'
    BY <2>1 DEF IInv, TypeOK, Shape, OnTheWay, HeldByFrames, NoInvalidDrop
  <2>3. Accounted'
    BY <2>1 DEF IInv, Accounted, Live
  <2>4. DisplacedWithin' /\ \A f \in Open' : Covering(f)'
    BY <2>1 DEF IInv, DisplacedWithin, Covering
  <2>5. QED
    BY <2>2, <2>3, <2>4 DEF IInv
<1>4. QED
  BY <1>1, <1>2, <1>3 DEF Next

(* What is alive is the content of the complete values, and the guards     *)
(* answer for it: an inductive invariant.                                  *)
THEOREM Invariant == Spec => []IInv
BY InitInvariant, NextInvariant, PTL DEF Spec

-----------------------------------------------------------------------------
(* Every activation, guard and place stays within its states. *)
THEOREM TypeCorrect == Spec => []TypeOK
<1>1. IInv => TypeOK
  BY DEF IInv
<1>2. QED
  BY Invariant, <1>1, PTL

(* No guard and no drop glue ever runs over memory without a live value,   *)
(* however the types nest and wherever a read fails or user code panics.   *)
THEOREM DropsAreValid == Spec => []NoInvalidDrop
<1>1. IInv => NoInvalidDrop
  BY DEF IInv
<1>2. QED
  BY Invariant, <1>1, PTL

(* A decode that has failed has dropped and freed all it had built. *)
THEOREM FailureLeavesNothing == Spec => []NothingLeaks
<1>1. IInv => NothingLeaks
  <2> SUFFICES ASSUME IInv, mode = "failed"
               PROVE  Live = {} /\ \A h \in Heap : heap[h] # "held"
    BY DEF NothingLeaks
  <2>1. Open = {} /\ Complete = {}
    BY AtTheRoot DEF IInv, Shape, Outcomes, Inner, Complete
  <2>2. QED
    BY <2>1, InContent DEF IInv, Accounted, HeldByFrames, Live, Owned
<1>2. QED
  BY Invariant, <1>1, PTL

-----------------------------------------------------------------------------
(* Which guards are armed, and over what. *)
LEMMA FrameFacts ==
  ASSUME IInv, mode \notin Outcomes
  PROVE  /\ Frames \subseteq Open
         /\ \A f \in Frames :
              /\ f \in Node /\ f \in Path(root, cur) /\ at[f] \in Nat
              /\ at[f] < Len(Kids[f]) /\ kept[f] \subseteq 1 .. at[f]
              /\ f # cur => cur \in Under[Kids[f][at[f] + 1]]
         /\ \A f \in Open : f \in Frames \/ (f = cur /\ InTransit = Under[cur])
<1>1. TypeOK /\ Shape
  BY DEF IInv
<1>2. cur \in Node /\ Path(root, cur) \subseteq Node /\ cur \in Under[cur]
  BY <1>1, CurFacts, UnderSelf
<1>3. at[cur] \in Nat /\ at[cur] <= Len(Kids[cur]) /\ Len(Kids[cur]) \in Nat
  BY <1>1, <1>2, KidByIndex DEF TypeOK
<1>4. Frames = {f \in Path(root, cur) :
                  f = cur => mode = "loop" /\ at[cur] # Len(Kids[cur])}
  BY <1>2, <1>3 DEF Frames, InTransit, Path
<1>5. \A f \in Path(root, cur) : f # cur => OnTheWay(f)
  BY <1>1 DEF Shape
<1>6. ASSUME NEW f \in Frames
      PROVE  /\ f \in Node /\ f \in Path(root, cur) /\ at[f] \in Nat
             /\ at[f] < Len(Kids[f]) /\ kept[f] \subseteq 1 .. at[f]
             /\ f # cur => cur \in Under[Kids[f][at[f] + 1]]
  BY <1>1, <1>2, <1>3, <1>4, <1>5 DEF TypeOK, OnTheWay
<1>7. \A f \in Open : f \in Frames \/ (f = cur /\ InTransit = Under[cur])
  BY <1>4 DEF Open, InTransit
<1>8. QED
  BY <1>4, <1>6, <1>7 DEF Open

(* Two armed guards answer for nothing in common. *)
LEMMA GuardsDisjoint ==
  ASSUME IInv, mode \notin Outcomes, NEW f \in Frames, NEW g \in Frames, f # g,
         NEW i \in 1 .. at[f], NEW j \in 1 .. at[g]
  PROVE  Under[Kids[f][i]] \cap Under[Kids[g][j]] = {}
<1>1. \A e \in {f, g} :
        /\ e \in Node /\ e \in Path(root, cur) /\ at[e] \in Nat /\ at[e] < Len(Kids[e])
        /\ e # cur => cur \in Under[Kids[e][at[e] + 1]]
  BY FrameFacts
<1>2. ASSUME NEW a \in Node, NEW b \in Node, a # b, b \in Under[a],
             a \in Path(root, cur), b \in Path(root, cur),
             at[a] \in Nat, at[a] < Len(Kids[a]), at[b] \in Nat, at[b] < Len(Kids[b]),
             a # cur => cur \in Under[Kids[a][at[a] + 1]],
             NEW m \in 1 .. at[a], NEW n \in 1 .. at[b]
      PROVE  Under[Kids[a][m]] \cap Under[Kids[b][n]] = {}
  <2> DEFINE k == Kids[a][at[a] + 1]
  <2>1. cur \in Node /\ cur \in Under[b] /\ cur \in Under[cur]
    BY <1>2, CurFacts, UnderSelf DEF IInv, Path
  <2>2. a # cur
    BY <1>2, <2>1, UnderIsLower
  <2>3. k \in KidSet(a) /\ k \in Node /\ cur \in Under[k]
    BY <1>2, <2>2, KidByIndex, KidFacts
  <2>4. b \in Under[k]
    <3>1. b \in Under[k] \/ k \in Under[b]
      BY <1>2, <2>1, <2>3, Nested
    <3>2. CASE k \in Under[b] /\ k # b
      <4>1. a \in Under[b]
        BY <1>2, <2>3, <3>2, ThroughParent
      <4>2. QED
        BY <1>2, <4>1, UnderIsLower
    <3>3. QED
      BY <2>3, <3>1, <3>2, UnderSelf
  <2>5. Under[Kids[a][m]] \cap Under[b] = {}
    BY <1>2, <2>4, Apart
  <2>6. n \in 1 .. Len(Kids[b])
    BY <1>2, KidByIndex
  <2>7. Under[Kids[b][n]] \subseteq Under[b]
    BY <1>2, <2>6, KidByIndex, UnderSelf
  <2>8. QED
    BY <2>5, <2>7
<1>3. f \in Under[g] \/ g \in Under[f]
  BY <1>1, Nested, CurFacts DEF IInv, Path
<1>4. QED
  BY <1>1, <1>2, <1>3

LEMMA OneOwnerHolds ==
  ASSUME IInv, mode \notin Outcomes
  PROVE  OneOwner
<1>1. TypeOK /\ Shape
  BY DEF IInv
<1>2. cur \in Node /\ cur \in Under[root] /\ cur \in Path(root, cur)
  BY <1>1, CurFacts
<1>3. \A x \in Live : x \in Owned /\ x \in Content(Complete, displaced)
  BY DEF IInv, Accounted, Live, Owned
<1>4. ASSUME NEW f \in Frames, NEW i \in 1 .. at[f]
      PROVE  /\ Kids[f][i] \in Complete
             /\ Under[Kids[f][i]] \cap InTransit = {}
  <2>1. /\ f \in Node /\ f \in Path(root, cur) /\ at[f] \in Nat /\ f \in Open
        /\ at[f] < Len(Kids[f])
        /\ f # cur => cur \in Under[Kids[f][at[f] + 1]]
        /\ f = cur => InTransit = {}
    BY FrameFacts DEF Frames
  <2>2. Kids[f][i] \in Complete
    BY <2>1 DEF Open, Complete, Outer, Inner, DoneKids
  <2>3. CASE f = cur
    BY <2>1, <2>2, <2>3
  <2>4. CASE f # cur
    BY <2>1, <2>2, <2>4, Apart DEF InTransit
  <2>5. QED
    BY <2>2, <2>3, <2>4
<1>5. ASSUME NEW x \in Live
      PROVE  Cardinality(Owners(x)) = IF x \in InTransit THEN 0 ELSE 1
  <2>1. \A f \in Owners(x) : f \in Frames /\ \E i \in 1 .. at[f] : x \in Under[Kids[f][i]]
    <3>1. \A f \in Frames : kept[f] \subseteq 1 .. at[f]
      BY FrameFacts
    <3>2. \A f, j : x \in Content({Kids[f][j]}, displaced) => x \in Under[Kids[f][j]]
      BY InContent
    <3>3. QED
      BY <3>1, <3>2 DEF Owners
  <2>2. CASE x \in InTransit
    <3>1. Owners(x) = {}
      BY <1>4, <2>1, <2>2
    <3>2. QED
      BY <2>2, <3>1, FS_EmptySet
  <2>3. CASE x \notin InTransit
    <3>1. PICK k \in Complete : x \in Under[k]
      BY <1>3, InContent
    <3>2. PICK f \in Open : k \in DoneKids(f)
      <4>1. mode \in {"ret", "ok"} => InTransit = Under[cur]
        BY DEF InTransit, Outcomes
      <4>2. k \notin Inner \/ (mode = "loop" /\ k \in DoneKids(cur))
        BY <2>3, <3>1, <4>1 DEF Inner
      <4>3. QED
        BY <1>2, <3>1, <4>2 DEF Complete, Outer, Open
    <3>3. PICK i \in 1 .. at[f] : k = Kids[f][i]
      BY <3>2 DEF DoneKids
    <3>4. f \in Frames
      <4>1. CASE f = cur /\ InTransit = Under[cur]
        <5>1. i \in 1 .. Len(Kids[cur])
          BY <1>1, <1>2, <3>3, <4>1, KidByIndex DEF TypeOK
        <5>2. Under[k] \subseteq Under[cur]
          BY <1>2, <3>3, <4>1, <5>1, KidByIndex, UnderSelf
        <5>3. QED
          BY <2>3, <3>1, <4>1, <5>2
      <4>2. QED
        BY <4>1, FrameFacts
    <3>5. f \in Owners(x)
      <4>1. x \in Content({Kids[f][i]}, displaced)
        BY <1>3, <3>1, <3>3, InContent
      <4>2. i \in kept[f]
        BY <1>3, <3>2, <3>4, <4>1, FrameFacts DEF IInv, Covering
      <4>3. QED
        BY <3>4, <4>1, <4>2 DEF Owners
    <3>6. \A g \in Owners(x) : g = f
      BY <2>1, <3>1, <3>3, <3>4, GuardsDisjoint
    <3>7. Owners(x) = {f}
      BY <3>5, <3>6
    <3>8. QED
      BY <2>3, <3>7, FS_Singleton
  <2>4. QED
    BY <2>2, <2>3
<1>6. ASSUME NEW f \in Frames, NEW j \in kept[f]
      PROVE  Content({Kids[f][j]}, displaced) \cap (Owning \cup Heap) \subseteq Live
  <2>1. Kids[f][j] \in Complete
    BY <1>4, FrameFacts
  <2>2. QED
    BY <2>1, InContent DEF IInv, Accounted, Owned
<1>7. ASSUME NEW h \in Heap, heap[h] = "held"
      PROVE  cur \in Under[h] /\ (cur = h => mode = "loop")
  BY <1>7 DEF IInv, HeldByFrames, Open, Path
<1>8. QED
  BY <1>5, <1>6, <1>7 DEF OneOwner

(* While a decode runs, every live value has one place that answers for it *)
(* and no guard answers for anything else.                                 *)
THEOREM OwnersAreUnique == Spec => []OneOwner
<1>1. IInv => OneOwner
  BY OneOwnerHolds DEF OneOwner
<1>2. QED
  BY Invariant, <1>1, PTL

-----------------------------------------------------------------------------
(* The frame-by-frame machine does what AtomicDecode promises. *)

LEMMA WholeValue ==
  ASSUME IInv, cur = root, mode = "ret"
  PROVE  Live \cup {l \in Leaf \cap Content({root}, displaced) : slot[l] = "init"}
           \in WholeOf[root]
<1>1. Complete = {root}
  BY AtTheRoot DEF IInv, Complete, Inner
<1>2. \A x : x \in Live <=> x \in Owned /\ x \in Content({root}, displaced)
  BY <1>1 DEF IInv, Accounted, Live, Owned
<1>3. \A l \in Leaf : l \in Content({root}, displaced) => slot[l] = "init"
  BY <1>1 DEF IInv, Accounted
<1>4. Live \cup {l \in Leaf \cap Content({root}, displaced) : slot[l] = "init"}
        = Content({root}, displaced) \cap (Leaf \cup Heap)
  BY <1>2, <1>3, PlaceFacts DEF Owned
<1>5. displaced \in SUBSET Refusable(root) /\ root \in Roots
  BY DEF IInv, DisplacedWithin, TypeOK
<1>6. QED
  BY <1>4, <1>5 DEF WholeOf

LEMMA StepRefines ==
  ASSUME IInv, [Next]_vars
  PROVE  [Abstract!Next]_Abstract!vars
<1> USE DEF Abstract!vars, Outcomes
<1>1. CASE Finish /\ mode = "ret"
  <2>1. mode' = "ok" /\ cur = root /\ UNCHANGED <<root, slot, heap, displaced>>
    BY <1>1 DEF Finish
  <2>2. Live' = Live /\ Returned' = {l \in Leaf \cap Content({root}, displaced) : slot[l] = "init"}
    BY <2>1 DEF Live, Returned
  <2>3. Live' \cup Returned' \in WholeOf[root]
    BY <1>1, <2>1, <2>2, WholeValue
  <2>4. Abstract!Succeed
    BY <1>1, <2>1, <2>3 DEF Abstract!Succeed
  <2>5. QED
    BY <2>4 DEF Abstract!Next
<1>2. CASE Finish /\ mode = "err"
  <2>1. mode' = "failed" /\ cur = root /\ UNCHANGED <<root, slot, heap, displaced>>
    BY <1>2 DEF Finish
  <2>2. Live' = {} /\ Returned' = {}
    <3>1. Complete = {}
      BY <1>2, <2>1, AtTheRoot DEF IInv, Complete, Inner
    <3>2. Live = {}
      BY <3>1, InContent DEF IInv, Accounted, Live, Owned
    <3>3. QED
      BY <2>1, <3>2 DEF Live, Returned
  <2>3. Abstract!Fail
    BY <1>2, <2>1, <2>2 DEF Abstract!Fail
  <2>4. QED
    BY <2>3 DEF Abstract!Next
<1>3. CASE Retry
  <2>1. mode = "failed" /\ mode' = "call" /\ root' = root
    BY <1>3 DEF Retry
  <2>2. Live = {} /\ Returned = {}
    <3>1. Complete = {}
      BY <2>1, AtTheRoot DEF IInv, Shape, Complete, Inner
    <3>2. QED
      BY <2>1, <3>1, InContent DEF IInv, Accounted, Live, Owned, Returned
  <2>3. Abstract!Again
    BY <2>1, <2>2 DEF Abstract!Again
  <2>4. QED
    BY <2>3 DEF Abstract!Next
<1>4. CASE Read /\ ~Finish
  <2>1. mode \notin Outcomes /\ mode' \notin Outcomes /\ root' = root
    BY <1>4
    DEF Read, ReadLeaf, FailRead, OpenFrame, ReadKid, CloseFrame, KidReturned, DropDuplicate,
        ReturnTo, KidFailed, InsertPanics, Unwind
  <2>2. QED
    BY <2>1
<1>5. CASE UNCHANGED vars
  BY <1>5 DEF vars, Live, Returned
<1>6. QED
  BY <1>1, <1>2, <1>3, <1>4, <1>5 DEF Next, Finish

(* Seen from its caller, read is all or nothing: every step of a frame is  *)
(* a step of AtomicDecode or none (the safety half of ImplementsAtomic).   *)
THEOREM ReadIsAtomic == Spec => Abstract!Init /\ [][Abstract!Next]_Abstract!vars
<1>1. Init => Abstract!Init
  BY DEF Init, Abstract!Init, Outcomes
<1>2. IInv /\ [Next]_vars => [Abstract!Next]_Abstract!vars
  BY StepRefines
<1>3. QED
  BY Invariant, <1>1, <1>2, PTL DEF Spec
=============================================================================

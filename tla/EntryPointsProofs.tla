-------------------------- MODULE EntryPointsProofs -------------------------
(***************************************************************************)
(* For every set of schemas, amount of input and size limit: the entry     *)
(* points agree on what they accept and on the value, encodings of older   *)
(* schemas decode to their fields and defaults, and deserialize_exact      *)
(* accounts for every byte.  The inductive invariant follows a call along  *)
(* the layout of a full encoding: where a field begins, what has been      *)
(* asked for, what is left of the limit, and what the calls that are over  *)
(* must have returned.                                                     *)
(***************************************************************************)
EXTENDS EntryPoints, Integers, TLAPS, WellFoundedInduction

Values == {Default} \cup (Nat \X Nat)
Outcomes == {"ok", "size_limit", "trailing_bytes"}
Counting == Running /\ Entry \in {"generic", "stream"}

(* The types of the variables, and that a call stays in its input *)
Typed ==
  /\ schema \in Schemas /\ given \in Nat /\ limit \in Nat
  /\ call \in 1 .. Len(Calls) + 1 /\ Len(results) = call - 1
  /\ results \in Seq([outcome : Outcomes, got : Seq(Values)])
  /\ got \in Seq(Values) /\ Len(got) <= Len(schema)
  /\ step \in Nat /\ (Len(got) < Len(schema) => step \in 1 .. Len(Field.reads))
  /\ start \in Nat /\ pos \in Nat /\ remaining \in Nat
  /\ Running => pos <= Visible

(* How far into its field a call is that reads a full encoding *)
Asked == IF Len(got) < Len(schema) THEN Sums(Field.reads)[step - 1] ELSE 0

(* Over the first n fields a call follows the layout of a full encoding. *)
OnCourse(n) ==
  /\ Len(got) <= n =>
       /\ start = EndOf(Len(got)) /\ pos = start + Asked
       /\ remaining = IF Counting THEN limit - pos ELSE limit
  /\ \A i \in 1 .. Len(got) : got[i] = Legacy(n)[i]

(* If no field may be missing, all of the encoding must be there. *)
StrictResult(i) ==
  IF Total > Smaller(limit, given) THEN results[i].outcome = "size_limit"
  ELSE results[i] = [outcome |-> IF Calls[i] = "exact" /\ given > Total
                                 THEN "trailing_bytes" ELSE "ok",
                     got |-> Legacy(Len(schema))]

Strict ==
  ~Tolerant => /\ OnCourse(Len(schema))
               /\ \A i \in 1 .. Len(results) : StrictResult(i)

(* The input is what an older schema wrote, which had the first n fields. *)
Old(n) ==
  /\ given = EndOf(n) /\ limit >= given
  /\ \A i \in n + 1 .. Len(schema) : schema[i].kind = "tail"

(* It is decoded up to its end, and defaults stand for the rest. *)
OldCourse(n) ==
  /\ OnCourse(n)
  /\ Len(got) >= n => pos = given /\ step = 1
  /\ \A i \in 1 .. Len(results) : results[i] = [outcome |-> "ok", got |-> Legacy(n)]

Lenient == \A n \in DOMAIN schema : Old(n) => OldCourse(n)

(* The limit or the end of the input lies within field n + 1. *)
Cut(n) == EndOf(n) <= Smaller(limit, given) /\ Smaller(limit, given) < EndOf(n + 1)

(* What a call returns then, with the fields f *)
CutResult(n, o, f) ==
  /\ Len(f) >= n /\ \A k \in 1 .. n : f[k] = Legacy(n)[k]
  /\ IF schema[n + 1].kind = "tail" THEN Len(f) > n /\ f[n + 1] = Default
     ELSE o = "size_limit" /\ Len(f) = n
  /\ (\A k \in n + 1 .. Len(schema) : schema[k].kind = "tail") => o # "size_limit"

(* A call follows the layout up to there; it gets further by a default. *)
CutCourse(n) ==
  /\ Len(got) <= n => OnCourse(n + 1)
  /\ \A k \in 1 .. n : k <= Len(got) => got[k] = Legacy(n)[k]
  /\ Len(got) > n => schema[n + 1].kind = "tail" /\ got[n + 1] = Default
  /\ \A i \in 1 .. Len(results) : CutResult(n, results[i].outcome, results[i].got)

Cuts == \A n \in 0 .. Len(schema) - 1 : Cut(n) => CutCourse(n)

ExactWithinLimit ==
  \A i \in 1 .. Len(results) :
    Calls[i] = "exact" /\ results[i].outcome = "ok" => given <= limit

IInv == Typed /\ Strict /\ Lenient /\ Cuts /\ ExactWithinLimit

-----------------------------------------------------------------------------
(* Sums *)

(* A set of numbers that has a member has a least one. *)
LEMMA LeastNumber ==
  ASSUME NEW T, T \subseteq Nat, T # {}
  PROVE  \E x \in T : \A y \in T : x <= y
<1> DEFINE R == {ss \in Nat \X Nat : ss[1] < ss[2]}
<1>1. OpToRel(<, Nat) = R
  BY DEF OpToRel
<1>2. IsWellFoundedOn(R, Nat)
  BY NatLessThanWellFounded, <1>1
<1> HIDE DEF R
<1>3. PICK x \in T : \A y \in T : <<y, x>> \notin R
  BY <1>2, WFMin, Zenon
<1>4. ASSUME NEW y \in T
      PROVE  x <= y
  <2>1. x \in Nat /\ y \in Nat /\ <<y, x>> \in Nat \X Nat
    OBVIOUS
  <2>2. y < x => <<y, x>> \in R
    BY <2>1 DEF R
  <2> QED
    BY <1>3, <2>1, <2>2
<1> QED
  BY <1>4

(* Induction, with a set in the place of the predicate *)
LEMMA FromZero ==
  ASSUME NEW S, 0 \in S, \A k \in Nat : k \in S => k + 1 \in S
  PROVE  Nat \subseteq S
<1> SUFFICES ASSUME Nat \ S # {}
             PROVE  FALSE
  OBVIOUS
<1>1. PICK x \in Nat \ S : \A y \in Nat \ S : x <= y
  BY LeastNumber
<1>2. x # 0 /\ x - 1 \in Nat /\ ~(x <= x - 1)
  BY <1>1
<1>3. x - 1 \in S
  BY <1>1, <1>2
<1>4. (x - 1) + 1 = x
  BY <1>2
<1> QED
  BY <1>1, <1>2, <1>3, <1>4

LEMMA SumsFacts ==
  ASSUME NEW seq \in Seq(Nat)
  PROVE  LET sum == Sums(seq) IN
         /\ sum \in [0 .. Len(seq) -> Nat] /\ sum[0] = 0
         /\ \A k \in 1 .. Len(seq) : sum[k] = sum[k - 1] + seq[k]
<1> DEFINE L == Len(seq)
           Equation(f, l) == f = [k \in 0 .. l |-> IF k = 0 THEN 0 ELSE f[k - 1] + seq[k]]
           S == {l \in Nat : l <= L => \E f \in [0 .. l -> Nat] : Equation(f, l)}
<1>1. L \in Nat /\ \A k \in 1 .. L : seq[k] \in Nat
  OBVIOUS
<1> HIDE DEF L
<1>2. 0 \in S
  <2> DEFINE f == [k \in 0 .. 0 |-> 0]
  <2>1. f \in [0 .. 0 -> Nat] /\ Equation(f, 0)
    OBVIOUS
  <2> HIDE DEF f
  <2> QED
    BY <2>1
<1>3. ASSUME NEW l \in Nat, l \in S
      PROVE  l + 1 \in S
  <2> SUFFICES ASSUME l + 1 <= L
               PROVE  \E f \in [0 .. l + 1 -> Nat] : Equation(f, l + 1)
    <3> HIDE DEF Equation
    <3> QED
      OBVIOUS
  <2>1. l <= L /\ l + 1 \in 1 .. L
    BY <1>1
  <2>2. PICK f \in [0 .. l -> Nat] : Equation(f, l)
    BY <1>3, <2>1
  <2> DEFINE g == [k \in 0 .. l + 1 |-> IF k = l + 1 THEN f[l] + seq[l + 1] ELSE f[k]]
  <2>3. f[l] \in Nat /\ seq[l + 1] \in Nat
    BY <1>1, <2>1
  <2>4. g \in [0 .. l + 1 -> Nat]
    BY <2>3
  <2>5. ASSUME NEW k \in 0 .. l + 1
        PROVE  g[k] = IF k = 0 THEN 0 ELSE g[k - 1] + seq[k]
    <3>1. CASE k = l + 1
      <4>1. k # 0 /\ k - 1 = l /\ l \in 0 .. l + 1 /\ l # l + 1
        BY <3>1
      <4>2. g[k] = f[l] + seq[l + 1] /\ g[l] = f[l]
        BY <3>1, <4>1
      <4> HIDE DEF g
      <4> QED
        BY <3>1, <4>1, <4>2
    <3>2. CASE k # l + 1
      <4>1. k \in 0 .. l
        BY <3>2
      <4>2. f[k] = IF k = 0 THEN 0 ELSE f[k - 1] + seq[k]
        BY <2>2, <4>1
      <4>3. g[k] = f[k]
        BY <3>2
      <4>4. k # 0 => k - 1 \in 0 .. l + 1 /\ k - 1 # l + 1
        BY <4>1
      <4>5. k # 0 => g[k - 1] = f[k - 1]
        BY <4>4
      <4> HIDE DEF g
      <4> QED
        BY <4>2, <4>3, <4>5
    <3> QED
      BY <3>1, <3>2
  <2>6. Equation(g, l + 1)
    <3>1. g = [k \in 0 .. l + 1 |-> g[k]]
      OBVIOUS
    <3> HIDE DEF g
    <3> QED
      BY <2>5, <3>1
  <2> HIDE DEF g
  <2> QED
    BY <2>4, <2>6
<1>4. \E f \in [0 .. L -> Nat] : Equation(f, L)
  <2>1. L \in S
    <3> HIDE DEF S
    <3> QED
      BY <1>1, <1>2, <1>3, FromZero
  <2> QED
    BY <1>1, <2>1
<1>5. Equation(Sums(seq), L)
  <2>1. Sums(seq) = CHOOSE f : Equation(f, L)
    BY DEF Sums, L
  <2> HIDE DEF Equation
  <2>2. Equation(CHOOSE f : Equation(f, L), L)
    BY <1>4
  <2> QED
    BY <2>1, <2>2
<1>6. \A k \in 0 .. L : Sums(seq)[k] = IF k = 0 THEN 0 ELSE Sums(seq)[k - 1] + seq[k]
  BY <1>5
<1>7. DOMAIN Sums(seq) = 0 .. L /\ Sums(seq) = [k \in 0 .. L |-> Sums(seq)[k]]
  BY <1>5
<1> DEFINE T == {k \in Nat : k <= L => Sums(seq)[k] \in Nat}
<1>8. 0 \in T
  BY <1>1, <1>6
<1>9. ASSUME NEW k \in Nat, k \in T
      PROVE  k + 1 \in T
  <2> SUFFICES ASSUME k + 1 <= L PROVE Sums(seq)[k + 1] \in Nat
    OBVIOUS
  <2>1. k <= L /\ k + 1 \in 0 .. L /\ k + 1 # 0 /\ (k + 1) - 1 = k /\ k + 1 \in 1 .. L
    BY <1>1
  <2>2. Sums(seq)[k] \in Nat /\ seq[k + 1] \in Nat
    BY <1>1, <1>9, <2>1
  <2>3. Sums(seq)[k + 1] = Sums(seq)[k] + seq[k + 1]
    BY <1>6, <2>1
  <2> QED
    BY <2>2, <2>3
<1>10. Nat \subseteq T
  <2> HIDE DEF T
  <2> QED
    BY <1>8, <1>9, FromZero
<1>11. \A k \in 0 .. L : Sums(seq)[k] \in Nat
  BY <1>1, <1>10
<1>12. Sums(seq) \in [0 .. L -> Nat]
  BY <1>7, <1>11
<1>13. Sums(seq)[0] = 0
  BY <1>1, <1>6
<1>14. \A k \in 1 .. L : Sums(seq)[k] = Sums(seq)[k - 1] + seq[k]
  BY <1>1, <1>6
<1> QED
  BY <1>12, <1>13, <1>14 DEF L

LEMMA SumsGrow ==
  ASSUME NEW seq \in Seq(Nat), NEW j \in 0 .. Len(seq), NEW k \in j .. Len(seq)
  PROVE  Sums(seq)[j] <= Sums(seq)[k]
<1> DEFINE sum == Sums(seq)
           L == Len(seq)
           S == {d \in Nat : j + d <= L => sum[j] <= sum[j + d]}
<1>1. /\ sum \in [0 .. L -> Nat] /\ L \in Nat
      /\ \A i \in 1 .. L : sum[i] = sum[i - 1] + seq[i]
      /\ \A i \in 1 .. L : seq[i] \in Nat
  BY SumsFacts
<1> HIDE DEF sum, L
<1>2. j \in Nat /\ j <= L /\ k \in Nat /\ k - j \in Nat /\ j + (k - j) = k /\ k <= L
  BY <1>1 DEF L
<1>3. 0 \in S
  <2>1. j + 0 = j /\ sum[j] \in Nat
    BY <1>1, <1>2
  <2> QED
    BY <2>1
<1>4. ASSUME NEW d \in Nat, d \in S
      PROVE  d + 1 \in S
  <2> SUFFICES ASSUME j + (d + 1) <= L PROVE sum[j] <= sum[j + (d + 1)]
    OBVIOUS
  <2> DEFINE i == j + (d + 1)
  <2>1. i \in 1 .. L /\ i - 1 = j + d /\ j + d <= L /\ i - 1 \in 0 .. L
    BY <1>1, <1>2
  <2>2. sum[i] = sum[i - 1] + seq[i] /\ sum[i - 1] \in Nat /\ seq[i] \in Nat
    BY <1>1, <2>1
  <2>3. sum[j] <= sum[i - 1] /\ sum[j] \in Nat
    BY <1>1, <1>2, <1>4, <2>1
  <2> HIDE DEF i
  <2>4. sum[j] <= sum[i]
    BY <2>2, <2>3
  <2> QED
    BY <2>4 DEF i
<1>5. k - j \in S
  <2> HIDE DEF S
  <2> QED
    BY <1>2, <1>3, <1>4, FromZero
<1> QED
  BY <1>2, <1>5 DEF sum

-----------------------------------------------------------------------------
(* The layout of a full encoding *)

LEMMA LayoutFacts ==
  ASSUME schema \in Schemas
  PROVE  /\ Len(schema) \in Nat
         /\ \A i \in 1 .. Len(schema) :
              /\ schema[i].reads \in Seq(Nat) /\ Len(schema[i].reads) > 0
              /\ \A k \in 1 .. Len(schema[i].reads) : schema[i].reads[k] > 0
              /\ Size(i) \in Nat
         /\ EndOf(0) = 0
         /\ \A i \in 0 .. Len(schema) : EndOf(i) \in Nat
         /\ \A i \in 1 .. Len(schema) : EndOf(i) = EndOf(i - 1) + Size(i)
         /\ \A i \in 0 .. Len(schema) : \A j \in i .. Len(schema) : EndOf(i) <= EndOf(j)
<1> DEFINE L == Len(schema)
           sizes == [k \in 1 .. L |-> Size(k)]
<1>1. schema \in Seq([kind : Kinds, reads : Seq(Nat \ {0}) \ {<<>>}])
  BY EntryAssumption
<1>2. L \in Nat
  BY <1>1
<1>3. ASSUME NEW i \in 1 .. L
      PROVE  /\ schema[i].reads \in Seq(Nat) /\ Len(schema[i].reads) > 0
             /\ \A k \in 1 .. Len(schema[i].reads) : schema[i].reads[k] > 0
             /\ Size(i) \in Nat
  <2> DEFINE reads == schema[i].reads
  <2>1. reads \in Seq(Nat \ {0}) /\ reads # <<>>
    <3> DEFINE Fields == [kind : Kinds, reads : Seq(Nat \ {0}) \ {<<>>}]
    <3>1. schema[i] \in Fields
      <4> HIDE DEF Fields
      <4>1. schema \in Seq(Fields)
        BY <1>1 DEF Fields
      <4> QED
        BY <4>1
    <3> QED
      BY <3>1
  <2> HIDE DEF reads
  <2>2. reads \in Seq(Nat) /\ Len(reads) \in Nat /\ Len(reads) > 0
        /\ \A k \in 1 .. Len(reads) : reads[k] > 0
    BY <2>1
  <2>3. Sums(reads)[Len(reads)] \in Nat
    <3>1. Sums(reads) \in [0 .. Len(reads) -> Nat] /\ Len(reads) \in 0 .. Len(reads)
      BY <2>2, SumsFacts
    <3> QED
      BY <3>1
  <2> QED
    BY <2>2, <2>3 DEF Size, reads
<1>4. sizes \in Seq(Nat) /\ Len(sizes) = L /\ \A i \in 1 .. L : sizes[i] = Size(i)
  <2>1. \A i \in 1 .. L : Size(i) \in Nat
    BY <1>3
  <2> QED
    BY <1>2, <2>1
<1>5. \A i : EndOf(i) = Sums(sizes)[i]
  BY DEF EndOf
<1> HIDE DEF sizes, L
<1>6. /\ Sums(sizes) \in [0 .. L -> Nat] /\ Sums(sizes)[0] = 0
      /\ \A k \in 1 .. L : Sums(sizes)[k] = Sums(sizes)[k - 1] + sizes[k]
  BY <1>4, SumsFacts
<1>7. \A i \in 0 .. L : \A j \in i .. L : Sums(sizes)[i] <= Sums(sizes)[j]
  BY <1>4, SumsGrow
<1>8. \A i \in 0 .. L : EndOf(i) \in Nat
  BY <1>5, <1>6
<1>9. \A i \in 1 .. L : EndOf(i) = EndOf(i - 1) + Size(i)
  BY <1>4, <1>5, <1>6
<1>10. \A i \in 0 .. L : \A j \in i .. L : EndOf(i) <= EndOf(j)
  BY <1>5, <1>7
<1> QED
  BY <1>2, <1>3, <1>5, <1>6, <1>8, <1>9, <1>10 DEF L

LEMMA SameLayout ==
  ASSUME UNCHANGED inputs
  PROVE  /\ \A i : EndOf(i)' = EndOf(i)
         /\ \A n : Legacy(n)' = Legacy(n) /\ (Old(n)' <=> Old(n))
         /\ Total' = Total /\ (Tolerant' <=> Tolerant)
<1>1. \A i : EndOf(i)' = EndOf(i)
  BY DEF inputs, EndOf, Size
<1> QED
  BY <1>1 DEF inputs, Legacy, Old, Total, Tolerant

(* The request that comes next, and where it ends *)
LEMMA NextRequest ==
  ASSUME Typed, Len(got) < Len(schema)
  PROVE  LET i == Len(got) + 1
             n == Field.reads[step]
             f == Sums(Field.reads)
         IN /\ i \in 1 .. Len(schema) /\ i - 1 = Len(got)
            /\ n \in Nat /\ n > 0
            /\ f[step - 1] \in Nat /\ Asked = f[step - 1]
            /\ f[step] \in Nat /\ f[step] = f[step - 1] + n
            /\ f[step] <= Size(i) /\ Size(i) \in Nat
            /\ step = Len(Field.reads) => f[step] = Size(i)
            /\ EndOf(i - 1) \in Nat /\ EndOf(i) = EndOf(i - 1) + Size(i)
<1> DEFINE i == Len(got) + 1
           R == Field.reads
           f == Sums(R)
<1>1. schema \in Schemas /\ Len(got) \in Nat /\ Len(schema) \in Nat
  BY LayoutFacts DEF Typed
<1>2. i \in 1 .. Len(schema) /\ i - 1 = Len(got) /\ i - 1 \in 0 .. Len(schema)
  BY <1>1
<1>3. R = schema[i].reads
  BY DEF Field
<1> HIDE DEF R
<1>4. /\ R \in Seq(Nat) /\ Len(R) \in Nat /\ Len(R) > 0 /\ \A k \in 1 .. Len(R) : R[k] > 0
      /\ Size(i) \in Nat /\ EndOf(i - 1) \in Nat /\ EndOf(i) = EndOf(i - 1) + Size(i)
  BY <1>1, <1>2, <1>3, LayoutFacts
<1>5. step \in 1 .. Len(R)
  BY DEF Typed, R
<1>6. step - 1 \in 0 .. Len(R) /\ step \in 0 .. Len(R) /\ Len(R) \in step .. Len(R)
  BY <1>4, <1>5
<1>7. f \in [0 .. Len(R) -> Nat] /\ \A k \in 1 .. Len(R) : f[k] = f[k - 1] + R[k]
  BY <1>4, SumsFacts
<1>8. f[step] <= f[Len(R)]
  BY <1>4, <1>6, SumsGrow
<1>9. Size(i) = f[Len(R)]
  BY <1>3 DEF Size
<1>10. Asked = f[step - 1]
  BY DEF Asked, R
<1> HIDE DEF f
<1>11. R[step] \in Nat /\ R[step] > 0
  BY <1>4, <1>5
<1>12. f[step - 1] \in Nat /\ f[step] \in Nat /\ f[step] = f[step - 1] + R[step]
  BY <1>5, <1>6, <1>7
<1> QED
  BY <1>2, <1>4, <1>8, <1>9, <1>10, <1>11, <1>12 DEF R, f

-----------------------------------------------------------------------------
(* Types *)

LEMMA Appended ==
  ASSUME NEW V, NEW s \in Seq(V), NEW x \in V
  PROVE  /\ Append(s, x) \in Seq(V) /\ Len(Append(s, x)) = Len(s) + 1 /\ Len(s) \in Nat
         /\ \A i \in 1 .. Len(s) : Append(s, x)[i] = s[i]
         /\ Append(s, x)[Len(s) + 1] = x
OBVIOUS

LEMMA CallFacts ==
  /\ Len(Calls) = 5 /\ Calls[1] = "slice" /\ Calls[2] = "mut" /\ Calls[3] = "exact"
  /\ Calls[4] = "generic" /\ Calls[5] = "stream"
BY DEF Calls

LEMMA VisibleFacts ==
  ASSUME Typed
  PROVE  Visible \in Nat /\ Visible <= given
         /\ (~Counting /\ Running => Visible = Smaller(limit, given) /\ Visible <= limit)
         /\ (Counting => Visible = given)
BY DEF Typed, Visible, Smaller, Counting

(* A call returns. *)
LEMMA Returns ==
  ASSUME Typed, Running, UNCHANGED inputs, NEW o \in Outcomes, Done(o)
  PROVE  /\ Typed' /\ Len(got') = 0 /\ step' = 1
         /\ Len(results') = call /\ call \in 1 .. Len(Calls) /\ Len(results) = call - 1
         /\ \A i \in 1 .. Len(results) : results'[i] = results[i]
         /\ results'[call] = [outcome |-> o, got |-> got]
         /\ \A n \in Nat : OnCourse(n)'
<1>1. /\ schema \in Schemas /\ given \in Nat /\ limit \in Nat
      /\ call \in 1 .. Len(Calls) + 1 /\ Len(results) = call - 1
      /\ results \in Seq([outcome : Outcomes, got : Seq(Values)])
      /\ got \in Seq(Values)
  BY DEF Typed
<1>2. call \in 1 .. Len(Calls) /\ call + 1 \in 1 .. Len(Calls) + 1 /\ (call + 1) - 1 = call
      /\ (call - 1) + 1 = call
  BY <1>1, CallFacts DEF Running
<1>3. /\ results' = Append(results, [outcome |-> o, got |-> got])
      /\ call' = call + 1 /\ step' = 1 /\ start' = 0 /\ pos' = 0 /\ remaining' = limit
      /\ got' = <<>> /\ schema' = schema /\ given' = given /\ limit' = limit
  BY DEF Done, inputs
<1>4. [outcome |-> o, got |-> got] \in [outcome : Outcomes, got : Seq(Values)]
  BY <1>1
<1>5. /\ results' \in Seq([outcome : Outcomes, got : Seq(Values)])
      /\ Len(results') = call
      /\ \A i \in 1 .. Len(results) : results'[i] = results[i]
      /\ results'[call] = [outcome |-> o, got |-> got]
  <2> DEFINE V == [outcome : Outcomes, got : Seq(Values)]
             x == [outcome |-> o, got |-> got]
  <2>1. results \in Seq(V) /\ x \in V
    BY <1>1, <1>4
  <2> HIDE DEF V, x
  <2>2. /\ Append(results, x) \in Seq(V) /\ Len(Append(results, x)) = Len(results) + 1
        /\ \A i \in 1 .. Len(results) : Append(results, x)[i] = results[i]
        /\ Append(results, x)[Len(results) + 1] = x
    BY <2>1, Appended
  <2>3. results' = Append(results, x)
    BY <1>3 DEF x
  <2> QED
    BY <1>1, <1>2, <2>2, <2>3 DEF V, x
<1>6. got' \in Seq(Values) /\ Len(got') = 0
  BY <1>3
<1>7. Len(schema') \in Nat /\ EndOf(0)' = 0
  BY <1>1, <1>3, LayoutFacts, SameLayout
<1>8. ASSUME Len(got') < Len(schema')
      PROVE  step' \in 1 .. Len(Field'.reads) /\ Sums(Field.reads)[step - 1]' = 0
  <2>1. Field' = schema[1] /\ 1 \in 1 .. Len(schema)
    BY <1>1, <1>3, <1>6, <1>7, <1>8 DEF Field
  <2>2. schema[1].reads \in Seq(Nat) /\ Len(schema[1].reads) > 0
    BY <1>1, <2>1, LayoutFacts
  <2>3. Sums(schema[1].reads)[0] = 0
    BY <2>2, SumsFacts
  <2> QED
    BY <1>3, <2>1, <2>2, <2>3
<1>9. Running' => pos' <= Visible'
  BY <1>1, <1>3 DEF Visible, Smaller
<1>10. Typed'
  BY <1>1, <1>2, <1>3, <1>5, <1>6, <1>7, <1>8, <1>9 DEF Typed
<1>11. ASSUME NEW n \in Nat
       PROVE  OnCourse(n)'
  <2>1. Asked' = 0
    BY <1>8 DEF Asked
  <2>2. limit' - pos' = limit /\ remaining' = limit
    BY <1>1, <1>3
  <2>3. \A i : i \notin 1 .. Len(got')
    BY <1>6
  <2>4. start' = EndOf(Len(got))' /\ pos' = start' + Asked'
    BY <1>3, <1>6, <1>7, <2>1
  <2> QED
    BY <1>3, <2>2, <2>3, <2>4 DEF OnCourse
<1> QED
  BY <1>1, <1>2, <1>3, <1>5, <1>6, <1>10, <1>11

(* A field is complete, and the call goes on with the next one. *)
LEMMA NextField ==
  ASSUME Typed, Running, Len(got) < Len(schema), UNCHANGED <<inputs, call, results>>,
         NEW x \in Values, got' = Append(got, x), step' = 1, start' \in Nat,
         pos' \in Nat, pos' <= Visible, remaining' \in Nat
  PROVE  /\ Typed' /\ Asked' = 0 /\ Len(got') = Len(got) + 1 /\ Len(got) \in Nat
         /\ got'[Len(got) + 1] = x
         /\ \A i \in 1 .. Len(got) : got'[i] = got[i]
<1>1. /\ schema \in Schemas /\ got \in Seq(Values) /\ Len(schema) \in Nat
      /\ schema' = schema
  BY LayoutFacts DEF Typed, inputs
<1>2. /\ got' \in Seq(Values) /\ Len(got') = Len(got) + 1 /\ Len(got) \in Nat
      /\ \A i \in 1 .. Len(got) : got'[i] = got[i]
      /\ got'[Len(got) + 1] = x
  BY <1>1, Appended
<1>3. ASSUME Len(got') < Len(schema')
      PROVE  step' \in 1 .. Len(Field'.reads) /\ Sums(Field.reads)[step - 1]' = 0
  <2> DEFINE i == Len(got') + 1
  <2>1. Field' = schema[i] /\ i \in 1 .. Len(schema)
    BY <1>1, <1>2, <1>3 DEF Field
  <2> HIDE DEF i
  <2>2. schema[i].reads \in Seq(Nat) /\ Len(schema[i].reads) > 0
    BY <1>1, <2>1, LayoutFacts
  <2>3. Sums(schema[i].reads)[0] = 0
    BY <2>2, SumsFacts
  <2> QED
    BY <2>1, <2>2, <2>3
<1>4. Asked' = 0
  BY <1>3 DEF Asked
<1>5. Visible' = Visible /\ (Running' <=> Running)
  BY DEF Visible, Entry, inputs, Running
<1>6. Len(got') <= Len(schema')
  BY <1>1, <1>2
<1>7. Typed'
  BY <1>1, <1>2, <1>3, <1>5, <1>6 DEF Typed, inputs
<1> QED
  BY <1>2, <1>4, <1>7

LEMMA TakeTyped ==
  ASSUME Typed, Take
  PROVE  Typed'
<1> DEFINE n == Field.reads[step]
<1>1. /\ Running /\ Len(got) < Len(schema)
      /\ Allowed(n) /\ pos + n <= Visible /\ pos' = pos + n /\ remaining' = Charge(n)
      /\ UNCHANGED <<inputs, call, results>>
  BY DEF Take
<1>2. n \in Nat
  BY <1>1, NextRequest
<1>3. pos' \in Nat /\ pos' <= Visible /\ remaining' \in Nat
  <2> HIDE DEF n
  <2> QED
    BY <1>1, <1>2 DEF Typed, Allowed, Charge
<1>4. CASE step < Len(Field.reads)
  <2>1. step' = step + 1 /\ UNCHANGED <<got, start>>
    BY <1>4 DEF Take
  <2>2. step + 1 \in 1 .. Len(Field.reads) /\ step + 1 \in Nat
    <3>1. Field.reads \in Seq(Nat) /\ step \in Nat
      BY <1>1, NextRequest, LayoutFacts DEF Typed, Field
    <3> QED
      BY <1>4, <3>1
  <2>3. Field' = Field /\ Visible' = Visible /\ (Running' <=> Running)
    BY <1>1, <2>1 DEF Field, Visible, Entry, inputs, Running
  <2> QED
    BY <1>1, <1>3, <2>1, <2>2, <2>3 DEF Typed, inputs
<1>5. CASE ~(step < Len(Field.reads))
  <2> DEFINE x == IF Field.kind = "discard" THEN Default ELSE <<start, pos'>>
  <2>1. step' = 1 /\ got' = Append(got, x) /\ start' = pos'
    BY <1>5 DEF Take
  <2>2. x \in Values
    BY <1>3 DEF Typed, Values
  <2> HIDE DEF x
  <2> QED
    BY <1>1, <1>3, <2>1, <2>2, NextField
<1> QED
  BY <1>4, <1>5

LEMMA FallBackFacts ==
  ASSUME Typed, Fails, FallsBack
  PROVE  /\ Typed' /\ Running /\ Len(got) < Len(schema)
         /\ UNCHANGED <<inputs, call, results>>
         /\ pos <= pos' /\ pos' <= Visible /\ pos' \in Nat /\ step' = 1
         /\ Len(got') = Len(got) + 1 /\ got'[Len(got) + 1] = Default
         /\ \A i \in 1 .. Len(got) : got'[i] = got[i]
<1> DEFINE n == Field.reads[step]
<1>1. /\ Running /\ Len(got) < Len(schema) /\ UNCHANGED <<inputs, call, results>>
      /\ pos' \in After(Allowed(n))
      /\ remaining' = IF Allowed(n) THEN Charge(n) ELSE remaining
      /\ got' = Append(got, Default) /\ step' = 1 /\ start' = pos'
  BY DEF Fails
<1>2. n \in Nat
  BY <1>1, NextRequest
<1> HIDE DEF n
<1>3. pos \in Nat /\ given \in Nat /\ pos <= Visible /\ Visible \in Nat /\ Visible <= given
  BY <1>1, VisibleFacts DEF Typed
<1>4. pos <= pos' /\ pos' <= Visible /\ pos' \in Nat
  <2>1. CASE Entry = "mut"
    BY <1>1, <1>3, <2>1 DEF After
  <2>2. CASE Entry = "stream"
    <3>1. Visible = given
      BY <2>2 DEF Visible
    <3>2. After(Allowed(n)) \subseteq pos .. given
      BY <1>3, <2>2, <3>1 DEF After
    <3> QED
      BY <1>1, <1>3, <3>1, <3>2
  <2>3. CASE Entry # "mut" /\ Entry # "stream"
    BY <1>1, <1>3, <2>3 DEF After
  <2> QED
    BY <2>1, <2>2, <2>3
<1>5. remaining' \in Nat
  BY <1>1, <1>2 DEF Typed, Allowed, Charge
<1>6. Default \in Values
  BY DEF Values
<1> QED
  BY <1>1, <1>4, <1>5, <1>6, NextField

LEMMA FailFacts ==
  ASSUME Fails, ~FallsBack
  PROVE  Running /\ Len(got) < Len(schema) /\ UNCHANGED inputs /\ Done("size_limit")
BY DEF Fails

LEMMA ReturnFacts ==
  ASSUME Return
  PROVE  /\ Running /\ Len(got) = Len(schema) /\ UNCHANGED inputs
         /\ Done(IF Entry = "exact" /\ Rest > 0 THEN "trailing_bytes" ELSE "ok")
         /\ (IF Entry = "exact" /\ Rest > 0 THEN "trailing_bytes" ELSE "ok") \in Outcomes
BY DEF Return, Outcomes

LEMMA InitTyped == Init => Typed /\ Len(got) = 0 /\ Len(results) = 0 /\ \A n \in Nat : OnCourse(n)
<1> SUFFICES ASSUME Init PROVE Typed /\ Len(got) = 0 /\ Len(results) = 0 /\ \A n \in Nat : OnCourse(n)
  OBVIOUS
<1>1. /\ schema \in Schemas /\ given \in Nat /\ limit \in Nat
      /\ call = 1 /\ step = 1 /\ start = 0 /\ pos = 0 /\ remaining = limit
      /\ got = <<>> /\ results = <<>>
  BY EntryAssumption DEF Init
<1>2. Len(got) = 0 /\ Len(results) = 0 /\ got \in Seq(Values)
      /\ results \in Seq([outcome : Outcomes, got : Seq(Values)])
  BY <1>1
<1>3. Len(schema) \in Nat /\ EndOf(0) = 0
  BY <1>1, LayoutFacts
<1>4. ASSUME Len(got) < Len(schema)
      PROVE  step \in 1 .. Len(Field.reads) /\ Sums(Field.reads)[step - 1] = 0
  <2>1. Field = schema[1] /\ 1 \in 1 .. Len(schema)
    BY <1>2, <1>3, <1>4 DEF Field
  <2>2. schema[1].reads \in Seq(Nat) /\ Len(schema[1].reads) > 0
    BY <1>1, <2>1, LayoutFacts
  <2>3. Sums(schema[1].reads)[0] = 0
    BY <2>2, SumsFacts
  <2> QED
    BY <1>1, <2>1, <2>2, <2>3
<1>5. pos <= Visible
  BY <1>1 DEF Visible, Smaller
<1>6. call \in 1 .. Len(Calls) + 1
  BY <1>1, CallFacts
<1>7. Typed
  BY <1>1, <1>2, <1>3, <1>4, <1>5, <1>6 DEF Typed
<1>8. ASSUME NEW n \in Nat
      PROVE  OnCourse(n)
  <2>1. Asked = 0
    BY <1>4 DEF Asked
  <2>2. \A i : i \notin 1 .. Len(got)
    BY <1>2
  <2> QED
    BY <1>1, <1>2, <1>3, <2>1, <2>2 DEF OnCourse
<1> QED
  BY <1>2, <1>7, <1>8

-----------------------------------------------------------------------------
(* On the course of a full encoding *)

(* The two ways to limit a call let the same requests through. *)
LEMMA WouldPass ==
  ASSUME Typed, Running, NEW m \in 1 .. Len(schema), Len(got) < m, OnCourse(m)
  PROVE  LET n == Field.reads[step]
         IN /\ n \in Nat /\ n > 0 /\ pos + n <= EndOf(m) /\ Len(got) < Len(schema)
            /\ (Allowed(n) /\ pos + n <= Visible) <=> pos + n <= Smaller(limit, given)
<1> DEFINE n == Field.reads[step]
           i == Len(got) + 1
           f == Sums(Field.reads)
<1>1. Len(got) \in Nat /\ Len(schema) \in Nat /\ schema \in Schemas /\ pos \in Nat
      /\ given \in Nat /\ limit \in Nat
  BY LayoutFacts DEF Typed
<1>2. Len(got) < Len(schema) /\ Len(got) <= m /\ i \in 0 .. Len(schema) /\ m \in i .. Len(schema)
  BY <1>1
<1>3. /\ i - 1 = Len(got) /\ n \in Nat /\ n > 0 /\ f[step - 1] \in Nat /\ Asked = f[step - 1]
      /\ f[step] \in Nat /\ f[step] = f[step - 1] + n /\ f[step] <= Size(i) /\ Size(i) \in Nat
      /\ EndOf(i - 1) \in Nat /\ EndOf(i) = EndOf(i - 1) + Size(i)
  BY <1>2, NextRequest
<1>4. EndOf(i) <= EndOf(m) /\ EndOf(m) \in Nat
  BY <1>1, <1>2, LayoutFacts
<1>5. start = EndOf(Len(got)) /\ pos = start + Asked
      /\ remaining = IF Counting THEN limit - pos ELSE limit
  BY <1>2 DEF OnCourse
<1> HIDE DEF n, f, i
<1>6. pos + n <= EndOf(m)
  <2>1. pos = EndOf(i - 1) + f[step - 1]
    BY <1>3, <1>5
  <2>2. pos + n = EndOf(i - 1) + f[step]
    BY <1>3, <2>1
  <2>3. pos + n <= EndOf(i)
    BY <1>3, <2>2
  <2> QED
    BY <1>1, <1>3, <1>4, <2>2, <2>3
<1>7. (Allowed(n) /\ pos + n <= Visible) <=> pos + n <= Smaller(limit, given)
  <2>1. CASE Counting
    <3>1. Entry \in {"generic", "stream"} /\ remaining = limit - pos /\ Visible = given
      BY <1>5, <2>1, VisibleFacts DEF Counting
    <3> QED
      BY <1>1, <1>3, <3>1 DEF Allowed, Smaller
  <2>2. CASE ~Counting
    <3>1. Entry \notin {"generic", "stream"} /\ Visible = Smaller(limit, given)
      BY <2>2, VisibleFacts DEF Counting
    <3> QED
      BY <3>1 DEF Allowed
  <2> QED
    BY <2>1, <2>2
<1> QED
  BY <1>2, <1>3, <1>6, <1>7 DEF n

LEMMA TakeOnCourse ==
  ASSUME Typed, Take, NEW m \in 1 .. Len(schema), Len(got) < m, OnCourse(m)
  PROVE  OnCourse(m)' /\ (Len(got') >= m => pos' = EndOf(m) /\ step' = 1)
<1> DEFINE n == Field.reads[step]
           i == Len(got) + 1
           f == Sums(Field.reads)
<1>1. /\ Running /\ Len(got) < Len(schema)
      /\ Allowed(n) /\ pos' = pos + n /\ remaining' = Charge(n)
      /\ UNCHANGED <<inputs, call, results>>
  BY DEF Take
<1>2. Len(got) \in Nat /\ Len(schema) \in Nat /\ schema \in Schemas /\ pos \in Nat
      /\ limit \in Nat /\ m \in Nat /\ step \in Nat /\ start \in Nat
  BY LayoutFacts DEF Typed
<1>3. /\ i \in 1 .. Len(schema) /\ i - 1 = Len(got)
      /\ n \in Nat /\ f[step - 1] \in Nat /\ Asked = f[step - 1]
      /\ f[step] \in Nat /\ f[step] = f[step - 1] + n
      /\ step = Len(Field.reads) => f[step] = Size(i)
      /\ EndOf(i - 1) \in Nat /\ EndOf(i) = EndOf(i - 1) + Size(i)
  BY <1>1, NextRequest
<1>4. /\ start = EndOf(Len(got)) /\ pos = start + Asked
      /\ remaining = IF Counting THEN limit - pos ELSE limit
      /\ \A k \in 1 .. Len(got) : got[k] = Legacy(m)[k]
  BY <1>2 DEF OnCourse
<1>5. \A k : EndOf(k)' = EndOf(k) /\ Legacy(m)' = Legacy(m) /\ schema' = schema
      /\ (Counting' <=> Counting) /\ limit' = limit
  BY <1>1, SameLayout DEF Counting, Running, Entry, inputs
<1> HIDE DEF n, f, i
<1>6. remaining' = IF Counting' THEN limit' - pos' ELSE limit'
  <2>1. remaining' = IF Counting THEN remaining - n ELSE remaining
    BY <1>1 DEF Charge, Counting
  <2>2. CASE Counting
    <3>1. remaining' = (limit - pos) - n
      BY <1>4, <2>1, <2>2
    <3>2. (limit - pos) - n = limit - (pos + n)
      BY <1>2, <1>3
    <3> QED
      BY <1>1, <1>5, <2>2, <3>1, <3>2
  <2>3. CASE ~Counting
    BY <1>4, <1>5, <2>1, <2>3
  <2> QED
    BY <2>2, <2>3
<1>7. CASE step < Len(Field.reads)
  <2>1. step' = step + 1 /\ UNCHANGED <<got, start>>
    BY <1>7 DEF Take
  <2>2. Asked' = f[step]
    <3>1. Field' = Field /\ Len(got') < Len(schema') /\ step' - 1 = step
      BY <1>1, <1>2, <1>5, <2>1 DEF Field
    <3> QED
      BY <3>1 DEF Asked, f
  <2>3. pos' = start' + Asked'
    <3>1. pos' = (start + f[step - 1]) + n /\ start' = start
      BY <1>1, <1>3, <1>4, <2>1
    <3>2. (start + f[step - 1]) + n = start + f[step]
      BY <1>2, <1>3
    <3> QED
      BY <2>2, <3>1, <3>2
  <2>4. ~(Len(got') >= m)
    BY <1>2, <2>1
  <2> QED
    BY <1>4, <1>5, <1>6, <2>1, <2>3, <2>4 DEF OnCourse
<1>8. CASE ~(step < Len(Field.reads))
  <2> DEFINE x == IF Field.kind = "discard" THEN Default ELSE <<start, pos'>>
  <2>1. step' = 1 /\ got' = Append(got, x) /\ start' = pos'
    BY <1>8 DEF Take
  <2>2. step = Len(Field.reads)
    <3>1. Field.reads \in Seq(Nat) /\ step <= Len(Field.reads)
      <4>1. Field.reads = schema[i].reads
        BY DEF Field, i
      <4>2. Field.reads \in Seq(Nat)
        BY <1>2, <1>3, <4>1, LayoutFacts
      <4>3. step \in 1 .. Len(Field.reads)
        BY <1>1 DEF Typed
      <4> QED
        BY <4>2, <4>3
    <3> QED
      BY <1>2, <1>8, <3>1
  <2> HIDE DEF x
  <2>3. pos' = EndOf(i)
    <3>1. start = EndOf(i - 1) /\ pos = start + f[step - 1] /\ f[step - 1] + n = Size(i)
      BY <1>3, <1>4, <2>2
    <3>2. pos' = (EndOf(i - 1) + f[step - 1]) + n
      BY <1>1, <3>1
    <3>3. (EndOf(i - 1) + f[step - 1]) + n = EndOf(i - 1) + Size(i)
      BY <1>3, <3>1
    <3> QED
      BY <1>3, <3>2, <3>3
  <2>4. x \in Values
    BY <1>2, <1>3, <1>1 DEF Values, x
  <2>5. x = Legacy(m)[i]
    <3>1. Field = schema[i] /\ i \in DOMAIN schema /\ i <= m
      BY <1>2, <1>3 DEF Field, i
    <3>2. Legacy(m)[i] = IF i <= m /\ schema[i].kind # "discard"
                         THEN <<EndOf(i - 1), EndOf(i)>> ELSE Default
      BY <3>1 DEF Legacy
    <3> QED
      BY <1>3, <1>4, <2>3, <3>1, <3>2 DEF x
  <2>6. got \in Seq(Values)
    BY DEF Typed
  <2>7. /\ Len(got') = i /\ got'[i] = x /\ \A k \in 1 .. Len(got) : got'[k] = got[k]
    BY <2>1, <2>4, <2>6, Appended DEF i
  <2>8. \A k \in 1 .. Len(got') : got'[k] = Legacy(m)'[k]
    <3>1. \A k \in 1 .. i : k = i \/ k \in 1 .. Len(got)
      BY <1>2 DEF i
    <3> QED
      BY <1>4, <1>5, <2>5, <2>7, <3>1
  <2>9. Asked' = 0
    <3>1. ASSUME Len(got') < Len(schema')
          PROVE  Sums(Field.reads)[step - 1]' = 0
      <4> DEFINE j == Len(got') + 1
      <4>1. Field' = schema[j]
        BY <1>5 DEF Field
      <4>2. j \in 1 .. Len(schema)
        <5>1. Len(got') = i /\ Len(got') < Len(schema) /\ i \in Nat /\ Len(schema) \in Nat
          BY <1>2, <1>3, <1>5, <2>7, <3>1
        <5> HIDE DEF i
        <5> QED
          BY <5>1
      <4> HIDE DEF j
      <4>3. Sums(schema[j].reads)[0] = 0
        BY <1>2, <4>2, LayoutFacts, SumsFacts
      <4> QED
        BY <2>1, <4>1, <4>3
    <3> QED
      BY <3>1 DEF Asked
  <2>10. start' = EndOf(Len(got))' /\ pos' = start' + Asked'
    <3>1. EndOf(Len(got))' = EndOf(i)
      BY <1>5, <2>7
    <3>2. pos' \in Nat
      BY <1>1, <1>2, <1>3
    <3> QED
      BY <2>1, <2>3, <2>9, <3>1, <3>2
  <2>11. Len(got') >= m => pos' = EndOf(m) /\ step' = 1
    <3>1. Len(got') >= m => i = m
      BY <1>2, <2>7 DEF i
    <3> QED
      BY <2>1, <2>3, <3>1
  <2> QED
    BY <1>6, <2>8, <2>10, <2>11 DEF OnCourse
<1> QED
  BY <1>7, <1>8

-----------------------------------------------------------------------------
(* The inductive invariant *)

LEMMA TypedStep == Typed /\ [Next]_vars => Typed'
<1> SUFFICES ASSUME Typed, [Next]_vars PROVE Typed'
  OBVIOUS
<1>1. CASE Take
  BY <1>1, TakeTyped
<1>2. CASE Fails /\ FallsBack
  BY <1>2, FallBackFacts
<1>3. CASE Fails /\ ~FallsBack
  <2>1. "size_limit" \in Outcomes
    BY DEF Outcomes
  <2> QED
    BY <1>3, <2>1, FailFacts, Returns
<1>4. CASE Return
  BY <1>4, ReturnFacts, Returns
<1>5. CASE UNCHANGED vars
  BY <1>5 DEF vars, inputs, Typed, Field, Running, Visible, Entry
<1> QED
  BY <1>1, <1>2, <1>3, <1>4, <1>5 DEF Next

LEMMA WholeGot ==
  ASSUME Typed, NEW n \in Nat, Len(got) = Len(schema),
         \A i \in 1 .. Len(got) : got[i] = Legacy(n)[i]
  PROVE  got = Legacy(n)
<1>1. got \in Seq(Values) /\ DOMAIN schema = 1 .. Len(schema)
  BY LayoutFacts, EntryAssumption DEF Typed
<1>2. got = [i \in 1 .. Len(got) |-> got[i]]
  BY <1>1
<1>3. Legacy(n) = [i \in 1 .. Len(got) |-> Legacy(n)[i]]
  BY <1>1 DEF Legacy
<1> QED
  BY <1>2, <1>3

(* Without fields that may be missing, all of the encoding must be there. *)
LEMMA StrictStep ==
  ASSUME Typed, Typed', Strict, [Next]_vars
  PROVE  Strict'
<1>1. UNCHANGED inputs
  BY DEF Next, Take, Fails, Return, vars, inputs
<1>2. /\ (Tolerant' <=> Tolerant) /\ Total' = Total /\ schema' = schema /\ given' = given
      /\ limit' = limit /\ \A n : Legacy(n)' = Legacy(n)
  BY <1>1, SameLayout DEF inputs
<1>3. Len(schema) \in Nat
  BY LayoutFacts DEF Typed
<1> SUFFICES ASSUME ~Tolerant, NEW L \in Nat, L = Len(schema)
             PROVE  OnCourse(L)' /\ \A i \in 1 .. Len(results') : StrictResult(i)'
  BY <1>2, <1>3 DEF Strict
<1>4. OnCourse(L) /\ \A i \in 1 .. Len(results) : StrictResult(i)
  BY DEF Strict
<1>5. /\ schema \in Schemas /\ L \in Nat /\ Len(got) \in Nat /\ Len(got) <= L /\ Total \in Nat
      /\ given \in Nat /\ limit \in Nat /\ pos \in Nat
  <2>1. schema \in Schemas /\ L \in 0 .. Len(schema) /\ Total = EndOf(L)
    BY DEF Typed, Total
  <2>2. Total \in Nat
    BY <2>1, LayoutFacts
  <2> QED
    BY <2>1, <2>2 DEF Typed
<1>6. Total = EndOf(L)
  BY DEF Total
<1>7. ASSUME NEW o \in Outcomes, Running, Done(o),
             IF Total > Smaller(limit, given) THEN o = "size_limit"
             ELSE /\ o = IF Entry = "exact" /\ given > Total THEN "trailing_bytes" ELSE "ok"
                  /\ got = Legacy(L)
      PROVE  OnCourse(L)' /\ \A i \in 1 .. Len(results') : StrictResult(i)'
  <2>1. /\ Len(results') = call /\ call \in 1 .. Len(Calls) /\ Len(results) = call - 1
        /\ \A i \in 1 .. Len(results) : results'[i] = results[i]
        /\ results'[call] = [outcome |-> o, got |-> got]
        /\ \A n \in Nat : OnCourse(n)'
    BY <1>1, <1>7, Returns
  <2>2. ASSUME NEW i \in 1 .. Len(results)
        PROVE  StrictResult(i)'
    BY <1>2, <1>4, <2>1, <2>2 DEF StrictResult
  <2>3. ASSUME NEW i, i = call
        PROVE  StrictResult(i)'
    <3>1. CASE Total > Smaller(limit, given)
      BY <1>2, <1>7, <2>1, <2>3, <3>1 DEF StrictResult
    <3>2. CASE ~(Total > Smaller(limit, given))
      <4>1. o = IF Calls[call] = "exact" /\ given > Total THEN "trailing_bytes" ELSE "ok"
        BY <1>7, <3>2 DEF Entry
      <4>2. results'[call] = [outcome |-> o, got |-> Legacy(L)]
        BY <1>7, <2>1, <3>2
      <4> QED
        BY <1>2, <2>1, <2>3, <3>2, <4>1, <4>2 DEF StrictResult
    <3> QED
      BY <3>1, <3>2
  <2>4. \A i \in 1 .. Len(results') : i = call \/ i \in 1 .. Len(results)
    BY <2>1, CallFacts
  <2>5. OnCourse(L)'
    BY <1>5, <2>1
  <2> QED
    BY <2>2, <2>3, <2>4, <2>5
<1>8. CASE Take
  <2>1. Len(got) < L /\ L \in 1 .. L
    BY <1>5, <1>8 DEF Take
  <2>2. OnCourse(L)'
    BY <1>4, <1>8, <2>1, TakeOnCourse
  <2>3. results' = results
    BY <1>8 DEF Take
  <2> QED
    BY <1>2, <1>4, <2>2, <2>3 DEF StrictResult
<1>9. CASE Fails
  <2> DEFINE n == Field.reads[step]
  <2>1. Running /\ Len(got) < L /\ ~(Allowed(n) /\ pos + n <= Visible)
    BY <1>9 DEF Fails
  <2>2. L \in 1 .. L /\ Len(got) + 1 \in DOMAIN schema
    BY <1>5, <2>1
  <2>3. ~FallsBack
    BY <2>2 DEF Tolerant, FallsBack, Field
  <2>4. /\ n \in Nat /\ pos + n <= EndOf(L)
        /\ (Allowed(n) /\ pos + n <= Visible) <=> pos + n <= Smaller(limit, given)
    BY <1>4, <2>1, <2>2, WouldPass
  <2>5. Total > Smaller(limit, given)
    BY <1>5, <1>6, <2>1, <2>4 DEF Smaller
  <2>6. "size_limit" \in Outcomes /\ Done("size_limit")
    BY <1>9, <2>3, FailFacts DEF Outcomes
  <2> QED
    BY <1>7, <2>1, <2>5, <2>6
<1>10. CASE Return
  <2> DEFINE o == IF Entry = "exact" /\ Rest > 0 THEN "trailing_bytes" ELSE "ok"
  <2>1. Running /\ Len(got) = L /\ Done(o) /\ o \in Outcomes
    BY <1>10, ReturnFacts
  <2>2. /\ start = EndOf(L) /\ pos = start + Asked
        /\ remaining = IF Counting THEN limit - pos ELSE limit
        /\ \A i \in 1 .. Len(got) : got[i] = Legacy(L)[i]
    BY <1>4, <1>5, <2>1 DEF OnCourse
  <2>3. pos = Total
    BY <1>5, <1>6, <2>1, <2>2 DEF Asked
  <2>4. pos <= limit /\ pos <= given
    <3>1. pos <= Visible /\ Visible <= given /\ Visible \in Nat
      BY <2>1, VisibleFacts DEF Typed
    <3>2. remaining \in Nat
      BY DEF Typed
    <3>3. CASE Counting
      BY <1>5, <2>2, <3>1, <3>2, <3>3
    <3>4. CASE ~Counting
      BY <1>5, <2>1, <3>1, <3>4, VisibleFacts
    <3> QED
      BY <3>3, <3>4
  <2>5. ~(Total > Smaller(limit, given))
    BY <1>5, <2>3, <2>4 DEF Smaller
  <2>6. got = Legacy(L)
    BY <1>5, <2>1, <2>2, WholeGot
  <2>7. Rest > 0 <=> given > Total
    BY <1>5, <2>3, <2>4 DEF Rest
  <2> QED
    BY <1>7, <2>1, <2>5, <2>6, <2>7
<1>11. CASE UNCHANGED vars
  <2>1. OnCourse(L)'
    BY <1>4, <1>11, SameLayout
       DEF vars, inputs, OnCourse, Asked, Field, Counting, Running, Entry
  <2>2. results' = results
    BY <1>11 DEF vars
  <2> QED
    BY <1>2, <1>4, <2>1, <2>2 DEF StrictResult
<1> QED
  BY <1>8, <1>9, <1>10, <1>11 DEF Next

(* An older encoding decodes up to its end, and defaults stand behind it. *)
LEMMA OldStep ==
  ASSUME Typed, Typed', NEW n \in 1 .. Len(schema), Old(n), OldCourse(n), [Next]_vars
  PROVE  OldCourse(n)'
<1>1. UNCHANGED inputs
  BY DEF Next, Take, Fails, Return, vars, inputs
<1>2. /\ schema' = schema /\ given' = given /\ \A k : Legacy(k)' = Legacy(k)
  BY <1>1, SameLayout DEF inputs
<1>3. /\ OnCourse(n) /\ (Len(got) >= n => pos = given /\ step = 1)
      /\ \A i \in 1 .. Len(results) : results[i] = [outcome |-> "ok", got |-> Legacy(n)]
  BY DEF OldCourse
<1>4. /\ schema \in Schemas /\ Len(schema) \in Nat /\ Len(got) \in Nat /\ Len(got) <= Len(schema)
      /\ given \in Nat /\ limit \in Nat /\ pos \in Nat /\ n \in Nat /\ n > 0
  <2>1. schema \in Schemas /\ Len(schema) \in Nat
    BY LayoutFacts DEF Typed
  <2>2. n \in Nat /\ n > 0
    BY <2>1
  <2> QED
    BY <2>1, <2>2 DEF Typed
<1>5. given = EndOf(n) /\ given <= limit
      /\ \A i \in n + 1 .. Len(schema) : schema[i].kind = "tail"
  BY <1>4 DEF Old
<1>6. ASSUME Len(got) < n, Running
      PROVE  LET r == Field.reads[step] IN Allowed(r) /\ pos + r <= Visible
  <2> DEFINE r == Field.reads[step]
  <2>1. /\ r \in Nat /\ pos + r <= EndOf(n)
        /\ (Allowed(r) /\ pos + r <= Visible) <=> pos + r <= Smaller(limit, given)
    BY <1>3, <1>6, WouldPass
  <2>2. Smaller(limit, given) = given
    BY <1>4, <1>5 DEF Smaller
  <2> QED
    BY <1>5, <2>1, <2>2
<1>7. ASSUME Len(got) >= n, Running, Len(got) < Len(schema)
      PROVE  LET r == Field.reads[step] IN
             /\ ~(pos + r <= Visible) /\ FallsBack /\ Visible <= given
             /\ Legacy(n)[Len(got) + 1] = Default
  <2> DEFINE r == Field.reads[step]
             j == Len(got) + 1
  <2>1. r \in Nat /\ r > 0 /\ pos = given
    BY <1>3, <1>7, NextRequest
  <2>2. Visible \in Nat /\ Visible <= given
    BY VisibleFacts
  <2>3. j \in n + 1 .. Len(schema) /\ ~(j <= n) /\ j \in 1 .. Len(schema)
    BY <1>4, <1>7
  <2>4. FallsBack
    BY <1>5, <2>3 DEF FallsBack, Field
  <2>5. Legacy(n)[j] = Default
    <3>1. j \in DOMAIN schema
      BY <1>4, <2>3, EntryAssumption
    <3> QED
      BY <2>3, <3>1 DEF Legacy
  <2>6. ~(pos + r <= Visible)
    <3> HIDE DEF r
    <3> QED
      BY <1>4, <2>1, <2>2
  <2> QED
    BY <2>2, <2>4, <2>5, <2>6
<1>8. CASE Take
  <2>1. Running /\ Len(got) < Len(schema) /\ pos + Field.reads[step] <= Visible /\ results' = results
    BY <1>8 DEF Take
  <2>2. Len(got) < n
    BY <1>4, <1>7, <2>1
  <2>3. OnCourse(n)' /\ (Len(got') >= n => pos' = EndOf(n) /\ step' = 1)
    BY <1>3, <1>8, <2>2, TakeOnCourse
  <2> QED
    BY <1>2, <1>3, <1>5, <2>1, <2>3 DEF OldCourse
<1>9. CASE Fails
  <2>1. /\ Running /\ Len(got) < Len(schema)
        /\ ~(Allowed(Field.reads[step]) /\ pos + Field.reads[step] <= Visible)
    BY <1>9 DEF Fails
  <2>2. Len(got) >= n
    BY <1>4, <1>6, <2>1
  <2>3. FallsBack /\ Visible <= given /\ Legacy(n)[Len(got) + 1] = Default
    BY <1>7, <2>1, <2>2
  <2>4. /\ results' = results /\ pos <= pos' /\ pos' <= Visible /\ pos' \in Nat /\ step' = 1
        /\ Len(got') = Len(got) + 1 /\ got'[Len(got) + 1] = Default
        /\ \A i \in 1 .. Len(got) : got'[i] = got[i]
    BY <1>9, <2>3, FallBackFacts
  <2>5. pos' = given
    <3>1. Visible \in Nat /\ pos = given
      BY <1>3, <2>2, VisibleFacts
    <3> QED
      BY <1>4, <2>3, <2>4, <3>1
  <2>6. \A i \in 1 .. Len(got') : got'[i] = Legacy(n)[i]
    <3>1. \A i \in 1 .. Len(got') : i = Len(got) + 1 \/ i \in 1 .. Len(got)
      BY <1>4, <2>4
    <3>2. \A i \in 1 .. Len(got) : got[i] = Legacy(n)[i]
      BY <1>3 DEF OnCourse
    <3> QED
      BY <2>3, <2>4, <3>1, <3>2
  <2>7. ~(Len(got') <= n)
    BY <1>4, <2>2, <2>4
  <2>8. OnCourse(n)'
    BY <1>2, <2>6, <2>7 DEF OnCourse
  <2> QED
    BY <1>2, <1>3, <2>4, <2>5, <2>8 DEF OldCourse
<1>10. CASE Return
  <2> DEFINE o == IF Entry = "exact" /\ Rest > 0 THEN "trailing_bytes" ELSE "ok"
  <2>1. Running /\ Len(got) = Len(schema) /\ Done(o) /\ o \in Outcomes
    BY <1>10, ReturnFacts
  <2>2. pos = given /\ \A i \in 1 .. Len(got) : got[i] = Legacy(n)[i]
    BY <1>3, <1>4, <2>1 DEF OnCourse
  <2>3. o = "ok"
    BY <1>4, <2>2 DEF Rest
  <2>4. got = Legacy(n)
    BY <1>4, <2>1, <2>2, WholeGot
  <2>5. /\ Len(results') = call /\ call \in 1 .. Len(Calls) /\ Len(results) = call - 1
        /\ \A i \in 1 .. Len(results) : results'[i] = results[i]
        /\ results'[call] = [outcome |-> "ok", got |-> got]
        /\ OnCourse(n)' /\ Len(got') = 0
    BY <1>1, <1>4, <2>1, <2>3, Returns
  <2>6. \A i \in 1 .. Len(results') : results'[i] = [outcome |-> "ok", got |-> Legacy(n)]
    <3>1. \A i \in 1 .. Len(results') : i = call \/ i \in 1 .. Len(results)
      BY <2>5, CallFacts
    <3> QED
      BY <1>3, <2>4, <2>5, <3>1
  <2>7. ~(Len(got') >= n)
    BY <1>4, <2>5
  <2> QED
    BY <1>2, <2>5, <2>6, <2>7 DEF OldCourse
<1>11. CASE UNCHANGED vars
  <2>1. OnCourse(n)'
    BY <1>3, <1>11, SameLayout
       DEF vars, inputs, OnCourse, Asked, Field, Counting, Running, Entry
  <2> QED
    BY <1>2, <1>3, <1>11, <2>1 DEF vars, OldCourse
<1> QED
  BY <1>8, <1>9, <1>10, <1>11 DEF Next

(* What was known of the call that returns is known of its result. *)
LEMMA CutReturns ==
  ASSUME Typed, Running, UNCHANGED inputs, NEW n \in 0 .. Len(schema) - 1, CutCourse(n),
         NEW o \in Outcomes, Done(o), CutResult(n, o, got)
  PROVE  CutCourse(n)'
<1>1. /\ Len(got') = 0 /\ Len(results') = call /\ call \in 1 .. Len(Calls)
      /\ Len(results) = call - 1
      /\ \A i \in 1 .. Len(results) : results'[i] = results[i]
      /\ results'[call] = [outcome |-> o, got |-> got]
      /\ \A k \in Nat : OnCourse(k)'
  BY Returns
<1>2. schema' = schema /\ Legacy(n)' = Legacy(n) /\ n \in Nat /\ n + 1 \in Nat
  <2>1. Len(schema) \in Nat
    BY LayoutFacts DEF Typed
  <2> QED
    BY <2>1, SameLayout DEF inputs
<1>3. ASSUME NEW i \in 1 .. Len(results')
      PROVE  CutResult(n, results[i].outcome, results[i].got)'
  <2>1. i = call \/ i \in 1 .. Len(results)
    BY <1>1, CallFacts
  <2>2. CASE i = call
    BY <1>1, <1>2, <2>2 DEF CutResult
  <2>3. CASE i \in 1 .. Len(results)
    <3>1. results'[i] = results[i] /\ CutResult(n, results[i].outcome, results[i].got)
      BY <1>1, <2>3 DEF CutCourse
    <3> QED
      BY <1>2, <3>1 DEF CutResult
  <2> QED
    BY <2>1, <2>2, <2>3
<1>4. ~(Len(got') > n) /\ \A k \in 1 .. n : ~(k <= Len(got'))
  BY <1>1, <1>2
<1> QED
  BY <1>1, <1>2, <1>3, <1>4 DEF CutCourse

(* Whole fields are read; a default stands where the input ends or the limit. *)
LEMMA CutStep ==
  ASSUME Typed, Typed', NEW n \in 0 .. Len(schema) - 1, Cut(n), CutCourse(n), [Next]_vars
  PROVE  CutCourse(n)'
<1>1. UNCHANGED inputs
  BY DEF Next, Take, Fails, Return, vars, inputs
<1>2. schema' = schema /\ Legacy(n)' = Legacy(n)
  BY <1>1, SameLayout DEF inputs
<1>3. /\ schema \in Schemas /\ Len(schema) \in Nat /\ Len(got) \in Nat /\ Len(got) <= Len(schema)
      /\ n \in Nat /\ n + 1 \in 1 .. Len(schema) /\ DOMAIN schema = 1 .. Len(schema)
      /\ given \in Nat /\ limit \in Nat /\ pos \in Nat
  <2>1. schema \in Schemas /\ Len(schema) \in Nat
    BY LayoutFacts DEF Typed
  <2>2. DOMAIN schema = 1 .. Len(schema)
    BY <2>1, EntryAssumption
  <2>3. n \in Nat /\ n + 1 \in 1 .. Len(schema)
    BY <2>1
  <2> QED
    BY <2>1, <2>2, <2>3 DEF Typed
<1>4. EndOf(n) \in Nat /\ EndOf(n + 1) \in Nat /\ Smaller(limit, given) \in Nat
      /\ EndOf(n) <= Smaller(limit, given) /\ Smaller(limit, given) < EndOf(n + 1)
  <2>1. n \in 0 .. Len(schema) /\ n + 1 \in 0 .. Len(schema)
    BY <1>3
  <2>2. EndOf(n) \in Nat /\ EndOf(n + 1) \in Nat
    BY <1>3, <2>1, LayoutFacts
  <2> QED
    BY <1>3, <2>2 DEF Cut, Smaller
<1>5. \A k \in 1 .. n : k \in 1 .. Len(schema) /\ Legacy(n + 1)[k] = Legacy(n)[k]
  BY <1>3 DEF Legacy
<1>6. /\ Len(got) <= n => OnCourse(n + 1)
      /\ \A k \in 1 .. n : k <= Len(got) => got[k] = Legacy(n)[k]
      /\ Len(got) > n => schema[n + 1].kind = "tail" /\ got[n + 1] = Default
      /\ \A i \in 1 .. Len(results) : CutResult(n, results[i].outcome, results[i].got)
  BY DEF CutCourse
<1>7. ASSUME results' = results
      PROVE  \A i \in 1 .. Len(results') : CutResult(n, results[i].outcome, results[i].got)'
  BY <1>2, <1>6, <1>7 DEF CutResult
<1>8. CASE Take
  <2> DEFINE r == Field.reads[step]
  <2>1. /\ Running /\ Len(got) < Len(schema) /\ Allowed(r) /\ pos + r <= Visible
        /\ pos' = pos + r /\ results' = results
    BY <1>8 DEF Take
  <2>2. CASE Len(got) <= n
    <3>1. Len(got) < n + 1 /\ OnCourse(n + 1)
      BY <1>3, <1>6, <2>2
    <3>2. (Allowed(r) /\ pos + r <= Visible) <=> pos + r <= Smaller(limit, given)
      BY <1>3, <2>1, <3>1, WouldPass
    <3>3. OnCourse(n + 1)' /\ (Len(got') >= n + 1 => pos' = EndOf(n + 1))
      BY <1>3, <1>8, <3>1, TakeOnCourse
    <3>4. pos' <= Smaller(limit, given) /\ pos' \in Nat
      BY <2>1, <3>2 DEF Typed
    <3>5. Len(got') <= n
      <4>1. ~(Len(got') >= n + 1)
        BY <1>4, <3>3, <3>4
      <4>2. Len(got') \in Nat
        BY DEF Typed
      <4> QED
        BY <1>3, <4>1, <4>2
    <3>6. \A k \in 1 .. n : k <= Len(got') => got'[k] = Legacy(n)[k]
      <4>1. \A k \in 1 .. Len(got') : got'[k] = Legacy(n + 1)'[k]
        BY <3>3 DEF OnCourse
      <4>2. Legacy(n + 1)' = Legacy(n + 1)
        BY <1>1, SameLayout
      <4>3. Len(got') \in Nat
        BY DEF Typed
      <4> QED
        BY <1>5, <4>1, <4>2, <4>3
    <3>7. ~(Len(got') > n)
      BY <1>3, <3>5, <2>2 DEF Typed
    <3> QED
      BY <1>2, <1>7, <2>1, <3>3, <3>6, <3>7 DEF CutCourse
  <2>3. CASE ~(Len(got) <= n)
    <3>1. /\ Len(got') >= Len(got) /\ Len(got') \in Nat
          /\ \A k \in 1 .. Len(got) : got'[k] = got[k]
      <4>1. CASE UNCHANGED got
        BY <1>3, <4>1
      <4>2. CASE ~UNCHANGED got
        <5> DEFINE x == IF Field.kind = "discard" THEN Default ELSE <<start, pos'>>
        <5>1. got' = Append(got, x)
          BY <1>8, <4>2 DEF Take
        <5>2. x \in Values
          BY DEF Values, Typed
        <5>3. got \in Seq(Values)
          BY DEF Typed
        <5> HIDE DEF x
        <5>4. Len(got') = Len(got) + 1 /\ \A k \in 1 .. Len(got) : got'[k] = got[k]
          BY <5>1, <5>2, <5>3, Appended
        <5> QED
          BY <1>3, <5>4
      <4> QED
        BY <4>1, <4>2
    <3>2. Len(got') > n /\ ~(Len(got') <= n) /\ Len(got) > n /\ n + 1 \in 1 .. Len(got)
          /\ \A k \in 1 .. n : k \in 1 .. Len(got) /\ k <= Len(got)
      BY <1>3, <2>3, <3>1
    <3> QED
      BY <1>2, <1>6, <1>7, <2>1, <3>1, <3>2 DEF CutCourse
  <2> QED
    BY <2>2, <2>3
<1>9. ASSUME Fails
      PROVE  Len(got) >= n
  <2> SUFFICES ASSUME Len(got) < n
               PROVE  FALSE
    BY <1>3
  <2> DEFINE r == Field.reads[step]
  <2>1. Running /\ ~(Allowed(r) /\ pos + r <= Visible)
    BY <1>9 DEF Fails
  <2>2. n \in 1 .. Len(schema) /\ Len(got) <= n /\ Len(got) <= n + 1
    BY <1>3
  <2>3. /\ start = EndOf(Len(got)) /\ pos = start + Asked
        /\ remaining = IF Counting THEN limit - pos ELSE limit
    BY <1>6, <2>2 DEF OnCourse
  <2>4. \A k \in 1 .. Len(got) : got[k] = Legacy(n)[k]
    BY <1>3, <1>6, <2>2
  <2>5. OnCourse(n)
    BY <2>3, <2>4 DEF OnCourse
  <2>6. /\ r \in Nat /\ pos + r <= EndOf(n)
        /\ (Allowed(r) /\ pos + r <= Visible) <=> pos + r <= Smaller(limit, given)
    BY <2>1, <2>2, <2>5, WouldPass
  <2> HIDE DEF r
  <2> QED
    BY <1>3, <1>4, <2>1, <2>6
<1>10. CASE Fails /\ FallsBack
  <2>1. /\ results' = results /\ Len(got) < Len(schema) /\ Len(got) >= n
        /\ Len(got') = Len(got) + 1 /\ got'[Len(got) + 1] = Default
        /\ \A k \in 1 .. Len(got) : got'[k] = got[k]
    BY <1>9, <1>10, FallBackFacts
  <2>2. Len(got') > n /\ ~(Len(got') <= n) /\ \A k \in 1 .. n : k \in 1 .. Len(got) /\ k <= Len(got)
    BY <1>3, <2>1
  <2>3. schema[n + 1].kind = "tail" /\ got'[n + 1] = Default
    <3>1. CASE Len(got) = n
      BY <1>10, <2>1, <3>1 DEF FallsBack, Field
    <3>2. CASE Len(got) # n
      <4>1. Len(got) > n /\ n + 1 \in 1 .. Len(got)
        BY <1>3, <2>1, <3>2
      <4> QED
        BY <1>6, <2>1, <4>1
    <3> QED
      BY <3>1, <3>2
  <2> QED
    BY <1>2, <1>6, <1>7, <2>1, <2>2, <2>3 DEF CutCourse
<1>11. CASE Fails /\ ~FallsBack
  <2>1. Running /\ Len(got) < Len(schema) /\ Done("size_limit") /\ Len(got) >= n
    BY <1>9, <1>11, FailFacts
  <2>2. Len(got) + 1 \in n + 1 .. Len(schema) /\ schema[Len(got) + 1].kind # "tail"
    BY <1>3, <1>11, <2>1 DEF FallsBack, Field
  <2>3. \A k \in 1 .. n : got[k] = Legacy(n)[k]
    BY <1>3, <1>6, <2>1
  <2>4. Len(got) = n \/ Len(got) > n
    BY <1>3, <2>1
  <2>5. ~(n > n)
    BY <1>3
  <2>6. CutResult(n, "size_limit", got)
    BY <1>6, <2>1, <2>2, <2>3, <2>4, <2>5 DEF CutResult
  <2>7. "size_limit" \in Outcomes
    BY DEF Outcomes
  <2> QED
    BY <1>1, <2>1, <2>6, <2>7, CutReturns
<1>12. CASE Return
  <2> DEFINE o == IF Entry = "exact" /\ Rest > 0 THEN "trailing_bytes" ELSE "ok"
  <2>1. Running /\ Len(got) = Len(schema) /\ Done(o) /\ o \in Outcomes
    BY <1>12, ReturnFacts
  <2>2. o # "size_limit"
    OBVIOUS
  <2>3. Len(got) > n /\ Len(got) >= n /\ \A k \in 1 .. n : k <= Len(got)
    BY <1>3, <2>1
  <2> HIDE DEF o
  <2>4. CutResult(n, o, got)
    BY <1>6, <2>2, <2>3 DEF CutResult
  <2> QED
    BY <1>1, <2>1, <2>4, CutReturns
<1>13. CASE UNCHANGED vars
  <2>1. results' = results /\ got' = got
    BY <1>13 DEF vars
  <2>2. Len(got) <= n => OnCourse(n + 1)'
    BY <1>6, <1>13, SameLayout
       DEF vars, inputs, OnCourse, Asked, Field, Counting, Running, Entry
  <2> QED
    BY <1>2, <1>6, <1>7, <2>1, <2>2 DEF CutCourse
<1> QED
  BY <1>8, <1>10, <1>11, <1>12, <1>13 DEF Next

LEMMA ExactStep ==
  ASSUME Typed, ExactWithinLimit, [Next]_vars
  PROVE  ExactWithinLimit'
<1>1. CASE results' = results /\ UNCHANGED inputs
  BY <1>1 DEF ExactWithinLimit, inputs
<1>2. ASSUME UNCHANGED inputs, Running, NEW o \in Outcomes, Done(o),
             Entry = "exact" /\ o = "ok" => given <= limit
      PROVE  ExactWithinLimit'
  <2>1. /\ Len(results') = call /\ call \in 1 .. Len(Calls) /\ Len(results) = call - 1
        /\ \A i \in 1 .. Len(results) : results'[i] = results[i]
        /\ results'[call] = [outcome |-> o, got |-> got]
    BY <1>2, Returns
  <2>2. \A i \in 1 .. Len(results') : i = call \/ i \in 1 .. Len(results)
    BY <2>1, CallFacts
  <2>3. Calls[call] = "exact" /\ results'[call].outcome = "ok" => given <= limit
    BY <1>2, <2>1 DEF Entry
  <2> QED
    BY <1>2, <2>1, <2>2, <2>3 DEF ExactWithinLimit, inputs
<1>3. CASE Take \/ UNCHANGED vars \/ (Fails /\ FallsBack)
  BY <1>1, <1>3, FallBackFacts DEF Take, vars, inputs
<1>4. CASE Fails /\ ~FallsBack
  <2>1. "size_limit" \in Outcomes /\ "size_limit" # "ok"
    BY DEF Outcomes
  <2> QED
    BY <1>2, <1>4, <2>1, FailFacts
<1>5. CASE Return
  <2> DEFINE o == IF Entry = "exact" /\ Rest > 0 THEN "trailing_bytes" ELSE "ok"
  <2>1. Running /\ Done(o) /\ o \in Outcomes /\ UNCHANGED inputs
    BY <1>5, ReturnFacts
  <2>2. ASSUME Entry = "exact", o = "ok"
        PROVE  given <= limit
    <3>1. ~Counting /\ ~(given - pos > 0)
      BY <2>2 DEF Counting, Rest
    <3>2. Visible <= limit /\ pos <= Visible /\ Visible \in Nat
      BY <2>1, <3>1, VisibleFacts DEF Typed
    <3>3. given \in Nat /\ limit \in Nat /\ pos \in Nat
      BY DEF Typed
    <3> QED
      BY <3>1, <3>2, <3>3
  <2> HIDE DEF o
  <2> QED
    BY <1>2, <2>1, <2>2
<1> QED
  BY <1>3, <1>4, <1>5 DEF Next

LEMMA InvInit == Init => IInv
<1> SUFFICES ASSUME Init PROVE IInv
  OBVIOUS
<1>1. Typed /\ Len(got) = 0 /\ Len(results) = 0 /\ \A n \in Nat : OnCourse(n)
  BY InitTyped
<1>2. Len(schema) \in Nat /\ DOMAIN schema = 1 .. Len(schema)
  BY <1>1, LayoutFacts, EntryAssumption DEF Typed
<1>3. \A n \in DOMAIN schema : n \in Nat /\ ~(Len(got) >= n)
  BY <1>1, <1>2
<1>4. \A i : i \notin 1 .. Len(results)
  BY <1>1
<1>5. Strict
  BY <1>1, <1>2, <1>4 DEF Strict
<1>6. Lenient
  BY <1>1, <1>3, <1>4 DEF Lenient, OldCourse
<1>7. Cuts
  <2>1. ASSUME NEW n \in 0 .. Len(schema) - 1
        PROVE  n \in Nat /\ n + 1 \in Nat /\ ~(Len(got) > n) /\ \A k \in 1 .. n : ~(k <= Len(got))
    BY <1>1, <1>2
  <2> QED
    BY <1>1, <1>4, <2>1 DEF Cuts, CutCourse
<1> QED
  BY <1>1, <1>4, <1>5, <1>6, <1>7 DEF IInv, ExactWithinLimit

LEMMA InvNext == IInv /\ [Next]_vars => IInv'
<1> SUFFICES ASSUME IInv, [Next]_vars PROVE IInv'
  OBVIOUS
<1>1. Typed /\ Typed'
  BY TypedStep DEF IInv
<1>2. UNCHANGED inputs
  BY DEF Next, Take, Fails, Return, vars, inputs
<1>3. /\ schema' = schema /\ DOMAIN schema = 1 .. Len(schema)
      /\ \A n : Legacy(n)' = Legacy(n) /\ (Old(n)' <=> Old(n))
  <2>1. schema' = schema
    BY <1>2 DEF inputs
  <2>2. DOMAIN schema = 1 .. Len(schema)
    BY <1>1, EntryAssumption DEF Typed
  <2> QED
    BY <1>1, <1>2, <2>1, <2>2, SameLayout
<1>4. Lenient'
  <2>1. ASSUME NEW n \in DOMAIN schema, Old(n)
        PROVE  OldCourse(n)'
    <3>1. OldCourse(n)
      BY <2>1 DEF IInv, Lenient
    <3> QED
      BY <1>1, <1>3, <2>1, <3>1, OldStep
  <2> QED
    BY <1>3, <2>1 DEF Lenient
<1>5. Strict'
  BY <1>1, StrictStep DEF IInv
<1>6. ExactWithinLimit'
  BY <1>1, ExactStep DEF IInv
<1>7. Cuts'
  <2>1. ASSUME NEW n \in 0 .. Len(schema) - 1, Cut(n)
        PROVE  CutCourse(n)'
    <3>1. CutCourse(n)
      BY <2>1 DEF IInv, Cuts
    <3> QED
      BY <1>1, <2>1, <3>1, CutStep
  <2>2. \A n : Cut(n)' <=> Cut(n)
    BY <1>2, SameLayout DEF Cut, inputs, Smaller
  <2> QED
    BY <1>3, <2>1, <2>2 DEF Cuts
<1> QED
  BY <1>1, <1>4, <1>5, <1>6, <1>7 DEF IInv

(* The invariant on which the promises of the entry points rest *)
THEOREM EntryInvariant == Spec => []IInv
BY InvInit, InvNext, PTL DEF Spec

-----------------------------------------------------------------------------
(* The promises *)

LEMMA AllCalls ==
  ASSUME Typed, Over
  PROVE  /\ Len(results) = 5
         /\ Result("slice") = results[1] /\ Result("mut") = results[2]
         /\ Result("exact") = results[3] /\ Result("generic") = results[4]
         /\ Result("stream") = results[5]
<1>1. Len(results) = 5
  BY CallFacts DEF Typed, Over, Running
<1>2. ASSUME NEW i \in 1 .. 5
      PROVE  Result(Calls[i]) = results[i]
  <2>1. DOMAIN Calls = 1 .. 5
    BY DEF Calls
  <2>2. \A j \in 1 .. 5 : Calls[j] = Calls[i] => j = i
    BY CallFacts
  <2> QED
    BY <2>1, <2>2 DEF Result
<1> QED
  BY <1>1, <1>2, CallFacts

(* The limit by shortening the input and the limit by counting reservations *)
(* accept the same inputs and give the same value, at every limit.          *)
THEOREM LimitedPathsAgree == Spec => []PathsAgree
<1>1. IInv => PathsAgree
  <2> SUFFICES ASSUME IInv, Over, ~Tolerant, NEW c \in {"mut", "generic", "stream"}
               PROVE  /\ Result(c).outcome = Result("slice").outcome
                      /\ Result(c).outcome = "ok" => Result(c).got = Result("slice").got
    BY DEF PathsAgree
  <2>1. /\ Len(results) = 5
        /\ Result("slice") = results[1] /\ Result("mut") = results[2]
        /\ Result("generic") = results[4] /\ Result("stream") = results[5]
    BY AllCalls DEF IInv
  <2>2. \A i \in 1 .. 5 : StrictResult(i)
    BY <2>1 DEF IInv, Strict
  <2>3. \A i \in {1, 2, 4, 5} : Calls[i] # "exact" /\ StrictResult(i)
    BY <2>2, CallFacts
  <2>4. CASE Total > Smaller(limit, given)
    BY <2>1, <2>3, <2>4 DEF StrictResult
  <2>5. CASE ~(Total > Smaller(limit, given))
    <3>1. \A i \in {1, 2, 4, 5} : results[i] = [outcome |-> "ok", got |-> Legacy(Len(schema))]
      BY <2>3, <2>5 DEF StrictResult
    <3> QED
      BY <2>1, <3>1
  <2> QED
    BY <2>4, <2>5
<1> QED
  BY <1>1, EntryInvariant, PTL

(* An encoding that an older schema wrote decodes to its fields and defaults, *)
(* by every call; a discarded field does not shift the ones behind it.        *)
THEOREM OldEncodingsDecode == Spec => []LegacyDecodes
<1>1. IInv => LegacyDecodes
  <2> SUFFICES ASSUME IInv, NEW n \in DOMAIN schema, Over, Old(n), NEW i \in DOMAIN Calls
               PROVE  results[i] = [outcome |-> "ok", got |-> Legacy(n)]
    BY DEF LegacyDecodes, Old
  <2>1. Len(results) = 5 /\ DOMAIN Calls = 1 .. 5
    BY AllCalls DEF IInv, Calls
  <2> QED
    BY <2>1 DEF IInv, Lenient, OldCourse
<1> QED
  BY <1>1, EntryInvariant, PTL

(* Where the limit or the end of the input cuts a value, by every call: the  *)
(* fields before are right, and the cut field is an error, or its default if *)
(* it may be missing, however much of it was read.                           *)
THEOREM CutFieldsDefault == Spec => []CutFieldIsDefault
<1>1. IInv => CutFieldIsDefault
  <2> SUFFICES ASSUME IInv, Over, NEW n \in 0 .. Len(schema) - 1, Cut(n), NEW i \in DOMAIN Calls
               PROVE  CutResult(n, results[i].outcome, results[i].got)
    BY DEF CutFieldIsDefault, Cut, CutResult
  <2>1. Len(results) = 5 /\ DOMAIN Calls = 1 .. 5
    BY AllCalls DEF IInv, Calls
  <2> QED
    BY <2>1 DEF IInv, Cuts, CutCourse
<1> QED
  BY <1>1, EntryInvariant, PTL

(* deserialize_exact accepts an input only if the value, with the limit,    *)
(* accounts for every byte of it, those behind the limit included.          *)
THEOREM ExactTakesAll == Spec => []ExactIsWhole
<1>1. IInv => ExactIsWhole
  <2> SUFFICES ASSUME IInv, Over, Result("exact").outcome = "ok"
               PROVE  given <= limit /\ (~Tolerant => given = Total)
    BY DEF ExactIsWhole
  <2>1. Len(results) = 5 /\ Result("exact") = results[3] /\ Calls[3] = "exact"
    BY AllCalls, CallFacts DEF IInv
  <2>2. given <= limit
    BY <2>1 DEF IInv, ExactWithinLimit
  <2>3. ASSUME ~Tolerant
        PROVE  given = Total
    <3>1. StrictResult(3)
      BY <2>1, <2>3 DEF IInv, Strict
    <3>2. given \in Nat /\ limit \in Nat /\ Total \in Nat
      <4>1. schema \in Schemas /\ Len(schema) \in Nat
        BY LayoutFacts DEF IInv, Typed
      <4>2. Total \in Nat
        BY <4>1, LayoutFacts DEF Total
      <4> QED
        BY <4>2 DEF IInv, Typed
    <3>3. ~(Total > Smaller(limit, given)) /\ ~(given > Total)
      BY <2>1, <3>1 DEF StrictResult
    <3> QED
      BY <3>2, <3>3 DEF Smaller
  <2> QED
    BY <2>2, <2>3
<1> QED
  BY <1>1, EntryInvariant, PTL
=============================================================================

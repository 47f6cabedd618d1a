------------------------- MODULE LimitedReaderProofs -------------------------
(***************************************************************************)
(* For every source, limit, word size, kind of reader and sequence of      *)
(* calls: windows stay inside the source, bytes are delivered in order,    *)
(* and the limit bounds what is consumed.  The inductive invariant adds    *)
(* that the parent stands exactly at the end of an open window, and that   *)
(* the last delivery ends where the next one will start.                   *)
(***************************************************************************)
EXTENDS LimitedReader, TLAPS

(* The next byte that a read would deliver. *)
Place == IF open /\ kind # "stream" THEN at ELSE next

WindowInv ==
  open /\ kind # "stream" =>
    /\ at + left = edge
    /\ edge = next
    /\ left > 0 => edge <= SrcLen

GotInv ==
  /\ got[2] <= Place
  /\ clean => got[2] = Place

IInv == TypeOK /\ WindowInv /\ GotInv

(* Elements times their size is a number, whatever a word can hold. *)
LEMMA ProductNat ==
  ASSUME NEW count \in Nat, NEW size \in Nat
  PROVE  WindowSize(count, size) \in Nat /\ count * size = WindowSize(count, size)
BY DEF WindowSize

LEMMA AvailNat == TypeOK => Avail \in Nat /\ (Avail > 0 => next + Avail = SrcLen)
BY ReaderAssumption DEF TypeOK, Avail

LEMMA InitInvariant == Init => IInv
<1> SUFFICES ASSUME Init PROVE IInv
  OBVIOUS
<1>1. next \in Nat /\ got = <<next, next>>
  BY ReaderAssumption DEF Init
<1>2. TypeOK
  <2>1. remaining \in 0 .. Limit
    BY ReaderAssumption DEF Init
  <2>2. got \in Nat \X Nat
    BY <1>1
  <2> QED
    BY <1>1, <2>1, <2>2 DEF Init, TypeOK, Results
<1>3. WindowInv
  BY DEF Init, WindowInv
<1>4. GotInv
  BY <1>1 DEF Init, GotInv, Place
<1> QED
  BY <1>2, <1>3, <1>4 DEF IInv

LEMMA ReserveKeeps ==
  ASSUME TypeOK, NEW n \in Nat, Reserve(n)
  PROVE  remaining' \in 0 .. Limit
BY ReaderAssumption DEF TypeOK, Reserve

(* A failed call leaves the reader at or behind where it was. *)
LEMMA FailInnerKeeps ==
  ASSUME TypeOK, NEW n \in Nat, FailInner(n)
  PROVE  /\ emptied' \in BOOLEAN /\ clean' = FALSE /\ got' = got
         /\ next' \in Nat /\ next' >= next /\ next' <= next + n
<1>1. emptied' \in BOOLEAN /\ clean' = FALSE /\ got' = got
  BY Zenon DEF FailInner, TypeOK
<1>2. next' \in Nat /\ next' >= next /\ next' <= next + n
  BY DEF FailInner, TypeOK
<1> QED
  BY <1>1, <1>2

(* Reads outside a window. *)
LEMMA PlainInvariant ==
  ASSUME IInv, NEW n \in Nat,
         Take(n) \/ OverLimit(n) \/ Starve(n) \/ IoError(n) \/ BorrowRefused(n)
  PROVE  IInv'
<1> USE DEF IInv, TypeOK, Results, window
<1>0. Avail \in Nat
  BY AvailNat
<1>1. CASE Take(n)
  BY <1>0, <1>1, ReserveKeeps DEF Take, Fetch, WindowInv, GotInv, Place
<1>2. CASE OverLimit(n)
  BY <1>2 DEF OverLimit, WindowInv, GotInv, Place
<1>3. CASE Starve(n)
  <2>1. /\ emptied' \in BOOLEAN /\ clean' = FALSE /\ got' = got
        /\ next' \in Nat /\ next' >= next
    BY <1>3, FailInnerKeeps DEF Starve
  <2>2. remaining' \in 0 .. Limit
    BY <1>3, ReserveKeeps DEF Starve
  <2>3. ~open /\ UNCHANGED <<kind, window>> /\ result' \in Results
    BY <1>3 DEF Starve
  <2>4. TypeOK'
    BY <2>1, <2>2, <2>3
  <2>5. WindowInv'
    BY <2>3 DEF WindowInv
  <2>6. got[2] \in Nat /\ got[2] <= next
    BY <2>3 DEF GotInv, Place
  <2>7. GotInv'
    BY <2>1, <2>3, <2>6 DEF GotInv, Place
  <2> QED
    BY <2>4, <2>5, <2>7
<1>4. CASE IoError(n)
  <2>1. /\ emptied' \in BOOLEAN /\ clean' = FALSE /\ got' = got
        /\ next' \in Nat /\ next' >= next
    BY <1>4, FailInnerKeeps DEF IoError
  <2>2. remaining' \in 0 .. Limit
    BY <1>4, ReserveKeeps DEF IoError
  <2>3. ~open /\ UNCHANGED <<kind, window>> /\ result' \in Results
    BY <1>4 DEF IoError
  <2>4. TypeOK'
    BY <2>1, <2>2, <2>3
  <2>5. WindowInv'
    BY <2>3 DEF WindowInv
  <2>6. got[2] \in Nat /\ got[2] <= next
    BY <2>3 DEF GotInv, Place
  <2>7. GotInv'
    BY <2>1, <2>3, <2>6 DEF GotInv, Place
  <2> QED
    BY <2>4, <2>5, <2>7
<1>5. CASE BorrowRefused(n)
  BY <1>5, ReserveKeeps DEF BorrowRefused, WindowInv, GotInv, Place
<1> QED
  BY <1>1, <1>2, <1>3, <1>4, <1>5

(* Opening a window, or failing to. *)
LEMMA OpenInvariant ==
  ASSUME IInv, NEW count \in Nat, NEW size \in Nat,
         \/ Overflow(count, size) \/ WindowOverLimit(count, size)
         \/ WindowStarved(count, size) \/ OpenWindow(count, size)
  PROVE  IInv'
<1>1. CASE Overflow(count, size)
  BY <1>1 DEF Overflow, IInv, TypeOK, Results, WindowInv, GotInv, Place, window
<1>2. CASE WindowOverLimit(count, size)
  BY <1>2, ProductNat, PlainInvariant DEF WindowOverLimit
<1>3. CASE WindowStarved(count, size)
  BY <1>3, ProductNat, PlainInvariant DEF WindowStarved
<1>4. CASE OpenWindow(count, size)
  <2> DEFINE n == WindowSize(count, size)
  <2>1. n \in Nat /\ count * size = n
    BY ProductNat
  <2>2. /\ ~open /\ Reserve(n) /\ Advance(n)
        /\ kind # "stream" => n <= Avail
        /\ open' = TRUE /\ at' = next /\ edge' = next + n /\ left' = n
        /\ result' = "ok"
        /\ UNCHANGED <<kind, emptied, got, clean>>
    BY <1>4, <2>1 DEF OpenWindow
  <2> HIDE DEF n
  <2>3. Avail \in Nat /\ (Avail > 0 => next + Avail = SrcLen)
    BY AvailNat DEF IInv
  <2>4. TypeOK'
    BY <2>1, <2>2, ReaderAssumption DEF IInv, TypeOK, Results, Reserve, Advance
  <2>5. WindowInv'
    BY <2>1, <2>2, <2>3, ReaderAssumption DEF IInv, TypeOK, WindowInv, Advance
  <2>6. GotInv'
    BY <2>1, <2>2 DEF IInv, TypeOK, GotInv, Place, Advance
  <2> QED
    BY <2>4, <2>5, <2>6 DEF IInv
<1> QED
  BY <1>1, <1>2, <1>3, <1>4

(* Inside a window. *)
LEMMA WindowInvariant ==
  ASSUME IInv, NEW n \in Nat, WindowTake(n) \/ WindowFails(n) \/ CloseWindow
  PROVE  IInv'
<1>0. Avail \in Nat
  BY AvailNat DEF IInv
<1>1. CASE WindowTake(n)
  BY <1>0, <1>1 DEF WindowTake, Fetch, IInv, TypeOK, Results, WindowInv, GotInv, Place
<1>2. CASE WindowFails(n)
  <2>1. result' \in Results
    BY <1>2 DEF WindowFails, Results
  <2>2. /\ emptied' \in BOOLEAN /\ clean' = FALSE /\ got' = got
        /\ next' \in Nat /\ next' >= next
    BY <1>2, FailInnerKeeps DEF WindowFails, IInv
  <2>3. /\ open /\ kind = "stream" /\ open' = FALSE /\ left' = 0
        /\ UNCHANGED <<kind, remaining, at, edge>>
    BY <1>2 DEF WindowFails
  <2>4. TypeOK' /\ WindowInv'
    BY <2>1, <2>2, <2>3 DEF IInv, TypeOK, WindowInv
  <2>5. got[2] \in Nat /\ got[2] <= next
    BY <2>3 DEF IInv, TypeOK, GotInv, Place
  <2>6. GotInv'
    BY <2>2, <2>3, <2>5 DEF IInv, TypeOK, GotInv, Place
  <2> QED
    BY <2>4, <2>6 DEF IInv
<1>3. CASE CloseWindow
  <2>1. clean' \in BOOLEAN /\ (clean' => clean /\ left = 0)
    BY <1>3, Zenon DEF CloseWindow
  <2>2. GotInv'
    BY <1>3, <2>1 DEF CloseWindow, IInv, TypeOK, WindowInv, GotInv, Place
  <2> QED
    BY <1>3, <2>1, <2>2 DEF CloseWindow, IInv, TypeOK, WindowInv
<1> QED
  BY <1>1, <1>2, <1>3

LEMMA StepInvariant == IInv /\ [Next]_vars => IInv'
<1> SUFFICES ASSUME IInv, [Next]_vars PROVE IInv'
  OBVIOUS
<1>0. 0 .. MaxCall \subseteq Nat /\ 0 \in Nat
  BY ReaderAssumption
<1>1. CASE UNCHANGED vars
  BY <1>1 DEF vars, IInv, TypeOK, WindowInv, GotInv, Place
<1>2. ASSUME NEW n \in 0 .. MaxCall,
             \/ Take(n) \/ OverLimit(n) \/ Starve(n) \/ IoError(n) \/ BorrowRefused(n)
      PROVE  IInv'
  BY <1>0, <1>2, PlainInvariant
<1>3. ASSUME NEW n \in 0 .. MaxCall, WindowTake(n) \/ WindowFails(n)
      PROVE  IInv'
  BY <1>0, <1>3, WindowInvariant
<1>4. ASSUME NEW count \in 0 .. MaxCall, NEW size \in 0 .. MaxCall,
             \/ Overflow(count, size) \/ WindowOverLimit(count, size)
             \/ WindowStarved(count, size) \/ OpenWindow(count, size)
      PROVE  IInv'
  BY <1>0, <1>4, OpenInvariant
<1>5. CASE CloseWindow
  BY <1>0, <1>5, WindowInvariant
<1> QED
  BY <1>1, <1>2, <1>3, <1>4, <1>5 DEF Next

LEMMA Invariance == Spec => []IInv
BY InitInvariant, StepInvariant, PTL DEF Spec

(* The variables stay in their types: the remaining limit never wraps. *)
THEOREM TypeCorrect == Spec => []TypeOK
<1>1. IInv => TypeOK
  BY DEF IInv
<1> QED
  BY <1>1, Invariance, PTL

(* The unchecked reads of a window never leave the memory behind it, for   *)
(* any element count and size, the overflowing ones included.              *)
THEOREM WindowsStayInside == Spec => []WindowInside
<1>1. IInv => WindowInside
  BY DEF IInv, TypeOK, WindowInv, WindowInside
<1> QED
  BY <1>1, Invariance, PTL

-----------------------------------------------------------------------------
LEMMA StepForward == IInv /\ [Next]_vars => [Forward]_<<got, clean>>
<1> SUFFICES ASSUME IInv, [Next]_vars, got' # got PROVE Forward
  BY DEF Forward
<1>0. Avail \in Nat
  BY AvailNat DEF IInv
<1>1. PICK n \in 0 .. MaxCall : Take(n) \/ WindowTake(n)
  BY DEF Next, vars, OverLimit, Starve, IoError, BorrowRefused, FailInner, WindowFails,
         Overflow, WindowOverLimit, WindowStarved, OpenWindow, CloseWindow
<1>2. CASE Take(n)
  BY <1>2, <1>0 DEF Take, Fetch, Forward, IInv, TypeOK, GotInv, Place, window
<1>3. CASE WindowTake(n)
  BY <1>3, <1>0 DEF WindowTake, Fetch, Forward, IInv, TypeOK, GotInv, Place
<1> QED
  BY <1>1, <1>2, <1>3

(* No byte is delivered twice or out of order, and none is skipped unless  *)
(* a call failed or a window was given up.                                 *)
THEOREM InOrder == Spec => DeliversInOrder
BY Invariance, StepForward, PTL DEF Spec, DeliversInOrder

-----------------------------------------------------------------------------
(* Refinement. *)

(* What may still be consumed: the unreserved rest, and what an open       *)
(* window has reserved and not yet taken.                                  *)
Budget == remaining + (IF open THEN left ELSE 0)

Pay(n)  == /\ n \in 0 .. Budget
           /\ Place + n <= SrcLen
           /\ Place' = Place + n
           /\ Budget' = Budget - n
Drop(paid, lost) == /\ paid \in 0 .. Budget /\ lost \in 0 .. paid
                    /\ Place' = Place + lost
                    /\ Budget' = Budget - paid
Same == Place' = Place /\ Budget' = Budget

LEMMA Gap ==
  ASSUME NEW a \in Nat, NEW b \in Nat, NEW n \in Nat, b >= a, b <= a + n
  PROVE  \E lost \in 0 .. n : b = a + lost
<1>1. b - a \in 0 .. n /\ b = a + (b - a)
  OBVIOUS
<1> QED
  BY <1>1

LEMMA PayTakes ==
  ASSUME \/ \E n \in 0 .. Budget : Pay(n)
         \/ \E paid \in 0 .. Budget : \E lost \in 0 .. paid : Drop(paid, lost)
         \/ Same
  PROVE  [Source!Next]_(Source!vars)
BY DEF Pay, Drop, Same, Place, Budget, Source!Next, Source!Take, Source!Lose, Source!vars

(* Outside a window: a read pays for what it delivers, a failure for what  *)
(* it may have lost.                                                       *)
LEMMA PlainSteps ==
  ASSUME IInv, NEW n \in Nat,
         Take(n) \/ OverLimit(n) \/ Starve(n) \/ IoError(n) \/ BorrowRefused(n)
  PROVE  [Source!Next]_(Source!vars)
<1>0. Avail \in Nat /\ (Avail > 0 => next + Avail = SrcLen)
  BY AvailNat DEF IInv
<1>1. ~open /\ Place = next /\ Budget = remaining /\ next \in Nat /\ remaining \in Nat
  BY ReaderAssumption DEF Take, OverLimit, Starve, IoError, BorrowRefused, Place, Budget,
                          IInv, TypeOK
<1>2. ~open' /\ Place' = next' /\ (remaining' \in Nat => Budget' = remaining')
  BY <1>1 DEF Take, OverLimit, Starve, IoError, BorrowRefused, Place, Budget, window
<1>3. CASE Take(n)
  <2>1. /\ n <= remaining /\ remaining' = remaining - n
        /\ n <= Avail /\ next' = next + n
    BY <1>3 DEF Take, Reserve, Fetch
  <2>2. CASE n = 0
    BY <1>1, <1>2, <2>1, <2>2, PayTakes DEF Same
  <2>3. CASE n > 0
    <3>1. n \in 0 .. Budget /\ Pay(n)
      BY <1>0, <1>1, <1>2, <2>1, <2>3, ReaderAssumption DEF Pay
    <3> QED
      BY <3>1, PayTakes
  <2> QED
    BY <2>2, <2>3
<1>4. CASE OverLimit(n)
  BY <1>1, <1>2, <1>4, PayTakes DEF OverLimit, Same
<1>5. CASE Starve(n) \/ IoError(n) \/ BorrowRefused(n)
  <2>1. n <= remaining /\ remaining' = remaining - n
    BY <1>5 DEF Starve, IoError, BorrowRefused, Reserve
  <2>2. next' \in Nat /\ next' >= next /\ next' <= next + n
    <3>1. CASE Starve(n) \/ IoError(n)
      BY <3>1, FailInnerKeeps DEF Starve, IoError, IInv
    <3>2. CASE BorrowRefused(n)
      BY <1>1, <3>2 DEF BorrowRefused
    <3> QED
      BY <1>5, <3>1, <3>2
  <2>3. PICK lost \in 0 .. n : next' = next + lost
    BY <1>1, <2>2, Gap
  <2>4. n \in 0 .. Budget /\ Drop(n, lost)
    BY <1>1, <1>2, <2>1, <2>3 DEF Drop
  <2> QED
    BY <2>3, <2>4, PayTakes
<1> QED
  BY <1>3, <1>4, <1>5

(* Opening a window moves bytes from the limit to the window and does not  *)
(* show.                                                                   *)
LEMMA OpenSteps ==
  ASSUME IInv, NEW count \in Nat, NEW size \in Nat,
         \/ Overflow(count, size) \/ WindowOverLimit(count, size)
         \/ WindowStarved(count, size) \/ OpenWindow(count, size)
  PROVE  [Source!Next]_(Source!vars)
<1>1. CASE Overflow(count, size)
  BY <1>1, PayTakes DEF Overflow, Same, Place, Budget, window
<1>2. CASE WindowOverLimit(count, size) \/ WindowStarved(count, size)
  BY <1>2, ProductNat, PlainSteps DEF WindowOverLimit, WindowStarved
<1>3. CASE OpenWindow(count, size)
  <2> DEFINE n == WindowSize(count, size)
  <2>1. n \in Nat /\ count * size = n
    BY ProductNat
  <2>2. /\ ~open /\ open' /\ n <= remaining /\ remaining' = remaining - n
        /\ Advance(n) /\ at' = next /\ left' = n /\ kind' = kind
    BY <1>3, <2>1 DEF OpenWindow, Reserve
  <2> HIDE DEF n
  <2>3. remaining \in Nat
    BY ReaderAssumption DEF IInv, TypeOK
  <2>4. Same
    BY <2>1, <2>2, <2>3 DEF Same, Place, Budget, Advance
  <2> QED
    BY <2>4, PayTakes
<1> QED
  BY <1>1, <1>2, <1>3

(* Inside a window. *)
LEMMA WindowSteps ==
  ASSUME IInv, NEW n \in Nat, WindowTake(n) \/ WindowFails(n) \/ CloseWindow
  PROVE  [Source!Next]_(Source!vars)
<1>0. Avail \in Nat /\ (Avail > 0 => next + Avail = SrcLen)
  BY AvailNat DEF IInv
<1>1. /\ open /\ Budget = remaining + left
      /\ next \in Nat /\ at \in Nat /\ left \in Nat /\ remaining \in Nat
  BY ReaderAssumption DEF WindowTake, WindowFails, CloseWindow, Budget, IInv, TypeOK
<1>2. CASE WindowTake(n)
  <2>1. /\ n <= left /\ left' = left - n /\ remaining' = remaining /\ open' = open
        /\ kind' = kind
    BY <1>2 DEF WindowTake
  <2>2. Budget' = Budget - n /\ n \in 0 .. Budget
    BY <1>1, <2>1 DEF Budget
  <2>3. Place' = Place + n /\ (n > 0 => Place + n <= SrcLen)
    <3>1. CASE kind = "stream"
      BY <1>0, <1>1, <1>2, <2>1, <3>1, ReaderAssumption DEF WindowTake, Fetch, Place
    <3>2. CASE kind # "stream"
      BY <1>1, <1>2, <2>1, <3>2, ReaderAssumption DEF WindowTake, Place, IInv, WindowInv
    <3> QED
      BY <3>1, <3>2
  <2>4. CASE n = 0
    <3>1. Place \in Nat
      BY <1>1 DEF Place
    <3> QED
      BY <1>1, <2>2, <2>3, <2>4, <3>1, PayTakes DEF Same
  <2>5. CASE n > 0
    BY <2>2, <2>3, <2>5, PayTakes DEF Pay
  <2> QED
    BY <2>4, <2>5
<1>3. CASE WindowFails(n)
  <2>1. /\ kind = "stream" /\ kind' = kind /\ n <= left /\ open' = FALSE
        /\ remaining' = remaining
    BY <1>3 DEF WindowFails
  <2>2. next' \in Nat /\ next' >= next /\ next' <= next + n
    BY <1>3, FailInnerKeeps DEF WindowFails, IInv
  <2>3. Place = next /\ Place' = next' /\ Budget' = remaining
    BY <1>1, <2>1 DEF Place, Budget
  <2>4. PICK lost \in 0 .. left : next' = next + lost
    <3>1. next' <= next + left
      BY <1>1, <2>1, <2>2
    <3> QED
      BY <1>1, <2>2, <3>1, Gap
  <2>5. left \in 0 .. Budget /\ Drop(left, lost)
    BY <1>1, <2>1, <2>3, <2>4 DEF Drop
  <2> QED
    BY <2>4, <2>5, PayTakes
<1>4. CASE CloseWindow
  <2>1. open' = FALSE /\ next' = next /\ remaining' = remaining
    BY <1>4 DEF CloseWindow
  <2>2. Place' = next /\ Budget' = remaining /\ left \in 0 .. Budget
    BY <1>1, <2>1 DEF Place, Budget
  <2>3. CASE kind = "stream"
    <3>1. 0 \in 0 .. left /\ Drop(left, 0)
      BY <1>1, <2>2, <2>3 DEF Drop, Place
    <3> QED
      BY <2>2, <3>1, PayTakes
  <2>4. CASE kind # "stream"
    <3>1. left \in 0 .. left /\ Drop(left, left)
      BY <1>1, <2>2, <2>4 DEF Drop, Place, IInv, WindowInv
    <3> QED
      BY <2>2, <3>1, PayTakes
  <2> QED
    BY <2>3, <2>4
<1> QED
  BY <1>2, <1>3, <1>4

LEMMA StepSource == IInv /\ [Next]_vars => [Source!Next]_(Source!vars)
<1> SUFFICES ASSUME IInv, [Next]_vars PROVE [Source!Next]_(Source!vars)
  OBVIOUS
<1>0. 0 .. MaxCall \subseteq Nat /\ 0 \in Nat
  BY ReaderAssumption
<1>1. CASE UNCHANGED vars
  BY <1>1, PayTakes DEF vars, Same, Place, Budget
<1>2. ASSUME NEW n \in 0 .. MaxCall,
             \/ Take(n) \/ OverLimit(n) \/ Starve(n) \/ IoError(n) \/ BorrowRefused(n)
      PROVE  [Source!Next]_(Source!vars)
  BY <1>0, <1>2, PlainSteps
<1>3. ASSUME NEW n \in 0 .. MaxCall, WindowTake(n) \/ WindowFails(n)
      PROVE  [Source!Next]_(Source!vars)
  BY <1>0, <1>3, WindowSteps
<1>4. ASSUME NEW count \in 0 .. MaxCall, NEW size \in 0 .. MaxCall,
             \/ Overflow(count, size) \/ WindowOverLimit(count, size)
             \/ WindowStarved(count, size) \/ OpenWindow(count, size)
      PROVE  [Source!Next]_(Source!vars)
  BY <1>0, <1>4, OpenSteps
<1>5. CASE CloseWindow
  BY <1>0, <1>5, WindowSteps
<1> QED
  BY <1>1, <1>2, <1>3, <1>4, <1>5 DEF Next

LEMMA InitialSource == Init => Source!Init
<1> SUFFICES ASSUME Init PROVE Source!Init
  OBVIOUS
<1>1. next \in Nat /\ remaining \in Nat /\ ~open
  BY ReaderAssumption DEF Init
<1> QED
  BY <1>1 DEF Source!Init

(* Whatever reader is underneath and however windows are used, a decoder   *)
(* sees one position moving forward and one budget paying for every byte.  *)
THEOREM Refinement == Spec => ImplementsBoundedSource
BY Invariance, InitialSource, StepSource, PTL DEF Spec, ImplementsBoundedSource, Source!Spec
=============================================================================

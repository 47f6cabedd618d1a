-------------------------- MODULE VecCursorProofs ---------------------------
(***************************************************************************)
(* Proofs about VecCursor, for every capacity, position, chunk size and    *)
(* set of byte values.                                                     *)
(***************************************************************************)
EXTENDS VecCursor, TLAPS

(* The strengthening: neither InitializedBelowLen nor WindowIsSafe is      *)
(* inductive alone.  A window write exposes the cells below the cursor,    *)
(* which are bytes only because the window was opened over a filled gap.   *)
IInv == TypeOK /\ InitializedBelowLen /\ WindowIsSafe

-----------------------------------------------------------------------------
(* What the memory operators return.                                       *)

LEMMA ChunkByte ==
  ASSUME NEW n \in Nat, NEW src \in [0 .. n - 1 -> Byte],
         NEW p \in Nat, NEW i \in Nat, p <= i, i < p + n
  PROVE  src[i - p] \in Byte
<1>1. i - p \in 0 .. n - 1
  OBVIOUS
<1>2. QED
  BY <1>1

LEMMA PrefixWithin ==
  ASSUME NEW a \in Nat, NEW b \in Nat, b <= a
  PROVE  \A i \in 0 .. b - 1 : i \in 0 .. a - 1
OBVIOUS

LEMMA PreparedCells ==
  ASSUME TypeOK, InitializedBelowLen, NEW c \in 0 .. MaxCap, len <= c
  PROVE  /\ Prepared(c) \in [Addr -> Byte \cup {Garbage}]
         /\ \A i \in Addr : i < len => Prepared(c)[i] = mem[i]
         /\ \A i \in Addr : len <= i /\ i < pos => Prepared(c)[i] = Zero
         /\ \A i \in Addr : i < len \/ i < pos => Prepared(c)[i] \in Byte
<1>1. \A i \in Addr : i \in Int
  BY CursorAssumption DEF Addr
<1>2. /\ len \in Nat /\ pos \in Nat
      /\ mem \in [Addr -> Byte \cup {Garbage}]
  BY CursorAssumption DEF TypeOK
<1>3. QED
  BY <1>1, <1>2, CursorAssumption
  DEF Prepared, ZeroFilled, Regrown, InitializedBelowLen

LEMMA CopiedCells ==
  ASSUME TypeOK, NEW n \in Nat, NEW src \in [0 .. n - 1 -> Byte],
         NEW m \in [Addr -> Byte \cup {Garbage}]
  PROVE  /\ Copied(m, n, src) \in [Addr -> Byte \cup {Garbage}]
         /\ \A i \in Addr : pos <= i /\ i < pos + n => Copied(m, n, src)[i] \in Byte
         /\ \A i \in Addr : ~(pos <= i /\ i < pos + n) => Copied(m, n, src)[i] = m[i]
<1>1. pos \in Nat /\ \A i \in Addr : i \in Nat
  BY CursorAssumption DEF TypeOK, Addr
<1>2. \A i \in Addr : pos <= i /\ i < pos + n => src[i - pos] \in Byte
  BY <1>1, ChunkByte
<1>3. QED
  BY <1>1, <1>2 DEF Copied

(* A capacity that fits a write holds the old contents as well. *)
LEMMA FitsRoom ==
  ASSUME TypeOK, NEW n \in Nat, NEW c \in 0 .. MaxCap, Fits(n, c)
  PROVE  pos + n <= c /\ cap <= c /\ len <= c
  BY CursorAssumption DEF TypeOK, Fits

-----------------------------------------------------------------------------
(* The invariant holds initially and is preserved by every action.         *)

LEMMA InitInvariant == Init => IInv
<1> SUFFICES ASSUME Init PROVE IInv
  OBVIOUS
<1>1. TypeOK
  BY DEF Init, TypeOK
<1>2. InitializedBelowLen
  <2> SUFFICES ASSUME NEW i \in Addr, i < len PROVE mem[i] \in Byte
    BY DEF InitializedBelowLen
  <2>1. ~(i >= len)
    BY CursorAssumption DEF Init, Addr
  <2> QED
    BY <2>1 DEF Init
<1>3. WindowIsSafe
  BY DEF Init, WindowIsSafe
<1> QED
  BY <1>1, <1>2, <1>3 DEF IInv

LEMMA WriteInvariant ==
  ASSUME IInv, NEW n \in 0 .. MaxChunk, NEW src \in [0 .. n - 1 -> Byte],
         Write(n, src)
  PROVE  IInv'
<1>1. PICK c \in 0 .. MaxCap :
        Fits(n, c) /\ cap' = c /\ mem' = Copied(Prepared(c), n, src)
  BY DEF Write
<1>n. n \in Nat /\ \A i \in Addr : i \in Nat
  BY CursorAssumption DEF Addr
<1>t. TypeOK /\ InitializedBelowLen
  BY DEF IInv
<1>2. pos + n <= c /\ cap <= c /\ len <= c
  BY <1>1, <1>n, <1>t, FitsRoom
<1>3. /\ Prepared(c) \in [Addr -> Byte \cup {Garbage}]
      /\ \A i \in Addr : i < len \/ i < pos => Prepared(c)[i] \in Byte
  BY <1>2, <1>t, PreparedCells
<1>4. /\ mem' \in [Addr -> Byte \cup {Garbage}]
      /\ \A i \in Addr : pos <= i /\ i < pos + n => mem'[i] \in Byte
      /\ \A i \in Addr : ~(pos <= i /\ i < pos + n) => mem'[i] = Prepared(c)[i]
  BY <1>1, <1>n, <1>t, <1>3, CopiedCells
<1>5. TypeOK'
  BY <1>1, <1>2, <1>4, <1>n, <1>t, CursorAssumption DEF TypeOK, Write, AddLen
<1>6. InitializedBelowLen'
  <2> SUFFICES ASSUME NEW i \in Addr, i < len' PROVE mem'[i] \in Byte
    BY DEF InitializedBelowLen
  <2>1. i < len \/ i < pos \/ (pos <= i /\ i < pos + n)
    BY <1>n, <1>t, CursorAssumption DEF Write, AddLen, TypeOK
  <2> QED
    BY <2>1, <1>3, <1>4
<1>7. WindowIsSafe'
  BY DEF Write, WindowIsSafe
<1> QED
  BY <1>5, <1>6, <1>7 DEF IInv

LEMMA OpenWindowInvariant ==
  ASSUME IInv, NEW n \in 0 .. MaxChunk, OpenWindow(n)
  PROVE  IInv'
<1>1. PICK c \in 0 .. MaxCap : Fits(n, c) /\ cap' = c /\ mem' = Prepared(c)
  BY DEF OpenWindow
<1>n. n \in Nat /\ \A i \in Addr : i \in Nat
  BY CursorAssumption DEF Addr
<1>t. TypeOK /\ InitializedBelowLen
  BY DEF IInv
<1>2. pos + n <= c /\ cap <= c /\ len <= c
  BY <1>1, <1>n, <1>t, FitsRoom
<1>3. /\ mem' \in [Addr -> Byte \cup {Garbage}]
      /\ \A i \in Addr : i < len \/ i < pos => mem'[i] \in Byte
      /\ \A i \in Addr : len <= i /\ i < pos => mem'[i] = Zero
  BY <1>1, <1>2, <1>t, PreparedCells
<1>4. TypeOK'
  BY <1>1, <1>2, <1>3, <1>n, <1>t, CursorAssumption DEF TypeOK, OpenWindow
<1>5. InitializedBelowLen'
  BY <1>3 DEF InitializedBelowLen, OpenWindow
<1>6. WindowIsSafe'
  BY <1>1, <1>2, <1>3 DEF WindowIsSafe, OpenWindow
<1> QED
  BY <1>4, <1>5, <1>6 DEF IInv

LEMMA WindowWriteInvariant ==
  ASSUME IInv, NEW n \in 0 .. MaxChunk, NEW src \in [0 .. n - 1 -> Byte],
         WindowWrite(n, src)
  PROVE  IInv'
<1>n. n \in Nat /\ \A i \in Addr : i \in Nat
  BY CursorAssumption DEF Addr
<1>t. TypeOK /\ InitializedBelowLen /\ WindowIsSafe
  BY DEF IInv
<1>1. /\ mem' \in [Addr -> Byte \cup {Garbage}]
      /\ \A i \in Addr : pos <= i /\ i < pos + n => mem'[i] \in Byte
      /\ \A i \in Addr : ~(pos <= i /\ i < pos + n) => mem'[i] = mem[i]
  BY <1>n, <1>t, CopiedCells DEF WindowWrite, TypeOK
<1>2. pos + n <= cap
  BY <1>n, <1>t, CursorAssumption DEF WindowWrite, WindowIsSafe, TypeOK
<1>3. TypeOK'
  BY <1>1, <1>2, <1>n, <1>t, CursorAssumption DEF TypeOK, WindowWrite, AddLen
<1>4. \A i \in Addr : i < pos' => mem'[i] \in Byte
  BY <1>1, <1>n, <1>t, CursorAssumption DEF WindowWrite, AddLen, WindowIsSafe, TypeOK
<1>5. InitializedBelowLen'
  <2> SUFFICES ASSUME NEW i \in Addr, i < len' PROVE mem'[i] \in Byte
    BY DEF InitializedBelowLen
  <2>1. i < len \/ i < pos'
    BY <1>n, <1>t, CursorAssumption DEF WindowWrite, AddLen, TypeOK
  <2> QED
    BY <2>1, <1>1, <1>4, <1>t DEF InitializedBelowLen
<1>6. \A i \in Addr : ~(len' <= i /\ i < pos')
  BY <1>n, <1>t, CursorAssumption DEF WindowWrite, AddLen, TypeOK
<1>7. WindowIsSafe'
  BY <1>4, <1>6, <1>n, <1>t, CursorAssumption
  DEF WindowWrite, AddLen, WindowIsSafe, TypeOK
<1> QED
  BY <1>3, <1>5, <1>7 DEF IInv

LEMMA StepInvariant == IInv /\ [Next]_vars => IInv'
<1> SUFFICES ASSUME IInv, [Next]_vars PROVE IInv'
  OBVIOUS
<1> USE DEF IInv, TypeOK, InitializedBelowLen, WindowIsSafe
<1>1. ASSUME NEW n \in 0 .. MaxChunk, NEW src \in [0 .. n - 1 -> Byte], Write(n, src)
      PROVE  IInv'
  BY <1>1, WriteInvariant
<1>2. ASSUME NEW n \in 0 .. MaxChunk, NEW src \in [0 .. n - 1 -> Byte],
             WindowWrite(n, src)
      PROVE  IInv'
  BY <1>2, WindowWriteInvariant
<1>3. ASSUME NEW n \in 0 .. MaxChunk, OpenWindow(n)
      PROVE  IInv'
  BY <1>3, OpenWindowInvariant
<1>4. ASSUME NEW n \in 0 .. MaxChunk, Refuse(n)
      PROVE  IInv'
  BY <1>4 DEF Refuse
<1>5. CASE CloseWindow
  BY <1>5 DEF CloseWindow
<1>6. CASE SetPosition
  BY <1>6 DEF SetPosition
<1>7. CASE Truncate
  <2>1. len' \in 0 .. cap /\ len' <= len
    BY <1>7, CursorAssumption DEF Truncate
  <2>2. \A i \in Addr : i < len' => i < len
    BY <2>1, CursorAssumption DEF Addr
  <2> QED
    BY <1>7, <2>1, <2>2 DEF Truncate
<1>8. CASE UNCHANGED vars
  BY <1>8 DEF vars
<1> QED
  BY <1>1, <1>2, <1>3, <1>4, <1>5, <1>6, <1>7, <1>8 DEF Next

-----------------------------------------------------------------------------
(* Type correctness of the cursor and its vector. *)
THEOREM TypeCorrect == Spec => []TypeOK
<1>1. IInv => TypeOK
  BY DEF IInv
<1> QED
  BY <1>1, InitInvariant, StepInvariant, PTL DEF Spec

(* set_len never exposes a cell that holds no byte. *)
THEOREM NeverExposesGarbage == Spec => []InitializedBelowLen
<1>1. IInv => InitializedBelowLen
  BY DEF IInv
<1> QED
  BY <1>1, InitInvariant, StepInvariant, PTL DEF Spec

(* The unchecked writes of a trusted window never leave the allocation. *)
THEOREM WindowsStayInside == Spec => []WindowIsSafe
<1>1. IInv => WindowIsSafe
  BY DEF IInv
<1> QED
  BY <1>1, InitInvariant, StepInvariant, PTL DEF Spec

-----------------------------------------------------------------------------
(* What a write leaves in the cells below the new length, whether it goes  *)
(* through the cursor or through a window.                                 *)
LEMMA WriteCells ==
  ASSUME IInv, NEW n \in 0 .. MaxChunk, NEW src \in [0 .. n - 1 -> Byte],
         Write(n, src) \/ WindowWrite(n, src)
  PROVE  /\ len' = (IF pos + n > len THEN pos + n ELSE len)
         /\ pos' = pos + n
         /\ len' <= MaxCap
         /\ \A i \in Addr : i < len' =>
              mem'[i] = (IF pos <= i /\ i < pos + n THEN src[i - pos]
                         ELSE IF i < len THEN mem[i] ELSE Zero)
<1>n. n \in Nat /\ \A i \in Addr : i \in Nat
  BY CursorAssumption DEF Addr
<1>t. TypeOK /\ InitializedBelowLen /\ WindowIsSafe
  BY DEF IInv
<1>l. /\ len' = (IF pos + n > len THEN pos + n ELSE len)
      /\ pos' = pos + n
  BY DEF Write, WindowWrite, AddLen
<1>i. IInv'
  BY WriteInvariant, WindowWriteInvariant
<1>1. len' <= MaxCap
  BY <1>i, CursorAssumption DEF IInv, TypeOK
<1>2. ASSUME NEW i \in Addr, i < len'
      PROVE  mem'[i] = (IF pos <= i /\ i < pos + n THEN src[i - pos]
                        ELSE IF i < len THEN mem[i] ELSE Zero)
  <2>1. CASE Write(n, src)
    <3>1. PICK c \in 0 .. MaxCap :
            Fits(n, c) /\ cap' = c /\ mem' = Copied(Prepared(c), n, src)
      BY <2>1 DEF Write
    <3>2. len <= c
      BY <3>1, <1>n, <1>t, FitsRoom
    <3>3. /\ \A j \in Addr : j < len => Prepared(c)[j] = mem[j]
          /\ \A j \in Addr : len <= j /\ j < pos => Prepared(c)[j] = Zero
      BY <3>2, <1>t, PreparedCells
    <3>4. mem'[i] = IF pos <= i /\ i < pos + n THEN src[i - pos] ELSE Prepared(c)[i]
      BY <3>1 DEF Copied
    <3>5. ~(pos <= i /\ i < pos + n) => i < len \/ (len <= i /\ i < pos)
      BY <1>2, <1>l, <1>n, <1>t, CursorAssumption DEF TypeOK
    <3> QED
      BY <3>3, <3>4, <3>5, <1>n, <1>t, CursorAssumption DEF TypeOK
  <2>2. CASE WindowWrite(n, src)
    <3>1. mem'[i] = IF pos <= i /\ i < pos + n THEN src[i - pos] ELSE mem[i]
      BY <2>2 DEF WindowWrite, Copied
    <3>2. ~(pos <= i /\ i < pos + n) => i < len \/ (len <= i /\ i < pos)
      BY <1>2, <1>l, <1>n, <1>t, CursorAssumption DEF TypeOK
    <3>3. \A j \in Addr : len <= j /\ j < pos => mem[j] = Zero
      BY <2>2, <1>t DEF WindowWrite, WindowIsSafe
    <3> QED
      BY <3>1, <3>2, <3>3, <1>n, <1>t, CursorAssumption DEF TypeOK
  <2> QED
    BY <2>1, <2>2
<1> QED
  BY <1>l, <1>1, <1>2

(* No call disturbs a byte outside the range it was asked to write. *)
THEOREM NoDisturbance == Spec => DisturbsOnlyItsRange
<1>1. IInv /\ [Next]_vars => [Undisturbed]_<<len, mem, pos>>
  <2> SUFFICES ASSUME IInv, [Next]_vars
               PROVE  Undisturbed \/ UNCHANGED <<len, mem, pos>>
    OBVIOUS
  <2>t. /\ TypeOK /\ \A i \in Addr : i \in Nat
        /\ len \in Nat /\ pos \in Nat
    BY CursorAssumption DEF IInv, TypeOK, Addr
  <2>1. ASSUME NEW n \in 0 .. MaxChunk, NEW src \in [0 .. n - 1 -> Byte],
               Write(n, src) \/ WindowWrite(n, src)
        PROVE  Undisturbed
    BY <2>1, <2>t, WriteCells DEF Undisturbed
  <2>2. ASSUME NEW n \in 0 .. MaxChunk, OpenWindow(n)
        PROVE  Undisturbed
    <3>1. PICK c \in 0 .. MaxCap : Fits(n, c) /\ mem' = Prepared(c)
      BY <2>2 DEF OpenWindow
    <3>2. len <= c
      BY <3>1, <2>t, FitsRoom
    <3>3. \A i \in Addr : i < len => mem'[i] = mem[i]
      BY <3>1, <3>2, PreparedCells DEF IInv
    <3> QED
      BY <2>2, <3>3 DEF OpenWindow, Undisturbed
  <2>3. CASE Truncate
    BY <2>3, <2>t DEF Truncate, Undisturbed
  <2>4. CASE SetPosition
    BY <2>4, <2>t DEF SetPosition, Undisturbed
  <2> QED
    BY <2>1, <2>2, <2>3, <2>4 DEF Next, Refuse, CloseWindow, vars
<1> QED
  BY <1>1, InitInvariant, StepInvariant, PTL DEF Spec, DisturbsOnlyItsRange

-----------------------------------------------------------------------------
(* The cursor implements a sparse file.                                    *)

LEMMA InitialFile == Init => File!Init
<1> SUFFICES ASSUME Init PROVE File!Init
  OBVIOUS
<1>1. IInv
  BY InitInvariant
<1>2. len \in Nat /\ pos \in Nat /\ \A i \in 0 .. len - 1 : i \in Addr /\ i < len
  BY <1>1, CursorAssumption DEF IInv, TypeOK, Addr
<1>3. \A i \in 0 .. len - 1 : mem[i] \in Byte
  BY <1>1, <1>2 DEF IInv, InitializedBelowLen
<1> QED
  BY <1>2, <1>3 DEF File!Init

LEMMA StepFile == IInv /\ [Next]_vars => [File!Next]_File!vars
<1> SUFFICES ASSUME IInv, [Next]_vars
             PROVE  File!Next \/ UNCHANGED File!vars
  OBVIOUS
<1>i. IInv'
  BY StepInvariant
<1>a. /\ TypeOK /\ len \in 0 .. MaxCap /\ pos \in Nat
      /\ \A i \in Addr : i \in Nat
  BY CursorAssumption DEF IInv, TypeOK, Addr
<1>b. len' \in 0 .. MaxCap /\ pos' \in Nat
  BY <1>i, CursorAssumption DEF IInv, TypeOK
<1>c. ASSUME NEW k \in 0 .. MaxCap, NEW i \in 0 .. k - 1
      PROVE  i \in Addr /\ i < k
  BY CursorAssumption DEF Addr
<1>d. len \in Nat /\ len' \in Nat
  BY <1>a, <1>b, CursorAssumption
<1>e. \A i \in 0 .. len - 1 : i \in Addr /\ i < len
  BY <1>a, <1>c
<1>f. \A i \in 0 .. len' - 1 : i \in Addr /\ i < len'
  BY <1>b, <1>c
<1>t. /\ TypeOK /\ len \in Nat /\ pos \in Nat
      /\ \A i \in 0 .. len - 1 : i \in Addr /\ i < len
      /\ \A i \in Addr : i \in Nat
      /\ len' \in Nat /\ pos' \in Nat
      /\ \A i \in 0 .. len' - 1 : i \in Addr /\ i < len'
  BY <1>a, <1>b, <1>d, <1>e, <1>f
<1>1. ASSUME NEW n \in 0 .. MaxChunk, NEW src \in [0 .. n - 1 -> Byte],
             Write(n, src) \/ WindowWrite(n, src)
      PROVE  File!Next
  <2>n. n \in Nat
    OBVIOUS
  <2>1. len' = File!Larger(len, pos + n) /\ pos' = pos + n
    BY <1>1, <1>t, <2>n, WriteCells DEF File!Larger
  <2>2. ASSUME NEW i \in 0 .. len' - 1
        PROVE  mem'[i] = IF pos <= i /\ i < pos + n THEN src[i - pos]
                    ELSE IF i < len THEN [j \in 0 .. len - 1 |-> mem[j]][i] ELSE Zero
    <3>1. mem'[i] = IF pos <= i /\ i < pos + n THEN src[i - pos]
                    ELSE IF i < len THEN mem[i] ELSE Zero
      BY <1>1, <1>t, WriteCells
    <3>2. i < len => i \in 0 .. len - 1
      BY <1>t
    <3> QED
      BY <3>1, <3>2
  <2>3. File!Put(n, src)
    BY <2>1, <2>2 DEF File!Put
  <2> QED
    BY <2>3 DEF File!Next
<1>2. ASSUME NEW n \in 0 .. MaxChunk, OpenWindow(n)
      PROVE  UNCHANGED File!vars
  <2>1. PICK c \in 0 .. MaxCap : Fits(n, c) /\ mem' = Prepared(c)
    BY <1>2 DEF OpenWindow
  <2>2. len <= c
    BY <2>1, <1>t, FitsRoom
  <2>3. \A i \in Addr : i < len => mem'[i] = mem[i]
    BY <2>1, <2>2, PreparedCells DEF IInv
  <2> QED
    BY <1>2, <1>t, <2>3 DEF OpenWindow, File!vars
<1>3. CASE Truncate
  <2>a. len' \in 0 .. len
    BY <1>3 DEF Truncate
  <2>b. len' <= len
    BY <2>a, <1>d
  <2>1. \A i \in 0 .. len' - 1 : i \in 0 .. len - 1
    BY <2>b, <1>d, PrefixWithin
  <2>2. File!Truncate
    BY <1>3, <2>a, <2>1 DEF Truncate, File!Truncate
  <2> QED
    BY <2>2 DEF File!Next
<1>4. CASE SetPosition
  <2>1. File!Seek
    BY <1>4, <1>t DEF SetPosition, File!Seek
  <2> QED
    BY <2>1 DEF File!Next
<1> QED
  BY <1>1, <1>2, <1>3, <1>4 DEF Next, Refuse, CloseWindow, vars, File!vars

(* Growth, windows and spare capacity cannot be observed: every behaviour  *)
(* of the cursor is, read through the refinement mapping of VecCursor, a   *)
(* behaviour of SparseFile.                                                *)
THEOREM Refinement == Spec => ImplementsSparseFile
BY InitInvariant, StepInvariant, InitialFile, StepFile, PTL
DEF Spec, File!Spec, ImplementsSparseFile
=============================================================================

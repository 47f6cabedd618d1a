----------------------------- MODULE VecCursor ------------------------------
(***************************************************************************)
(* Writer for Cursor<Vec<u8>> and Cursor<&mut Vec<u8>> (io/cursor.rs), its *)
(* trusted windows included.  The vector is an allocation of `cap` cells   *)
(* of which the first `len` are exposed as initialised bytes; the cursor   *)
(* writes at `pos`, which may lie anywhere, also beyond `len` or `cap`.    *)
(* Memory is explicit: a cell that was allocated and never written, or     *)
(* whose contents a reallocation need not have kept, is Garbage.           *)
(***************************************************************************)
EXTENDS Integers

CONSTANTS
  Byte,         (* the values of a byte                                    *)
  Zero,         (* the byte that fills a gap                               *)
  Garbage,      (* what an uninitialised cell holds                        *)
  MaxCap,       (* isize::MAX: no allocation is larger                     *)
  MaxUsize,     (* usize::MAX: the largest position                        *)
  MaxChunk      (* bound: the longest single write                         *)

ASSUME CursorAssumption ==
  /\ Zero \in Byte /\ Garbage \notin Byte
  /\ MaxCap \in Nat /\ MaxUsize \in Nat /\ MaxCap <= MaxUsize
  /\ MaxChunk \in Nat

Addr == 0 .. MaxCap - 1

VARIABLES
  cap,          (* Vec::capacity                                           *)
  len,          (* Vec::len                                                *)
  mem,          (* [Addr -> Byte \cup {Garbage}]: cells below cap are ours  *)
  pos,          (* Cursor::pos                                             *)
  open,         (* a trusted window is borrowed                            *)
  left,         (* bytes its holder may still write                        *)
  result        (* outcome of the last call                                *)

vars == <<cap, len, mem, pos, open, left, result>>

TypeOK ==
  /\ cap \in 0 .. MaxCap
  /\ len \in 0 .. cap
  /\ mem \in [Addr -> Byte \cup {Garbage}]
  /\ pos \in 0 .. MaxUsize
  /\ open \in BOOLEAN
  /\ left \in Nat
  /\ result \in {"ok", "limit", "panic"}

(* Any vector the caller owns, any position. *)
Init ==
  /\ cap \in 0 .. MaxCap
  /\ len \in 0 .. cap
  /\ mem \in [Addr -> Byte \cup {Garbage}]
  /\ \A i \in Addr : mem[i] = Garbage <=> i >= len
  /\ pos \in 0 .. MaxUsize
  /\ open = FALSE /\ left = 0
  /\ result = "ok"

-----------------------------------------------------------------------------
(* Mutant: the capacity check is off by one. *)
FitsOffByOne(n, c) ==
  IF pos + n <= cap + 1 THEN c = cap ELSE c \in pos + n .. MaxCap

(* Mutant: room is reserved behind the length, as Vec::reserve does, and   *)
(* not behind the cursor.                                                  *)
FitsFromLen(n, c) ==
  IF len + n <= cap THEN c = cap ELSE c \in len + n .. MaxCap

(* Capacity c suffices for n bytes at pos: the present one, or, when it is *)
(* too small, whatever Vec::reserve chooses to allocate.                   *)
Fits(n, c) ==
  IF pos + n <= cap THEN c = cap ELSE c \in pos + n .. MaxCap

(* A reallocation keeps the first len cells and only those. *)
Regrown(c) ==
  [i \in Addr |-> IF c # cap /\ i >= len THEN Garbage ELSE mem[i]]

(* Mutant: only never-written cells are filled, stale bytes stay. *)
ZeroFilledIfFresh(m) ==
  [i \in Addr |-> IF len <= i /\ i < pos /\ m[i] = Garbage THEN Zero ELSE m[i]]

ZeroFilled(m) ==
  [i \in Addr |-> IF len <= i /\ i < pos THEN Zero ELSE m[i]]

(* Mutant: the gap is not filled. *)
PreparedWithoutFill(c) == Regrown(c)

(* prepare_write: room for the write and no gap below pos; len unchanged. *)
Prepared(c) == ZeroFilled(Regrown(c))

Copied(m, n, src) ==
  [i \in Addr |-> IF pos <= i /\ i < pos + n THEN src[i - pos] ELSE m[i]]

(* Mutant: the length is set even where the write ends below it. *)
AddLenAlways(n) ==
  /\ len' = pos + n
  /\ pos' = pos + n

(* add_len: expose what was written, move the cursor behind it. *)
AddLen(n) ==
  /\ len' = IF pos + n > len THEN pos + n ELSE len
  /\ pos' = pos + n

-----------------------------------------------------------------------------
Write(n, src) ==
  /\ ~open
  /\ pos + n <= MaxUsize
  /\ \E c \in 0 .. MaxCap :
       /\ Fits(n, c)
       /\ cap' = c
       /\ mem' = Copied(Prepared(c), n, src)
  /\ AddLen(n)
  /\ result' = "ok"
  /\ UNCHANGED <<open, left>>

(* pos + n overflows, or reserve would exceed isize::MAX and panics: the   *)
(* vector and the cursor are as before.                                    *)
Refuse(n) ==
  /\ ~open
  /\ pos + n > MaxCap /\ pos + n > cap
  /\ result' = IF pos + n > MaxUsize THEN "limit" ELSE "panic"
  /\ UNCHANGED <<cap, len, mem, pos, open, left>>

(* Writer::as_trusted_for(n): capacity and gap are settled once, for all   *)
(* the unchecked writes that follow.                                       *)
OpenWindow(n) ==
  /\ ~open
  /\ pos + n <= MaxUsize
  /\ \E c \in 0 .. MaxCap :
       /\ Fits(n, c)
       /\ cap' = c
       /\ mem' = Prepared(c)
  /\ open' = TRUE /\ left' = n
  /\ result' = "ok"
  /\ UNCHANGED <<len, pos>>

(* VecPosUnchecked::write: no check; the caller of as_trusted_for promised *)
(* not to exceed the window.                                               *)
WindowWrite(n, src) ==
  /\ open /\ n <= left
  /\ mem' = Copied(mem, n, src)
  /\ AddLen(n)
  /\ left' = left - n
  /\ UNCHANGED <<cap, open, result>>

(* The window is dropped: filled, or abandoned because a nested write of   *)
(* the value being serialised failed.                                      *)
CloseWindow ==
  /\ open
  /\ open' = FALSE /\ left' = 0
  /\ UNCHANGED <<cap, len, mem, pos, result>>

SetPosition ==
  /\ ~open
  /\ pos' \in 0 .. MaxUsize
  /\ UNCHANGED <<cap, len, mem, open, left, result>>

(* The owner of the vector takes it back and truncates it between uses. *)
Truncate ==
  /\ ~open
  /\ len' \in 0 .. len
  /\ UNCHANGED <<cap, mem, pos, open, left, result>>

Next ==
  \/ \E n \in 0 .. MaxChunk : \E src \in [0 .. n - 1 -> Byte] :
       Write(n, src) \/ WindowWrite(n, src)
  \/ \E n \in 0 .. MaxChunk : OpenWindow(n) \/ Refuse(n)
  \/ CloseWindow
  \/ SetPosition
  \/ Truncate

Spec == Init /\ [][Next]_vars

-----------------------------------------------------------------------------
(* Properties.                                                             *)

(* Vec::set_len never exposes memory that was not written: every byte the  *)
(* owner of the vector can read was put there by a write or a zero fill,   *)
(* whatever sequence of seeks, growths and abandoned windows led here      *)
(* (`unsafe { inner.set_len(next_pos) }` in add_len).                      *)
InitializedBelowLen == \A i \in Addr : i < len => mem[i] \in Byte

(* The unchecked writes of a window stay inside the allocation, and the    *)
(* gap below the cursor is zero, so that the next add_len may expose it  *)
(* (what as_trusted_for owes to VecPosUnchecked::write).                   *)
WindowIsSafe ==
  open => /\ pos + left <= cap
          /\ \A i \in Addr : i < pos => mem[i] \in Byte
          /\ \A i \in Addr : len <= i /\ i < pos => mem[i] = Zero

Undisturbed ==
  pos' >= pos /\ len' >= len =>
    \A i \in Addr : i < len' /\ ~(pos <= i /\ i < pos') =>
      mem'[i] = (IF i < len THEN mem[i] ELSE Zero)

(* A call disturbs no byte outside the range it was asked to write: what   *)
(* was exposed before stays exposed and unchanged, and what a hole exposes *)
(* is zero.                                                                *)
DisturbsOnlyItsRange == [][Undisturbed]_<<len, mem, pos>>

File == INSTANCE SparseFile WITH
  size <- len,
  data <- [i \in 0 .. len - 1 |-> mem[i]]

(* The cursor implements a sparse file: growth, windows and uninitialised  *)
(* spare capacity cannot be observed through the vector's bytes.           *)
ImplementsSparseFile == File!Spec
=============================================================================

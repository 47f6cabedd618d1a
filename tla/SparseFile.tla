----------------------------- MODULE SparseFile -----------------------------
(***************************************************************************)
(* A seekable byte file with holes, the promise of a Cursor over a Vec: a  *)
(* write replaces the bytes at the position, extends the file when it runs *)
(* past the end, and reads as zero wherever the position skipped ahead.    *)
(* Capacity, trusted windows and uninitialised memory do not show.         *)
(***************************************************************************)
EXTENDS Naturals

CONSTANTS
  Byte,         (* the values of a byte                                    *)
  Zero,         (* the byte a hole reads as                                *)
  MaxChunk      (* bound: the longest single write                         *)

VARIABLES
  size,         (* the length of the file                                  *)
  data,         (* [0 .. size-1 -> Byte]                                   *)
  pos           (* the position, anywhere, also past the end               *)

vars == <<size, data, pos>>

Init == size \in Nat /\ data \in [0 .. size - 1 -> Byte] /\ pos \in Nat

Larger(a, b) == IF a >= b THEN a ELSE b

Put(n, src) ==
  /\ size' = Larger(size, pos + n)
  /\ data' = [i \in 0 .. size' - 1 |->
                IF pos <= i /\ i < pos + n THEN src[i - pos]
                ELSE IF i < size THEN data[i] ELSE Zero]
  /\ pos' = pos + n

Seek == pos' \in Nat /\ UNCHANGED <<size, data>>

Truncate ==
  /\ size' \in 0 .. size
  /\ data' = [i \in 0 .. size' - 1 |-> data[i]]
  /\ UNCHANGED pos

Next ==
  \/ \E n \in 0 .. MaxChunk : \E src \in [0 .. n - 1 -> Byte] : Put(n, src)
  \/ Seek
  \/ Truncate

Spec == Init /\ [][Next]_vars
=============================================================================

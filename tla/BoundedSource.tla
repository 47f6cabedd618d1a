---------------------------- MODULE BoundedSource ----------------------------
(***************************************************************************)
(* What a decoder may rely on when it reads through a LimitReader, whatever *)
(* kind of reader is underneath and whether or not it asks for windows: a  *)
(* single position that only moves forward, and a budget.  A successful    *)
(* read pays for exactly the bytes it delivers; a failure may lose bytes,  *)
(* but every lost byte was paid for as well.                               *)
(***************************************************************************)
EXTENDS Integers

CONSTANT SrcLen         (* the number of bytes in the source               *)

VARIABLES
  place,                (* the next byte a read would deliver              *)
  budget                (* bytes that may still be consumed                *)

vars == <<place, budget>>

Init == place \in Nat /\ budget \in Nat

Take == \E n \in 0 .. budget :
  /\ place + n <= SrcLen
  /\ place' = place + n
  /\ budget' = budget - n

Lose == \E paid \in 0 .. budget : \E lost \in 0 .. paid :
  /\ place' = place + lost
  /\ budget' = budget - paid

Next == Take \/ Lose

Spec == Init /\ [][Next]_vars
=============================================================================

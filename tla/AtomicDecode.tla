---------------------------- MODULE AtomicDecode ----------------------------
(***************************************************************************)
(* What a caller of SchemaRead::read is promised: the destination ends up  *)
(* holding a complete value, or nothing at all.  Which intermediate places *)
(* were initialised, and which guards ran, is invisible at this level.     *)
(***************************************************************************)
CONSTANTS
  Roots,        (* the types a caller may ask for                          *)
  Whole         (* [Roots -> set of the complete contents of such a value] *)

VARIABLES
  root,         (* the type being decoded                                  *)
  phase,        (* "pending", "ok" or "failed"                             *)
  live          (* the places and allocations the caller now owns          *)

vars == <<root, phase, live>>

Init ==
  /\ root \in Roots
  /\ phase = "pending"
  /\ live = {}

(* read returned Ok: the whole value appears at once. *)
Succeed ==
  /\ phase = "pending"
  /\ phase' = "ok"
  /\ live' \in Whole[root]
  /\ UNCHANGED root

(* read returned Err, or unwound: nothing is left behind. *)
Fail ==
  /\ phase = "pending"
  /\ phase' = "failed"
  /\ live' = {}
  /\ UNCHANGED root

(* The caller may decode into the same destination again. *)
Again ==
  /\ phase = "failed"
  /\ phase' = "pending"
  /\ UNCHANGED <<root, live>>

Next == Succeed \/ Fail \/ Again

Spec == Init /\ [][Next]_vars /\ WF_vars(Succeed \/ Fail)
=============================================================================

----------------------------- MODULE MCVecCursor ----------------------------
(* Four cells, two byte values, writes of up to two bytes, positions past  *)
(* the largest allocation and up to the overflow of usize.                 *)
EXTENDS VecCursor
=============================================================================

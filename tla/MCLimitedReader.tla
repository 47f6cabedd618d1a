--------------------------- MODULE MCLimitedReader ---------------------------
(* Every kind of reader; reads of up to three bytes and windows of up to   *)
(* 3 x 3 bytes over five bytes of source, with a limit above the source    *)
(* and a usize::MAX below the largest product.                             *)
EXTENDS LimitedReader
=============================================================================

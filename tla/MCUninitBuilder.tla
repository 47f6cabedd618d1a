--------------------------- MODULE MCUninitBuilder ---------------------------
(* Four fields, of one, two and three parts, which fill a bit set of four. *)
EXTENDS UninitBuilder

MCParts == <<1, 2, 3, 1>>
=============================================================================

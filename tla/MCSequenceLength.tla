-------------------------- MODULE MCSequenceLength --------------------------
(* Bytes of two bits; usize of two or three bytes; integers of one to three. *)
EXTENDS SequenceLength

MCWidths == <<1, 2, 3>>
MCLengths == (-2 .. 6) \cup {8, 15, 16, 17, 22, 31, 32, 63, 64}

ASSUME ReadBackAssumption == IntegersReadBack
=============================================================================

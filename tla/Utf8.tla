-------------------------------- MODULE Utf8 --------------------------------
(***************************************************************************)
(* UTF-8: the standard library's encoding and validation, and the decoder  *)
(* of one char that schema/impls.rs writes out by hand.                    *)
(***************************************************************************)
EXTENDS IntEncoding

Continuation == 128 .. 191
Scalar(code) == code <= 1114111 /\ (code < 55296 \/ code > 57343)

(* char::encode_utf8 *)
Utf8(code) ==
  LET low(unit) == 128 + ((code \div unit) % 64) IN
  IF code < 128 THEN <<code>>
  ELSE IF code < 2048 THEN <<192 + (code \div 64), low(1)>>
  ELSE IF code < 65536 THEN <<224 + (code \div 4096), low(64), low(1)>>
  ELSE <<240 + (code \div 262144), low(4096), low(64), low(1)>>

(* What the lead byte and the continuation bytes of a char spell *)
CodePoint(bytes) ==
  LET low(k) == bytes[k] % 64 IN
  CASE Len(bytes) = 1 -> bytes[1]
    [] Len(bytes) = 2 -> (bytes[1] % 32) * 64 + low(2)
    [] Len(bytes) = 3 -> (bytes[1] % 16) * 4096 + low(2) * 64 + low(3)
    [] Len(bytes) = 4 -> (bytes[1] % 8) * 262144 + low(2) * 4096 + low(3) * 64 + low(4)

IsChar(bytes) == Scalar(CodePoint(bytes)) /\ Utf8(CodePoint(bytes)) = bytes

(* str::from_utf8 takes chars off the front until there is none; the bytes  *)
(* are valid if none of them are left.                                      *)
ValidUtf8(bytes) ==
  LET Chars(k) == {n \in 1 .. 4 :
                     n <= k /\ IsChar(SubSeq(bytes, Len(bytes) - k + 1, Len(bytes) - k + n))}
      left[k \in 0 .. Len(bytes)] ==
        IF Chars(k) = {} THEN k ELSE left[k - (CHOOSE n \in Chars(k) : TRUE)]
  IN left[Len(bytes)] = 0

-----------------------------------------------------------------------------
(* How many bytes the decoder takes for a lead byte; 0: invalid_char_lead *)
CharBytes(lead) ==
  CASE lead \in 0 .. 127   -> 1
    [] lead \in 194 .. 223 -> 2
    [] lead \in 224 .. 239 -> 3
    [] lead \in 240 .. 244 -> 4
    [] OTHER               -> 0

(* Mutant: the last scalar values are refused. *)
OutOfRangeOffByOne(lead, second) ==
  \/ lead = 224 /\ second < 160
  \/ lead = 237 /\ second >= 160
  \/ lead = 240 /\ second < 144
  \/ lead = 244 /\ second >= 143

(* Too long an encoding, a surrogate, or above the last scalar value *)
OutOfRange(lead, second) ==
  \/ lead = 224 /\ second < 160
  \/ lead = 237 /\ second >= 160
  \/ lead = 240 /\ second < 144
  \/ lead = 244 /\ second > 143

(* utf8_error runs from_utf8 on the bytes again for the error it must find. *)
Panicked == [Failed EXCEPT !.used = -1]
Utf8Error(bytes) == IF ValidUtf8(bytes) THEN Panicked ELSE Failed

DecodeChar(bytes) ==
  LET n == IF bytes = <<>> THEN 0 ELSE CharBytes(bytes[1])
      taken == SubSeq(bytes, 1, n)
  IN CASE n = 0 \/ n > Len(bytes) -> Failed
       [] n = 1                   -> Decoded(bytes[1], 1)
       [] n \in 2 .. Len(bytes)   ->
            IF (\E k \in 2 .. n : taken[k] \notin Continuation) \/ OutOfRange(taken[1], taken[2])
            THEN Utf8Error(taken)
            ELSE IF Scalar(CodePoint(taken)) THEN Decoded(CodePoint(taken), n) ELSE Failed
=============================================================================

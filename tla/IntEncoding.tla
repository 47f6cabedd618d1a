----------------------------- MODULE IntEncoding -----------------------------
(***************************************************************************)
(* The two integer encodings of schema/int_encoding.rs, FixInt and VarInt, *)
(* over bytes with Base values.  Widths are the byte counts of u16, u32,   *)
(* u64 and u128; a type is [width |-> its index, signed |-> BOOLEAN].      *)
(***************************************************************************)
EXTENDS Integers, SequencesExt

CONSTANTS
  Base,           (* values of a byte, 256 in the code                     *)
  SingleByteMax,  (* SINGLE_BYTE_MAX: the largest value without a tag      *)
  Widths          (* <<2, 4, 8, 16>> in the code                           *)

ASSUME IntAssumption ==
  /\ Base \in Nat /\ SingleByteMax \in Nat
  /\ Widths \in Seq(Nat \ {0})
  /\ Base % 2 = 0
  /\ SingleByteMax + Len(Widths) < Base

Types == [width : DOMAIN Widths, signed : BOOLEAN]
Encodings == {"fix", "var"}
Endians == {"big", "little"}

(* The powers of Base, by recursion for the sake of proofs *)
Power[k \in Nat] == IF k = 0 THEN 1 ELSE Base * Power[k - 1]

Modulus(w) == Power[Widths[w]]
Lowest(t) == IF t.signed THEN -(Modulus(t.width) \div 2) ELSE 0
Highest(t) == IF t.signed THEN Modulus(t.width) \div 2 - 1 ELSE Modulus(t.width) - 1

(* Casts between the signed and the unsigned type of a width, and !n *)
AsUnsigned(v, w) == v % Modulus(w)
AsSigned(n, w) == IF n < Modulus(w) \div 2 THEN n ELSE n - Modulus(w)
Not(n, w) == Modulus(w) - 1 - n

(* Mutant: negates instead of complementing. *)
ZigZagNegating(v, w) ==
  IF v < 0 THEN (AsUnsigned(-v, w) * 2 + 1) % Modulus(w)
           ELSE (AsUnsigned(v, w) * 2) % Modulus(w)

ZigZag(v, w) ==
  IF v < 0 THEN (Not(AsUnsigned(v, w), w) * 2 + 1) % Modulus(w)
           ELSE (AsUnsigned(v, w) * 2) % Modulus(w)

UnZigZag(n, w) ==
  AsSigned(IF n % 2 = 0 THEN n \div 2 ELSE Not(n \div 2, w), w)

ToBytes(n, w, endian) ==
  LET little == [k \in 1 .. Widths[w] |-> (n \div Power[k - 1]) % Base]
  IN IF endian = "little" THEN little ELSE Reverse(little)

FromBytes(bytes, endian) ==
  LET big == IF endian = "big" THEN bytes ELSE Reverse(bytes)
      value[k \in 0 .. Len(bytes)] == IF k = 0 THEN 0 ELSE Base * value[k - 1] + big[k]
  IN value[Len(bytes)]

(* Mutant: the bound of a width is one too high. *)
ChosenOffByOne(n, w) ==
  CHOOSE c \in 1 .. w :
    /\ c = w \/ n <= Modulus(c)
    /\ \A narrower \in 1 .. c - 1 : n > Modulus(narrower)

(* The first width in the tag list that can hold n; the last is not asked. *)
Chosen(n, w) ==
  CHOOSE c \in 1 .. w :
    /\ c = w \/ n < Modulus(c)
    /\ \A narrower \in 1 .. c - 1 : n >= Modulus(narrower)

EncodeUnsigned(n, w, endian) ==
  IF n <= SingleByteMax THEN <<n>>
  ELSE LET c == Chosen(n, w)
       IN <<SingleByteMax + c>> \o ToBytes(n % Modulus(c), c, endian)

Encode(v, t, enc, endian) ==
  CASE enc = "fix"             -> ToBytes(AsUnsigned(v, t.width), t.width, endian)
    [] enc = "var" /\ t.signed -> EncodeUnsigned(ZigZag(v, t.width), t.width, endian)
    [] OTHER                   -> EncodeUnsigned(v, t.width, endian)

(* Mutant: the largest value of a width is counted with the next one. *)
AnnouncedOffByOne(n, w) ==
  CHOOSE c \in 1 .. w :
    /\ c = w \/ n < Highest([width |-> c, signed |-> FALSE])
    /\ \A narrower \in 1 .. c - 1 : n >= Highest([width |-> narrower, signed |-> FALSE])

(* The same ladder, which size_of writes out again *)
Announced(n, w) ==
  CHOOSE c \in 1 .. w :
    /\ c = w \/ n <= Highest([width |-> c, signed |-> FALSE])
    /\ \A narrower \in 1 .. c - 1 : n > Highest([width |-> narrower, signed |-> FALSE])

SizeOfUnsigned(n, w) ==
  IF n <= SingleByteMax THEN 1 ELSE 1 + Widths[Announced(n, w)]

IntSize(v, t, enc) ==
  CASE enc = "fix"             -> Widths[t.width]
    [] enc = "var" /\ t.signed -> SizeOfUnsigned(ZigZag(v, t.width), t.width)
    [] OTHER                   -> SizeOfUnsigned(v, t.width)

Failed == [ok |-> FALSE, value |-> 0, used |-> 0]
Decoded(v, used) == [ok |-> TRUE, value |-> v, used |-> used]

(* Mutant: an input that ends early is taken as it is. *)
TakeShort(bytes, skip, w, endian) ==
  LET end == IF Len(bytes) < skip + Widths[w] THEN Len(bytes) ELSE skip + Widths[w]
  IN Decoded(FromBytes(SubSeq(bytes, skip + 1, end), endian), end)

(* take_array of Widths[w] bytes behind the first `skip`, as an unsigned number *)
Take(bytes, skip, w, endian) ==
  IF Len(bytes) < skip + Widths[w] THEN Failed
  ELSE Decoded(FromBytes(SubSeq(bytes, skip + 1, skip + Widths[w]), endian),
               skip + Widths[w])

(* The tags a decoder of width w has a match arm for. *)
WidthsTaken(w) == 1 .. w

DecodeUnsigned(bytes, w, endian) ==
  IF bytes = <<>> THEN Failed
  ELSE LET tag == bytes[1] - SingleByteMax IN
       CASE tag <= 0               -> Decoded(bytes[1], 1)
         [] tag \in WidthsTaken(w) -> Take(bytes, 1, tag, endian)
         [] OTHER                  -> Failed

Decode(bytes, t, enc, endian) ==
  LET n == IF enc = "fix" THEN Take(bytes, 0, t.width, endian)
                          ELSE DecodeUnsigned(bytes, t.width, endian)
  IN CASE ~t.signed                 -> n
       [] t.signed /\ enc = "fix"   -> [n EXCEPT !.value = AsSigned(@, t.width)]
       [] OTHER                     -> [n EXCEPT !.value = UnZigZag(@, t.width)]
=============================================================================

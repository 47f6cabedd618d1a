--------------------------- MODULE SequenceLength ---------------------------
(***************************************************************************)
(* The length in front of a sequence (len.rs): converted to the integer    *)
(* type of the SeqLen, encoded, read back on the same machine or one with  *)
(* another usize, checked against the preallocation limit on either side,  *)
(* and turned into the capacity of a map.  The tag of an enum is converted *)
(* in the same way (tag_encoding.rs), with u32 in the place of usize.      *)
(***************************************************************************)
EXTENDS IntEncoding

CONSTANTS
  WordBytes,    (* byte counts a usize may have                            *)
  Lengths,      (* lengths and foreign length fields that are tried        *)
  Sizes,        (* size_of an element or key                               *)
  Limits,       (* limits in bytes that a configuration may set            *)
  BitsPerByte   (* 8 in the code                                           *)

ASSUME LengthAssumption ==
  /\ WordBytes \subseteq Nat \ {0} /\ Sizes \subseteq Nat /\ Limits \subseteq Nat
  /\ BitsPerByte \in Nat /\ Base = 2 ^ BitsPerByte

VARIABLES
  writer, reader,   (* usize::MAX on either side                           *)
  lenType, enc,     (* the SeqLen                                          *)
  override,         (* its PREALLOCATION_SIZE_LIMIT, or UsizeMax           *)
  config,           (* the configured limit, or NoLimit                    *)
  wsize, rsize,     (* size_of T::Src and T::Dst                           *)
  checked,          (* the sides that check the limit: "write", "read"     *)
  len,              (* the length of the sequence, or a foreign field      *)
  wire,             (* the encoded length                                  *)
  result,           (* what the reader gets                                *)
  capacity,         (* what a map with unique keys then reserves           *)
  phase             (* where the length is                                 *)

inputs == <<writer, reader, lenType, enc, override, config, wsize, rsize, checked, len>>
vars == <<inputs, wire, result, capacity, phase>>

NoLimit == -1
UsizeMax == -1                      (* usize::MAX as an override            *)
Words == {Power[b] - 1 : b \in WordBytes}
Larger(a, b) == IF a < b THEN b ELSE a
Smaller(a, b) == IF a < b THEN a ELSE b

(* Configuration: a limit of usize::MAX is none. *)
Configured(word) == IF config = word THEN NoLimit ELSE config

(* PreallocationLimitOverride::from_usize and to_opt_limit_with_config *)
Effective(word) ==
  LET raw == IF override = UsizeMax THEN word ELSE override
  IN CASE raw = 0    -> Configured(word)
       [] raw = word -> NoLimit
       [] OTHER      -> raw

(* Mutant: the product wraps. *)
PreallocWrapping(n, size, word) ==
  \/ Effective(word) = NoLimit
  \/ (n * Larger(size, 1)) % (word + 1) <= Effective(word)

(* prealloc_check: the limit is off, or it covers a product that does not overflow. *)
Prealloc(n, size, word) ==
  LET needed == n * Larger(size, 1)
  IN Effective(word) = NoLimit \/ (needed <= word /\ needed <= Effective(word))

(* Mutant: the length is cast. *)
FitsAlways(n, t) == TRUE

(* T::Src::try_from(len) *)
Fits(n, t) == n \in Lowest(t) .. Highest(t)

Refused == -1

(* Mutant: the length is cast to usize. *)
ToWordCast(n, word) == n % (word + 1)

(* usize::try_from(len) *)
ToWord(n, word) == IF n \in 0 .. word THEN n ELSE Refused

(* Mutant: shifts without looking at the width of usize. *)
UniqueKeyCapacityWrapping(n, size, word) ==
  Smaller(n, (2 ^ (BitsPerByte * size)) % (word + 1))

(* unique_key_capacity: at most as many entries as a key of `size` bytes has values *)
UniqueKeyCapacity(n, size, word) ==
  LET keys == 2 ^ (BitsPerByte * size)
  IN IF keys <= word THEN Smaller(n, keys) ELSE n

Init ==
  /\ writer \in Words /\ reader \in Words
  /\ lenType \in Types /\ enc \in Encodings
  /\ override \in {0, UsizeMax} \cup Limits /\ config \in {NoLimit} \cup Limits
  /\ override # 0 => config = NoLimit
  /\ wsize \in Sizes /\ rsize \in Sizes
  /\ checked \in SUBSET {"write", "read"}
  /\ len \in Lengths
  /\ wire = <<>> /\ result = Refused /\ capacity = 0 /\ phase = "new"

(* A container of `len` elements: the check, if this one makes it, and *)
(* Len::write, which refuses what its integer type cannot hold.        *)
Write ==
  /\ phase = "new" /\ len \in 0 .. writer
  /\ IF ("write" \in checked => Prealloc(len, wsize, writer)) /\ Fits(len, lenType)
     THEN /\ wire' = Encode(len, lenType, enc, "little")
          /\ phase' = "written"
     ELSE /\ phase' = "refused"
          /\ UNCHANGED wire
  /\ UNCHANGED <<inputs, result, capacity>>

(* Another program's length field: any value of the type. *)
Foreign ==
  /\ phase = "new" /\ len \in Lowest(lenType) .. Highest(lenType)
  /\ wire' = Encode(len, lenType, enc, "little")
  /\ phase' = "foreign"
  /\ UNCHANGED <<inputs, result, capacity>>

(* Len::read or read_prealloc_check; a map reserves for what it got. *)
Read ==
  /\ phase \in {"written", "foreign"}
  /\ LET n == ToWord(Decode(wire, lenType, enc, "little").value, reader)
         accepted == n # Refused /\ ("read" \in checked => Prealloc(n, rsize, reader))
     IN /\ result' = IF accepted THEN n ELSE Refused
        /\ capacity' = IF accepted THEN UniqueKeyCapacity(n, rsize, reader) ELSE 0
  /\ phase' = IF phase = "written" THEN "read" ELSE "read_foreign"
  /\ UNCHANGED <<inputs, wire>>

Next == Write \/ Foreign \/ Read

Spec == Init /\ [][Next]_vars

-----------------------------------------------------------------------------
(* Every integer type reads back what it wrote (int_encoding.rs).           *)
IntegersReadBack ==
  \A t \in Types, e \in Encodings : \A v \in Lowest(t) .. Highest(t) :
    Decode(Encode(v, t, e, "little"), t, e, "little").value = v

(* A reader gets the length that was written or an error, also when its     *)
(* usize is narrower and when the field is negative.                        *)
SameLength == result # Refused => result = len

(* What a checking writer accepts is accepted by a reader with the same     *)
(* configuration and elements that are no larger ("mirrors",                *)
(* encode_from_iter_prealloc_check in containers.rs).  An override that is  *)
(* usize::MAX on one side only is two different limits.                     *)
ReadsBack ==
  /\ phase = "read" /\ "write" \in checked
  /\ rsize <= wsize /\ writer <= reader /\ Effective(writer) = Effective(reader)
  => result = len

(* An accepted length never stands for more memory than the limit allows,   *)
(* and not for more than usize can count.                                   *)
AllocationBounded ==
  ("read" \in checked /\ result # Refused /\ Effective(reader) # NoLimit) =>
    result * Larger(rsize, 1) <= Smaller(Effective(reader), reader)

(* A map reserves for as many entries as it can hold: no fewer ("never      *)
(* under-allocates"), and no more than there are keys or than the length    *)
(* says, also where usize cannot count the keys.                            *)
CapacityIsExact ==
  result # Refused => capacity = Smaller(result, 2 ^ (BitsPerByte * rsize))
=============================================================================

---------------------------- MODULE Configuration ----------------------------
(***************************************************************************)
(* config/mod.rs: the knobs of a Configuration and the builder methods     *)
(* that return it with one of them changed.  native and usize belong to    *)
(* the target the program is compiled for, not to the configuration.       *)
(***************************************************************************)
EXTENDS Codec

U32 == Len(Widths) - 1
(* BincodeLen is UseIntLen<u64>; FixIntLen ignores the integer encoding. *)
UseIntLen(int, limit) == [of |-> int, limit |-> limit]
FixIntLen(w, limit) == [of |-> Fixed(w, FALSE), limit |-> limit]
BincodeLen == UseIntLen(Integer(U64, FALSE), UseConfig)

DefaultPreallocationSizeLimit == 40   (* 4 MiB in the code *)

Default(target) ==
  [enc |-> "fix", endian |-> "little", align |-> TRUE, len |-> BincodeLen,
   tag |-> Integer(U32, FALSE), prealloc |-> DefaultPreallocationSizeLimit,
   native |-> target.native, usize |-> target.usize]

WithLengthEncoding(c, len) == [c EXCEPT !.len = len]
WithBigEndian(c)       == [c EXCEPT !.endian = "big"]
WithLittleEndian(c)    == [c EXCEPT !.endian = "little"]
WithPlatformEndian(c)  == [c EXCEPT !.endian = c.native]
WithFixintEncoding(c)  == [c EXCEPT !.enc = "fix"]
WithVarintEncoding(c)  == [c EXCEPT !.enc = "var"]
EnableZeroCopyAlignCheck(c)  == [c EXCEPT !.align = TRUE]
DisableZeroCopyAlignCheck(c) == [c EXCEPT !.align = FALSE]
WithPreallocationSizeLimit(c, limit) == [c EXCEPT !.prealloc = limit]
DisablePreallocationSizeLimit(c)     == [c EXCEPT !.prealloc = NoLimit]
WithTagEncoding(c, tag) == [c EXCEPT !.tag = tag]
=============================================================================

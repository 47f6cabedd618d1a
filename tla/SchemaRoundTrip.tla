--------------------------- MODULE SchemaRoundTrip ---------------------------
(***************************************************************************)
(* A value is serialized under a configuration that builder calls made,    *)
(* and deserialized by the same schema, or an integer by another integer   *)
(* type: intact, cut short, with a byte changed, or from foreign bytes.    *)
(***************************************************************************)
EXTENDS Configuration

CONSTANTS
  Targets,        (* [native, usize] of the machines                       *)
  MaxCalls,       (* builder calls that change the configuration           *)
  MaxFaultyCalls, (* as many where the input is cut, changed or foreign    *)
  LenEncodings, TagEncodings, Limits,   (* what they may choose            *)
  Schemas,        (* from names to schemas                                 *)
  Values,         (* from names to the values that are written             *)
  Integers,       (* names of integer types, which read one another        *)
  Owned,          (* from names of borrowing types to names of owned ones  *)
  Foreign,        (* from names to byte strings not written by this code   *)
  Trailing,       (* the bytes that follow in the input                    *)
  Damage,         (* values a changed byte may take                        *)
  MaxDamaged,     (* how far into the input a byte is changed              *)
  Addresses       (* where the input may start in memory                   *)

VARIABLES
  config, calls,  (* the configuration and the builder calls so far        *)
  name, value,    (* what is serialized                                    *)
  size,           (* how many bytes it took                                *)
  rd,             (* the input: [bytes, address, borrows]                  *)
  reader,         (* the name of the type that is deserialized             *)
  result,         (* what it gets                                          *)
  phase           (* "configured", "written", "refused", "cut", "damaged", *)
                  (* "foreign", "intact read" ...                          *)

vars == <<config, calls, name, value, size, rd, reader, result, phase>>

NoInput == [bytes |-> <<>>, address |-> 0, borrows |-> TRUE]

Init ==
  /\ config \in {Default(target) : target \in Targets}
  /\ calls = 0 /\ name = "" /\ value = 0 /\ size = 0 /\ rd = NoInput
  /\ reader = "" /\ result = Failed /\ phase = "configured"

BuilderCalls(c) ==
  {WithBigEndian(c), WithLittleEndian(c), WithPlatformEndian(c),
   WithFixintEncoding(c), WithVarintEncoding(c),
   EnableZeroCopyAlignCheck(c), DisableZeroCopyAlignCheck(c), DisablePreallocationSizeLimit(c)}
  \cup {WithPreallocationSizeLimit(c, limit) : limit \in Limits}
  \cup {WithLengthEncoding(c, len) : len \in LenEncodings}
  \cup {WithTagEncoding(c, tag) : tag \in TagEncodings}

Configure ==
  /\ phase = "configured" /\ calls < MaxCalls
  /\ config' \in BuilderCalls(config) \ {config}
  /\ calls' = calls + 1
  /\ UNCHANGED <<name, value, size, rd, reader, result, phase>>

Named(sets) == UNION {{<<n, x>> : x \in sets[n]} : n \in DOMAIN sets}
ToWrite == Named(Values)
ToReceive == Named(Foreign)

Serialize ==
  /\ phase = "configured"
  /\ \E w \in ToWrite :
       \E written \in {Write(Schemas[w[1]], w[2], config)} :
         /\ name' = w[1] /\ value' = w[2]
         /\ phase' = IF written.ok THEN "intact" ELSE "refused"
         /\ size' = Len(written.bytes)
         /\ rd' = [rd EXCEPT !.bytes = written.bytes \o Trailing]
  /\ UNCHANGED <<config, calls, reader, result>>

Receive ==
  /\ phase = "configured" /\ calls <= MaxFaultyCalls
  /\ \E r \in ToReceive : name' = r[1] /\ rd' = [rd EXCEPT !.bytes = r[2]]
  /\ phase' = "foreign"
  /\ UNCHANGED <<config, calls, value, size, reader, result>>

Truncate ==
  /\ phase = "intact" /\ calls <= MaxFaultyCalls
  /\ \E n \in {0, size \div 2, size - 1} \cap Nat :
       n < size /\ rd' = [rd EXCEPT !.bytes = SubSeq(@, 1, n)]
  /\ phase' = "cut"
  /\ UNCHANGED <<config, calls, name, value, size, reader, result>>

Corrupt ==
  /\ phase = "intact" /\ calls <= MaxFaultyCalls
  /\ \E k \in 1 .. Min({size, MaxDamaged}), byte \in Damage :
       rd.bytes[k] # byte /\ rd' = [rd EXCEPT !.bytes[k] = byte]
  /\ phase' = "damaged"
  /\ UNCHANGED <<config, calls, name, value, size, reader, result>>

(* What a borrowing schema, which borrows last, lends out of the input *)
RECURSIVE Lent(_)
Lent(s) ==
  CASE s.kind = "struct" -> Lent(Last(s.fields))
    [] s.kind = "as"     -> Lent(s.inner)
    [] s.kind = "either" -> Lent(s.borrowed)
    [] s.kind = "ref"    -> s.to
    [] s.kind = "seq"    -> s.elem

(* The bound ZeroCopy<C>: without it the program does not compile. *)
Compiles(n) == n \in DOMAIN Owned => Marked(Lent(Schemas[n]), config)

(* From a slice anywhere in memory, or from a stream that lends nothing *)
Sources ==
  IF name \in DOMAIN Owned /\ phase = "intact" THEN Addresses \X BOOLEAN ELSE {<<0, TRUE>>}

(* VarInts of other types can be told apart; fixed integers cannot. *)
Readers == IF name \in Integers /\ config.enc = "var" THEN Integers ELSE {name}

Deserialize ==
  /\ phase \in {"intact", "cut", "damaged", "foreign"}
  /\ \E n \in Readers, source \in Sources :
       /\ Compiles(n)
       /\ reader' = n
       /\ rd' = [rd EXCEPT !.address = source[1], !.borrows = source[2]]
       /\ \E input \in {rd'} : result' = Read(Schemas[n], input, 0, config)
  /\ phase' = phase \o " read"
  /\ UNCHANGED <<config, calls, name, value, size>>

Next == Configure \/ Serialize \/ Receive \/ Truncate \/ Corrupt \/ Deserialize

Spec == Init /\ [][Next]_vars

-----------------------------------------------------------------------------
Schema == Schemas[name]
HasRead == phase \in {"intact read", "cut read", "damaged read", "foreign read"}
Gets(r, v, used) == r.ok /\ r.used = used /\ r.value = v

(* size_of, and TYPE_META where it is Static, are the bytes that write      *)
(* writes (schema/mod.rs, the safety sections of SchemaWrite): trusted      *)
(* windows and the buffer of serialize are opened with them.  None of the   *)
(* bytes is padding.                                                        *)
SizeIsExact ==
  phase = "intact" =>
    /\ SizeOf(Schema, value, config) = size
    /\ LET m == Meta(Schema, "write", config) IN m.static => m.size = size
    /\ \A k \in 1 .. size : rd.bytes[k] # Uninit

(* Fields that a schema skips or discards come back as their default. *)
RECURSIVE Kept(_, _)
Kept(s, v) ==
  CASE s.kind = "struct"             -> [i \in DOMAIN v |-> Kept(s.fields[i], v[i])]
    [] s.kind \in {"skip", "discard"} -> s.default
    [] OTHER                         -> v

(* What was written is read back by the same schema, right up to its end,   *)
(* under every configuration: whatever the preallocation limit and the      *)
(* converted lengths and tags let write through, read accepts.  A borrowing *)
(* type may still fail for want of alignment or of something to borrow.     *)
RoundTrip ==
  (phase = "intact read" /\ reader = name) =>
    \/ Gets(result, Kept(Schema, value), size)
    \/ name \in DOMAIN Owned /\ ~result.ok

(* A VarInt can be read by a wider type, and a narrower one either gets the *)
(* value or reports the tag: it never gets a different value.               *)
NeverAnotherValue ==
  (HasRead /\ name \in Integers /\ phase # "damaged read" /\ config.enc = "var"
           /\ Schemas[reader].type.signed = Schema.type.signed) =>
    /\ result.ok => result.value = value
    /\ (Schemas[reader].type.width >= Schema.type.width /\ phase = "intact read") => result.ok

(* No encoding starts with a shorter one: a cut input is an error.          *)
CutIsAnError == (phase = "cut read" /\ reader = name) => ~result.ok

(* The first char of the bytes, as the standard library decodes a string *)
FirstChar(bytes) ==
  {n \in 1 .. Min({4, Len(bytes)}) :
     /\ ValidUtf8(SubSeq(bytes, 1, n))
     /\ \A shorter \in 1 .. n - 1 : ~ValidUtf8(SubSeq(bytes, 1, shorter))}

(* A decoded value can be written, and reads back as itself. *)
ReadsBack(s, v, again, c) ==
  /\ again.ok /\ Len(again.bytes) = SizeOf(s, v, c)
  /\ Gets(Read(s, [NoInput EXCEPT !.bytes = again.bytes], 0, DisableZeroCopyAlignCheck(c)),
          v, Len(again.bytes))

(* Whether a skipped field takes up memory, anywhere in the type *)
RECURSIVE SkipsMemory(_, _)
SkipsMemory(s, c) ==
  CASE s.kind = "skip"   -> Layout(s, c).size > 0
    [] s.kind = "struct" -> \E i \in DOMAIN s.fields : SkipsMemory(s.fields[i], c)
    [] s.kind = "array"  -> SkipsMemory(s.elem, c)
    [] OTHER             -> FALSE

(* Borrows of a type that has the marker ZeroCopy<C> and not the flag *)
LendsUnflagged(n) == n \in DOMAIN Owned /\ SkipsMemory(Lent(Schemas[n]), config)

(* Whatever the bytes, decoding does not panic, unless it lends a type that *)
(* is not flagged (ZeroCopyAgrees); a value it accepts is one of its type:  *)
(* it can be written, and reads back as itself; and it takes as many bytes  *)
(* as a Static TYPE_META says.  The decoder of char takes what the standard *)
(* library takes, and nothing else.                                         *)
DecodedIsSane ==
  HasRead =>
    LET s == Schemas[reader] IN
    /\ result.used < 0 => LendsUnflagged(reader)
    /\ result.ok =>
         /\ ReadsBack(s, result.value, Write(s, result.value, config), config)
         /\ LET m == Meta(s, "read", config) IN m.static => result.used = m.size
    /\ s.kind = "char" =>
         IF result.ok THEN FirstChar(rd.bytes) = {result.used}
                           /\ Utf8(result.value) = SubSeq(rd.bytes, 1, result.used)
                      ELSE FirstChar(rd.bytes) = {}

(* How many there are in a value *)
RECURSIVE Count(_, _)
Count(s, v) ==
  CASE s.kind = "struct" -> Count(Last(s.fields), Last(v))
    [] s.kind = "as"     -> Count(s.inner, v)
    [] s.kind = "either" -> Count(s.borrowed, v)
    [] s.kind = "ref"    -> 1
    [] s.kind = "seq"    -> Len(v)
Aligned(r) ==
  LET layout == Layout(Lent(Schemas[reader]), config)
      lent == Count(Schemas[reader], r.value) * layout.size
  IN (rd.address + r.used - lent) % layout.align = 0

(* The owned types check a limit that the borrowing ones need not. *)
Unlimited(c) == [c EXCEPT !.prealloc = NoLimit, !.len.limit = NoLimit]

(* A reference shows what an owned read of the same bytes gets; and there   *)
(* is one unless it would not be aligned, or the type is not flagged.       *)
Borrows(r, owned) ==
  /\ r.ok => owned.ok /\ Gets(r, owned.value, owned.used)
  /\ (r.ok /\ config.align) => Aligned(r)
  /\ (owned.ok /\ Aligned(owned) /\ ~LendsUnflagged(reader)) => r.ok

(* A type that claims zero_copy is laid out in memory as it is encoded, so  *)
(* that a memcpy of elements is their encoding, and no bytes of its size    *)
(* are invalid.  What the marker ZeroCopy<C> lets through claims it, on     *)
(* both sides, except where a skipped field takes up memory: that the code  *)
(* marks and does not flag, and assert_zero_copy tells the two apart.       *)
(* Where such a type is lent the read panics, in spite of the comment       *)
(* "Should be impossible to reach" (impls.rs), wherever the bytes lie, and  *)
(* shows nothing.  Any other reference into the input shows what an owned   *)
(* read of the same bytes gets, and is aligned unless the check was         *)
(* disabled, by an unsafe call.                                             *)
ZeroCopyAgrees ==
  /\ phase = "intact" /\ Marked(Schema, config) =>
       LET whole == ~SkipsMemory(Schema, config) IN
       /\ Meta(Schema, "read", config).zc = whole /\ Meta(Schema, "write", config).zc = whole
       /\ Schema.kind = "struct" => AssertZeroCopy(Schema, config) = whole
  /\ phase = "intact" =>
       /\ Meta(Schema, "write", config).zc =>
            Image(Schema, value, config) = SubSeq(rd.bytes, 1, size)
       /\ Meta(Schema, "read", config).zc =>
            FromImage(Schema, SubSeq(rd.bytes, 1, size), config) = value
  /\ HasRead /\ ~result.ok =>
       LET m == Meta(Schemas[reader], "read", config)
       IN ~m.zc \/ Len(rd.bytes) < m.size
  /\ (HasRead /\ LendsUnflagged(reader)) =>
       ~result.ok /\ (phase = "intact read" => result = Panicked)
  /\ (HasRead /\ reader \in DOMAIN Owned /\ rd.borrows) =>
       Borrows(result, Read(Schemas[Owned[reader]], rd, 0, Unlimited(config)))
=============================================================================

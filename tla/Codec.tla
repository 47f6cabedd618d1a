------------------------------- MODULE Codec -------------------------------
(***************************************************************************)
(* The schema language that the SchemaWrite and SchemaRead implementations *)
(* are built from.  A schema is a record whose "kind" names a form of      *)
(* implementation; Write, SizeOf and Read are the three methods, Meta is   *)
(* TYPE_META, and Image is the value in memory, which replaces Write and   *)
(* Read wherever an element type says that it is zero-copy.                *)
(***************************************************************************)
EXTENDS Utf8

RECURSIVE Meta(_, _, _), Layout(_, _), Image(_, _, _), FromImage(_, _, _)
RECURSIVE Write(_, _, _), SizeOf(_, _, _), Read(_, _, _, _)

-----------------------------------------------------------------------------
(* Forms *)
Byte(signed)      == [kind |-> "byte", signed |-> signed]
Integer(w, signed) == [kind |-> "int", type |-> [width |-> w, signed |-> signed]]
Fixed(w, signed)  == [kind |-> "fixed", type |-> [width |-> w, signed |-> signed]]
Word(signed)      == [kind |-> "word", signed |-> signed]
Char              == [kind |-> "char"]
(* A skipped field: in the struct's memory, not in its encoding *)
Skip(type, default) == [kind |-> "skip", type |-> type, default |-> default]
Discard(inner, default) == [kind |-> "discard", inner |-> inner, default |-> default]
Array(n, elem)    == [kind |-> "array", n |-> n, elem |-> elem]
Pod(type)         == [kind |-> "pod", type |-> type]
Struct(repr, fs)  == [kind |-> "struct", repr |-> repr, fields |-> fs]
Reference(to)     == [kind |-> "ref", to |-> to]
Either(borrowed, owned) == [kind |-> "either", borrowed |-> borrowed, owned |-> owned]
(* kept: where zero_copy survives, a subset of {"write", "read"} *)
As(name, inner, kept) == [kind |-> "as", name |-> name, inner |-> inner, kept |-> kept]
(* checked: prealloc_check on both sides; bulk: elements are memcpyed *)
Seqn(len, elem, checked, bulk, borrowed) ==
  [kind |-> "seq", len |-> len, elem |-> elem, checked |-> checked,
   bulk |-> bulk, borrowed |-> borrowed]
(* joined: TYPE_META looks at the variants, instead of being Dynamic *)
Tagged(tag, tags, variants, joined) ==
  [kind |-> "tagged", tag |-> tag, tags |-> tags, variants |-> variants, joined |-> joined]

U64 == Len(Widths)
ConfigLen == [of |-> "config"]
ConfigTag == [kind |-> "config"]
LenOf(s, c) == IF s.len = ConfigLen THEN c.len ELSE s.len
TagOf(s, c) == IF s.tag = ConfigTag THEN c.tag ELSE s.tag

-----------------------------------------------------------------------------
(* TYPE_META *)
Dynamic == [static |-> FALSE, size |-> 0, zc |-> FALSE]
Static(size, zc) == [static |-> TRUE, size |-> size, zc |-> zc]
KeepZeroCopy(m, keep) == [m EXCEPT !.zc = @ /\ keep]
Total(ns) == FoldLeft(LAMBDA sum, n : sum + n, 0, ns)
JoinTypes(ms) ==
  IF \A i \in DOMAIN ms : ms[i].static
  THEN Static(Total([i \in DOMAIN ms |-> ms[i].size]), \A i \in DOMAIN ms : ms[i].zc)
  ELSE Dynamic

(* Mutant: the byte order of the machine is not asked. *)
NativeOrderIgnored(c) == TRUE

NativeOrder(c) == c.endian = c.native
IntMeta(w, zc, c) == IF c.enc = "fix" THEN Static(Widths[w], zc /\ NativeOrder(c)) ELSE Dynamic
Metas(ss, side, c) == [i \in DOMAIN ss |-> Meta(ss[i], side, c)]

Eligible(repr) == repr \in {"C", "transparent"}

(* Zero-copy only when nothing but the fields is in the struct's memory. *)
StructMeta(s, side, c) ==
  LET joined == JoinTypes(Metas(s.fields, side, c))
  IN KeepZeroCopy(joined, Eligible(s.repr) /\ joined.size = Layout(s, c).size)

(* Static when the tag is and all variants have one size; never zero-copy. *)
TaggedMeta(s, side, c) ==
  LET tag == Meta(TagOf(s, c), side, c)
      variant(i) == JoinTypes(<<tag>> \o Metas(s.variants[i], side, c))
  IN IF s.joined /\ \A i \in DOMAIN s.variants :
                      variant(i).static /\ variant(i).size = variant(1).size
     THEN KeepZeroCopy(variant(1), FALSE) ELSE Dynamic

Meta(s, side, c) ==
  CASE s.kind = "byte"   -> Static(1, TRUE)
    [] s.kind = "int"    -> IntMeta(s.type.width, TRUE, c)
    [] s.kind = "fixed"  -> Static(Widths[s.type.width], NativeOrder(c))
    [] s.kind = "word"   -> IntMeta(U64, c.usize = U64, c)
    [] s.kind = "skip"   -> Static(0, TRUE)
    [] s.kind = "pod"    -> Static(Layout(s.type, c).size, TRUE)
    [] s.kind = "array"  -> LET m == Meta(s.elem, side, c) IN [m EXCEPT !.size = s.n * @]
    [] s.kind = "struct" -> StructMeta(s, side, c)
    [] s.kind = "tagged" -> TaggedMeta(s, side, c)
    [] s.kind = "ref"    -> KeepZeroCopy(Meta(s.to, side, c), FALSE)
    [] s.kind = "discard" -> KeepZeroCopy(Meta(s.inner, side, c), FALSE)
    [] s.kind = "as"     -> KeepZeroCopy(Meta(s.inner, side, c), side \in s.kept)
    [] OTHER             -> Dynamic

-----------------------------------------------------------------------------
(* The value in memory *)
Uninit == -1

AlignUp(n, align) == ((n + align - 1) \div align) * align

(* Offsets of the fields of a repr(C) struct, then its unpadded size *)
Offsets(s, c) ==
  FoldLeft(LAMBDA at, f : LET l == Layout(f, c)
                              start == AlignUp(at[Len(at)], l.align)
                          IN Append(Front(at), start) \o <<start + l.size>>,
           <<0>>, s.fields)

(* size_of and align_of; the compiler's own for what has no fixed layout *)
Layout(s, c) ==
  LET square(n) == [size |-> n, align |-> n] IN
  CASE s.kind = "byte"               -> square(1)
    [] s.kind \in {"int", "fixed"}   -> square(Widths[s.type.width])
    [] s.kind = "word"               -> square(Widths[c.usize])
    [] s.kind = "array"  -> [Layout(s.elem, c) EXCEPT !.size = s.n * @]
    [] s.kind \in {"as", "discard"} -> Layout(s.inner, c)
    [] s.kind \in {"pod", "skip"}   -> Layout(s.type, c)
    [] s.kind = "struct" ->
         LET align == Max({1} \cup {Layout(s.fields[i], c).align : i \in DOMAIN s.fields})
         IN [size |-> AlignUp(Last(Offsets(s, c)), align), align |-> align]
    [] OTHER             -> square(Widths[c.usize])

Image(s, v, c) ==
  CASE s.kind = "byte"             -> <<v % Base>>
    [] s.kind \in {"int", "fixed"} ->
         ToBytes(AsUnsigned(v, s.type.width), s.type.width, c.native)
    [] s.kind = "word"             -> ToBytes(AsUnsigned(v, c.usize), c.usize, c.native)
    [] s.kind = "array"            -> FlattenSeq([i \in 1 .. s.n |-> Image(s.elem, v[i], c)])
    [] s.kind = "as"               -> Image(s.inner, v, c)
    [] s.kind \in {"pod", "skip"}  -> Image(s.type, v, c)
    [] s.kind = "struct"           ->
         LET parts == [i \in DOMAIN s.fields |-> Image(s.fields[i], v[i], c)]
             at == Offsets(s, c)
         IN [k \in 1 .. Layout(s, c).size |->
               IF \E i \in DOMAIN parts : k \in at[i] + 1 .. at[i] + Len(parts[i])
               THEN LET i == CHOOSE i \in DOMAIN parts : k \in at[i] + 1 .. at[i] + Len(parts[i])
                    IN parts[i][k - at[i]]
               ELSE Uninit]

FromImage(s, bytes, c) ==
  LET number(t) == LET n == FromBytes(bytes, c.native)
                   IN IF t.signed THEN AsSigned(n, t.width) ELSE n
      size == Layout(s.elem, c).size
  IN CASE s.kind = "byte"   -> IF s.signed /\ bytes[1] >= Base \div 2 THEN bytes[1] - Base
                               ELSE bytes[1]
       [] s.kind \in {"int", "fixed"} -> number(s.type)
       [] s.kind = "word"   -> number([width |-> c.usize, signed |-> s.signed])
       [] s.kind = "array"  ->
            [i \in 1 .. s.n |-> FromImage(s.elem, SubSeq(bytes, (i - 1) * size + 1, i * size), c)]
       [] s.kind = "as"     -> FromImage(s.inner, bytes, c)
       [] s.kind \in {"pod", "skip"} -> FromImage(s.type, bytes, c)
       [] s.kind = "struct" ->
            LET at == Offsets(s, c) IN
            [i \in DOMAIN s.fields |->
               FromImage(s.fields[i],
                         SubSeq(bytes, at[i] + 1, at[i] + Layout(s.fields[i], c).size), c)]

-----------------------------------------------------------------------------
(* The marker trait ZeroCopy<C>, which borrowing asks for.  A derive asks  *)
(* it of every field, the skipped ones included.                           *)
RECURSIVE Marked(_, _)

StructMarked(s, c) ==
  /\ Eligible(s.repr)
  /\ \A i \in DOMAIN s.fields : Marked(s.fields[i], c)
  /\ Total([i \in DOMAIN s.fields |-> Layout(s.fields[i], c).size]) = Layout(s, c).size

Marked(s, c) ==
  CASE s.kind \in {"byte", "pod"} -> TRUE
    [] s.kind = "int"    -> c.enc = "fix" /\ NativeOrder(c)
    [] s.kind = "fixed"  -> NativeOrder(c)
    [] s.kind = "word"   -> c.usize = U64 /\ c.enc = "fix" /\ NativeOrder(c)
    [] s.kind = "array"  -> Marked(s.elem, c)
    [] s.kind = "skip"   -> Marked(s.type, c)
    [] s.kind = "struct" -> StructMarked(s, c)
    [] OTHER             -> FALSE

(* What #[wincode(assert_zero_copy)] asserts when it compiles *)
AssertZeroCopy(s, c) ==
  LET m == Meta(s, "read", c) IN
  /\ s.kind = "struct" /\ Eligible(s.repr) /\ Marked(s, c)
  /\ \A i \in DOMAIN s.fields : Marked(s.fields[i], c)
  /\ m.static /\ m.size = Layout(s, c).size

-----------------------------------------------------------------------------
(* Values with more states than their wire, or fewer *)
UuidBytes == 16

(* What the type admits, or lets be read out at all *)
Valid(name, v) ==
  CASE name = "bool"       -> v \in {0, 1}
    [] name = "nonzero"    -> v # 0
    [] name = "utf8"       -> ValidUtf8(v)
    [] name = "uuid"       -> Len(v) = UuidBytes
    [] name = "guarded"    -> ~v.held
    [] name = "systemtime" -> v[1] >= 0
    [] OTHER               -> TRUE

(* The bits of a bv::BitVec<u8> past its length *)
BlockBits == 8
BlockCount(bits) == (bits + BlockBits - 1) \div BlockBits
Unused(blocks, bits) ==
  IF bits % BlockBits = 0 THEN 0 ELSE Last(blocks) \div 2 ^ (bits % BlockBits)
Masked(blocks, bits) ==
  IF bits % BlockBits = 0 THEN blocks
  ELSE Front(blocks) \o <<Last(blocks) % 2 ^ (bits % BlockBits)>>
StoredBlocks(blocks) == IF blocks = <<>> THEN <<1, <<>>>> ELSE <<2, <<blocks>>>>
ReadBlocks(stored) == IF stored[1] = 1 THEN <<>> ELSE stored[2][1]

ToWire(name, v) ==
  CASE name = "guarded" -> v.value
    [] name = "map"     -> SetToSeq({<<k, v[k]>> : k \in DOMAIN v})
    [] name = "set"     -> SetToSeq(v)
    [] name = "bitvec"  -> <<StoredBlocks(v.blocks), v.bits>>
    [] name = "strictbitvec" -> <<StoredBlocks(Masked(v.blocks, v.bits)), v.bits>>
    [] OTHER            -> v

NanosPerSec == 1000

(* Duration::new carries the nanoseconds, and panics where this fails. *)
CarryNanos(w) == <<w[1] + w[2] \div NanosPerSec, w[2] % NanosPerSec>>
DurationFits(w) == CarryNanos(w)[1] <= Highest([width |-> U64, signed |-> FALSE])
TimeFits(w) == CarryNanos(w)[1] <= Highest([width |-> U64, signed |-> TRUE])

(* Inserting in the order read: the last value of a key stays. *)
Inserted(pairs) ==
  FoldLeft(LAMBDA map, pair : pair[1] :> pair[2] @@ map, <<>>, pairs)

(* IndexMap and IndexSet keep the place where a key was first inserted. *)
InsertedInPlace(entries, keyed) ==
  LET key(entry) == IF keyed THEN entry[1] ELSE entry
  IN FoldLeft(LAMBDA map, entry :
                LET at == {i \in DOMAIN map : key(map[i]) = key(entry)}
                IN IF at = {} THEN Append(map, entry)
                   ELSE [i \in DOMAIN map |-> IF i \in at THEN entry ELSE map[i]],
              <<>>, entries)

(* Surplus blocks are cut off; strict: exactly as many, nothing past the end *)
FromBlocks(stored, bits) ==
  LET blocks == ReadBlocks(stored)
  IN [ok |-> bits <= BlockBits * Len(blocks),
      value |-> [blocks |-> SubSeq(blocks, 1, Min({Len(blocks), BlockCount(bits)})), bits |-> bits]]
FromBlocksStrict(stored, bits) ==
  LET blocks == ReadBlocks(stored)
  IN [ok |-> /\ stored # <<2, <<<<>>>>>>
             /\ Len(blocks) = BlockCount(bits) /\ Unused(blocks, bits) = 0,
      value |-> [blocks |-> blocks, bits |-> bits]]

FromWire(name, w) ==
  CASE name = "guarded"     -> [ok |-> TRUE, value |-> [held |-> FALSE, value |-> w]]
    [] name = "duration"    -> [ok |-> DurationFits(w), value |-> CarryNanos(w)]
    [] name = "systemtime"  -> [ok |-> DurationFits(w) /\ TimeFits(w), value |-> CarryNanos(w)]
    [] name = "map"         -> [ok |-> TRUE, value |-> Inserted(w)]
    [] name = "set"         -> [ok |-> TRUE, value |-> ToSet(w)]
    [] name = "indexmap"    -> [ok |-> TRUE, value |-> InsertedInPlace(w, TRUE)]
    [] name = "indexset"    -> [ok |-> TRUE, value |-> InsertedInPlace(w, FALSE)]
    [] name = "bitvec"      -> FromBlocks(w[1], w[2])
    [] name = "strictbitvec" -> FromBlocksStrict(w[1], w[2])
    [] name = "heap"        -> [ok |-> TRUE, value |-> SortSeq(w, LAMBDA x, y : x > y)]
    [] OTHER                -> [ok |-> Valid(name, w), value |-> w]

-----------------------------------------------------------------------------
(* SchemaWrite::write *)
Refused == [ok |-> FALSE, bytes |-> <<>>]
Written(bytes) == [ok |-> TRUE, bytes |-> bytes]
InOrder(parts) ==
  IF \A i \in DOMAIN parts : parts[i].ok
  THEN Written(FlattenSeq([i \in DOMAIN parts |-> parts[i].bytes])) ELSE Refused
WriteAll(ss, vs, c) == InOrder([i \in DOMAIN ss |-> Write(ss[i], vs[i], c)])

(* write_slice_t where the elements are zero-copy, element by element otherwise *)
WriteElements(elem, vs, bulk, c) ==
  IF bulk /\ Meta(elem, "write", c).zc
  THEN Written(FlattenSeq([i \in DOMAIN vs |-> Image(elem, vs[i], c)]))
  ELSE InOrder([i \in DOMAIN vs |-> Write(elem, vs[i], c)])

(* try_from: the conversion to the integer type of a length or a tag *)
Fits(n, int) ==
  CASE int.kind = "byte" -> n <= IF int.signed THEN Base \div 2 - 1 ELSE Base - 1
    [] OTHER             -> n <= Highest(int.type)
WriteFitting(int, n, c) == IF Fits(n, int) THEN Write(int, n, c) ELSE Refused

NoLimit == -1
UseConfig == -2
PreallocLimit(len, c) == IF len.limit = UseConfig THEN c.prealloc ELSE len.limit
(* prealloc_check; a zero-sized element counts as one byte *)
Prealloc(s, n, c) ==
  LET limit == PreallocLimit(LenOf(s, c), c)
  IN ~s.checked \/ limit = NoLimit \/ n * Max({1, Layout(s.elem, c).size}) <= limit

Write(s, v, c) ==
  CASE s.kind = "byte"   -> Written(<<v % Base>>)
    [] s.kind = "int"    -> Written(Encode(v, s.type, c.enc, c.endian))
    [] s.kind = "fixed"  -> Written(Encode(v, s.type, "fix", c.endian))
    [] s.kind = "word"   -> Write(Integer(U64, s.signed), v, c)
    [] s.kind = "char"   -> Written(Utf8(v))
    [] s.kind = "pod"    -> Written(Image(s, v, c))
    [] s.kind = "skip"   -> Written(<<>>)
    [] s.kind = "array"  -> WriteElements(s.elem, v, TRUE, c)
    [] s.kind = "struct" -> WriteAll(s.fields, v, c)
    [] s.kind = "seq"    ->
         IF Prealloc(s, Len(v), c)
         THEN InOrder(<<WriteFitting(LenOf(s, c).of, Len(v), c), WriteElements(s.elem, v, s.bulk, c)>>)
         ELSE Refused
    [] s.kind = "tagged" ->
         InOrder(<<WriteFitting(TagOf(s, c), s.tags[v[1]], c), WriteAll(s.variants[v[1]], v[2], c)>>)
    [] s.kind = "as"     -> IF Valid(s.name, v) THEN Write(s.inner, ToWire(s.name, v), c) ELSE Refused
    [] s.kind = "ref"    -> Write(s.to, v, c)
    [] s.kind = "discard" -> Write(s.inner, s.default, c)
    [] s.kind = "either" -> Write(s.borrowed, v, c)

-----------------------------------------------------------------------------
(* SchemaWrite::size_of *)
NoSize == -1
AddSizes(ns) == IF \E i \in DOMAIN ns : ns[i] = NoSize THEN NoSize ELSE Total(ns)
SizeOfEach(ss, vs, c) == AddSizes([i \in DOMAIN ss |-> SizeOf(ss[i], vs[i], c)])
SizeOfFitting(int, n, c) ==
  LET m == Meta(int, "write", c) IN
  CASE m.static                  -> m.size
    [] ~m.static /\ Fits(n, int) -> SizeOf(int, n, c)
    [] OTHER                     -> NoSize

SizeOfSeq(s, vs, c) ==
  LET m == Meta(s.elem, "write", c) IN
  AddSizes(<<SizeOfFitting(LenOf(s, c).of, Len(vs), c),
             IF m.static THEN m.size * Len(vs)
             ELSE SizeOfEach([i \in DOMAIN vs |-> s.elem], vs, c)>>)

SizeOfTagged(s, v, c) ==
  LET tag == s.tags[v[1]] IN
  IF ~Fits(tag, TagOf(s, c)) THEN NoSize
  ELSE AddSizes(<<SizeOf(TagOf(s, c), tag, c), SizeOfEach(s.variants[v[1]], v[2], c)>>)

SizeOf(s, v, c) ==
  LET m == Meta(s, "write", c) IN
  CASE s.kind = "int"    -> IntSize(v, s.type, c.enc)
    [] s.kind = "word"   -> IntSize(v, [width |-> U64, signed |-> s.signed], c.enc)
    [] s.kind = "char"   -> Len(Utf8(v))
    [] s.kind = "array"  -> IF m.static THEN m.size
                            ELSE SizeOfEach([i \in DOMAIN v |-> s.elem], v, c)
    [] s.kind = "struct" -> IF m.static THEN m.size ELSE SizeOfEach(s.fields, v, c)
    [] s.kind = "seq"    -> SizeOfSeq(s, v, c)
    [] s.kind = "tagged" -> SizeOfTagged(s, v, c)
    [] s.kind = "as"     -> IF Valid(s.name, v) THEN SizeOf(s.inner, ToWire(s.name, v), c) ELSE NoSize
    [] s.kind = "ref"    -> SizeOf(s.to, v, c)
    [] s.kind = "discard" -> SizeOf(s.inner, s.default, c)
    [] s.kind = "either" -> SizeOf(s.borrowed, v, c)
    [] OTHER             -> m.size

-----------------------------------------------------------------------------
(* SchemaRead::read from rd, [bytes, address, borrows], behind `at` bytes *)
Left(rd, at) == Len(rd.bytes) - at
Rest(rd, at) == SubSeq(rd.bytes, at + 1, Len(rd.bytes))
Behind(at, r) == IF r.ok THEN [r EXCEPT !.used = @ + at] ELSE r
WithValue(r, v) == IF r.ok THEN [r EXCEPT !.value = v] ELSE r
Following(done, r) == WithValue(r, Append(done.value, r.value))

ReadAll(ss, rd, at, c) ==
  FoldLeft(LAMBDA done, s :
             IF done.ok THEN Following(done, Read(s, rd, done.used, c)) ELSE done,
           Decoded(<<>>, at), ss)

Copied(elem, n, rd, at, c) ==
  LET size == Layout(elem, c).size IN
  Decoded([i \in 1 .. n |->
             FromImage(elem, SubSeq(rd.bytes, at + (i - 1) * size + 1, at + i * size), c)],
          at + n * size)

RECURSIVE ReadEach(_, _, _, _, _)
ReadEach(elem, n, rd, done, c) ==
  IF ~done.ok \/ Len(done.value) = n THEN done
  ELSE ReadEach(elem, n, rd, Following(done, Read(elem, rd, done.used, c)), c)

(* decode_into_slice_t: a Static size is asked for before the first element *)
ReadElements(elem, n, rd, at, c) ==
  LET m == Meta(elem, "read", c) IN
  CASE m.static /\ n * m.size > Left(rd, at) -> Failed
    [] m.zc /\ n * m.size <= Left(rd, at)    -> Copied(elem, n, rd, at, c)
    [] OTHER -> ReadEach(elem, n, rd, Decoded(<<>>, at), c)

Misaligned(elem, rd, at, c) == (rd.address + at) % Layout(elem, c).align # 0

(* size_assert_zero_copy, which panics, then take_borrowed, then            *)
(* cast_ensure_aligned: n elements where they lie                           *)
Borrow(elem, n, rd, at, c) ==
  LET m == Meta(elem, "read", c) IN
  IF ~m.zc THEN Panicked
  ELSE IF \/ ~rd.borrows \/ n * m.size > Left(rd, at)
          \/ c.align /\ Misaligned(elem, rd, at, c)
  THEN Failed ELSE Copied(elem, n, rd, at, c)

ReadCounted(s, len, rd, c) ==
  IF ~len.ok \/ len.value \notin 0 .. Highest([width |-> c.usize, signed |-> FALSE]) THEN Failed
  ELSE IF ~Prealloc(s, len.value, c) THEN Failed
  ELSE IF s.borrowed THEN Borrow(s.elem, len.value, rd, len.used, c)
  ELSE ReadElements(s.elem, len.value, rd, len.used, c)

AsVariant(i, r) == WithValue(r, <<i, r.value>>)
ReadVariant(s, tag, rd, c) ==
  IF ~tag.ok \/ tag.value \notin ToSet(s.tags) THEN Failed
  ELSE LET i == CHOOSE i \in DOMAIN s.tags : s.tags[i] = tag.value
       IN AsVariant(i, ReadAll(s.variants[i], rd, tag.used, c))

Converted(conv, used) == IF conv.ok THEN Decoded(conv.value, used) ELSE Failed
Convert(name, r) == IF r.ok THEN Converted(FromWire(name, r.value), r.used) ELSE r

(* try_into, after a read as the 64-bit type *)
Within(type, r) == IF r.ok /\ r.value \in Lowest(type) .. Highest(type) THEN r ELSE Failed
ReadWord(s, rd, at, c) ==
  Within([width |-> c.usize, signed |-> s.signed], Read(Integer(U64, s.signed), rd, at, c))

OneOf(r) == WithValue(r, r.value[1])

Read(s, rd, at, c) ==
  CASE s.kind = "byte"   -> IF Left(rd, at) = 0 THEN Failed
                            ELSE Decoded(FromImage(s, Rest(rd, at), c), at + 1)
    [] s.kind = "int"    -> Behind(at, Decode(Rest(rd, at), s.type, c.enc, c.endian))
    [] s.kind = "fixed"  -> Behind(at, Decode(Rest(rd, at), s.type, "fix", c.endian))
    [] s.kind = "word"   -> ReadWord(s, rd, at, c)
    [] s.kind = "char"   -> Behind(at, DecodeChar(Rest(rd, at)))
    [] s.kind = "skip"   -> Decoded(s.default, at)
    [] s.kind = "pod"    -> OneOf(ReadElements(s, 1, rd, at, c))
    [] s.kind = "array"  -> ReadElements(s.elem, s.n, rd, at, c)
    [] s.kind = "struct" -> ReadAll(s.fields, rd, at, c)
    [] s.kind = "seq"    -> ReadCounted(s, Read(LenOf(s, c).of, rd, at, c), rd, c)
    [] s.kind = "tagged" -> ReadVariant(s, Read(TagOf(s, c), rd, at, c), rd, c)
    [] s.kind = "as"     -> Convert(s.name, Read(s.inner, rd, at, c))
    [] s.kind = "ref"    -> OneOf(Borrow(s.to, 1, rd, at, c))
    [] s.kind = "discard" -> WithValue(Read(s.inner, rd, at, c), s.default)
    [] s.kind = "either" -> Read(IF rd.borrows THEN s.borrowed ELSE s.owned, rd, at, c)
=============================================================================

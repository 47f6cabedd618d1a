------------------------------ MODULE StdTypes ------------------------------
(***************************************************************************)
(* The implementations for the types of the standard library, for derived  *)
(* types, and for those of other crates, as schemas.                       *)
(***************************************************************************)
EXTENDS Codec

None == {}

(* Primitives *)
Bool          == As("bool", Byte(FALSE), {"write"})
NonZero(int)  == As("nonzero", int, {"write"})
Float(w)      == Fixed(w, FALSE)
Unit          == As("same", Struct("C", <<>>), {"write", "read"})
PhantomData   == As("same", Struct("C", <<>>), {"write", "read"})

(* Pointers, cells and locks *)
Box(s)        == As("same", s, None)
Ref(s)        == Reference(s)
Cell(s)       == As("same", s, {"read"})
RefCell(s)    == As("guarded", s, None)
Mutex(s)      == As("guarded", s, None)
RwLock(s)     == As("guarded", s, None)

(* Tuples *)
Tuple1(s)     == Struct("Rust", <<s>>)
Tuple(ss)     == Struct("Rust", ss)

(* Sequences *)
VecWith(s, len)   == Seqn(len, s, TRUE, TRUE, FALSE)
Vec(s)            == VecWith(s, ConfigLen)
BoxSliceWith(s, len) == Seqn(len, s, TRUE, TRUE, FALSE)
BoxSlice(s)       == BoxSliceWith(s, ConfigLen)
VecDeque(s)       == Seqn(ConfigLen, s, TRUE, TRUE, FALSE)
Slice(s)          == Seqn(ConfigLen, s, FALSE, TRUE, TRUE)
LinkedList(s)     == Seqn(ConfigLen, s, TRUE, FALSE, FALSE)
Set(s)            == As("set", LinkedList(s), None)
Map(k, v)         == As("map", LinkedList(Tuple(<<k, v>>)), None)
BinaryHeap(s)     == As("heap", Vec(s), None)
FromIntoIterator(s, len) == Seqn(len, s, TRUE, FALSE, FALSE)

(* Strings *)
Str           == As("utf8", Slice(Byte(FALSE)), None)
String        == As("utf8", Vec(Byte(FALSE)), None)
CowStr        == Either(Str, String)
CowSlice(s)   == Either(Slice(s), Vec(s))

(* Sums *)
Option(s)     == Tagged(Byte(FALSE), <<0, 1>>, <<<<>>, <<s>>>>, FALSE)
Result(s, e)  == Tagged(ConfigTag, <<0, 1>>, <<<<s>>, <<e>>>>, TRUE)
Bound(s)      == Tagged(ConfigTag, <<0, 1, 2>>, <<<<>>, <<s>>, <<s>>>>, FALSE)

(* Ranges; an exhausted RangeInclusive is not told apart on the wire. *)
Range2(s)         == Struct("Rust", <<s, s>>)
RangeInclusive(s) == Struct("Rust", <<s, s, Skip(Bool, FALSE)>>)

(* Time *)
Duration      == As("duration", Tuple(<<Integer(U64, FALSE), Integer(U64 - 1, FALSE)>>), None)
SystemTime    == As("systemtime", Duration, None)

(* Addresses; flowinfo and scope_id are not on the wire. *)
Ipv4Addr      == As("same", Array(4, Byte(FALSE)), None)
Ipv6Addr      == As("same", Array(16, Byte(FALSE)), None)
IpAddr        == Tagged(ConfigTag, <<0, 1>>, <<<<Ipv4Addr>>, <<Ipv6Addr>>>>, FALSE)
SocketAddrV4  == Struct("Rust", <<Ipv4Addr, Integer(1, FALSE)>>)
SocketAddrV6  == LET unsent == Skip(Integer(U64 - 1, FALSE), 0)
                 IN Struct("Rust", <<Ipv6Addr, Integer(1, FALSE), unsent, unsent>>)
SocketAddr    == Tagged(ConfigTag, <<0, 1>>, <<<<SocketAddrV4>>, <<SocketAddrV6>>>>, FALSE)

(* Adapters; the conversions of FromInto are taken to be each other's inverse. *)
FromInto(wire)    == As("same", wire, None)
DiscardSeq(elem, len) == Discard(Seqn(len, elem, TRUE, FALSE, FALSE), <<>>)

(* Types of other crates; a BumpBox etc. only allocates elsewhere. *)
Bytes             == BoxSlice(Byte(FALSE))
BytesMut          == Bytes
EcoString         == String
SmallVec(s)       == Vec(s)
BumpVec(s)        == Vec(s)
BumpString        == String
BumpBox(s)        == Box(s)
IndexMap(k, v)    == As("indexmap", LinkedList(Tuple(<<k, v>>)), None)
IndexSet(s)       == As("indexset", LinkedList(s), None)
Uuid              == Pod(Array(UuidBytes, Byte(FALSE)))
UuidSerdeCompat   == As("uuid", Seqn(ConfigLen, Byte(FALSE), FALSE, TRUE, FALSE), None)
Bits(name) ==
  As(name, Tuple(<<Tagged(Byte(FALSE), <<0, 1>>, <<<<>>, <<BoxSlice(Byte(FALSE))>>>>, FALSE),
                   Integer(U64, FALSE)>>), None)
BitVec            == Bits("bitvec")
BitVecStrict      == Bits("strictbitvec")

(* derive(SchemaWrite, SchemaRead) *)
DeriveStruct(repr, fields) == Struct(repr, fields)
Implicit == -1
Discriminants(tags) == [i \in DOMAIN tags |-> IF tags[i] = Implicit THEN i - 1 ELSE tags[i]]
(* A derive with a duplicate tag does not compile. *)
ValidateVariantTags(tags) == IsInjective(Discriminants(tags))
DeriveEnum(tag, tags, variants) == Tagged(tag, Discriminants(tags), variants, TRUE)
=============================================================================

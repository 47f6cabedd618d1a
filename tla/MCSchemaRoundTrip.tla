-------------------------- MODULE MCSchemaRoundTrip --------------------------
EXTENDS SchemaRoundTrip, StdTypes

MCWidths == <<1, 2, 3>>
MCTargets == {[native |-> "little", usize |-> 3], [native |-> "big", usize |-> 2]}
MCLenEncodings == {FixIntLen(1, UseConfig), UseIntLen(Byte(FALSE), 3)}
MCTagEncodings == {Byte(FALSE)}
MCLimits == {2}
MCTrailing == <<1, 0>>
MCDamage == {2, 251, 255}
MCAddresses == {0, 1}

U8 == Byte(FALSE)
I8 == Byte(TRUE)
U16 == Integer(1, FALSE)
I16 == Integer(1, TRUE)
U32I == Integer(2, FALSE)
I32 == Integer(2, TRUE)
U64I == Integer(3, FALSE)
I64 == Integer(3, TRUE)
MCIntegers == {"u16", "i16", "u32", "i32", "u64", "i64"}

(* Around every boundary of the encodings of a width *)
Near(t) ==
  {v \in UNION {s * Modulus(w) - 1 .. s * Modulus(w) : w \in 1 .. t.width, s \in {-1, 1}}
         \cup UNION {s * (Modulus(w) \div 2) - 1 .. s * (Modulus(w) \div 2) :
                       w \in 1 .. t.width, s \in {-1, 1}}
         \cup UNION {s * n - 1 .. s * n + 1 :
                       n \in {0, SingleByteMax \div 2, SingleByteMax}, s \in {-1, 1}} :
     v >= Lowest(t) /\ v <= Highest(t)}

Padded == DeriveStruct("C", <<U8, U32I>>)
Packed == DeriveStruct("C", <<U32I, U16, U8>>)
Wrapper == DeriveStruct("transparent", <<Array(2, U8)>>)
Loose == DeriveStruct("Rust", <<U32I, U8>>)
Skipping == DeriveStruct("C", <<U32I, Skip(U32I, 0)>>)
Marker == DeriveStruct("C", <<U32I, Skip(Unit, <<>>)>>)
Defaults == <<Implicit, Implicit, Implicit>>
Mixed == <<7, Implicit, 300>>
ASSUME TagAssumption == ValidateVariantTags(Defaults) /\ ValidateVariantTags(Mixed)
UnitEnum == DeriveEnum(ConfigTag, Defaults, <<<<>>, <<>>, <<>>>>)
EqualEnum == DeriveEnum(ConfigTag, Mixed, <<<<U32I>>, <<U32I>>, <<U16, U8>>>>)
UnequalEnum == DeriveEnum(U8, <<Implicit, Implicit>>, <<<<Bool>>, <<Vec(U32I)>>>>)
OneVariant == DeriveEnum(ConfigTag, <<Implicit>>, <<<<U32I>>>>)

MCSchemas ==
  [u16 |-> U16, i16 |-> I16, u32 |-> U32I, i32 |-> I32, u64 |-> U64I, i64 |-> I64,
   u8 |-> U8, i8 |-> I8, usize |-> Word(FALSE), isize |-> Word(TRUE), f32 |-> Float(2),
   bool |-> Bool, char |-> Char, unit |-> Unit, nonzero |-> NonZero(U32I),
   box |-> Box(U32I), cells |-> Array(2, Cell(U32I)), refcell |-> RefCell(U32I),
   tuple1 |-> Tuple1(U32I), tuple |-> Tuple(<<U8, U32I>>),
   array |-> Array(2, U32I), floats |-> Array(2, Float(2)), bools |-> Array(2, Bool),
   chars |-> Array(2, Char), nonzeros |-> Array(2, NonZero(U16)), words |-> Array(2, Word(FALSE)),
   pod |-> Pod(U32I), pods |-> Vec(Pod(U32I)),
   vec |-> Vec(U32I), vecbool |-> Vec(Bool), vecunit |-> VecWith(Unit, FixIntLen(1, UseConfig)),
   vecpadded |-> Vec(Padded), vecpacked |-> Vec(Packed), vecloose |-> Vec(Loose),
   vecskipping |-> Vec(Skipping), vectuple |-> Vec(Tuple(<<U8, U8>>)),
   deque |-> VecDeque(U16), list |-> LinkedList(U32I), set |-> Set(U16),
   map |-> Map(U16, U8), heap |-> BinaryHeap(U16), deep |-> Vec(Vec(U8)),
   string |-> String, str |-> Str, cowstr |-> CowStr,
   option |-> Option(U32I), result |-> Result(U16, U8), resultu |-> Result(U32I, U8),
   bound |-> Bound(U16), range |-> Range2(U32I), rangei |-> RangeInclusive(U16),
   duration |-> Duration, systemtime |-> SystemTime,
   ipaddr |-> IpAddr, socketv6 |-> SocketAddrV6, socket |-> SocketAddr,
   padded |-> Padded, packed |-> Packed, loose |-> Loose, wrapper |-> Wrapper,
   skipping |-> Skipping, skippings |-> Array(2, Skipping), marker |-> Marker, markers |-> Vec(Marker),
   unitenum |-> UnitEnum, equalenum |-> EqualEnum, unequalenum |-> UnequalEnum,
   onevariant |-> OneVariant,
   refu32 |-> Ref(U32I), sliceu32 |-> Slice(U32I), cowslice |-> CowSlice(U32I),
   refin |-> DeriveStruct("Rust", <<U8, Ref(U32I)>>), refpacked |-> Ref(Packed),
   refskip |-> Ref(Skipping), sliceskip |-> Slice(Skipping),
   ownedin |-> DeriveStruct("Rust", <<U8, U32I>>),
   lifecycle |-> DeriveStruct("C", <<PhantomData, U8, FromInto(U16), Discard(U16, 0)>>),
   mutex |-> Mutex(U16), rwlock |-> RwLock(String),
   boxslice |-> BoxSliceWith(U16, UseIntLen(U16, NoLimit)), cowcells |-> Vec(Cell(U16)),
   intoiter |-> FromIntoIterator(U8, ConfigLen), discardseq |-> DiscardSeq(U16, ConfigLen),
   bytes |-> BytesMut, eco |-> EcoString, small |-> SmallVec(U16),
   bumpvec |-> BumpVec(BumpBox(U8)), bumpstring |-> BumpString,
   indexmap |-> IndexMap(U16, U8), indexset |-> IndexSet(U8),
   uuids |-> Array(2, Uuid), uuidcompat |-> UuidSerdeCompat,
   bits |-> BitVec, strictbits |-> BitVecStrict]

MCOwned ==
  [refu32 |-> "u32", sliceu32 |-> "vec", cowslice |-> "vec", str |-> "string",
   cowstr |-> "string", refin |-> "ownedin", refpacked |-> "packed",
   refskip |-> "skipping", sliceskip |-> "vecskipping"]

(* flat strings of char boundary bytes *)
Lead == {0, 127, 128, 193, 194, 223, 224, 225, 237, 239, 240, 241, 244, 245, 255}
Second == {0, 127, 128, 143, 144, 159, 160, 191, 192}
(* Stored blocks, too few or too many for the bits, set past the end *)
Blocks ==
  {<<1, 1, 0, 0, b, n, 0, 0>> : b \in {0, 5, 255}, n \in {0, 3, 8, 9}}
    \cup {<<1, 2, 0, 0, 7, b, n, 0, 0>> : b \in {0, 1, 3}, n \in {8, 9, 17}}
    \cup {<<1, 0, 0, 0, 0, 0, 0>>, <<0, 0, 0, 0>>, <<0, 1, 0, 0>>, <<2, 0, 0, 0>>}
(* One key twice, and another in between *)
TwoPairs == <<3, 0, 0, 1, 7, 2, 8, 1, 9>>
Ip4 == <<127, 0, 0, 1>>
Ip6 == <<254, 128, 0, 0, 0, 0, 0, 0, 0, 0, 0, 0, 0, 0, 0, 1>>
MCForeign ==
  [char |-> {<<a>> : a \in Lead} \cup {<<a, b, 191, 128>> : a \in Lead, b \in Second}
            \cup {<<a, 144, c, d>> : a \in Lead, c \in {127, 128, 192}, d \in {191, 192}},
   string |-> {<<4, 0, 0, a, b, 191, 128>> : a \in Lead, b \in {127, 144}},
   bits |-> Blocks, strictbits |-> Blocks, uuidcompat |-> {<<n, 0, 0>> \o Ip6 : n \in {15, 16, 17}},
   map |-> {TwoPairs}, indexmap |-> {TwoPairs}, indexset |-> {<<3, 0, 0, 9, 8, 9>>}]

Held(vs) == {[held |-> h, value |-> v] : h \in BOOLEAN, v \in vs}
Two(vs) == {<<v, w>> : v \in vs, w \in vs}
Some32 == {0, 258, 65535}
UpTo2(vs) == {<<>>} \cup {<<v>> : v \in vs} \cup Two(vs)
Strings == {<<>>, <<65>>, <<195, 169>>, <<240, 159, 152, 128>>}
Nanos == {0, NanosPerSec - 1}
MCValues ==
  [n \in MCIntegers |-> Near(MCSchemas[n].type)] @@
  [u8 |-> {0, 255}, i8 |-> {-128, -1, 127}, usize |-> {0, 258, 65535}, isize |-> {-32768, -1, 32767},
   f32 |-> {0, 258, 65535}, bool |-> {0, 1},
   char |-> {0, 127, 128, 2047, 2048, 55295, 57344, 65535, 65536, 1114111},
   unit |-> {<<>>}, nonzero |-> {1, 256}, box |-> {258}, cells |-> {<<1, 258>>},
   refcell |-> Held({258}), tuple1 |-> {<<258>>}, tuple |-> {<<1, 258>>},
   array |-> Two({0, 258}), floats |-> {<<1, 258>>}, bools |-> Two({0, 1}),
   chars |-> {<<65, 8364>>}, nonzeros |-> {<<1, 2>>}, words |-> {<<1, 258>>},
   pod |-> {258}, pods |-> {<<1, 258>>},
   vec |-> UpTo2({0, 258}) \cup {<<1, 2, 3, 4>>}, vecbool |-> {<<0, 1>>, <<1, 1, 1>>},
   vecunit |-> {<<>>, <<<<>>, <<>>>>}, vecpadded |-> {<<<<1, 258>>, <<2, 3>>>>},
   vecpacked |-> {<<<<258, 1, 2>>, <<3, 4, 5>>>>}, vecloose |-> {<<<<258, 1>>>>},
   vecskipping |-> {<<<<258, 0>>>>}, vectuple |-> {<<<<1, 2>>, <<3, 4>>>>},
   deque |-> {<<1, 2>>}, list |-> UpTo2({258}), set |-> {{}, {1, 2}},
   map |-> {<<>>, (1 :> 7 @@ 2 :> 8)}, heap |-> {<<>>, <<9, 3>>}, deep |-> {<<<<1>>, <<>>>>, <<<<1, 2>>, <<3>>, <<>>>>},
   string |-> Strings, str |-> Strings, cowstr |-> Strings,
   option |-> {<<1, <<>>>>, <<2, <<258>>>>}, result |-> {<<1, <<5>>>>, <<2, <<6>>>>},
   resultu |-> {<<1, <<258>>>>, <<2, <<6>>>>}, bound |-> {<<1, <<>>>>, <<2, <<5>>>>, <<3, <<5>>>>},
   range |-> {<<258, 0>>}, rangei |-> {<<1, 5, FALSE>>, <<1, 5, TRUE>>},
   duration |-> {<<s, n>> : s \in {0, 16777215}, n \in Nanos},
   systemtime |-> {<<s, n>> : s \in {-1, 0, 8388607}, n \in Nanos},
   ipaddr |-> {<<1, <<Ip4>>>>, <<2, <<Ip6>>>>}, socketv6 |-> {<<Ip6, 80, 0, 0>>, <<Ip6, 80, 3, 4>>},
   socket |-> {<<1, <<<<Ip4, 80>>>>>>, <<2, <<<<Ip6, 80, 0, 0>>>>>>},
   padded |-> {<<1, 258>>}, packed |-> {<<258, 1, 2>>}, loose |-> {<<258, 1>>},
   skipping |-> {<<258, 0>>, <<258, 9>>}, skippings |-> {<<<<258, 0>>, <<3, 0>>>>},
   marker |-> {<<258, <<>>>>}, markers |-> {<<<<258, <<>>>>, <<3, <<>>>>>>}, unitenum |-> {<<1, <<>>>>, <<3, <<>>>>},
   equalenum |-> {<<1, <<258>>>>, <<2, <<1>>>>, <<3, <<1, 2>>>>}, unequalenum |-> {<<1, <<1>>>>, <<2, <<<<258>>>>>>},
   onevariant |-> {<<1, <<258>>>>}, wrapper |-> {<<<<1, 2>>>>},
   refu32 |-> Some32, sliceu32 |-> UpTo2({0, 258}), cowslice |-> UpTo2({258}) \cup {<<1, 2, 3>>},
   refin |-> {<<1, 258>>}, refpacked |-> {<<258, 1, 2>>},
   refskip |-> {<<258, 0>>}, sliceskip |-> {<<>>, <<<<258, 0>>>>},
   lifecycle |-> {<<<<>>, 1, 77, 9>>}, mutex |-> Held({77}), rwlock |-> Held({<<195, 169>>}),
   boxslice |-> {<<1, 77>>}, cowcells |-> {<<1, 77>>}, intoiter |-> {<<1, 2, 3>>},
   discardseq |-> {<<>>, <<1, 2>>}, bytes |-> {<<1, 2, 3>>}, eco |-> Strings, small |-> {<<1, 77>>},
   bumpvec |-> {<<1, 2>>}, bumpstring |-> Strings, indexmap |-> {<<<<2, 7>>, <<1, 8>>>>},
   indexset |-> {<<2, 1>>}, uuids |-> Two({Ip6}), uuidcompat |-> {Ip6},
   bits |-> {[blocks |-> <<>>, bits |-> 0], [blocks |-> <<7, 255>>, bits |-> 9]},
   strictbits |-> {[blocks |-> <<>>, bits |-> 0], [blocks |-> <<7, 1>>, bits |-> 9]}]
=============================================================================

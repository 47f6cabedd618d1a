# wincode: TLA+ models, checks and proofs

wincode is a serialization library.  Types implement `SchemaWrite` (`size_of`,
`write`) and `SchemaRead` (`read` into a `MaybeUninit` destination, `get`), by
hand, through the impls of the crate or by derive.  Bytes go through `Writer`
and `Reader`, which offer *trusted windows*: one bounds check, then unchecked
accesses.  Nearly everything that is hard about the crate is `unsafe` code whose
soundness depends on a sequence of steps: who owns half-built memory when a
read fails, whether an unchecked access stays in its window, which bytes
`set_len` exposes.  What those steps rely on in turn is that every
implementation agrees with itself: `size_of` and `TYPE_META` with what `write`
writes, `read` with `write`, and the `zero_copy` flag with both.  The models are
about these two things.

## Inventory

| Part | State | Operations | Interacts with | Correct when |
|---|---|---|---|---|
| In-place decoding (`schema/impls.rs`, `schema/containers.rs`, derive `schema_read.rs`, `codegen/tuple.rs`, `external/smallvec.rs`) | the destination, the guards on the stack, allocations | `read`, `get`, guard drops, `mem::forget` | calls itself for the fields and elements, a `Reader` for bytes, `Hash`/`Ord`/`FromIterator` of user types | every value has one owner at every step; failure and panic leave nothing behind; Ok means fully initialised |
| Derived `UninitBuilder` (derive `uninit_builder.rs`) | destination, `init_set` | `write_f`, `uninit_f_mut`, `assume_init_f`, `read_f`, `init_f_with`, `is_init`, `finish`, Drop | the caller, `read` of the fields | Drop drops exactly the marked, live fields |
| `Cursor` over `Vec<u8>` as a writer (`io/cursor.rs`) | capacity, length, contents, position | `write`, `as_trusted_for`, `set_position` | the owner of the vector between uses | never exposes unwritten memory; behaves as a sparse file |
| Readers (`io/slice.rs`, `io/cursor.rs`, `io/std_read.rs`) and `LimitReader` (`io/limit_reader.rs`) | position or remaining slice, remaining limit | `take_*`, `copy_into_slice`, `as_trusted_for(_seq)` | decoders on top; an operating-system stream below | windows are not left; bytes in order, never twice; consumption bounded by the limit |
| `serialize` (`config/serde.rs`), locks (`Mutex`, `RwLock` in `schema/impls.rs`) | buffer, spare capacity, lock guards | `size_of`, `with_capacity`, `write`, `set_len` | other threads that change the fields | no torn field; `set_len` exposes what was written; the call ends |
| Writers (`io/slice.rs`, `io/vec.rs`, `io/std_write.rs`), `finish` | position, buffers | `write`, `as_trusted_for`, `finish`, `flush` | encoders | windows are filled or their error reported; parents are not finished early |
| Sequence lengths, preallocation limit (`len.rs`) | none | `read_prealloc_check`, `write_prealloc_check`, `unique_key_capacity` | containers | what is written can be read; allocation is bounded |
| Integer encodings, tags (`schema/int_encoding.rs`, `schema/tag_encoding.rs`) | none | `encode_*`, `decode_*`, `size_of_*`, `try_from_u32` | everything | round trip, size agrees with write |
| Implementations for types (`schema/mod.rs`, `schema/impls.rs`, `schema/containers.rs`, derive `schema_write.rs`, `schema_read.rs`, `common.rs`, `external/*`) | none | `write`, `size_of`, `read`, `TYPE_META` | each other, integer encodings, lengths, tags | round trip under every configuration; `size_of` and `TYPE_META` exact; whatever the input, a decoded value is one of its type |
| Zero copy (`ZeroCopy<C>`, `TypeMeta::Static { zero_copy }`, `assert_zero_copy`) | none | memcpy of elements, `&T`, `&[T]`, `from_bytes` | the input's memory, the configuration | memory is what the encoding is; a reference is aligned and shows what a read gets |
| Configuration (`config/mod.rs`) | the type's parameters | `with_*`, `enable_*`, `disable_*` | all of the above | every combination is coherent |
| Adapters (`schema/adapter.rs`) | none | `FromInto`, `DefaultOnEmptyRead`, `Discard`, `DiscardSeq` | the adapted schema | as documented |
| Entry points (`config/serde.rs`, `serde.rs`) | none | `deserialize`, `deserialize_exact`, `..._into` | everything | size limit and trailing bytes are reported |
| Derive front end, errors | compile time, plain data | - | - | - |

What is hard here: failure in the middle of a nested read and panics of user
code (partial failure), long legal call sequences on a builder, a cursor or a
window (protocol sequences), arithmetic at the limits of `usize`, other
threads behind `Mutex` and `RwLock` (stale measurements, poisoning), and flags
computed at compile time (`TYPE_META`, the marker `ZeroCopy<C>`) from which
unchecked code at run time takes its sizes and layouts, for every type in every
configuration.  There is
no persistence and there are no messages, so nothing about crash recovery or
lost messages applies.

## Modules

| Module | Models | Uses |
|---|---|---|
| `AtomicDecode` | abstract: a decode is pending, then ok or failed; what is live afterwards is all or nothing | - |
| `InPlaceDecode` | `SchemaRead::read` of nested values, frame by frame | refines `AtomicDecode` |
| `UninitBuilder` | the derived builder and its Drop | - |
| `SparseFile` | abstract: a file with a position, holes read as zero | - |
| `VecCursor` | the `Vec<u8>` cursor writer with its windows | refines `SparseFile` |
| `BoundedSource` | abstract: a place that moves forward, a budget that pays for it | - |
| `LimitedReader` | `LimitReader` over four kinds of reader | refines `BoundedSource` |
| `SharedSerialize` | `serialize` of fields behind locks, with other threads | - |
| `SerialOutput` | abstract: an output that grows, byte by byte, towards a message | - |
| `EncodeWindows` | `SchemaWrite::write` of nested values into four kinds of writer, with trusted windows | refines `SerialOutput` |
| `IntEncoding` | the integer encodings as operators | - |
| `Utf8` | the hand-written decoder of `char`, and the standard library's UTF-8 | extends `IntEncoding` |
| `Codec` | the forms of `SchemaWrite`/`SchemaRead` implementations: `Meta` (TYPE_META), `Write`, `SizeOf`, `Read`, values in memory | extends `Utf8` |
| `Configuration` | a configuration and its builder methods | extends `Codec` |
| `StdTypes` | the implementations for std types, derived types and other crates' types, as schemas | extends `Codec` |
| `SchemaRoundTrip` | a value serialized under a configuration and deserialized from an intact, cut, damaged or foreign input | extends `Configuration` |
| `SequenceLength` | `SeqLen`: lengths written, read and checked | extends `IntEncoding` |
| `EntryPoints` | the deserialize calls under a size limit, with the adapters | - |
| `VecCursorProofs`, `LimitedReaderProofs`, `UninitBuilderProofs`, `SharedSerializeProofs`, `EncodeWindowsProofs`, `EntryPointsProofs` | theorems | each extends its module |
| `WireFormatProofs` | theorems about integers, chars and lengths | extends `SequenceLength` and `Utf8` |
| `InPlaceDecodeProofs` | lemmas on trees of places, and the theorems about `InPlaceDecode` | extends `InPlaceDecode` |
| `MC*` | instances for TLC | extend their module |

### InPlaceDecode

A value is a tree of places (`Node`, `Kids`, `Kind`); `Height`, how deep the value at a place is
nested, says that no value contains itself.  One state is one moment
of the call stack: `cur` is the innermost activation of `read`, the frames are
the ancestors of `cur`.  A frame's guard is `kept` (children its Drop would
drop: `SliceDropGuard`, the derive's `__WincodeDropGuard`, the tuple's
`DropGuard`, a half-built map or set) and its entry in `heap` (`held` while the
allocation has no value, `owned` when it belongs to one).  `slot` says what is
in the memory of a leaf.  `ReadLeaf`, `OpenFrame`, `ReadKid`, `KidReturned`,
`CloseFrame`, `Finish` are the straight path; `FailRead` is any error or panic of a
read, `InsertPanics` a panic of `Hash`, `Ord` or `FromIterator`, `KidFailed` the
unwinding that runs the guards; `DropDuplicate` is `map.insert` and
`set.insert` on an equal entry; `Retry` is the caller using the same
destination once more.  Dropping or freeing what is not there makes the place
`corrupt`.  Bytes are abstracted: each read may succeed or fail.

### UninitBuilder

`mem` holds the parts of each field, `marked` is `init_set`.  A read of a field
writes its parts in order and, when it fails, drops those it wrote.  `Reinit`
says whether the caller may initialise a field that is marked already; the
generated documentation allows it.  `raw` remembers fields written only through
`uninit_<field>_mut`, which the builder cannot know about.  `IsInit` compares the bits of the marked
fields with `FullMask`, which is computed as the macro computes it: the narrowest bit set that is
wide enough (`BitSetBits`), and a case of its own where the fields fill it and the shift would overflow.

### VecCursor

Memory is explicit: `mem` beyond `len` is whatever was there, `Garbage` if
nothing was; a reallocation keeps `len` cells.  `Write` is `vec::write`,
`OpenWindow`/`WindowWrite`/`CloseWindow` are `as_trusted_for`, the unchecked writer
and the end of its borrow, `Refuse` is the overflow error and the capacity
panic.  `Fits` leaves open how much `Vec::reserve` allocates.  `Init` allows
every length, capacity and position.

### LimitedReader

`kind` chooses the reader under the limit by what a failed call leaves behind
(nothing, an emptied slice, a stream that has moved) and by whether it has
windows of its own.  Bytes are their offsets; `got` is the last range delivered.
`Reserve` is `reserve_limit`, charged before the inner reader is asked and never given
back.  `WindowTake` is unchecked for readers over memory.

### SharedSerialize

Each serializer runs the two passes of `serialize` field by field; each pass
takes the field's lock and gives it back.  `used` is how far the spare capacity
has been moved over, `filled` what was written.  Mutators change a field under its
lock in two steps (`dirty` in between) and may panic, which poisons the lock.

### EncodeWindows

A value is a tree again; `Own[n]` is what a node writes itself (a leaf its value, a
sequence its length, an enum its tag), after which its children follow.  `SizeUpTo` adds sizes up as
`join_types` does and `EncodedUpTo` is the encoding, both as far as a node's first `k` children;
`Height` bounds that recursion, and `Static` are the nodes whose type has a static size.  `stack` is
the stack of `write` activations.  A node of static size (`Opens`) asks for a window of
`Needed` bytes; `win` is the open one, and a request inside it is answered by the
same writer (`TrustedDefault` and the unchecked slices).  `says` is what an
`ExactSizeIterator` reports, which need not be the number of items it has.  The four
sinks differ in where the parent stands once a window is open (`ParentAfter`), in what a
refused write leaves behind and in what `finish` can do; a stream has no window of its
own.  `out` holds which byte of which node was written where, so that a wrong place, a
hole and a repetition are all visible.

### IntEncoding, Utf8

`IntEncoding` follows `FixInt` and `VarInt` with a byte of `Base` values and any list of widths, so
that a scaled-down machine has the same boundaries (`SINGLE_BYTE_MAX`, the largest value of
each width, the ends of the signed ranges).  The code has two ladders of widths, one that encodes and one
that measures, and so has the module: `Chosen` and `Announced`.  `Utf8` has `DecodeChar`, the decoder in
`schema/impls.rs`, which checks lead bytes, continuation bytes and ranges by hand and calls
`unwrap_err` on the standard library's verdict in its error path: the result `Panicked` stands
for that call meeting valid UTF-8.  `ValidUtf8` is the library's own definition (the bytes are
encodings of scalar values), against which the decoder is compared.

### Codec, StdTypes, Configuration

A schema is a record whose `kind` names a form of implementation: an integer under the
configured encoding, a fixed one (floats), a pointer-sized one, an array, a struct (derived, or a
tuple), a length-prefixed sequence, a tagged union, a reference, a wrapper (`as`) that adds a
condition or a conversion (`bool`, `NonZero`, `Duration`, maps, `BitVec`...), and a few more.  `StdTypes`
writes each implementation down as one: `Vec(s)` is a sequence whose length is the
configured one, which is checked against the preallocation limit and whose elements may be
memcpyed; `Option(s)` is a union with a one-byte tag, never `Static`; `RangeInclusive(s)` is three
fields the last of which is skipped, as the exhausted flag is not on the wire (nor are the
`flowinfo` and `scope_id` of a `SocketAddrV6`).  A skipped field is in memory but not on the wire: `Skip(type, default)`.

`Meta` computes `TYPE_META` separately for the two traits, as the code does: `NonZero` and `bool` are
zero-copy to write and not to read, `Cell` the other way round.  `Write` and `Read` take the bulk
path wherever the element type claims `zero_copy`: there they copy `Image`, the value in memory
with its padding (`Uninit`), and so a wrong claim shows on the wire.  `Layout` is the layout of `repr(C)`;
for a `repr(Rust)` struct, whose layout is the compiler's, it stands for one the compiler might
choose, which nothing may depend on.  `Marked` is the trait bound `ZeroCopy<C>` that the compiler
checks where a reference is lent out of the input, derived by other code than the flag: it asks
every field for the marker, skipped ones included, where the flag adds up the sizes of the
others.  `Borrow` panics without the flag (`size_assert_zero_copy`); otherwise it is `take_borrowed` and `cast_ensure_aligned` on an input that starts at an address.

`Configuration` has one operator per builder method.  `enc`, `endian`, `align`, `len`, `tag` and `prealloc`
are the parameters of `Configuration`; `native` and `usize` belong to the target.

### SchemaRoundTrip

`Configure` makes up to `MaxCalls` builder calls that change something; then a value is serialized (`Serialize`) or foreign
bytes arrive (`Receive`), the input may be cut (`Truncate`) or have a byte changed
(`Corrupt`), and it is deserialized (`Deserialize`) from a slice at some address, or from a stream that lends
nothing.  An integer may be read by another integer type when integers are `VarInt`, whose tags tell
their widths apart.  The properties:

* `SizeIsExact`: `size_of`, and the size in `TYPE_META` where it is `Static`, are what `write`
  wrote; trusted windows and the buffer of `serialize` are opened with them.  No byte written is padding.
* `RoundTrip`: the same value comes back and exactly its bytes are consumed, under whatever
  configuration; so what the preallocation limit and the conversions of lengths and tags let
  through when writing, reading accepts.
* `CutIsAnError`, `NeverAnotherValue`: a cut input, or another integer type, gives an error and never
  a different value.
* `DecodedIsSane`: whatever the bytes, reading does not panic (but for the borrows named next), and a value it accepts can be written and
  read back as itself; `char` accepts what the standard library accepts and nothing else.
* `ZeroCopyAgrees`: a type that claims `zero_copy` has its encoding as its memory, in both
  directions, and no invalid bytes; what has the marker claims it, and passes
  `assert_zero_copy`, except exactly where a skipped field takes up memory; a borrow of such a type panics
  and shows nothing, wherever the bytes lie, and by `DecodedIsSane` no other one does, which is what the
  code does and not what its comment says (see below); any other reference shows what
  an owned read of the same bytes gets, is aligned while the check is on, and is not refused when it would be
  aligned.

### SequenceLength

`Configured` is the configuration's limit, where `usize::MAX` means none; `Effective` is the limit
that applies after `PREALLOCATION_SIZE_LIMIT_OVERRIDE`,
`Prealloc` the check with its `checked_mul`, `Fits` and `ToWord` the two conversions.
Writer and reader may have different `usize::MAX`; `Foreign` is a length field from another
program.  `checked` says which sides make the check: `String`, `Vec` and the maps do when
they are written, `str`, `[T]` and `encode_from_iter` do not; reads into owned containers do, reads
of borrowed strings need not.  `CapacityIsExact` says what `unique_key_capacity` reserves for a map or a set:
as much as its keys can differ, not less, and never more than the length that was read.

### EntryPoints

One state is one moment of one call; the calls run one after another on the same input and
their outcomes are compared when all are over.  The input is its length, bytes are their offsets
and a decoded field is the range it came from, which makes a shifted or a repeated read
visible.  `Visible` is `maybe_size_limit!` for slices, `Allowed` and `Charge` are
`LimitReader::reserve_limit` for the others.  A field makes its requests in order; a
failed one ends the call or, in `DefaultOnEmptyRead`, becomes a default, with the reader where the
failure has left it.  `PathsAgree` leaves structs with `DefaultOnEmptyRead` out: as its documentation
warns, a value that is cut inside such a field decodes to whatever the reader does after a
failed request, which differs between slices, mutable slices and streams.  What all calls keep even then is
`CutFieldIsDefault`: wherever the input or the limit ends within a field, the fields before it are
the encoded ones, a cut field that has a default is that default and never what was
half read, and any other cut field fails the call.

## Runs and bounds

Every property of a passing run also has a mutated definition (an operator
next to the original, commented `Mutant`), under which TLC finds the property
violated, so no property holds for lack of interesting states.

| Run | Checks | Instance, and why it is enough |
|---|---|---|
| `in_place_decode` | `NoInvalidDrop`, `OneOwner`, `NothingLeaks`, refinement of `AtomicDecode` (with its liveness) | Five types that between them contain every kind of node inside another one that can fail after it; every failure point, every duplicate, two attempts, which suffices for an attempt to meet what a failed one left |
| `uninit_builder` | `DropsInitialized`, `NothingLeaks`, `CompleteWhenFinished` | Four fields of one, two and three parts, so that a read can fail in the middle and other fields are marked before and after; they fill a bit set of four bits (`BitSets` are 2 and 4 for 8 to 128), where the mask is a case of its own; that fewer fields than bits are right too is proved |
| `uninit_builder_reinit` | violates `DropsInitialized` | The same with `Reinit` |
| `vec_cursor` | `InitializedBelowLen`, `WindowIsSafe`, `DisturbsOnlyItsRange`, refinement of `SparseFile` | Capacity up to 4, positions to 5, writes to 2: a gap, a write across the end, growth, a position past every capacity, and overflow all happen |
| `limited_reader` | `WindowInside`, `DeliversInOrder`, refinement of `BoundedSource` | Source 5, limit 7, word size 8: limit above the source, products above the word size, cursors that start past the end |
| `shared_serialize` | `NeverTorn`, `ExposesOnlyWritten`, `Terminates` | Two serializers, a mutex met twice and a read-write lock, two changes: growth, shrinkage and a panic between and during the passes |
| `shared_serialize_size` | violates `SizeIsExact` | One serializer |
| `encode_windows` | `StaysInside`, `NoHoles`, `FinishedLast`, refinement of `SerialOutput` | A record with a window in the middle, a sequence with static elements that open windows inside its own, a sequence of dynamic elements; rooms 0 to 8, reported lengths 0 to 3 for two items, so shorter, exact and longer; products stay below the word size |
| `encode_windows_wrap` | violates `StaysInside` | The same with a `usize::MAX` of 3 |
| `schema_round_trip` | `SizeIsExact`, `RoundTrip`, `NeverAnotherValue`, `CutIsAnError`, `DecodedIsSane`, `ZeroCopyAgrees` | Some ninety schemas, each implementation at least once and in the combinations its code tells apart (zero-copy or not, static or dynamic, padded or not); values around every boundary of the integer types; see below |
| `sequence_length` | `SameLength`, `ReadsBack`, `AllocationBounded`, `CapacityIsExact` | Two word sizes on either side, limits and element sizes around both of them (15 is a limit on one and `usize::MAX`, so none, on the other), lengths around every boundary, also where the product overflows |
| `entry_points` | `PathsAgree`, `LegacyDecodes`, `CutFieldIsDefault`, `ExactIsWhole` | Five structs of up to four fields with every adapter; inputs of 0 to 9 bytes (encodings have 6 to 7), limits of 0 to 12 |

The bounds of `schema_round_trip`: a byte has its 256 values, since tags, UTF-8 and
`SINGLE_BYTE_MAX` live there, but integers have 1, 2 and 3 bytes instead of 2, 4, 8 (TLC's integers have 32
bits): `U64` is the widest and `U32` the one below, and a target's `usize` may be narrower than the 64-bit
type that is on the wire.  A second has 1000 "nanoseconds", which a `u32` and even a `u16` can exceed,
so that both the carry and its overflow happen.  The default preallocation limit is 40 bytes, so no value
meets it by accident, and a configured one of 2, or 3 from a length encoding, which most do.
`MaxCalls` is 2: builder calls each change one parameter, and the code reads at most two parameters
together (encoding and byte order; the length encoding's override and the limit).  Foreign, cut and damaged
inputs are read after at most one call (`MaxFaultyCalls`), and damage is to one of the first three
bytes (`MaxDamaged`), where lengths, tags and lead bytes are; the inputs for `char` are all combinations of the
first two bytes around each of the decoder's bounds, with later bytes that continue or do not.  Addresses 0 and 1 suffice: the alignments are 1, 2 and 3, and each
is met and missed behind the prefixes that occur.

`CHECK_DEADLOCK FALSE` stands where a call or a bounded history ends: a decode
or an encode that is over, a builder that is gone, a value that was read, a cursor at a bound, serializers that have
returned.  `limited_reader` checks deadlock.

Fairness: `InPlaceDecode` assumes that a running `read` goes on (`WF` of `Read`; it
is one thread's code and each step is finite), not that the caller retries.
`SharedSerialize` assumes that each thread's call goes on whenever it can and that a
mutator which holds a lock ends its update or panics; that a lock is eventually free
for a waiting thread follows from the bound on changes.  The other modules state
safety only.

### Disagreements found

* `size_of` and `write` of `Mutex<T>` and `RwLock<T>` lock separately, so `size_of` need
  not be "the exact number of bytes written by the `write` function" (`SizeIsExact`).
  `ExposesOnlyWritten` shows that memory stays sound.
* `read_<field>` on a marked composite field that fails half-way leaves the bit set
  over memory the read has dropped; the builder's Drop drops it again
  (`DropsInitialized` under `Reinit`).  Without re-initialisation the property holds.
* The window of a sequence of static elements is `size * len` computed without an overflow
  check, from the length the iterator reports.  Where no preallocation check precedes it, the
  product can wrap in a release build, and the comment at the window ("`needed` covers the
  encoded length plus exactly `len` items") fails (`StaysInside` with a small word).
* A `repr(C)` struct with a skipped field of a zero-copy type has the marker `ZeroCopy<C>`, derived
  from all fields (`schema_read.rs:569`), but not the flag, whose size leaves skipped fields out
  (`common.rs:333`).  So a reference to one compiles, and reading it panics in the branch
  commented "Should be impossible to reach" (`impls.rs:1551`), or in `size_assert_zero_copy`.  `assert_zero_copy`, where the
  user asks for it, refuses the type at compile time, and no wrong bytes are shown.  This one has no violating run:
  `ZeroCopyAgrees` and `DecodedIsSane` say exactly where it happens.

## Proofs

The theorems hold for every value of the constants that satisfies the modules' assumptions.  Some
assumptions exist for them: `Height` in `InPlaceDecode` and `EncodeWindows` (values are finite
trees, as a Rust value is), and `TreeAssumption` of `EncodeWindows` (what is `Static` has only
`Static` parts, and a sequence whose elements have one static size has it for each element: what
`TYPE_META` promises).  TLC evaluates each of them in a run.  In two
modules the theorems have a hypothesis besides:

| Hypothesis | Of the theorems in | What it says | Without it |
|---|---|---|---|
| `~Reinit` | `UninitBuilderProofs` | the caller does not initialise a field that is marked | the run `uninit_builder_reinit` violates `DropsInitialized` |
| `NeverWraps` | `EncodeWindowsProofs` | the encoded length plus `size * len` of a window fits `usize`, for every length an iterator may report (in the run `encode_windows`, at most 1 + 2 * 3 <= 15) | the run `encode_windows_wrap` violates `StaysInside` |

* `VecCursorProofs`.  The inductive invariant is `TypeOK`, `InitializedBelowLen` and
  `WindowIsSafe` together: that `AddLen` may expose the gap below the cursor follows only
  from the window's promise that the gap was zeroed and that the capacity covers
  what is left of the window.  From it: the type invariant, the two safety invariants,
  the action property `DisturbsOnlyItsRange`, and the refinement of `SparseFile`.
* `LimitedReaderProofs`.  The inductive invariant adds to `WindowInside` where a window
  lies relative to the parent (`WindowInv`) and that what was last delivered lies behind
  both (`GotInv`); `DeliversInOrder` and the refinement of `BoundedSource` follow.
* `UninitBuilderProofs`.  `DropsInitialized` speaks of the moment Drop reaches a field; it is
  inductive only with what each call leaves behind: a field that is being read is not marked and
  its first `done` parts are live (`ReadInv`), marked fields that Drop has not reached are live
  (`MarkedAreLive`), and everything live is marked, being read, or written without being announced
  (`LiveAreKnown`), from which `NothingLeaks` follows.  `CompleteWhenFinished` rests besides on the mask
  having a bit for every field and no other (`WideEnough`, `MaskIsAll`), for every number of fields and all widths.
* `SharedSerializeProofs`, for any number of threads, locks and fields.  A serializer holds
  exactly the guard of the field it is at (`GuardsMatch`), what is behind a guard is clean
  (`ReadersSeeClean`), and the bytes written fall behind the bytes moved over by exactly what is
  still to come of the field at hand, at the length it had when its prefix was written (`Accounts`).
  So `NeverTorn` and `ExposesOnlyWritten` hold whatever the fields become between the passes.  `TypeOK`, part of the
  invariant, is proved here and has no run.
* `InPlaceDecodeProofs`.  The invariant relates three things: the path of activations from the root
  to `cur` with the child each of them is in the midst of (`Shape`), what is live, which is exactly
  the content of the values that are complete (`Accounted`), and the guards, which may overlook a child only
  if nothing in it has to be dropped (`Covering`); an allocation without a value belongs to an open
  frame (`HeldByFrames`) and refused map entries lie in complete values (`DisplacedWithin`).  The
  facts on trees (a place's parts are inside it, siblings share nothing, how the
  path changes) are proved for every tree by taking a counterexample of least height; so is that the
  recursive function `Under` is well defined.  From the invariant: `NoInvalidDrop`, `OneOwner`, `NothingLeaks`,
  and that every step is one of `AtomicDecode` or a stutter (`ReadIsAtomic`).
* `WireFormatProofs`, the integers (`IntEncoding`), for every base, list of widths and
  `SINGLE_BYTE_MAX`.  What `FromBytes` adds up of the digits `ToBytes` makes of `n` is `n` again,
  in either byte order (`BytesInvert`: the digits from the left up to place `k` are `n` divided by
  the power of the places that are left); zigzag with its casts and complement has `UnZigZag` as its inverse;
  the width that is chosen holds the number, and its tag is one that the decoder of the same type
  knows (`VarIntBytes`).  So `IntegerRoundTrip`: whatever bytes begin with the encoding of an integer are
  decoded to that integer, and exactly the announced size is consumed; and `CutIntegerFails`: a proper
  prefix of an encoding is an error.  They are what `RoundTrip`, `SizeIsExact` and `CutIsAnError` say of
  integers, without the bounds of the run.
* `WireFormatProofs`, the chars (`Utf8`).  A sequence of bytes is the UTF-8 of a scalar value exactly if it has the
  form the decoder tests for: a lead byte of that length, continuation bytes, and none of the four
  exceptions of `OutOfRange` (`EncodedForm`, `FormIsEncoded`: the digits in base 64, both ways).  So the decoder takes the
  char the standard library would take off the front and fails in all other cases
  (`CharsAreStandard`); when it asks the library for an error, there is one (`NoCharNotValid`), so `unwrap_err`
  does not panic.  `CharsReadBack` and `CutCharFails` follow.  The run tries only bytes around the bounds.
* `WireFormatProofs`, the lengths.  `AllocationBounded` and `CapacityIsExact` need only that an accepted
  length has passed the reader's check (`BoundInv`), with what truncating division means for
  `checked_mul`; `SameLength` and `ReadsBack` need also what the bytes on the wire stand for and
  which checks were made (`WireInv`), and that integers read back.
* `EntryPointsProofs`, for every set of schemas, input and limit.  A call that reads a full encoding is on the
  course of its layout (`OnCourse`): its field begins where the sizes of the fields before it end, it has consumed
  the requests made so far, a counted limit has paid for exactly those, and every field decoded
  lies where the encoding has it.  Without `DefaultOnEmptyRead` (`Strict`) a call leaves that course only by
  failing, which it does exactly if the encoding ends behind the input or the limit, so that
  every result follows from the schema, the input and the limit, whichever call it is of: `PathsAgree`.  If the input ends where an older
  schema ended (`Lenient`), the course holds up to there, each later field fails at its first
  request with nothing left for the reader to lose, and defaults follow: `LegacyDecodes`.
  If it is cut anywhere (`Cuts`), the course holds up to the field that is cut, all requests of the fields
  before it are granted, and the cut field cannot get through its own, whatever the reader did after the
  first that failed; so it ends as its default or the call fails: `CutFieldIsDefault`.
  `ExactIsWhole` follows from both parts and from the rest `deserialize_exact` has seen.
* `EncodeWindowsProofs`.  `StaysInside` is a claim about counters, but why it holds is a fact about
  the encoding.  The invariant says where each activation of `write` began: frame `i` at
  `start[i]`, where its node's encoding stands inside the whole encoding; the cursor is behind
  what the last frame has written; a window ends where its owner's encoding must end
  (`Laid`); and the output is the encoding up to the cursor and nothing else (`Holds`).  The
  lemmas below it are about every tree: `SizeUpTo` and `EncodedUpTo` are well defined
  (`Solution`), a child's encoding stands inside its parent's (`KidWithin`), a static value is as long as
  `join_types` says (`StaticLength`), elements of one size add up (`ElementsLength`), and a window
  covers what its owner writes, exactly if the iterator told the truth (`NeededCovers`).  From the
  invariant: `StaysInside`, `NoHoles`, `FinishedLast`, and the refinement of `SerialOutput`.

Induction over a tree or a length is made by least counterexample, from the well-foundedness of `<` on
the naturals (`LeastNumber`), or with a set in the place of the predicate (`FromZero`): the
library's induction theorems take an operator as a parameter.  That a recursive function (`Power`, `FromBytes`,
`ValidUtf8`, `Sums`, `SizeUpTo`, `Under`) satisfies its equation is proved in the same way, from its partial solutions.

Only model-checked:

* Liveness: `Terminates` and the liveness part of `AtomicDecode`.  It needs fairness and `ENABLED`.
* `SchemaRoundTrip`, all its properties: `Codec` follows the nesting of types with `RECURSIVE`
  operators, which the prover does not take.  For integers and chars, what they say is proved above.

## Not modelled

* How the derive macros parse attributes, generics and lifetimes and produce tokens, context types
  (`SchemaReadContext` beyond the length of a sequence), error types and messages, tests, fuzz targets and benches.
* The overflow check of `len * size` in `read_slice_len_checked`: the product is compared
  with the bytes that are left, which refuses the same inputs.
* `RefCell`, `Mutex` and `SystemTime` have a `Static` `TYPE_META` although `size_of` and `write` can fail; the
  properties speak of values that were written.
* `Cow` writes without a limit check what a stream-fed read of it, as an owned value, checks: such a
  read may fail, and `RoundTrip` allows it for the borrowing types.
* `BitVec` with blocks other than `u8`; allocation in a bump arena; the conversions of `FromInto`, which belong to the user.
* `Vec::with_capacity` is taken to allocate what was asked for, as the code's
  `set_len(capacity - len)` does.

## Plan

The order so far was: what `unsafe` code relies on first (in-place decoding, the builder, the
cursor, the windows of readers and writers), then threads, then the values on the wire and the
calls on top, then the implementations of the types themselves with the flags that unchecked code
trusts.  Left, in this order:

1. Proofs: the types above the integers.  It takes `Codec` with recursive functions over types of
   bounded height in place of its `RECURSIVE` operators; then `RoundTrip` and `SizeIsExact` of tuples, options and
   sequences rest on `IntegerRoundTrip`, `CharsReadBack` and `LengthSurvives`, as a fact about concatenated encodings.
2. Composition: `SharedSerialize` over the writers of `EncodeWindows`, so that a field which
   grows between the passes meets a trusted window and not only checked writes.
3. Models: element-wise decoding inside a trusted window of a reader whose elements under-read
   (`as_trusted_for_seq` below `InPlaceDecode`), and types with a context.

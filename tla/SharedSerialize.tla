--------------------------- MODULE SharedSerialize ---------------------------
(***************************************************************************)
(* Serialize::serialize of a value whose fields are shared behind locks,   *)
(* while other threads change them.  serialize measures the value, field   *)
(* by field, allocates what it measured, and then writes the fields; for   *)
(* Mutex<T> and RwLock<T> each of the two passes takes the lock of a field *)
(* and gives it back, so the value may change in between.  A field is a    *)
(* Vec<u8> of count[l] bytes behind lock l; it is written as a length of   *)
(* one byte and the bytes, through one trusted window.                     *)
(***************************************************************************)
EXTENDS Integers, Sequences

CONSTANTS
  Lock,         (* the shared fields' locks                                *)
  Shared,       (* the locks that are RwLocks; the others are Mutexes      *)
  Fields,       (* Seq(Lock): the fields of the value, in order            *)
  Serializer,   (* threads that serialize the value                        *)
  Mutator,      (* threads that change fields                              *)
  MaxCount,     (* bound: the longest field                                *)
  MaxChanges    (* bound: how often a mutator takes a lock                 *)

ASSUME SharedAssumption ==
  /\ Shared \subseteq Lock
  /\ Fields \in Seq(Lock)
  /\ Serializer \cap Mutator = {}
  /\ MaxCount \in Nat /\ MaxChanges \in Nat

VARIABLES
  readers,      (* [Lock -> SUBSET Serializer]: guards held by serializers *)
  writer,       (* [Lock -> SUBSET Mutator]: the guard held by a mutator   *)
  poisoned,     (* [Lock -> BOOLEAN]                                       *)
  count,        (* [Lock -> Nat]: the length of the field                  *)
  dirty,        (* [Lock -> BOOLEAN]: an update of the field is half done  *)
  changes,      (* [Mutator -> Nat]: changes already begun                 *)
  pc,           (* [Serializer -> where its call is]                       *)
  field,        (* [Serializer -> index of the field at hand]              *)
  size,         (* [Serializer -> Nat]: what size_of has added up          *)
  used,         (* [Serializer -> Nat]: bytes the writer has moved over    *)
  filled,       (* [Serializer -> Nat]: bytes written                      *)
  prefix,       (* [Serializer -> Nat]: the length just written            *)
  sane          (* history: each field came out as one consistent value    *)

locks == <<readers, writer, poisoned>>
values == <<count, dirty, changes>>
calls == <<pc, field, size, used, filled, prefix, sane>>
vars == <<locks, values, calls>>

Stages == {"size", "sizing", "write", "prefix", "bytes", "ok", "error"}

TypeOK ==
  /\ readers \in [Lock -> SUBSET Serializer]
  /\ writer \in [Lock -> SUBSET Mutator]
  /\ poisoned \in [Lock -> BOOLEAN]
  /\ count \in [Lock -> 0 .. MaxCount]
  /\ dirty \in [Lock -> BOOLEAN]
  /\ changes \in [Mutator -> 0 .. MaxChanges]
  /\ pc \in [Serializer -> Stages]
  /\ field \in [Serializer -> 1 .. Len(Fields) + 1]
  /\ \A v \in {size, used, filled, prefix} : v \in [Serializer -> Nat]
  /\ sane \in [Serializer -> BOOLEAN]

Init ==
  /\ readers = [l \in Lock |-> {}]
  /\ writer = [l \in Lock |-> {}]
  /\ poisoned = [l \in Lock |-> FALSE]
  /\ count \in [Lock -> 0 .. MaxCount]
  /\ dirty = [l \in Lock |-> FALSE]
  /\ changes = [m \in Mutator |-> 0]
  /\ pc = [s \in Serializer |-> "size"]
  /\ field = [s \in Serializer |-> 1]
  /\ size = [s \in Serializer |-> 0]
  /\ used = [s \in Serializer |-> 0]
  /\ filled = [s \in Serializer |-> 0]
  /\ prefix = [s \in Serializer |-> 0]
  /\ sane = [s \in Serializer |-> TRUE]

-----------------------------------------------------------------------------
(* A serializer's step from one stage to another. *)
Goto(s, from, to) == pc[s] = from /\ pc' = [pc EXCEPT ![s] = to]

At(s) == Fields[field[s]]

(* std: lock() and read() wait for the lock; a poisoned lock is handed out *)
(* wrapped in an error, and map_err lets it go again.                      *)
Free(l) == writer[l] = {} /\ (l \in Shared \/ readers[l] = {})

(* Mutant: a poisoned lock is used all the same. *)
AcquireAnyway(s, l) ==
  /\ Free(l)
  /\ readers' = [readers EXCEPT ![l] = @ \cup {s}]

Acquire(s, l) ==
  /\ Free(l) /\ ~poisoned[l]
  /\ readers' = [readers EXCEPT ![l] = @ \cup {s}]

(* Mutant: the guard is leaked. *)
ReleaseForgotten(s, l) == UNCHANGED readers

(* The guard goes out of scope, on success and on error. *)
Release(s, l) == readers' = [readers EXCEPT ![l] = @ \ {s}]

(* "Mutex poisoned", "RwLock poisoned": the whole serialize call fails. *)
Poisoned(s) ==
  /\ pc[s] \in {"size", "write"} /\ field[s] <= Len(Fields)
  /\ Free(At(s)) /\ poisoned[At(s)]
  /\ pc' = [pc EXCEPT ![s] = "error"]
  /\ UNCHANGED <<locks, values, field, size, used, filled, prefix, sane>>

(* size_of of the next field takes its lock ... *)
LockSize(s) ==
  /\ field[s] <= Len(Fields)
  /\ Goto(s, "size", "sizing")
  /\ Acquire(s, At(s))
  /\ UNCHANGED <<writer, poisoned, values, field, size, used, filled, prefix, sane>>

(* ... measures and lets go. *)
SizeField(s) ==
  /\ Goto(s, "sizing", "size")
  /\ size' = [size EXCEPT ![s] = @ + 1 + count[At(s)]]
  /\ Release(s, At(s))
  /\ field' = [field EXCEPT ![s] = @ + 1]
  /\ UNCHANGED <<writer, poisoned, values, used, filled, prefix, sane>>

(* Vec::with_capacity(size), and the spare capacity as the writer. *)
Allocate(s) ==
  /\ field[s] = Len(Fields) + 1
  /\ Goto(s, "size", "write")
  /\ field' = [field EXCEPT ![s] = 1]
  /\ UNCHANGED <<locks, values, size, used, filled, prefix, sane>>

(* Mutant: the window is handed out unchecked. *)
RoomUnchecked(s, n) == TRUE

(* split_at_mut_checked of the spare capacity that is left. *)
Room(s, n) == used[s] + n <= size[s]

(* write of the next field: the lock, then the window for the length and   *)
(* the bytes the field has now.                                            *)
LockWrite(s) ==
  LET n == 1 + count[At(s)]
  IN  /\ field[s] <= Len(Fields)
      /\ Room(s, n)
      /\ Goto(s, "write", "prefix")
      /\ Acquire(s, At(s))
      /\ used' = [used EXCEPT ![s] = @ + n]
      /\ UNCHANGED <<writer, poisoned, values, field, size, filled, prefix, sane>>

(* WriteSizeLimit: the field outgrew what was measured; the guard is       *)
(* dropped, the buffer is freed with its length still 0.                   *)
OutOfRoom(s) ==
  /\ field[s] <= Len(Fields)
  /\ ~Room(s, 1 + count[At(s)])
  /\ Free(At(s)) /\ ~poisoned[At(s)]
  /\ Goto(s, "write", "error")
  /\ UNCHANGED <<locks, values, field, size, used, filled, prefix, sane>>

(* Mutant: the lock is given back after the length, as it would be if the  *)
(* length were taken from a clone of the value.                            *)
WritePrefixUnlocked(s) ==
  /\ Goto(s, "prefix", "bytes")
  /\ prefix' = [prefix EXCEPT ![s] = count[At(s)]]
  /\ filled' = [filled EXCEPT ![s] = @ + 1]
  /\ sane' = [sane EXCEPT ![s] = @ /\ ~dirty[At(s)]]
  /\ Release(s, At(s))
  /\ UNCHANGED <<writer, poisoned, values, field, size, used>>

WritePrefix(s) ==
  /\ Goto(s, "prefix", "bytes")
  /\ prefix' = [prefix EXCEPT ![s] = count[At(s)]]
  /\ filled' = [filled EXCEPT ![s] = @ + 1]
  /\ sane' = [sane EXCEPT ![s] = @ /\ ~dirty[At(s)]]
  /\ UNCHANGED <<locks, values, field, size, used>>

WriteBytes(s) ==
  /\ Goto(s, "bytes", "write")
  /\ filled' = [filled EXCEPT ![s] = @ + count[At(s)]]
  /\ sane' = [sane EXCEPT ![s] = @ /\ ~dirty[At(s)] /\ prefix[s] = count[At(s)]]
  /\ Release(s, At(s))
  /\ field' = [field EXCEPT ![s] = @ + 1]
  /\ UNCHANGED <<writer, poisoned, values, size, used, prefix>>

(* finish, and set_len(capacity - writer.len()): the length becomes what   *)
(* the writer moved over.                                                  *)
Return(s) ==
  /\ field[s] = Len(Fields) + 1
  /\ Goto(s, "write", "ok")
  /\ UNCHANGED <<locks, values, field, size, used, filled, prefix, sane>>

-----------------------------------------------------------------------------
(* The other threads. *)

Change(m, l) ==
  /\ changes[m] < MaxChanges
  /\ writer[l] = {} /\ readers[l] = {} /\ ~poisoned[l]
  /\ \A k \in Lock : m \notin writer[k]
  /\ writer' = [writer EXCEPT ![l] = {m}]
  /\ changes' = [changes EXCEPT ![m] = @ + 1]
  /\ dirty' = [dirty EXCEPT ![l] = TRUE]
  /\ count' \in {[count EXCEPT ![l] = n] : n \in 0 .. MaxCount}
  /\ UNCHANGED <<readers, poisoned, calls>>

Unlock(m, l) ==
  /\ writer[l] = {m}
  /\ writer' = [writer EXCEPT ![l] = {}]
  /\ dirty' = [dirty EXCEPT ![l] = FALSE]
  /\ UNCHANGED <<readers, poisoned, count, changes, calls>>

(* A panic in the middle of the update poisons the lock. *)
Panic(m, l) ==
  /\ writer[l] = {m}
  /\ writer' = [writer EXCEPT ![l] = {}]
  /\ poisoned' = [poisoned EXCEPT ![l] = TRUE]
  /\ UNCHANGED <<readers, values, calls>>

Serialize(s) ==
  \/ Poisoned(s) \/ LockSize(s) \/ SizeField(s) \/ Allocate(s)
  \/ LockWrite(s) \/ OutOfRoom(s) \/ WritePrefix(s) \/ WriteBytes(s) \/ Return(s)

Next ==
  \/ \E s \in Serializer : Serialize(s)
  \/ \E m \in Mutator : \E l \in Lock : Change(m, l) \/ Unlock(m, l) \/ Panic(m, l)

(* Threads run on, and no thread keeps a lock forever. *)
Fairness ==
  /\ \A s \in Serializer : WF_vars(Serialize(s))
  /\ \A m \in Mutator : WF_vars(\E l \in Lock : Unlock(m, l) \/ Panic(m, l))

Spec == Init /\ [][Next]_vars /\ Fairness

-----------------------------------------------------------------------------
(* Properties.                                                             *)

(* The bytes of a field are those of one value it really had: never of a   *)
(* half-done update, not even one a panic left behind, and never a length  *)
(* from before a change with bytes from after it (the guard spans          *)
(* T::write, and a poisoned lock is refused, in Mutex and RwLock).         *)
NeverTorn == \A s \in Serializer : sane[s]

(* Whatever happens to the fields between measuring and writing them, no   *)
(* byte is written behind the allocation, and set_len exposes exactly the  *)
(* bytes that were written.                                                *)
ExposesOnlyWritten ==
  \A s \in Serializer :
    /\ filled[s] <= used[s] /\ used[s] <= size[s]
    /\ pc[s] = "ok" => filled[s] = used[s]

(* A serialize call ends, with an answer or an error: it holds one lock at *)
(* a time, also when a value reaches the same lock twice, and gives it     *)
(* back on every path.                                                     *)
Terminates == \A s \in Serializer : <>(pc[s] \in {"ok", "error"})

(* size_of returned Ok: it must be the exact number of bytes that write    *)
(* writes for this object.                                                 *)
SizeIsExact == \A s \in Serializer : pc[s] = "ok" => filled[s] = size[s]
=============================================================================

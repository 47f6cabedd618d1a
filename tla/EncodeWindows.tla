---------------------------- MODULE EncodeWindows ----------------------------
(***************************************************************************)
(* SchemaWrite::write of a nested value into a Writer, with its trusted    *)
(* windows.  The value is a tree: a node first writes the bytes of its own *)
(* (a leaf its value, a sequence its length, an enum its tag, a struct     *)
(* none), then its children.  A node in Opens has a static size and asks   *)
(* the writer for a window first; inside a window such a request is        *)
(* answered by TrustedDefault, the same unchecked writer again.            *)
(*   "slice"    &mut [u8], &mut [MaybeUninit<u8>] (io/slice.rs)            *)
(*   "vec"      Vec<u8>, std Cursor<Vec<u8>> (io/vec.rs, io/std_write.rs); *)
(*              room is what the allocator will give                       *)
(*   "cursor"   std Cursor over a slice, array or box (io/std_write.rs)    *)
(*   "stream"   WriteAdapter, BufWriter (io/std_write.rs): no windows of   *)
(*              its own; room is what it takes before an I/O error         *)
(***************************************************************************)
EXTENDS Naturals, SequencesExt

CONSTANTS
  Node,         (* the values inside the value                             *)
  Roots,        (* those given to serialize_into                           *)
  Kids,         (* the children of a node, in the order they are written   *)
  Height,       (* a rank: it shows that values are finite               *)
  Own,          (* how many bytes a node writes itself                     *)
  Static,       (* nodes whose type is TypeMeta::Static                    *)
  Opens,        (* those that ask for a window, and sequences of such      *)
  Elem,         (* sequences: the static size of an element, or 0          *)
  MaxSays,      (* bound: the length an iterator reports                   *)
  WordMax,      (* usize::MAX                                              *)
  MaxRoom       (* bound: room of the output                               *)

Sinks == {"slice", "vec", "cursor", "stream"}
Ahead == {"slice", "cursor"}        (* a window moves the parent behind it *)
Partial == {"cursor", "stream"}     (* write_all writes what fits          *)
Seqs == DOMAIN Elem

ASSUME EncodeAssumption ==
  /\ Roots \subseteq Node /\ Opens \subseteq Node /\ Seqs \subseteq Node
  /\ Kids \in [Node -> Seq(Node)] /\ Own \in [Node -> Nat]
  /\ Elem \in [Seqs -> Nat] /\ Height \in [Node -> Nat]
  /\ MaxSays \in Nat /\ WordMax \in Nat /\ MaxRoom \in Nat

VARIABLES
  sink,         (* the writer                                              *)
  room,         (* its size in bytes                                       *)
  root,         (* the value                                               *)
  says,         (* ExactSizeIterator::len of each sequence, true or not    *)
  stack,        (* activations of write: node and next step                *)
  win,          (* the open window: its frame, the next byte and its edge  *)
  out,          (* the bytes of the output, Blank where nothing is written *)
  pos,          (* the position of the writer itself                       *)
  closed,       (* the writer was finished                                 *)
  mode          (* "run", then "ok" or "failed"                            *)

vars == <<sink, room, root, says, stack, win, out, pos, closed, mode>>
inputs == <<sink, room, root, says>>

Blank == <<>>
NoWindow == [owner |-> 0, at |-> 0, edge |-> 0]

(* Behind a node's own bytes and its first k children: <<node, k>>. *)
Steps == {p \in Node \X Nat : p[2] <= Len(Kids[p[1]])}

(* TypeMeta::join_types: sizes are added up from left to right. *)
SizeUpTo[p \in Steps] ==
  IF p[2] = 0 THEN Own[p[1]]
  ELSE LET kid == Kids[p[1]][p[2]]
       IN SizeUpTo[<<p[1], p[2] - 1>>] + SizeUpTo[<<kid, Len(Kids[kid])>>]

(* The static size of a struct, tuple, array or variant. *)
StaticSize(n) == SizeUpTo[<<n, Len(Kids[n])>>]

(* No value contains itself.  What is static holds nothing of dynamic size, *)
(* and a sequence asks for a window when its elements have one static size. *)
ASSUME TreeAssumption ==
  /\ \A n \in Node : \A k \in DOMAIN Kids[n] :
       Height[Kids[n][k]] + Len(Kids[Kids[n][k]]) <= Height[n]
  /\ Static \subseteq Node \ Seqs /\ Opens \subseteq Static \cup Seqs
  /\ \A n \in Static : \A k \in DOMAIN Kids[n] : Kids[n][k] \in Static
  /\ \A n \in Opens \cap Seqs : \A k \in DOMAIN Kids[n] :
       Kids[n][k] \in Static /\ StaticSize(Kids[n][k]) = Elem[n]

(* Mutant: the encoded length is not counted. *)
NeededWithoutLength(n) ==
  IF n \in Seqs THEN (Elem[n] * says[n]) % (WordMax + 1) ELSE StaticSize(n)

(* The size of the window a node asks for; the product may wrap. *)
Needed(n) ==
  IF n \in Seqs THEN (Own[n] + Elem[n] * says[n]) % (WordMax + 1) ELSE StaticSize(n)

(* How often the loop runs, and how many children that writes. *)
Loops(n) == IF n \in Seqs THEN says[n] ELSE Len(Kids[n])
Written(n) == IF Loops(n) < Len(Kids[n]) THEN Loops(n) ELSE Len(Kids[n])

(* The bytes of a node's own and of its first k children. *)
EncodedUpTo[p \in Steps] ==
  IF p[2] = 0 THEN [i \in 1 .. Own[p[1]] |-> <<p[1], i>>]
  ELSE LET kid == Kids[p[1]][p[2]]
       IN EncodedUpTo[<<p[1], p[2] - 1>>] \o EncodedUpTo[<<kid, Written(kid)>>]

Encoding(n) == EncodedUpTo[<<n, Written(n)>>]

Frame(n) == [node |-> n, next |-> 0]
Top == stack[Len(stack)]
Stepped == [stack EXCEPT ![Len(stack)].next = @ + 1]
At(step) == mode = "run" /\ stack # <<>> /\ Top.next = step
InWindow == win # NoWindow
WantsWindow == Top.node \in Opens /\ ~InWindow /\ sink # "stream"

TypeOK ==
  /\ sink \in Sinks /\ room \in 0 .. MaxRoom /\ root \in Roots
  /\ says \in [Seqs -> 0 .. MaxSays]
  /\ stack \in Seq([node : Node, next : Nat])
  /\ win \in [owner : 0 .. Len(stack), at : Nat, edge : 0 .. room]
  /\ out \in [1 .. room -> {Blank} \cup (Node \X Nat)]
  /\ pos \in 0 .. room
  /\ closed \in BOOLEAN
  /\ mode \in {"run", "ok", "failed"}

Init ==
  /\ sink \in Sinks /\ room \in 0 .. MaxRoom /\ root \in Roots
  /\ says \in [Seqs -> 0 .. MaxSays]
  /\ stack = <<Frame(root)>>
  /\ win = NoWindow
  /\ out = [i \in 1 .. room |-> Blank]
  /\ pos = 0
  /\ closed = FALSE
  /\ mode = "run"

(* A node of dynamic size, a TrustedDefault, or Writer's default window. *)
Enter ==
  /\ At(0) /\ ~WantsWindow
  /\ stack' = Stepped
  /\ UNCHANGED <<inputs, win, out, pos, closed, mode>>

(* Mutant: the parent writer stays where it was. *)
ParentNotMoved(edge) == pos

(* Where the writer continues once a window up to `edge` is open. *)
ParentAfter(edge) == IF sink \in Ahead THEN edge ELSE pos

(* Mutant: the room is not checked. *)
OpenWindowUnchecked ==
  /\ At(0) /\ WantsWindow
  /\ LET edge == pos + Needed(Top.node) IN
       /\ win' = [owner |-> Len(stack), at |-> pos, edge |-> edge]
       /\ pos' = ParentAfter(edge)
  /\ stack' = Stepped
  /\ UNCHANGED <<inputs, out, closed, mode>>

(* as_trusted_for *)
OpenWindow ==
  /\ At(0) /\ WantsWindow
  /\ LET edge == pos + Needed(Top.node) IN
       /\ edge <= room
       /\ win' = [owner |-> Len(stack), at |-> pos, edge |-> edge]
       /\ pos' = ParentAfter(edge)
  /\ stack' = Stepped
  /\ UNCHANGED <<inputs, out, closed, mode>>

(* There is no room for the window; a slice has been taken out of the writer. *)
RefuseWindow ==
  /\ At(0) /\ WantsWindow
  /\ pos + Needed(Top.node) > room
  /\ pos' = IF sink = "slice" THEN room ELSE pos
  /\ mode' = "failed"
  /\ UNCHANGED <<inputs, stack, win, out, closed>>

(* The first `n` bytes of Top's own, put behind place `from`. *)
Put(from, n) ==
  [i \in DOMAIN out |-> IF i \in from + 1 .. from + n THEN <<Top.node, i - from>> ELSE out[i]]

(* Inside a window nothing is checked. *)
WriteUnchecked ==
  /\ At(1) /\ InWindow
  /\ out' = Put(win.at, Own[Top.node])
  /\ win' = [win EXCEPT !.at = @ + Own[Top.node]]
  /\ pos' = IF sink = "vec" THEN win'.at ELSE pos
  /\ stack' = Stepped
  /\ UNCHANGED <<inputs, closed, mode>>

WriteChecked ==
  /\ At(1) /\ ~InWindow
  /\ pos + Own[Top.node] <= room
  /\ out' = Put(pos, Own[Top.node])
  /\ pos' = pos + Own[Top.node]
  /\ stack' = Stepped
  /\ UNCHANGED <<inputs, win, closed, mode>>

(* No room: a slice is taken out of the writer, write_all has written what fits. *)
RefuseWrite ==
  /\ At(1) /\ ~InWindow
  /\ pos + Own[Top.node] > room
  /\ out' = IF sink \in Partial THEN Put(pos, room - pos) ELSE out
  /\ pos' = IF sink = "vec" THEN pos ELSE room
  /\ mode' = "failed"
  /\ UNCHANGED <<inputs, stack, win, closed>>

(* An error before the write: a poisoned lock, the preallocation limit, a *)
(* length or tag that does not fit its encoding.                          *)
FailWrite ==
  /\ At(1) /\ Own[Top.node] > 0
  /\ mode' = "failed"
  /\ UNCHANGED <<inputs, stack, win, out, pos, closed>>

(* T::write of the next child, which the loop counts by itself. *)
WriteKid ==
  /\ mode = "run" /\ stack # <<>> /\ Top.next >= 2
  /\ LET k == Top.next - 1 IN
       /\ k <= Loops(Top.node) /\ k <= Len(Kids[Top.node])
       /\ stack' = Append(stack, Frame(Kids[Top.node][k]))
  /\ UNCHANGED <<inputs, win, out, pos, closed, mode>>

(* short_iter: the iterator ended before its reported length *)
ShortIter ==
  /\ mode = "run" /\ stack # <<>> /\ Top.next >= 2
  /\ Top.next - 1 \in Len(Kids[Top.node]) + 1 .. Loops(Top.node)
  /\ mode' = "failed"
  /\ UNCHANGED <<inputs, stack, win, out, pos, closed>>

(* Mutant: the loop ends with the iterator. *)
LoopEndedWithIterator == Top.next - 1 > Written(Top.node)

(* The loop has run as often as the reported length says. *)
LoopEnded == Top.next - 1 > Loops(Top.node)

(* The parent goes on with the child after the one that returned. *)
Popped ==
  IF Len(stack) = 1 THEN <<>>
  ELSE [i \in 1 .. Len(stack) - 1 |->
         IF i = Len(stack) - 1 THEN [stack[i] EXCEPT !.next = @ + 1] ELSE stack[i]]

(* Mutant: finish is forwarded to the parent. *)
FinishForwarded(n) == closed' = (closed \/ n \in Opens)

(* finish of a trusted writer does nothing to the writer it came from. *)
FinishTrusted(n) == UNCHANGED closed

(* write returns; the window it opened, if any, is finished and given back. *)
Return ==
  /\ mode = "run" /\ stack # <<>> /\ Top.next >= 2 /\ LoopEnded
  /\ stack' = Popped
  /\ win' = IF win.owner = Len(stack) THEN NoWindow ELSE win
  /\ FinishTrusted(Top.node)
  /\ UNCHANGED <<inputs, out, pos, mode>>

(* serialize_into: dst.finish, which flushes a stream and may fail there *)
Finish ==
  /\ mode = "run" /\ stack = <<>>
  /\ \/ closed' = TRUE /\ mode' = "ok"
     \/ sink = "stream" /\ closed' = closed /\ mode' = "failed"
  /\ UNCHANGED <<inputs, stack, win, out, pos>>

Next ==
  \/ Enter \/ OpenWindow \/ RefuseWindow
  \/ WriteUnchecked \/ WriteChecked \/ RefuseWrite \/ FailWrite
  \/ WriteKid \/ ShortIter \/ Return \/ Finish

Spec == Init /\ [][Next]_vars

-----------------------------------------------------------------------------
(* What the output holds. *)
Sent == LET n == Cardinality({i \in DOMAIN out : out[i] # Blank})
        IN [i \in 1 .. n |-> out[i]]

(* No unchecked write leaves its window: what write_elem_iter, the derives  *)
(* and the maps ask for covers what they write, whatever an iterator says   *)
(* about its length (the SAFETY comments at as_trusted_for).                *)
StaysInside == win.at <= win.edge

(* When the writer itself is used, or the call has returned Ok, every byte  *)
(* before its position was written: a window that ends without an error was *)
(* filled.  `serialize` exposes exactly these bytes with set_len.           *)
NoHoles ==
  (~InWindow /\ mode # "failed") => \A i \in 1 .. pos : out[i] # Blank

(* The writer is finished once, after the last byte: a trusted writer's     *)
(* finish, called after each window, does not reach its parent.             *)
FinishedLast == closed => stack = <<>> /\ Sent = Encoding(root)

Output == INSTANCE SerialOutput WITH message <- Encoding(root), sent <- Sent, mode <- mode

(* The output is a prefix of the encoding at every step, on every kind of   *)
(* writer, and all of it when serialize_into returns Ok.                    *)
ImplementsOutput == Output!Spec

=============================================================================

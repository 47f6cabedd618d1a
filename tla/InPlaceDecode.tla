--------------------------- MODULE InPlaceDecode ----------------------------
(***************************************************************************)
(* In-place decoding of a nested value (SchemaRead::read).                 *)
(*                                                                         *)
(* A value is a tree of places.  read(place) writes its children straight  *)
(* into the destination, one after the other; while it does, a guard on    *)
(* the Rust stack remembers what has to be undone if a child fails or user *)
(* code panics.  A frame is an open node of the tree, so the call stack is *)
(* the path from the root to `cur`; the guard of a frame is its `kept` set *)
(* (children it would drop) and its heap entry (allocation it would free). *)
(* Dropping memory that holds no value is undefined behaviour in the code; *)
(* here it turns the place "corrupt", which no property tolerates.         *)
(***************************************************************************)
EXTENDS Naturals, Sequences, FiniteSets

CONSTANTS
  Node,         (* every place of every value under consideration          *)
  Kids,         (* [Node -> Seq(Node)]: the reads a node's read performs   *)
  Kind,         (* [Node -> Kinds]                                         *)
  Roots,        (* the places a caller decodes into                        *)
  Height,       (* [Node -> Nat]: how deep the value at a place is nested  *)
  Owning,       (* leaves whose type needs drop (a String, a Box<str>...)  *)
  MaxAttempts   (* bound: how often the caller decodes into a destination  *)

Kinds == {"leaf", "struct", "array", "vec", "box", "enum", "map", "set"}

KidSet(n) == {Kids[n][i] : i \in DOMAIN Kids[n]}

Leaf == {n \in Node : Kind[n] = "leaf"}
Heap == {n \in Node : Kind[n] \in {"vec", "box", "map", "set"}}

(* Under[n]: n and every place inside the value at n. *)
Under[n \in Node] == {n} \cup UNION {Under[k] : k \in KidSet(n)}

Parent(n) == CHOOSE p \in Node : n \in KidSet(p)

IndexIn(p, n) == CHOOSE i \in DOMAIN Kids[p] : Kids[p][i] = n

NeedsDrop(n) == Under[n] \cap (Owning \cup Heap) # {}

ASSUME ForestAssumption ==
  /\ Roots \subseteq Node
  /\ Kids \in [Node -> Seq(Node)]
  /\ Kind \in [Node -> Kinds]
  /\ Height \in [Node -> Nat]
  /\ \A n \in Node : \A k \in KidSet(n) : Height[k] < Height[n]
  /\ Owning \subseteq Leaf
  /\ MaxAttempts \in Nat \ {0}
  /\ \A n \in Node : (n \in Roots) = (\A p \in Node : n \notin KidSet(p))
  /\ \A n \in Node : \A i, j \in DOMAIN Kids[n] : Kids[n][i] = Kids[n][j] => i = j
  /\ \A p, q \in Node : KidSet(p) \cap KidSet(q) # {} => p = q
  /\ \A n \in Node : Kind[n] = "leaf" => Kids[n] = <<>>
  /\ \A n \in Node : Kind[n] = "box" => Len(Kids[n]) = 1
  /\ \A n \in Node : Kind[n] = "map" => Len(Kids[n]) % 2 = 0

VARIABLES
  root,         (* the place being decoded                                 *)
  cur,          (* the innermost activation of read                        *)
  mode,         (* what that activation is doing, or the outcome           *)
  at,           (* [Node -> Nat]: children of the frame already read       *)
  kept,         (* [Node -> set of indices]: children the guard would drop *)
  slot,         (* [Leaf -> state of the place's memory]                   *)
  heap,         (* [Heap -> state of the node's allocation]                *)
  displaced,    (* entries a map or set dropped as duplicates              *)
  attempt

vars == <<root, cur, mode, at, kept, slot, heap, displaced, attempt>>

Outcomes == {"ok", "failed"}

TypeOK ==
  /\ root \in Roots
  /\ cur \in Under[root]
  /\ mode \in {"call", "loop", "ret", "err"} \cup Outcomes
  /\ at \in [Node -> Nat] /\ \A n \in Node : at[n] <= Len(Kids[n])
  /\ kept \in [Node -> SUBSET Nat] /\ \A n \in Node : kept[n] \subseteq 1 .. at[n]
  /\ slot \in [Leaf -> {"uninit", "init", "dropped", "corrupt"}]
  /\ heap \in [Heap -> {"none", "held", "owned", "freed", "corrupt"}]
  /\ displaced \subseteq Node
  /\ attempt \in 1 .. MaxAttempts

Init ==
  /\ root \in Roots
  /\ cur = root
  /\ mode = "call"
  /\ at = [n \in Node |-> 0]
  /\ kept = [n \in Node |-> {}]
  /\ slot = [l \in Leaf |-> "uninit"]
  /\ heap = [n \in Heap |-> "none"]
  /\ displaced = {}
  /\ attempt = 1

-----------------------------------------------------------------------------
(* The drop glue: what drop_in_place does to the values at the places P.   *)

(* A duplicate entry is no longer part of the map it was inserted into. *)
Content(P, gone) ==
  (UNION {Under[n] : n \in P}) \ (UNION {Under[n] : n \in gone})

DropSlots(s, D) ==
  [l \in Leaf |-> IF l \in D \cap Owning
                  THEN IF s[l] = "init" THEN "dropped" ELSE "corrupt"
                  ELSE s[l]]

FreeHeap(h, D) ==
  [n \in Heap |-> IF n \in D
                  THEN IF h[n] = "owned" THEN "freed" ELSE "corrupt"
                  ELSE h[n]]

DropValues(P) ==
  LET D == Content(P, displaced)
  IN  /\ slot' = DropSlots(slot, D)
      /\ heap' = FreeHeap(heap, D)

-----------------------------------------------------------------------------
(* Reading.                                                                *)

(* A leaf writes its destination only when it returns Ok. *)
ReadLeaf ==
  /\ mode = "call" /\ cur \in Leaf
  /\ slot' = [slot EXCEPT ![cur] = "init"]
  /\ mode' = "ret"
  /\ UNCHANGED <<root, cur, at, kept, heap, displaced, attempt>>

(* Input exhausted, bad tag or length, preallocation limit, a panic: the   *)
(* activation ends before it has written anything or armed a guard.        *)
FailRead ==
  /\ mode = "call"
  /\ mode' = "err"
  /\ UNCHANGED <<root, cur, at, kept, slot, heap, displaced, attempt>>

(* Allocate (Vec::with_capacity, new_uninit, ...) and arm the guard. *)
OpenFrame ==
  /\ mode = "call" /\ cur \notin Leaf
  /\ heap' = IF cur \in Heap THEN [heap EXCEPT ![cur] = "held"] ELSE heap
  /\ at' = [at EXCEPT ![cur] = 0]
  /\ kept' = [kept EXCEPT ![cur] = {}]
  /\ mode' = "loop"
  /\ UNCHANGED <<root, cur, slot, displaced, attempt>>

(* Mutant: the guard counts the element before it is read. *)
ReadKidCountedFirst ==
  /\ mode = "loop" /\ at[cur] < Len(Kids[cur])
  /\ cur' = Kids[cur][at[cur] + 1]
  /\ mode' = "call"
  /\ kept' = [kept EXCEPT ![cur] = @ \cup {at[cur] + 1}]
  /\ UNCHANGED <<root, at, slot, heap, displaced, attempt>>

ReadKid ==
  /\ mode = "loop" /\ at[cur] < Len(Kids[cur])
  /\ cur' = Kids[cur][at[cur] + 1]
  /\ mode' = "call"
  /\ UNCHANGED <<root, at, kept, slot, heap, displaced, attempt>>

(* Every child is in place: forget the guard, hand the value over. *)
CloseFrame ==
  /\ mode = "loop" /\ at[cur] = Len(Kids[cur])
  /\ heap' = IF cur \in Heap THEN [heap EXCEPT ![cur] = "owned"] ELSE heap
  /\ mode' = "ret"
  /\ UNCHANGED <<root, cur, at, kept, slot, displaced, attempt>>

(* Mutant: a struct leaves its last two fields uncounted. *)
CoveredTooLate(p, i) ==
  IF Kind[p] = "struct" THEN kept[p] \cup (IF i + 1 < Len(Kids[p]) THEN {i} ELSE {})
                        ELSE kept[p] \cup {i}

(* Mutant: the guard counts one element more than was read. *)
CoveredAhead(p, i) == kept[p] \cup {i, i + 1}

(* The children the guard of p covers once child i has returned Ok.  A     *)
(* struct does not count its last field: nothing can fail after it.  A     *)
(* slice guard counts only what needs drop, a box guard nothing.           *)
Covered(p, i) ==
  CASE Kind[p] = "struct" -> kept[p] \cup (IF i < Len(Kids[p]) THEN {i} ELSE {})
    [] Kind[p] \in {"array", "vec"} ->
         kept[p] \cup (IF NeedsDrop(Kids[p][i]) THEN {i} ELSE {})
    [] Kind[p] = "box" -> kept[p]
    [] OTHER -> kept[p] \cup {i}

ReturnTo(p, i, k) ==
  /\ at' = [at EXCEPT ![p] = i]
  /\ kept' = [kept EXCEPT ![p] = k]
  /\ cur' = p
  /\ mode' = "loop"

KidReturned ==
  /\ mode = "ret" /\ cur # root
  /\ LET p == Parent(cur)
         i == IndexIn(p, cur)
     IN  ReturnTo(p, i, Covered(p, i))
  /\ UNCHANGED <<root, slot, heap, displaced, attempt>>

(* map.insert met an equal key: the new key and the old value go.          *)
(* set.insert met an equal element: the new element goes.                  *)
DropDuplicate ==
  /\ mode = "ret" /\ cur # root
  /\ LET p == Parent(cur)
         i == IndexIn(p, cur)
     IN  \E dups \in SUBSET (1 .. i) :
           /\ \/ /\ Kind[p] = "map" /\ i % 2 = 0
                 /\ \E j \in kept[p] : j % 2 = 0 /\ dups = {j, i - 1}
              \/ Kind[p] = "set" /\ kept[p] # {} /\ dups = {i}
           /\ DropValues({Kids[p][j] : j \in dups})
           /\ displaced' = displaced \cup {Kids[p][j] : j \in dups}
           /\ ReturnTo(p, i, (kept[p] \cup {i}) \ dups)
  /\ UNCHANGED <<root, attempt>>

-----------------------------------------------------------------------------
(* Failure: the frames unwind, innermost first, each running its guard.    *)

(* Mutant: Box, Rc and Arc without their DropGuard. *)
UnwindWithoutFree(p, dropped) ==
  LET D == Content({Kids[p][j] : j \in dropped}, displaced)
      h == FreeHeap(heap, D)
  IN  /\ slot' = DropSlots(slot, D)
      /\ heap' = IF p \in Heap /\ Kind[p] # "box" THEN [h EXCEPT ![p] = "freed"] ELSE h
      /\ kept' = [kept EXCEPT ![p] = {}]
      /\ cur' = p
      /\ mode' = "err"
      /\ UNCHANGED <<root, at, displaced, attempt>>

(* Mutant: the slice guard was forgotten before the loop. *)
UnwindForgotten(p, dropped) ==
  LET D == Content({Kids[p][j] : j \in IF Kind[p] = "vec" THEN {} ELSE dropped}, displaced)
      h == FreeHeap(heap, D)
  IN  /\ slot' = DropSlots(slot, D)
      /\ heap' = IF p \in Heap THEN [h EXCEPT ![p] = "freed"] ELSE h
      /\ kept' = [kept EXCEPT ![p] = {}]
      /\ cur' = p
      /\ mode' = "err"
      /\ UNCHANGED <<root, at, displaced, attempt>>

Unwind(p, dropped) ==
  LET D == Content({Kids[p][j] : j \in dropped}, displaced)
      h == FreeHeap(heap, D)
  IN  /\ slot' = DropSlots(slot, D)
      /\ heap' = IF p \in Heap
                 THEN [h EXCEPT ![p] = IF @ = "held" THEN "freed" ELSE "corrupt"]
                 ELSE h
      /\ kept' = [kept EXCEPT ![p] = {}]
      /\ cur' = p
      /\ mode' = "err"
      /\ UNCHANGED <<root, at, displaced, attempt>>

KidFailed ==
  /\ mode = "err" /\ cur # root
  /\ Unwind(Parent(cur), kept[Parent(cur)])

(* User code (Hash, Ord, FromIterator) panics while taking a new entry. *)
InsertPanics ==
  /\ mode = "ret" /\ cur # root
  /\ LET p == Parent(cur)
         i == IndexIn(p, cur)
     IN  /\ Kind[p] = "set" \/ (Kind[p] = "map" /\ i % 2 = 0)
         /\ Unwind(p, kept[p] \cup {i})

(* The outermost read returns to the caller. *)
Finish ==
  /\ mode \in {"ret", "err"} /\ cur = root
  /\ mode' = IF mode = "ret" THEN "ok" ELSE "failed"
  /\ UNCHANGED <<root, cur, at, kept, slot, heap, displaced, attempt>>

(* The caller decodes into the same destination again. *)
Retry ==
  /\ mode = "failed" /\ attempt < MaxAttempts
  /\ attempt' = attempt + 1
  /\ mode' = "call" /\ cur' = root
  /\ displaced' = {}
  /\ UNCHANGED <<root, at, kept, slot, heap>>

Read == \/ ReadLeaf \/ FailRead \/ OpenFrame \/ ReadKid \/ CloseFrame
        \/ KidReturned \/ DropDuplicate \/ KidFailed \/ InsertPanics \/ Finish

Next == Read \/ Retry

Spec == Init /\ [][Next]_vars /\ WF_vars(Read)

-----------------------------------------------------------------------------
(* Properties.                                                             *)

Live == {l \in Owning : slot[l] = "init"} \cup {h \in Heap : heap[h] = "owned"}

(* A finished value on its way from an activation to its caller. *)
InTransit ==
  IF mode = "ret" \/ (mode = "loop" /\ at[cur] = Len(Kids[cur]))
  THEN Under[cur] ELSE {}

(* The frames whose guards are armed. *)
Frames ==
  IF mode \in Outcomes THEN {}
  ELSE {n \in Under[root] : cur \in Under[n] /\ (n = cur => mode = "loop" /\ InTransit = {})}

Owners(x) ==
  {f \in Frames : \E j \in kept[f] : x \in Content({Kids[f][j]}, displaced)}

(* No guard and no drop glue ever runs over memory that holds no live      *)
(* value: nothing is dropped twice, nothing uninitialised is dropped, no   *)
(* allocation is freed twice (the `unsafe` drops of SliceDropGuard, of     *)
(* __WincodeDropGuard and of the Box/Rc/Arc DropGuard).                    *)
NoInvalidDrop ==
  /\ \A l \in Leaf : slot[l] # "corrupt"
  /\ \A h \in Heap : heap[h] # "corrupt"

(* While a decode is under way every live value has exactly one place that *)
(* answers for it: the value being returned, or one armed guard; what a    *)
(* guard answers for is live; and an allocation without a value is held    *)
(* by an open frame.  Two guards over one value would be a double drop on  *)
(* the next failure, none would be a leak.                                 *)
OneOwner ==
  mode \notin Outcomes =>
    /\ \A x \in Live : Cardinality(Owners(x)) = (IF x \in InTransit THEN 0 ELSE 1)
    /\ \A f \in Frames : \A j \in kept[f] :
         Content({Kids[f][j]}, displaced) \cap (Owning \cup Heap) \subseteq Live
    /\ \A h \in Heap : heap[h] = "held" =>
         cur \in Under[h] /\ (cur = h => mode = "loop")

(* A failed decode, however deep it failed, leaves nothing behind: every   *)
(* value built so far was dropped, every allocation freed (the contract of *)
(* decode_into_slice_t, containers.rs, and of SchemaRead::read, which may  *)
(* leave dst uninitialised on Err).                                        *)
NothingLeaks ==
  mode = "failed" => Live = {} /\ \A h \in Heap : heap[h] # "held"

(* The complete contents of the value at r: everything under it, except    *)
(* for entries refused as duplicates, never the first of a map or a set.   *)
Refusable(r) ==
  UNION {{Kids[n][i] : i \in 2 .. Len(Kids[n])} :
           n \in {m \in Under[r] : Kind[m] \in {"map", "set"}}}

WholeOf == [r \in Roots |->
  {Content({r}, gone) \cap (Leaf \cup Heap) : gone \in SUBSET Refusable(r)}]

(* The plain data the caller can see in a value that read returned. *)
Returned ==
  IF mode = "ok"
  THEN {l \in Leaf \cap Content({root}, displaced) : slot[l] = "init"}
  ELSE {}

Abstract == INSTANCE AtomicDecode WITH
  Whole <- WholeOf,
  phase <- IF mode \in Outcomes THEN mode ELSE "pending",
  live  <- IF mode \in Outcomes THEN Live \cup Returned ELSE {}

(* Seen from its caller, read is all or nothing and always ends: the       *)
(* frame-by-frame machine implements AtomicDecode.                         *)
ImplementsAtomic == Abstract!Spec
=============================================================================

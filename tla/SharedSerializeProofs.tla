------------------------ MODULE SharedSerializeProofs -----------------------
(***************************************************************************)
(* Proofs about SharedSerialize, for any number of serialising threads, of *)
(* threads that change the fields, of locks and of fields, whatever the    *)
(* fields' lengths.                                                        *)
(***************************************************************************)
EXTENDS SharedSerialize, TLAPS

Holding(s) == pc[s] \in {"sizing", "prefix", "bytes"}

Counters ==
  /\ size \in [Serializer -> Nat] /\ used \in [Serializer -> Nat]
  /\ filled \in [Serializer -> Nat] /\ prefix \in [Serializer -> Nat]

(* A serializer holds the guard of the field it is at, and no other one. *)
GuardsMatch ==
  \A s \in Serializer :
    /\ Holding(s) => field[s] <= Len(Fields) /\ s \in readers[At(s)]
    /\ \A l \in Lock : s \in readers[l] => Holding(s) /\ l = At(s)

(* What is behind a serializer's guard is not being changed, and was not   *)
(* left half changed.                                                      *)
ReadersSeeClean ==
  \A l \in Lock :
    /\ readers[l] # {} => writer[l] = {} /\ ~poisoned[l]
    /\ dirty[l] => writer[l] # {} \/ poisoned[l]

(* The bytes written fall behind the bytes moved over by what is still to  *)
(* come of the field at hand, whose length has not changed meanwhile.      *)
Accounts(s) ==
  /\ pc[s] \in {"size", "sizing"} => used[s] = 0 /\ filled[s] = 0
  /\ pc[s] \in {"write", "ok"} => filled[s] = used[s]
  /\ pc[s] = "prefix" => filled[s] + 1 + count[At(s)] = used[s]
  /\ pc[s] = "bytes" => filled[s] + count[At(s)] = used[s] /\ prefix[s] = count[At(s)]
  /\ filled[s] <= used[s] /\ used[s] <= size[s]

IInv ==
  /\ TypeOK /\ GuardsMatch /\ ReadersSeeClean
  /\ \A s \in Serializer : Accounts(s) /\ sane[s]

-----------------------------------------------------------------------------
LEMMA FieldsFacts ==
  /\ Len(Fields) \in Nat
  /\ \A i \in 1 .. Len(Fields) : Fields[i] \in Lock
BY SharedAssumption

LEMMA AtIsLock ==
  ASSUME TypeOK, NEW s \in Serializer, field[s] <= Len(Fields)
  PROVE  At(s) \in Lock /\ count[At(s)] \in 0 .. MaxCount
BY FieldsFacts DEF TypeOK, At

LEMMA CountersTyped == TypeOK => Counters
BY DEF TypeOK, Counters

LEMMA InitInvariant == Init => IInv
BY FieldsFacts, SharedAssumption
DEF Init, IInv, TypeOK, Stages, GuardsMatch, ReadersSeeClean, Accounts, Holding

(* A step that moves s from one stage to another without the locks. *)
LEMMA StageChanged ==
  ASSUME IInv, NEW s \in Serializer,
         Poisoned(s) \/ Allocate(s) \/ OutOfRoom(s) \/ Return(s)
  PROVE  IInv'
<1>1. /\ UNCHANGED <<readers, writer, poisoned, count, dirty, changes>>
      /\ UNCHANGED <<size, used, filled, prefix, sane>>
      /\ field' \in {field, [field EXCEPT ![s] = 1]}
      /\ \E stage \in {"write", "ok", "error"} :
           /\ pc' = [pc EXCEPT ![s] = stage]
           /\ pc[s] \in {"size", "write"}
           /\ stage = "ok" => pc[s] = "write"
  BY DEF Poisoned, Allocate, OutOfRoom, Return, Goto, locks, values
<1>2. PICK stage \in {"write", "ok", "error"} :
        pc' = [pc EXCEPT ![s] = stage] /\ (stage = "ok" => pc[s] = "write")
  BY <1>1
<1>3. \A t \in Serializer \ {s} : pc'[t] = pc[t] /\ field'[t] = field[t] /\ At(t)' = At(t)
  BY <1>1, <1>2 DEF IInv, TypeOK, At
<1>4. /\ pc'[s] = stage /\ pc[s] \in {"size", "write"} /\ ~Holding(s) /\ ~Holding(s)'
      /\ field'[s] \in 1 .. Len(Fields) + 1
  BY <1>1, <1>2, FieldsFacts DEF IInv, TypeOK, Holding
<1>5. TypeOK'
  <2>1. Counters'
    BY <1>1, CountersTyped DEF IInv, Counters
  <2>2. field' \in [Serializer -> 1 .. Len(Fields) + 1]
    <3>1. 1 \in 1 .. Len(Fields) + 1
      BY FieldsFacts
    <3>2. QED
      BY <1>1, <3>1 DEF IInv, TypeOK
  <2>3. pc' \in [Serializer -> Stages]
    BY <1>2 DEF IInv, TypeOK, Stages
  <2>4. QED
    BY <1>1, <2>1, <2>2, <2>3 DEF IInv, TypeOK, Counters
<1>6. GuardsMatch'
  BY <1>1, <1>3, <1>4 DEF IInv, GuardsMatch, Holding
<1>7. ReadersSeeClean'
  BY <1>1 DEF IInv, ReadersSeeClean
<1>8. \A t \in Serializer : Accounts(t)' /\ sane'[t]
  BY <1>1, <1>3, <1>4 DEF IInv, Accounts
<1>9. QED
  BY <1>5, <1>6, <1>7, <1>8 DEF IInv

(* The guard of the next field is taken, to measure or to write it. *)
LEMMA GuardTaken ==
  ASSUME IInv, NEW s \in Serializer, LockSize(s) \/ LockWrite(s)
  PROVE  IInv'
<1> DEFINE n == 1 + count[At(s)]
<1>1. /\ field[s] <= Len(Fields)
      /\ ~Holding(s)
      /\ Free(At(s)) /\ ~poisoned[At(s)]
      /\ readers' = [readers EXCEPT ![At(s)] = @ \cup {s}]
      /\ UNCHANGED <<writer, poisoned, count, dirty, changes>>
      /\ UNCHANGED <<field, size, filled, prefix, sane>>
      /\ \/ pc[s] = "size" /\ pc' = [pc EXCEPT ![s] = "sizing"] /\ used' = used
         \/ /\ pc[s] = "write" /\ pc' = [pc EXCEPT ![s] = "prefix"]
            /\ used[s] + n <= size[s] /\ used' = [used EXCEPT ![s] = @ + n]
  BY DEF LockSize, LockWrite, Goto, Acquire, Room, Holding, values
<1>2. At(s) \in Lock /\ count[At(s)] \in Nat
  <2>1. field[s] \in 1 .. Len(Fields)
    BY <1>1, FieldsFacts DEF IInv, TypeOK
  <2>2. At(s) \in Lock
    BY <2>1, AtIsLock DEF IInv
  <2>3. QED
    BY <2>2, SharedAssumption DEF IInv, TypeOK
<1>3. /\ \A t \in Serializer \ {s} : pc'[t] = pc[t] /\ used'[t] = used[t]
      /\ \A t \in Serializer : At(t)' = At(t)
      /\ \A l \in Lock \ {At(s)} : readers'[l] = readers[l]
      /\ readers'[At(s)] = readers[At(s)] \cup {s}
      /\ Holding(s)'
      /\ \/ pc[s] = "size" /\ pc'[s] = "sizing" /\ used'[s] = used[s]
         \/ /\ pc[s] = "write" /\ pc'[s] = "prefix"
            /\ used'[s] = used[s] + n /\ used[s] + n <= size[s]
  BY <1>1, <1>2 DEF IInv, TypeOK, At, Holding
<1>4. TypeOK'
  <2>1. Counters'
    <3>1. n \in Nat
      BY <1>2
    <3>2. Counters
      BY CountersTyped DEF IInv
    <3>3. used' = used \/ used' = [used EXCEPT ![s] = @ + n]
      BY <1>1
    <3> HIDE DEF n
    <3>4. used' \in [Serializer -> Nat]
      BY <3>1, <3>2, <3>3 DEF Counters
    <3>5. QED
      BY <1>1, <3>2, <3>4 DEF Counters
  <2>2. readers' \in [Lock -> SUBSET Serializer]
    BY <1>1 DEF IInv, TypeOK
  <2>3. pc' \in [Serializer -> Stages]
    BY <1>1 DEF IInv, TypeOK, Stages
  <2>4. QED
    BY <1>1, <2>1, <2>2, <2>3 DEF IInv, TypeOK, Counters
<1>5. GuardsMatch'
  BY <1>1, <1>2, <1>3 DEF IInv, GuardsMatch, Holding
<1>6. ReadersSeeClean'
  BY <1>1, <1>2, <1>3 DEF IInv, ReadersSeeClean, Free
<1>7. ASSUME NEW t \in Serializer
      PROVE  Accounts(t)' /\ sane'[t]
  <2>1. Accounts(t) /\ sane'[t] /\ used[t] \in Nat /\ filled[t] \in Nat /\ size[t] \in Nat
    BY <1>1, CountersTyped DEF IInv, Counters
  <2>2. /\ filled'[t] = filled[t] /\ size'[t] = size[t]
        /\ prefix'[t] = prefix[t] /\ count'[At(t)'] = count[At(t)]
    BY <1>1, <1>3
  <2>3. CASE t # s
    BY <1>3, <2>1, <2>2, <2>3 DEF Accounts
  <2>4. CASE t = s
    BY <1>2, <1>3, <2>1, <2>2, <2>4 DEF Accounts
  <2>5. QED
    BY <2>1, <2>3, <2>4
<1>8. QED
  BY <1>4, <1>5, <1>6, <1>7 DEF IInv

(* The field at hand is measured, or its bytes written: the guard goes. *)
LEMMA GuardReleased ==
  ASSUME IInv, NEW s \in Serializer, SizeField(s) \/ WriteBytes(s)
  PROVE  IInv'
<1> DEFINE n == count[At(s)]
<1>1. /\ Holding(s)
      /\ readers' = [readers EXCEPT ![At(s)] = @ \ {s}]
      /\ field' = [field EXCEPT ![s] = @ + 1]
      /\ UNCHANGED <<writer, poisoned, count, dirty, changes, used, prefix>>
      /\ \/ /\ pc[s] = "sizing" /\ pc' = [pc EXCEPT ![s] = "size"]
            /\ size' = [size EXCEPT ![s] = @ + 1 + n]
            /\ UNCHANGED <<filled, sane>>
         \/ /\ pc[s] = "bytes" /\ pc' = [pc EXCEPT ![s] = "write"]
            /\ filled' = [filled EXCEPT ![s] = @ + n]
            /\ sane' = [sane EXCEPT ![s] = @ /\ ~dirty[At(s)] /\ prefix[s] = n]
            /\ UNCHANGED size
  BY DEF SizeField, WriteBytes, Goto, Release, Holding, values
<1>2. /\ field[s] \in 1 .. Len(Fields) /\ At(s) \in Lock /\ n \in Nat
      /\ s \in readers[At(s)] /\ ~dirty[At(s)]
  <2>1. field[s] <= Len(Fields) /\ s \in readers[At(s)]
    BY <1>1 DEF IInv, GuardsMatch
  <2>2. field[s] \in 1 .. Len(Fields)
    BY <2>1, FieldsFacts DEF IInv, TypeOK
  <2>3. At(s) \in Lock /\ n \in Nat
    BY <2>1, AtIsLock, SharedAssumption DEF IInv
  <2>4. QED
    BY <2>1, <2>2, <2>3 DEF IInv, ReadersSeeClean
<1>3. /\ \A t \in Serializer \ {s} :
           /\ pc'[t] = pc[t] /\ At(t)' = At(t) /\ field'[t] = field[t]
           /\ size'[t] = size[t] /\ filled'[t] = filled[t] /\ sane'[t] = sane[t]
      /\ \A l \in Lock \ {At(s)} : readers'[l] = readers[l]
      /\ readers'[At(s)] = readers[At(s)] \ {s}
      /\ ~Holding(s)'
  <2>1. ASSUME NEW t \in Serializer \ {s}
        PROVE  /\ pc'[t] = pc[t] /\ field'[t] = field[t] /\ size'[t] = size[t]
               /\ filled'[t] = filled[t] /\ sane'[t] = sane[t]
    BY <1>1 DEF IInv, TypeOK
  <2>2. \A t \in Serializer \ {s} : At(t)' = At(t)
    BY <2>1 DEF At
  <2>3. /\ \A l \in Lock \ {At(s)} : readers'[l] = readers[l]
        /\ readers'[At(s)] = readers[At(s)] \ {s}
    BY <1>1, <1>2 DEF IInv, TypeOK
  <2>4. ~Holding(s)'
    BY <1>1 DEF IInv, TypeOK, Holding
  <2>5. QED
    BY <2>1, <2>2, <2>3, <2>4
<1>4. \/ /\ pc[s] = "sizing" /\ pc'[s] = "size" /\ size'[s] = size[s] + 1 + n
         /\ filled'[s] = filled[s] /\ sane'[s] = sane[s]
      \/ /\ pc[s] = "bytes" /\ pc'[s] = "write" /\ size'[s] = size[s]
         /\ filled'[s] = filled[s] + n
         /\ sane'[s] = (sane[s] /\ ~dirty[At(s)] /\ prefix[s] = n)
  BY <1>1 DEF IInv, TypeOK
<1>5. TypeOK'
  <2>1. Counters'
    <3>1. n \in Nat /\ 1 + n \in Nat
      BY <1>2
    <3>2. Counters
      BY CountersTyped DEF IInv
    <3>3. size' \in [Serializer -> Nat]
      BY <1>1, <3>1, <3>2 DEF Counters
    <3>4. filled' \in [Serializer -> Nat]
      BY <1>1, <3>1, <3>2 DEF Counters
    <3>5. QED
      BY <1>1, <3>2, <3>3, <3>4 DEF Counters
  <2>2. readers' \in [Lock -> SUBSET Serializer]
    BY <1>1 DEF IInv, TypeOK
  <2>3. pc' \in [Serializer -> Stages]
    BY <1>1 DEF IInv, TypeOK, Stages
  <2>4. field' \in [Serializer -> 1 .. Len(Fields) + 1]
    BY <1>1, <1>2, FieldsFacts DEF IInv, TypeOK
  <2>5. sane' \in [Serializer -> BOOLEAN]
    BY <1>1 DEF IInv, TypeOK
  <2>6. QED
    BY <1>1, <2>1, <2>2, <2>3, <2>4, <2>5 DEF IInv, TypeOK, Counters
<1>6. GuardsMatch'
  BY <1>1, <1>2, <1>3 DEF IInv, GuardsMatch, Holding
<1>7. ReadersSeeClean'
  BY <1>1, <1>2, <1>3 DEF IInv, ReadersSeeClean
<1>8. \A t \in Serializer : Accounts(t)' /\ sane'[t]
  <2>1. Accounts(s)' /\ sane'[s]
    BY <1>1, <1>2, <1>4 DEF IInv, TypeOK, Accounts
  <2>2. \A t \in Serializer \ {s} : Accounts(t)' /\ sane'[t]
    BY <1>1, <1>3 DEF IInv, Accounts
  <2>3. QED
    BY <2>1, <2>2
<1>9. QED
  BY <1>5, <1>6, <1>7, <1>8 DEF IInv

LEMMA PrefixWritten ==
  ASSUME IInv, NEW s \in Serializer, WritePrefix(s)
  PROVE  IInv'
<1>1. /\ pc[s] = "prefix" /\ pc' = [pc EXCEPT ![s] = "bytes"]
      /\ prefix' = [prefix EXCEPT ![s] = count[At(s)]]
      /\ filled' = [filled EXCEPT ![s] = @ + 1]
      /\ sane' = [sane EXCEPT ![s] = @ /\ ~dirty[At(s)]]
      /\ UNCHANGED <<readers, writer, poisoned, count, dirty, changes, field, size, used>>
  BY DEF WritePrefix, Goto, locks, values
<1>2. field[s] <= Len(Fields) /\ s \in readers[At(s)]
  BY <1>1 DEF IInv, GuardsMatch, Holding
<1>3. At(s) \in Lock /\ count[At(s)] \in Nat /\ ~dirty[At(s)]
  <2>1. At(s) \in Lock /\ count[At(s)] \in Nat
    BY <1>2, AtIsLock, SharedAssumption DEF IInv
  <2>2. QED
    BY <1>2, <2>1 DEF IInv, ReadersSeeClean
<1>4. /\ \A t \in Serializer : At(t)' = At(t)
      /\ \A t \in Serializer \ {s} :
           /\ pc'[t] = pc[t] /\ prefix'[t] = prefix[t]
           /\ filled'[t] = filled[t] /\ sane'[t] = sane[t]
      /\ pc'[s] = "bytes" /\ prefix'[s] = count[At(s)] /\ filled'[s] = filled[s] + 1
      /\ sane'[s] = (sane[s] /\ ~dirty[At(s)])
  BY <1>1 DEF IInv, TypeOK, At
<1>5. TypeOK'
  <2>1. Counters'
    BY <1>1, <1>3, CountersTyped DEF IInv, Counters
  <2>2. pc' \in [Serializer -> Stages] /\ sane' \in [Serializer -> BOOLEAN]
    BY <1>1 DEF IInv, TypeOK, Stages
  <2>3. QED
    BY <1>1, <2>1, <2>2 DEF IInv, TypeOK, Counters
<1>6. GuardsMatch' /\ ReadersSeeClean'
  BY <1>1, <1>4 DEF IInv, GuardsMatch, ReadersSeeClean, Holding
<1>7. \A t \in Serializer : Accounts(t)' /\ sane'[t]
  <2>1. Accounts(s)' /\ sane'[s]
    BY <1>1, <1>3, <1>4 DEF IInv, TypeOK, Accounts
  <2>2. \A t \in Serializer \ {s} : Accounts(t)' /\ sane'[t]
    BY <1>1, <1>4 DEF IInv, Accounts
  <2>3. QED
    BY <2>1, <2>2
<1>8. QED
  BY <1>5, <1>6, <1>7 DEF IInv

(* A field is changed only behind a writer's guard: nobody who is at it    *)
(* holds the other.                                                        *)
LEMMA FieldChanged ==
  ASSUME IInv, NEW m \in Mutator, NEW l \in Lock, Change(m, l)
  PROVE  IInv'
<1>1. /\ readers[l] = {} /\ ~poisoned[l] /\ changes[m] < MaxChanges
      /\ writer' = [writer EXCEPT ![l] = {m}]
      /\ changes' = [changes EXCEPT ![m] = @ + 1]
      /\ dirty' = [dirty EXCEPT ![l] = TRUE]
      /\ \E n \in 0 .. MaxCount : count' = [count EXCEPT ![l] = n]
      /\ UNCHANGED <<readers, poisoned, pc, field, size, used, filled, prefix, sane>>
  BY DEF Change, calls
<1>2. \A k \in Lock \ {l} : writer'[k] = writer[k] /\ dirty'[k] = dirty[k] /\ count'[k] = count[k]
  BY <1>1 DEF IInv, TypeOK
<1>3. \A s \in Serializer : Holding(s) => At(s) \in Lock \ {l}
  BY <1>1, AtIsLock DEF IInv, GuardsMatch
<1>4. TypeOK'
  BY <1>1, SharedAssumption DEF IInv, TypeOK
<1>5. GuardsMatch'
  BY <1>1 DEF IInv, GuardsMatch, Holding, At
<1>6. ReadersSeeClean'
  BY <1>1, <1>2 DEF IInv, TypeOK, ReadersSeeClean
<1>7. \A s \in Serializer : Accounts(s)' /\ sane'[s]
  BY <1>1, <1>2, <1>3 DEF IInv, Accounts, Holding, At
<1>8. QED
  BY <1>4, <1>5, <1>6, <1>7 DEF IInv

LEMMA ChangeOver ==
  ASSUME IInv, NEW m \in Mutator, NEW l \in Lock, Unlock(m, l) \/ Panic(m, l)
  PROVE  IInv'
<1>1. /\ writer[l] = {m} /\ writer' = [writer EXCEPT ![l] = {}]
      /\ \/ dirty' = [dirty EXCEPT ![l] = FALSE] /\ UNCHANGED poisoned
         \/ poisoned' = [poisoned EXCEPT ![l] = TRUE] /\ UNCHANGED dirty
      /\ UNCHANGED <<readers, count, changes, pc, field, size, used, filled, prefix, sane>>
  BY DEF Unlock, Panic, values, calls
<1>2. TypeOK'
  BY <1>1 DEF IInv, TypeOK
<1>3. GuardsMatch'
  BY <1>1 DEF IInv, GuardsMatch, Holding, At
<1>4. ReadersSeeClean'
  BY <1>1 DEF IInv, TypeOK, ReadersSeeClean
<1>5. \A s \in Serializer : Accounts(s)' /\ sane'[s]
  BY <1>1 DEF IInv, Accounts, At
<1>6. QED
  BY <1>2, <1>3, <1>4, <1>5 DEF IInv

LEMMA NextInvariant == IInv /\ [Next]_vars => IInv'
<1> SUFFICES ASSUME IInv, [Next]_vars
             PROVE  IInv'
  OBVIOUS
<1>1. CASE UNCHANGED vars
  BY <1>1
  DEF vars, locks, values, calls, IInv, TypeOK, GuardsMatch, ReadersSeeClean, Accounts, Holding, At
<1>2. ASSUME NEW s \in Serializer, Serialize(s)
      PROVE  IInv'
  BY <1>2, StageChanged, GuardTaken, GuardReleased, PrefixWritten DEF Serialize
<1>3. ASSUME NEW m \in Mutator, NEW l \in Lock, Change(m, l) \/ Unlock(m, l) \/ Panic(m, l)
      PROVE  IInv'
  BY <1>3, FieldChanged, ChangeOver
<1>4. QED
  BY <1>1, <1>2, <1>3 DEF Next

(* Guards, lengths and bytes written fit together at every step of every   *)
(* thread: an inductive invariant.                                         *)
THEOREM Invariant == Spec => []IInv
BY InitInvariant, NextInvariant, PTL DEF Spec

-----------------------------------------------------------------------------
(* Threads, locks and calls stay within their states. *)
THEOREM TypeCorrect == Spec => []TypeOK
<1>1. IInv => TypeOK
  BY DEF IInv
<1>2. QED
  BY Invariant, <1>1, PTL

(* Whatever other threads do to the fields and wherever they panic, every  *)
(* field comes out as one value it really had.                             *)
THEOREM FieldsAreWhole == Spec => []NeverTorn
<1>1. IInv => NeverTorn
  BY DEF IInv, NeverTorn
<1>2. QED
  BY Invariant, <1>1, PTL

(* However much the fields grow after they were measured, serialize writes *)
(* inside its allocation and exposes what it wrote.                        *)
THEOREM OnlyWrittenExposed == Spec => []ExposesOnlyWritten
<1>1. IInv => ExposesOnlyWritten
  BY DEF IInv, Accounts, ExposesOnlyWritten
<1>2. QED
  BY Invariant, <1>1, PTL
=============================================================================

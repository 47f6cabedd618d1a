------------------------ MODULE UninitBuilderProofs -------------------------
(***************************************************************************)
(* Proofs about UninitBuilder, for every number of fields and of parts,    *)
(* and callers that do not initialise a marked field again.                *)
(***************************************************************************)
EXTENDS UninitBuilder, TLAPS, WellFoundedInduction

LiveCells(f) == \A c \in Cells(f) : mem[c] = "live"
NoLiveCell(f) == \A c \in Cells(f) : mem[c] # "live"

(* A read is under way only while the builder is open, and into a field    *)
(* that is not marked; what it has written is live.                        *)
ReadInv ==
  busy # 0 =>
    /\ phase = "open" /\ busy \notin marked
    /\ \A k \in 1 .. done : mem[<<busy, k>>] = "live"

(* Every marked field that Drop has not come to yet is live ... *)
MarkedAreLive ==
  \A f \in marked :
    (phase \in {"open", "finished"} \/ (phase = "dropping" /\ f <= cursor)) => LiveCells(f)

(* ... and what is live is marked, is being read, or was never announced. *)
LiveAreKnown ==
  \A f \in Field \ raw :
    /\ phase = "open" /\ f \notin marked /\ f # busy => NoLiveCell(f)
    /\ f = busy => \A k \in done + 1 .. Parts[f] : mem[<<f, k>>] # "live"
    /\ phase = "dropping" /\ (f \notin marked \/ f > cursor) => NoLiveCell(f)
    /\ phase = "dropped" => NoLiveCell(f)

(* The strengthening: what Drop finds depends on what every operation      *)
(* before it left in marked and unmarked fields.                           *)
IInv ==
  /\ TypeOK /\ ReadInv /\ MarkedAreLive /\ LiveAreKnown
  /\ phase = "finished" => marked = Field

-----------------------------------------------------------------------------
(* A cell belongs to one field. *)
LEMMA CellsOfField ==
  /\ \A f \in Field : Cells(f) \subseteq Cell
  /\ \A c \in Cell : c \in Cells(c[1]) /\ c[1] \in Field
  /\ \A f \in Field : \A c \in Cells(f) : c[1] = f /\ c = <<f, c[2]>> /\ c[2] \in 1 .. Parts[f]
BY DEF Cell, Cells

LEMMA FieldFacts ==
  /\ NumFields \in Nat /\ Field \subseteq Nat /\ 0 \notin Field
  /\ \A f \in Field : Parts[f] \in Nat \ {0} /\ f <= NumFields
BY BuilderAssumption DEF Field

(* The bit set has room for every field. *)
LEMMA WideEnough == BitSetBits \in Nat /\ NumFields <= BitSetBits
<1> DEFINE T == {b \in BitSets : NumFields <= b}
           R == {ss \in Nat \X Nat : ss[1] < ss[2]}
<1>1. T \subseteq Nat /\ T # {}
  BY BuilderAssumption
<1>2. IsWellFoundedOn(R, Nat)
  <2>1. OpToRel(<, Nat) = R
    BY DEF OpToRel
  <2> QED
    BY <2>1, NatLessThanWellFounded
<1> HIDE DEF T, R
<1>3. PICK b \in T : \A other \in T : <<other, b>> \notin R
  BY <1>1, <1>2, WFMin, Zenon
<1>4. b \in BitSets /\ NumFields <= b
  BY DEF T
<1>5. ASSUME NEW other \in BitSets, NumFields <= other
      PROVE  b <= other
  <2>1. other \in T /\ other \in Nat /\ b \in Nat
    BY <1>1, <1>5 DEF T
  <2>2. ~(other < b)
    BY <1>3, <2>1 DEF R
  <2> QED
    BY <2>1, <2>2
<1>6. \E narrowest \in BitSets :
        NumFields <= narrowest
        /\ \A other \in BitSets : NumFields <= other => narrowest <= other
  BY <1>4, <1>5
<1> QED
  BY <1>6, BuilderAssumption DEF BitSetBits

(* is_init: the bit set equals its mask when every field is marked, and only *)
(* then, also where the fields fill the bit set.                             *)
LEMMA MaskIsAll ==
  ASSUME marked \subseteq Field
  PROVE  IsInit <=> marked = Field
<1>1. FullMask = 0 .. NumFields - 1
  BY WideEnough, FieldFacts DEF FullMask, Below
<1>2. \A b : b \in 0 .. NumFields - 1 => b + 1 \in Field /\ b = (b + 1) - 1
  BY FieldFacts DEF Field
<1>3. \A f \in Field : f - 1 \in 0 .. NumFields - 1
  BY FieldFacts DEF Field
<1>4. ASSUME marked = Field PROVE IsInit
  BY <1>1, <1>2, <1>3, <1>4 DEF IsInit
<1>5. ASSUME IsInit, NEW f \in Field PROVE f \in marked
  <2>1. f - 1 \in {g - 1 : g \in marked}
    BY <1>1, <1>3, <1>5 DEF IsInit
  <2>2. PICK g \in marked : f - 1 = g - 1
    BY <2>1
  <2>3. f \in Nat /\ g \in Nat
    BY FieldFacts
  <2> QED
    BY <2>2, <2>3
<1> QED
  BY <1>4, <1>5

LEMMA WrittenCells ==
  ASSUME TypeOK, NEW C \in SUBSET Cell
  PROVE  /\ Written(C) \in [Cell -> {"uninit", "live", "dropped", "corrupt"}]
         /\ \A c \in C : Written(C)[c] = "live"
         /\ \A c \in Cell \ C : Written(C)[c] = mem[c]
BY DEF TypeOK, Written

LEMMA DroppedCellsResult ==
  ASSUME TypeOK, NEW C \in SUBSET Cell
  PROVE  /\ DroppedCells(C) \in [Cell -> {"uninit", "live", "dropped", "corrupt"}]
         /\ \A c \in C : DroppedCells(C)[c] # "live"
         /\ \A c \in Cell \ C : DroppedCells(C)[c] = mem[c]
BY DEF TypeOK, DroppedCells

LEMMA InitInvariant == Init => IInv
BY FieldFacts, CellsOfField
DEF Init, IInv, TypeOK, ReadInv, MarkedAreLive, LiveAreKnown, NoLiveCell

(* The whole of field f is written, and the field marked or not. *)
LEMMA FieldWritten ==
  ASSUME IInv, ~Reinit, NEW f \in Field, Write(f) \/ WriteRaw(f)
  PROVE  IInv'
<1>1. /\ phase = "open" /\ busy = 0 /\ f \notin marked
      /\ UNCHANGED <<phase, busy, done, cursor>>
      /\ mem' = Written(Cells(f))
      /\ marked' \in {marked, marked \cup {f}}
      /\ raw' \in SUBSET Field
      /\ f \in marked' \/ f \in raw'
      /\ \A g \in Field \ {f} : g \in raw' <=> g \in raw
  BY DEF Write, WriteRaw, Idle, MayInit, IInv, TypeOK
<1>2. /\ mem' \in [Cell -> {"uninit", "live", "dropped", "corrupt"}]
      /\ \A c \in Cells(f) : mem'[c] = "live"
      /\ \A g \in Field \ {f} : \A c \in Cells(g) : mem'[c] = mem[c]
  BY <1>1, WrittenCells, CellsOfField DEF IInv
<1>3. TypeOK'
  BY <1>1, <1>2 DEF IInv, TypeOK
<1>4. ReadInv'
  BY <1>1 DEF ReadInv
<1>5. MarkedAreLive'
  BY <1>1, <1>2 DEF IInv, TypeOK, MarkedAreLive, LiveCells
<1>6. LiveAreKnown'
  BY <1>1, <1>2, FieldFacts DEF IInv, TypeOK, LiveAreKnown, NoLiveCell
<1>7. QED
  BY <1>1, <1>3, <1>4, <1>5, <1>6 DEF IInv

LEMMA FieldAssumed ==
  ASSUME IInv, NEW f \in Field, AssumeInit(f)
  PROVE  IInv'
<1>1. /\ phase = "open" /\ busy = 0 /\ LiveCells(f)
      /\ marked' = marked \cup {f} /\ raw' = raw \ {f}
      /\ UNCHANGED <<phase, mem, busy, done, cursor>>
  BY DEF AssumeInit, Idle, LiveCells
<1>2. TypeOK'
  BY <1>1 DEF IInv, TypeOK
<1>3. MarkedAreLive'
  BY <1>1 DEF IInv, TypeOK, MarkedAreLive, LiveCells
<1>4. LiveAreKnown'
  BY <1>1, FieldFacts DEF IInv, TypeOK, LiveAreKnown, NoLiveCell
<1>5. QED
  BY <1>1, <1>2, <1>3, <1>4 DEF IInv, ReadInv

LEMMA ReadBegun ==
  ASSUME IInv, ~Reinit, NEW f \in Field, BeginRead(f)
  PROVE  IInv'
<1>1. /\ phase = "open" /\ busy = 0 /\ f \notin marked
      /\ busy' = f /\ done' = 0
      /\ UNCHANGED <<phase, mem, marked, cursor, raw>>
  BY DEF BeginRead, Idle, MayInit
<1>2. TypeOK'
  BY <1>1, FieldFacts DEF IInv, TypeOK
<1>3. ReadInv'
  BY <1>1 DEF ReadInv
<1>4. MarkedAreLive'
  BY <1>1 DEF IInv, MarkedAreLive, LiveCells
<1>5. LiveAreKnown'
  <2> SUFFICES ASSUME NEW g \in Field \ raw
               PROVE  /\ g \notin marked /\ g # f => NoLiveCell(g)
                      /\ g = f => \A k \in 1 .. Parts[g] : mem[<<g, k>>] # "live"
    BY <1>1 DEF LiveAreKnown, NoLiveCell
  <2>1. g \notin marked => NoLiveCell(g)
    BY <1>1, FieldFacts DEF IInv, LiveAreKnown
  <2>2. QED
    BY <1>1, <2>1 DEF NoLiveCell, Cells
<1>6. QED
  BY <1>1, <1>2, <1>3, <1>4, <1>5 DEF IInv

LEMMA PartRead ==
  ASSUME IInv, ReadPart
  PROVE  IInv'
<1>1. /\ busy \in Field /\ busy \notin marked /\ phase = "open"
      /\ done \in Nat /\ done < Parts[busy] /\ Parts[busy] \in Nat
      /\ done' = done + 1
      /\ mem' = Written({<<busy, done + 1>>})
      /\ UNCHANGED <<phase, marked, busy, cursor, raw>>
  BY FieldFacts DEF ReadPart, IInv, TypeOK, ReadInv
<1>2. <<busy, done + 1>> \in Cells(busy)
  BY <1>1 DEF Cells
<1>3. /\ mem' \in [Cell -> {"uninit", "live", "dropped", "corrupt"}]
      /\ mem'[<<busy, done + 1>>] = "live"
      /\ \A g \in Field \ {busy} : \A c \in Cells(g) : mem'[c] = mem[c]
      /\ \A k \in 1 .. Parts[busy] : k # done + 1 => mem'[<<busy, k>>] = mem[<<busy, k>>]
  <2>1. {<<busy, done + 1>>} \in SUBSET Cell
    BY <1>1, <1>2, CellsOfField
  <2>2. \A k \in 1 .. Parts[busy] : <<busy, k>> \in Cell
    BY <1>1, CellsOfField DEF Cells
  <2>3. QED
    BY <1>1, <2>1, <2>2, WrittenCells, CellsOfField DEF IInv
<1>4. TypeOK'
  <2>1. done' \in Nat /\ done' <= Parts[busy]
    BY <1>1
  <2>2. QED
    BY <1>1, <1>3, <2>1 DEF IInv, TypeOK
<1>5. ReadInv'
  <2>0. \A k \in 1 .. done : mem[<<busy, k>>] = "live"
    BY <1>1, FieldFacts DEF IInv, ReadInv
  <2>1. ASSUME NEW k \in 1 .. done + 1
        PROVE  mem'[<<busy, k>>] = "live"
    <3>1. CASE k = done + 1
      BY <1>3, <3>1
    <3>2. CASE k # done + 1
      <4>1. k \in 1 .. done /\ k \in 1 .. Parts[busy]
        BY <1>1, <3>2
      <4>2. mem[<<busy, k>>] = "live"
        BY <2>0, <4>1
      <4>3. QED
        BY <1>3, <3>2, <4>1, <4>2
    <3>3. QED
      BY <3>1, <3>2
  <2>2. QED
    BY <1>1, <2>1 DEF ReadInv
<1>6. MarkedAreLive'
  <2>1. ASSUME NEW f \in marked
        PROVE  LiveCells(f)'
    <3>1. f \in Field \ {busy} /\ LiveCells(f)
      BY <1>1 DEF IInv, TypeOK, MarkedAreLive
    <3>2. QED
      BY <1>3, <3>1 DEF LiveCells
  <2>2. QED
    BY <1>1, <2>1 DEF MarkedAreLive
<1>7. LiveAreKnown'
  <2>1. ASSUME NEW f \in Field \ raw, f \notin marked, f # busy
        PROVE  NoLiveCell(f)'
    <3>1. NoLiveCell(f) /\ f \in Field \ {busy}
      BY <1>1, <2>1 DEF IInv, LiveAreKnown
    <3>2. QED
      BY <1>3, <3>1 DEF NoLiveCell
  <2>2. ASSUME NEW f \in Field \ raw, f = busy, NEW k \in done + 2 .. Parts[f]
        PROVE  mem'[<<f, k>>] # "live"
    <3>1. k \in done + 1 .. Parts[f] /\ k # done + 1 /\ k \in 1 .. Parts[busy]
      BY <1>1, <2>2
    <3>2. mem[<<f, k>>] # "live"
      BY <2>2, <3>1 DEF IInv, LiveAreKnown
    <3>3. QED
      BY <1>3, <2>2, <3>1, <3>2
  <2>3. done + 1 + 1 = done + 2
    BY <1>1
  <2>4. QED
    BY <1>1, <2>1, <2>2, <2>3 DEF LiveAreKnown
<1>8. QED
  BY <1>1, <1>4, <1>5, <1>6, <1>7 DEF IInv

LEMMA ReadEnded ==
  ASSUME IInv, EndRead
  PROVE  IInv'
<1>1. /\ busy \in Field /\ phase = "open" /\ done = Parts[busy]
      /\ marked' = marked \cup {busy} /\ raw' = raw \ {busy} /\ busy' = 0
      /\ UNCHANGED <<phase, mem, done, cursor>>
  BY DEF EndRead, IInv, TypeOK, ReadInv
<1>2. LiveCells(busy)
  <2>1. \A k \in 1 .. Parts[busy] : mem[<<busy, k>>] = "live"
    BY <1>1, FieldFacts DEF IInv, ReadInv
  <2>2. QED
    BY <2>1 DEF LiveCells, Cells
<1>3. TypeOK'
  BY <1>1 DEF IInv, TypeOK
<1>4. MarkedAreLive'
  BY <1>1, <1>2 DEF IInv, TypeOK, MarkedAreLive, LiveCells
<1>5. LiveAreKnown'
  BY <1>1, FieldFacts DEF IInv, TypeOK, LiveAreKnown, NoLiveCell
<1>6. QED
  BY <1>1, <1>3, <1>4, <1>5 DEF IInv, ReadInv

LEMMA ReadFailed ==
  ASSUME IInv, FailRead
  PROVE  IInv'
<1> DEFINE C == {<<busy, k>> : k \in 1 .. done}
<1>1. /\ busy \in Field /\ busy \notin marked /\ phase = "open"
      /\ done \in Nat /\ done < Parts[busy] /\ Parts[busy] \in Nat
      /\ busy' = 0
      /\ mem' = DroppedCells(C)
      /\ UNCHANGED <<phase, marked, done, cursor, raw>>
  BY FieldFacts DEF FailRead, IInv, TypeOK, ReadInv
<1>2. C \subseteq Cells(busy)
  BY <1>1 DEF Cells
<1>3. /\ mem' \in [Cell -> {"uninit", "live", "dropped", "corrupt"}]
      /\ \A c \in C : mem'[c] # "live"
      /\ \A c \in Cell \ C : mem'[c] = mem[c]
  <2>1. C \in SUBSET Cell
    BY <1>1, <1>2, CellsOfField
  <2> HIDE DEF C
  <2>2. QED
    BY <1>1, <2>1, DroppedCellsResult DEF IInv
<1>4. \A g \in Field \ {busy} : \A c \in Cells(g) : mem'[c] = mem[c]
  BY <1>1, <1>2, <1>3, CellsOfField
<1>5. busy \notin raw => \A c \in Cells(busy) : mem'[c] # "live"
  <2> SUFFICES ASSUME busy \notin raw, NEW k \in 1 .. Parts[busy]
               PROVE  mem'[<<busy, k>>] # "live"
    BY DEF Cells
  <2>1. CASE k <= done
    BY <1>1, <1>3, <2>1
  <2>2. CASE k > done
    <3>1. <<busy, k>> \in Cell \ C
      BY <1>1, <2>2, CellsOfField DEF Cells
    <3>2. mem[<<busy, k>>] # "live"
      BY <1>1, <2>2 DEF IInv, LiveAreKnown
    <3>3. QED
      BY <1>3, <3>1, <3>2
  <2>3. QED
    BY <1>1, <2>1, <2>2
<1> HIDE DEF C
<1>6. TypeOK'
  BY <1>1, <1>3 DEF IInv, TypeOK
<1>7. MarkedAreLive'
  BY <1>1, <1>4 DEF IInv, TypeOK, MarkedAreLive, LiveCells
<1>8. LiveAreKnown'
  BY <1>1, <1>4, <1>5, FieldFacts DEF IInv, LiveAreKnown, NoLiveCell
<1>9. QED
  BY <1>1, <1>6, <1>7, <1>8 DEF IInv, ReadInv

LEMMA FieldDropped ==
  ASSUME IInv, DropField
  PROVE  IInv'
<1>1. /\ phase = "dropping" /\ cursor \in Field /\ cursor' = cursor - 1 /\ busy = 0
      /\ mem' = IF cursor \in marked THEN DroppedCells(Cells(cursor)) ELSE mem
      /\ UNCHANGED <<phase, marked, busy, done, raw>>
  BY DEF DropField, IInv, TypeOK, ReadInv, Field
<1>2. /\ mem' \in [Cell -> {"uninit", "live", "dropped", "corrupt"}]
      /\ cursor \in marked => \A c \in Cells(cursor) : mem'[c] # "live"
      /\ \A g \in Field \ {cursor} : \A c \in Cells(g) : mem'[c] = mem[c]
      /\ cursor \notin marked => mem' = mem
  BY <1>1, DroppedCellsResult, CellsOfField DEF IInv, TypeOK
<1>3. TypeOK'
  BY <1>1, <1>2, FieldFacts DEF IInv, TypeOK
<1>4. MarkedAreLive'
  BY <1>1, <1>2, FieldFacts DEF IInv, TypeOK, MarkedAreLive, LiveCells
<1>5. LiveAreKnown'
  <2> SUFFICES ASSUME NEW g \in Field \ raw, g \notin marked \/ g > cursor - 1
               PROVE  \A c \in Cells(g) : mem'[c] # "live"
    BY <1>1, FieldFacts DEF LiveAreKnown, NoLiveCell
  <2>1. CASE g = cursor
    BY <1>1, <1>2, <2>1 DEF IInv, LiveAreKnown, NoLiveCell
  <2>2. CASE g # cursor
    BY <1>1, <1>2, <2>2, FieldFacts DEF IInv, LiveAreKnown, NoLiveCell
  <2>3. QED
    BY <2>1, <2>2
<1>6. QED
  BY <1>1, <1>3, <1>4, <1>5 DEF IInv, ReadInv

LEMMA BuilderEnds ==
  ASSUME IInv, BeginDrop \/ EndDrop \/ Finish
  PROVE  IInv'
<1>1. CASE BeginDrop
  BY <1>1, FieldFacts
  DEF BeginDrop, Idle, IInv, TypeOK, ReadInv, MarkedAreLive, LiveAreKnown, LiveCells, NoLiveCell
<1>2. CASE EndDrop
  BY <1>2, FieldFacts
  DEF EndDrop, IInv, TypeOK, ReadInv, MarkedAreLive, LiveAreKnown, LiveCells, NoLiveCell
<1>3. CASE Finish
  BY <1>3, FieldFacts, MaskIsAll
  DEF Finish, Idle, IInv, TypeOK, ReadInv, MarkedAreLive, LiveAreKnown, LiveCells, NoLiveCell
<1>4. QED
  BY <1>1, <1>2, <1>3

LEMMA NextInvariant ==
  ASSUME IInv, [Next]_vars, ~Reinit
  PROVE  IInv'
<1>1. CASE UNCHANGED vars
  BY <1>1
  DEF vars, IInv, TypeOK, ReadInv, MarkedAreLive, LiveAreKnown, LiveCells, NoLiveCell
<1>2. CASE Next
  BY <1>2, FieldWritten, FieldAssumed, ReadBegun, PartRead, ReadEnded, ReadFailed, FieldDropped,
     BuilderEnds
  DEF Next
<1>3. QED
  BY <1>1, <1>2

(* Marked fields are live and live fields are accounted for, if no marked  *)
(* field is initialised again: an inductive invariant.                     *)
THEOREM Invariant ==
  ASSUME ~Reinit
  PROVE  Spec => []IInv
<1>1. IInv /\ [Next]_vars => IInv'
  BY NextInvariant
<1>2. QED
  BY InitInvariant, <1>1, PTL DEF Spec

-----------------------------------------------------------------------------
(* The builder stays within its states, whatever the order of its calls. *)
THEOREM TypeCorrect ==
  ASSUME ~Reinit
  PROVE  Spec => []TypeOK
<1>1. IInv => TypeOK
  BY DEF IInv
<1>2. QED
  BY Invariant, <1>1, PTL

(* Drop only ever drops fields that are initialised, whatever calls came   *)
(* before it and wherever a read failed, for a caller that does not        *)
(* initialise a marked field again.                                        *)
THEOREM DropIsSound ==
  ASSUME ~Reinit
  PROVE  Spec => []DropsInitialized
<1>1. IInv => DropsInitialized
  BY DEF IInv, TypeOK, MarkedAreLive, LiveCells, DropsInitialized
<1>2. QED
  BY Invariant, <1>1, PTL

(* A builder that is dropped leaves nothing behind but what was written    *)
(* through uninit_<field>_mut and never announced.                         *)
THEOREM DropIsComplete ==
  ASSUME ~Reinit
  PROVE  Spec => []NothingLeaks
<1>1. IInv => NothingLeaks
  BY DEF IInv, LiveAreKnown, NoLiveCell, NothingLeaks
<1>2. QED
  BY Invariant, <1>1, PTL

(* What finish hands over is complete. *)
THEOREM FinishIsComplete ==
  ASSUME ~Reinit
  PROVE  Spec => []CompleteWhenFinished
<1>1. IInv => CompleteWhenFinished
  BY CellsOfField DEF IInv, MarkedAreLive, LiveCells, CompleteWhenFinished
<1>2. QED
  BY Invariant, <1>1, PTL
=============================================================================

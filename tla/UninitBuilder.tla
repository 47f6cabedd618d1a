---------------------------- MODULE UninitBuilder ----------------------------
(***************************************************************************)
(* The builder that #[derive(UninitBuilder)] generates                     *)
(* (wincode-derive/src/uninit_builder.rs): it borrows uninitialised memory *)
(* for a struct, notes in a bit set which fields have been initialised,    *)
(* and drops those when it is dropped before `finish`.  A field is made of *)
(* parts that own something and are initialised in order, as the read of a *)
(* nested struct or an inner builder does: a read that fails half-way      *)
(* drops the parts it had written itself.                                  *)
(***************************************************************************)
EXTENDS Integers

CONSTANTS
  NumFields,    (* the fields are 1 .. NumFields, in declaration order     *)
  Parts,        (* [1 .. NumFields -> how many parts the field has]        *)
  BitSets,      (* widths a bit set may have, {8, 16, 32, 64, 128}         *)
  Reinit        (* the caller may initialise a field that is marked        *)

Field == 1 .. NumFields

ASSUME BuilderAssumption ==
  /\ NumFields \in Nat \ {0}
  /\ Parts \in [Field -> Nat \ {0}]
  /\ Reinit \in BOOLEAN
  /\ BitSets \subseteq Nat /\ \E b \in BitSets : NumFields <= b

Cells(f) == {<<f, k>> : k \in 1 .. Parts[f]}
Cell == UNION {Cells(f) : f \in Field}

VARIABLES
  phase,        (* what has become of the builder                          *)
  mem,          (* [Cell -> state of the memory]                           *)
  marked,       (* init_set                                                *)
  busy,         (* the field being initialised by a read, or 0             *)
  done,         (* the parts of it already written                         *)
  cursor,       (* the next field Drop looks at                            *)
  raw           (* history: fields written through uninit_<field>_mut only *)

vars == <<phase, mem, marked, busy, done, cursor, raw>>

TypeOK ==
  /\ phase \in {"open", "dropping", "dropped", "finished"}
  /\ mem \in [Cell -> {"uninit", "live", "dropped", "corrupt"}]
  /\ marked \subseteq Field
  /\ busy \in Field \cup {0}
  /\ done \in Nat /\ (busy # 0 => done <= Parts[busy])
  /\ cursor \in 0 .. NumFields
  /\ raw \subseteq Field

(* from_maybe_uninit_mut *)
Init ==
  /\ phase = "open"
  /\ mem = [c \in Cell |-> "uninit"]
  /\ marked = {}
  /\ busy = 0 /\ done = 0
  /\ cursor = 0
  /\ raw = {}

-----------------------------------------------------------------------------
Written(C) == [c \in Cell |-> IF c \in C THEN "live" ELSE mem[c]]

(* drop_in_place: sound for a live value only. *)
DroppedCells(C) ==
  [c \in Cell |-> IF c \in C
                  THEN IF mem[c] = "live" THEN "dropped" ELSE "corrupt"
                  ELSE mem[c]]

Idle == phase = "open" /\ busy = 0

MayInit(f) == Reinit \/ f \notin marked

(* write_<field>: MaybeUninit::write does not look at the old value. *)
Write(f) ==
  /\ Idle /\ MayInit(f)
  /\ mem' = Written(Cells(f))
  /\ marked' = marked \cup {f}
  /\ raw' = raw \ {f}
  /\ UNCHANGED <<phase, busy, done, cursor>>

(* uninit_<field>_mut().write(..): the builder does not know. *)
WriteRaw(f) ==
  /\ Idle /\ MayInit(f)
  /\ mem' = Written(Cells(f))
  /\ raw' = IF f \in marked THEN raw ELSE raw \cup {f}
  /\ UNCHANGED <<phase, marked, busy, done, cursor>>

(* assume_init_<field>, as its contract demands after a full write. *)
AssumeInit(f) ==
  /\ Idle
  /\ \A c \in Cells(f) : mem[c] = "live"
  /\ marked' = marked \cup {f}
  /\ raw' = raw \ {f}
  /\ UNCHANGED <<phase, mem, busy, done, cursor>>

(* Mutant: the bit is set before the read. *)
BeginReadMarked(f) ==
  /\ Idle /\ MayInit(f)
  /\ busy' = f /\ done' = 0
  /\ marked' = marked \cup {f}
  /\ UNCHANGED <<phase, mem, cursor, raw>>

(* read_<field>, init_<field>_with *)
BeginRead(f) ==
  /\ Idle /\ MayInit(f)
  /\ busy' = f /\ done' = 0
  /\ UNCHANGED <<phase, mem, marked, cursor, raw>>

ReadPart ==
  /\ busy # 0 /\ done < Parts[busy]
  /\ mem' = Written({<<busy, done + 1>>})
  /\ done' = done + 1
  /\ UNCHANGED <<phase, marked, busy, cursor, raw>>

(* Mutant: set_index_bit is missing. *)
EndReadUnmarked ==
  /\ busy # 0 /\ done = Parts[busy]
  /\ raw' = raw \ {busy}
  /\ busy' = 0
  /\ UNCHANGED <<phase, mem, marked, done, cursor>>

(* Ok: the bit of the field is set. *)
EndRead ==
  /\ busy # 0 /\ done = Parts[busy]
  /\ marked' = marked \cup {busy}
  /\ raw' = raw \ {busy}
  /\ busy' = 0
  /\ UNCHANGED <<phase, mem, done, cursor>>

(* Err: the read's own guard drops what it wrote; the bit stays as it was. *)
FailRead ==
  /\ busy # 0 /\ done < Parts[busy]
  /\ mem' = DroppedCells({<<busy, k>> : k \in 1 .. done})
  /\ busy' = 0
  /\ UNCHANGED <<phase, marked, done, cursor, raw>>

(* Mutant: the loop over the fields starts behind the last one. *)
BeginDropBehind ==
  /\ Idle
  /\ phase' = "dropping"
  /\ cursor' = NumFields + 1
  /\ UNCHANGED <<mem, marked, busy, done, raw>>

(* The builder goes out of scope: an early return, or a panic. *)
BeginDrop ==
  /\ Idle
  /\ phase' = "dropping"
  /\ cursor' = NumFields
  /\ UNCHANGED <<mem, marked, busy, done, raw>>

(* Drop: the marked fields, last declared first. *)
DropField ==
  /\ phase = "dropping" /\ cursor > 0
  /\ mem' = IF cursor \in marked THEN DroppedCells(Cells(cursor)) ELSE mem
  /\ cursor' = cursor - 1
  /\ UNCHANGED <<phase, marked, busy, done, raw>>

EndDrop ==
  /\ phase = "dropping" /\ cursor = 0
  /\ phase' = "dropped"
  /\ UNCHANGED <<mem, marked, busy, done, cursor, raw>>

(* The bit set is the narrowest that has a bit for every field. *)
BitSetBits ==
  CHOOSE b \in BitSets :
    NumFields <= b /\ \A other \in BitSets : NumFields <= other => b <= other

(* The bits of (1 << n) - 1; a shift by the whole width is one by nothing. *)
Below(n) == 0 .. (IF n < BitSetBits THEN n ELSE n - BitSetBits) - 1

(* Mutant: a bit set without a spare bit is not treated apart. *)
FullMaskShifted == Below(NumFields)

(* is_fully_init_mask *)
FullMask == IF NumFields = BitSetBits THEN 0 .. BitSetBits - 1 ELSE Below(NumFields)

IsInit == {f - 1 : f \in marked} = FullMask

(* finish and into_assume_init_mut, by a caller that has asked is_init. *)
Finish ==
  /\ Idle /\ IsInit
  /\ phase' = "finished"
  /\ UNCHANGED <<mem, marked, busy, done, cursor, raw>>

Next ==
  \/ \E f \in Field : Write(f) \/ WriteRaw(f) \/ AssumeInit(f) \/ BeginRead(f)
  \/ ReadPart \/ EndRead \/ FailRead
  \/ BeginDrop \/ DropField \/ EndDrop \/ Finish

Spec == Init /\ [][Next]_vars

-----------------------------------------------------------------------------
(* Properties.                                                             *)

(* "We are dropping an initialized field": whenever Drop comes to a marked *)
(* field, all of it is live.  Nothing is dropped that a failed read has    *)
(* dropped already, or that was never there.                               *)
DropsInitialized ==
  phase = "dropping" /\ cursor \in marked =>
    \A c \in Cells(cursor) : mem[c] = "live"

(* A builder dropped on error or panic leaves nothing behind, except what  *)
(* was written behind its back and never marked.                           *)
NothingLeaks ==
  phase = "dropped" => \A f \in Field \ raw : \A c \in Cells(f) : mem[c] # "live"

(* A caller that hands the value over because is_init said so hands over a *)
(* complete one.                                                           *)
CompleteWhenFinished ==
  phase = "finished" => \A c \in Cell : mem[c] = "live"
=============================================================================

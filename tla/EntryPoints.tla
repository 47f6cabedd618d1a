---------------------------- MODULE EntryPoints ----------------------------
(***************************************************************************)
(* The entry points of config/serde.rs on one and the same input, under a  *)
(* size limit, with the adapters of schema/adapter.rs in the schema.       *)
(*   "slice"    deserialize, deserialize_into: the limit shortens &[u8]    *)
(*   "mut"      deserialize_mut: the same over &mut [u8]                   *)
(*   "exact"    deserialize_exact: and nothing may be left of the input    *)
(*   "generic"  deserialize_from: a LimitReader over a slice               *)
(*   "stream"   deserialize_from: a LimitReader over a std::io::Read       *)
(* The value is a struct.  A field is a sequence of requests to the reader *)
(* (a static field makes one, a vector one for its length and one for its  *)
(* elements); bytes are their offsets, a decoded field is a range of them. *)
(***************************************************************************)
EXTENDS Naturals, Sequences

CONSTANTS
  Schemas,      (* sequences of [kind, reads]; kind is "plain", "tail" for *)
                (* DefaultOnEmptyRead, "discard" for Discard, DiscardSeq   *)
  MaxGiven,     (* bound: bytes of input                                   *)
  MaxLimit      (* bound: the size limit; beyond MaxGiven it is like none  *)

Calls == <<"slice", "mut", "exact", "generic", "stream">>
Kinds == {"plain", "tail", "discard"}

ASSUME EntryAssumption ==
  /\ \A s \in Schemas : s \in Seq([kind : Kinds, reads : Seq(Nat \ {0}) \ {<<>>}])
  /\ MaxGiven \in Nat /\ MaxLimit \in Nat

VARIABLES
  schema,       (* the fields of the value                                 *)
  given,        (* bytes of input                                          *)
  limit,        (* DESERIALIZATION_SIZE_LIMIT                              *)
  call,         (* the entry point that runs, by its place in Calls        *)
  step,         (* the next request of the current field                   *)
  start,        (* where the current field began                           *)
  pos,          (* bytes consumed                                          *)
  remaining,    (* LimitReader::remaining                                  *)
  got,          (* the fields decoded so far                               *)
  results       (* the outcomes of the calls that are over                 *)

vars == <<schema, given, limit, call, step, start, pos, remaining, got, results>>
inputs == <<schema, given, limit>>

Default == <<>>
Smaller(a, b) == IF a < b THEN a ELSE b

Entry == Calls[call]
Running == call <= Len(Calls)
Field == schema[Len(got) + 1]

Init ==
  /\ schema \in Schemas /\ given \in 0 .. MaxGiven /\ limit \in 0 .. MaxLimit
  /\ call = 1 /\ step = 1 /\ start = 0 /\ pos = 0 /\ remaining = limit
  /\ got = <<>> /\ results = <<>>

(* maybe_size_limit!: how much of the input the reader is given *)
Visible == IF Entry \in {"generic", "stream"} THEN given ELSE Smaller(limit, given)

(* Mutant: the last byte of the limit cannot be used. *)
AllowedBelow(n) == Entry \in {"generic", "stream"} => n < remaining

(* Whether LimitReader::reserve_limit lets a request of n bytes through *)
Allowed(n) == Entry \in {"generic", "stream"} => n <= remaining
Charge(n) == IF Entry \in {"generic", "stream"} THEN remaining - n ELSE remaining

(* The request succeeds. *)
Take ==
  /\ Running /\ Len(got) < Len(schema)
  /\ LET n == Field.reads[step] IN
       /\ Allowed(n) /\ pos + n <= Visible
       /\ pos' = pos + n
       /\ remaining' = Charge(n)
  /\ IF step < Len(Field.reads)
     THEN /\ step' = step + 1
          /\ UNCHANGED <<got, start>>
     ELSE /\ step' = 1
          /\ got' = Append(got, IF Field.kind = "discard" THEN Default ELSE <<start, pos'>>)
          /\ start' = pos'
  /\ UNCHANGED <<inputs, call, results>>

(* What a failed request leaves behind: a mutable slice is gone, a stream *)
(* has moved by an unknown amount, other readers are as before.           *)
After(passed) ==
  CASE Entry = "mut"               -> {Visible}
    [] Entry = "stream" /\ passed  -> pos .. given
    [] OTHER                       -> {pos}

(* The call returns; the next one starts on the input from its beginning. *)
Done(outcome) ==
  /\ results' = Append(results, [outcome |-> outcome, got |-> got])
  /\ call' = call + 1
  /\ step' = 1 /\ start' = 0 /\ pos' = 0 /\ remaining' = limit /\ got' = <<>>

(* Mutant: what the limit cut off is an error. *)
FallsBackAtEnd == Field.kind = "tail" /\ Allowed(Field.reads[step])

(* Mutant: only the last field may be missing. *)
FallsBackLast == Field.kind = "tail" /\ Len(got) + 1 = Len(schema)

(* Whether the field's schema turns ReadSizeLimit into a default *)
FallsBack == Field.kind = "tail"

(* The request fails with ReadSizeLimit: the limit is used up (nothing is *)
(* charged), or the input is (the charge stays).                          *)
Fails ==
  /\ Running /\ Len(got) < Len(schema)
  /\ LET n == Field.reads[step] IN
       /\ ~(Allowed(n) /\ pos + n <= Visible)
       /\ IF FallsBack
          THEN /\ pos' \in After(Allowed(n))
               /\ remaining' = IF Allowed(n) THEN Charge(n) ELSE remaining
               /\ got' = Append(got, Default)
               /\ step' = 1 /\ start' = pos'
               /\ UNCHANGED <<call, results>>
          ELSE Done("size_limit")
  /\ UNCHANGED inputs

(* Mutant: what is left of the shortened input. *)
RestWithinLimit == Visible - pos

(* What deserialize_exact finds behind the value *)
Rest == given - pos

Return ==
  /\ Running /\ Len(got) = Len(schema)
  /\ Done(IF Entry = "exact" /\ Rest > 0 THEN "trailing_bytes" ELSE "ok")
  /\ UNCHANGED inputs

Next == Take \/ Fails \/ Return

Spec == Init /\ [][Next]_vars

-----------------------------------------------------------------------------
(* The sums of the first k members of a sequence of numbers, for each k *)
Sums(seq) ==
  LET sum[k \in 0 .. Len(seq)] == IF k = 0 THEN 0 ELSE sum[k - 1] + seq[k]
  IN sum

Size(i) == Sums(schema[i].reads)[Len(schema[i].reads)]
EndOf(i) == Sums([k \in 1 .. Len(schema) |-> Size(k)])[i]
Total == EndOf(Len(schema))
Tolerant == \E i \in DOMAIN schema : schema[i].kind = "tail"
Result(c) == results[CHOOSE i \in DOMAIN Calls : Calls[i] = c]
Over == ~Running

(* The value of the first n fields of a full encoding, the rest defaults. *)
Legacy(n) ==
  [i \in DOMAIN schema |->
    IF i <= n /\ schema[i].kind # "discard" THEN <<EndOf(i - 1), EndOf(i)>> ELSE Default]

(* The limit by shortening the input and the limit by counting reservations *)
(* accept the same inputs and give the same value (the comment on           *)
(* slice_and_generic_paths_agree_at_every_limit).                           *)
PathsAgree ==
  (Over /\ ~Tolerant) =>
    \A c \in {"mut", "generic", "stream"} :
      /\ Result(c).outcome = Result("slice").outcome
      /\ Result(c).outcome = "ok" => Result(c).got = Result("slice").got

(* An encoding that an older schema wrote, without the trailing fields that *)
(* were added later, decodes to its fields and defaults, by every call; a   *)
(* discarded field does not shift the ones behind it.                       *)
LegacyDecodes ==
  \A n \in DOMAIN schema :
    (/\ Over /\ given = EndOf(n) /\ limit >= given
     /\ \A i \in n + 1 .. Len(schema) : schema[i].kind = "tail")
      => \A i \in DOMAIN Calls : results[i] = [outcome |-> "ok", got |-> Legacy(n)]

(* Where the limit or the end of the input cuts a value, within a field or  *)
(* between two: the fields before are right and the cut field is an error,  *)
(* or its default if it may be missing, however much of it was read; there  *)
(* is no error if the fields behind may be missing too (the warnings of     *)
(* DefaultOnEmptyRead in adapter.rs leave the fields behind it open).       *)
CutFieldIsDefault ==
  \A n \in 0 .. Len(schema) - 1 :
    (Over /\ EndOf(n) <= Smaller(limit, given) /\ Smaller(limit, given) < EndOf(n + 1)) =>
      \A i \in DOMAIN Calls :
        LET r == results[i] IN
        /\ Len(r.got) >= n /\ \A k \in 1 .. n : r.got[k] = Legacy(n)[k]
        /\ IF schema[n + 1].kind = "tail" THEN Len(r.got) > n /\ r.got[n + 1] = Default
           ELSE r.outcome = "size_limit" /\ Len(r.got) = n
        /\ (\A k \in n + 1 .. Len(schema) : schema[k].kind = "tail") => r.outcome # "size_limit"

(* deserialize_exact accepts an input only if the value, with the limit,    *)
(* accounts for every byte of it, those behind the limit included.          *)
ExactIsWhole ==
  (Over /\ Result("exact").outcome = "ok") =>
    /\ given <= limit
    /\ ~Tolerant => given = Total
=============================================================================

---------------------------- MODULE SerialOutput ----------------------------
(***************************************************************************)
(* What serialize_into promises (config/serde.rs): the output only grows,  *)
(* what it holds is at every moment a prefix of the encoding, also when    *)
(* the call fails, and when it returns Ok it holds all of it.              *)
(***************************************************************************)
EXTENDS SequencesExt

VARIABLES
  message,      (* the encoding of the value                               *)
  sent,         (* what the output holds                                   *)
  mode          (* "run", then "ok" or "failed"                            *)

vars == <<message, sent, mode>>

Init == sent = <<>> /\ mode = "run"

(* The output now holds a longer prefix. *)
Send ==
  /\ mode = "run"
  /\ IsPrefix(sent, sent') /\ IsPrefix(sent', message)
  /\ UNCHANGED <<message, mode>>

(* The call fails, perhaps after it wrote a part of what it was writing. *)
Fail ==
  /\ mode = "run" /\ mode' = "failed"
  /\ IsPrefix(sent, sent') /\ IsPrefix(sent', message)
  /\ UNCHANGED message

Finish ==
  /\ mode = "run" /\ mode' = "ok"
  /\ sent = message
  /\ UNCHANGED <<message, sent>>

Next == Send \/ Fail \/ Finish

Spec == Init /\ [][Next]_vars
=============================================================================

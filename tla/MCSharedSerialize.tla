-------------------------- MODULE MCSharedSerialize --------------------------
(* Two threads serialize a value that reaches a mutex twice and an RwLock  *)
(* in between, while a third changes the fields twice.                     *)
EXTENDS SharedSerialize

MCFields == <<"m", "r", "m">>
=============================================================================

--------------------------- MODULE MCEntryPoints ---------------------------
(* Structs of up to four fields. *)
EXTENDS EntryPoints

Plain(reads) == [kind |-> "plain", reads |-> reads]
OrDefault(reads) == [kind |-> "tail", reads |-> reads]
Discarded(reads) == [kind |-> "discard", reads |-> reads]

MCSchemas == {
  <<Plain(<<2>>), Plain(<<1, 3>>)>>,
  <<Plain(<<1, 2>>), Discarded(<<1, 2>>), Plain(<<1>>)>>,
  <<Plain(<<2>>), OrDefault(<<3>>), OrDefault(<<1>>)>>,
  <<Plain(<<1>>), Discarded(<<1>>), OrDefault(<<1, 2>>), OrDefault(<<2>>)>>,
  <<OrDefault(<<1, 1>>), Plain(<<1>>)>>}
=============================================================================

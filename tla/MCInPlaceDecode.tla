--------------------------- MODULE MCInPlaceDecode --------------------------
(***************************************************************************)
(* Five types, each a tree of places, that between them nest every kind    *)
(* of frame in another one.                                                *)
(*   record:  struct { name: String, items: Vec<(u32, String)>,            *)
(*                     tail: Box<Option<String>> }                         *)
(*   map:     HashMap<String, Box<String>>, three entries read             *)
(*   array:   [Box<Vec<u8>>; 2]                                            *)
(*   pending: Option<BTreeSet<(String, u32)>>, two elements read           *)
(*   empty:   (Vec<String>, String), the Vec has length 0                  *)
(***************************************************************************)
EXTENDS InPlaceDecode, FiniteSetsExt

MCKids ==
  [ record  |-> <<"name", "items", "tail">>,
    items   |-> <<"item1", "item2">>,
    item1   |-> <<"id1", "text1">>,
    item2   |-> <<"id2", "text2">>,
    tail    |-> <<"opt">>,
    opt     |-> <<"some">>,
    map     |-> <<"k1", "v1", "k2", "v2", "k3", "v3">>,
    v1      |-> <<"s1">>, v2 |-> <<"s2">>, v3 |-> <<"s3">>,
    array   |-> <<"b1", "b2">>,
    b1      |-> <<"c1">>, b2 |-> <<"c2">>,
    c1      |-> <<"u1">>, c2 |-> <<"u2">>,
    pending |-> <<"elems">>,
    elems   |-> <<"e1", "e2">>,
    e1      |-> <<"p1", "q1">>, e2 |-> <<"p2", "q2">>,
    empty   |-> <<"none", "last">>,
    none    |-> <<>> ]

MCOwning ==
  {"name", "text1", "text2", "some", "k1", "k2", "k3", "s1", "s2", "s3",
   "p1", "p2", "last"}

MCLeaves == MCOwning \cup {"id1", "id2", "u1", "u2", "q1", "q2"}

MCNode == DOMAIN MCKids \cup MCLeaves

MCRoots == {"record", "map", "array", "pending", "empty"}

MCKidsOf == [n \in MCNode |-> IF n \in MCLeaves THEN <<>> ELSE MCKids[n]]

MCHeight[n \in MCNode] ==
  IF MCKidsOf[n] = <<>> THEN 0
  ELSE 1 + Max({MCHeight[MCKidsOf[n][i]] : i \in DOMAIN MCKidsOf[n]})

MCKind == [n \in MCNode |->
  CASE n \in MCLeaves -> "leaf"
    [] n \in {"record", "item1", "item2", "e1", "e2", "empty"} -> "struct"
    [] n \in {"items", "none", "c1", "c2"} -> "vec"
    [] n \in {"tail", "v1", "v2", "v3", "b1", "b2"} -> "box"
    [] n \in {"opt", "pending"} -> "enum"
    [] n = "map" -> "map"
    [] n = "elems" -> "set"
    [] n = "array" -> "array"]
=============================================================================

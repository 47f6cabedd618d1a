-------------------------- MODULE MCEncodeWindows --------------------------
(* Small values for EncodeWindows. *)
EXTENDS EncodeWindows

(* "record"  struct { a: String-like, p: Fixed, b: Option<u8> }, where
             "p" is struct { u8, Result<u8, u8> } of static size
   "vec"     Vec of two static pairs; "list" Vec of two Options, dynamic *)
MCNode == {"record", "a", "p", "p1", "pr", "pr1", "b", "b1",
           "vec", "x", "x1", "x2", "y", "y1", "y2", "holder", "list", "o", "o1", "q"}
MCRoots == {"record", "holder", "list"}
MCKids == [n \in MCNode |->
  CASE n = "record" -> <<"a", "p", "b">>
    [] n = "p"      -> <<"p1", "pr">>
    [] n = "pr"     -> <<"pr1">>
    [] n = "b"      -> <<"b1">>
    [] n = "holder" -> <<"vec", "q">>
    [] n = "vec"    -> <<"x", "y">>
    [] n = "x"      -> <<"x1", "x2">>
    [] n = "y"      -> <<"y1", "y2">>
    [] n = "list"   -> <<"o", "p">>
    [] n = "o"      -> <<"o1">>
    [] OTHER        -> <<>>]
MCHeight[n \in MCNode] ==
  Max({0} \cup {MCHeight[MCKids[n][k]] + Len(MCKids[MCKids[n][k]]) : k \in DOMAIN MCKids[n]})
MCOwn == [n \in MCNode |-> IF n \in {"record", "p", "x", "y", "holder"} THEN 0
                           ELSE IF n = "a" THEN 2 ELSE 1]
MCStatic == {"p", "p1", "pr", "pr1", "x", "x1", "x2", "y", "y1", "y2", "q", "o1", "b1"}
MCOpens == {"p", "vec", "x", "y"}
MCElem == [n \in {"vec", "list"} |-> IF n = "vec" THEN 2 ELSE 0]
=============================================================================

--------------------------- MODULE MCIndexPipeline ---------------------------
(* Instances of IndexPipeline for TLC. *)
EXTENDS IndexPipeline

Sym(n, b) == [name |-> n, body |-> b]

\* v1 -> v2 changes one symbol and keeps one; v3 has a name twice and one name less.
MCParse ==
  [v \in Versions |->
     CASE v = "v1" -> <<Sym("a", 1), Sym("b", 1)>>
       [] v = "v2" -> <<Sym("a", 2), Sym("b", 1)>>
       [] v = "v3" -> <<Sym("b", 2), Sym("b", 1)>>
       [] OTHER    -> <<>>]
=============================================================================

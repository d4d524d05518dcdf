---------------------------- MODULE MCReviewQueue ----------------------------
(* Instances of ReviewQueue for TLC. *)
EXTENDS ReviewQueue

\* Commits a1, a2, a3 belong to one installation, b1, b2 to another.
MCGroup == [k \in Keys |-> IF k \in {"a1", "a2", "a3"} THEN "a" ELSE "b"]
=============================================================================

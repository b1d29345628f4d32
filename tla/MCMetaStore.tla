---------------------------- MODULE MCMetaStore ----------------------------
(* Two directories, one with two files and one with one. *)
EXTENDS MetaStore
CONSTANTS c1, c2, d1, d2, a, b
Kinds == [c \in {c1, c2} |-> IF c = c1 THEN {"rename", "delete"} ELSE {"rename", "set"}]
One   == [c \in {c1, c2} |-> IF c = c1 THEN {"set", "rename", "delete"} ELSE {}]
Paths == {<<d1, a>>, <<d1, b>>, <<d2, a>>}
=============================================================================

--------------------------- MODULE MCTableContents ---------------------------
(***************************************************************************)
(* TableContents on two nodes, with two partitions: one declaration per    *)
(* partition, and one with rows in both.                                   *)
(***************************************************************************)
EXTENDS TableContents

CONSTANTS v, w

MCRows == {v, w}

MCDeclarations == {[p \in {1, 2} |-> IF p = 1 THEN v ELSE NoRows],
                   [p \in {1, 2} |-> IF p = 1 THEN NoRows ELSE w],
                   [p \in {1, 2} |-> IF p = 1 THEN w ELSE v]}
=============================================================================

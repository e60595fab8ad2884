-------------------------- MODULE DeclaredContents --------------------------
(***************************************************************************)
(* What table_contents promises.  A write changes the rows of the table    *)
(* only partition by partition, each from what it held to what is          *)
(* declared, on any number of replicas at once.  What Terraform's state    *)
(* says the table holds is what every node was seen to hold since the      *)
(* operation began, or that the nodes differ.                              *)
(***************************************************************************)
EXTENDS Naturals

CONSTANTS Nodes, Partitions,
          NoTable,  \* the table is missing on the node
          Unseen,   \* the node was not looked at yet
          Differ,   \* the nodes do not agree
          Unknown   \* nothing is said of the table

VARIABLES rows,     \* the rows each node holds, by partition
          goal,     \* the rows declared
          seen,     \* what each node was seen to hold
          claim,    \* what the state says the table holds
          others    \* statements of other clients so far

vars == <<rows, goal, seen, claim, others>>

Init ==
    /\ seen = [n \in Nodes |-> Unseen]
    /\ claim = Unknown
    /\ others = 0

Start ==
    /\ seen' = [n \in Nodes |-> Unseen]
    /\ UNCHANGED <<rows, claim, others>>

Swap ==
    \E p \in Partitions, written \in SUBSET Nodes :
        /\ rows' = [n \in Nodes |-> IF n \in written /\ rows[n] # NoTable
                                    THEN [rows[n] EXCEPT ![p] = goal[p]] ELSE rows[n]]
        /\ UNCHANGED <<goal, seen, claim, others>>

Look ==
    \E n \in Nodes :
        /\ seen' = [seen EXCEPT ![n] = rows[n]]
        /\ UNCHANGED <<rows, goal, claim, others>>

Claim ==
    /\ \E contents \in {seen[n] : n \in Nodes} :
          /\ contents \notin {NoTable, Unseen}
          /\ \A n \in Nodes : seen[n] = contents
          /\ claim' = contents
    /\ UNCHANGED <<rows, goal, seen, others>>

Disclaim ==
    /\ claim' \in {Unknown, Differ}
    /\ UNCHANGED <<rows, goal, seen, others>>

OtherClient ==
    /\ others' > others
    /\ UNCHANGED <<goal, seen, claim>>

(* A replica fetches a partition from another.                                *)
Replicate ==
    \E n, m \in Nodes, p \in Partitions :
        /\ rows[n] # NoTable /\ rows[m] # NoTable
        /\ rows' = [rows EXCEPT ![n][p] = rows[m][p]]
        /\ UNCHANGED <<goal, seen, claim, others>>

Next == Start \/ Swap \/ Look \/ Claim \/ Disclaim \/ OtherClient \/ Replicate

Spec == Init /\ [][Next]_vars
=============================================================================

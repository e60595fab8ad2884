------------------------ MODULE MCNodeConvergence ------------------------
(* Constants of the TLC runs of NodeConvergence.                            *)
EXTENDS NodeConvergence

TwoReplicas     == <<1, 1>>
ReplicaPair     == <<"p", "p">>
TwoShards       == <<1, 1, 2>>
PathPerShard    == <<"p", "p", "q">>
OnePath         == <<"p", "p", "p">>

Def(engine, key) == [engine |-> engine, key |-> key, managed |-> 1, settings |-> 1]
DesiredLocal      == Def("MergeTree", 0)
DesiredReplicated == Def("ReplicatedMergeTree", 0)

T(engine, key, managed, unmanaged, settings, rows) ==
    [engine |-> engine, key |-> key, cols |-> [managed |-> managed, unmanaged |-> unmanaged],
     settings |-> settings, rows |-> rows]

Conf(wanted, recreate, force, adopt) ==
    [wanted |-> wanted, recreate |-> recreate, force |-> force, adopt |-> adopt]

Adopted   == {Conf(TRUE, FALSE, FALSE, TRUE)}
Unforced  == {Conf(FALSE, FALSE, FALSE, FALSE)}
Lifecycle == {Conf(w, r, f, FALSE) : w, r, f \in BOOLEAN} \cup {Conf(TRUE, TRUE, FALSE, TRUE)}

(* Tables that differ from the desired ones in every part, alone and together. *)
Replicated == {T("ReplicatedMergeTree", 0, m, u, s, FALSE) : m, u, s \in {0, 1}}
Unalterable == {T("ReplicatedMergeTree", 0, 0, 0, 1, FALSE), T("MergeTree", 0, 0, 1, 1, TRUE),
                T("MergeTree", 1, 1, 0, 1, TRUE), T("Memory", 0, 1, 0, 1, TRUE)}
RowsOrNot == {T("MergeTree", 0, 1, 0, 1, TRUE), T("MergeTree", 1, 0, 0, 1, FALSE),
             T("ReplicatedMergeTree", 0, 1, 0, 1, TRUE), T("Memory", 0, 1, 0, 1, TRUE)}
=============================================================================

------------------------------- MODULE MCGrants -------------------------------
(***************************************************************************)
(* Two resources: grants that have nothing in common (one on a database    *)
(* whose name is a prefix of the other's), the same privilege on a         *)
(* database and on everything, a group and a member of it, a source and a  *)
(* role with its admin option, the same grant with and without the option, *)
(* the members of a group one by one.                                      *)
(***************************************************************************)
EXTENDS Grants

MCMembers(p) == CASE p = "DDL" -> {"CREATE", "DROP"}
                  [] p = "S3" -> {"READ", "WRITE"}
                  [] OTHER -> {p}

MCPrefixes == {<<"db", "db2">>}

G(p, d, o) == [priv |-> p, scope |-> d, option |-> o]

MCDeclarations ==
    {[r \in {1, 2} |-> IF r = 1 THEN pair[1] ELSE pair[2]] : pair \in
        {<<G("CREATE", "db", FALSE), G("CREATE", "db2", FALSE)>>,
         <<G("CREATE", "db", FALSE), G("CREATE", "*", FALSE)>>,
         <<G("DDL", "*", FALSE), G("DROP", "db", TRUE)>>,
         <<G("DDL", "db", FALSE), G("DDL", "*", FALSE)>>,
         <<G("S3", "*", FALSE), G("role", "*", TRUE)>>,
         <<G("DROP", "db", TRUE), G("DROP", "db", FALSE)>>,
         <<G("CREATE", "db", FALSE), G("DROP", "db", FALSE)>>}}
=============================================================================

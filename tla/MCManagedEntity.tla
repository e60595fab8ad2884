--------------------------- MODULE MCManagedEntity ---------------------------
(* Two configurations per kind at least: they differ in the name, in each     *)
(* attribute that the handlers treat in a way of its own, and in both.        *)
EXTENDS ManagedEntity

CONSTANTS a, b, v, w, k1, k2

Plain(e) == [expr |-> e, stored |-> FALSE]

(* Keys of a named collection: plain, secret, flagged.                        *)
Collection(plain, secret, flags) ==
    [name |-> a, keys |-> [k \in Keys |-> IF k \in plain THEN v ELSE Unset],
     secrets |-> [k \in Keys |-> IF k \in secret THEN w ELSE Unset], flagged |-> flags]

MCConfigurations(k) ==
    CASE k = "role"             -> [name : Names]
      [] k = "user"             -> [name : Names, hosts : {v}, auth : Values]
                                \cup [name : {a}, hosts : {w}, auth : {v}]
      [] k = "settings_profile" -> [name : Names, inherit : Values]
      [] k = "row_policy"       -> [name : Names, filter : {Plain(v), Plain(w)}, grantees : {v}]
      [] k = "masking_policy"   -> [name : {a}, masks : Values, where : {Unset, Plain(v)}]
      [] k = "database"         -> [name : Names, comment : {Unset, v}]
      [] k = "named_collection" ->
            {Collection({k1}, {}, {}), Collection({k1}, {k2}, {}), Collection({k2}, {}, {k2}),
             Collection({k1, k2}, {}, {k1})}
=============================================================================

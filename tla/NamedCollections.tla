-------------------------- MODULE NamedCollections --------------------------
(***************************************************************************)
(* Named collections as module AccessEntities has the other entities: keys *)
(* of which some come from keys, which the state holds, and some from      *)
(* secret_keys_wo, of which it holds the version, and their names in the   *)
(* private state (the mark).  Both share the namespace of the server.      *)
(***************************************************************************)
EXTENDS AccessEntities

CONSTANT ShowSecrets    \* the provider may SHOW NAMED COLLECTIONS SECRETS

Hidden == "[HIDDEN]"

Seen == Values \cup {Hidden}

(* Where values are shown, none looks like the one that stands for the others. *)
ASSUME HiddenAssumption == Unset # Hidden /\ (ShowSecrets => Hidden \notin Values)

Present(keys) == {k \in Keys : keys[k] # Unset}

NoKeys == [k \in Keys |-> Unset]

(* resolveKeys: both maps; ValidateConfig keeps them apart.                   *)
PlannedKeys(want) ==
    [k \in Keys |-> IF want.keys[k] # Unset THEN want.keys[k] ELSE want.secrets[k]]

(* ValidateConfig and the validators of the schema: a key at least, each in    *)
(* one of the maps, and flags only of keys.                                   *)
ValidateConfig(want) ==
    /\ want.keys \in [Keys -> Maybe(Values)] /\ want.secrets \in [Keys -> Maybe(Values)]
    /\ Present(want.keys) \cap Present(want.secrets) = {}
    /\ Present(PlannedKeys(want)) # {}
    /\ want.flagged \subseteq Present(PlannedKeys(want))

CreateNamedCollection(want) ==
    [name |-> want.name, keys |-> PlannedKeys(want), flagged |-> want.flagged]

(* Keys that left the configuration, as far as the server still has them.     *)
DeletedKeys(tf, found, want) ==
    ((Present(tf.attrs.keys) \cup tf.mark) \ Present(PlannedKeys(want)))
    \cap Present(found.keys)

AlterNamedCollectionRefused(tf, found, want) ==
    Present(PlannedKeys(want)) \cup DeletedKeys(tf, found, want) = {}

(* The server rejects the DELETE of a key that has gone since.                *)
AlterNamedCollectionAccepted(entity, tf, found, want) ==
    DeletedKeys(tf, found, want) \subseteq Present(entity.keys)

(* Every planned key is set again, with its flag if it has one.               *)
UpdateNamedCollection(entity, tf, found, want) ==
    LET deleted == DeletedKeys(tf, found, want)
        planned == PlannedKeys(want)
    IN [name    |-> entity.name,
        keys    |-> [k \in Keys |-> IF planned[k] # Unset THEN planned[k]
                                    ELSE IF k \in deleted THEN Unset ELSE entity.keys[k]],
        flagged |-> (entity.flagged \ deleted) \cup want.flagged]

(* ALTER cannot clear the flag of a key that stays.                           *)
FlagReset(tf, want) ==
    \E k \in tf.attrs.flagged : k \in Present(PlannedKeys(want)) \ want.flagged

NamedCollectionReplaces(tf, want) == tf.attrs.name # want.name \/ FlagReset(tf, want)

(* The flags do not come back, and the values only to the privileged.         *)
GetNamedCollection(id, entity) ==
    Row(id, [name |-> entity.name, flagged |-> {},
             keys |-> [k \in Keys |-> IF ShowSecrets \/ entity.keys[k] = Unset
                                     THEN entity.keys[k] ELSE Hidden]])

DropNamedCollection(name) == Drop(name, TRUE)

(* Keys that are gone leave the state, foreign keys enter it, and a secret    *)
(* key that is gone makes its version look changed.                           *)
KeyRead(tf, row, k) ==
    CASE row.attrs.keys[k] = Unset -> Unset
      [] tf.attrs.keys[k] # Unset /\ row.attrs.keys[k] = Hidden -> tf.attrs.keys[k]
      [] tf.attrs.keys[k] = Unset /\ k \in tf.mark -> Unset
      [] OTHER -> row.attrs.keys[k]

NamedCollectionRead(tf, row) ==
    [tf EXCEPT
        !.attrs.keys    = [k \in Keys |-> KeyRead(tf, row, k)],
        !.attrs.secrets = IF tf.mark \subseteq Present(row.attrs.keys) THEN @ ELSE NoKeys]

NamedCollectionWritten(want, id) ==
    State(id, want, Present(want.secrets))

(* Read must not adopt any key: each may be one of secret_keys_wo.            *)
NamedCollectionImported(row) ==
    State(row.id, [name |-> row.attrs.name, keys |-> NoKeys, secrets |-> NoKeys,
                   flagged |-> {}],
          Present(row.attrs.keys))
=============================================================================

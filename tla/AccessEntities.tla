--------------------------- MODULE AccessEntities ---------------------------
(***************************************************************************)
(* The resources that stand for one entity of the server each: roles,      *)
(* users, settings profiles, row policies, masking policies, databases and *)
(* named collections.  One operator per handler: what the statement of     *)
(* internal/dbops does on the server, and what the resource of             *)
(* pkg/resource keeps in Terraform's state of a row that it read.          *)
(* ManagedEntity has the steps that call them.                             *)
(*                                                                         *)
(* An entity is a record of its attributes, and a row is what a SELECT     *)
(* returns of it.  Attributes that only say where it lives (cluster_name,  *)
(* and the table of a policy) are left out; a policy's grantees, priority  *)
(* and restrictiveness are one attribute, which both kinds of policy treat *)
(* alike and which is therefore only kept of row policies.  Write-only     *)
(* values are compared by their version, which the operator bumps with the *)
(* value, so the state holds the value for it.                             *)
(***************************************************************************)
EXTENDS Naturals

CONSTANTS Unset,    \* null, or an attribute that is not there
          Values,   \* comments, passwords, masks, lists of profiles or grantees
          Names,    \* names of entities
          Keys      \* keys of named collections

ASSUME AttributesAssumption == Unset \notin Values \cup Names

Maybe(S) == S \cup {Unset}

Kind == {"role", "user", "settings_profile", "row_policy", "masking_policy",
         "database", "named_collection"}

ById(kind) == kind # "named_collection"

(* An expression as the operator wrote it, and as the server returns it.      *)
Expression == [expr : Values, stored : BOOLEAN]
Normal(e)  == IF e = Unset THEN Unset ELSE [e EXCEPT !.stored = TRUE]

(* cityHash64 of the assignments: as good as the assignments themselves.      *)
Hash(masks) == masks

Row(id, attrs) == [id |-> id, attrs |-> attrs]

(* DROP of what bears the name: is a name that is not there an error?         *)
Drop(name, ifExists) == [name |-> name, ifExists |-> ifExists]

State(id, attrs, mark) == [id |-> id, attrs |-> attrs, mark |-> mark, tainted |-> FALSE]

-----------------------------------------------------------------------------
(* Roles.  Only the name is managed.                                          *)

CreateRole(want) == want

(* The builder refuses an ALTER that changes nothing.                         *)
AlterRoleRefused(found, want) == found.name = want.name

UpdateRole(entity, want) == [entity EXCEPT !.name = want.name]

GetRole(id, entity) == Row(id, entity)

DropRole(row) == Drop(row.attrs.name, FALSE)

RoleRead(tf, row) == [tf EXCEPT !.attrs.name = row.attrs.name]

(* Bug: the id is not recorded.                                               *)
RoleCreatedWithoutId(want, row) == State(Unset, [name |-> row.attrs.name], Unset)

RoleCreated(want, row) == State(row.id, [name |-> row.attrs.name], Unset)

RoleUpdated(tf, row) == [tf EXCEPT !.attrs.name = row.attrs.name]

RoleImported(row) == State(row.id, [name |-> Unset], Unset)

-----------------------------------------------------------------------------
(* Users.  host_ips and the authentication methods are never read back.       *)

CreateUser(want) == want

(* Bug: only the name is asserted.                                            *)
RenameUser(entity, want) == [entity EXCEPT !.name = want.name]

(* Every method is asserted again; host_ips are not part of the ALTER.        *)
UpdateUser(entity, want) == [entity EXCEPT !.name = want.name, !.auth = want.auth]

UserReplaces(tf, want) == tf.attrs.hosts # want.hosts

GetUser(id, entity) == Row(id, [entity EXCEPT !.hosts = Unset, !.auth = Unset])

DropUser(row) == Drop(row.attrs.name, FALSE)

UserRead(tf, row) == [tf EXCEPT !.attrs.name = row.attrs.name]

UserCreated(want, row) ==
    State(row.id, [name |-> row.attrs.name, hosts |-> want.hosts, auth |-> want.auth], Unset)

UserUpdated(tf, want, row) ==
    State(tf.id, [name |-> row.attrs.name, hosts |-> want.hosts, auth |-> want.auth], Unset)

UserImported(row) ==
    State(row.id, [name |-> Unset, hosts |-> Unset, auth |-> Unset], Unset)

-----------------------------------------------------------------------------
(* Settings profiles and the profiles they inherit from.                      *)

CreateSettingsProfile(want) == want

(* DROP ALL PROFILES comes before INHERIT.                                    *)
UpdateSettingsProfile(entity, want) ==
    [entity EXCEPT !.name = want.name, !.inherit = want.inherit]

GetSettingsProfile(id, entity) == Row(id, [entity EXCEPT !.inherit = Unset])

(* The second SELECT of GetSettingsProfile asks by name, not by id.           *)
WithInheritance(row, entity) == [row EXCEPT !.attrs.inherit = entity.inherit]

DropSettingsProfile(row) == Drop(row.attrs.name, FALSE)

ProfileFromApiResponse(tf, row) ==
    [tf EXCEPT !.id = row.id,
               !.attrs = [name |-> row.attrs.name, inherit |-> row.attrs.inherit]]

ProfileImported(row) ==
    State(row.id, [name |-> Unset, inherit |-> Unset], Unset)

ProfileCreated(row) == ProfileFromApiResponse(ProfileImported(row), row)

-----------------------------------------------------------------------------
(* Row policies.  The server keeps a normalized filter.                       *)

CreateRowPolicy(want) == [want EXCEPT !.filter = Normal(want.filter)]

UpdateRowPolicy(entity, want) ==
    [entity EXCEPT !.name = want.name, !.filter = Normal(want.filter),
                   !.grantees = want.grantees]

GetRowPolicyByID(id, entity) == Row(id, entity)

DropRowPolicy(row) == Drop(row.attrs.name, TRUE)

RowPolicyFromDBOps(row) == State(row.id, row.attrs, Unset)

(* Read asks the server for the normal form of the filter in the state.       *)
RowPolicyAsks(tf, row) == tf.attrs.filter # Unset

(* The written filter stays when the server's is its normal form, and when    *)
(* the question was not answered.                                             *)
RowPolicyRead(tf, row, answered) ==
    [RowPolicyFromDBOps(row) EXCEPT
        !.attrs.filter = IF /\ RowPolicyAsks(tf, row)
                            /\ answered => Normal(tf.attrs.filter) = row.attrs.filter
                         THEN tf.attrs.filter ELSE row.attrs.filter,
        !.tainted = tf.tainted]

(* Bug: the server's form of the filter is stored.                            *)
RowPolicyAsRead(want, row) == RowPolicyFromDBOps(row)

(* Create and Update: the planned filter is stored, whatever the row says.    *)
RowPolicyWritten(want, row) ==
    [RowPolicyFromDBOps(row) EXCEPT !.attrs.filter = want.filter]

-----------------------------------------------------------------------------
(* Masking policies.  The masks do not come back; their hash does.            *)

CreateMaskingPolicy(want) == [want EXCEPT !.where = Normal(want.where)]

(* An ALTER without a condition leaves out WHERE, which keeps the old one.    *)
UpdateMaskingPolicy(entity, want) ==
    [name |-> want.name, masks |-> want.masks,
     where |-> IF want.where = Unset THEN entity.where ELSE Normal(want.where)]

(* Hence ModifyPlan replaces a policy that loses its condition.               *)
MaskingPolicyReplaces(tf, want) == tf.attrs.where # Unset /\ want.where = Unset

GetMaskingPolicyByID(id, entity) == Row(id, [entity EXCEPT !.masks = Hash(@)])

DropMaskingPolicy(row) == Drop(row.attrs.name, TRUE)

MaskingPolicyFromDBOps(row) == State(row.id, [row.attrs EXCEPT !.masks = Unset], Unset)

(* Only an expression that the server returned in another form is asked for.  *)
MaskingPolicyAsks(tf, row) == tf.attrs.where \notin {Unset, row.attrs.where}

(* What was not answered counts as equal.                                     *)
NormalizedEquals(e, server, answered) ==
    e = server \/ (e # Unset /\ (answered => Normal(e) = server))

(* Bug: the fingerprint is not compared.                                      *)
MasksKept(tf, row) == tf.attrs.masks

(* A different fingerprint empties the masks, so that the next plan differs.  *)
MasksRead(tf, row) ==
    IF tf.mark \in {Unset, row.attrs.masks} THEN tf.attrs.masks ELSE Unset

MaskingPolicyRead(tf, row, answered) ==
    [id    |-> row.id,
     attrs |-> [name  |-> row.attrs.name,
                masks |-> MasksRead(tf, row),
                where |-> IF NormalizedEquals(tf.attrs.where, row.attrs.where, answered)
                             THEN tf.attrs.where ELSE row.attrs.where],
     mark  |-> IF tf.mark = Unset THEN row.attrs.masks ELSE tf.mark,
     tainted |-> tf.tainted]

(* Create and Update: the fingerprint is that of the row read back.           *)
MaskingPolicyWritten(want, row) ==
    [MaskingPolicyFromDBOps(row) EXCEPT
        !.attrs.masks = want.masks, !.attrs.where = want.where,
        !.mark = row.attrs.masks]

MaskingPolicyImported(row) ==
    [MaskingPolicyFromDBOps(row) EXCEPT !.mark = row.attrs.masks]

-----------------------------------------------------------------------------
(* Databases.  Nothing about them is altered in place.                        *)

CreateDatabase(want) == want

GetDatabase(id, entity) == Row(id, entity)

DropDatabase(row) == Drop(row.attrs.name, FALSE)

DatabaseReplaces(tf, want) == tf.attrs # want

SyncDatabaseState(row) == State(row.id, row.attrs, Unset)

(* Read sets the whole state.                                                 *)
DatabaseRead(tf, row) == [SyncDatabaseState(row) EXCEPT !.tainted = tf.tainted]

DatabaseImported(row) ==
    State(row.id, [name |-> Unset, comment |-> Unset], Unset)
=============================================================================

---------------------------- MODULE ManagedEntity ----------------------------
(***************************************************************************)
(* One resource of the provider that stands for one entity of the server:  *)
(* a role, a user, a settings profile, a row policy, a masking policy, a   *)
(* database or a named collection.  The handlers find the entity by its id *)
(* (a named collection by its name), and address their ALTER or DROP to    *)
(* the name that the lookup returned; a CREATE is followed by SELECTs      *)
(* until the entity is visible.  Between two of these calls other clients  *)
(* of the server create, rename, change and drop entities, and the server  *)
(* that answers a SELECT may be a replica that has not caught up.          *)
(*                                                                         *)
(* A step is one call to the server together with the code up to the next  *)
(* call.  Names are unique per kind of entity on the server; ids are never *)
(* reused.                                                                 *)
(***************************************************************************)
EXTENDS NamedCollections

CONSTANTS None,               \* no entity, no state, no row
          Ids,                \* ids of entities
          Kinds,              \* kinds of resource to look at
          Configurations(_),  \* what the operator may write, per kind
          MaxChanges,         \* edits of the configuration and destroys
          MaxDrift,           \* statements of other clients
          MaxFaults           \* calls that fail or give up

VARIABLES kind,       \* the kind of the resource
          config,     \* its configuration
          tf,         \* its state in Terraform, or None
          server,     \* the entities of that kind
          view,       \* the copy of them that SELECTs are answered from
          op,         \* the operation under way
          pc,         \* the next call of it
          target,     \* the id it looks up
          row,        \* the row it found
          wrote,      \* it is past its statement
          outcome,    \* how the last operation ended
          disturbed,  \* the view lagged when it began, or others acted since
          fresh,      \* the row was current when read, and nobody acted since
          synced,     \* the same of the last refresh
          compared,   \* and it compared the expression of a policy
          sure,       \* planned from such a refresh, and nothing intervened since
          changes, drift, faults

data    == <<kind, config, server, view>>
control == <<op, pc, target, row, wrote, outcome>>
history == <<disturbed, fresh, synced, compared, sure>>
budget  == <<changes, drift, faults>>
vars    == <<data, tf, control, history, budget>>

Op == {"none", "refresh", "import", "create", "update", "replace", "delete"}
Pc == {"idle", "find", "lookup", "elements", "normalize", "sync", "write"}
Outcome == {"none", "failed", "panic", "forgotten", "refreshed", "removed", "applied", "destroyed"}

(* The attributes of a configuration, of a state and of a row ...             *)
Attributes(k) ==
    CASE k = "role"             -> [name : Maybe(Names)]
      [] k = "user"             -> [name : Maybe(Names), hosts : Maybe(Values), auth : Maybe(Values)]
      [] k = "settings_profile" -> [name : Maybe(Names), inherit : Maybe(Values)]
      [] k = "row_policy"       -> [name : Maybe(Names), filter : Maybe(Expression),
                                    grantees : Maybe(Values)]
      [] k = "masking_policy"   -> [name : Maybe(Names), masks : Maybe(Values),
                                    where : Maybe(Expression)]
      [] k = "database"         -> [name : Maybe(Names), comment : Maybe(Values)]
      [] k = "named_collection" -> [name : Maybe(Names), keys : [Keys -> Maybe(Seen)],
                                    secrets : [Keys -> Maybe(Seen)], flagged : SUBSET Keys]

(* ... and of an entity.                                                      *)
Stored(k) ==
    IF k = "named_collection"
    THEN [name : Names, keys : [Keys -> Maybe(Seen)], flagged : SUBSET Keys]
    ELSE {e \in Attributes(k) : e.name \in Names}

Wanted(k) == {w \in Attributes(k) : w.name \in Names}

ASSUME KindsAssumption == Kinds \subseteq Kind
ASSUME IdsAssumption == Ids \subseteq Nat /\ None \notin Ids
ASSUME NoneAssumption ==
    \A k \in Kinds :
        /\ None \notin Stored(k)
        /\ None \notin [id : Ids, attrs : Attributes(k), mark : Maybe(Values) \cup SUBSET Keys,
                         tainted : BOOLEAN]
ASSUME BoundsAssumption == MaxChanges \in Nat /\ MaxDrift \in Nat /\ MaxFaults \in Nat
ASSUME ConfigurationsAssumption ==
    \A k \in Kinds : \A want \in Configurations(k) :
        want \in Wanted(k) /\ (k = "named_collection" => ValidateConfig(want))

-----------------------------------------------------------------------------
(* The handlers by kind.                                                      *)

CreateOf(want) ==
    CASE kind = "role"             -> CreateRole(want)
      [] kind = "user"             -> CreateUser(want)
      [] kind = "settings_profile" -> CreateSettingsProfile(want)
      [] kind = "row_policy"       -> CreateRowPolicy(want)
      [] kind = "masking_policy"   -> CreateMaskingPolicy(want)
      [] kind = "database"         -> CreateDatabase(want)
      [] kind = "named_collection" -> CreateNamedCollection(want)

AlterOf(entity) ==
    CASE kind = "role"             -> UpdateRole(entity, config)
      [] kind = "user"             -> UpdateUser(entity, config)
      [] kind = "settings_profile" -> UpdateSettingsProfile(entity, config)
      [] kind = "row_policy"       -> UpdateRowPolicy(entity, config)
      [] kind = "masking_policy"   -> UpdateMaskingPolicy(entity, config)
      [] kind = "named_collection" -> UpdateNamedCollection(entity, tf, row.attrs, config)

AlterRefused(entity) ==
    \/ kind = "role" /\ AlterRoleRefused(row.attrs, config)
    \/ /\ kind = "named_collection"
       /\ \/ AlterNamedCollectionRefused(tf, row.attrs, config)
          \/ ~AlterNamedCollectionAccepted(entity, tf, row.attrs, config)

RowOf(id, entity) ==
    CASE kind = "role"             -> GetRole(id, entity)
      [] kind = "user"             -> GetUser(id, entity)
      [] kind = "settings_profile" -> GetSettingsProfile(id, entity)
      [] kind = "row_policy"       -> GetRowPolicyByID(id, entity)
      [] kind = "masking_policy"   -> GetMaskingPolicyByID(id, entity)
      [] kind = "database"         -> GetDatabase(id, entity)
      [] kind = "named_collection" -> GetNamedCollection(id, entity)

(* Bug: the statement goes to the name that the state recorded.               *)
DropByStateName == Drop(tf.attrs.name, kind \in {"row_policy", "masking_policy", "named_collection"})

DropOf ==
    CASE kind = "role"             -> DropRole(row)
      [] kind = "user"             -> DropUser(row)
      [] kind = "settings_profile" -> DropSettingsProfile(row)
      [] kind = "row_policy"       -> DropRowPolicy(row)
      [] kind = "masking_policy"   -> DropMaskingPolicy(row)
      [] kind = "database"         -> DropDatabase(row)
      [] kind = "named_collection" -> DropNamedCollection(tf.attrs.name)

(* With the answer of NormalizeExpression, where one is asked for.            *)
Asks(s, r) ==
    \/ kind = "row_policy" /\ RowPolicyAsks(s, r)
    \/ kind = "masking_policy" /\ MaskingPolicyAsks(s, r)

ReadOf(s, r, answered) ==
    CASE kind = "role"             -> RoleRead(s, r)
      [] kind = "user"             -> UserRead(s, r)
      [] kind = "settings_profile" -> ProfileFromApiResponse(s, r)
      [] kind = "row_policy"       -> RowPolicyRead(s, r, answered)
      [] kind = "masking_policy"   -> MaskingPolicyRead(s, r, answered)
      [] kind = "database"         -> DatabaseRead(s, r)
      [] kind = "named_collection" -> NamedCollectionRead(s, r)

CreatedOf(r) ==
    CASE kind = "role"             -> RoleCreated(config, r)
      [] kind = "user"             -> UserCreated(config, r)
      [] kind = "settings_profile" -> ProfileCreated(r)
      [] kind = "row_policy"       -> RowPolicyWritten(config, r)
      [] kind = "masking_policy"   -> MaskingPolicyWritten(config, r)
      [] kind = "database"         -> SyncDatabaseState(r)
      [] kind = "named_collection" -> NamedCollectionWritten(config, r.id)

UpdatedOf(r) ==
    CASE kind = "role"             -> RoleUpdated(tf, r)
      [] kind = "user"             -> UserUpdated(tf, config, r)
      [] kind = "settings_profile" -> ProfileFromApiResponse(tf, r)
      [] kind = "row_policy"       -> RowPolicyWritten(config, r)
      [] kind = "masking_policy"   -> MaskingPolicyWritten(config, r)
      [] kind = "named_collection" -> NamedCollectionWritten(config, tf.id)

ImportedOf(r) ==
    CASE kind = "role"             -> RoleImported(r)
      [] kind = "user"             -> UserImported(r)
      [] kind = "settings_profile" -> ProfileImported(r)
      [] kind = "row_policy"       -> RowPolicyFromDBOps(r)
      [] kind = "masking_policy"   -> MaskingPolicyImported(r)
      [] kind = "database"         -> DatabaseImported(r)
      [] kind = "named_collection" -> NamedCollectionImported(r)

(* RequiresReplace of the schema, and what ModifyPlan adds to it.             *)
Replaces ==
    \/ kind = "user" /\ UserReplaces(tf, config)
    \/ kind = "masking_policy" /\ MaskingPolicyReplaces(tf, config)
    \/ kind = "database" /\ DatabaseReplaces(tf, config)
    \/ kind = "named_collection" /\ NamedCollectionReplaces(tf, config)

-----------------------------------------------------------------------------
(* Starting and ending an operation.                                          *)

Named(db, name) == {i \in Ids : db[i] # None /\ db[i].name = name}

(* An operation ends with an outcome and leaves a state behind.               *)
End(result, state) ==
    /\ outcome' = result
    /\ tf' = state
    /\ op' = "none" /\ pc' = "idle"
    /\ target' = None /\ row' = None /\ wrote' = FALSE

(* Nothing is recorded of an import that fails.                               *)
Fail(result) == End(result, IF op = "import" THEN None ELSE tf)

Begin(o, at) ==
    /\ pc = "idle"
    /\ op' = o /\ pc' = at
    /\ target' = IF at = "lookup" THEN tf.id ELSE None
    /\ row' = None /\ wrote' = FALSE /\ outcome' = "none"
    /\ disturbed' = (view # server)
    /\ fresh' = FALSE /\ synced' = FALSE
    /\ compared' = (compared \/ o \in {"refresh", "import"})
    /\ sure' = (o \notin {"refresh", "import"} /\ view = server /\ (tf = None \/ synced))
    /\ UNCHANGED <<data, tf>>

ByIdOrName == IF ById(kind) THEN "lookup" ELSE "find"

(* DROP NAMED COLLECTION is not preceded by a lookup.                         *)
BeforeDrop == IF ById(kind) THEN "lookup" ELSE "write"

Refresh == tf # None /\ Begin("refresh", ByIdOrName) /\ UNCHANGED budget

Create == tf = None /\ Begin("create", "write") /\ UNCHANGED budget

Import == tf = None /\ Begin("import", "find") /\ UNCHANGED budget

Update ==
    /\ tf # None /\ ~tf.tainted /\ tf.attrs # config /\ ~Replaces
    /\ Begin("update", ByIdOrName)
    /\ UNCHANGED budget

Replace ==
    /\ tf # None /\ (tf.tainted \/ (tf.attrs # config /\ Replaces))
    /\ Begin("replace", BeforeDrop)
    /\ UNCHANGED budget

Destroy ==
    /\ tf # None /\ changes < MaxChanges
    /\ Begin("delete", BeforeDrop)
    /\ changes' = changes + 1
    /\ UNCHANGED <<drift, faults>>

Reconfigure ==
    /\ pc = "idle" /\ changes < MaxChanges
    /\ config' \in Configurations(kind) \ {config}
    /\ changes' = changes + 1
    /\ outcome' = "none"
    /\ UNCHANGED <<kind, server, view, tf, op, pc, target, row, wrote, history, drift, faults>>

-----------------------------------------------------------------------------
(* Reading.                                                                   *)

(* What core makes of the state that a create or an update returns: a value   *)
(* that is not the planned one is an error, and taints what was created.      *)
Record(s) ==
    End(IF s.attrs = config THEN "applied" ELSE "failed",
        [s EXCEPT !.tainted = (op = "create" /\ s.attrs # config)])

(* CreateDatabase has the row; Create asks for it once more.                  *)
SyncsAgain == kind = "database" /\ pc = "lookup"

(* The row is complete.                                                       *)
Arrive(r, current) ==
    /\ fresh' = current
    /\ \/ /\ op \in {"update", "replace", "delete"} /\ ~wrote
          /\ pc' = "write" /\ target' = r.id /\ row' = r
          /\ UNCHANGED <<tf, op, wrote, outcome, synced>>
       \/ /\ op = "import" /\ ~wrote
          /\ tf' = ImportedOf(r)
          /\ pc' = ByIdOrName /\ target' = r.id /\ row' = None /\ wrote' = TRUE
          /\ UNCHANGED <<op, outcome, synced>>
       \/ /\ op = "refresh" \/ (op = "import" /\ wrote)
          /\ ~Asks(tf, r)
          /\ End("refreshed", ReadOf(tf, r, TRUE)) /\ synced' = current
       \/ /\ op = "refresh" \/ (op = "import" /\ wrote)
          /\ Asks(tf, r)
          /\ pc' = "normalize" /\ target' = r.id /\ row' = r
          /\ UNCHANGED <<tf, op, wrote, outcome, synced>>
       \/ /\ op = "create" /\ SyncsAgain
          /\ pc' = "sync" /\ row' = None
          /\ UNCHANGED <<tf, op, target, wrote, outcome, synced>>
       \/ op = "create" /\ ~SyncsAgain /\ Record(CreatedOf(r)) /\ UNCHANGED synced
       \/ op = "update" /\ wrote /\ Record(UpdatedOf(r)) /\ UNCHANGED synced

(* No row where one was expected ...                                          *)
Removed(current) == End("removed", None) /\ synced' = current

(* ... and where a CREATE or an ALTER is not visible yet: try again.          *)
Retry(at) == pc' = at /\ row' = None /\ UNCHANGED <<tf, op, target, wrote, outcome, synced>>

(* What is gone already need not be dropped.                                  *)
Dropped ==
    IF op = "delete"
    THEN End("destroyed", None)
    ELSE /\ tf' = None
         /\ op' = "create" /\ pc' = "write"
         /\ target' = None /\ row' = None /\ wrote' = FALSE
         /\ UNCHANGED outcome

(* UpdateRole uses the row that is not there.                                 *)
UpdateMissing ==
    CASE kind = "role"             -> Fail("panic")
      [] kind = "settings_profile" -> End("forgotten", None)
      [] OTHER                     -> Fail("failed")

(* The state of a role or user is set from the row that is not there.         *)
UpdatedMissing ==
    CASE kind \in {"role", "user"}  -> Fail("panic") /\ UNCHANGED synced
      [] kind = "settings_profile" -> End("forgotten", None) /\ UNCHANGED synced
      [] OTHER                     -> Retry("lookup")

(* FindDatabaseByName returns the nil of its second SELECT, and an error if   *)
(* the first found nothing; FindRoleByName and FindUserByName always nil.     *)
ImportMissing ==
    IF ~wrote /\ (kind \in {"role", "user"} \/ (kind = "database" /\ pc = "lookup"))
    THEN Fail("panic") ELSE Fail("failed")

CreatedDatabaseMissing == IF pc = "lookup" THEN Fail("panic") ELSE Fail("failed")

Missing ==
    /\ fresh' = FALSE
    /\ \/ op = "refresh" /\ Removed(view = server)
       \/ op = "import" /\ ImportMissing /\ UNCHANGED synced
       \/ op = "update" /\ ~wrote /\ UpdateMissing /\ UNCHANGED synced
       \/ op = "update" /\ wrote /\ UpdatedMissing
       \/ op \in {"replace", "delete"} /\ Dropped /\ UNCHANGED synced
       \/ op = "create" /\ kind = "database" /\ CreatedDatabaseMissing /\ UNCHANGED synced
       \/ op = "create" /\ kind # "database" /\ Retry("find")

Sought == IF op \in {"create", "import"} THEN config.name ELSE tf.attrs.name

(* FindRoleByName and the like first ask for the id alone.                    *)
IdFirst == {"role", "user", "settings_profile", "database"}

Find ==
    /\ pc = "find"
    /\ \/ \E i \in Named(view, Sought) :
             IF kind \in IdFirst
             THEN /\ target' = i /\ pc' = "lookup"
                  /\ UNCHANGED <<tf, op, row, wrote, outcome, fresh, synced>>
             ELSE Arrive(RowOf(i, view[i]), view = server)
       \/ Named(view, Sought) = {} /\ Missing
    /\ sure' = (sure /\ view = server)
    /\ UNCHANGED <<data, disturbed, compared, budget>>

Lookup ==
    /\ pc \in {"lookup", "sync"}
    /\ \/ view[target] = None /\ Missing
       \/ /\ view[target] # None /\ kind # "settings_profile"
          /\ Arrive(RowOf(target, view[target]), view = server)
       \/ /\ view[target] # None /\ kind = "settings_profile"
          /\ row' = RowOf(target, view[target])
          /\ fresh' = (view = server)
          /\ pc' = "elements"
          /\ UNCHANGED <<tf, op, target, wrote, outcome, synced>>
    /\ sure' = (sure /\ view = server)
    /\ UNCHANGED <<data, disturbed, compared, budget>>

(* The profiles that bear the name now.                                       *)
Elements ==
    /\ pc = "elements"
    /\ \/ \E i \in Named(view, row.attrs.name) : Arrive(WithInheritance(row, view[i]), fresh)
       \/ Named(view, row.attrs.name) = {} /\ Arrive(row, fresh)
    /\ sure' = (sure /\ view = server)
    /\ UNCHANGED <<data, disturbed, compared, budget>>

(* NormalizeExpression answers, and the expressions are compared.             *)
Normalize ==
    /\ pc = "normalize"
    /\ End("refreshed", ReadOf(tf, row, TRUE)) /\ synced' = fresh
    /\ UNCHANGED <<data, disturbed, fresh, compared, sure, budget>>

(* The deadline of retryWithBackoff passes while the row is missing: what was *)
(* created stays on the server, and Terraform does not know of it.            *)
GiveUp ==
    /\ wrote
    /\ \/ op = "create" /\ kind # "database"
       \/ op = "update" /\ kind \in {"row_policy", "masking_policy"}
    /\ \/ pc = "find" /\ Named(view, Sought) = {}
       \/ pc = "lookup" /\ view[target] = None
    /\ Fail("failed")
    /\ sure' = (sure /\ view = server)
    /\ UNCHANGED <<data, disturbed, fresh, synced, compared, budget>>

-----------------------------------------------------------------------------
(* Writing.  What the server may be after a statement; nothing if it refuses. *)

Unused == {i \in Ids : server[i] = None /\ view[i] = None /\ (tf = None \/ i # tf.id)}

(* An id of its own for the entity; the smallest will do.                     *)
Creations(entity) ==
    {[server EXCEPT ![i] = entity] : i \in {j \in Unused : \A k \in Unused : j <= k}}

(* CreateSettingsProfile takes "already exists" for success.                  *)
AfterCreate ==
    IF Named(server, config.name) = {} THEN Creations(CreateOf(config))
    ELSE IF kind = "settings_profile" THEN {server}
    ELSE {}

AfterAlter ==
    {[server EXCEPT ![i] = AlterOf(server[i])] :
        i \in {j \in Named(server, row.attrs.name) :
                  /\ ~AlterRefused(server[j])
                  /\ Named(server, AlterOf(server[j]).name) \subseteq {j}}}

AfterDrop ==
    LET named == Named(server, DropOf.name)
    IN  IF named = {} /\ DropOf.ifExists THEN {server}
        ELSE {[server EXCEPT ![i] = None] : i \in named}

AfterStatement ==
    CASE op = "create" -> AfterCreate
      [] op = "update" -> AfterAlter
      [] OTHER         -> AfterDrop

(* A CREATE of a name that is taken, an ALTER or DROP of one that is not, ...  *)
Refused ==
    IF op = "create"
    THEN kind # "settings_profile" /\ Named(server, config.name) # {}
    ELSE AfterStatement = {}

(* A named collection is not read back after its ALTER.                       *)
Accepted ==
    CASE op \in {"replace", "delete"} -> Dropped
      [] op = "update" /\ ~ById(kind) -> Record(UpdatedOf(row))
      [] OTHER ->
           /\ pc' = IF op = "create" THEN "find" ELSE "lookup"
           /\ wrote' = TRUE /\ row' = None
           /\ UNCHANGED <<tf, op, target, outcome>>

Write ==
    /\ pc = "write"
    /\ \/ server' \in AfterStatement /\ Accepted
       \/ Refused /\ Fail("failed") /\ UNCHANGED server
    /\ UNCHANGED <<kind, config, view, history, budget>>

-----------------------------------------------------------------------------
(* Faults and the environment.                                                *)

(* The statement takes effect and its answer is lost.                         *)
AnswerLost ==
    /\ pc = "write" /\ faults < MaxFaults
    /\ server' \in AfterStatement
    /\ Fail("failed")
    /\ sure' = FALSE
    /\ faults' = faults + 1
    /\ UNCHANGED <<kind, config, view, disturbed, fresh, synced, compared, changes, drift>>

(* A call fails without effect.                                               *)
CallFails ==
    /\ pc \notin {"idle", "normalize"} /\ faults < MaxFaults
    /\ Fail("failed")
    /\ sure' = FALSE
    /\ faults' = faults + 1
    /\ UNCHANGED <<data, disturbed, fresh, synced, compared, changes, drift>>

(* The SELECT of NormalizeExpression fails: the refresh succeeds all the same *)
(* and keeps the expression of the state.                                     *)
NormalizeFails ==
    /\ pc = "normalize" /\ faults < MaxFaults
    /\ End("refreshed", ReadOf(tf, row, FALSE)) /\ synced' = fresh
    /\ compared' = FALSE
    /\ faults' = faults + 1
    /\ UNCHANGED <<data, disturbed, fresh, sure, changes, drift>>

CatchUp ==
    /\ view # server
    /\ view' = server
    /\ UNCHANGED <<kind, config, server, tf, control, history, budget>>

(* Another client creates, changes, renames or drops an entity.               *)
Foreign == {CreateOf(want) : want \in Configurations(kind)}

OtherClient ==
    /\ drift < MaxDrift
    /\ \/ \E e \in Foreign : Named(server, e.name) = {} /\ server' \in Creations(e)
       \/ \E i \in Ids, e \in Foreign :
             /\ server[i] \notin {None, e}
             /\ Named(server, e.name) \subseteq {i}
             /\ ById(kind) \/ e.name = server[i].name
             /\ server' = [server EXCEPT ![i] = e]
       \/ \E i \in Ids : server[i] # None /\ server' = [server EXCEPT ![i] = None]
    /\ disturbed' = TRUE /\ fresh' = FALSE /\ synced' = FALSE /\ sure' = FALSE
    /\ drift' = drift + 1
    /\ UNCHANGED <<kind, config, view, tf, control, compared, changes, faults>>

-----------------------------------------------------------------------------
Init ==
    /\ kind \in Kinds
    /\ config \in Configurations(kind)
    /\ tf = None
    /\ server = [i \in Ids |-> None] /\ view = server
    /\ op = "none" /\ pc = "idle" /\ target = None /\ row = None /\ wrote = FALSE
    /\ outcome = "none"
    /\ disturbed = FALSE /\ fresh = FALSE /\ synced = FALSE /\ compared = TRUE /\ sure = FALSE
    /\ changes = 0 /\ drift = 0 /\ faults = 0

Provider == Find \/ Lookup \/ Elements \/ Normalize \/ Write

Next ==
    \/ Refresh \/ Create \/ Import \/ Update \/ Replace \/ Destroy
    \/ Reconfigure
    \/ Provider \/ GiveUp
    \/ AnswerLost \/ CallFails \/ NormalizeFails \/ CatchUp \/ OtherClient

Spec == Init /\ [][Next]_vars

-----------------------------------------------------------------------------
TypeOK ==
    /\ kind \in Kinds
    /\ config \in Attributes(kind)
    /\ server \in [Ids -> Stored(kind) \cup {None}]
    /\ view \in [Ids -> Stored(kind) \cup {None}]
    /\ tf = None \/ (tf.id \in Ids /\ tf.attrs \in Attributes(kind) /\ tf.tainted \in BOOLEAN)
    /\ op \in Op /\ pc \in Pc /\ outcome \in Outcome
    /\ target \in Ids \cup {None}
    /\ wrote \in BOOLEAN
    /\ {disturbed, fresh, synced, compared, sure} \subseteq BOOLEAN
    /\ changes \in 0..MaxChanges /\ drift \in 0..MaxDrift /\ faults \in 0..MaxFaults

(* The entity that the state stands for: the one with its id, or the named    *)
(* collection with its name.                                                  *)
Mine ==
    CASE tf = None                -> {}
      [] tf # None /\ ById(kind)  -> {i \in {tf.id} : server[i] # None}
      [] tf # None /\ ~ById(kind) -> Named(server, tf.attrs.name)

(* What an applied configuration makes of the entity.  ALTER NAMED COLLECTION *)
(* leaves keys alone that nobody told Terraform of, ALTER USER the hosts, and *)
(* ALTER MASKING POLICY a condition that only a refresh would have shown.     *)
Applied(entity) ==
    CASE kind = "user" -> entity.name = config.name /\ entity.auth = config.auth
      [] kind = "masking_policy" ->
            /\ entity.name = config.name /\ entity.masks = config.masks
            /\ sure => entity.where = Normal(config.where)
      [] kind = "named_collection" ->
            /\ \A k \in Present(PlannedKeys(config)) : entity.keys[k] = PlannedKeys(config)[k]
            /\ config.flagged \subseteq entity.flagged
      [] OTHER -> entity = CreateOf(config)

(* The entity as far as a refresh can compare it with the configuration.  Of  *)
(* masks only the fingerprint of the row that was read after the write is     *)
(* known, which is that of the masks written unless they changed in between;  *)
(* keys that the private state lists as secret are never taken for foreign.   *)
(* The expression of a policy is compared if NormalizeExpression answered.    *)
Matches(entity) ==
    CASE kind = "user" -> entity.name = config.name
      [] kind = "row_policy" ->
            /\ entity.name = config.name /\ entity.grantees = config.grantees
            /\ compared => entity.filter = Normal(config.filter)
      [] kind = "masking_policy" ->
            /\ entity.name = config.name
            /\ compared => entity.where = Normal(config.where)
            /\ tf.mark = config.masks => entity.masks = config.masks
      [] kind = "named_collection" ->
            /\ Present(PlannedKeys(config)) \subseteq Present(entity.keys)
            /\ Present(entity.keys) \subseteq Present(PlannedKeys(config)) \cup tf.mark
            /\ ShowSecrets => \A k \in Present(config.keys) : entity.keys[k] = config.keys[k]
      [] OTHER -> entity = CreateOf(config)

(* A create or update that succeeds has applied the whole configuration to    *)
(* the entity that the state stands for, unless another client intervened, or *)
(* a lagging replica answered the read after the write: it may even return    *)
(* the entity of that name that a replacement has just dropped.               *)
SuccessMeansApplied ==
    outcome = "applied" /\ ~disturbed /\ fresh => Mine # {} /\ \A i \in Mine : Applied(server[i])

(* A plan made from a refresh that was current, with nothing in its way, is   *)
(* applied: no lookup misses, no statement is refused and no attribute comes  *)
(* back changed, unless the configured name belongs to another entity, or to  *)
(* a settings profile that was there and inherits from others than configured.*)
SurePlanApplies ==
    sure /\ outcome \in {"failed", "panic", "forgotten"} =>
        \/ \E i \in Named(server, config.name) : i \notin Mine
        \/ kind = "settings_profile" /\ tf # None /\ tf.tainted

(* After a refresh that was current, an empty plan means that the entity is   *)
(* there and as configured, as far as the server tells: a SELECT that fails   *)
(* hides at most the expression of a policy, and only where Read swallows it. *)
DriftSeen ==
    synced /\ pc = "idle" /\ tf # None /\ tf.attrs = config =>
        Mine # {} /\ \A i \in Mine : Matches(server[i])

(* A handler changes or drops no entity but its own, even if names moved from *)
(* entity to entity since the state was written, as long as nobody moves them *)
(* between its lookup and its statement.                                      *)
OnlyOwnEntity ==
    [][ById(kind) /\ fresh /\ pc = "write" /\ pc' # "write" =>
         \A i \in Ids : server'[i] = server[i] \/ server[i] = None \/ (tf # None /\ i = tf.id)]_vars

(* A destroy or a replacement that succeeds leaves nothing behind of the      *)
(* entity, unless another client intervened or the replica lagged.            *)
Dropping == op \in {"replace", "delete"} /\ tf # None /\ tf' = None

DroppedMeansGone ==
    [][Dropping /\ ~disturbed => (\A i \in Mine : server'[i] = None)]_vars

=============================================================================

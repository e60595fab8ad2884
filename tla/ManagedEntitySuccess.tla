------------------------ MODULE ManagedEntitySuccess ------------------------
(***************************************************************************)
(* ManagedEntity for any names, ids, configurations and bounds: what a     *)
(* success, a current plan and an empty plan promise.                      *)
(***************************************************************************)
EXTENDS ManagedEntityProofs

LEMMA CreateOfIs ==
    ASSUME NEW want
    PROVE  /\ kind = "role" => CreateOf(want) = CreateRole(want)
           /\ kind = "user" => CreateOf(want) = CreateUser(want)
           /\ kind = "settings_profile" => CreateOf(want) = CreateSettingsProfile(want)
           /\ kind = "row_policy" => CreateOf(want) = CreateRowPolicy(want)
           /\ kind = "masking_policy" => CreateOf(want) = CreateMaskingPolicy(want)
           /\ kind = "database" => CreateOf(want) = CreateDatabase(want)
           /\ kind = "named_collection" => CreateOf(want) = CreateNamedCollection(want)
BY Zenon DEF CreateOf

LEMMA AlterOfIs ==
    ASSUME NEW e
    PROVE  /\ kind = "role" => AlterOf(e) = UpdateRole(e, config)
           /\ kind = "user" => AlterOf(e) = UpdateUser(e, config)
           /\ kind = "settings_profile" => AlterOf(e) = UpdateSettingsProfile(e, config)
           /\ kind = "row_policy" => AlterOf(e) = UpdateRowPolicy(e, config)
           /\ kind = "masking_policy" => AlterOf(e) = UpdateMaskingPolicy(e, config)
           /\ kind = "named_collection" => AlterOf(e) = UpdateNamedCollection(e, tf, row.attrs, config)
BY Zenon DEF AlterOf

LEMMA RowOfIs ==
    ASSUME NEW i, NEW e
    PROVE  /\ kind = "role" => RowOf(i, e) = GetRole(i, e)
           /\ kind = "user" => RowOf(i, e) = GetUser(i, e)
           /\ kind = "settings_profile" => RowOf(i, e) = GetSettingsProfile(i, e)
           /\ kind = "row_policy" => RowOf(i, e) = GetRowPolicyByID(i, e)
           /\ kind = "masking_policy" => RowOf(i, e) = GetMaskingPolicyByID(i, e)
           /\ kind = "database" => RowOf(i, e) = GetDatabase(i, e)
           /\ kind = "named_collection" => RowOf(i, e) = GetNamedCollection(i, e)
BY Zenon DEF RowOf

LEMMA ReadOfIs ==
    ASSUME NEW s, NEW r, NEW answered
    PROVE  /\ kind = "role" => ReadOf(s, r, answered) = RoleRead(s, r)
           /\ kind = "user" => ReadOf(s, r, answered) = UserRead(s, r)
           /\ kind = "settings_profile" => ReadOf(s, r, answered) = ProfileFromApiResponse(s, r)
           /\ kind = "row_policy" => ReadOf(s, r, answered) = RowPolicyRead(s, r, answered)
           /\ kind = "masking_policy" => ReadOf(s, r, answered) = MaskingPolicyRead(s, r, answered)
           /\ kind = "database" => ReadOf(s, r, answered) = DatabaseRead(s, r)
           /\ kind = "named_collection" => ReadOf(s, r, answered) = NamedCollectionRead(s, r)
BY Zenon DEF ReadOf

LEMMA CreatedOfIs ==
    ASSUME NEW r
    PROVE  /\ kind = "role" => CreatedOf(r) = RoleCreated(config, r)
           /\ kind = "user" => CreatedOf(r) = UserCreated(config, r)
           /\ kind = "settings_profile" => CreatedOf(r) = ProfileCreated(r)
           /\ kind = "row_policy" => CreatedOf(r) = RowPolicyWritten(config, r)
           /\ kind = "masking_policy" => CreatedOf(r) = MaskingPolicyWritten(config, r)
           /\ kind = "database" => CreatedOf(r) = SyncDatabaseState(r)
           /\ kind = "named_collection" => CreatedOf(r) = NamedCollectionWritten(config, r.id)
BY Zenon DEF CreatedOf

LEMMA UpdatedOfIs ==
    ASSUME NEW r
    PROVE  /\ kind = "role" => UpdatedOf(r) = RoleUpdated(tf, r)
           /\ kind = "user" => UpdatedOf(r) = UserUpdated(tf, config, r)
           /\ kind = "settings_profile" => UpdatedOf(r) = ProfileFromApiResponse(tf, r)
           /\ kind = "row_policy" => UpdatedOf(r) = RowPolicyWritten(config, r)
           /\ kind = "masking_policy" => UpdatedOf(r) = MaskingPolicyWritten(config, r)
           /\ kind = "named_collection" => UpdatedOf(r) = NamedCollectionWritten(config, tf.id)
BY Zenon DEF UpdatedOf

LEMMA ImportedOfIs ==
    ASSUME NEW r
    PROVE  /\ kind = "role" => ImportedOf(r) = RoleImported(r)
           /\ kind = "user" => ImportedOf(r) = UserImported(r)
           /\ kind = "settings_profile" => ImportedOf(r) = ProfileImported(r)
           /\ kind = "row_policy" => ImportedOf(r) = RowPolicyFromDBOps(r)
           /\ kind = "masking_policy" => ImportedOf(r) = MaskingPolicyImported(r)
           /\ kind = "database" => ImportedOf(r) = DatabaseImported(r)
           /\ kind = "named_collection" => ImportedOf(r) = NamedCollectionImported(r)
BY Zenon DEF ImportedOf

-----------------------------------------------------------------------------
(* What the proofs say of entities and states.                                *)

(* The server keeps expressions in normal form; no shown value looks hidden.  *)
Clean(k, e) ==
    /\ k = "row_policy" => Normal(e.filter) = e.filter
    /\ k = "masking_policy" => Normal(e.where) = e.where
    /\ k = "named_collection" => (ShowSecrets => \A x \in Keys : e.keys[x] # Hidden)

(* The secret keys of a state are in its private state.                       *)
Marked(k, s) == k = "named_collection" => Present(s.attrs.secrets) \subseteq s.mark

(* What a state says of the entity after a current refresh; of the expression *)
(* of a policy only if the refresh compared it.                               *)
Tracks(k, s, c, e) ==
    /\ s.attrs.name = e.name
    /\ k = "settings_profile" => s.attrs.inherit = e.inherit
    /\ k = "row_policy" =>
          /\ s.attrs.grantees = e.grantees
          /\ c => Normal(s.attrs.filter) = e.filter
    /\ k = "masking_policy" =>
          /\ s.attrs.where = Unset => e.where = Unset
          /\ c => Normal(s.attrs.where) = e.where
          /\ s.mark = e.masks \/ (s.attrs.masks = Unset /\ s.mark # Unset)
    /\ k = "database" => s.attrs = e
    /\ k = "named_collection" =>
          /\ Present(s.attrs.keys) \cup Present(s.attrs.secrets) \subseteq Present(e.keys)
          /\ Present(e.keys) \subseteq Present(s.attrs.keys) \cup s.mark
          /\ ShowSecrets => \A x \in Present(s.attrs.keys) : s.attrs.keys[x] = e.keys[x]

(* Applied, of any configuration.                                             *)
Bears(k, want, certain, e) ==
    /\ k \in {"role", "settings_profile", "database"} => e = want
    /\ k = "row_policy" => e = CreateRowPolicy(want)
    /\ k = "user" => e.name = want.name /\ e.auth = want.auth
    /\ k = "masking_policy" =>
          /\ e.name = want.name /\ e.masks = want.masks
          /\ certain => e.where = Normal(want.where)
    /\ k = "named_collection" =>
          /\ \A x \in Present(PlannedKeys(want)) : e.keys[x] = PlannedKeys(want)[x]
          /\ want.flagged \subseteq e.flagged

(* Mine, of any state and server.                                             *)
Own(k, s, db) ==
    {i \in Ids : db[i] # None /\ (IF ById(k) THEN i = s.id ELSE db[i].name = s.attrs.name)}

Tracked(k, s, c, db) ==
    Own(k, s, db) # {} /\ \A i \in Own(k, s, db) : Tracks(k, s, c, db[i])

(* A row with everything that its SELECTs return of the entity.               *)
Whole(i, e) ==
    IF kind = "settings_profile" THEN WithInheritance(RowOf(i, e), e) ELSE RowOf(i, e)

LEMMA MineIsOwn ==
    ASSUME ControlOK, tf # None
    PROVE  Mine = Own(kind, tf, server)
<1>1. tf.id \in Ids
  BY DEF ControlOK, ControlTypes, States, StatesOf
<1>2. CASE ById(kind)
  <2>1. Mine = {i \in {tf.id} : server[i] # None}
    BY <1>2, Zenon DEF Mine
  <2>. QED  BY <1>1, <1>2, <2>1 DEF Own
<1>3. CASE ~ById(kind)
  <2>1. Mine = Named(server, tf.attrs.name)
    BY <1>3, Zenon DEF Mine
  <2>. QED  BY <1>3, <2>1 DEF Named, Own
<1>. QED  BY <1>2, <1>3

LEMMA CreatedAlike ==
    ASSUME NEW want
    PROVE  kind \in {"role", "settings_profile", "database"} => CreateOf(want) = want
BY CreateOfIs DEF CreateRole, CreateSettingsProfile, CreateDatabase

LEMMA AppliedIs ==
    ASSUME kind \in Kind, NEW e
    PROVE  Applied(e) <=> Bears(kind, config, sure, e)
<1>1. CASE kind = "user"
  BY <1>1, Zenon DEF Applied, Bears
<1>2. CASE kind = "masking_policy"
  BY <1>2, Zenon DEF Applied, Bears
<1>3. CASE kind = "named_collection"
  BY <1>3, Zenon DEF Applied, Bears
<1>4. CASE kind \in {"role", "settings_profile", "database"}
  <2>1. Applied(e) <=> e = CreateOf(config)
    BY <1>4, Zenon DEF Applied
  <2>. QED  BY <1>4, <2>1, CreatedAlike DEF Bears
<1>5. CASE kind = "row_policy"
  <2>1. Applied(e) <=> e = CreateOf(config)
    BY <1>5, Zenon DEF Applied
  <2>. QED  BY <1>5, <2>1, CreateOfIs DEF Bears
<1>. QED  BY <1>1, <1>2, <1>3, <1>4, <1>5 DEF Kind

(* A configuration that the provider accepts.                                 *)
Planned(want) == want \in Wanted(kind) /\ (kind = "named_collection" => ValidateConfig(want))

-----------------------------------------------------------------------------
(* What the statements leave on the server.                                   *)

LEMMA NormalTwice ==
    ASSUME NEW e \in Maybe(Expression)
    PROVE  Normal(Normal(e)) = Normal(e)
BY DEF Normal, Maybe, Expression

LEMMA PlannedShown ==
    ASSUME NEW want, ValidateConfig(want)
    PROVE  ShowSecrets => \A x \in Keys : PlannedKeys(want)[x] # Hidden
BY HiddenAssumption, AttributesAssumption DEF ValidateConfig, PlannedKeys, Maybe

(* A CREATE makes the entity what was configured ...                          *)
LEMMA CreateBears ==
    ASSUME kind \in Kind, NEW want, Planned(want), NEW certain
    PROVE  Bears(kind, want, certain, CreateOf(want)) /\ Clean(kind, CreateOf(want))
<1>1. CASE kind = "row_policy"
  <2>1. want \in RowPolicy(Names)
    BY <1>1, RowPolicyIs, Zenon DEF Planned
  <2>2. Normal(Normal(want.filter)) = Normal(want.filter)
    BY <2>1, NormalTwice DEF RowPolicy
  <2>. QED  BY <1>1, <2>1, <2>2, CreateOfIs DEF Bears, Clean, CreateRowPolicy, RowPolicy
<1>2. CASE kind = "masking_policy"
  <2>1. want \in MaskingPolicy(Names)
    BY <1>2, MaskingPolicyIs, Zenon DEF Planned
  <2>2. Normal(Normal(want.where)) = Normal(want.where)
    BY <2>1, NormalTwice DEF MaskingPolicy
  <2>. QED  BY <1>2, <2>1, <2>2, CreateOfIs DEF Bears, Clean, CreateMaskingPolicy, MaskingPolicy
<1>3. CASE kind = "named_collection"
  BY <1>3, PlannedShown, CreateOfIs DEF Planned, Bears, Clean, CreateNamedCollection, Present
<1>4. CASE kind = "user"
  BY <1>4, CreateOfIs DEF Bears, Clean, CreateUser
<1>5. CASE kind \in {"role", "settings_profile", "database"}
  BY <1>5, CreatedAlike DEF Bears, Clean
<1>. QED  BY <1>1, <1>2, <1>3, <1>4, <1>5 DEF Kind

(* ... and so does an ALTER, as long as the state told of the condition of a  *)
(* masking policy.                                                            *)
LEMMA AlterBears ==
    ASSUME kind \in Kind \ {"database"}, Planned(config), NEW e \in Stored(kind), ~Replaces,
           NEW certain, NEW c, certain => Tracks(kind, tf, c, e)
    PROVE  /\ Bears(kind, config, certain, AlterOf(e))
           /\ Clean(kind, e) => Clean(kind, AlterOf(e))
           /\ AlterOf(e).name = IF ById(kind) THEN config.name ELSE e.name
<1>1. CASE kind = "role"
  <2>1. e \in Role(Names) /\ config \in Role(Names)
    BY <1>1, RoleIs, Zenon DEF Planned
  <2>2. AlterOf(e) = UpdateRole(e, config)
    BY <1>1, AlterOfIs
  <2>3. UpdateRole(e, config) = config
    BY <2>1 DEF UpdateRole, Role
  <2>. QED  BY <1>1, <2>2, <2>3 DEF Bears, Clean, ById
<1>2. CASE kind = "user"
  <2>1. e \in User(Names) /\ config \in User(Names)
    BY <1>2, UserIs, Zenon DEF Planned
  <2>. QED  BY <1>2, <2>1, AlterOfIs DEF UpdateUser, User, Bears, Clean, ById
<1>3. CASE kind = "settings_profile"
  <2>1. e \in Profile(Names) /\ config \in Profile(Names)
    BY <1>3, ProfileIs, Zenon DEF Planned
  <2>2. AlterOf(e) = UpdateSettingsProfile(e, config)
    BY <1>3, AlterOfIs
  <2>3. UpdateSettingsProfile(e, config) = config
    BY <2>1 DEF UpdateSettingsProfile, Profile
  <2>. QED  BY <1>3, <2>2, <2>3 DEF Bears, Clean, ById
<1>4. CASE kind = "row_policy"
  <2>1. e \in RowPolicy(Names) /\ config \in RowPolicy(Names)
    BY <1>4, RowPolicyIs, Zenon DEF Planned
  <2>2. Normal(Normal(config.filter)) = Normal(config.filter)
    BY <2>1, NormalTwice DEF RowPolicy
  <2>3. AlterOf(e) = UpdateRowPolicy(e, config)
    BY <1>4, AlterOfIs
  <2>4. /\ UpdateRowPolicy(e, config) = CreateRowPolicy(config)
        /\ CreateRowPolicy(config).filter = Normal(config.filter)
        /\ CreateRowPolicy(config).name = config.name
    BY <2>1 DEF UpdateRowPolicy, CreateRowPolicy, RowPolicy
  <2>. QED  BY <1>4, <2>2, <2>3, <2>4 DEF Bears, Clean, ById
<1>5. CASE kind = "masking_policy"
  <2>1. /\ e \in MaskingPolicy(Names) /\ config \in MaskingPolicy(Names)
        /\ ~MaskingPolicyReplaces(tf, config)
    BY <1>5, MaskingPolicyIs, Zenon DEF Planned, Replaces
  <2>2. Normal(Normal(config.where)) = Normal(config.where) /\ Normal(Unset) = Unset
    BY <2>1, NormalTwice DEF MaskingPolicy, Normal
  <2>3. AlterOf(e) = UpdateMaskingPolicy(e, config)
    BY <1>5, AlterOfIs
  <2>. QED  BY <1>5, <2>1, <2>2, <2>3
    DEF UpdateMaskingPolicy, MaskingPolicyReplaces, Tracks, Bears, Clean, ById
<1>6. CASE kind = "named_collection"
  <2>1. e \in CollectionEntity /\ ValidateConfig(config)
    BY <1>6, CollectionIs, Zenon DEF Planned
  <2>2. AlterOf(e) = UpdateNamedCollection(e, tf, row.attrs, config)
    BY <1>6, AlterOfIs
  <2> DEFINE u == UpdateNamedCollection(e, tf, row.attrs, config)
  <2>3. /\ u.name = e.name /\ config.flagged \subseteq u.flagged
        /\ \A x \in Keys :
              \/ PlannedKeys(config)[x] # Unset /\ u.keys[x] = PlannedKeys(config)[x]
              \/ PlannedKeys(config)[x] = Unset /\ u.keys[x] \in {Unset, e.keys[x]}
    BY DEF UpdateNamedCollection
  <2> HIDE DEF u
  <2>. QED  BY <1>6, <2>1, <2>2, <2>3, PlannedShown, HiddenAssumption
    DEF u, Bears, Clean, ById, Present
<1>. QED  BY <1>1, <1>2, <1>3, <1>4, <1>5, <1>6 DEF Kind

-----------------------------------------------------------------------------
(* What the handlers make of a complete row.                                  *)

LEMMA WholeIs ==
    ASSUME kind \in Kind, NEW i \in Ids, NEW e \in Stored(kind)
    PROVE  /\ Whole(i, e) \in Found(kind)
           /\ Whole(i, e).id = i /\ Whole(i, e).attrs.name = e.name
           /\ kind \in {"role", "settings_profile", "row_policy", "database"} =>
                 Whole(i, e).attrs = e
           /\ kind = "masking_policy" =>
                 Whole(i, e).attrs.masks = e.masks /\ Whole(i, e).attrs.where = e.where
           /\ kind = "named_collection" =>
                 /\ Present(Whole(i, e).attrs.keys) = Present(e.keys)
                 /\ \A x \in Present(e.keys) :
                       Whole(i, e).attrs.keys[x] = IF ShowSecrets THEN e.keys[x] ELSE Hidden
<1>1. CASE kind = "settings_profile"
  <2>1. e \in Profile(Names)
    BY <1>1, ProfileIs, Zenon
  <2>2. Whole(i, e) = WithInheritance(GetSettingsProfile(i, e), e)
    BY <1>1, RowOfIs DEF Whole
  <2>3. [[e EXCEPT !.inherit = Unset] EXCEPT !.inherit = e.inherit] = e
    BY <2>1 DEF Profile
  <2>4. WithInheritance(GetSettingsProfile(i, e), e) = [id |-> i, attrs |-> e]
    BY <2>3 DEF WithInheritance, GetSettingsProfile, Row
  <2>. QED  BY <1>1, <2>1, <2>2, <2>4, ProfileIs DEF Found, Rows
<1>2. CASE kind # "settings_profile"
  <2>1. /\ Whole(i, e) = RowOf(i, e) /\ Whole(i, e) \in Found(kind)
        /\ Whole(i, e).id = i /\ Whole(i, e).attrs.name = e.name
    BY <1>2, RowType DEF Whole
  <2>2. CASE kind \in {"role", "row_policy", "database"}
    BY <2>1, <2>2, RowOfIs DEF GetRole, GetRowPolicyByID, GetDatabase, Row
  <2>3. CASE kind = "masking_policy"
    <3>1. e \in MaskingPolicy(Names)
      BY <2>3, MaskingPolicyIs, Zenon
    <3>. QED  BY <2>1, <2>3, <3>1, RowOfIs DEF GetMaskingPolicyByID, Hash, Row, MaskingPolicy
  <2>4. CASE kind = "named_collection"
    <3>1. Whole(i, e).attrs.keys =
            [k \in Keys |-> IF ShowSecrets \/ e.keys[k] = Unset THEN e.keys[k] ELSE Hidden]
      BY <2>1, <2>4, RowOfIs DEF GetNamedCollection, Row
    <3>. QED  BY <2>1, <2>4, <3>1, HiddenAssumption DEF Present
  <2>5. CASE kind = "user"
    BY <2>1, <2>5
  <2>. QED  BY <1>2, <2>2, <2>3, <2>4, <2>5 DEF Kind
<1>. QED  BY <1>1, <1>2

(* A refresh records what the row tells of the entity.                        *)
LEMMA ReadTracks ==
    ASSUME kind \in Kind, NEW s \in States(kind), NEW i \in Ids, NEW e \in Stored(kind),
           Clean(kind, e), Marked(kind, s), NEW answered \in BOOLEAN,
           kind = "named_collection" => s.attrs.name = e.name
    PROVE  Tracks(kind, ReadOf(s, Whole(i, e), answered), answered, e)
<1> DEFINE r == Whole(i, e)
<1>1. r.attrs.name = e.name /\ r.id = i
  BY WholeIs
<1>2. CASE kind = "role"
  <2>1. s \in StatesOf(Role(Maybe(Names)))
    BY <1>2, RoleIs, Zenon DEF States
  <2>. QED  BY <1>1, <1>2, <2>1, ReadOfIs DEF RoleRead, Tracks, StatesOf, Role
<1>3. CASE kind = "user"
  <2>1. s \in StatesOf(User(Maybe(Names)))
    BY <1>3, UserIs, Zenon DEF States
  <2>. QED  BY <1>1, <1>3, <2>1, ReadOfIs DEF UserRead, Tracks, StatesOf, User
<1>4. CASE kind = "settings_profile"
  <2>1. s \in StatesOf(Profile(Maybe(Names))) /\ r.attrs = e
    BY <1>4, ProfileIs, WholeIs DEF States
  <2>2. /\ ProfileFromApiResponse(s, r).attrs.name = e.name
        /\ ProfileFromApiResponse(s, r).attrs.inherit = e.inherit
    BY <2>1 DEF ProfileFromApiResponse, StatesOf
  <2>. QED  BY <1>4, <2>2, ReadOfIs DEF Tracks
<1>5. CASE kind = "row_policy"
  <2>1. e \in RowPolicy(Names) /\ r.attrs = e
    BY <1>5, RowPolicyIs, WholeIs DEF States
  <2>2. ReadOf(s, r, answered) = RowPolicyRead(s, r, answered)
    BY <1>5, ReadOfIs
  <2>3. /\ RowPolicyRead(s, r, answered).attrs.name = e.name
        /\ RowPolicyRead(s, r, answered).attrs.grantees = e.grantees
        /\ answered => \/ RowPolicyRead(s, r, answered).attrs.filter = e.filter
                       \/ Normal(RowPolicyRead(s, r, answered).attrs.filter) = e.filter
    BY <2>1 DEF RowPolicyRead, RowPolicyFromDBOps, State, RowPolicy
  <2>. QED  BY <1>5, <2>2, <2>3 DEF Tracks, Clean
<1>6. CASE kind = "masking_policy"
  <2>1. r.attrs.masks = e.masks /\ r.attrs.where = e.where
    BY <1>6, WholeIs
  <2>2. ReadOf(s, r, answered) = MaskingPolicyRead(s, r, answered)
    BY <1>6, ReadOfIs
  <2>3. /\ MaskingPolicyRead(s, r, answered).attrs.name = e.name
        /\ MaskingPolicyRead(s, r, answered).attrs.where = Unset => e.where = Unset
        /\ answered => \/ MaskingPolicyRead(s, r, answered).attrs.where = e.where
                       \/ Normal(MaskingPolicyRead(s, r, answered).attrs.where) = e.where
        /\ \/ MaskingPolicyRead(s, r, answered).mark = e.masks
           \/ /\ MaskingPolicyRead(s, r, answered).attrs.masks = Unset
              /\ MaskingPolicyRead(s, r, answered).mark # Unset
    BY <1>1, <2>1 DEF MaskingPolicyRead, MasksRead, NormalizedEquals
  <2>. QED  BY <1>6, <2>2, <2>3 DEF Tracks, Clean
<1>7. CASE kind = "database"
  <2>1. r.attrs = e
    BY <1>7, WholeIs
  <2>2. DatabaseRead(s, r).attrs = r.attrs
    BY DEF DatabaseRead, SyncDatabaseState, State
  <2>. QED  BY <1>1, <1>7, <2>1, <2>2, ReadOfIs DEF Tracks
<1>8. CASE kind = "named_collection"
  <2>1. /\ Present(r.attrs.keys) = Present(e.keys)
        /\ \A x \in Present(e.keys) :
              r.attrs.keys[x] = IF ShowSecrets THEN e.keys[x] ELSE Hidden
    BY <1>8, WholeIs
  <2>2. s \in StatesOf(Collection(Maybe(Names)))
    BY <1>8, CollectionIs, Zenon DEF States
  <2> DEFINE n == NamedCollectionRead(s, r)
  <2>3. /\ n.attrs.name = s.attrs.name /\ n.mark = s.mark
        /\ n.attrs.keys = [k \in Keys |-> KeyRead(s, r, k)]
        /\ n.attrs.secrets = IF s.mark \subseteq Present(r.attrs.keys)
                             THEN s.attrs.secrets ELSE NoKeys
    BY <2>2 DEF NamedCollectionRead, StatesOf, Collection
  <2>4. Present(n.attrs.secrets) \subseteq Present(e.keys)
    <3>1. CASE s.mark \subseteq Present(r.attrs.keys)
      BY <1>8, <2>1, <2>3, <3>1 DEF Marked
    <3>2. CASE ~(s.mark \subseteq Present(r.attrs.keys))
      BY <2>3, <3>2 DEF NoKeys, Present
    <3>. QED  BY <3>1, <3>2
  <2>5. ASSUME NEW k \in Keys, k \notin Present(e.keys)
        PROVE  n.attrs.keys[k] = Unset
    <3>1. r.attrs.keys[k] = Unset
      BY <2>1, <2>5 DEF Present
    <3>2. KeyRead(s, r, k) = Unset
      BY <3>1, HiddenAssumption, Zenon DEF KeyRead
    <3>. QED  BY <2>3, <2>5, <3>2
  <2>6. ASSUME NEW k \in Present(e.keys)
        PROVE  /\ n.attrs.keys[k] # Unset \/ k \in s.mark
               /\ ShowSecrets /\ n.attrs.keys[k] # Unset => n.attrs.keys[k] = e.keys[k]
    <3>1. /\ k \in Keys /\ r.attrs.keys[k] # Unset
          /\ ShowSecrets => r.attrs.keys[k] = e.keys[k] /\ e.keys[k] # Hidden
      BY <1>8, <2>1, <2>6 DEF Present, Clean
    <3>2. \/ /\ s.attrs.keys[k] # Unset /\ r.attrs.keys[k] = Hidden
             /\ KeyRead(s, r, k) = s.attrs.keys[k]
          \/ k \in s.mark /\ KeyRead(s, r, k) = Unset
          \/ KeyRead(s, r, k) = r.attrs.keys[k]
      BY <3>1, Zenon DEF KeyRead
    <3>. QED  BY <2>3, <3>1, <3>2
  <2> HIDE DEF n
  <2>7. Tracks(kind, n, answered, e)
    BY <1>8, <2>3, <2>4, <2>5, <2>6 DEF Tracks, Present
  <2>. QED  BY <1>8, <2>7, ReadOfIs DEF n
<1>. QED  BY <1>2, <1>3, <1>4, <1>5, <1>6, <1>7, <1>8 DEF Kind

(* ... under the id or the name that the state already had.                   *)
LEMMA ReadKeeps ==
    ASSUME kind \in Kind, NEW s \in States(kind), NEW r \in Found(kind), Marked(kind, s),
           NEW answered \in BOOLEAN, ById(kind) => s.id = r.id
    PROVE  /\ ReadOf(s, r, answered) \in States(kind)
           /\ Marked(kind, ReadOf(s, r, answered))
           /\ ReadOf(s, r, answered).id = s.id
           /\ ~ById(kind) => ReadOf(s, r, answered).attrs.name = s.attrs.name
<1>1. ReadOf(s, r, answered) \in States(kind)
  BY ReadType
<1>2. CASE kind \in {"role", "user"}
  BY <1>1, <1>2, ReadOfIs DEF RoleRead, UserRead, States, StatesOf, Marked, ById
<1>3. CASE kind = "settings_profile"
  <2>1. ReadOf(s, r, answered) = ProfileFromApiResponse(s, r) /\ s.id = r.id
    BY <1>3, ReadOfIs DEF ById
  <2>2. ProfileFromApiResponse(s, r).id = r.id
    BY DEF ProfileFromApiResponse, States, StatesOf
  <2>. QED  BY <1>1, <1>3, <2>1, <2>2 DEF Marked, ById
<1>4. CASE kind = "row_policy"
  <2>1. ReadOf(s, r, answered) = RowPolicyRead(s, r, answered) /\ s.id = r.id
    BY <1>4, ReadOfIs DEF ById
  <2>2. RowPolicyRead(s, r, answered).id = r.id
    BY DEF RowPolicyRead, RowPolicyFromDBOps, State
  <2>. QED  BY <1>1, <1>4, <2>1, <2>2 DEF Marked, ById
<1>5. CASE kind = "masking_policy"
  BY <1>1, <1>5, ReadOfIs DEF MaskingPolicyRead, Marked, ById
<1>6. CASE kind = "database"
  <2>1. DatabaseRead(s, r).id = r.id
    BY DEF DatabaseRead, SyncDatabaseState, State
  <2>. QED  BY <1>1, <1>6, <2>1, ReadOfIs DEF Marked, ById
<1>7. CASE kind = "named_collection"
  <2>1. s \in StatesOf(Collection(Maybe(Names)))
    BY <1>7, CollectionIs, Zenon DEF States
  <2> DEFINE n == NamedCollectionRead(s, r)
  <2>2. /\ n.attrs.name = s.attrs.name /\ n.id = s.id /\ n.mark = s.mark
        /\ n.attrs.secrets = s.attrs.secrets \/ n.attrs.secrets = NoKeys
    BY <2>1 DEF NamedCollectionRead, StatesOf, Collection
  <2>3. Present(NoKeys) = {}
    BY DEF Present, NoKeys
  <2> HIDE DEF n
  <2>4. Marked(kind, n)
    BY <1>7, <2>2, <2>3 DEF Marked
  <2>. QED  BY <1>1, <1>7, <2>2, <2>4, ReadOfIs DEF n, ById
<1>. QED  BY <1>2, <1>3, <1>4, <1>5, <1>6, <1>7 DEF Kind

(* An import knows the id, and the name and all keys of a named collection.   *)
LEMMA ImportKnows ==
    ASSUME kind \in Kind, NEW r \in Found(kind)
    PROVE  /\ ImportedOf(r) \in States(kind) /\ Marked(kind, ImportedOf(r))
           /\ ImportedOf(r).id = r.id
           /\ ~ById(kind) => ImportedOf(r).attrs.name = r.attrs.name
<1>1. ImportedOf(r) \in States(kind)
  BY ImportedType
<1>2. CASE kind # "named_collection"
  <2>1. /\ RoleImported(r).id = r.id /\ UserImported(r).id = r.id
        /\ ProfileImported(r).id = r.id /\ RowPolicyFromDBOps(r).id = r.id
        /\ MaskingPolicyImported(r).id = r.id /\ DatabaseImported(r).id = r.id
    BY DEF RoleImported, UserImported, ProfileImported, RowPolicyFromDBOps,
           MaskingPolicyImported, MaskingPolicyFromDBOps, DatabaseImported, State
  <2>2. ImportedOf(r).id = r.id
    BY <1>2, <2>1, ImportedOfIs, Zenon DEF Kind
  <2>. QED  BY <1>1, <1>2, <2>2 DEF Marked, ById
<1>3. CASE kind = "named_collection"
  <2>1. Present(NoKeys) = {}
    BY DEF Present, NoKeys
  <2> DEFINE n == NamedCollectionImported(r)
  <2>2. /\ n.id = r.id /\ n.attrs.name = r.attrs.name /\ n.attrs.secrets = NoKeys
    BY DEF NamedCollectionImported, State
  <2>3. ImportedOf(r) = n
    BY <1>3, ImportedOfIs
  <2> HIDE DEF n
  <2>. QED  BY <1>1, <2>1, <2>2, <2>3 DEF Marked
<1>. QED  BY <1>2, <1>3

(* What a create records is the configuration, if that is what the entity     *)
(* bears; and if it is the configuration, then the entity has its name, and a *)
(* settings profile its parents.                                              *)
LEMMA CreatedFits ==
    ASSUME kind \in Kind, Planned(config), NEW i \in Ids, NEW e \in Stored(kind), NEW certain
    PROVE  /\ CreatedOf(Whole(i, e)).id = i
           /\ Marked(kind, CreatedOf(Whole(i, e)))
           /\ Bears(kind, config, certain, e) => CreatedOf(Whole(i, e)).attrs = config
           /\ CreatedOf(Whole(i, e)).attrs = config =>
                 /\ ById(kind) => e.name = config.name
                 /\ kind = "settings_profile" => Bears(kind, config, certain, e)
<1> DEFINE r == Whole(i, e)
<1>1. r.id = i /\ r.attrs.name = e.name
  BY WholeIs
<1>2. CASE kind = "role"
  <2>1. config \in Role(Names) /\ e \in Role(Names)
    BY <1>2, RoleIs, Zenon DEF Planned
  <2>2. [name |-> r.attrs.name] = e
    BY <1>1, <2>1 DEF Role
  <2>3. RoleCreated(config, r).id = i /\ RoleCreated(config, r).attrs = e
    BY <1>1, <2>2 DEF RoleCreated, State
  <2>. QED  BY <1>2, <2>3, CreatedOfIs DEF Bears, Marked, ById
<1>3. CASE kind = "user"
  <2>1. config \in User(Names)
    BY <1>3, UserIs, Zenon DEF Planned
  <2> DEFINE n == UserCreated(config, r)
  <2>2. /\ n.id = i
        /\ n.attrs = [name |-> e.name, hosts |-> config.hosts, auth |-> config.auth]
    BY <1>1 DEF UserCreated, State
  <2> HIDE DEF n
  <2>3. e.name = config.name => n.attrs = config
    BY <2>1, <2>2 DEF User
  <2>4. CreatedOf(r) = n
    BY <1>3, CreatedOfIs DEF n
  <2>. QED  BY <1>3, <2>2, <2>3, <2>4 DEF Bears, Marked, ById
<1>4. CASE kind = "settings_profile"
  <2>1. e \in Profile(Names) /\ r.attrs = e
    BY <1>4, ProfileIs, WholeIs
  <2>2. [name |-> e.name, inherit |-> e.inherit] = e
    BY <2>1 DEF Profile
  <2>3. /\ ProfileCreated(r).id = i
        /\ ProfileCreated(r).attrs = [name |-> e.name, inherit |-> e.inherit]
    BY <1>1, <2>1 DEF ProfileCreated, ProfileFromApiResponse, ProfileImported, State
  <2>. QED  BY <1>4, <2>2, <2>3, CreatedOfIs DEF Bears, Marked, ById
<1>5. CASE kind = "row_policy"
  <2>1. /\ config \in RowPolicy(Names) /\ e \in RowPolicy(Names)
        /\ r.attrs = e
    BY <1>5, RowPolicyIs, WholeIs DEF Planned
  <2> DEFINE n == RowPolicyWritten(config, r)
  <2>2. n.id = i /\ n.attrs = [e EXCEPT !.filter = config.filter]
    BY <1>1, <2>1 DEF RowPolicyWritten, RowPolicyFromDBOps, State
  <2> HIDE DEF n
  <2>3. /\ e = CreateRowPolicy(config) => [e EXCEPT !.filter = config.filter] = config
        /\ [e EXCEPT !.filter = config.filter] = config => e.name = config.name
    BY <2>1 DEF CreateRowPolicy, RowPolicy
  <2>4. CreatedOf(r) = n
    BY <1>5, CreatedOfIs DEF n
  <2>. QED  BY <1>5, <2>2, <2>3, <2>4 DEF Bears, Marked, ById
<1>6. CASE kind = "masking_policy"
  <2>1. config \in MaskingPolicy(Names) /\ r \in Rows(MaskingPolicy(Names))
    BY <1>6, MaskingPolicyIs, WholeIs, Zenon DEF Planned, Found
  <2>2. CreatedOf(r) = MaskingPolicyWritten(config, r)
    BY <1>6, CreatedOfIs
  <2>3. /\ MaskingPolicyWritten(config, r).id = i
        /\ MaskingPolicyWritten(config, r).attrs =
              [name |-> e.name, masks |-> config.masks, where |-> config.where]
    BY <1>1, <2>1 DEF MaskingPolicyWritten, MaskingPolicyFromDBOps, State, Rows, MaskingPolicy
  <2>4. e.name = config.name =>
          [name |-> e.name, masks |-> config.masks, where |-> config.where] = config
    BY <2>1 DEF MaskingPolicy
  <2>. QED  BY <1>6, <2>2, <2>3, <2>4 DEF Bears, Marked, ById
<1>7. CASE kind = "database"
  <2>1. CreatedOf(r).id = i /\ CreatedOf(r).attrs = e
    BY <1>1, <1>7, WholeIs, CreatedOfIs DEF SyncDatabaseState, State
  <2>. QED  BY <1>7, <2>1 DEF Bears, Marked, ById
<1>8. CASE kind = "named_collection"
  BY <1>1, <1>8, CreatedOfIs DEF NamedCollectionWritten, State, Bears, Marked, ById
<1>. QED  BY <1>2, <1>3, <1>4, <1>5, <1>6, <1>7, <1>8 DEF Kind

(* The same of an update.                                                     *)
LEMMA UpdatedFits ==
    ASSUME kind \in Kind \ {"database"}, Planned(config), tf \in States(kind),
           NEW i \in Ids, NEW e \in Stored(kind), NEW certain, ById(kind) => tf.id = i
    PROVE  /\ UpdatedOf(Whole(i, e)).id = tf.id
           /\ Marked(kind, UpdatedOf(Whole(i, e)))
           /\ Bears(kind, config, certain, e) => UpdatedOf(Whole(i, e)).attrs = config
<1> DEFINE r == Whole(i, e)
<1>1. r.id = i /\ r.attrs.name = e.name
  BY WholeIs
<1>2. CASE kind = "role"
  <2>1. tf \in StatesOf(Role(Maybe(Names))) /\ e \in Role(Names)
    BY <1>2, RoleIs, Zenon DEF States
  <2>2. RoleUpdated(tf, r).attrs = e /\ RoleUpdated(tf, r).id = tf.id
    BY <1>1, <2>1 DEF RoleUpdated, StatesOf, Role
  <2>. QED  BY <1>2, <2>2, UpdatedOfIs DEF Bears, Marked
<1>3. CASE kind = "user"
  <2>1. config \in User(Names)
    BY <1>3, UserIs, Zenon DEF Planned
  <2> DEFINE n == UserUpdated(tf, config, r)
  <2>2. /\ n.id = tf.id
        /\ n.attrs = [name |-> e.name, hosts |-> config.hosts, auth |-> config.auth]
    BY <1>1 DEF UserUpdated, State
  <2> HIDE DEF n
  <2>3. e.name = config.name => n.attrs = config
    BY <2>1, <2>2 DEF User
  <2>4. UpdatedOf(r) = n
    BY <1>3, UpdatedOfIs DEF n
  <2>. QED  BY <1>3, <2>2, <2>3, <2>4 DEF Bears, Marked
<1>4. CASE kind = "settings_profile"
  <2>1. e \in Profile(Names) /\ r.attrs = e
    BY <1>4, ProfileIs, WholeIs
  <2>2. [name |-> e.name, inherit |-> e.inherit] = e
    BY <2>1 DEF Profile
  <2>3. /\ ProfileFromApiResponse(tf, r).id = tf.id
        /\ ProfileFromApiResponse(tf, r).attrs = [name |-> e.name, inherit |-> e.inherit]
    BY <1>1, <1>4, <2>1 DEF ProfileFromApiResponse, States, StatesOf, ById
  <2>. QED  BY <1>4, <2>2, <2>3, UpdatedOfIs DEF Bears, Marked
<1>5. CASE kind \in {"row_policy", "masking_policy"}
  <2>1. UpdatedOf(r) = CreatedOf(r) /\ tf.id = i
    BY <1>5, UpdatedOfIs, CreatedOfIs DEF ById
  <2>. QED  BY <2>1, CreatedFits
<1>6. CASE kind = "named_collection"
  BY <1>6, UpdatedOfIs DEF NamedCollectionWritten, State, Marked
<1>. QED  BY <1>2, <1>3, <1>4, <1>5, <1>6 DEF Kind

(* A state that equals the configuration and tracks the entity hides no drift *)
(* that the server shows.                                                     *)
LEMMA TracksMatches ==
    ASSUME kind \in Kind, Planned(config), NEW e \in Stored(kind),
           Tracks(kind, tf, compared, e), tf.attrs = config
    PROVE  Matches(e)
<1>1. CASE kind = "user"
  <2>1. e.name = config.name
    BY DEF Tracks
  <2>. QED  BY <1>1, <2>1, Zenon DEF Matches
<1>2. CASE kind = "masking_policy"
  <2>1. /\ e.name = config.name
        /\ compared => e.where = Normal(config.where)
        /\ tf.mark = config.masks => e.masks = config.masks
    BY <1>2 DEF Tracks
  <2>. QED  BY <1>2, <2>1, Zenon DEF Matches
<1>3. CASE kind = "named_collection"
  <2>1. Present(PlannedKeys(config)) = Present(config.keys) \cup Present(config.secrets)
    BY DEF Present, PlannedKeys
  <2>2. /\ Present(PlannedKeys(config)) \subseteq Present(e.keys)
        /\ Present(e.keys) \subseteq Present(PlannedKeys(config)) \cup tf.mark
        /\ ShowSecrets => \A k \in Present(config.keys) : e.keys[k] = config.keys[k]
    BY <1>3, <2>1 DEF Tracks
  <2>. QED  BY <1>3, <2>2, Zenon DEF Matches
<1>4. CASE kind \in {"role", "settings_profile", "database"}
  <2>1. e = CreateOf(config)
    <3>1. CASE kind = "role"
      <4>1. e \in Role(Names) /\ config \in Role(Names)
        BY <3>1, RoleIs, Zenon DEF Planned
      <4>2. e = config
        BY <4>1 DEF Role, Tracks
      <4>. QED  BY <3>1, <4>2, CreatedAlike
    <3>2. CASE kind = "settings_profile"
      <4>1. e \in Profile(Names) /\ config \in Profile(Names)
        BY <3>2, ProfileIs, Zenon DEF Planned
      <4>2. e = config
        BY <3>2, <4>1 DEF Profile, Tracks
      <4>. QED  BY <3>2, <4>2, CreatedAlike
    <3>3. CASE kind = "database"
      BY <3>3, CreatedAlike DEF Tracks
    <3>. QED  BY <1>4, <3>1, <3>2, <3>3
  <2>2. Matches(e) <=> e = CreateOf(config)
    BY <1>4, Zenon DEF Matches
  <2>. QED  BY <2>1, <2>2
<1>5. CASE kind = "row_policy"
  <2>1. /\ e.name = config.name /\ e.grantees = config.grantees
        /\ compared => e.filter = Normal(config.filter)
    BY <1>5 DEF Tracks
  <2>. QED  BY <1>5, <2>1, Zenon DEF Matches
<1>. QED  BY <1>1, <1>2, <1>3, <1>4, <1>5 DEF Kind

LEMMA WrittenMarks ==
    ASSUME kind \in Kind, NEW r
    PROVE  /\ Marked(kind, CreatedOf(r))
           /\ kind # "database" => Marked(kind, UpdatedOf(r))
<1>1. CASE kind = "named_collection"
  BY <1>1, CreatedOfIs, UpdatedOfIs DEF NamedCollectionWritten, State, Marked
<1>2. CASE kind # "named_collection"
  BY <1>2 DEF Marked
<1>. QED  BY <1>1, <1>2

LEMMA BearsLess ==
    ASSUME NEW k, NEW want, NEW e, NEW c, NEW d, c => d, Bears(k, want, d, e)
    PROVE  Bears(k, want, c, e)
BY DEF Bears

-----------------------------------------------------------------------------
(* The invariant.                                                             *)

ServerClean == \A i \in Ids : server[i] # None => Clean(kind, server[i])

StateMarked == tf # None => Marked(kind, tf)

(* What was asked and checked when the operation began.                       *)
Begun ==
    /\ pc = "idle" => op = "none" /\ ~wrote
    /\ pc # "idle" => outcome = "none" /\ ~synced
    /\ op = "create" => tf = None /\ (pc \in {"find", "lookup", "elements", "sync"} => wrote)
    /\ op = "update" => tf.attrs # config /\ ~Replaces
    /\ op = "refresh" \/ (op = "import" /\ wrote) =>
          /\ pc \in {"lookup", "elements"} => target = tf.id
          /\ pc = "find" => ~ById(kind) /\ Sought = tf.attrs.name
    /\ pc = "normalize" => row.id = tf.id /\ (op = "import" => wrote)
    /\ sure => ~disturbed /\ op \notin {"refresh", "import"}

(* A row that is said to be current is that of the entity as it is.           *)
RowInHand ==
    /\ pc = "elements" =>
          /\ fresh => view = server /\ row = GetSettingsProfile(row.id, server[row.id])
          /\ sure => fresh
    /\ pc = "write" /\ op = "update" /\ ~ById(kind) =>
          /\ row.attrs.name = tf.attrs.name
          /\ fresh => server[row.id] # None /\ row = GetNamedCollection(row.id, server[row.id])
    /\ pc = "normalize" /\ fresh =>
          /\ view = server /\ server[row.id] # None
          /\ kind = "row_policy" => row = GetRowPolicyByID(row.id, server[row.id])
          /\ kind = "masking_policy" => row = GetMaskingPolicyByID(row.id, server[row.id])
    /\ pc \in {"lookup", "sync"} /\ op = "create" /\ sure =>
          server[target] # None /\ server[target].name = config.name

(* Nobody acted since an update began.                                        *)
Alone ==
    ~disturbed /\ op = "update" /\ ~wrote =>
        view = server /\ (pc \in {"elements", "write"} => fresh)

(* The state is as the server has it: since the last refresh, and of a plan   *)
(* that was made from it until its statement.                                 *)
InStep ==
    /\ synced /\ tf # None => Tracked(kind, tf, compared, server)
    /\ sure /\ op \in Changing /\ ~wrote => Tracked(kind, tf, compared, server)

(* What the statement of a create or an update made is there.                 *)
Made ==
    /\ op = "create" /\ wrote /\ ~disturbed =>
          /\ Named(server, config.name) # {}
          /\ kind # "settings_profile" =>
                \A i \in Named(server, config.name) : Bears(kind, config, sure, server[i])
    /\ op = "update" /\ wrote /\ ~disturbed =>
          server[tf.id] # None /\ Bears(kind, config, sure, server[tf.id])

(* The two properties of outcomes, of any state and server.                   *)
Bearing(k, s, db, want, certain) ==
    Own(k, s, db) # {} /\ \A i \in Own(k, s, db) : Bears(k, want, certain, db[i])

Excused(k, s, db, want) ==
    \/ \E i \in Named(db, want.name) : s = None \/ i \notin Own(k, s, db)
    \/ k = "settings_profile" /\ s # None /\ s.tainted

Unlucky == {"failed", "panic", "forgotten"}

Succeeded ==
    outcome = "applied" /\ ~disturbed /\ fresh =>
        tf # None /\ Bearing(kind, tf, server, config, sure)

Surely == sure /\ outcome \in Unlucky => Excused(kind, tf, server, config)

Outcomes == Succeeded /\ Surely

Promise ==
    /\ ServerClean /\ StateMarked /\ Begun /\ RowInHand /\ Alone /\ InStep /\ Made
    /\ Outcomes

LEMMA ConfigPlanned ==
    ASSUME DataOK
    PROVE  /\ Planned(config) /\ \A want \in Configurations(kind) : Planned(want)
           /\ kind \in Kind
           /\ None \notin Stored(kind) /\ None \notin States(kind)
BY ConfigurationsAssumption, KindsAssumption, NoneAssumption
DEF DataOK, Planned, States, StatesOf, Marks

-----------------------------------------------------------------------------
(* The pieces that the steps are made of.                                     *)

(* The end of an operation.                                                   *)
LEMMA EndPromise ==
    ASSUME Promise, kind' = kind, config' = config, disturbed' = disturbed, sure' => sure,
           NEW result, NEW s, End(result, s),
           ServerClean', s # None => Marked(kind, s),
           synced' /\ s # None => Tracked(kind, s, compared', server'),
           result = "applied" /\ ~disturbed /\ fresh' =>
               s # None /\ Bearing(kind, s, server', config, sure'),
           sure' /\ result \in Unlucky => Excused(kind, s, server', config)
    PROVE  Promise'
<1>1. /\ outcome' = result /\ tf' = s /\ op' = "none" /\ pc' = "idle"
      /\ target' = None /\ row' = None /\ wrote' = FALSE
  BY DEF End
<1>2. StateMarked' /\ Begun'
  BY <1>1 DEF StateMarked, Promise, Begun
<1>3. RowInHand' /\ Alone' /\ Made'
  BY <1>1 DEF RowInHand, Alone, Made
<1>4. InStep'
  BY <1>1 DEF InStep, Changing
<1>5. Outcomes'
  BY <1>1 DEF Outcomes, Succeeded, Surely
<1>. QED  BY <1>2, <1>3, <1>4, <1>5 DEF Promise

(* An operation that fails leaves its state as it was.                        *)
LEMMA FailPromise ==
    ASSUME Promise, pc # "idle", kind' = kind, config' = config, disturbed' = disturbed,
           sure' => sure, synced' = synced,
           NEW result \in Unlucky, Fail(result), ServerClean',
           sure' => Excused(kind, tf, server', config)
    PROVE  Promise'
<1> DEFINE s == IF op = "import" THEN None ELSE tf
<1>1. End(result, s) /\ ~synced' /\ result # "applied"
  BY DEF Fail, Promise, Begun, Unlucky
<1>2. s # None => Marked(kind, s)
  BY DEF Promise, StateMarked
<1>3. sure' => s = tf
  BY DEF Promise, Begun
<1> HIDE DEF s
<1>. QED  BY <1>1, <1>2, <1>3, EndPromise

(* A create or an update that succeeds, or returns another value than planned.*)
LEMMA RecordPromise ==
    ASSUME DataOK, Promise, pc # "idle",
           kind' = kind, config' = config, disturbed' = disturbed,
           sure' => sure, synced' = synced,
           NEW s \in States(kind), Record(s), Marked(kind, s), ServerClean',
           s.attrs = config /\ ~disturbed /\ fresh' => Bearing(kind, s, server', config, sure'),
           sure' => s.attrs = config \/ (kind = "settings_profile" /\ op = "create")
    PROVE  Promise'
<1> DEFINE t == [s EXCEPT !.tainted = (op = "create" /\ s.attrs # config)]
           result == IF s.attrs = config THEN "applied" ELSE "failed"
<1>1. End(result, t) /\ ~synced'
  BY DEF Record, Promise, Begun
<1>2. /\ t.attrs = s.attrs /\ t.id = s.id /\ t.mark = s.mark
      /\ t.tainted = (op = "create" /\ s.attrs # config)
  BY DEF States, StatesOf
<1>3. \A i \in Ids : i \in Own(kind, t, server') <=> i \in Own(kind, s, server')
  BY <1>2 DEF Own
<1>4. t # None /\ Marked(kind, t)
  <2>1. t \in States(kind)
    BY DEF States, StatesOf
  <2>. QED  BY <1>2, <2>1, ConfigPlanned DEF Marked
<1>5. result = "applied" /\ ~disturbed /\ fresh' => Bearing(kind, t, server', config, sure')
  BY <1>3 DEF Bearing, Own
<1>6. sure' /\ result \in Unlucky => Excused(kind, t, server', config)
  BY <1>2, <1>4 DEF Excused, Unlucky
<1>7. result \in {"applied", "failed"}
  OBVIOUS
<1> HIDE DEF t, result
<1>. QED  BY <1>1, <1>4, <1>5, <1>6, EndPromise

(* What is gone already need not be dropped.                                  *)
LEMMA DroppedPromise ==
    ASSUME Promise, pc # "idle", op \in Dropper, Dropped, ServerClean',
           kind' = kind, config' = config, disturbed' = disturbed,
           sure' => sure, synced' = synced
    PROVE  Promise'
<1>1. CASE op = "delete"
  <2>1. End("destroyed", None) /\ ~synced'
    BY <1>1 DEF Dropped, Promise, Begun
  <2>. QED  BY <2>1, EndPromise DEF Unlucky
<1>2. CASE op # "delete"
  <2>1. /\ tf' = None /\ op' = "create" /\ pc' = "write"
        /\ target' = None /\ row' = None /\ wrote' = FALSE /\ outcome' = outcome
    BY <1>2 DEF Dropped
  <2>2. StateMarked' /\ Begun'
    BY <2>1 DEF StateMarked, Promise, Begun
  <2>3. RowInHand' /\ Alone' /\ Made' /\ InStep'
    BY <2>1 DEF RowInHand, Alone, Made, InStep, Changing
  <2>4. Outcomes'
    BY <2>1 DEF Promise, Begun, Outcomes, Succeeded, Surely, Unlucky
  <2>. QED  BY <2>2, <2>3, <2>4 DEF Promise
<1>. QED  BY <1>1, <1>2

(* The beginning of an operation.                                             *)
LEMMA BeginPromise ==
    ASSUME Inv, Promise, NEW o \in Op \ {"none"}, NEW at \in {"find", "lookup", "write"},
           Begin(o, at),
           o \in Changing \cup {"refresh"} => tf # None,
           o \in {"create", "import"} => tf = None,
           o = "create" => at = "write",
           o = "update" => at # "write" /\ tf.attrs # config /\ ~Replaces,
           o = "refresh" /\ at = "find" => ~ById(kind)
    PROVE  Promise'
<1>1. /\ kind' = kind /\ config' = config /\ server' = server /\ view' = view /\ tf' = tf
      /\ op' = o /\ pc' = at /\ row' = None /\ wrote' = FALSE /\ outcome' = "none"
      /\ target' = IF at = "lookup" THEN tf.id ELSE None
      /\ disturbed' = (view # server) /\ fresh' = FALSE /\ synced' = FALSE
      /\ sure' = (o \notin {"refresh", "import"} /\ view = server /\ (tf = None \/ synced))
      /\ o \in Changing => compared' = compared
  BY DEF Begin, data, Inv, HistoryOK, Changing
<1>2. ServerClean' /\ StateMarked'
  BY <1>1 DEF Promise, ServerClean, StateMarked
<1>3. Begun'
  <2>1. o = "update" => ~Replaces'
    BY <1>1 DEF Replaces, UserReplaces, MaskingPolicyReplaces, DatabaseReplaces,
                NamedCollectionReplaces, FlagReset
  <2>. QED  BY <1>1, <2>1 DEF Begun, Sought
<1>4. RowInHand' /\ Made'
  BY <1>1 DEF RowInHand, Made
<1>5. Alone'
  BY <1>1 DEF Alone
<1>6. InStep'
  BY <1>1 DEF Promise, InStep, Changing
<1>7. Outcomes'
  BY <1>1 DEF Outcomes, Succeeded, Surely, Unlucky
<1>. QED  BY <1>2, <1>3, <1>4, <1>5, <1>6, <1>7 DEF Promise

(* What the rows of this read satisfy.                                        *)
Reliable(r, current) ==
    /\ r \in Found(kind) /\ current \in BOOLEAN
    /\ current => /\ view = server /\ server[r.id] # None
                  /\ r = Whole(r.id, server[r.id])
    /\ sure' => sure /\ current
    /\ op = "update" /\ ~wrote /\ ~disturbed => current
    /\ ById(kind) /\ (op \in Changing \cup {"refresh"} \/ (op = "import" /\ wrote)) =>
          r.id = tf.id
    /\ ~ById(kind) => r.attrs.name = Sought
    /\ sure' /\ op = "create" /\ kind # "settings_profile" =>
          server[r.id].name = config.name

Still ==
    /\ kind' = kind /\ config' = config /\ server' = server /\ view' = view
    /\ disturbed' = disturbed

Quiet == Still /\ compared' = compared

LEMMA OwnIs ==
    ASSUME DataOK, NEW s, NEW i \in Ids, server[i] # None,
           IF ById(kind) THEN s.id = i ELSE s.attrs.name = server[i].name
    PROVE  Own(kind, s, server) = {i}
BY DEF DataOK, UniqueIn, Own

LEMMA ReadArrives ==
    ASSUME Inv, Promise, pc # "idle", Still, NEW r, NEW current, Reliable(r, current),
           op = "refresh" \/ (op = "import" /\ wrote),
           pc = "find" \/ ById(kind), fresh' = current,
           NEW answered \in BOOLEAN, compared' => answered,
           End("refreshed", ReadOf(tf, r, answered)), synced' = current
    PROVE  Promise'
<1>1. /\ tf \in States(kind) /\ Marked(kind, tf) /\ ~sure
      /\ ~ById(kind) => tf.attrs.name = r.attrs.name
      /\ ById(kind) => tf.id = r.id
      /\ r \in Found(kind) /\ r.id \in Ids
  <2>1. tf \in States(kind) /\ tf # None
    BY ConfigPlanned DEF Inv, ControlOK, ControlTypes, Progress
  <2>. QED  BY <2>1 DEF Promise, StateMarked, Begun, Reliable, Found, Rows
<1> DEFINE s == ReadOf(tf, r, answered)
<1>2. /\ s \in States(kind) /\ Marked(kind, s) /\ s.id = tf.id
      /\ ~ById(kind) => s.attrs.name = tf.attrs.name
  BY <1>1, ConfigPlanned, ReadKeeps DEF Inv
<1>3. ASSUME current
      PROVE  Tracked(kind, s, compared', server)
  <2>1. /\ server[r.id] # None /\ server[r.id] \in Stored(kind)
        /\ Clean(kind, server[r.id]) /\ r = Whole(r.id, server[r.id])
    BY <1>1, <1>3 DEF Reliable, Inv, DataOK, Promise, ServerClean
  <2>2. r.attrs.name = server[r.id].name
    BY <1>1, <2>1, WholeIs, ConfigPlanned DEF Inv
  <2>3. Tracks(kind, s, answered, server[r.id])
    BY <1>1, <2>1, <2>2, ReadTracks, ConfigPlanned DEF Inv, ById
  <2>4. Own(kind, s, server) = {r.id}
    <3>1. IF ById(kind) THEN s.id = r.id ELSE s.attrs.name = server[r.id].name
      BY <1>1, <1>2, <2>2
    <3>. QED  BY <1>1, <2>1, <3>1, OwnIs DEF Inv
  <2>5. Tracks(kind, s, compared', server[r.id])
    BY <2>3 DEF Tracks
  <2>. QED  BY <2>4, <2>5 DEF Tracked
<1>4. ServerClean'
  BY DEF Still, Promise, ServerClean
<1> HIDE DEF s
<1>5. End("refreshed", s)
  BY DEF s
<1>6. /\ kind' = kind /\ config' = config /\ disturbed' = disturbed /\ server' = server
      /\ ~sure' /\ (synced' => current)
  BY <1>1 DEF Still, Reliable
<1>. QED  BY <1>2, <1>3, <1>4, <1>5, <1>6, EndPromise DEF Unlucky

(* The row that follows a statement.                                          *)
LEMMA CreatedArrives ==
    ASSUME Inv, Promise, pc \in {"find", "lookup", "elements", "sync"}, Quiet, NEW r, NEW current,
           Reliable(r, current), op = "create", fresh' = current,
           Record(CreatedOf(r)), synced' = synced
    PROVE  Promise'
<1> DEFINE s == CreatedOf(r)
<1>1. /\ r \in Found(kind) /\ r.id \in Ids /\ kind \in Kind
      /\ s \in States(kind) /\ Marked(kind, s)
  BY ConfigPlanned, ConfigType, CreatedType, WrittenMarks DEF Reliable, Found, Rows, Inv
<1>2. ServerClean'
  BY DEF Quiet, Still, Promise, ServerClean
<1>3. wrote /\ Sought = config.name
  BY DEF Promise, Begun, Sought
<1>4. ASSUME current
      PROVE  /\ server[r.id] # None /\ server[r.id] \in Stored(kind)
             /\ s.id = r.id /\ r.attrs.name = server[r.id].name
             /\ Bears(kind, config, sure, server[r.id]) => s.attrs = config
             /\ s.attrs = config =>
                   /\ ById(kind) => server[r.id].name = config.name
                   /\ kind = "settings_profile" => Bears(kind, config, sure, server[r.id])
  <2>1. /\ server[r.id] # None /\ server[r.id] \in Stored(kind)
        /\ r = Whole(r.id, server[r.id])
    BY <1>1, <1>4 DEF Reliable, Inv, DataOK
  <2>. QED  BY <1>1, <2>1, CreatedFits, WholeIs, ConfigPlanned DEF Inv
<1>5. ASSUME ~disturbed, current, kind # "settings_profile",
             server[r.id].name = config.name
      PROVE  Bears(kind, config, sure, server[r.id])
  BY <1>1, <1>3, <1>4, <1>5 DEF Promise, Made, Named
<1>6. sure' => s.attrs = config \/ kind = "settings_profile"
  BY <1>4, <1>5 DEF Reliable, Promise, Begun
<1>7. ASSUME s.attrs = config, ~disturbed, current
      PROVE  Bearing(kind, s, server', config, sure')
  <2>1. server[r.id].name = config.name
    BY <1>3, <1>4, <1>7 DEF Reliable
  <2>2. Bears(kind, config, sure', server[r.id])
    BY <1>4, <1>5, <1>7, <2>1, BearsLess DEF Reliable
  <2>3. Own(kind, s, server) = {r.id}
    <3>1. IF ById(kind) THEN s.id = r.id ELSE s.attrs.name = server[r.id].name
      BY <1>4, <1>7, <2>1
    <3>. QED  BY <1>1, <1>4, <1>7, <3>1, OwnIs DEF Inv
  <2>. QED  BY <2>2, <2>3 DEF Bearing, Quiet, Still
<1> HIDE DEF s
<1>8. Record(s)
  BY DEF s
<1>9. /\ kind' = kind /\ config' = config /\ disturbed' = disturbed /\ (sure' => sure)
      /\ pc # "idle" /\ DataOK /\ fresh' = current
  BY DEF Quiet, Still, Reliable, Inv
<1>. QED  BY <1>1, <1>2, <1>6, <1>7, <1>8, <1>9, RecordPromise

LEMMA UpdatedArrives ==
    ASSUME Inv, Promise, pc \in {"find", "lookup", "elements", "sync"}, Quiet, NEW r, NEW current,
           Reliable(r, current), op = "update", wrote, fresh' = current,
           Record(UpdatedOf(r)), synced' = synced
    PROVE  Promise'
<1> DEFINE s == UpdatedOf(r)
<1>1. /\ r \in Found(kind) /\ r.id \in Ids /\ kind \in Kind \ {"database"}
      /\ tf \in States(kind) /\ ById(kind) /\ r.id = tf.id
  BY ConfigPlanned DEF Reliable, Found, Rows, Inv, ControlOK, ControlTypes, Progress, Changing
<1>2. s \in States(kind) /\ Marked(kind, s)
  BY <1>1, ConfigType, UpdatedType, WrittenMarks DEF Inv
<1>3. ServerClean'
  BY DEF Quiet, Still, Promise, ServerClean
<1>4. ASSUME current
      PROVE  /\ server[r.id] # None /\ s.id = r.id
             /\ Bears(kind, config, sure, server[r.id]) => s.attrs = config
  <2>1. /\ server[r.id] # None /\ server[r.id] \in Stored(kind)
        /\ r = Whole(r.id, server[r.id])
    BY <1>1, <1>4 DEF Reliable, Inv, DataOK
  <2>. QED  BY <1>1, <2>1, UpdatedFits, ConfigPlanned DEF Inv
<1>5. ~disturbed => Bears(kind, config, sure, server[r.id])
  BY <1>1 DEF Promise, Made
<1>6. sure' => s.attrs = config
  BY <1>4, <1>5 DEF Reliable, Promise, Begun
<1>7. ASSUME ~disturbed, current
      PROVE  Bearing(kind, s, server', config, sure')
  <2>1. Bears(kind, config, sure', server[r.id])
    BY <1>5, <1>7, BearsLess DEF Reliable
  <2>2. Own(kind, s, server) = {r.id}
    BY <1>1, <1>4, <1>7, OwnIs DEF Inv
  <2>. QED  BY <2>1, <2>2 DEF Bearing, Quiet, Still
<1> HIDE DEF s
<1>8. Record(s)
  BY DEF s
<1>9. /\ kind' = kind /\ config' = config /\ disturbed' = disturbed /\ (sure' => sure)
      /\ pc # "idle" /\ DataOK /\ fresh' = current
  BY DEF Quiet, Still, Reliable, Inv
<1>. QED  BY <1>2, <1>3, <1>6, <1>7, <1>8, <1>9, RecordPromise

(* Any row.                                                                   *)
LEMMA ArrivePromise ==
    ASSUME Inv, Promise, pc \in {"find", "lookup", "elements", "sync"}, pc = "find" \/ ById(kind), Quiet,
           NEW r, NEW current, Reliable(r, current), Arrive(r, current)
    PROVE  Promise'
<1>1. fresh' = current
  BY DEF Arrive
<1>2. /\ kind' = kind /\ config' = config /\ server' = server /\ view' = view
      /\ disturbed' = disturbed /\ (sure' => sure /\ current) /\ r \in Found(kind)
      /\ compared' = compared
  BY DEF Quiet, Still, Reliable
<1>3. ServerClean'
  BY <1>2 DEF Promise, ServerClean
<1>4. CASE /\ op \in {"update", "replace", "delete"} /\ ~wrote
           /\ pc' = "write" /\ target' = r.id /\ row' = r
           /\ UNCHANGED <<tf, op, wrote, outcome, synced>>
  <2>1. StateMarked' /\ Begun'
    <3>1. op = "update" => ~Replaces'
      BY <1>2, <1>4 DEF Promise, Begun, Replaces, UserReplaces, MaskingPolicyReplaces,
                        DatabaseReplaces, NamedCollectionReplaces, FlagReset
    <3>. QED  BY <1>2, <1>4, <3>1 DEF StateMarked, Promise, Begun
  <2>2. RowInHand'
    <3>1. CASE op = "update" /\ ~ById(kind)
      <4>1. r.attrs.name = tf.attrs.name
        BY <3>1 DEF Reliable, Sought
      <4>2. current => /\ server[r.id] # None
                       /\ r = GetNamedCollection(r.id, server[r.id])
        <5>1. kind = "named_collection"
          BY <3>1 DEF ById
        <5>. QED  BY <5>1, RowOfIs DEF Reliable, Whole
      <4>. QED  BY <1>1, <1>2, <1>4, <4>1, <4>2 DEF RowInHand
    <3>2. CASE ~(op = "update" /\ ~ById(kind))
      BY <1>2, <1>4, <3>2 DEF RowInHand
    <3>. QED  BY <3>1, <3>2
  <2>3. Alone'
    BY <1>1, <1>2, <1>4 DEF Promise, Alone, Reliable
  <2>4. InStep'
    BY <1>2, <1>4 DEF Promise, InStep
  <2>5. Made' /\ Outcomes'
    BY <1>2, <1>4 DEF Promise, Begun, Made, Outcomes, Succeeded, Surely, Unlucky
  <2>. QED  BY <1>3, <2>1, <2>2, <2>3, <2>4, <2>5 DEF Promise
<1>5. CASE /\ op = "import" /\ ~wrote
           /\ tf' = ImportedOf(r)
           /\ pc' = ByIdOrName /\ target' = r.id /\ row' = None /\ wrote' = TRUE
           /\ UNCHANGED <<op, outcome, synced>>
  <2>1. /\ Marked(kind, tf') /\ tf'.id = r.id
        /\ ~ById(kind) => tf'.attrs.name = r.attrs.name
    BY <1>2, <1>5, ImportKnows, ConfigPlanned DEF Inv
  <2>2. ~sure /\ (~ById(kind) => r.attrs.name = config.name)
    BY <1>5 DEF Promise, Begun, Reliable, Sought
  <2>3. pc' \in {"find", "lookup"} /\ (pc' = "find" => ~ById(kind))
    BY <1>5 DEF ByIdOrName
  <2>4. StateMarked' /\ Begun'
    BY <1>2, <1>5, <2>1, <2>2, <2>3 DEF StateMarked, Promise, Begun, Sought
  <2>5. RowInHand' /\ Alone' /\ Made'
    BY <1>2, <1>5, <2>3 DEF RowInHand, Alone, Made
  <2>6. InStep' /\ Outcomes'
    BY <1>2, <1>5, <2>2 DEF Promise, Begun, InStep, Changing, Outcomes, Succeeded, Surely
  <2>. QED  BY <1>3, <2>4, <2>5, <2>6 DEF Promise
<1>6. CASE /\ op = "refresh" \/ (op = "import" /\ wrote)
           /\ End("refreshed", ReadOf(tf, r, TRUE)) /\ synced' = current
  BY <1>1, <1>6, ReadArrives DEF Quiet
<1>7. CASE op = "create" /\ Record(CreatedOf(r)) /\ UNCHANGED synced
  BY <1>1, <1>7, CreatedArrives
<1>8. CASE op = "update" /\ wrote /\ Record(UpdatedOf(r)) /\ UNCHANGED synced
  BY <1>1, <1>8, UpdatedArrives
<1>9. CASE /\ op = "refresh" \/ (op = "import" /\ wrote)
           /\ Asks(tf, r)
           /\ pc' = "normalize" /\ target' = r.id /\ row' = r
           /\ UNCHANGED <<tf, op, wrote, outcome, synced>>
  <2>1. kind \in {"row_policy", "masking_policy"} /\ ById(kind) /\ ~sure /\ ~synced
    BY <1>9 DEF Asks, ById, Promise, Begun
  <2>2. StateMarked' /\ Begun'
    BY <1>2, <1>9, <2>1 DEF StateMarked, Promise, Begun, Reliable
  <2>3. current => /\ view = server /\ server[r.id] # None
                   /\ kind = "row_policy" => r = GetRowPolicyByID(r.id, server[r.id])
                   /\ kind = "masking_policy" => r = GetMaskingPolicyByID(r.id, server[r.id])
    BY <2>1, RowOfIs DEF Reliable, Whole
  <2>4. RowInHand'
    BY <1>1, <1>2, <1>9, <2>3 DEF RowInHand
  <2>5. Alone' /\ InStep' /\ Made'
    BY <1>2, <1>9, <2>1 DEF Alone, InStep, Made, Changing
  <2>6. Outcomes'
    BY <1>2, <1>9 DEF Promise, Begun, Outcomes, Succeeded, Surely, Unlucky
  <2>. QED  BY <1>3, <2>2, <2>4, <2>5, <2>6 DEF Promise
<1>10. CASE /\ op = "create" /\ SyncsAgain
            /\ pc' = "sync" /\ row' = None
            /\ UNCHANGED <<tf, op, target, wrote, outcome, synced>>
  <2>1. pc = "lookup" /\ ~synced
    BY <1>10 DEF SyncsAgain, Promise, Begun
  <2>2. StateMarked' /\ Begun'
    BY <1>2, <1>10, <2>1 DEF StateMarked, Promise, Begun
  <2>3. RowInHand'
    BY <1>2, <1>10, <2>1 DEF Promise, RowInHand
  <2>4. Alone' /\ InStep'
    BY <1>2, <1>10, <2>1 DEF Alone, InStep, Changing
  <2>5. Made'
    <3>1. \A k, want, e : Bears(k, want, sure, e) => Bears(k, want, sure', e)
      BY <1>2, BearsLess
    <3>. QED  BY <1>2, <1>10, <3>1 DEF Promise, Made
  <2>6. Outcomes'
    BY <1>2, <1>10 DEF Promise, Begun, Outcomes, Succeeded, Surely, Unlucky
  <2>. QED  BY <1>3, <2>2, <2>3, <2>4, <2>5, <2>6 DEF Promise
<1>. QED  BY <1>4, <1>5, <1>6, <1>7, <1>8, <1>9, <1>10 DEF Arrive

(* No row, although nobody acted: there is nothing to find.                   *)
LEMMA MissingPromise ==
    ASSUME Inv, Promise, pc \in {"find", "lookup", "sync"}, Quiet, Missing,
           sure' => sure /\ view = server,
           pc = "find" => Named(view, Sought) = {},
           pc \in {"lookup", "sync"} => view[target] = None
    PROVE  Promise'
<1>1. /\ kind' = kind /\ config' = config /\ server' = server /\ view' = view
      /\ disturbed' = disturbed /\ compared' = compared /\ fresh' = FALSE
  BY DEF Quiet, Still, Missing
<1>2. ServerClean'
  BY <1>1 DEF Promise, ServerClean
<1>3. op = "create" /\ sure' => FALSE
  BY DEF Promise, Begun, RowInHand, Made, Sought
<1>4. op = "update" /\ sure' => FALSE
  <2> SUFFICES ASSUME op = "update", sure' PROVE FALSE
    OBVIOUS
  <2>1. sure /\ ~disturbed /\ view = server /\ tf \in States(kind)
    BY DEF Promise, Begun, Inv, ControlOK, ControlTypes, Progress, Changing
  <2>2. CASE wrote
    <3>1. pc = "lookup" /\ target = tf.id
      BY <2>2 DEF Inv, ControlOK, Progress, Changing
    <3>. QED  BY <2>1, <2>2, <3>1 DEF Promise, Made
  <2>3. CASE ~wrote
    <3>1. PICK i \in Own(kind, tf, server) : TRUE
      BY <2>1, <2>3 DEF Promise, InStep, Tracked, Changing
    <3>2. /\ pc \in {"find", "lookup"}
          /\ pc = "lookup" => ById(kind) /\ target = tf.id
          /\ pc = "find" => ~ById(kind)
      BY DEF Inv, ControlOK, Progress, Changing
    <3>. QED  BY <2>1, <3>1, <3>2 DEF Own, Named, Sought
  <2>. QED  BY <2>2, <2>3
<1>5. ~synced
  BY DEF Promise, Begun
<1>6. ASSUME NEW result \in Unlucky, Fail(result), synced' = synced, op \in {"create", "update", "import"}
      PROVE  Promise'
  <2>1. ~sure'
    BY <1>3, <1>4, <1>6 DEF Promise, Begun
  <2>. QED  BY <1>1, <1>2, <1>6, <2>1, FailPromise
<1>7. ASSUME End("forgotten", None), synced' = synced, op = "update"
      PROVE  Promise'
  BY <1>1, <1>2, <1>4, <1>5, <1>7, EndPromise
<1>8. ASSUME NEW at \in {"find", "lookup"}, Retry(at),
             IF at = "find" THEN op = "create" ELSE op = "update" /\ wrote
      PROVE  Promise'
  <2>1. /\ pc' = at /\ row' = None /\ tf' = tf /\ op' = op /\ target' = target
        /\ wrote' = wrote /\ outcome' = outcome /\ synced' = synced /\ ~sure'
    BY <1>3, <1>4, <1>8 DEF Retry
  <2>2. StateMarked' /\ Begun'
    <3>1. op = "update" => ~Replaces'
      BY <1>1, <2>1 DEF Promise, Begun, Replaces, UserReplaces, MaskingPolicyReplaces,
                        DatabaseReplaces, NamedCollectionReplaces, FlagReset
    <3>. QED  BY <1>1, <1>8, <2>1, <3>1 DEF StateMarked, Promise, Begun
  <2>3. RowInHand' /\ Alone' /\ InStep'
    BY <1>1, <1>5, <1>8, <2>1 DEF RowInHand, Alone, InStep, Promise, Begun
  <2>4. Made'
    <3>1. \A k, want, e : Bears(k, want, sure, e) => Bears(k, want, sure', e)
      BY <2>1 DEF Bears
    <3>. QED  BY <1>1, <2>1, <3>1 DEF Promise, Made
  <2>5. Outcomes'
    BY <1>1, <2>1 DEF Promise, Begun, Outcomes, Succeeded, Surely
  <2>. QED  BY <1>2, <2>2, <2>3, <2>4, <2>5 DEF Promise
<1>9. CASE op = "refresh" /\ Removed(view = server)
  <2>1. End("removed", None) /\ ~sure'
    BY <1>9 DEF Removed, Promise, Begun
  <2>. QED  BY <1>1, <1>2, <2>1, EndPromise
<1>10. CASE op = "import" /\ ImportMissing /\ UNCHANGED synced
  BY <1>6, <1>10 DEF ImportMissing, Unlucky
<1>11. CASE op = "update" /\ ~wrote /\ UpdateMissing /\ UNCHANGED synced
  <2>1. Fail("panic") \/ Fail("failed") \/ End("forgotten", None)
    BY <1>11, Zenon DEF UpdateMissing
  <2>. QED  BY <1>6, <1>7, <1>11, <2>1 DEF Unlucky
<1>12. CASE op = "update" /\ wrote /\ UpdatedMissing
  <2>1. \/ (Fail("panic") \/ End("forgotten", None)) /\ UNCHANGED synced
        \/ Retry("lookup")
    BY <1>12, Zenon DEF UpdatedMissing
  <2>. QED  BY <1>6, <1>7, <1>8, <1>12, <2>1 DEF Unlucky
<1>13. CASE op \in {"replace", "delete"} /\ Dropped /\ UNCHANGED synced
  BY <1>1, <1>2, <1>13, DroppedPromise DEF Dropper
<1>14. CASE op = "create" /\ kind = "database" /\ CreatedDatabaseMissing /\ UNCHANGED synced
  BY <1>6, <1>14 DEF CreatedDatabaseMissing, Unlucky
<1>15. CASE op = "create" /\ kind # "database" /\ Retry("find")
  BY <1>8, <1>15
<1>. QED  BY <1>9, <1>10, <1>11, <1>12, <1>13, <1>14, <1>15 DEF Missing

-----------------------------------------------------------------------------
(* The reading steps.                                                         *)

LEMMA ReplacesKept ==
    ASSUME kind' = kind, config' = config, tf' = tf
    PROVE  Replaces' <=> Replaces
BY DEF Replaces, UserReplaces, MaskingPolicyReplaces, DatabaseReplaces,
       NamedCollectionReplaces, FlagReset

LEMMA FindPromise ==
    ASSUME Inv, Promise, Find
    PROVE  Promise'
<1>1. /\ pc = "find" /\ sure' = (sure /\ view = server) /\ Quiet
  BY DEF Find, data, Quiet, Still
<1>2. /\ op \notin Dropper /\ (op \in Changing => ~ById(kind))
      /\ op = "refresh" \/ (op = "import" /\ wrote) => ~ById(kind)
      /\ op = "create" => Sought = config.name
      /\ op = "update" /\ ~wrote /\ ~disturbed => view = server
  BY <1>1 DEF Inv, ControlOK, Progress, Changing, Dropper, Promise, Begun, Alone, Sought
<1>3. ASSUME NEW i \in Named(view, Sought)
      PROVE  i \in Ids /\ view[i] # None /\ view[i].name = Sought
  BY DEF Named
<1>4. CASE Named(view, Sought) = {} /\ Missing
  BY <1>1, <1>4, MissingPromise
<1>5. ASSUME NEW i \in Named(view, Sought), kind \in IdFirst,
             target' = i, pc' = "lookup",
             UNCHANGED <<tf, op, row, wrote, outcome, fresh, synced>>
      PROVE  Promise'
  <2>1. /\ ById(kind) /\ op \notin Changing /\ op # "refresh" /\ ~(op = "import" /\ wrote)
    BY <1>2, <1>5 DEF IdFirst, ById
  <2>2. /\ kind' = kind /\ config' = config /\ server' = server /\ view' = view
        /\ disturbed' = disturbed /\ compared' = compared
    BY <1>1 DEF Quiet, Still
  <2>3. ServerClean' /\ StateMarked'
    BY <1>5, <2>2 DEF Promise, ServerClean, StateMarked
  <2>4. Begun'
    BY <1>1, <1>5, <2>1, <2>2 DEF Promise, Begun, Changing
  <2>5. RowInHand'
    BY <1>1, <1>2, <1>3, <1>5, <2>2 DEF RowInHand
  <2>6. Alone' /\ InStep'
    BY <1>1, <1>5, <2>1, <2>2 DEF Promise, Begun, Alone, InStep, Changing
  <2>7. Made'
    <3>1. \A k, want, e : Bears(k, want, sure, e) => Bears(k, want, sure', e)
      BY <1>1, BearsLess
    <3>. QED  BY <1>5, <2>1, <2>2, <3>1 DEF Promise, Made, Changing
  <2>8. Outcomes'
    BY <1>1, <1>5 DEF Promise, Begun, Outcomes, Succeeded, Surely, Unlucky
  <2>. QED  BY <2>3, <2>4, <2>5, <2>6, <2>7, <2>8 DEF Promise
<1>6. ASSUME NEW i \in Named(view, Sought), kind \notin IdFirst,
             Arrive(RowOf(i, view[i]), view = server)
      PROVE  Promise'
  <2>1. /\ RowOf(i, view[i]) \in Found(kind) /\ RowOf(i, view[i]).id = i
        /\ RowOf(i, view[i]).attrs.name = Sought
    BY <1>3, ViewRow
  <2>2. RowOf(i, view[i]) = Whole(i, view[i])
    BY <1>6 DEF Whole, IdFirst
  <2>3. (view = server) \in BOOLEAN
    OBVIOUS
  <2>4. Reliable(RowOf(i, view[i]), view = server)
    BY <1>1, <1>2, <1>3, <2>1, <2>2, <2>3 DEF Reliable, Changing
  <2>. QED  BY <1>1, <1>6, <2>4, ArrivePromise
<1>. QED  BY <1>4, <1>5, <1>6 DEF Find

LEMMA LookupPromise ==
    ASSUME Inv, Promise, Lookup
    PROVE  Promise'
<1>1. /\ pc \in {"lookup", "sync"} /\ sure' = (sure /\ view = server) /\ Quiet
  BY DEF Lookup, data, Quiet, Still
<1>2. /\ target \in Ids /\ ById(kind)
      /\ op \in Changing \cup {"refresh"} \/ (op = "import" /\ wrote) => target = tf.id
      /\ op = "update" /\ ~wrote /\ ~disturbed => view = server
  BY <1>1 DEF Inv, ControlOK, Progress, Changing, Promise, Begun, Alone, ById
<1>3. op = "create" /\ sure => server[target] # None /\ server[target].name = config.name
  BY <1>1 DEF Promise, RowInHand
<1>4. CASE view[target] = None /\ Missing
  BY <1>1, <1>4, MissingPromise
<1>5. ASSUME view[target] # None
      PROVE  /\ RowOf(target, view[target]) \in Found(kind)
             /\ RowOf(target, view[target]).id = target
  BY <1>2, <1>5, ViewRow
<1>6. CASE /\ view[target] # None /\ kind # "settings_profile"
           /\ Arrive(RowOf(target, view[target]), view = server)
  <2>1. RowOf(target, view[target]) = Whole(target, view[target])
    BY <1>6 DEF Whole
  <2>2. (view = server) \in BOOLEAN
    OBVIOUS
  <2>3. Reliable(RowOf(target, view[target]), view = server)
    BY <1>1, <1>2, <1>3, <1>5, <1>6, <2>1, <2>2 DEF Reliable
  <2>. QED  BY <1>1, <1>2, <1>6, <2>3, ArrivePromise
<1>7. CASE /\ view[target] # None /\ kind = "settings_profile"
           /\ row' = RowOf(target, view[target])
           /\ fresh' = (view = server)
           /\ pc' = "elements"
           /\ UNCHANGED <<tf, op, target, wrote, outcome, synced>>
  <2>1. /\ kind' = kind /\ config' = config /\ server' = server /\ view' = view
        /\ disturbed' = disturbed /\ compared' = compared
    BY <1>1 DEF Quiet, Still
  <2>2. /\ row' = GetSettingsProfile(target, view[target]) /\ row'.id = target
        /\ pc = "lookup"
    BY <1>1, <1>5, <1>7, RowOfIs DEF Inv, ControlOK, Progress
  <2>3. ServerClean' /\ StateMarked'
    BY <1>7, <2>1 DEF Promise, ServerClean, StateMarked
  <2>4. Begun'
    BY <1>1, <1>7, <2>1, <2>2, ReplacesKept DEF Promise, Begun
  <2>5. RowInHand'
    BY <1>1, <1>7, <2>1, <2>2 DEF RowInHand
  <2>6. Alone' /\ InStep'
    BY <1>1, <1>2, <1>7, <2>1 DEF Promise, Begun, Alone, InStep
  <2>7. Made'
    <3>1. \A k, want, e : Bears(k, want, sure, e) => Bears(k, want, sure', e)
      BY <1>1, BearsLess
    <3>. QED  BY <1>7, <2>1, <3>1 DEF Promise, Made
  <2>8. Outcomes'
    BY <1>1, <1>7 DEF Promise, Begun, Outcomes, Succeeded, Surely, Unlucky
  <2>. QED  BY <2>3, <2>4, <2>5, <2>6, <2>7, <2>8 DEF Promise
<1>. QED  BY <1>4, <1>6, <1>7 DEF Lookup

LEMMA ElementsPromise ==
    ASSUME Inv, Promise, Elements
    PROVE  Promise'
<1>1. /\ pc = "elements" /\ sure' = (sure /\ view = server) /\ Quiet
  BY DEF Elements, data, Quiet, Still
<1>2. /\ kind = "settings_profile" /\ ById(kind) /\ row \in Found(kind) /\ row.id \in Ids
      /\ op \in Changing \cup {"refresh"} \/ (op = "import" /\ wrote) => row.id = tf.id
      /\ op = "update" /\ ~wrote /\ ~disturbed => fresh
      /\ sure => fresh
      /\ fresh \in BOOLEAN
  BY <1>1 DEF Inv, ControlOK, HistoryOK, Progress, Changing, Promise, Begun, Alone, RowInHand,
              ById, Found, Rows
<1>3. fresh => /\ view = server /\ server[row.id] # None
               /\ server[row.id].name = row.attrs.name
               /\ row = RowOf(row.id, server[row.id])
  BY <1>1, <1>2, RowOfIs DEF Promise, RowInHand, Inv, ControlOK, Current, Reading
<1>4. ASSUME NEW i \in Named(view, row.attrs.name), Arrive(WithInheritance(row, view[i]), fresh)
      PROVE  Promise'
  <2>1. /\ WithInheritance(row, view[i]) \in Found(kind)
        /\ WithInheritance(row, view[i]).id = row.id
    BY <1>2, InheritedRow
  <2>2. fresh => i = row.id
    BY <1>2, <1>3 DEF Named, Inv, DataOK, UniqueIn
  <2>3. fresh => WithInheritance(row, view[i]) = Whole(row.id, server[row.id])
    BY <1>2, <1>3, <2>2 DEF Whole
  <2>4. Reliable(WithInheritance(row, view[i]), fresh)
    BY <1>1, <1>2, <1>3, <2>1, <2>3 DEF Reliable
  <2>. QED  BY <1>1, <1>2, <1>4, <2>4, ArrivePromise
<1>5. CASE Named(view, row.attrs.name) = {} /\ Arrive(row, fresh)
  <2>1. ~fresh
    BY <1>2, <1>3, <1>5 DEF Named
  <2>2. Reliable(row, fresh)
    BY <1>1, <1>2, <2>1 DEF Reliable
  <2>. QED  BY <1>1, <1>2, <1>5, <2>2, ArrivePromise
<1>. QED  BY <1>4, <1>5 DEF Elements

(* NormalizeExpression answers, or does not.                                  *)
LEMMA NormalizeArrives ==
    ASSUME Inv, Promise, pc = "normalize", Still, fresh' = fresh, sure' = sure,
           NEW answered \in BOOLEAN, compared' => answered,
           End("refreshed", ReadOf(tf, row, answered)), synced' = fresh
    PROVE  Promise'
<1>1. /\ kind \in {"row_policy", "masking_policy"} /\ ById(kind) /\ row \in Found(kind)
      /\ op = "refresh" \/ (op = "import" /\ wrote)
      /\ row.id = tf.id /\ ~sure /\ fresh \in BOOLEAN
  BY DEF Inv, ControlOK, HistoryOK, Progress, Promise, Begun, ById
<1>2. fresh => /\ view = server /\ server[row.id] # None
               /\ row = Whole(row.id, server[row.id])
  BY <1>1, RowOfIs DEF Promise, RowInHand, Whole
<1>3. Reliable(row, fresh)
  BY <1>1, <1>2 DEF Reliable
<1>. QED  BY <1>1, <1>3, ReadArrives

LEMMA NormalizePromise ==
    ASSUME Inv, Promise, Normalize
    PROVE  Promise'
<1>1. /\ pc = "normalize" /\ Still /\ fresh' = fresh /\ sure' = sure
      /\ End("refreshed", ReadOf(tf, row, TRUE)) /\ synced' = fresh
  BY DEF Normalize, data, Still
<1>. QED  BY <1>1, NormalizeArrives

LEMMA NormalizeFailsPromise ==
    ASSUME Inv, Promise, NormalizeFails
    PROVE  Promise'
<1>1. /\ pc = "normalize" /\ Still /\ fresh' = fresh /\ sure' = sure /\ ~compared'
      /\ End("refreshed", ReadOf(tf, row, FALSE)) /\ synced' = fresh
  BY DEF NormalizeFails, data, Still
<1>. QED  BY <1>1, NormalizeArrives

(* A deadline can only pass for what the view does not show.                  *)
LEMMA GiveUpPromise ==
    ASSUME Inv, Promise, GiveUp
    PROVE  Promise'
<1>1. /\ wrote /\ Fail("failed") /\ sure' = (sure /\ view = server) /\ Quiet
      /\ op \in {"create", "update"} /\ synced' = synced
      /\ \/ pc = "find" /\ Named(view, Sought) = {}
         \/ pc = "lookup" /\ view[target] = None
  BY DEF GiveUp, data, Quiet, Still
<1>2. ~sure'
  <2> SUFFICES ASSUME sure, view = server PROVE FALSE
    BY <1>1
  <2>1. ~disturbed
    BY DEF Promise, Begun
  <2>2. CASE op = "create"
    BY <1>1, <2>1, <2>2 DEF Promise, Made, RowInHand, Sought
  <2>3. CASE op = "update"
    <3>1. pc = "lookup" /\ target = tf.id
      BY <1>1, <2>3 DEF Inv, ControlOK, Progress, Changing
    <3>. QED  BY <1>1, <2>1, <2>3, <3>1 DEF Promise, Made
  <2>. QED  BY <1>1, <2>2, <2>3
<1>3. ServerClean'
  BY <1>1 DEF Promise, ServerClean, Quiet, Still
<1>. QED  BY <1>1, <1>2, <1>3, FailPromise DEF Quiet, Still, Unlucky

-----------------------------------------------------------------------------
(* The statements.                                                            *)

LEMMA CreateMakes ==
    ASSUME Inv, NEW certain, NEW S \in AfterCreate
    PROVE  /\ Named(S, config.name) # {}
           /\ kind # "settings_profile" =>
                 \A i \in Named(S, config.name) : Bears(kind, config, certain, S[i])
           /\ \A i \in Ids : S[i] = server[i] \/ S[i] = CreateOf(config)
<1>1. /\ CreateOf(config) \in Stored(kind) /\ CreateOf(config).name = config.name
      /\ CreateOf(config) # None
      /\ Bears(kind, config, certain, CreateOf(config))
      /\ server \in [Ids -> Stored(kind) \cup {None}]
  BY ConfigPlanned, ConfigType, CreateType, CreateBears DEF Inv, DataOK
<1>2. CASE Named(server, config.name) = {} /\ S \in Creations(CreateOf(config))
  <2>1. PICK n \in Unused : S = [server EXCEPT ![n] = CreateOf(config)]
    BY <1>2 DEF Creations
  <2>2. n \in Ids
    BY DEF Unused
  <2>3. S[n] = CreateOf(config) /\ \A i \in Ids : i # n => S[i] = server[i]
    BY <1>1, <2>1, <2>2
  <2>. QED  BY <1>1, <1>2, <2>2, <2>3 DEF Named
<1>3. CASE S = server /\ kind = "settings_profile" /\ Named(server, config.name) # {}
  BY <1>3
<1>. QED  BY <1>2, <1>3 DEF AfterCreate

LEMMA AlterMakes ==
    ASSUME Inv, Promise, pc = "write", op = "update", NEW S \in AfterAlter
    PROVE  \E i \in Named(server, row.attrs.name) :
              /\ S = [server EXCEPT ![i] = AlterOf(server[i])]
              /\ i \in Ids /\ S[i] = AlterOf(server[i]) /\ S[i] # None
              /\ \A j \in Ids : j # i => S[j] = server[j]
              /\ Clean(kind, S[i])
              /\ Bears(kind, config, FALSE, S[i])
              /\ ById(kind) /\ ~disturbed => i = tf.id /\ Bears(kind, config, sure, S[i])
<1>1. PICK i \in Named(server, row.attrs.name) : S = [server EXCEPT ![i] = AlterOf(server[i])]
  BY DEF AfterAlter
<1>2. /\ i \in Ids /\ server[i] # None /\ server[i] \in Stored(kind)
      /\ server \in [Ids -> Stored(kind) \cup {None}]
  BY DEF Named, Inv, DataOK
<1>3. /\ ~Replaces /\ ~wrote /\ kind \in Kind \ {"database"} /\ Planned(config)
      /\ tf # None /\ None \notin Stored(kind) /\ Clean(kind, server[i])
  BY <1>2, ConfigPlanned DEF Inv, ControlOK, Progress, Changing, Promise, Begun, ServerClean
<1>4. S[i] = AlterOf(server[i]) /\ \A j \in Ids : j # i => S[j] = server[j]
  BY <1>1, <1>2
<1>5. /\ Bears(kind, config, FALSE, S[i]) /\ Clean(kind, S[i])
  BY <1>2, <1>3, <1>4, AlterBears
<1>6. S[i] # None
  BY <1>2, <1>3, <1>4, ConfigType, AlterType DEF Inv
<1>7. ASSUME ById(kind), ~disturbed
      PROVE  i = tf.id /\ Bears(kind, config, sure, S[i])
  <2>1. i = tf.id
    BY <1>3, <1>7, RowIsMine DEF Promise, Alone, Changing
  <2>2. sure => Tracks(kind, tf, compared, server[i])
    BY <1>2, <1>3, <1>7, <2>1 DEF Promise, InStep, Changing, Tracked, Own
  <2>. QED  BY <1>2, <1>3, <1>4, <2>1, <2>2, AlterBears
<1>. QED  BY <1>1, <1>2, <1>4, <1>5, <1>6, <1>7

LEMMA DropMakes ==
    ASSUME Inv, NEW S \in AfterDrop
    PROVE  \A i \in Ids : S[i] \in {server[i], None}
<1>1. server \in [Ids -> Stored(kind) \cup {None}]
  BY DEF Inv, DataOK
<1>. QED  BY <1>1 DEF AfterDrop, Named

LEMMA StatementClean ==
    ASSUME Inv, Promise, pc = "write", NEW S \in AfterStatement
    PROVE  \A i \in Ids : S[i] # None => Clean(kind, S[i])
<1>1. \A i \in Ids : server[i] # None => Clean(kind, server[i])
  BY DEF Promise, ServerClean
<1>2. op \in Changing \cup {"create"}
  BY DEF Inv, ControlOK, Progress
<1>3. CASE op = "create"
  <2>1. Clean(kind, CreateOf(config))
    BY ConfigPlanned, CreateBears DEF Inv
  <2>2. S \in AfterCreate
    BY <1>3, Zenon DEF AfterStatement
  <2>. QED  BY <1>1, <2>1, <2>2, CreateMakes
<1>4. CASE op = "update"
  <2>1. S \in AfterAlter
    BY <1>4, Zenon DEF AfterStatement
  <2>. QED  BY <1>1, <1>4, <2>1, AlterMakes
<1>5. CASE op \in Dropper
  <2>1. S \in AfterDrop
    BY <1>5, Zenon DEF AfterStatement, Dropper
  <2>. QED  BY <1>1, <2>1, DropMakes
<1>. QED  BY <1>2, <1>3, <1>4, <1>5 DEF Changing, Dropper

(* A current plan is refused only a name that belongs to another entity.      *)
LEMMA RefusedExcused ==
    ASSUME Inv, Promise, pc = "write", sure, Refused
    PROVE  Excused(kind, tf, server, config)
<1>1. /\ op \in Changing \cup {"create"} /\ ~disturbed /\ ~wrote
      /\ op = "create" => tf = None
      /\ op \in Changing => tf # None /\ tf.id \in Ids /\ Tracked(kind, tf, compared, server)
  BY DEF Inv, ControlOK, ControlTypes, Progress, Promise, Begun, InStep, Changing, States, StatesOf
<1>2. CASE op = "create"
  BY <1>1, <1>2 DEF Refused, Excused
<1>3. ASSUME op \in Changing, ById(kind)
      PROVE  /\ row.id = tf.id /\ fresh /\ server[tf.id] # None
             /\ server[tf.id].name = row.attrs.name
             /\ Own(kind, tf, server) = {tf.id} /\ Tracks(kind, tf, compared, server[tf.id])
  <2>1. row.id = tf.id /\ fresh
    BY <1>1, <1>3 DEF Inv, ControlOK, Progress, Calm, Reading, Promise, Alone, Changing, Dropper
  <2>2. server[tf.id] # None /\ server[tf.id].name = row.attrs.name
    BY <1>3, <2>1 DEF Inv, ControlOK, Current, Reading
  <2>3. Own(kind, tf, server) = {tf.id}
    BY <1>1, <1>3, <2>2, OwnIs DEF Inv
  <2>. QED  BY <1>1, <1>3, <2>1, <2>2, <2>3 DEF Tracked
<1>4. CASE op = "update"
  <2>1. /\ ~Replaces /\ tf.attrs # config /\ kind \in Kind \ {"database"} /\ Planned(config)
        /\ tf \in States(kind)
    BY <1>1, <1>4, ConfigPlanned
    DEF Inv, ControlOK, ControlTypes, Progress, Promise, Begun, Changing
  <2>2. AfterAlter = {}
    BY <1>4 DEF Refused, AfterStatement
  <2>3. \A j \in Named(server, row.attrs.name) :
           AlterRefused(server[j]) \/ ~(Named(server, AlterOf(server[j]).name) \subseteq {j})
    BY <2>2 DEF AfterAlter
  <2>4. CASE ById(kind)
    <3>1. /\ tf.id \in Named(server, row.attrs.name) /\ server[tf.id] \in Stored(kind)
      BY <1>1, <1>3, <1>4, <2>4 DEF Named, Changing, Inv, DataOK
    <3>2. ~AlterRefused(server[tf.id])
      <4>1. CASE kind = "role"
        <5>1. tf.attrs \in Role(Maybe(Names)) /\ config \in Role(Names)
          BY <2>1, <4>1, RoleIs DEF Planned, States, StatesOf
        <5>2. tf.attrs.name = row.attrs.name
          BY <1>3, <1>4, <2>4 DEF Tracks, Changing
        <5>3. row.attrs.name # config.name
          BY <2>1, <5>1, <5>2 DEF Role
        <5>. QED  BY <4>1, <5>3 DEF AlterRefused, AlterRoleRefused
      <4>2. CASE kind # "role"
        BY <2>4, <4>2 DEF AlterRefused, ById
      <4>. QED  BY <4>1, <4>2
    <3>3. AlterOf(server[tf.id]).name = config.name
      BY <2>1, <2>4, <3>1, AlterBears
    <3>4. PICK i \in Named(server, config.name) : i # tf.id
      BY <2>3, <3>1, <3>2, <3>3
    <3>. QED  BY <1>3, <1>4, <2>4, <3>4 DEF Excused, Changing
  <2>5. CASE ~ById(kind)
    <3>1. kind = "named_collection"
      BY <2>1, <2>5 DEF ById
    <3>2. /\ row.attrs.name = tf.attrs.name /\ fresh
          /\ row \in Found(kind) /\ row.id \in Ids
          /\ server[row.id] # None /\ row = GetNamedCollection(row.id, server[row.id])
      BY <1>1, <1>4, <2>5
      DEF Inv, ControlOK, Progress, Promise, Alone, RowInHand, Found, Rows
    <3>3. server[row.id] \in Stored(kind) /\ row = RowOf(row.id, server[row.id])
      BY <3>1, <3>2, RowOfIs DEF Inv, DataOK
    <3>4. /\ row.id \in Named(server, row.attrs.name)
          /\ server[row.id].name = row.attrs.name
      BY <2>1, <3>2, <3>3, RowType DEF Named
    <3>5. Present(row.attrs.keys) = Present(server[row.id].keys)
      BY <2>1, <3>1, <3>2, <3>3, WholeIs DEF Whole
    <3>6. ~AlterRefused(server[row.id])
      <4>1. Present(PlannedKeys(config)) # {}
        BY <2>1, <3>1 DEF Planned, ValidateConfig
      <4>2. ~AlterNamedCollectionRefused(tf, row.attrs, config)
        BY <4>1 DEF AlterNamedCollectionRefused
      <4>3. AlterNamedCollectionAccepted(server[row.id], tf, row.attrs, config)
        BY <3>5 DEF AlterNamedCollectionAccepted, DeletedKeys
      <4>. QED  BY <3>1, <4>2, <4>3 DEF AlterRefused
    <3>7. AlterOf(server[row.id]).name = server[row.id].name
      BY <2>1, <2>5, <3>3, AlterBears
    <3>8. Named(server, server[row.id].name) \subseteq {row.id}
      BY <3>2 DEF Named, Inv, DataOK, UniqueIn
    <3>. QED  BY <2>3, <3>4, <3>6, <3>7, <3>8
  <2>. QED  BY <2>4, <2>5
<1>5. CASE op \in Dropper
  <2>1. op \in Changing /\ op # "update" /\ op # "create"
    BY <1>5 DEF Changing, Dropper
  <2>2. AfterDrop = {}
    BY <2>1, Zenon DEF Refused, AfterStatement
  <2>3. Named(server, DropOf.name) = {} /\ ~DropOf.ifExists
    BY <2>2 DEF AfterDrop
  <2>4. DropOf.name = IF ById(kind) THEN row.attrs.name ELSE tf.attrs.name
    BY ConfigType, DropType DEF Inv
  <2>5. CASE ById(kind)
    BY <1>1, <1>3, <2>1, <2>3, <2>4, <2>5 DEF Named
  <2>6. CASE ~ById(kind)
    <3>1. PICK i \in Own(kind, tf, server) : TRUE
      BY <1>1, <2>1 DEF Tracked
    <3>. QED  BY <2>3, <2>4, <2>6, <3>1 DEF Own, Named
  <2>. QED  BY <2>5, <2>6
<1>. QED  BY <1>1, <1>2, <1>4, <1>5 DEF Changing, Dropper

LEMMA WritePromise ==
    ASSUME Inv, Promise, Write
    PROVE  Promise'
<1>1. /\ pc = "write"
      /\ kind' = kind /\ config' = config /\ view' = view
      /\ disturbed' = disturbed /\ fresh' = fresh /\ synced' = synced /\ sure' = sure
      /\ compared' = compared
  BY DEF Write, history
<1>2. ~wrote /\ op \in Changing \cup {"create"} /\ ~synced /\ outcome = "none"
  BY <1>1 DEF Inv, ControlOK, Progress, Promise, Begun
<1>3. CASE server' \in AfterStatement /\ Accepted
  <2>1. ServerClean'
    BY <1>1, <1>3, StatementClean DEF ServerClean
  <2>2. \/ op \in Dropper /\ Dropped
        \/ op = "update" /\ ~ById(kind) /\ Record(UpdatedOf(row))
        \/ /\ op \notin Dropper /\ (op = "update" => ById(kind))
           /\ pc' = IF op = "create" THEN "find" ELSE "lookup"
           /\ wrote' = TRUE /\ row' = None
           /\ tf' = tf /\ op' = op /\ target' = target /\ outcome' = outcome
    BY <1>3, Zenon DEF Accepted, Dropper
  <2>3. CASE op \in Dropper /\ Dropped
    BY <1>1, <2>1, <2>3, DroppedPromise
  <2>4. CASE op = "update" /\ ~ById(kind) /\ Record(UpdatedOf(row))
    <3>1. /\ kind = "named_collection" /\ tf \in States(kind) /\ row \in Found(kind)
          /\ kind \in Kind \ {"database"} /\ ~Replaces
      BY <1>1, <2>4, ConfigPlanned
      DEF ById, Kind, Inv, ControlOK, ControlTypes, Progress, Changing, Promise, Begun
    <3> DEFINE s == UpdatedOf(row)
    <3>2. s \in States(kind) /\ Marked(kind, s)
      BY <3>1, ConfigType, UpdatedType, WrittenMarks DEF Inv
    <3>3. s.attrs = config
      BY <3>1, UpdatedOfIs DEF NamedCollectionWritten, State
    <3>4. server' \in AfterAlter
      BY <1>3, <2>4 DEF AfterStatement
    <3>5. PICK i \in Named(server, row.attrs.name) :
             /\ i \in Ids /\ server'[i] = AlterOf(server[i]) /\ server'[i] # None
             /\ \A j \in Ids : j # i => server'[j] = server[j]
             /\ Bears(kind, config, FALSE, server'[i])
      BY <1>1, <2>4, <3>4, AlterMakes
    <3>6. server[i] \in Stored(kind) /\ server[i] # None /\ server[i].name = row.attrs.name
      BY DEF Named, Inv, DataOK
    <3>7. config.name = row.attrs.name
      BY <1>1, <2>4, <3>1
      DEF Replaces, NamedCollectionReplaces, Promise, RowInHand
    <3>8. server'[i].name = config.name
      BY <2>4, <3>1, <3>5, <3>6, <3>7, ConfigPlanned, AlterBears DEF Inv
    <3>9. Own(kind, s, server') = {i}
      BY <2>4, <3>3, <3>5, <3>6, <3>7, <3>8 DEF Own, Inv, DataOK, UniqueIn
    <3>10. Bears(kind, config, sure', server'[i])
      BY <3>1, <3>5 DEF Bears
    <3>11. Bearing(kind, s, server', config, sure')
      BY <3>9, <3>10 DEF Bearing
    <3> HIDE DEF s
    <3>12. Record(s)
      BY <2>4 DEF s
    <3>13. DataOK /\ pc # "idle"
      BY <1>1 DEF Inv
    <3>. QED  BY <1>1, <2>1, <3>2, <3>3, <3>11, <3>12, <3>13, RecordPromise
  <2>5. CASE /\ op \notin Dropper /\ (op = "update" => ById(kind))
             /\ pc' = IF op = "create" THEN "find" ELSE "lookup"
             /\ wrote' = TRUE /\ row' = None
             /\ tf' = tf /\ op' = op /\ target' = target /\ outcome' = outcome
    <3>1. op \in {"create", "update"}
      BY <1>2, <2>5 DEF Changing, Dropper
    <3>2. StateMarked' /\ Begun'
      BY <1>1, <1>2, <2>5, <3>1, ReplacesKept DEF Promise, StateMarked, Begun
    <3>3. RowInHand' /\ Alone' /\ InStep'
      BY <1>1, <1>2, <2>5, <3>1 DEF RowInHand, Alone, InStep
    <3>4. Made'
      <4>1. CASE op = "create"
        <5>1. server' \in AfterCreate
          BY <1>3, <4>1, Zenon DEF AfterStatement
        <5>2. /\ Named(server', config.name) # {}
              /\ kind # "settings_profile" =>
                    \A i \in Named(server', config.name) : Bears(kind, config, sure, server'[i])
          BY <5>1, CreateMakes
        <5>. QED  BY <1>1, <2>5, <4>1, <5>2 DEF Made
      <4>2. CASE op = "update"
        <5>1. server' \in AfterAlter /\ ById(kind)
          BY <1>3, <2>5, <4>2, Zenon DEF AfterStatement
        <5>2. ~disturbed => server'[tf.id] # None /\ Bears(kind, config, sure, server'[tf.id])
          BY <1>1, <4>2, <5>1, AlterMakes
        <5>. QED  BY <1>1, <2>5, <4>2, <5>2 DEF Made
      <4>. QED  BY <3>1, <4>1, <4>2
    <3>5. Outcomes'
      BY <1>2, <2>5 DEF Outcomes, Succeeded, Surely, Unlucky
    <3>. QED  BY <2>1, <3>2, <3>3, <3>4, <3>5 DEF Promise
  <2>. QED  BY <2>2, <2>3, <2>4, <2>5
<1>4. CASE Refused /\ Fail("failed") /\ server' = server
  <2>1. ServerClean'
    BY <1>1, <1>4 DEF Promise, ServerClean
  <2>2. sure' => Excused(kind, tf, server', config)
    BY <1>1, <1>4, RefusedExcused
  <2>3. pc # "idle" /\ "failed" \in Unlucky
    BY <1>1 DEF Unlucky
  <2>. QED  BY <1>1, <1>4, <2>1, <2>2, <2>3, FailPromise
<1>. QED  BY <1>3, <1>4 DEF Write

-----------------------------------------------------------------------------
(* The other steps.                                                           *)

LEMMA AnswerLostPromise ==
    ASSUME Inv, Promise, AnswerLost
    PROVE  Promise'
<1>1. /\ pc = "write" /\ server' \in AfterStatement /\ Fail("failed")
      /\ kind' = kind /\ config' = config /\ disturbed' = disturbed /\ synced' = synced
      /\ ~sure' /\ "failed" \in Unlucky
  BY DEF AnswerLost, Unlucky
<1>2. ServerClean'
  BY <1>1, StatementClean DEF ServerClean
<1>. QED  BY <1>1, <1>2, FailPromise

LEMMA CallFailsPromise ==
    ASSUME Inv, Promise, CallFails
    PROVE  Promise'
<1>1. /\ pc # "idle" /\ Fail("failed")
      /\ kind' = kind /\ config' = config /\ server' = server /\ disturbed' = disturbed
      /\ synced' = synced /\ ~sure' /\ "failed" \in Unlucky
  BY DEF CallFails, data, Unlucky
<1>2. ServerClean'
  BY <1>1 DEF Promise, ServerClean
<1>. QED  BY <1>1, <1>2, FailPromise

LEMMA CatchUpPromise ==
    ASSUME Inv, Promise, CatchUp
    PROVE  Promise'
<1>1. /\ view' = server
      /\ kind' = kind /\ config' = config /\ server' = server /\ tf' = tf
      /\ op' = op /\ pc' = pc /\ target' = target /\ row' = row /\ wrote' = wrote
      /\ outcome' = outcome
      /\ disturbed' = disturbed /\ fresh' = fresh /\ synced' = synced /\ sure' = sure
      /\ compared' = compared
  BY DEF CatchUp, control, history
<1>2. ServerClean' /\ StateMarked'
  BY <1>1 DEF Promise, ServerClean, StateMarked
<1>3. Begun'
  BY <1>1, ReplacesKept DEF Promise, Begun, Sought
<1>4. RowInHand' /\ Alone'
  BY <1>1 DEF Promise, RowInHand, Alone
<1>5. InStep' /\ Made'
  BY <1>1 DEF Promise, InStep, Made
<1>6. Outcomes'
  BY <1>1 DEF Promise, Outcomes, Succeeded, Surely
<1>. QED  BY <1>2, <1>3, <1>4, <1>5, <1>6 DEF Promise

LEMMA OtherClientPromise ==
    ASSUME Inv, Promise, OtherClient
    PROVE  Promise'
<1>1. /\ kind' = kind /\ config' = config /\ view' = view /\ tf' = tf
      /\ op' = op /\ pc' = pc /\ target' = target /\ row' = row /\ wrote' = wrote
      /\ outcome' = outcome
      /\ disturbed' = TRUE /\ fresh' = FALSE /\ synced' = FALSE /\ sure' = FALSE
  BY DEF OtherClient, control
<1>2. ServerClean'
  <2>1. \A e \in Foreign : Clean(kind, e)
    BY ConfigPlanned, CreateBears DEF Inv, Foreign
  <2>2. server \in [Ids -> Stored(kind) \cup {None}]
    BY DEF Inv, DataOK
  <2>3. \A i \in Ids : server'[i] \in {server[i], None} \cup Foreign
    BY <2>2 DEF OtherClient, Creations, Unused
  <2>. QED  BY <1>1, <2>1, <2>3 DEF Promise, ServerClean
<1>3. StateMarked' /\ Begun'
  BY <1>1, ReplacesKept DEF Promise, StateMarked, Begun, Sought
<1>4. RowInHand'
  BY <1>1 DEF Promise, RowInHand
<1>5. Alone' /\ InStep' /\ Made' /\ Outcomes'
  BY <1>1 DEF Alone, InStep, Made, Outcomes, Succeeded, Surely
<1>. QED  BY <1>2, <1>3, <1>4, <1>5 DEF Promise

LEMMA ReconfigurePromise ==
    ASSUME Inv, Promise, Reconfigure
    PROVE  Promise'
<1>1. /\ pc = "idle" /\ outcome' = "none"
      /\ kind' = kind /\ server' = server /\ view' = view /\ tf' = tf
      /\ op' = op /\ pc' = pc /\ target' = target /\ row' = row /\ wrote' = wrote
      /\ disturbed' = disturbed /\ fresh' = fresh /\ synced' = synced /\ sure' = sure
      /\ compared' = compared
  BY DEF Reconfigure, history
<1>2. op = "none" /\ ~wrote
  BY <1>1 DEF Promise, Begun
<1>3. ServerClean' /\ StateMarked'
  BY <1>1 DEF Promise, ServerClean, StateMarked
<1>4. Begun'
  BY <1>1, <1>2 DEF Promise, Begun
<1>5. RowInHand' /\ Alone' /\ Made' /\ Outcomes'
  BY <1>1, <1>2 DEF RowInHand, Alone, Made, Outcomes, Succeeded, Surely, Unlucky
<1>6. InStep'
  BY <1>1, <1>2 DEF Promise, InStep, Changing
<1>. QED  BY <1>3, <1>4, <1>5, <1>6 DEF Promise

LEMMA PromiseInitially == Init => Promise
<1> SUFFICES ASSUME Init PROVE Promise
  OBVIOUS
<1>1. ServerClean /\ StateMarked /\ Begun
  BY DEF Init, ServerClean, StateMarked, Begun
<1>2. RowInHand /\ Alone /\ InStep /\ Made
  BY DEF Init, RowInHand, Alone, InStep, Made, Changing
<1>3. Outcomes
  BY DEF Init, Outcomes, Succeeded, Surely, Unlucky
<1>. QED  BY <1>1, <1>2, <1>3 DEF Promise

LEMMA PromiseInductive == Inv /\ Promise /\ [Next]_vars => Promise'
<1> SUFFICES ASSUME Inv, Promise, [Next]_vars PROVE Promise'
  OBVIOUS
<1>1. CASE UNCHANGED vars
  <2>1. /\ kind' = kind /\ config' = config /\ server' = server /\ view' = view /\ tf' = tf
        /\ op' = op /\ pc' = pc /\ target' = target /\ row' = row /\ wrote' = wrote
        /\ outcome' = outcome
        /\ disturbed' = disturbed /\ fresh' = fresh /\ synced' = synced /\ sure' = sure
        /\ compared' = compared
    BY <1>1 DEF vars, data, control, history, budget
  <2>2. ServerClean' /\ StateMarked'
    BY <2>1 DEF Promise, ServerClean, StateMarked
  <2>3. Begun'
    BY <2>1, ReplacesKept DEF Promise, Begun, Sought
  <2>4. RowInHand' /\ Alone'
    BY <2>1 DEF Promise, RowInHand, Alone
  <2>5. InStep' /\ Made'
    BY <2>1 DEF Promise, InStep, Made
  <2>6. Outcomes'
    BY <2>1 DEF Promise, Outcomes, Succeeded, Surely
  <2>. QED  BY <2>2, <2>3, <2>4, <2>5, <2>6 DEF Promise
<1>2. /\ ByIdOrName \in {"find", "lookup"} /\ BeforeDrop \in {"lookup", "write"}
      /\ ByIdOrName = "find" => ~ById(kind)
  BY DEF ByIdOrName, BeforeDrop
<1>3. CASE Refresh
  BY <1>2, <1>3, BeginPromise DEF Refresh, Op
<1>4. CASE Create
  BY <1>4, BeginPromise DEF Create, Op, Changing
<1>5. CASE Import
  BY <1>5, BeginPromise DEF Import, Op, Changing
<1>6. CASE Update
  BY <1>2, <1>6, BeginPromise DEF Update, Op
<1>7. CASE Replace
  BY <1>2, <1>7, BeginPromise DEF Replace, Op
<1>8. CASE Destroy
  BY <1>2, <1>8, BeginPromise DEF Destroy, Op
<1>9. CASE Provider
  BY <1>9, FindPromise, LookupPromise, ElementsPromise, NormalizePromise,
     WritePromise DEF Provider
<1>. QED  BY <1>1, <1>3, <1>4, <1>5, <1>6, <1>7, <1>8, <1>9, ReconfigurePromise,
             GiveUpPromise, AnswerLostPromise, CallFailsPromise, NormalizeFailsPromise,
             CatchUpPromise, OtherClientPromise DEF Next

(* Between two statements of other clients, rows, state and server agree as   *)
(* the invariant has it, whichever kind of resource it is.                    *)
THEOREM PromiseInvariance == Spec => [](Inv /\ Promise)
<1>1. Init => Promise
  BY PromiseInitially
<1>2. Inv /\ Promise /\ [Next]_vars => Promise'
  BY PromiseInductive
<1>. QED  BY <1>1, <1>2, Invariance, PTL DEF Spec

-----------------------------------------------------------------------------
(* A create or update that succeeds has put the whole configuration on the    *)
(* entity that the state stands for, unless another client intervened or a    *)
(* lagging replica answered the last read.                                    *)
THEOREM SuccessApplied == Spec => []SuccessMeansApplied
<1>1. Inv /\ Promise => SuccessMeansApplied
  <2> SUFFICES ASSUME Inv, Promise, outcome = "applied", ~disturbed, fresh
               PROVE  Mine # {} /\ \A i \in Mine : Applied(server[i])
    BY DEF SuccessMeansApplied
  <2>1. tf # None /\ Bearing(kind, tf, server, config, sure)
    BY DEF Promise, Outcomes, Succeeded
  <2>2. Mine = Own(kind, tf, server)
    BY <2>1, MineIsOwn DEF Inv
  <2>. QED  BY <2>1, <2>2, AppliedIs, ConfigPlanned DEF Bearing, Inv
<1>. QED  BY <1>1, PromiseInvariance, PTL

(* A plan made from a refresh that was current, with nothing in its way, does *)
(* not fail: every lookup finds its row, no statement is refused and every    *)
(* value comes back as planned, unless the name is another entity's.          *)
THEOREM SurePlansApply == Spec => []SurePlanApplies
<1>1. Inv /\ Promise => SurePlanApplies
  <2> SUFFICES ASSUME Inv, Promise, sure, outcome \in {"failed", "panic", "forgotten"}
               PROVE  \/ \E i \in Named(server, config.name) : i \notin Mine
                      \/ kind = "settings_profile" /\ tf # None /\ tf.tainted
    BY DEF SurePlanApplies
  <2>1. Excused(kind, tf, server, config)
    BY DEF Promise, Outcomes, Surely, Unlucky
  <2>2. CASE tf = None
    <3>1. Mine = {}
      BY <2>2, Zenon DEF Mine
    <3>. QED  BY <2>1, <2>2, <3>1 DEF Excused
  <2>3. CASE tf # None
    <3>1. Mine = Own(kind, tf, server)
      BY <2>3, MineIsOwn DEF Inv
    <3>. QED  BY <2>1, <2>3, <3>1 DEF Excused
  <2>. QED  BY <2>2, <2>3
<1>. QED  BY <1>1, PromiseInvariance, PTL

(* After a refresh that was current an empty plan means that the entity is    *)
(* there and as configured, as far as the server shows its attributes: the    *)
(* one thing that a failed call hides, with the refresh succeeding all the    *)
(* same, is the expression of a policy that NormalizeExpression was asked for.*)
THEOREM EmptyPlansAreTrue == Spec => []DriftSeen
<1>1. Inv /\ Promise => DriftSeen
  <2> SUFFICES ASSUME Inv, Promise, synced, tf # None, tf.attrs = config
               PROVE  Mine # {} /\ \A i \in Mine : Matches(server[i])
    BY DEF DriftSeen
  <2>1. Tracked(kind, tf, compared, server)
    BY DEF Promise, InStep
  <2>2. Mine = Own(kind, tf, server)
    BY MineIsOwn DEF Inv
  <2>3. \A i \in Own(kind, tf, server) : server[i] \in Stored(kind)
    BY DEF Own, Inv, DataOK
  <2>. QED  BY <2>1, <2>2, <2>3, TracksMatches, ConfigPlanned DEF Tracked, Inv
<1>. QED  BY <1>1, PromiseInvariance, PTL
=============================================================================

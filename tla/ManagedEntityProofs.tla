------------------------- MODULE ManagedEntityProofs -------------------------
(***************************************************************************)
(* ManagedEntity for any names, ids, configurations and bounds: types, and *)
(* that a handler alters and drops only the entity its state stands for.   *)
(***************************************************************************)
EXTENDS ManagedEntity, TLAPS

Rows(A) == [id : Ids, attrs : A]
Marks == Maybe(Values) \cup SUBSET Keys
StatesOf(A) == [id : Ids, attrs : A, mark : Marks, tainted : BOOLEAN]

Found(k)  == Rows(Stored(k))
States(k) == StatesOf(Attributes(k))

(* The attributes by kind, where the name is one of N.                        *)
Role(N)          == [name : N]
User(N)          == [name : N, hosts : Maybe(Values), auth : Maybe(Values)]
Profile(N)       == [name : N, inherit : Maybe(Values)]
RowPolicy(N)     == [name : N, filter : Maybe(Expression), grantees : Maybe(Values)]
MaskingPolicy(N) == [name : N, masks : Maybe(Values), where : Maybe(Expression)]
Database(N)      == [name : N, comment : Maybe(Values)]
Collection(N)    == [name : N, keys : [Keys -> Maybe(Seen)],
                     secrets : [Keys -> Maybe(Seen)], flagged : SUBSET Keys]
CollectionEntity == [name : Names, keys : [Keys -> Maybe(Seen)], flagged : SUBSET Keys]

LEMMA MaybeHas ==
    /\ Names \subseteq Maybe(Names)
    /\ Unset \in Maybe(Names) /\ Unset \in Maybe(Values) /\ Unset \in Maybe(Seen)
    /\ Unset \in Maybe(Expression)
BY DEF Maybe

-----------------------------------------------------------------------------
(* The attributes that a kind has.                                            *)

LEMMA RoleIs ==
    ASSUME kind = "role"
    PROVE  /\ Attributes(kind) = Role(Maybe(Names))
           /\ Stored(kind) = Role(Names) /\ Wanted(kind) = Role(Names)
<1>1. Attributes(kind) = Role(Maybe(Names))
  BY Zenon DEF Attributes, Role
<1>2. {e \in Role(Maybe(Names)) : e.name \in Names} = Role(Names)
  BY MaybeHas DEF Role
<1>. QED  BY <1>1, <1>2, Zenon DEF Stored, Wanted

LEMMA UserIs ==
    ASSUME kind = "user"
    PROVE  /\ Attributes(kind) = User(Maybe(Names))
           /\ Stored(kind) = User(Names) /\ Wanted(kind) = User(Names)
<1>1. Attributes(kind) = User(Maybe(Names))
  BY Zenon DEF Attributes, User
<1>2. {e \in User(Maybe(Names)) : e.name \in Names} = User(Names)
  BY MaybeHas DEF User
<1>. QED  BY <1>1, <1>2, Zenon DEF Stored, Wanted

LEMMA ProfileIs ==
    ASSUME kind = "settings_profile"
    PROVE  /\ Attributes(kind) = Profile(Maybe(Names))
           /\ Stored(kind) = Profile(Names) /\ Wanted(kind) = Profile(Names)
<1>1. Attributes(kind) = Profile(Maybe(Names))
  BY Zenon DEF Attributes, Profile
<1>2. {e \in Profile(Maybe(Names)) : e.name \in Names} = Profile(Names)
  BY MaybeHas DEF Profile
<1>. QED  BY <1>1, <1>2, Zenon DEF Stored, Wanted

LEMMA RowPolicyIs ==
    ASSUME kind = "row_policy"
    PROVE  /\ Attributes(kind) = RowPolicy(Maybe(Names))
           /\ Stored(kind) = RowPolicy(Names) /\ Wanted(kind) = RowPolicy(Names)
<1>1. Attributes(kind) = RowPolicy(Maybe(Names))
  BY Zenon DEF Attributes, RowPolicy
<1>2. {e \in RowPolicy(Maybe(Names)) : e.name \in Names} = RowPolicy(Names)
  BY MaybeHas DEF RowPolicy
<1>. QED  BY <1>1, <1>2, Zenon DEF Stored, Wanted

LEMMA MaskingPolicyIs ==
    ASSUME kind = "masking_policy"
    PROVE  /\ Attributes(kind) = MaskingPolicy(Maybe(Names))
           /\ Stored(kind) = MaskingPolicy(Names) /\ Wanted(kind) = MaskingPolicy(Names)
<1>1. Attributes(kind) = MaskingPolicy(Maybe(Names))
  BY Zenon DEF Attributes, MaskingPolicy
<1>2. {e \in MaskingPolicy(Maybe(Names)) : e.name \in Names} = MaskingPolicy(Names)
  BY MaybeHas DEF MaskingPolicy
<1>. QED  BY <1>1, <1>2, Zenon DEF Stored, Wanted

LEMMA DatabaseIs ==
    ASSUME kind = "database"
    PROVE  /\ Attributes(kind) = Database(Maybe(Names))
           /\ Stored(kind) = Database(Names) /\ Wanted(kind) = Database(Names)
<1>1. Attributes(kind) = Database(Maybe(Names))
  BY Zenon DEF Attributes, Database
<1>2. {e \in Database(Maybe(Names)) : e.name \in Names} = Database(Names)
  BY MaybeHas DEF Database
<1>. QED  BY <1>1, <1>2, Zenon DEF Stored, Wanted

LEMMA CollectionIs ==
    ASSUME kind = "named_collection"
    PROVE  /\ Attributes(kind) = Collection(Maybe(Names))
           /\ Stored(kind) = CollectionEntity /\ Wanted(kind) = Collection(Names)
<1>1. Attributes(kind) = Collection(Maybe(Names))
  BY Zenon DEF Attributes, Collection
<1>2. {e \in Collection(Maybe(Names)) : e.name \in Names} = Collection(Names)
  BY MaybeHas DEF Collection
<1>. QED  BY <1>1, <1>2, Zenon DEF Stored, Wanted, CollectionEntity

LEMMA NormalType ==
    ASSUME NEW e \in Maybe(Expression)
    PROVE  Normal(e) \in Maybe(Expression)
BY DEF Normal, Maybe, Expression

LEMMA PlannedType ==
    ASSUME NEW want \in Collection(Names)
    PROVE  PlannedKeys(want) \in [Keys -> Maybe(Seen)]
<1>1. want.keys \in [Keys -> Maybe(Seen)] /\ want.secrets \in [Keys -> Maybe(Seen)]
  BY DEF Collection
<1>. QED  BY <1>1 DEF PlannedKeys

-----------------------------------------------------------------------------
(* What the handlers return, kind by kind.                                    *)

(* A row has the id and the name of its entity.                               *)
LEMMA RowType ==
    ASSUME kind \in Kind, NEW id \in Ids, NEW e \in Stored(kind)
    PROVE  /\ RowOf(id, e) \in Found(kind)
           /\ RowOf(id, e).id = id /\ RowOf(id, e).attrs.name = e.name
<1>1. CASE kind = "role"
  <2>1. RowOf(id, e) = GetRole(id, e)
    BY <1>1, Zenon DEF RowOf
  <2>2. e \in Role(Names)
    BY <1>1, RoleIs, Zenon DEF Found, States
  <2>3. /\ GetRole(id, e) \in Rows(Role(Names))
        /\ GetRole(id, e).id = id /\ GetRole(id, e).attrs.name = e.name
    BY <2>2, MaybeHas DEF Role, GetRole, Rows, Row
  <2>. QED  BY <1>1, <2>1, <2>3, RoleIs, Zenon DEF Found
<1>2. CASE kind = "user"
  <2>1. RowOf(id, e) = GetUser(id, e)
    BY <1>2, Zenon DEF RowOf
  <2>2. e \in User(Names)
    BY <1>2, UserIs, Zenon DEF Found, States
  <2>3. /\ GetUser(id, e) \in Rows(User(Names))
        /\ GetUser(id, e).id = id /\ GetUser(id, e).attrs.name = e.name
    BY <2>2, MaybeHas DEF User, GetUser, Rows, Row
  <2>. QED  BY <1>2, <2>1, <2>3, UserIs, Zenon DEF Found
<1>3. CASE kind = "settings_profile"
  <2>1. RowOf(id, e) = GetSettingsProfile(id, e)
    BY <1>3, Zenon DEF RowOf
  <2>2. e \in Profile(Names)
    BY <1>3, ProfileIs, Zenon DEF Found, States
  <2>3. /\ GetSettingsProfile(id, e) \in Rows(Profile(Names))
        /\ GetSettingsProfile(id, e).id = id /\ GetSettingsProfile(id, e).attrs.name = e.name
    BY <2>2, MaybeHas DEF Profile, GetSettingsProfile, Rows, Row
  <2>. QED  BY <1>3, <2>1, <2>3, ProfileIs, Zenon DEF Found
<1>4. CASE kind = "row_policy"
  <2>1. RowOf(id, e) = GetRowPolicyByID(id, e)
    BY <1>4, Zenon DEF RowOf
  <2>2. e \in RowPolicy(Names)
    BY <1>4, RowPolicyIs, Zenon DEF Found, States
  <2>3. /\ GetRowPolicyByID(id, e) \in Rows(RowPolicy(Names))
        /\ GetRowPolicyByID(id, e).id = id /\ GetRowPolicyByID(id, e).attrs.name = e.name
    BY <2>2, MaybeHas DEF RowPolicy, GetRowPolicyByID, Rows, Row
  <2>. QED  BY <1>4, <2>1, <2>3, RowPolicyIs, Zenon DEF Found
<1>5. CASE kind = "masking_policy"
  <2>1. RowOf(id, e) = GetMaskingPolicyByID(id, e)
    BY <1>5, Zenon DEF RowOf
  <2>2. e \in MaskingPolicy(Names)
    BY <1>5, MaskingPolicyIs, Zenon DEF Found, States
  <2>3. /\ GetMaskingPolicyByID(id, e) \in Rows(MaskingPolicy(Names))
        /\ GetMaskingPolicyByID(id, e).id = id /\ GetMaskingPolicyByID(id, e).attrs.name = e.name
    BY <2>2, MaybeHas DEF MaskingPolicy, GetMaskingPolicyByID, Hash, Rows, Row
  <2>. QED  BY <1>5, <2>1, <2>3, MaskingPolicyIs, Zenon DEF Found
<1>6. CASE kind = "database"
  <2>1. RowOf(id, e) = GetDatabase(id, e)
    BY <1>6, Zenon DEF RowOf
  <2>2. e \in Database(Names)
    BY <1>6, DatabaseIs, Zenon DEF Found, States
  <2>3. /\ GetDatabase(id, e) \in Rows(Database(Names))
        /\ GetDatabase(id, e).id = id /\ GetDatabase(id, e).attrs.name = e.name
    BY <2>2, MaybeHas DEF Database, GetDatabase, Rows, Row
  <2>. QED  BY <1>6, <2>1, <2>3, DatabaseIs, Zenon DEF Found
<1>7. CASE kind = "named_collection"
  <2>1. RowOf(id, e) = GetNamedCollection(id, e)
    BY <1>7, Zenon DEF RowOf
  <2>2. e \in CollectionEntity
    BY <1>7, CollectionIs, Zenon DEF Found, States
  <2>3. [k \in Keys |-> IF ShowSecrets \/ e.keys[k] = Unset THEN e.keys[k] ELSE Hidden]
              \in [Keys -> Maybe(Seen)]
    BY <2>2, MaybeHas DEF CollectionEntity, Maybe, Seen
  <2>4. /\ GetNamedCollection(id, e) \in Rows(CollectionEntity)
        /\ GetNamedCollection(id, e).id = id /\ GetNamedCollection(id, e).attrs.name = e.name
    BY <2>2, <2>3, MaybeHas DEF Collection, CollectionEntity, GetNamedCollection, Rows, Row
  <2>. QED  BY <1>7, <2>1, <2>4, CollectionIs, Zenon DEF Found
<1>. QED  BY <1>1, <1>2, <1>3, <1>4, <1>5, <1>6, <1>7 DEF Kind

(* A CREATE makes an entity of the configured name.                           *)
LEMMA CreateType ==
    ASSUME kind \in Kind, NEW want \in Wanted(kind)
    PROVE  CreateOf(want) \in Stored(kind) /\ CreateOf(want).name = want.name
<1>1. CASE kind = "role"
  <2>1. CreateOf(want) = CreateRole(want)
    BY <1>1, Zenon DEF CreateOf
  <2>2. want \in Role(Names)
    BY <1>1, RoleIs, Zenon DEF Found, States
  <2>3. CreateRole(want) \in Role(Names) /\ CreateRole(want).name = want.name
    BY <2>2, MaybeHas DEF Role, CreateRole
  <2>. QED  BY <1>1, <2>1, <2>3, RoleIs, Zenon
<1>2. CASE kind = "user"
  <2>1. CreateOf(want) = CreateUser(want)
    BY <1>2, Zenon DEF CreateOf
  <2>2. want \in User(Names)
    BY <1>2, UserIs, Zenon DEF Found, States
  <2>3. CreateUser(want) \in User(Names) /\ CreateUser(want).name = want.name
    BY <2>2, MaybeHas DEF User, CreateUser
  <2>. QED  BY <1>2, <2>1, <2>3, UserIs, Zenon
<1>3. CASE kind = "settings_profile"
  <2>1. CreateOf(want) = CreateSettingsProfile(want)
    BY <1>3, Zenon DEF CreateOf
  <2>2. want \in Profile(Names)
    BY <1>3, ProfileIs, Zenon DEF Found, States
  <2>3. /\ CreateSettingsProfile(want) \in Profile(Names)
        /\ CreateSettingsProfile(want).name = want.name
    BY <2>2, MaybeHas DEF Profile, CreateSettingsProfile
  <2>. QED  BY <1>3, <2>1, <2>3, ProfileIs, Zenon
<1>4. CASE kind = "row_policy"
  <2>1. CreateOf(want) = CreateRowPolicy(want)
    BY <1>4, Zenon DEF CreateOf
  <2>2. want \in RowPolicy(Names)
    BY <1>4, RowPolicyIs, Zenon DEF Found, States
  <2>3. Normal(want.filter) \in Maybe(Expression)
    BY <2>2, MaybeHas, NormalType DEF RowPolicy
  <2>4. CreateRowPolicy(want) \in RowPolicy(Names) /\ CreateRowPolicy(want).name = want.name
    BY <2>2, <2>3, MaybeHas DEF RowPolicy, CreateRowPolicy
  <2>. QED  BY <1>4, <2>1, <2>4, RowPolicyIs, Zenon
<1>5. CASE kind = "masking_policy"
  <2>1. CreateOf(want) = CreateMaskingPolicy(want)
    BY <1>5, Zenon DEF CreateOf
  <2>2. want \in MaskingPolicy(Names)
    BY <1>5, MaskingPolicyIs, Zenon DEF Found, States
  <2>3. Normal(want.where) \in Maybe(Expression)
    BY <2>2, MaybeHas, NormalType DEF MaskingPolicy
  <2>4. /\ CreateMaskingPolicy(want) \in MaskingPolicy(Names)
        /\ CreateMaskingPolicy(want).name = want.name
    BY <2>2, <2>3, MaybeHas DEF MaskingPolicy, CreateMaskingPolicy
  <2>. QED  BY <1>5, <2>1, <2>4, MaskingPolicyIs, Zenon
<1>6. CASE kind = "database"
  <2>1. CreateOf(want) = CreateDatabase(want)
    BY <1>6, Zenon DEF CreateOf
  <2>2. want \in Database(Names)
    BY <1>6, DatabaseIs, Zenon DEF Found, States
  <2>3. CreateDatabase(want) \in Database(Names) /\ CreateDatabase(want).name = want.name
    BY <2>2, MaybeHas DEF Database, CreateDatabase
  <2>. QED  BY <1>6, <2>1, <2>3, DatabaseIs, Zenon
<1>7. CASE kind = "named_collection"
  <2>1. CreateOf(want) = CreateNamedCollection(want)
    BY <1>7, Zenon DEF CreateOf
  <2>2. want \in Collection(Names)
    BY <1>7, CollectionIs, Zenon DEF Found, States
  <2>3. PlannedKeys(want) \in [Keys -> Maybe(Seen)]
    BY <2>2, MaybeHas, PlannedType
  <2>4. /\ CreateNamedCollection(want) \in CollectionEntity
        /\ CreateNamedCollection(want).name = want.name
    BY <2>2, <2>3, MaybeHas DEF Collection, CollectionEntity, CreateNamedCollection
  <2>. QED  BY <1>7, <2>1, <2>4, CollectionIs
<1>. QED  BY <1>1, <1>2, <1>3, <1>4, <1>5, <1>6, <1>7 DEF Kind

(* An ALTER keeps the shape of the entity.                                    *)
LEMMA AlterType ==
    ASSUME kind \in Kind, kind # "database", config \in Wanted(kind), NEW e \in Stored(kind)
    PROVE  AlterOf(e) \in Stored(kind)
<1>1. CASE kind = "role"
  <2>1. AlterOf(e) = UpdateRole(e, config)
    BY <1>1, Zenon DEF AlterOf
  <2>2. e \in Role(Names) /\ config \in Role(Names)
    BY <1>1, RoleIs, Zenon DEF Found, States
  <2>3. UpdateRole(e, config) \in Role(Names)
    BY <2>2, MaybeHas DEF Role, UpdateRole
  <2>. QED  BY <1>1, <2>1, <2>3, RoleIs, Zenon
<1>2. CASE kind = "user"
  <2>1. AlterOf(e) = UpdateUser(e, config)
    BY <1>2, Zenon DEF AlterOf
  <2>2. e \in User(Names) /\ config \in User(Names)
    BY <1>2, UserIs, Zenon DEF Found, States
  <2>3. UpdateUser(e, config) \in User(Names)
    BY <2>2, MaybeHas DEF User, UpdateUser
  <2>. QED  BY <1>2, <2>1, <2>3, UserIs, Zenon
<1>3. CASE kind = "settings_profile"
  <2>1. AlterOf(e) = UpdateSettingsProfile(e, config)
    BY <1>3, Zenon DEF AlterOf
  <2>2. e \in Profile(Names) /\ config \in Profile(Names)
    BY <1>3, ProfileIs, Zenon DEF Found, States
  <2>3. UpdateSettingsProfile(e, config) \in Profile(Names)
    BY <2>2, MaybeHas DEF Profile, UpdateSettingsProfile
  <2>. QED  BY <1>3, <2>1, <2>3, ProfileIs, Zenon
<1>4. CASE kind = "row_policy"
  <2>1. AlterOf(e) = UpdateRowPolicy(e, config)
    BY <1>4, Zenon DEF AlterOf
  <2>2. e \in RowPolicy(Names) /\ config \in RowPolicy(Names)
    BY <1>4, RowPolicyIs, Zenon DEF Found, States
  <2>3. Normal(config.filter) \in Maybe(Expression)
    BY <2>2, MaybeHas, NormalType DEF RowPolicy
  <2>4. UpdateRowPolicy(e, config) \in RowPolicy(Names)
    BY <2>2, <2>3, MaybeHas DEF RowPolicy, UpdateRowPolicy
  <2>. QED  BY <1>4, <2>1, <2>4, RowPolicyIs, Zenon
<1>5. CASE kind = "masking_policy"
  <2>1. AlterOf(e) = UpdateMaskingPolicy(e, config)
    BY <1>5, Zenon DEF AlterOf
  <2>2. e \in MaskingPolicy(Names) /\ config \in MaskingPolicy(Names)
    BY <1>5, MaskingPolicyIs, Zenon DEF Found, States
  <2>3. Normal(config.where) \in Maybe(Expression)
    BY <2>2, MaybeHas, NormalType DEF MaskingPolicy
  <2>4. UpdateMaskingPolicy(e, config) \in MaskingPolicy(Names)
    BY <2>2, <2>3, MaybeHas DEF MaskingPolicy, UpdateMaskingPolicy
  <2>. QED  BY <1>5, <2>1, <2>4, MaskingPolicyIs, Zenon
<1>6. CASE kind = "named_collection"
  <2>1. AlterOf(e) = UpdateNamedCollection(e, tf, row.attrs, config)
    BY <1>6, Zenon DEF AlterOf
  <2>2. e \in CollectionEntity /\ config \in Collection(Names)
    BY <1>6, CollectionIs, Zenon DEF Found, States
  <2>3. PlannedKeys(config) \in [Keys -> Maybe(Seen)]
    BY <2>2, MaybeHas, PlannedType
  <2>4. DeletedKeys(tf, row.attrs, config) \subseteq Keys
    BY <2>2, <2>3, MaybeHas DEF DeletedKeys, Present
  <2>5. UpdateNamedCollection(e, tf, row.attrs, config) \in CollectionEntity
    BY <2>2, <2>3, <2>4, MaybeHas DEF Collection, CollectionEntity, UpdateNamedCollection
  <2>. QED  BY <1>6, <2>1, <2>5, CollectionIs
<1>. QED  BY <1>1, <1>2, <1>3, <1>4, <1>5, <1>6 DEF Kind

(* What the handlers record of a row.                                         *)
LEMMA ReadType ==
    ASSUME kind \in Kind, NEW s \in States(kind), NEW r \in Found(kind),
           NEW answered \in BOOLEAN
    PROVE  ReadOf(s, r, answered) \in States(kind)
<1>1. CASE kind = "role"
  <2>1. ReadOf(s, r, answered) = RoleRead(s, r)
    BY <1>1, Zenon DEF ReadOf
  <2>2. s \in StatesOf(Role(Maybe(Names))) /\ r \in Rows(Role(Names))
    BY <1>1, RoleIs, Zenon DEF Found, States
  <2>3. RoleRead(s, r) \in StatesOf(Role(Maybe(Names)))
    BY <2>2, MaybeHas DEF Role, RoleRead, StatesOf, Marks, State, Rows
  <2>. QED  BY <1>1, <2>1, <2>3, RoleIs, Zenon DEF States
<1>2. CASE kind = "user"
  <2>1. ReadOf(s, r, answered) = UserRead(s, r)
    BY <1>2, Zenon DEF ReadOf
  <2>2. s \in StatesOf(User(Maybe(Names))) /\ r \in Rows(User(Names))
    BY <1>2, UserIs, Zenon DEF Found, States
  <2>3. UserRead(s, r) \in StatesOf(User(Maybe(Names)))
    BY <2>2, MaybeHas DEF User, UserRead, StatesOf, Marks, State, Rows
  <2>. QED  BY <1>2, <2>1, <2>3, UserIs, Zenon DEF States
<1>3. CASE kind = "settings_profile"
  <2>1. ReadOf(s, r, answered) = ProfileFromApiResponse(s, r)
    BY <1>3, Zenon DEF ReadOf
  <2>2. s \in StatesOf(Profile(Maybe(Names))) /\ r \in Rows(Profile(Names))
    BY <1>3, ProfileIs, Zenon DEF Found, States
  <2>3. ProfileFromApiResponse(s, r) \in StatesOf(Profile(Maybe(Names)))
    BY <2>2, MaybeHas DEF Profile, ProfileFromApiResponse, StatesOf, Marks, State, Rows
  <2>. QED  BY <1>3, <2>1, <2>3, ProfileIs, Zenon DEF States
<1>4. CASE kind = "row_policy"
  <2>1. ReadOf(s, r, answered) = RowPolicyRead(s, r, answered)
    BY <1>4, Zenon DEF ReadOf
  <2>2. s \in StatesOf(RowPolicy(Maybe(Names))) /\ r \in Rows(RowPolicy(Names))
    BY <1>4, RowPolicyIs, Zenon DEF Found, States
  <2>3. RowPolicyRead(s, r, answered) \in StatesOf(RowPolicy(Maybe(Names)))
    BY <2>2, MaybeHas
      DEF RowPolicy, RowPolicyRead, RowPolicyFromDBOps, StatesOf, Marks, State, Rows
  <2>. QED  BY <1>4, <2>1, <2>3, RowPolicyIs, Zenon DEF States
<1>5. CASE kind = "masking_policy"
  <2>1. ReadOf(s, r, answered) = MaskingPolicyRead(s, r, answered)
    BY <1>5, Zenon DEF ReadOf
  <2>2. s \in StatesOf(MaskingPolicy(Maybe(Names))) /\ r \in Rows(MaskingPolicy(Names))
    BY <1>5, MaskingPolicyIs, Zenon DEF Found, States
  <2>3. MaskingPolicyRead(s, r, answered) \in StatesOf(MaskingPolicy(Maybe(Names)))
    BY <2>2, MaybeHas
      DEF MaskingPolicy, MaskingPolicyRead, MasksRead, StatesOf, Marks, State, Rows
  <2>. QED  BY <1>5, <2>1, <2>3, MaskingPolicyIs, Zenon DEF States
<1>6. CASE kind = "database"
  <2>1. ReadOf(s, r, answered) = DatabaseRead(s, r)
    BY <1>6, Zenon DEF ReadOf
  <2>2. s \in StatesOf(Database(Maybe(Names))) /\ r \in Rows(Database(Names))
    BY <1>6, DatabaseIs, Zenon DEF Found, States
  <2>3. DatabaseRead(s, r) \in StatesOf(Database(Maybe(Names)))
    BY <2>2, MaybeHas
      DEF Database, DatabaseRead, SyncDatabaseState, StatesOf, Marks, State, Rows
  <2>. QED  BY <1>6, <2>1, <2>3, DatabaseIs, Zenon DEF States
<1>7. CASE kind = "named_collection"
  <2>1. ReadOf(s, r, answered) = NamedCollectionRead(s, r)
    BY <1>7, Zenon DEF ReadOf
  <2>2. s \in StatesOf(Collection(Maybe(Names))) /\ r \in Rows(CollectionEntity)
    BY <1>7, CollectionIs, Zenon DEF Found, States
  <2>3. [k \in Keys |-> KeyRead(s, r, k)] \in [Keys -> Maybe(Seen)]
    BY <2>2, MaybeHas DEF KeyRead, Collection, CollectionEntity, StatesOf, Rows
  <2>4. NoKeys \in [Keys -> Maybe(Seen)]
    BY <2>2, <2>3, MaybeHas DEF NoKeys
  <2>5. NamedCollectionRead(s, r) \in StatesOf(Collection(Maybe(Names)))
    BY <2>2, <2>3, <2>4, MaybeHas
      DEF Collection, CollectionEntity, NamedCollectionRead, StatesOf, Marks, State, Rows
  <2>. QED  BY <1>7, <2>1, <2>5, CollectionIs, Zenon DEF States
<1>. QED  BY <1>1, <1>2, <1>3, <1>4, <1>5, <1>6, <1>7 DEF Kind

LEMMA CreatedType ==
    ASSUME kind \in Kind, config \in Wanted(kind), NEW r \in Found(kind)
    PROVE  CreatedOf(r) \in States(kind)
<1>1. CASE kind = "role"
  <2>1. CreatedOf(r) = RoleCreated(config, r)
    BY <1>1, Zenon DEF CreatedOf
  <2>2. config \in Role(Names) /\ r \in Rows(Role(Names))
    BY <1>1, RoleIs, Zenon DEF Found, States
  <2>3. RoleCreated(config, r) \in StatesOf(Role(Maybe(Names)))
    BY <2>2, MaybeHas DEF Role, RoleCreated, StatesOf, Marks, State, Rows
  <2>. QED  BY <1>1, <2>1, <2>3, RoleIs, Zenon DEF States
<1>2. CASE kind = "user"
  <2>1. CreatedOf(r) = UserCreated(config, r)
    BY <1>2, Zenon DEF CreatedOf
  <2>2. config \in User(Names) /\ r \in Rows(User(Names))
    BY <1>2, UserIs, Zenon DEF Found, States
  <2>3. UserCreated(config, r) \in StatesOf(User(Maybe(Names)))
    BY <2>2, MaybeHas DEF User, UserCreated, StatesOf, Marks, State, Rows
  <2>. QED  BY <1>2, <2>1, <2>3, UserIs, Zenon DEF States
<1>3. CASE kind = "settings_profile"
  <2>1. CreatedOf(r) = ProfileCreated(r)
    BY <1>3, Zenon DEF CreatedOf
  <2>2. config \in Profile(Names) /\ r \in Rows(Profile(Names))
    BY <1>3, ProfileIs, Zenon DEF Found, States
  <2>3. ProfileCreated(r) \in StatesOf(Profile(Maybe(Names)))
    BY <2>2, MaybeHas
      DEF Profile, ProfileCreated, ProfileImported, ProfileFromApiResponse, StatesOf, Marks,
          State, Rows
  <2>. QED  BY <1>3, <2>1, <2>3, ProfileIs, Zenon DEF States
<1>4. CASE kind = "row_policy"
  <2>1. CreatedOf(r) = RowPolicyWritten(config, r)
    BY <1>4, Zenon DEF CreatedOf
  <2>2. config \in RowPolicy(Names) /\ r \in Rows(RowPolicy(Names))
    BY <1>4, RowPolicyIs, Zenon DEF Found, States
  <2>3. RowPolicyWritten(config, r) \in StatesOf(RowPolicy(Maybe(Names)))
    BY <2>2, MaybeHas
      DEF RowPolicy, RowPolicyWritten, RowPolicyFromDBOps, StatesOf, Marks, State, Rows
  <2>. QED  BY <1>4, <2>1, <2>3, RowPolicyIs, Zenon DEF States
<1>5. CASE kind = "masking_policy"
  <2>1. CreatedOf(r) = MaskingPolicyWritten(config, r)
    BY <1>5, Zenon DEF CreatedOf
  <2>2. config \in MaskingPolicy(Names) /\ r \in Rows(MaskingPolicy(Names))
    BY <1>5, MaskingPolicyIs, Zenon DEF Found, States
  <2>3. MaskingPolicyWritten(config, r) \in StatesOf(MaskingPolicy(Maybe(Names)))
    BY <2>2, MaybeHas
      DEF MaskingPolicy, MaskingPolicyWritten, MaskingPolicyFromDBOps, StatesOf, Marks, State,
          Rows
  <2>. QED  BY <1>5, <2>1, <2>3, MaskingPolicyIs, Zenon DEF States
<1>6. CASE kind = "database"
  <2>1. CreatedOf(r) = SyncDatabaseState(r)
    BY <1>6, Zenon DEF CreatedOf
  <2>2. config \in Database(Names) /\ r \in Rows(Database(Names))
    BY <1>6, DatabaseIs, Zenon DEF Found, States
  <2>3. SyncDatabaseState(r) \in StatesOf(Database(Maybe(Names)))
    BY <2>2, MaybeHas DEF Database, SyncDatabaseState, StatesOf, Marks, State, Rows
  <2>. QED  BY <1>6, <2>1, <2>3, DatabaseIs, Zenon DEF States
<1>7. CASE kind = "named_collection"
  <2>1. CreatedOf(r) = NamedCollectionWritten(config, r.id)
    BY <1>7, Zenon DEF CreatedOf
  <2>2. config \in Collection(Names) /\ r \in Rows(CollectionEntity)
    BY <1>7, CollectionIs, Zenon DEF Found, States
  <2>3. NamedCollectionWritten(config, r.id) \in StatesOf(Collection(Maybe(Names)))
    BY <2>2, MaybeHas
      DEF Collection, CollectionEntity, NamedCollectionWritten, Present, StatesOf, Marks,
          State, Rows
  <2>. QED  BY <1>7, <2>1, <2>3, CollectionIs, Zenon DEF States
<1>. QED  BY <1>1, <1>2, <1>3, <1>4, <1>5, <1>6, <1>7 DEF Kind

LEMMA UpdatedType ==
    ASSUME kind \in Kind, kind # "database", config \in Wanted(kind), tf \in States(kind),
           NEW r \in Found(kind)
    PROVE  UpdatedOf(r) \in States(kind)
<1>1. CASE kind = "role"
  <2>1. UpdatedOf(r) = RoleUpdated(tf, r)
    BY <1>1, Zenon DEF UpdatedOf
  <2>2. /\ config \in Role(Names) /\ tf \in StatesOf(Role(Maybe(Names)))
        /\ r \in Rows(Role(Names))
    BY <1>1, RoleIs, Zenon DEF Found, States
  <2>3. RoleUpdated(tf, r) \in StatesOf(Role(Maybe(Names)))
    BY <2>2, MaybeHas DEF Role, RoleUpdated, StatesOf, Marks, State, Rows
  <2>. QED  BY <1>1, <2>1, <2>3, RoleIs, Zenon DEF States
<1>2. CASE kind = "user"
  <2>1. UpdatedOf(r) = UserUpdated(tf, config, r)
    BY <1>2, Zenon DEF UpdatedOf
  <2>2. /\ config \in User(Names) /\ tf \in StatesOf(User(Maybe(Names)))
        /\ r \in Rows(User(Names))
    BY <1>2, UserIs, Zenon DEF Found, States
  <2>3. UserUpdated(tf, config, r) \in StatesOf(User(Maybe(Names)))
    BY <2>2, MaybeHas DEF User, UserUpdated, StatesOf, Marks, State, Rows
  <2>. QED  BY <1>2, <2>1, <2>3, UserIs, Zenon DEF States
<1>3. CASE kind = "settings_profile"
  <2>1. UpdatedOf(r) = ProfileFromApiResponse(tf, r)
    BY <1>3, Zenon DEF UpdatedOf
  <2>2. /\ config \in Profile(Names) /\ tf \in StatesOf(Profile(Maybe(Names)))
        /\ r \in Rows(Profile(Names))
    BY <1>3, ProfileIs, Zenon DEF Found, States
  <2>3. ProfileFromApiResponse(tf, r) \in StatesOf(Profile(Maybe(Names)))
    BY <2>2, MaybeHas DEF Profile, ProfileFromApiResponse, StatesOf, Marks, State, Rows
  <2>. QED  BY <1>3, <2>1, <2>3, ProfileIs, Zenon DEF States
<1>4. CASE kind = "row_policy"
  <2>1. UpdatedOf(r) = RowPolicyWritten(config, r)
    BY <1>4, Zenon DEF UpdatedOf
  <2>2. /\ config \in RowPolicy(Names) /\ tf \in StatesOf(RowPolicy(Maybe(Names)))
        /\ r \in Rows(RowPolicy(Names))
    BY <1>4, RowPolicyIs, Zenon DEF Found, States
  <2>3. RowPolicyWritten(config, r) \in StatesOf(RowPolicy(Maybe(Names)))
    BY <2>2, MaybeHas
      DEF RowPolicy, RowPolicyWritten, RowPolicyFromDBOps, StatesOf, Marks, State, Rows
  <2>. QED  BY <1>4, <2>1, <2>3, RowPolicyIs, Zenon DEF States
<1>5. CASE kind = "masking_policy"
  <2>1. UpdatedOf(r) = MaskingPolicyWritten(config, r)
    BY <1>5, Zenon DEF UpdatedOf
  <2>2. /\ config \in MaskingPolicy(Names) /\ tf \in StatesOf(MaskingPolicy(Maybe(Names)))
        /\ r \in Rows(MaskingPolicy(Names))
    BY <1>5, MaskingPolicyIs, Zenon DEF Found, States
  <2>3. MaskingPolicyWritten(config, r) \in StatesOf(MaskingPolicy(Maybe(Names)))
    BY <2>2, MaybeHas
      DEF MaskingPolicy, MaskingPolicyWritten, MaskingPolicyFromDBOps, StatesOf, Marks, State,
          Rows
  <2>. QED  BY <1>5, <2>1, <2>3, MaskingPolicyIs, Zenon DEF States
<1>6. CASE kind = "named_collection"
  <2>1. UpdatedOf(r) = NamedCollectionWritten(config, tf.id)
    BY <1>6, Zenon DEF UpdatedOf
  <2>2. /\ config \in Collection(Names) /\ tf \in StatesOf(Collection(Maybe(Names)))
        /\ r \in Rows(CollectionEntity)
    BY <1>6, CollectionIs, Zenon DEF Found, States
  <2>3. NamedCollectionWritten(config, tf.id) \in StatesOf(Collection(Maybe(Names)))
    BY <2>2, MaybeHas
      DEF Collection, CollectionEntity, NamedCollectionWritten, Present, StatesOf, Marks,
          State, Rows
  <2>. QED  BY <1>6, <2>1, <2>3, CollectionIs, Zenon DEF States
<1>. QED  BY <1>1, <1>2, <1>3, <1>4, <1>5, <1>6 DEF Kind

LEMMA ImportedType ==
    ASSUME kind \in Kind, NEW r \in Found(kind)
    PROVE  ImportedOf(r) \in States(kind)
<1>1. CASE kind = "role"
  <2>1. ImportedOf(r) = RoleImported(r)
    BY <1>1, Zenon DEF ImportedOf
  <2>2. r \in Rows(Role(Names))
    BY <1>1, RoleIs, Zenon DEF Found, States
  <2>3. RoleImported(r) \in StatesOf(Role(Maybe(Names)))
    BY <2>2, MaybeHas DEF Role, RoleImported, StatesOf, Marks, State, Rows
  <2>. QED  BY <1>1, <2>1, <2>3, RoleIs, Zenon DEF States
<1>2. CASE kind = "user"
  <2>1. ImportedOf(r) = UserImported(r)
    BY <1>2, Zenon DEF ImportedOf
  <2>2. r \in Rows(User(Names))
    BY <1>2, UserIs, Zenon DEF Found, States
  <2>3. UserImported(r) \in StatesOf(User(Maybe(Names)))
    BY <2>2, MaybeHas DEF User, UserImported, StatesOf, Marks, State, Rows
  <2>. QED  BY <1>2, <2>1, <2>3, UserIs, Zenon DEF States
<1>3. CASE kind = "settings_profile"
  <2>1. ImportedOf(r) = ProfileImported(r)
    BY <1>3, Zenon DEF ImportedOf
  <2>2. r \in Rows(Profile(Names))
    BY <1>3, ProfileIs, Zenon DEF Found, States
  <2>3. ProfileImported(r) \in StatesOf(Profile(Maybe(Names)))
    BY <2>2, MaybeHas DEF Profile, ProfileImported, StatesOf, Marks, State, Rows
  <2>. QED  BY <1>3, <2>1, <2>3, ProfileIs, Zenon DEF States
<1>4. CASE kind = "row_policy"
  <2>1. ImportedOf(r) = RowPolicyFromDBOps(r)
    BY <1>4, Zenon DEF ImportedOf
  <2>2. r \in Rows(RowPolicy(Names))
    BY <1>4, RowPolicyIs, Zenon DEF Found, States
  <2>3. RowPolicyFromDBOps(r) \in StatesOf(RowPolicy(Maybe(Names)))
    BY <2>2, MaybeHas DEF RowPolicy, RowPolicyFromDBOps, StatesOf, Marks, State, Rows
  <2>. QED  BY <1>4, <2>1, <2>3, RowPolicyIs, Zenon DEF States
<1>5. CASE kind = "masking_policy"
  <2>1. ImportedOf(r) = MaskingPolicyImported(r)
    BY <1>5, Zenon DEF ImportedOf
  <2>2. r \in Rows(MaskingPolicy(Names))
    BY <1>5, MaskingPolicyIs, Zenon DEF Found, States
  <2>3. MaskingPolicyImported(r) \in StatesOf(MaskingPolicy(Maybe(Names)))
    BY <2>2, MaybeHas
      DEF MaskingPolicy, MaskingPolicyImported, MaskingPolicyFromDBOps, StatesOf, Marks,
          State, Rows
  <2>. QED  BY <1>5, <2>1, <2>3, MaskingPolicyIs, Zenon DEF States
<1>6. CASE kind = "database"
  <2>1. ImportedOf(r) = DatabaseImported(r)
    BY <1>6, Zenon DEF ImportedOf
  <2>2. r \in Rows(Database(Names))
    BY <1>6, DatabaseIs, Zenon DEF Found, States
  <2>3. DatabaseImported(r) \in StatesOf(Database(Maybe(Names)))
    BY <2>2, MaybeHas DEF Database, DatabaseImported, StatesOf, Marks, State, Rows
  <2>. QED  BY <1>6, <2>1, <2>3, DatabaseIs, Zenon DEF States
<1>7. CASE kind = "named_collection"
  <2>1. ImportedOf(r) = NamedCollectionImported(r)
    BY <1>7, Zenon DEF ImportedOf
  <2>2. r \in Rows(CollectionEntity)
    BY <1>7, CollectionIs, Zenon DEF Found, States
  <2>3. NamedCollectionImported(r) \in StatesOf(Collection(Maybe(Names)))
    BY <2>2, MaybeHas
      DEF Collection, CollectionEntity, NamedCollectionImported, NoKeys, Present, StatesOf,
          Marks, State, Rows
  <2>. QED  BY <1>7, <2>1, <2>3, CollectionIs, Zenon DEF States
<1>. QED  BY <1>1, <1>2, <1>3, <1>4, <1>5, <1>6, <1>7 DEF Kind

(* A DROP is addressed to the name that was read, or recorded.                *)
LEMMA DropType ==
    ASSUME kind \in Kind
    PROVE  DropOf.name = IF ById(kind) THEN row.attrs.name ELSE tf.attrs.name
<1>1. CASE kind = "role"
  <2>1. DropOf = DropRole(row)
    BY <1>1, Zenon DEF DropOf
  <2>. QED  BY <1>1, <2>1 DEF DropRole, Drop, ById
<1>2. CASE kind = "user"
  <2>1. DropOf = DropUser(row)
    BY <1>2, Zenon DEF DropOf
  <2>. QED  BY <1>2, <2>1 DEF DropUser, Drop, ById
<1>3. CASE kind = "settings_profile"
  <2>1. DropOf = DropSettingsProfile(row)
    BY <1>3, Zenon DEF DropOf
  <2>. QED  BY <1>3, <2>1 DEF DropSettingsProfile, Drop, ById
<1>4. CASE kind = "row_policy"
  <2>1. DropOf = DropRowPolicy(row)
    BY <1>4, Zenon DEF DropOf
  <2>. QED  BY <1>4, <2>1 DEF DropRowPolicy, Drop, ById
<1>5. CASE kind = "masking_policy"
  <2>1. DropOf = DropMaskingPolicy(row)
    BY <1>5, Zenon DEF DropOf
  <2>. QED  BY <1>5, <2>1 DEF DropMaskingPolicy, Drop, ById
<1>6. CASE kind = "database"
  <2>1. DropOf = DropDatabase(row)
    BY <1>6, Zenon DEF DropOf
  <2>. QED  BY <1>6, <2>1 DEF DropDatabase, Drop, ById
<1>7. CASE kind = "named_collection"
  <2>1. DropOf = DropNamedCollection(tf.attrs.name)
    BY <1>7, Zenon DEF DropOf
  <2>. QED  BY <1>7, <2>1 DEF DropNamedCollection, Drop, ById
<1>. QED  BY <1>1, <1>2, <1>3, <1>4, <1>5, <1>6, <1>7 DEF Kind

-----------------------------------------------------------------------------
(* The invariant.                                                             *)

Changing == {"update", "replace", "delete"}
Dropper  == {"replace", "delete"}

(* No two entities have the same name.                                        *)
UniqueIn(db) ==
    \A i, j \in Ids : db[i] # None /\ db[j] # None /\ db[i].name = db[j].name => i = j

DataOK ==
    /\ kind \in Kinds
    /\ config \in Configurations(kind)
    /\ server \in [Ids -> Stored(kind) \cup {None}]
    /\ view \in [Ids -> Stored(kind) \cup {None}]
    /\ UniqueIn(server)

(* What a handler has in hand at each of its calls: the id of its state when  *)
(* it looks up, and the row with that id when it writes.                      *)
Progress ==
    /\ pc # "idle" => op # "none"
    /\ op \in Changing \cup {"refresh"} => tf # None
    /\ op = "import" /\ wrote => tf \in States(kind)
    /\ op \in Dropper => ~wrote
    /\ op = "update" => kind # "database" /\ (wrote => ById(kind))
    /\ pc = "find" => op \notin Dropper /\ (op \in {"update", "refresh"} => ~ById(kind))
    /\ pc = "lookup" => ById(kind) /\ target \in Ids
    /\ pc \in {"lookup", "elements"} /\ op \in Changing => target = tf.id
    /\ pc = "sync" => kind = "database" /\ op = "create" /\ target \in Ids
    /\ pc = "normalize" =>
          /\ kind \in {"row_policy", "masking_policy"} /\ row \in Found(kind)
          /\ op \in {"refresh", "import"} /\ tf \in States(kind)
    /\ pc = "elements" => kind = "settings_profile" /\ row \in Found(kind) /\ row.id = target
    /\ pc = "write" => ~wrote /\ op \in Changing \cup {"create"}
    /\ pc = "write" /\ op = "update" => row \in Found(kind)
    /\ pc = "write" /\ op \in Changing /\ ById(kind) =>
          row \in Found(kind) /\ row.id = tf.id /\ target = tf.id

(* As long as nobody acted since it was read, the row is that of an entity.   *)
Reading == pc = "elements" \/ (pc = "write" /\ op \in Changing /\ ById(kind))

Current ==
    fresh /\ Reading => server[row.id] # None /\ server[row.id].name = row.attrs.name

(* As long as nobody acted since a drop began, the view is the server.        *)
Calm ==
    ~disturbed /\ op \in Dropper => view = server /\ (Reading => fresh)

ControlTypes ==
    /\ tf = None \/ tf \in States(kind)
    /\ op \in Op /\ pc \in Pc /\ outcome \in Outcome
    /\ target \in Ids \cup {None}
    /\ wrote \in BOOLEAN

ControlOK == ControlTypes /\ Progress /\ Current /\ Calm

HistoryOK ==
    /\ disturbed \in BOOLEAN /\ fresh \in BOOLEAN /\ synced \in BOOLEAN
    /\ compared \in BOOLEAN /\ sure \in BOOLEAN

BudgetOK == changes \in 0..MaxChanges /\ drift \in 0..MaxDrift /\ faults \in 0..MaxFaults

Inv == DataOK /\ ControlOK /\ HistoryOK /\ BudgetOK

-----------------------------------------------------------------------------
(* The pieces that the steps are made of.                                     *)

LEMMA ConfigType ==
    ASSUME DataOK
    PROVE  /\ kind \in Kind
           /\ config \in Wanted(kind) /\ Configurations(kind) \subseteq Wanted(kind)
           /\ config \in Attributes(kind) /\ config.name \in Names
BY KindsAssumption, ConfigurationsAssumption DEF DataOK, Wanted

(* The end of an operation.                                                   *)
LEMMA EndStep ==
    ASSUME kind' = kind, NEW result \in Outcome, NEW s, s = None \/ s \in States(kind),
           End(result, s)
    PROVE  ControlOK'
<1>1. ControlTypes'
  BY DEF End, ControlTypes, Op, Pc
<1>2. Progress' /\ Current' /\ Calm'
  BY DEF End, Progress, Current, Reading, Calm, Changing, Dropper
<1>. QED  BY <1>1, <1>2 DEF ControlOK

LEMMA FailStep ==
    ASSUME ControlOK, kind' = kind, NEW result \in {"failed", "panic"}, Fail(result)
    PROVE  ControlOK'
<1>1. result \in Outcome /\ (tf = None \/ tf \in States(kind))
  BY DEF Outcome, ControlOK, ControlTypes
<1>2. CASE op = "import"
  BY <1>1, <1>2, EndStep DEF Fail
<1>3. CASE op # "import"
  BY <1>1, <1>3, EndStep DEF Fail
<1>. QED  BY <1>2, <1>3

LEMMA RecordStep ==
    ASSUME kind' = kind, NEW s \in States(kind), Record(s)
    PROVE  ControlOK'
<1> DEFINE t == [s EXCEPT !.tainted = (op = "create" /\ s.attrs # config)]
<1>1. t \in States(kind)
  BY DEF States, StatesOf
<1>2. \/ End("applied", t)
      \/ End("failed", t)
  BY DEF Record
<1>. QED  BY <1>1, <1>2, EndStep DEF Outcome

LEMMA DroppedStep ==
    ASSUME ControlOK, kind' = kind, Dropped
    PROVE  ControlOK'
<1>1. CASE op = "delete"
  BY <1>1, EndStep DEF Dropped, Outcome
<1>2. CASE op # "delete"
  <2>1. /\ tf' = None /\ op' = "create" /\ pc' = "write"
        /\ target' = None /\ row' = None /\ wrote' = FALSE /\ outcome' = outcome
    BY <1>2 DEF Dropped
  <2>. QED  BY <2>1
    DEF ControlOK, ControlTypes, Progress, Current, Reading, Calm, Changing, Dropper, Op, Pc
<1>. QED  BY <1>1, <1>2

(* The beginning of an operation.                                             *)
LEMMA BeginStep ==
    ASSUME Inv, NEW o \in Op \ {"none"}, NEW at \in {"find", "lookup", "write"}, Begin(o, at),
           o \in Changing \cup {"refresh"} => tf # None,
           o = "update" => kind # "database",
           at = "find" => o \notin Dropper /\ (o \in {"update", "refresh"} => ~ById(kind)),
           at = "lookup" => ById(kind) /\ o \in Changing \cup {"refresh"},
           at = "write" => o = "create" \/ (o \in Dropper /\ ~ById(kind))
    PROVE  DataOK' /\ ControlOK' /\ HistoryOK'
<1>1. /\ kind' = kind /\ config' = config /\ server' = server /\ view' = view /\ tf' = tf
      /\ op' = o /\ pc' = at /\ row' = None /\ wrote' = FALSE /\ outcome' = "none"
      /\ target' = IF at = "lookup" THEN tf.id ELSE None
      /\ disturbed' = (view # server) /\ fresh' = FALSE /\ synced' = FALSE /\ sure' \in BOOLEAN
      /\ compared' \in BOOLEAN
  BY DEF Begin, data
<1>2. at = "lookup" => tf.id \in Ids
  BY DEF Inv, ControlOK, ControlTypes, States, StatesOf, Changing
<1>3. DataOK'
  BY <1>1 DEF Inv, DataOK
<1>4. ControlTypes'
  BY <1>1, <1>2 DEF Inv, ControlOK, ControlTypes, Outcome, Pc
<1>5. Progress'
  BY <1>1, <1>2 DEF Progress, Changing, Dropper
<1>6. Current' /\ Calm'
  BY <1>1 DEF Current, Calm, Reading, Changing, Dropper
<1>. QED  BY <1>1, <1>3, <1>4, <1>5, <1>6 DEF ControlOK, HistoryOK

(* A row arrives.                                                             *)
LEMMA ArriveStep ==
    ASSUME Inv, pc \in {"find", "lookup", "elements", "sync"}, NEW r \in Found(kind),
           NEW current \in BOOLEAN, Arrive(r, current),
           kind' = kind, config' = config, server' = server, view' = view,
           disturbed' = disturbed,
           op \in Changing /\ ById(kind) => r.id = tf.id,
           op \in Changing /\ ById(kind) /\ current =>
               server[r.id] # None /\ server[r.id].name = r.attrs.name,
           op \in Dropper /\ ~disturbed => current
    PROVE  ControlOK' /\ fresh' \in BOOLEAN /\ synced' \in BOOLEAN
<1>1. fresh' = current
  BY DEF Arrive
<1>2. synced' \in BOOLEAN
  BY DEF Arrive, Inv, HistoryOK
<1>3. r.id \in Ids
  BY DEF Found, Rows
<1>4. CASE /\ op \in {"update", "replace", "delete"} /\ ~wrote
           /\ pc' = "write" /\ target' = r.id /\ row' = r
           /\ UNCHANGED <<tf, op, wrote, outcome, synced>>
  <2>1. ControlTypes'
    BY <1>3, <1>4 DEF Inv, ControlOK, ControlTypes, Pc
  <2>2. Progress'
    BY <1>4 DEF Inv, ControlOK, Progress, Changing, Dropper
  <2>3. Current' /\ Calm'
    BY <1>1, <1>4 DEF Inv, ControlOK, Current, Calm, Reading, Changing, Dropper
  <2>. QED  BY <1>1, <1>2, <2>1, <2>2, <2>3 DEF ControlOK
<1>5. CASE /\ op = "import" /\ ~wrote
           /\ tf' = ImportedOf(r)
           /\ pc' = ByIdOrName /\ target' = r.id /\ row' = None /\ wrote' = TRUE
           /\ UNCHANGED <<op, outcome, synced>>
  <2>1. tf' \in States(kind)
    BY <1>5, ConfigType, ImportedType DEF Inv
  <2>2. pc' \in {"find", "lookup"} /\ (pc' = "lookup" => ById(kind))
    BY <1>5 DEF ByIdOrName
  <2>3. ControlTypes'
    BY <1>3, <1>5, <2>1, <2>2 DEF Inv, ControlOK, ControlTypes, Pc
  <2>4. Progress' /\ Current' /\ Calm'
    BY <1>3, <1>5, <2>1, <2>2 DEF Progress, Current, Calm, Reading, Changing, Dropper
  <2>. QED  BY <1>1, <1>2, <2>3, <2>4 DEF ControlOK
<1>6. CASE /\ op = "refresh" \/ (op = "import" /\ wrote)
           /\ End("refreshed", ReadOf(tf, r, TRUE)) /\ synced' = current
  <2>1. tf \in States(kind)
    BY <1>6 DEF Inv, ControlOK, ControlTypes, Progress
  <2>2. ReadOf(tf, r, TRUE) \in States(kind)
    BY <2>1, ConfigType, ReadType DEF Inv
  <2>. QED  BY <1>1, <1>2, <1>6, <2>2, EndStep DEF Outcome
<1>7. CASE op = "create" /\ Record(CreatedOf(r)) /\ UNCHANGED synced
  BY <1>1, <1>2, <1>7, ConfigType, CreatedType, RecordStep DEF Inv
<1>8. CASE op = "update" /\ wrote /\ Record(UpdatedOf(r)) /\ UNCHANGED synced
  <2>1. tf \in States(kind) /\ kind # "database"
    BY <1>8 DEF Inv, ControlOK, ControlTypes, Progress, Changing
  <2>. QED  BY <1>1, <1>2, <1>8, <2>1, ConfigType, UpdatedType, RecordStep DEF Inv
<1>9. CASE /\ op = "refresh" \/ (op = "import" /\ wrote)
           /\ Asks(tf, r)
           /\ pc' = "normalize" /\ target' = r.id /\ row' = r
           /\ UNCHANGED <<tf, op, wrote, outcome, synced>>
  <2>1. tf \in States(kind) /\ kind \in {"row_policy", "masking_policy"}
    BY <1>9 DEF Inv, ControlOK, ControlTypes, Progress, Asks
  <2>2. ControlTypes'
    BY <1>3, <1>9 DEF Inv, ControlOK, ControlTypes, Pc
  <2>3. Progress'
    BY <1>9, <2>1 DEF Inv, ControlOK, Progress, Changing, Dropper
  <2>4. Current' /\ Calm'
    BY <1>9 DEF Current, Calm, Reading, Changing, Dropper
  <2>. QED  BY <1>1, <1>2, <2>2, <2>3, <2>4 DEF ControlOK
<1>10. CASE /\ op = "create" /\ SyncsAgain
            /\ pc' = "sync" /\ row' = None
            /\ UNCHANGED <<tf, op, target, wrote, outcome, synced>>
  <2>1. kind = "database" /\ target \in Ids
    BY <1>10 DEF Inv, ControlOK, Progress, SyncsAgain
  <2>2. ControlTypes'
    BY <1>10 DEF Inv, ControlOK, ControlTypes, Pc
  <2>3. Progress' /\ Current' /\ Calm'
    BY <1>10, <2>1 DEF Inv, ControlOK, Progress, Current, Calm, Reading, Changing, Dropper
  <2>. QED  BY <1>1, <1>2, <2>2, <2>3 DEF ControlOK
<1>. QED  BY <1>1, <1>2, <1>4, <1>5, <1>6, <1>7, <1>8, <1>9, <1>10 DEF Arrive

(* No row arrives.                                                            *)
LEMMA RetryStep ==
    ASSUME Inv, kind' = kind, NEW at, Retry(at), fresh' = FALSE, disturbed' = disturbed,
           server' = server, view' = view,
           \/ at = "find" /\ op = "create"
           \/ at = "lookup" /\ pc = "lookup" /\ op = "update"
    PROVE  ControlOK'
<1>1. /\ pc' = at /\ row' = None /\ tf' = tf /\ op' = op /\ target' = target
      /\ wrote' = wrote /\ outcome' = outcome
  BY DEF Retry
<1>2. ControlTypes'
  BY <1>1 DEF Inv, ControlOK, ControlTypes, Pc
<1>3. Progress' /\ Current' /\ Calm'
  BY <1>1 DEF Inv, ControlOK, Progress, Current, Calm, Reading, Changing, Dropper
<1>. QED  BY <1>2, <1>3 DEF ControlOK

LEMMA MissingStep ==
    ASSUME Inv, pc \in {"find", "lookup", "sync"}, Missing,
           kind' = kind, server' = server, view' = view, disturbed' = disturbed
    PROVE  ControlOK' /\ fresh' \in BOOLEAN /\ synced' \in BOOLEAN
<1>1. fresh' = FALSE
  BY DEF Missing
<1>2. CASE op = "refresh" /\ Removed(view = server)
  BY <1>1, <1>2, EndStep DEF Removed, Outcome
<1>3. CASE op = "import" /\ ImportMissing /\ UNCHANGED synced
  <2>1. Fail("panic") \/ Fail("failed")
    BY <1>3 DEF ImportMissing
  <2>. QED  BY <1>1, <1>3, <2>1, FailStep DEF Inv, HistoryOK
<1>4. CASE op = "update" /\ ~wrote /\ UpdateMissing /\ UNCHANGED synced
  <2>1. Fail("panic") \/ Fail("failed") \/ End("forgotten", None)
    BY <1>4, Zenon DEF UpdateMissing
  <2>. QED  BY <1>1, <1>4, <2>1, FailStep, EndStep DEF Inv, HistoryOK, Outcome
<1>5. CASE op = "update" /\ wrote /\ UpdatedMissing
  <2>1. pc = "lookup"
    BY <1>5 DEF Inv, ControlOK, Progress
  <2>2. \/ (Fail("panic") \/ End("forgotten", None)) /\ UNCHANGED synced
        \/ Retry("lookup")
    BY <1>5, Zenon DEF UpdatedMissing
  <2>3. synced' = synced
    BY <2>2 DEF Retry
  <2>. QED  BY <1>1, <1>5, <2>1, <2>2, <2>3, FailStep, EndStep, RetryStep
    DEF Inv, HistoryOK, Outcome
<1>6. CASE op \in {"replace", "delete"} /\ Dropped /\ UNCHANGED synced
  BY <1>1, <1>6, DroppedStep DEF Inv, HistoryOK
<1>7. CASE op = "create" /\ kind = "database" /\ CreatedDatabaseMissing /\ UNCHANGED synced
  <2>1. Fail("panic") \/ Fail("failed")
    BY <1>7 DEF CreatedDatabaseMissing
  <2>. QED  BY <1>1, <1>7, <2>1, FailStep DEF Inv, HistoryOK
<1>8. CASE op = "create" /\ kind # "database" /\ Retry("find")
  BY <1>1, <1>8, RetryStep DEF Inv, HistoryOK, Retry
<1>. QED  BY <1>2, <1>3, <1>4, <1>5, <1>6, <1>7, <1>8 DEF Missing

-----------------------------------------------------------------------------
(* The reading steps.                                                         *)

LEMMA ViewRow ==
    ASSUME Inv, NEW i \in Ids, view[i] # None
    PROVE  /\ RowOf(i, view[i]) \in Found(kind)
           /\ RowOf(i, view[i]).id = i /\ RowOf(i, view[i]).attrs.name = view[i].name
<1>1. view[i] \in Stored(kind)
  BY DEF Inv, DataOK
<1>. QED  BY <1>1, ConfigType, RowType DEF Inv

LEMMA FindStep ==
    ASSUME Inv, Find
    PROVE  Inv'
<1>1. /\ pc = "find" /\ sure' = (sure /\ view = server)
      /\ kind' = kind /\ config' = config /\ server' = server /\ view' = view
      /\ disturbed' = disturbed
      /\ compared' = compared
      /\ changes' = changes /\ drift' = drift /\ faults' = faults
  BY DEF Find, data, budget
<1>2. op \notin Dropper /\ (op \in Changing => ~ById(kind))
  BY <1>1 DEF Inv, ControlOK, Progress, Changing, Dropper
<1>3. ControlOK' /\ fresh' \in BOOLEAN /\ synced' \in BOOLEAN
  <2>1. CASE Named(view, Sought) = {} /\ Missing
    BY <1>1, <2>1, MissingStep
  <2>2. ASSUME NEW i \in Named(view, Sought), kind \in IdFirst,
               target' = i, pc' = "lookup",
               UNCHANGED <<tf, op, row, wrote, outcome, fresh, synced>>
        PROVE  ControlOK' /\ fresh' \in BOOLEAN /\ synced' \in BOOLEAN
    <3>1. i \in Ids /\ ById(kind)
      BY <2>2 DEF Named, IdFirst, ById
    <3>2. ControlTypes'
      BY <1>1, <2>2, <3>1 DEF Inv, ControlOK, ControlTypes, Pc
    <3>3. Progress' /\ Current' /\ Calm'
      BY <1>1, <1>2, <2>2, <3>1
        DEF Inv, ControlOK, Progress, Current, Calm, Reading, Changing, Dropper
    <3>. QED  BY <2>2, <3>2, <3>3 DEF ControlOK, Inv, HistoryOK
  <2>3. ASSUME NEW i \in Named(view, Sought), Arrive(RowOf(i, view[i]), view = server)
        PROVE  ControlOK' /\ fresh' \in BOOLEAN /\ synced' \in BOOLEAN
    <3>1. i \in Ids /\ view[i] # None
      BY DEF Named
    <3>2. RowOf(i, view[i]) \in Found(kind)
      BY <3>1, ViewRow
    <3>3. Dropper \subseteq Changing /\ (view = server) \in BOOLEAN
      BY DEF Dropper, Changing
    <3>. QED  BY <1>1, <1>2, <2>3, <3>2, <3>3, ArriveStep
  <2>. QED  BY <2>1, <2>2, <2>3 DEF Find
<1>. QED  BY <1>1, <1>3 DEF Inv, DataOK, HistoryOK, BudgetOK

LEMMA LookupStep ==
    ASSUME Inv, Lookup
    PROVE  Inv'
<1>1. /\ pc \in {"lookup", "sync"} /\ sure' = (sure /\ view = server)
      /\ kind' = kind /\ config' = config /\ server' = server /\ view' = view
      /\ disturbed' = disturbed
      /\ compared' = compared
      /\ changes' = changes /\ drift' = drift /\ faults' = faults
  BY DEF Lookup, data, budget
<1>2. /\ target \in Ids /\ (op \in Changing => target = tf.id) /\ Dropper \subseteq Changing
      /\ kind = "settings_profile" => ById(kind)
  BY <1>1 DEF Inv, ControlOK, Progress, Dropper, Changing, ById
<1>3. ~disturbed /\ op \in Dropper => view = server
  BY DEF Inv, ControlOK, Calm
<1>4. ControlOK' /\ fresh' \in BOOLEAN /\ synced' \in BOOLEAN
  <2>1. CASE view[target] = None /\ Missing
    BY <1>1, <2>1, MissingStep
  <2>2. CASE /\ view[target] # None
             /\ Arrive(RowOf(target, view[target]), view = server)
    <3>1. /\ RowOf(target, view[target]) \in Found(kind)
          /\ RowOf(target, view[target]).id = target
          /\ RowOf(target, view[target]).attrs.name = view[target].name
      BY <1>2, <2>2, ViewRow
    <3>2. (view = server) \in BOOLEAN
      OBVIOUS
    <3>. QED  BY <1>1, <1>2, <1>3, <2>2, <3>1, <3>2, ArriveStep
  <2>3. CASE /\ view[target] # None /\ kind = "settings_profile"
             /\ row' = RowOf(target, view[target])
             /\ fresh' = (view = server)
             /\ pc' = "elements"
             /\ UNCHANGED <<tf, op, target, wrote, outcome, synced>>
    <3>1. /\ row' \in Found(kind) /\ row'.id = target
          /\ row'.attrs.name = view[target].name
      BY <1>2, <2>3, ViewRow
    <3>2. ControlTypes'
      BY <1>1, <2>3 DEF Inv, ControlOK, ControlTypes, Pc
    <3>3. Progress'
      BY <1>1, <1>2, <2>3, <3>1 DEF Inv, ControlOK, Progress, Changing, Dropper
    <3>4. Current' /\ Calm'
      BY <1>1, <1>2, <1>3, <2>3, <3>1 DEF Current, Calm, Reading
    <3>. QED  BY <2>3, <3>2, <3>3, <3>4 DEF ControlOK, Inv, HistoryOK
  <2>. QED  BY <2>1, <2>2, <2>3 DEF Lookup
<1>. QED  BY <1>1, <1>4 DEF Inv, DataOK, HistoryOK, BudgetOK

(* The second SELECT of a settings profile adds to the row of the first.      *)
LEMMA InheritedRow ==
    ASSUME Inv, kind = "settings_profile", row \in Found(kind),
           NEW i \in Named(view, row.attrs.name)
    PROVE  /\ WithInheritance(row, view[i]) \in Found(kind)
           /\ WithInheritance(row, view[i]).id = row.id
           /\ WithInheritance(row, view[i]).attrs.name = row.attrs.name
<1>1. view[i] \in Stored(kind)
  BY DEF Named, Inv, DataOK
<1>2. row \in Rows(Profile(Names)) /\ view[i] \in Profile(Names)
  BY <1>1, ProfileIs, Zenon DEF Found
<1>3. /\ WithInheritance(row, view[i]) \in Rows(Profile(Names))
      /\ WithInheritance(row, view[i]).id = row.id
      /\ WithInheritance(row, view[i]).attrs.name = row.attrs.name
  BY <1>2 DEF WithInheritance, Rows, Profile
<1>. QED  BY <1>3, ProfileIs, Zenon DEF Found

LEMMA ElementsStep ==
    ASSUME Inv, Elements
    PROVE  Inv'
<1>1. /\ pc = "elements" /\ sure' = (sure /\ view = server)
      /\ kind' = kind /\ config' = config /\ server' = server /\ view' = view
      /\ disturbed' = disturbed
      /\ compared' = compared
      /\ changes' = changes /\ drift' = drift /\ faults' = faults
  BY DEF Elements, data, budget
<1>2. /\ kind = "settings_profile" /\ row \in Found(kind)
      /\ op \in Changing => row.id = tf.id
      /\ Dropper \subseteq Changing /\ fresh \in BOOLEAN
      /\ fresh => server[row.id] # None /\ server[row.id].name = row.attrs.name
      /\ ~disturbed /\ op \in Dropper => fresh
  BY <1>1 DEF Inv, ControlOK, HistoryOK, Progress, Current, Calm, Reading, Dropper, Changing
<1>3. ControlOK' /\ fresh' \in BOOLEAN /\ synced' \in BOOLEAN
  <2>1. ASSUME NEW r \in Found(kind), r.id = row.id, r.attrs.name = row.attrs.name,
               Arrive(r, fresh)
        PROVE  ControlOK' /\ fresh' \in BOOLEAN /\ synced' \in BOOLEAN
    BY <1>1, <1>2, <2>1, ArriveStep
  <2>2. ASSUME NEW i \in Named(view, row.attrs.name)
        PROVE  /\ WithInheritance(row, view[i]) \in Found(kind)
               /\ WithInheritance(row, view[i]).id = row.id
               /\ WithInheritance(row, view[i]).attrs.name = row.attrs.name
    BY <1>2, InheritedRow
  <2>. QED  BY <1>2, <2>1, <2>2 DEF Elements
<1>. QED  BY <1>1, <1>3 DEF Inv, DataOK, HistoryOK, BudgetOK

LEMMA NormalizeStep ==
    ASSUME Inv, Normalize
    PROVE  Inv'
<1>1. /\ pc = "normalize" /\ End("refreshed", ReadOf(tf, row, TRUE))
      /\ synced' = fresh /\ fresh' = fresh /\ sure' = sure
      /\ kind' = kind /\ config' = config /\ server' = server /\ view' = view
      /\ disturbed' = disturbed
      /\ compared' = compared
      /\ changes' = changes /\ drift' = drift /\ faults' = faults
  BY DEF Normalize, data, budget
<1>2. ReadOf(tf, row, TRUE) \in States(kind)
  BY <1>1, ConfigType, ReadType DEF Inv, ControlOK, Progress
<1>3. ControlOK'
  BY <1>1, <1>2, EndStep DEF Outcome
<1>. QED  BY <1>1, <1>3 DEF Inv, DataOK, HistoryOK, BudgetOK

LEMMA NormalizeFailsStep ==
    ASSUME Inv, NormalizeFails
    PROVE  Inv'
<1>1. /\ pc = "normalize" /\ End("refreshed", ReadOf(tf, row, FALSE))
      /\ synced' = fresh /\ fresh' = fresh /\ sure' = sure /\ compared' = FALSE
      /\ kind' = kind /\ config' = config /\ server' = server /\ view' = view
      /\ disturbed' = disturbed
      /\ changes' = changes /\ drift' = drift /\ faults' = faults + 1 /\ faults < MaxFaults
  BY DEF NormalizeFails, data
<1>2. ReadOf(tf, row, FALSE) \in States(kind)
  BY <1>1, ConfigType, ReadType DEF Inv, ControlOK, Progress
<1>3. ControlOK'
  BY <1>1, <1>2, EndStep DEF Outcome
<1>4. BudgetOK'
  BY <1>1, BoundsAssumption DEF Inv, BudgetOK
<1>. QED  BY <1>1, <1>3, <1>4 DEF Inv, DataOK, HistoryOK

-----------------------------------------------------------------------------
(* The statements: what they leave of the entities.                           *)

LEMMA NewEntity ==
    ASSUME Inv, NEW e \in Stored(kind), Named(server, e.name) = {}, NEW S \in Creations(e)
    PROVE  /\ S \in [Ids -> Stored(kind) \cup {None}] /\ UniqueIn(S)
           /\ \A i \in Ids : S[i] = server[i] \/ server[i] = None
<1>1. PICK n \in Unused : S = [server EXCEPT ![n] = e]
  BY DEF Creations
<1>2. n \in Ids /\ server[n] = None
  BY <1>1 DEF Unused
<1>3. server \in [Ids -> Stored(kind) \cup {None}]
  BY DEF Inv, DataOK
<1>4. S[n] = e /\ \A i \in Ids : i # n => S[i] = server[i]
  BY <1>1, <1>2, <1>3
<1>5. \A i \in Ids : server[i] # None => server[i].name # e.name
  BY DEF Named
<1>6. UniqueIn(S)
  BY <1>4, <1>5 DEF Inv, DataOK, UniqueIn
<1>. QED  BY <1>1, <1>2, <1>3, <1>4, <1>6

LEMMA OtherEntity ==
    ASSUME Inv, NEW i \in Ids, NEW e \in Stored(kind), Named(server, e.name) \subseteq {i}
    PROVE  /\ [server EXCEPT ![i] = e] \in [Ids -> Stored(kind) \cup {None}]
           /\ UniqueIn([server EXCEPT ![i] = e])
<1>1. server \in [Ids -> Stored(kind) \cup {None}]
  BY DEF Inv, DataOK
<1>2. \A j \in Ids : server[j] # None /\ server[j].name = e.name => j = i
  BY DEF Named
<1>. QED  BY <1>1, <1>2 DEF Inv, DataOK, UniqueIn

LEMMA NoEntity ==
    ASSUME Inv, NEW i \in Ids
    PROVE  /\ [server EXCEPT ![i] = None] \in [Ids -> Stored(kind) \cup {None}]
           /\ UniqueIn([server EXCEPT ![i] = None])
BY DEF Inv, DataOK, UniqueIn

(* The row that a handler has in hand names its own entity.                   *)
LEMMA RowIsMine ==
    ASSUME Inv, pc = "write", op \in Changing, ById(kind), fresh,
           NEW i \in Named(server, row.attrs.name)
    PROVE  tf # None /\ i = tf.id
<1>1. /\ row.id = tf.id /\ tf # None
      /\ server[row.id] # None /\ server[row.id].name = row.attrs.name
  BY DEF Inv, ControlOK, Progress, Current, Reading
<1>2. tf.id \in Ids
  BY <1>1 DEF Inv, ControlOK, ControlTypes, States, StatesOf
<1>3. i \in Ids /\ server[i] # None /\ server[i].name = row.attrs.name
  BY DEF Named
<1>. QED  BY <1>1, <1>2, <1>3 DEF Inv, DataOK, UniqueIn

OnlyMine(S) == \A i \in Ids : S[i] = server[i] \/ server[i] = None \/ (tf # None /\ i = tf.id)

LEMMA CreateStatement ==
    ASSUME Inv, NEW S \in AfterCreate
    PROVE  /\ S \in [Ids -> Stored(kind) \cup {None}] /\ UniqueIn(S)
           /\ OnlyMine(S)
<1>1. CASE Named(server, config.name) = {} /\ S \in Creations(CreateOf(config))
  <2>1. CreateOf(config) \in Stored(kind) /\ CreateOf(config).name = config.name
    BY ConfigType, CreateType DEF Inv
  <2>. QED  BY <1>1, <2>1, NewEntity DEF OnlyMine
<1>2. CASE S = server
  BY <1>2 DEF Inv, DataOK, OnlyMine
<1>. QED  BY <1>1, <1>2 DEF AfterCreate

LEMMA AlterStatement ==
    ASSUME Inv, pc = "write", op = "update", NEW S \in AfterAlter
    PROVE  /\ S \in [Ids -> Stored(kind) \cup {None}] /\ UniqueIn(S)
           /\ ById(kind) /\ fresh => OnlyMine(S)
<1>1. PICK i \in Named(server, row.attrs.name) :
          /\ Named(server, AlterOf(server[i]).name) \subseteq {i}
          /\ S = [server EXCEPT ![i] = AlterOf(server[i])]
  BY DEF AfterAlter
<1>2. i \in Ids /\ server[i] \in Stored(kind)
  BY DEF Named, Inv, DataOK
<1>3. kind # "database"
  BY DEF Inv, ControlOK, Progress
<1>4. AlterOf(server[i]) \in Stored(kind)
  BY <1>2, <1>3, ConfigType, AlterType DEF Inv
<1>5. ById(kind) /\ fresh => tf # None /\ i = tf.id
  BY RowIsMine DEF Changing
<1>6. \A j \in Ids : j # i => S[j] = server[j]
  BY <1>1, <1>2 DEF Inv, DataOK
<1>. QED  BY <1>1, <1>2, <1>4, <1>5, <1>6, OtherEntity DEF OnlyMine

LEMMA DropStatement ==
    ASSUME Inv, pc = "write", op \in Dropper, NEW S \in AfterDrop
    PROVE  /\ S \in [Ids -> Stored(kind) \cup {None}] /\ UniqueIn(S)
           /\ ById(kind) /\ fresh => OnlyMine(S)
           /\ ~disturbed => \A i \in Mine : S[i] = None
<1> DEFINE dropped == IF ById(kind) THEN row.attrs.name ELSE tf.attrs.name
<1>1. DropOf.name = dropped
  BY ConfigType, DropType DEF Inv
<1>2. op \in Changing /\ tf # None
  BY DEF Inv, ControlOK, Progress, Changing, Dropper
<1>3. server \in [Ids -> Stored(kind) \cup {None}] /\ UniqueIn(server)
  BY DEF Inv, DataOK
<1>4. ~disturbed /\ ById(kind) => fresh
  BY <1>2 DEF Inv, ControlOK, Calm, Reading
<1>5. \A i \in Mine : i \in Ids /\ server[i] # None /\ (~disturbed => i \in Named(server, dropped))
  <2>1. CASE ById(kind)
    <3>1. row.id = tf.id /\ tf.id \in Ids
      BY <1>2, <2>1 DEF Inv, ControlOK, ControlTypes, Progress, States, StatesOf
    <3>2. ~disturbed => server[tf.id].name = row.attrs.name
      BY <1>2, <1>4, <2>1, <3>1 DEF Inv, ControlOK, Current, Reading
    <3>3. \A i \in Mine : i = tf.id /\ server[i] # None
      BY <1>2, <2>1, Zenon DEF Mine
    <3>. QED  BY <2>1, <3>1, <3>2, <3>3 DEF Named
  <2>2. CASE ~ById(kind)
    <3>1. Mine = Named(server, tf.attrs.name)
      BY <1>2, <2>2, Zenon DEF Mine
    <3>. QED  BY <2>2, <3>1 DEF Named
  <2>. QED  BY <2>1, <2>2
<1>6. CASE Named(server, dropped) = {} /\ S = server
  BY <1>3, <1>5, <1>6 DEF OnlyMine
<1>7. CASE \E i \in Named(server, dropped) : S = [server EXCEPT ![i] = None]
  <2>1. PICK i \in Named(server, dropped) : S = [server EXCEPT ![i] = None]
    BY <1>7
  <2>2. i \in Ids /\ server[i] # None
    BY DEF Named
  <2>3. ById(kind) /\ fresh => i = tf.id
    BY <1>2, RowIsMine
  <2>4. \A j \in Named(server, dropped) : j = i
    BY <1>3 DEF Named, UniqueIn
  <2>5. S[i] = None /\ \A j \in Ids : j # i => S[j] = server[j]
    BY <1>3, <2>1, <2>2
  <2>. QED  BY <1>2, <1>5, <2>1, <2>2, <2>3, <2>4, <2>5, NoEntity DEF OnlyMine
<1>. QED  BY <1>1, <1>6, <1>7 DEF AfterDrop

(* Any of them.                                                               *)
LEMMA StatementStep ==
    ASSUME Inv, pc = "write", NEW S \in AfterStatement
    PROVE  /\ S \in [Ids -> Stored(kind) \cup {None}] /\ UniqueIn(S)
           /\ ById(kind) /\ fresh => OnlyMine(S)
           /\ op \in Dropper /\ ~disturbed => \A i \in Mine : S[i] = None
<1>1. op \in Changing \cup {"create"}
  BY DEF Inv, ControlOK, Progress
<1>2. CASE op = "create"
  BY <1>2, CreateStatement DEF AfterStatement, Dropper
<1>3. CASE op = "update"
  BY <1>3, AlterStatement DEF AfterStatement, Dropper
<1>4. CASE op \in Dropper
  <2>1. S \in AfterDrop
    BY <1>4, Zenon DEF AfterStatement, Dropper
  <2>. QED  BY <1>4, <2>1, DropStatement
<1>. QED  BY <1>1, <1>2, <1>3, <1>4 DEF Changing, Dropper

-----------------------------------------------------------------------------
(* The other steps.                                                           *)

LEMMA GiveUpStep ==
    ASSUME Inv, GiveUp
    PROVE  Inv'
<1>1. /\ Fail("failed") /\ sure' = (sure /\ view = server)
      /\ kind' = kind /\ config' = config /\ server' = server /\ view' = view
      /\ disturbed' = disturbed /\ fresh' = fresh /\ synced' = synced
      /\ compared' = compared
      /\ changes' = changes /\ drift' = drift /\ faults' = faults
  BY DEF GiveUp, data, budget
<1>2. ControlOK'
  BY <1>1, FailStep DEF Inv
<1>. QED  BY <1>1, <1>2 DEF Inv, DataOK, HistoryOK, BudgetOK

LEMMA AcceptedStep ==
    ASSUME Inv, pc = "write", Accepted, kind' = kind
    PROVE  ControlOK'
<1>1. /\ ~wrote /\ op \in Changing \cup {"create"}
      /\ op = "update" => kind # "database" /\ row \in Found(kind)
      /\ op \in Changing => tf \in States(kind)
      /\ op = "update" /\ ById(kind) => row.id = tf.id /\ target = tf.id /\ tf.id \in Ids
  BY DEF Inv, ControlOK, ControlTypes, Progress, Changing, States, StatesOf
<1>2. \/ op \in Dropper /\ Dropped
      \/ op = "update" /\ ~ById(kind) /\ Record(UpdatedOf(row))
      \/ /\ op \notin Dropper /\ (op = "update" => ById(kind))
         /\ pc' = IF op = "create" THEN "find" ELSE "lookup"
         /\ wrote' = TRUE /\ row' = None
         /\ tf' = tf /\ op' = op /\ target' = target /\ outcome' = outcome
  BY Zenon DEF Accepted, Dropper
<1>3. CASE op \in Dropper /\ Dropped
  BY <1>3, DroppedStep DEF Inv
<1>4. CASE op = "update" /\ ~ById(kind) /\ Record(UpdatedOf(row))
  <2>1. UpdatedOf(row) \in States(kind)
    BY <1>1, <1>4, ConfigType, UpdatedType DEF Inv, Changing
  <2>. QED  BY <1>4, <2>1, RecordStep
<1>5. CASE /\ op \notin Dropper /\ (op = "update" => ById(kind))
           /\ pc' = IF op = "create" THEN "find" ELSE "lookup"
           /\ wrote' = TRUE /\ row' = None
           /\ tf' = tf /\ op' = op /\ target' = target /\ outcome' = outcome
  <2>1. ControlTypes'
    BY <1>5 DEF Inv, ControlOK, ControlTypes, Pc
  <2>2. Progress' /\ Current' /\ Calm'
    BY <1>1, <1>5 DEF Inv, ControlOK, Progress, Current, Calm, Reading, Changing, Dropper
  <2>. QED  BY <2>1, <2>2 DEF ControlOK
<1>. QED  BY <1>2, <1>3, <1>4, <1>5

LEMMA WriteStep ==
    ASSUME Inv, Write
    PROVE  Inv'
<1>1. /\ pc = "write"
      /\ kind' = kind /\ config' = config /\ view' = view
      /\ disturbed' = disturbed /\ fresh' = fresh /\ synced' = synced /\ sure' = sure
      /\ compared' = compared
      /\ changes' = changes /\ drift' = drift /\ faults' = faults
  BY DEF Write, history, budget
<1>2. CASE server' \in AfterStatement /\ Accepted
  <2>1. ControlOK'
    BY <1>1, <1>2, AcceptedStep
  <2>2. DataOK'
    BY <1>1, <1>2, StatementStep DEF Inv, DataOK
  <2>. QED  BY <1>1, <2>1, <2>2 DEF Inv, HistoryOK, BudgetOK
<1>3. CASE Fail("failed") /\ server' = server
  <2>1. ControlOK'
    BY <1>1, <1>3, FailStep DEF Inv
  <2>. QED  BY <1>1, <1>3, <2>1 DEF Inv, DataOK, HistoryOK, BudgetOK
<1>. QED  BY <1>2, <1>3 DEF Write

LEMMA AnswerLostStep ==
    ASSUME Inv, AnswerLost
    PROVE  Inv'
<1>1. /\ pc = "write" /\ server' \in AfterStatement /\ Fail("failed")
      /\ kind' = kind /\ config' = config /\ view' = view
      /\ disturbed' = disturbed /\ fresh' = fresh /\ synced' = synced /\ sure' = FALSE
      /\ compared' = compared
      /\ changes' = changes /\ drift' = drift /\ faults' = faults + 1 /\ faults < MaxFaults
  BY DEF AnswerLost
<1>2. ControlOK'
  BY <1>1, FailStep DEF Inv
<1>3. DataOK'
  BY <1>1, StatementStep DEF Inv, DataOK
<1>4. BudgetOK'
  BY <1>1, BoundsAssumption DEF Inv, BudgetOK
<1>. QED  BY <1>1, <1>2, <1>3, <1>4 DEF Inv, HistoryOK

LEMMA CallFailsStep ==
    ASSUME Inv, CallFails
    PROVE  Inv'
<1>1. /\ Fail("failed")
      /\ kind' = kind /\ config' = config /\ server' = server /\ view' = view
      /\ disturbed' = disturbed /\ fresh' = fresh /\ synced' = synced /\ sure' = FALSE
      /\ compared' = compared
      /\ changes' = changes /\ drift' = drift /\ faults' = faults + 1 /\ faults < MaxFaults
  BY DEF CallFails, data
<1>2. ControlOK'
  BY <1>1, FailStep DEF Inv
<1>3. BudgetOK'
  BY <1>1, BoundsAssumption DEF Inv, BudgetOK
<1>. QED  BY <1>1, <1>2, <1>3 DEF Inv, DataOK, HistoryOK

LEMMA CatchUpStep ==
    ASSUME Inv, CatchUp
    PROVE  Inv'
<1>1. /\ view' = server
      /\ kind' = kind /\ config' = config /\ server' = server /\ tf' = tf
      /\ op' = op /\ pc' = pc /\ target' = target /\ row' = row /\ wrote' = wrote
      /\ outcome' = outcome
      /\ disturbed' = disturbed /\ fresh' = fresh /\ synced' = synced /\ sure' = sure
      /\ compared' = compared
      /\ changes' = changes /\ drift' = drift /\ faults' = faults
  BY DEF CatchUp, control, history, budget
<1>2. ControlTypes' /\ Progress'
  BY <1>1 DEF Inv, ControlOK, ControlTypes, Progress
<1>3. Current' /\ Calm'
  BY <1>1 DEF Inv, ControlOK, Current, Calm, Reading
<1>. QED  BY <1>1, <1>2, <1>3 DEF Inv, DataOK, ControlOK, HistoryOK, BudgetOK

LEMMA OtherClientStep ==
    ASSUME Inv, OtherClient
    PROVE  Inv'
<1>1. /\ drift < MaxDrift /\ drift' = drift + 1
      /\ kind' = kind /\ config' = config /\ view' = view /\ tf' = tf
      /\ op' = op /\ pc' = pc /\ target' = target /\ row' = row /\ wrote' = wrote
      /\ outcome' = outcome
      /\ disturbed' = TRUE /\ fresh' = FALSE /\ synced' = FALSE /\ sure' = FALSE
      /\ compared' = compared
      /\ changes' = changes /\ faults' = faults
  BY DEF OtherClient, control
<1>2. \A e \in Foreign : e \in Stored(kind)
  BY ConfigType, CreateType DEF Inv, Foreign
<1>3. server' \in [Ids -> Stored(kind) \cup {None}] /\ UniqueIn(server')
  <2>1. ASSUME NEW e \in Foreign, Named(server, e.name) = {}, server' \in Creations(e)
        PROVE  server' \in [Ids -> Stored(kind) \cup {None}] /\ UniqueIn(server')
    BY <1>2, <2>1, NewEntity
  <2>2. ASSUME NEW i \in Ids, NEW e \in Foreign, Named(server, e.name) \subseteq {i},
               server' = [server EXCEPT ![i] = e]
        PROVE  server' \in [Ids -> Stored(kind) \cup {None}] /\ UniqueIn(server')
    BY <1>2, <2>2, OtherEntity
  <2>3. ASSUME NEW i \in Ids, server' = [server EXCEPT ![i] = None]
        PROVE  server' \in [Ids -> Stored(kind) \cup {None}] /\ UniqueIn(server')
    BY <2>3, NoEntity
  <2>. QED  BY <2>1, <2>2, <2>3 DEF OtherClient
<1>4. DataOK'
  BY <1>1, <1>3 DEF Inv, DataOK, UniqueIn
<1>5. ControlTypes' /\ Progress'
  BY <1>1 DEF Inv, ControlOK, ControlTypes, Progress
<1>6. Current' /\ Calm'
  BY <1>1 DEF Current, Calm
<1>7. BudgetOK'
  BY <1>1, BoundsAssumption DEF Inv, BudgetOK
<1>. QED  BY <1>1, <1>4, <1>5, <1>6, <1>7 DEF Inv, ControlOK, HistoryOK

LEMMA ReconfigureStep ==
    ASSUME Inv, Reconfigure
    PROVE  Inv'
<1>1. /\ config' \in Configurations(kind) /\ changes < MaxChanges /\ changes' = changes + 1
      /\ kind' = kind /\ server' = server /\ view' = view /\ tf' = tf
      /\ op' = op /\ pc' = pc /\ target' = target /\ row' = row /\ wrote' = wrote
      /\ outcome' = "none"
      /\ disturbed' = disturbed /\ fresh' = fresh /\ synced' = synced /\ sure' = sure
      /\ compared' = compared
      /\ drift' = drift /\ faults' = faults
  BY DEF Reconfigure, history
<1>2. ControlTypes' /\ Progress'
  BY <1>1 DEF Inv, ControlOK, ControlTypes, Progress, Outcome
<1>3. Current' /\ Calm'
  BY <1>1 DEF Inv, ControlOK, Current, Calm, Reading
<1>4. BudgetOK'
  BY <1>1, BoundsAssumption DEF Inv, BudgetOK
<1>. QED  BY <1>1, <1>2, <1>3, <1>4 DEF Inv, DataOK, ControlOK, HistoryOK

-----------------------------------------------------------------------------
LEMMA Initially == Init => Inv
<1> SUFFICES ASSUME Init PROVE Inv
  OBVIOUS
<1>1. DataOK
  BY DEF Init, DataOK, UniqueIn
<1>2. ControlOK
  BY DEF Init, ControlOK, ControlTypes, Progress, Current, Calm, Reading, Changing, Dropper,
         Op, Pc, Outcome
<1>3. HistoryOK
  BY DEF Init, HistoryOK
<1>4. BudgetOK
  BY BoundsAssumption DEF Init, BudgetOK
<1>. QED  BY <1>1, <1>2, <1>3, <1>4 DEF Inv

LEMMA Inductive == Inv /\ [Next]_vars => Inv'
<1> SUFFICES ASSUME Inv, [Next]_vars PROVE Inv'
  OBVIOUS
<1>1. CASE UNCHANGED vars
  <2>1. /\ kind' = kind /\ config' = config /\ server' = server /\ view' = view /\ tf' = tf
        /\ op' = op /\ pc' = pc /\ target' = target /\ row' = row /\ wrote' = wrote
        /\ outcome' = outcome
        /\ disturbed' = disturbed /\ fresh' = fresh /\ synced' = synced /\ sure' = sure
        /\ compared' = compared
        /\ changes' = changes /\ drift' = drift /\ faults' = faults
    BY <1>1 DEF vars, data, control, history, budget
  <2>2. ControlTypes' /\ Progress'
    BY <2>1 DEF Inv, ControlOK, ControlTypes, Progress
  <2>3. Current' /\ Calm'
    BY <2>1 DEF Inv, ControlOK, Current, Calm, Reading
  <2>. QED  BY <2>1, <2>2, <2>3 DEF Inv, DataOK, ControlOK, HistoryOK, BudgetOK
<1>2. ASSUME DataOK', ControlOK', HistoryOK', UNCHANGED budget
      PROVE  Inv'
  BY <1>2 DEF Inv, BudgetOK, budget
<1>3. ByIdOrName \in {"find", "lookup"} /\ BeforeDrop \in {"lookup", "write"}
  BY DEF ByIdOrName, BeforeDrop, Pc
<1>4. /\ ByIdOrName = "lookup" <=> ById(kind)
      /\ BeforeDrop = "lookup" <=> ById(kind)
  BY DEF ByIdOrName, BeforeDrop
<1>5. CASE Refresh
  BY <1>2, <1>3, <1>4, <1>5, BeginStep DEF Refresh, Op, Pc, Changing, Dropper
<1>6. CASE Create
  BY <1>2, <1>6, BeginStep DEF Create, Op, Pc, Changing, Dropper
<1>7. CASE Import
  BY <1>2, <1>7, BeginStep DEF Import, Op, Pc, Changing, Dropper
<1>8. CASE Update
  <2>1. kind # "database"
    BY <1>8 DEF Update, Replaces, DatabaseReplaces
  <2>. QED  BY <1>2, <1>3, <1>4, <1>8, <2>1, BeginStep DEF Update, Op, Pc, Changing, Dropper
<1>9. CASE Replace
  BY <1>2, <1>3, <1>4, <1>9, BeginStep DEF Replace, Op, Pc, Changing, Dropper
<1>10. CASE Destroy
  <2>1. DataOK' /\ ControlOK' /\ HistoryOK'
    BY <1>3, <1>4, <1>10, BeginStep DEF Destroy, Op, Pc, Changing, Dropper
  <2>. QED  BY <1>10, <2>1, BoundsAssumption DEF Destroy, Inv, BudgetOK
<1>11. CASE Provider
  BY <1>11, FindStep, LookupStep, ElementsStep, NormalizeStep, WriteStep DEF Provider
<1>. QED  BY <1>1, <1>5, <1>6, <1>7, <1>8, <1>9, <1>10, <1>11, ReconfigureStep, GiveUpStep,
             AnswerLostStep, CallFailsStep, NormalizeFailsStep, CatchUpStep,
             OtherClientStep DEF Next

LEMMA Invariance == Spec => []Inv
BY Initially, Inductive, PTL DEF Spec

-----------------------------------------------------------------------------
(* The variables have their types, whatever other clients do: in particular a *)
(* state always has an id that the server gave, never an empty one.           *)
THEOREM TypeCorrect == Spec => []TypeOK
<1>1. Inv => TypeOK
  <2> SUFFICES ASSUME Inv PROVE TypeOK
    OBVIOUS
  <2>1. tf = None \/ (tf.id \in Ids /\ tf.attrs \in Attributes(kind) /\ tf.tainted \in BOOLEAN)
    BY DEF Inv, ControlOK, ControlTypes, States, StatesOf
  <2>. QED  BY <2>1, ConfigType
    DEF TypeOK, Inv, DataOK, ControlOK, ControlTypes, HistoryOK, BudgetOK
<1>. QED  BY <1>1, Invariance, PTL

(* The handlers that address a statement to the name of the row they just     *)
(* read touch no entity but their own, as long as nobody moves that name      *)
(* between the SELECT and the statement.                                      *)
THEOREM OwnEntity == Spec => OnlyOwnEntity
<1>1. Inv /\ [Next]_vars =>
        [ById(kind) /\ fresh /\ pc = "write" /\ pc' # "write" =>
            \A i \in Ids : server'[i] = server[i] \/ server[i] = None \/ (tf # None /\ i = tf.id)]_vars
  <2> SUFFICES ASSUME Inv, [Next]_vars, ById(kind), fresh, pc = "write", pc' # "write",
                      server' # server
               PROVE  OnlyMine(server')
    BY DEF OnlyMine
  <2>1. server' \in AfterStatement
    BY DEF Next, Refresh, Create, Import, Update, Replace, Destroy, Begin, Reconfigure,
           Provider, Find, Lookup, Elements, Normalize, Write, GiveUp, AnswerLost, CallFails,
           NormalizeFails, CatchUp, OtherClient, vars, data, control
  <2>. QED  BY <2>1, StatementStep
<1>. QED  BY <1>1, Invariance, PTL DEF Spec, OnlyOwnEntity

(* An operation that reports its entity as dropped has dropped it, or found   *)
(* that it was gone: nothing is left behind unless another client intervened. *)
THEOREM NothingLeft == Spec => DroppedMeansGone
<1>1. Inv /\ [Next]_vars => [Dropping /\ ~disturbed => (\A i \in Mine : server'[i] = None)]_vars
  <2> SUFFICES ASSUME Inv, [Next]_vars, Dropping, ~disturbed
               PROVE  \A i \in Mine : server'[i] = None
    OBVIOUS
  <2>1. op \in Dropper /\ tf # None /\ tf' = None
    BY DEF Dropping, Dropper
  <2>2. ~Fail("failed")
    BY <2>1 DEF Fail, End, Dropper
  <2>3. pc # "find"
    BY <2>1 DEF Inv, ControlOK, Progress
  <2>4. CASE Write
    <3>1. pc = "write" /\ server' \in AfterStatement
      BY <2>2, <2>4 DEF Write
    <3>. QED  BY <2>1, <3>1, StatementStep
  <2>5. CASE Lookup
    <3>1. ById(kind) /\ target = tf.id
      BY <2>1, <2>5 DEF Lookup, Inv, ControlOK, Progress, Changing, Dropper
    <3>2. view = server
      BY <2>1 DEF Inv, ControlOK, Calm
    <3>3. CASE view[target] = None
      <4>1. \A i \in Mine : i = tf.id /\ server[i] # None
        BY <2>1, <3>1, Zenon DEF Mine
      <4>. QED  BY <3>1, <3>2, <3>3, <4>1
    <3>4. CASE \E r : Arrive(r, view = server)
      BY <2>1, <3>4 DEF Arrive, Dropper
    <3>. QED  BY <2>1, <2>5, <3>3, <3>4 DEF Lookup
  <2>6. CASE Elements
    <3>1. \E r : Arrive(r, fresh)
      BY <2>6 DEF Elements
    <3>. QED  BY <2>1, <3>1 DEF Arrive, Dropper
  <2>7. pc # "normalize"
    BY <2>1 DEF Inv, ControlOK, Progress, Dropper
  <2>. QED
    BY <2>1, <2>2, <2>3, <2>4, <2>5, <2>6, <2>7
    DEF Next, Refresh, Create, Import, Update, Replace, Destroy, Begin, Reconfigure, Provider,
        Find, Normalize, GiveUp, AnswerLost, CallFails, NormalizeFails, CatchUp, OtherClient,
        vars
<1>. QED  BY <1>1, Invariance, PTL DEF Spec, DroppedMeansGone
=============================================================================

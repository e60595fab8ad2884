---------------------------- MODULE GrantsProofs ----------------------------
(***************************************************************************)
(* Grants for any resources, privileges, databases and declarations: types *)
(* and that what the states record is held by the grantee.                 *)
(***************************************************************************)
EXTENDS Grants, TLAPS

Grantee == [role : BOOLEAN, user : BOOLEAN, on : [Scopes -> SUBSET Rights]]

(* The option to grant a right on is an option of a right.                    *)
Sound(s) == \A d \in Scopes : \A p \in Single \cup {RoleName} :
                <<p, TRUE>> \in s.on[d] => <<p, FALSE>> \in s.on[d]

Calls == {"idle", "check", "grant", "match", "covered", "retry", "revoke"}
Ops   == {"none", "refresh", "create", "destroy", "replace"}

Shapes ==
    /\ decl \in Declarations
    /\ wanted \subseteq Resources
    /\ server \in Grantee /\ view \in Grantee
    /\ Sound(server)
    /\ tf \in [Resources -> BOOLEAN \cup {None}]
    /\ op \in [Resources -> Ops] /\ pc \in [Resources -> Calls]

Recording ==
    \A r \in Resources :
        /\ Idle(r) <=> op[r] = "none"
        /\ op[r] = "create" => tf[r] = None
        /\ op[r] \in {"refresh", "destroy", "replace"} => tf[r] # None

IInv == Shapes /\ Recording

-----------------------------------------------------------------------------
(* Statements.                                                                *)

LEMMA GivenType ==
    ASSUME NEW g \in Grant
    PROVE  /\ Given(g) \subseteq Rights
           /\ Members(g.priv) \X BOOLEAN \subseteq Rights
           /\ \A p : <<p, TRUE>> \in Given(g) => <<p, FALSE>> \in Given(g)
<1>1. Members(g.priv) \subseteq Single \cup {RoleName}
  BY GrantsAssumption DEF Grant, Privileges
<1>. QED  BY <1>1 DEF Given, Rights

LEMMA GrantingType ==
    ASSUME NEW s \in Grantee, NEW g \in Grant
    PROVE  /\ Granting(s, g) \in Grantee
           /\ Granting(s, g).role = s.role /\ Granting(s, g).user = s.user
           /\ \A d \in Scopes : Granting(s, g).on[d] =
                 IF g.scope \in {All, d} THEN s.on[d] \cup Given(g) ELSE s.on[d]
<1> DEFINE on == [d \in Scopes |-> IF g.scope \in {All, d} THEN s.on[d] \cup Given(g) ELSE s.on[d]]
<1>1. on \in [Scopes -> SUBSET Rights]
  BY GivenType DEF Grantee
<1>2. Granting(s, g) = [s EXCEPT !.on = on]
  BY DEF Granting
<1>. QED  BY <1>1, <1>2 DEF Grantee

LEMMA RevokingType ==
    ASSUME NEW s \in Grantee, NEW g \in Grant
    PROVE  /\ Revoking(s, g) \in Grantee
           /\ Revoking(s, g).role = s.role /\ Revoking(s, g).user = s.user
           /\ \A d \in Scopes : Revoking(s, g).on[d] =
                 IF g.scope \in {All, d} THEN s.on[d] \ (Members(g.priv) \X BOOLEAN) ELSE s.on[d]
<1> DEFINE on == [d \in Scopes |-> IF g.scope \in {All, d}
                                   THEN s.on[d] \ (Members(g.priv) \X BOOLEAN) ELSE s.on[d]]
<1>1. on \in [Scopes -> SUBSET Rights]
  BY DEF Grantee
<1>2. Revoking(s, g) = [s EXCEPT !.on = on]
  BY DEF Revoking
<1>. QED  BY <1>1, <1>2 DEF Grantee

(* A GRANT or REVOKE leaves a sound grantee.                                  *)
LEMMA GrantedType ==
    ASSUME NEW s \in Grantee, Sound(s), NEW g \in Grant, NEW t \in Granted(s, g)
    PROVE  t \in Grantee /\ Sound(t)
<1>1. t = s \/ t = Granting(s, g)
  BY Zenon DEF Granted, Addressed
<1>2. Sound(Granting(s, g))
  <2> SUFFICES ASSUME NEW d \in Scopes, NEW p \in Single \cup {RoleName},
                      <<p, TRUE>> \in Granting(s, g).on[d]
               PROVE  <<p, FALSE>> \in Granting(s, g).on[d]
    BY DEF Sound
  <2>1. \A c \in Scopes : Granting(s, g).on[c] =
            IF g.scope \in {All, c} THEN s.on[c] \cup Given(g) ELSE s.on[c]
    BY GrantingType, Zenon
  <2>2. <<p, TRUE>> \in s.on[d] => <<p, FALSE>> \in s.on[d]
    BY DEF Sound
  <2>3. <<p, TRUE>> \in Given(g) => <<p, FALSE>> \in Given(g)
    BY GivenType
  <2>. QED  BY <2>1, <2>2, <2>3
<1>. QED  BY <1>1, <1>2, GrantingType

LEMMA RevokedType ==
    ASSUME NEW s \in Grantee, Sound(s), NEW g \in Grant, NEW t \in Revoked(s, g)
    PROVE  t \in Grantee /\ Sound(t)
<1>1. t = s \/ t = Revoking(s, g)
  BY Zenon DEF Revoked, Addressed
<1>2. Sound(Revoking(s, g))
  <2> SUFFICES ASSUME NEW d \in Scopes, NEW p \in Single \cup {RoleName},
                      <<p, TRUE>> \in Revoking(s, g).on[d]
               PROVE  <<p, FALSE>> \in Revoking(s, g).on[d]
    BY DEF Sound
  <2>1. \A c \in Scopes : Revoking(s, g).on[c] =
            IF g.scope \in {All, c} THEN s.on[c] \ (Members(g.priv) \X BOOLEAN) ELSE s.on[c]
    BY RevokingType, Zenon
  <2>2. <<p, TRUE>> \in s.on[d] => <<p, FALSE>> \in s.on[d]
    BY DEF Sound
  <2>3. <<p, FALSE>> \in Members(g.priv) \X BOOLEAN => <<p, TRUE>> \in Members(g.priv) \X BOOLEAN
    OBVIOUS
  <2>. QED  BY <2>1, <2>2, <2>3
<1>. QED  BY <1>1, <1>2, RevokingType

-----------------------------------------------------------------------------
(* Types.                                                                     *)

LEMMA Declared ==
    ASSUME Shapes, NEW r \in Resources
    PROVE  decl[r] \in Grant
BY GrantsAssumption DEF Shapes

LEMMA AdminType == AdminOption(view) \in BOOLEAN
BY DEF AdminOption

LEMMA BeginKeeps ==
    ASSUME IInv, NEW r \in Resources, NEW o \in Ops \ {"none"}, NEW at \in Calls \ {"idle"},
           Begin(r, o, at), o = "create" <=> tf[r] = None
    PROVE  IInv'
<1>1. /\ pc' = [pc EXCEPT ![r] = at] /\ op' = [op EXCEPT ![r] = o]
      /\ decl' = decl /\ wanted' = wanted /\ server' = server /\ view' = view /\ tf' = tf
  BY DEF Begin, Goto, data
<1>2. Shapes'
  BY <1>1 DEF IInv, Shapes, Sound
<1>3. Recording'
  BY <1>1 DEF IInv, Shapes, Recording, Idle, Ops
<1>. QED  BY <1>2, <1>3 DEF IInv

LEMMA EndKeeps ==
    ASSUME IInv, NEW r \in Resources, NEW result, NEW state \in BOOLEAN \cup {None},
           End(r, result, state), decl' = decl, wanted' = wanted, view' = view,
           server' \in Grantee, Sound(server')
    PROVE  IInv'
<1>1. /\ pc' = [pc EXCEPT ![r] = "idle"] /\ op' = [op EXCEPT ![r] = "none"]
      /\ tf' = [tf EXCEPT ![r] = state]
  BY DEF End, Goto
<1>2. Shapes'
  BY <1>1 DEF IInv, Shapes, Sound, Ops, Calls
<1>3. Recording'
  BY <1>1 DEF IInv, Shapes, Recording, Idle
<1>. QED  BY <1>2, <1>3 DEF IInv

LEMMA GotoKeeps ==
    ASSUME IInv, NEW r \in Resources, ~Idle(r), NEW at \in Calls \ {"idle"}, Goto(r, at),
           op' = op, tf' = tf, decl' = decl, wanted' = wanted, view' = view,
           server' \in Grantee, Sound(server')
    PROVE  IInv'
<1>1. pc' = [pc EXCEPT ![r] = at]
  BY DEF Goto
<1>2. Shapes'
  BY <1>1 DEF IInv, Shapes, Sound
<1>3. Recording'
  BY <1>1 DEF IInv, Shapes, Recording, Idle
<1>. QED  BY <1>2, <1>3 DEF IInv

LEMMA ProviderKeeps ==
    ASSUME IInv, NEW r \in Resources, Provider(r)
    PROVE  IInv'
<1>1. /\ tf[r] \in BOOLEAN \cup {None} /\ None \in BOOLEAN \cup {None}
      /\ decl[r] \in Grant /\ decl[r].option \in BOOLEAN
      /\ AdminOption(view) \in BOOLEAN \cup {None} /\ ReadOption(r) \in BOOLEAN \cup {None}
  BY Declared, AdminType DEF IInv, Shapes, Grant, ReadOption
<1>2. server \in Grantee /\ Sound(server) /\ view \in Grantee
  BY DEF IInv, Shapes
<1>3. ASSUME Step PROVE decl' = decl /\ wanted' = wanted /\ view' = view
  BY <1>3 DEF Step, data
<1>4. CASE Check(r)
  BY <1>1, <1>2, <1>3, <1>4, EndKeeps, GotoKeeps DEF Check, Idle, Calls
<1>5. CASE GrantStatement(r)
  <2>1. server' \in Grantee /\ Sound(server')
    BY <1>1, <1>2, <1>5, GrantedType DEF GrantStatement
  <2>. QED  BY <1>1, <1>3, <1>5, <2>1, EndKeeps, GotoKeeps DEF GrantStatement, Idle, Calls
<1>6. CASE Match(r)
  BY <1>1, <1>2, <1>3, <1>6, EndKeeps, GotoKeeps DEF Match, ReadMissing, Idle, Calls
<1>7. CASE Covered(r)
  BY <1>1, <1>2, <1>3, <1>7, EndKeeps, GotoKeeps DEF Covered, Idle, Calls
<1>8. CASE Retry(r)
  BY <1>1, <1>2, <1>3, <1>8, EndKeeps DEF Retry
<1>9. CASE RevokeStatement(r)
  <2>1. server' \in Grantee /\ Sound(server')
    BY <1>1, <1>2, <1>9, RevokedType DEF RevokeStatement
  <2>2. CASE /\ Goto(r, "check") /\ op' = [op EXCEPT ![r] = "create"]
             /\ tf' = [tf EXCEPT ![r] = None]
    <3>1. pc' = [pc EXCEPT ![r] = "check"] /\ pc[r] = "revoke"
      BY <1>9, <2>2 DEF RevokeStatement, Goto
    <3>2. Shapes'
      BY <1>3, <1>9, <2>1, <2>2, <3>1 DEF RevokeStatement, IInv, Shapes, Ops, Calls
    <3>3. Recording'
      BY <2>2, <3>1 DEF IInv, Shapes, Recording, Idle
    <3>. QED  BY <3>2, <3>3 DEF IInv
  <2>. QED  BY <1>1, <1>3, <1>9, <2>1, <2>2, EndKeeps DEF RevokeStatement
<1>. QED  BY <1>4, <1>5, <1>6, <1>7, <1>8, <1>9 DEF Provider

LEMMA Unmoved ==
    ASSUME IInv, decl' = decl, wanted' \subseteq Resources, tf' = tf, op' = op, pc' = pc,
           server' \in Grantee, Sound(server'), view' \in Grantee
    PROVE  IInv'
BY DEF IInv, Shapes, Sound, Recording, Idle

LEMMA OtherKeeps ==
    ASSUME IInv, OtherClient
    PROVE  IInv'
<1>1. /\ decl' = decl /\ wanted' = wanted /\ view' = view
      /\ tf' = tf /\ op' = op /\ pc' = pc
  BY DEF OtherClient, data, control
<1>2. server \in Grantee /\ Sound(server) /\ view \in Grantee /\ wanted \subseteq Resources
  BY DEF IInv, Shapes
<1>3. server' \in Grantee /\ Sound(server')
  <2>1. ASSUME NEW r \in Resources, NEW d \in Scopes, NEW p \in Privileges, NEW g,
               g = [priv |-> p, scope |-> d, option |-> FALSE],
               server' \in Granted(server, g) \cup Revoked(server, g)
        PROVE  server' \in Grantee /\ Sound(server')
    <3>1. g \in Grant
      BY <2>1 DEF Grant
    <3>. QED  BY <1>2, <2>1, <3>1, GrantedType, RevokedType
  <2>2. CASE server' = [server EXCEPT !.user = ~@]
    BY <1>2, <2>2 DEF Grantee, Sound
  <2>3. CASE server' = [server EXCEPT !.role = ~@, !.on = NoRights]
    <3>1. NoRights \in [Scopes -> SUBSET Rights]
      BY DEF NoRights
    <3>2. server' \in Grantee /\ server'.on = NoRights
      BY <1>2, <2>3, <3>1 DEF Grantee
    <3>. QED  BY <3>2 DEF Sound, NoRights
  <2>. QED  BY <2>1, <2>2, <2>3 DEF OtherClient
<1>. QED  BY <1>1, <1>2, <1>3, Unmoved

LEMMA InitIInv == Init => IInv
<1> SUFFICES ASSUME Init PROVE IInv
  OBVIOUS
<1>1. server \in Grantee /\ view \in Grantee /\ Sound(server)
  <2>1. NoRights \in [Scopes -> SUBSET Rights]
    BY DEF NoRights
  <2>. QED  BY <2>1 DEF Init, Grantee, Sound, NoRights
<1>2. Shapes
  BY <1>1 DEF Init, Shapes, Ops, Calls
<1>3. Recording
  BY DEF Init, Recording, Idle
<1>. QED  BY <1>2, <1>3 DEF IInv

LEMMA IInvStep == IInv /\ [Next]_vars => IInv'
<1> SUFFICES ASSUME IInv, [Next]_vars PROVE IInv'
  OBVIOUS
<1>1. server \in Grantee /\ Sound(server) /\ view \in Grantee /\ wanted \subseteq Resources
  BY DEF IInv, Shapes
<1>3. ASSUME NEW r \in Resources, Refresh(r) PROVE IInv'
  BY <1>3, BeginKeeps DEF Refresh, Ops, Calls
<1>4. ASSUME NEW r \in Resources, Create(r) PROVE IInv'
  BY <1>4, BeginKeeps DEF Create, Ops, Calls
<1>5. ASSUME NEW r \in Resources, Destroy(r) PROVE IInv'
  BY <1>5, BeginKeeps DEF Destroy, Ops, Calls
<1>6. ASSUME NEW r \in Resources, Replace(r) PROVE IInv'
  BY <1>6, BeginKeeps DEF Replace, Ops, Calls
<1>7. ASSUME NEW r \in Resources, CallFails(r) PROVE IInv'
  <2>1. server' \in Grantee /\ Sound(server')
    BY <1>1, <1>7, Declared, GrantedType, RevokedType DEF CallFails, IInv
  <2>2. tf[r] \in BOOLEAN \cup {None}
    BY DEF IInv, Shapes
  <2>. QED  BY <1>7, <2>1, <2>2, EndKeeps DEF CallFails, data
<1>8. CASE Configure
  BY <1>1, <1>8, Unmoved DEF Configure, data, control
<1>9. CASE CatchUp
  BY <1>1, <1>9, Unmoved DEF CatchUp, data, control
<1>10. CASE UNCHANGED vars
  BY <1>1, <1>10, Unmoved DEF vars, data, control
<1>. QED  BY <1>3, <1>4, <1>5, <1>6, <1>7, <1>8, <1>9, <1>10, ProviderKeeps, OtherKeeps
          DEF Next, Change

LEMMA Invariance == Spec => []IInv
BY InitIInv, IInvStep, PTL DEF Spec

-----------------------------------------------------------------------------
(* What is recorded is held.                                                  *)

Apart == \A r, q \in Resources : r = q \/ Disjoint(decl[r], decl[q])

HeldBy(s, g) == \A d \in Scopes : g.scope \in {All, d} => Given(g) \subseteq s.on[d]

(* The state records the grant, or it was just made and is looked for.        *)
Holds(r) == tf[r] # None \/ (op[r] = "create" /\ pc[r] \in {"match", "covered", "retry"})

HeldInv ==
    calm /\ Apart =>
        /\ server.role /\ ~server.user
        /\ \A r \in Resources : Holds(r) => HeldBy(server, decl[r])

LEMMA HeldGranting ==
    ASSUME NEW s \in Grantee, NEW g \in Grant, NEW h \in Grant
    PROVE  /\ HeldBy(Granting(s, g), g)
           /\ HeldBy(s, h) => HeldBy(Granting(s, g), h)
<1>1. \A d \in Scopes : Granting(s, g).on[d] =
          IF g.scope \in {All, d} THEN s.on[d] \cup Given(g) ELSE s.on[d]
  BY GrantingType, Zenon
<1>. QED  BY <1>1 DEF HeldBy

(* A REVOKE takes nothing from a grant that has nothing in common with it.    *)
LEMMA HeldRevoking ==
    ASSUME NEW s \in Grantee, NEW g \in Grant, NEW h \in Grant, Disjoint(h, g), HeldBy(s, h)
    PROVE  HeldBy(Revoking(s, g), h)
<1> SUFFICES ASSUME NEW d \in Scopes, h.scope \in {All, d}
             PROVE  Given(h) \subseteq Revoking(s, g).on[d]
  BY DEF HeldBy
<1>1. \A c \in Scopes : Revoking(s, g).on[c] =
          IF g.scope \in {All, c} THEN s.on[c] \ (Members(g.priv) \X BOOLEAN) ELSE s.on[c]
  BY RevokingType, Zenon
<1>2. Given(h) \subseteq s.on[d]
  BY DEF HeldBy
<1>3. CASE g.scope \in {All, d}
  <2>1. Members(h.priv) \cap Members(g.priv) = {}
    BY <1>3 DEF Disjoint
  <2>2. Given(h) \cap (Members(g.priv) \X BOOLEAN) = {}
    BY <2>1 DEF Given
  <2>. QED  BY <1>1, <1>2, <1>3, <2>2
<1>4. CASE g.scope \notin {All, d}
  BY <1>1, <1>2, <1>4
<1>. QED  BY <1>3, <1>4

(* A step of one resource, as the others see it.                              *)
LEMMA HeldMeanwhile ==
    ASSUME IInv, HeldInv, calm, Apart, NEW r \in Resources, NEW q \in Resources, q # r,
           Provider(r), Holds(q)
    PROVE  HeldBy(server', decl[q])
<1>1. server \in Grantee /\ server.role /\ ~server.user /\ HeldBy(server, decl[q])
  BY DEF IInv, Shapes, HeldInv
<1>2. decl[r] \in Grant /\ decl[q] \in Grant /\ Disjoint(decl[q], decl[r])
  BY Declared DEF IInv, Apart
<1>3. \/ server' = server
      \/ server' \in Granted(server, decl[r])
      \/ server' \in Revoked(server, decl[r])
  BY DEF Provider, Check, GrantStatement, Match, Covered, Retry, RevokeStatement
<1>4. CASE server' = server
  BY <1>1, <1>4
<1>5. CASE server' \in Granted(server, decl[r])
  <2>1. server' = server \/ server' = Granting(server, decl[r])
    BY <1>5, Zenon DEF Granted, Addressed
  <2>. QED  BY <1>1, <1>2, <2>1, HeldGranting
<1>6. CASE server' \in Revoked(server, decl[r])
  <2>1. server' = server \/ server' = Revoking(server, decl[r])
    BY <1>6, Zenon DEF Revoked, Addressed
  <2>. QED  BY <1>1, <1>2, <2>1, HeldRevoking
<1>. QED  BY <1>3, <1>4, <1>5, <1>6

(* ... and as it sees it itself.                                              *)
LEMMA HeldItself ==
    ASSUME IInv, HeldInv, calm, Apart, NEW r \in Resources, Provider(r), Holds(r)'
    PROVE  HeldBy(server', decl[r])
<1>1. /\ server \in Grantee /\ server.role /\ ~server.user
      /\ Holds(r) => HeldBy(server, decl[r])
      /\ decl[r] \in Grant
  BY Declared DEF IInv, Shapes, HeldInv
<1>2. tf \in [Resources -> BOOLEAN \cup {None}] /\ op \in [Resources -> Ops] /\ pc \in [Resources -> Calls]
  BY DEF IInv, Shapes
<1>3. pc[r] \in {"match", "covered", "retry"} => Holds(r)
  BY <1>2 DEF IInv, Recording, Holds, Idle, Ops
<1>4. tf[r] # None => Holds(r)
  BY DEF Holds
<1>5. ASSUME NEW result, End(r, result, tf[r]), server' = server
      PROVE  HeldBy(server', decl[r])
  BY <1>1, <1>2, <1>4, <1>5 DEF End, Goto, Holds
<1>6. CASE Check(r)
  <2>1. CASE Goto(r, "grant") /\ tf' = tf
    BY <1>1, <1>2, <1>4, <1>6, <2>1 DEF Check, Goto, Holds
  <2>. QED  BY <1>5, <1>6, <2>1 DEF Check
<1>7. CASE GrantStatement(r)
  <2>1. Granted(server, decl[r]) = {Granting(server, decl[r])}
    BY <1>1, Zenon DEF Granted, Addressed
  <2>2. server' = Granting(server, decl[r])
    BY <1>7, <2>1 DEF GrantStatement
  <2>. QED  BY <1>1, <2>2, HeldGranting
<1>8. CASE Match(r) \/ Covered(r) \/ Retry(r)
  <2>1. pc[r] \in {"match", "covered", "retry"} /\ server' = server
    BY <1>8 DEF Match, Covered, Retry
  <2>. QED  BY <1>1, <1>3, <2>1
<1>9. CASE RevokeStatement(r)
  <2>1. Revoked(server, decl[r]) # {}
    BY <1>1, Zenon DEF Revoked, Addressed
  <2>2. tf'[r] = None /\ pc'[r] \in {"idle", "check"}
    BY <1>2, <1>9, <2>1 DEF RevokeStatement, End, Goto
  <2>. QED  BY <2>2 DEF Holds
<1>. QED  BY <1>6, <1>7, <1>8, <1>9 DEF Provider

LEMMA HeldStep == IInv /\ HeldInv /\ [Next]_vars => HeldInv'
<1> SUFFICES ASSUME IInv, HeldInv, [Next]_vars, calm', Apart'
             PROVE  /\ server'.role /\ ~server'.user
                    /\ \A r \in Resources : Holds(r)' => HeldBy(server', decl'[r])
  BY DEF HeldInv, HeldBy
<1>1. calm /\ ~OtherClient /\ \A r \in Resources : ~CallFails(r)
  BY DEF Next, OtherClient, CallFails, Refresh, Change, Create, Destroy, Replace, Begin, Provider,
         Check, GrantStatement, Match, Covered, Retry, RevokeStatement, Step, Configure, CatchUp,
         vars, budget
<1>2. decl' = decl
  BY <1>1 DEF Next, Refresh, Change, Create, Destroy, Replace, Begin, Provider,
         Check, GrantStatement, Match, Covered, Retry, RevokeStatement, Step, Configure, CatchUp,
         vars, data
<1>3. Apart /\ server.role /\ ~server.user /\ server \in Grantee
  BY <1>1, <1>2 DEF Apart, Disjoint, HeldInv, IInv, Shapes
<1>4. \A r \in Resources : Holds(r) => HeldBy(server, decl[r])
  BY <1>1, <1>3 DEF HeldInv
<1>5. CASE \E r \in Resources : Provider(r)
  <2>1. PICK r \in Resources : Provider(r)
    BY <1>5
  <2>2. server'.role /\ ~server'.user
    <3>1. \/ server' = server
          \/ server' \in Granted(server, decl[r])
          \/ server' \in Revoked(server, decl[r])
      BY <2>1 DEF Provider, Check, GrantStatement, Match, Covered, Retry, RevokeStatement
    <3>2. \/ server' = server
          \/ server' = Granting(server, decl[r])
          \/ server' = Revoking(server, decl[r])
      BY <3>1, Zenon DEF Granted, Revoked, Addressed
    <3>. QED  BY <1>3, <3>2, Declared, GrantingType, RevokingType DEF IInv
  <2>3. \A q \in Resources \ {r} : tf'[q] = tf[q] /\ op'[q] = op[q] /\ pc'[q] = pc[q]
    <3>1. tf \in [Resources -> BOOLEAN \cup {None}] /\ op \in [Resources -> Ops] /\ pc \in [Resources -> Calls]
      BY DEF IInv, Shapes
    <3>. QED
      BY <2>1, <3>1 DEF Provider, Check, GrantStatement, Match, Covered, Retry, RevokeStatement,
                        ReadMissing, End, Goto
  <2>4. ASSUME NEW q \in Resources, Holds(q)' PROVE HeldBy(server', decl'[q])
    <3>1. CASE q = r
      BY <1>1, <1>2, <1>3, <2>1, <2>4, <3>1, HeldItself
    <3>2. CASE q # r
      <4>1. Holds(q)
        BY <2>3, <2>4, <3>2 DEF Holds
      <4>. QED  BY <1>1, <1>2, <1>3, <2>1, <3>2, <4>1, HeldMeanwhile
    <3>. QED  BY <3>1, <3>2
  <2>. QED  BY <2>2, <2>4
<1>6. CASE \E r \in Resources : Refresh(r) \/ Change(r)
  <2>1. PICK r \in Resources, o \in Ops, at \in {"match", "check", "revoke"} :
            Begin(r, o, at) /\ (o = "create" => at = "check")
    BY <1>6 DEF Refresh, Change, Create, Destroy, Replace, Ops
  <2>2. server' = server /\ tf' = tf /\ op' = [op EXCEPT ![r] = o] /\ pc' = [pc EXCEPT ![r] = at]
    BY <2>1 DEF Begin, Goto
  <2>3. \A q \in Resources : Holds(q)' => Holds(q)
    BY <2>1, <2>2 DEF Holds, IInv, Shapes
  <2>. QED  BY <1>2, <1>3, <1>4, <2>2, <2>3
<1>7. CASE Configure \/ CatchUp \/ UNCHANGED vars
  <2>1. server' = server /\ tf' = tf /\ op' = op /\ pc' = pc
    BY <1>7 DEF Configure, CatchUp, vars, control
  <2>. QED  BY <1>2, <1>3, <1>4, <2>1 DEF Holds
<1>. QED  BY <1>1, <1>5, <1>6, <1>7 DEF Next

LEMMA HeldInit == Init => HeldInv
BY DEF Init, HeldInv, Holds

(* Any number of resources with nothing in common may be created, replaced    *)
(* and destroyed at the same time, whatever replica answers: what a state     *)
(* records, the grantee holds.                                                *)
THEOREM RecordedHeld == Spec => []RecordedMeansHeld
<1>1. HeldInv => RecordedMeansHeld
  BY DEF HeldInv, RecordedMeansHeld, Apart, Holds, HeldBy, Held
<1>. QED  BY <1>1, HeldInit, HeldStep, Invariance, PTL DEF Spec

-----------------------------------------------------------------------------
(* What the rows tell.                                                        *)

LEMMA MembersAre ==
    /\ \A p \in Single \cup {RoleName} : Members(p) = {p} /\ p \notin Groups
    /\ \A p \in Groups : Members(p) \subseteq Single /\ Members(p) # {} /\ p \notin Members(p)
BY GrantsAssumption

LEMMA RowsAre ==
    ASSUME NEW s, NEW row
    PROVE  row \in Rows(s) <=>
              \E d \in Scopes, o \in BOOLEAN : \E p \in RowPrivileges(OwnWith(s, d, o)) :
                  row = [priv |-> p, scope |-> d, option |-> o]
<1> DEFINE shown(d, o) == {[priv |-> p, scope |-> d, option |-> o] : p \in RowPrivileges(OwnWith(s, d, o))}
<1>1. Rows(s) = UNION {shown(d, o) : d \in Scopes, o \in BOOLEAN}
  BY DEF Rows
<1>2. \A d, o : row \in shown(d, o) <=> \E p \in RowPrivileges(OwnWith(s, d, o)) :
                     row = [priv |-> p, scope |-> d, option |-> o]
  OBVIOUS
<1> HIDE DEF shown
<1>3. row \in Rows(s) <=> \E d \in Scopes, o \in BOOLEAN : row \in shown(d, o)
  BY <1>1
<1>. QED  BY <1>2, <1>3, Zenon

(* A right is shown by its name, or by a group that it makes complete.        *)
LEMMA Shown ==
    ASSUME NEW own \in SUBSET (Single \cup {RoleName}), NEW p \in own
    PROVE  p \in RowPrivileges(own) \/ \E x \in RowPrivileges(own) : p \in Members(x) \ {x}
<1> DEFINE full == {x \in Groups \ Sources : grouped /\ Members(x) \subseteq own}
<1>1. RowPrivileges(own) = full \cup (own \ UNION {Members(x) : x \in full})
  BY DEF RowPrivileges
<1>2. CASE p \in UNION {Members(x) : x \in full}
  <2>1. PICK x \in full : p \in Members(x)
    BY <1>2
  <2>2. p # x
    BY <2>1, MembersAre
  <2>. QED  BY <1>1, <2>1, <2>2
<1>3. CASE p \notin UNION {Members(x) : x \in full}
  BY <1>1, <1>3
<1>. QED  BY <1>2, <1>3

LEMMA OwnShown ==
    ASSUME NEW s, NEW d \in Scopes, NEW p \in Single \cup {RoleName}, NEW o \in BOOLEAN,
           <<p, o>> \in Own(s, d)
    PROVE  \E row \in Rows(s) :
              /\ row.priv = p \/ p \in Members(row.priv) \ {row.priv}
              /\ row.scope = d /\ (o => row.option)
<1>1. PICK q \in BOOLEAN : p \in OwnWith(s, d, q) /\ (o => q)
  <2>1. CASE <<p, TRUE>> \in Own(s, d)
    BY <2>1 DEF OwnWith
  <2>2. CASE <<p, TRUE>> \notin Own(s, d)
    BY <2>2 DEF OwnWith
  <2>. QED  BY <2>1, <2>2
<1>2. OwnWith(s, d, q) \subseteq Single \cup {RoleName}
  BY DEF OwnWith
<1>3. PICK x \in RowPrivileges(OwnWith(s, d, q)) : x = p \/ p \in Members(x) \ {x}
  BY <1>1, <1>2, Shown
<1>4. [priv |-> x, scope |-> d, option |-> q] \in Rows(s)
  BY <1>3, RowsAre
<1>. QED  BY <1>1, <1>3, <1>4

(* The row of a grant shows one of its rights.                                *)
LEMMA RowOwn ==
    ASSUME NEW s, NEW g \in Grant, NEW row \in Rows(s), row.priv \in Descendants(g.priv)
    PROVE  \E p \in Members(g.priv), o \in BOOLEAN : <<p, o>> \in Own(s, row.scope)
<1>0. PICK d \in Scopes, o \in BOOLEAN : \E x \in RowPrivileges(OwnWith(s, d, o)) :
          row = [priv |-> x, scope |-> d, option |-> o]
  BY RowsAre
<1>1. PICK x \in RowPrivileges(OwnWith(s, d, o)) : row = [priv |-> x, scope |-> d, option |-> o]
  BY <1>0
<1>2. \A p \in OwnWith(s, d, o) : p \in Single \cup {RoleName} /\ <<p, o>> \in Own(s, d)
  BY DEF OwnWith
<1>3. x = g.priv \/ x \in Members(g.priv)
  BY <1>1 DEF Descendants
<1>4. g.priv \in Single \cup {RoleName} \/ g.priv \in Groups
  BY DEF Grant, Privileges
<1>5. CASE x \in OwnWith(s, d, o)
  BY <1>1, <1>2, <1>3, <1>4, <1>5, MembersAre
<1>6. CASE x \in Groups /\ Members(x) \subseteq OwnWith(s, d, o)
  <2>1. x = g.priv
    BY <1>3, <1>4, <1>6, MembersAre, GrantsAssumption
  <2>. QED  BY <1>1, <1>2, <1>6, <2>1, MembersAre
<1>. QED  BY <1>1, <1>5, <1>6 DEF RowPrivileges

LEMMA FoundOwn ==
    ASSUME NEW s, NEW g \in Grant, Found(s, g)
    PROVE  \E p \in Members(g.priv), o \in BOOLEAN : <<p, o>> \in Own(s, g.scope)
<1>1. CASE g.priv \in Sources
  <2>1. PICK m \in Members(g.priv) : TRUE
    BY <1>1, MembersAre, GrantsAssumption
  <2>2. PICK row \in Rows(s) : row.priv = m /\ row.scope = g.scope
    BY <1>1, <2>1 DEF Found
  <2>3. row.priv \in Descendants(g.priv)
    BY <2>1, <2>2 DEF Descendants
  <2>. QED  BY <2>2, <2>3, RowOwn
<1>2. CASE g.priv \notin Sources
  BY <1>2, RowOwn DEF Found, Matched
<1>. QED  BY <1>1, <1>2

(* A right of the database's own is found, unless a group stands for it.      *)
LEMMA OwnFound ==
    ASSUME NEW s, NEW g \in Grant, g.priv \notin Groups, ~ShownInGroup(s, g),
           NEW o \in BOOLEAN, <<g.priv, o>> \in Own(s, g.scope)
    PROVE  Found(s, g)
<1>1. g.priv \in Single \cup {RoleName} /\ g.scope \in Scopes /\ g.priv \notin Sources
  BY GrantsAssumption DEF Grant, Privileges
<1>2. PICK row \in Rows(s) :
          (row.priv = g.priv \/ g.priv \in Members(row.priv) \ {row.priv}) /\ row.scope = g.scope
  BY <1>1, OwnShown
<1>. QED  BY <1>1, <1>2 DEF ShownInGroup, Found, Matched, Descendants

LEMMA CoveredByAll ==
    ASSUME NEW s, NEW g \in Grant, g.priv \notin Groups, Given(g) \subseteq s.on[All]
    PROVE  IsGrantCovered(s, g)
<1>1. g.priv \in Single \cup {RoleName} /\ All \in Scopes /\ g.option \in BOOLEAN
  BY DEF Grant, Privileges, Scopes
<1>2. <<g.priv, g.option>> \in Own(s, All)
  BY <1>1, MembersAre DEF Given, Own
<1>3. PICK row \in Rows(s) :
          /\ row.priv = g.priv \/ g.priv \in Members(row.priv) \ {row.priv}
          /\ row.scope = All /\ (g.option => row.option)
  BY <1>1, <1>2, OwnShown
<1>4. Covers(row, g)
  BY <1>3 DEF Covers, Descendants, ObjectCovers
<1>. QED  BY <1>3, <1>4 DEF IsGrantCovered
-----------------------------------------------------------------------------
(* What a create finds that nobody disturbs.                                  *)

(* Which calls an operation makes, and how it stands meanwhile.               *)
Outcomes == {"none", "done", "created", "failed", "overlap", "timeout"}

Underway ==
    /\ outcome \in [Resources -> Outcomes]
    /\ \A r \in Resources :
          /\ ~Idle(r) => outcome[r] = "none"
          /\ pc[r] \in {"check", "grant", "covered", "retry"} => op[r] = "create"
          /\ pc[r] = "match" => op[r] \in {"create", "refresh"}
          /\ pc[r] = "revoke" => op[r] \in {"destroy", "replace"}

(* Of grants of privileges the state only knows what was declared, so they    *)
(* are never replaced.                                                        *)
AsDeclared ==
    \A r \in Resources :
        decl[r].priv # RoleName => tf[r] \in {None, decl[r].option} /\ op[r] # "replace"

(* The operation is the only one, and the replica lags behind its statements  *)
(* at most: on a database they leave the rights on everything alone, and a    *)
(* create only adds.  It has its grant once the statement went out, and when  *)
(* it waits for the row of a privilege, then not because all of it covers it. *)
Undisturbed(r) ==
    /\ \A q \in Resources : Idle(q) \/ q = r
    /\ view.role = server.role /\ view.user = server.user
    /\ pc[r] = "grant" => server.role /\ ~server.user
    /\ op[r] = "create" /\ pc[r] \in {"match", "covered", "retry"} => HeldBy(server, decl[r])
    /\ decl[r].scope # All =>
          /\ view.on[All] = server.on[All]
          /\ op[r] = "create" => view.on[decl[r].scope] \subseteq server.on[decl[r].scope]
          /\ pc[r] = "retry" /\ decl[r].priv \notin Groups => ~(Given(decl[r]) \subseteq server.on[All])

QuietInv ==
    /\ Underway /\ AsDeclared
    /\ quiet => \A r \in Resources : Idle(r) \/ Undisturbed(r)

LEMMA QuietInitially == Init => QuietInv
BY DEF Init, QuietInv, Underway, AsDeclared, Idle, Outcomes

(* Only grants of roles are replaced, and these are not on a database.        *)
LEMMA BeginQuiet ==
    ASSUME IInv, QuietInv, NEW r \in Resources, NEW o \in Ops \ {"none"}, NEW at \in Calls \ {"idle"},
           Begin(r, o, at),
           \/ o = "refresh" /\ at = "match"
           \/ o = "create" /\ at = "check"
           \/ o \in {"destroy", "replace"} /\ at = "revoke",
           o = "replace" => decl[r].priv = RoleName
    PROVE  QuietInv'
<1>1. /\ pc' = [pc EXCEPT ![r] = at] /\ op' = [op EXCEPT ![r] = o]
      /\ outcome' = [outcome EXCEPT ![r] = "none"]
      /\ decl' = decl /\ server' = server /\ view' = view /\ tf' = tf
      /\ quiet' = (view = server /\ \A q \in Resources : Idle(q))
  BY DEF Begin, Goto, data
<1>2. op \in [Resources -> Ops] /\ pc \in [Resources -> Calls] /\ Underway /\ AsDeclared
  BY DEF IInv, Shapes, QuietInv
<1>3. Underway' /\ AsDeclared'
  BY <1>1, <1>2 DEF Underway, AsDeclared, Outcomes, Idle
<1>4. ASSUME quiet' PROVE \A q \in Resources : Idle(q)' \/ Undisturbed(q)'
  <2>1. view' = server' /\ \A q \in Resources \ {r} : Idle(q)'
    BY <1>1, <1>2, <1>4 DEF Idle
  <2>2. Undisturbed(r)'
    BY <1>1, <1>2, <2>1 DEF Undisturbed
  <2>. QED  BY <2>1, <2>2
<1>. QED  BY <1>3, <1>4 DEF QuietInv

(* An operation that is over.                                                 *)
LEMMA EndQuiet ==
    ASSUME IInv, QuietInv, NEW r \in Resources, ~Idle(r), NEW result \in Outcomes, NEW state,
           End(r, result, state), decl' = decl,
           decl[r].priv # RoleName => state \in {None, decl[r].option},
           ~quiet' \/ (quiet /\ \E q \in Resources : pc'[q] # "idle")
    PROVE  QuietInv'
<1>1. /\ pc' = [pc EXCEPT ![r] = "idle"] /\ op' = [op EXCEPT ![r] = "none"]
      /\ outcome' = [outcome EXCEPT ![r] = result] /\ tf' = [tf EXCEPT ![r] = state]
  BY DEF End, Goto
<1>2. /\ op \in [Resources -> Ops] /\ pc \in [Resources -> Calls] /\ Underway /\ AsDeclared
      /\ tf \in [Resources -> BOOLEAN \cup {None}]
  BY DEF IInv, Shapes, QuietInv
<1>3. Underway' /\ AsDeclared'
  BY <1>1, <1>2 DEF Underway, AsDeclared, Outcomes, Idle
<1>4. ~quiet'
  BY <1>1, <1>2 DEF QuietInv, Undisturbed, Idle
<1>. QED  BY <1>3, <1>4 DEF QuietInv

(* The next call of an operation.                                             *)
LEMMA GotoQuiet ==
    ASSUME IInv, QuietInv, NEW r \in Resources, ~Idle(r), NEW at \in Calls \ {"idle"}, Goto(r, at),
           outcome' = outcome, decl' = decl, quiet' => quiet,
           op' = [op EXCEPT ![r] = "create"], at \in {"check", "grant", "covered", "retry", "match"},
           tf' = tf \/ tf' = [tf EXCEPT ![r] = None],
           quiet => Undisturbed(r)'
    PROVE  QuietInv'
<1>1. pc' = [pc EXCEPT ![r] = at]
  BY DEF Goto
<1>2. /\ op \in [Resources -> Ops] /\ pc \in [Resources -> Calls] /\ Underway /\ AsDeclared
      /\ tf \in [Resources -> BOOLEAN \cup {None}]
  BY DEF IInv, Shapes, QuietInv
<1>3. Underway'
  BY <1>1, <1>2 DEF Underway, Idle
<1>4. AsDeclared'
  BY <1>2 DEF AsDeclared
<1>5. ASSUME quiet' PROVE \A q \in Resources : Idle(q)' \/ Undisturbed(q)'
  BY <1>5 DEF Undisturbed
<1>. QED  BY <1>3, <1>4, <1>5 DEF QuietInv

(* What statements leave of the rights on everything, on a database.          *)
LEMMA StatementsLeave ==
    ASSUME NEW s \in Grantee, NEW g \in Grant
    PROVE  /\ Granting(s, g) \in Grantee /\ Revoking(s, g) \in Grantee
           /\ Granting(s, g).role = s.role /\ Granting(s, g).user = s.user
           /\ Revoking(s, g).role = s.role /\ Revoking(s, g).user = s.user
           /\ g.scope # All => Granting(s, g).on[All] = s.on[All] /\ Revoking(s, g).on[All] = s.on[All]
           /\ s.on[g.scope] \subseteq Granting(s, g).on[g.scope]
<1>1. All \in Scopes /\ g.scope \in Scopes
  BY DEF Scopes, Grant
<1>2. /\ Granting(s, g).on[All] = IF g.scope \in {All, All} THEN s.on[All] \cup Given(g) ELSE s.on[All]
      /\ Granting(s, g).on[g.scope] = IF g.scope \in {All, g.scope}
                                      THEN s.on[g.scope] \cup Given(g) ELSE s.on[g.scope]
      /\ Granting(s, g) \in Grantee /\ Granting(s, g).role = s.role /\ Granting(s, g).user = s.user
  BY <1>1, GrantingType, Zenon
<1>3. /\ Revoking(s, g).on[All] = IF g.scope \in {All, All}
                                  THEN s.on[All] \ (Members(g.priv) \X BOOLEAN) ELSE s.on[All]
      /\ Revoking(s, g) \in Grantee /\ Revoking(s, g).role = s.role /\ Revoking(s, g).user = s.user
  BY <1>1, RevokingType, Zenon
<1>. QED  BY <1>2, <1>3

LEMMA ProviderQuiet ==
    ASSUME IInv, QuietInv, NEW r \in Resources, Provider(r)
    PROVE  QuietInv'
<1>1. /\ decl[r] \in Grant /\ server \in Grantee /\ view \in Grantee
      /\ op \in [Resources -> Ops] /\ pc \in [Resources -> Calls]
      /\ tf \in [Resources -> BOOLEAN \cup {None}]
  BY Declared DEF IInv, Shapes
<1>2. /\ ~Idle(r) /\ decl' = decl /\ view' = view
      /\ ~quiet' \/ (quiet /\ \E q \in Resources : pc'[q] # "idle")
  BY DEF Provider, Check, GrantStatement, Match, Covered, Retry, RevokeStatement, Step, data, Idle
<1>3. decl[r].priv # RoleName => tf[r] \in {None, decl[r].option}
  BY DEF QuietInv, AsDeclared
<1>4. decl[r].priv # RoleName => ReadOption(r) \in {None, decl[r].option}
  BY DEF ReadOption
<1>5. quiet => Undisturbed(r)
  BY <1>2 DEF QuietInv
<1>6. ASSUME NEW at, Goto(r, at)
      PROVE  pc'[r] = at /\ \A q \in Resources \ {r} : Idle(q) => Idle(q)'
  BY <1>1, <1>6 DEF Goto, Idle
<1>7. CASE Check(r)
  <2>1. CASE Goto(r, "grant") /\ UNCHANGED <<op, outcome, tf>>
    <3>1. view.role /\ ~view.user /\ server' = server /\ op[r] = "create"
      <4>1. pc[r] = "check" /\ server' = server /\ pc'[r] = "grant"
        BY <1>6, <1>7, <2>1 DEF Check
      <4>2. view.role /\ ~view.user
        BY <1>1, <1>7, <4>1 DEF Check, Goto, End
      <4>. QED  BY <4>1, <4>2 DEF QuietInv, Underway
    <3>2. ASSUME quiet PROVE Undisturbed(r)'
      <4>1. Undisturbed(r)
        BY <1>5, <3>2
      <4>2. pc'[r] = "grant" /\ \A q \in Resources : Idle(q)' \/ q = r
        BY <1>6, <2>1, <4>1 DEF Undisturbed
      <4>3. server' = server /\ view' = view /\ decl' = decl /\ op' = op
        BY <1>2, <2>1, <3>1
      <4>. QED  BY <3>1, <4>1, <4>2, <4>3 DEF Undisturbed
    <3>3. op' = [op EXCEPT ![r] = "create"]
      BY <1>1, <2>1, <3>1
    <3>. QED  BY <1>2, <2>1, <3>2, <3>3, GotoQuiet DEF Calls
  <2>2. CASE End(r, "failed", tf[r])
    BY <1>2, <1>3, <2>2, EndQuiet DEF Outcomes
  <2>. QED  BY <1>7, <2>1, <2>2 DEF Check
<1>8. CASE GrantStatement(r)
  <2>1. CASE server' \in Granted(server, decl[r]) /\ Goto(r, "match") /\ UNCHANGED <<op, outcome, tf>>
    <3>1. op[r] = "create" /\ pc[r] = "grant"
      BY <1>8 DEF GrantStatement, QuietInv, Underway
    <3>2. ASSUME quiet PROVE Undisturbed(r)'
      <4>1. server.role /\ ~server.user
        BY <1>5, <3>1, <3>2 DEF Undisturbed
      <4>2. server' = Granting(server, decl[r])
        BY <2>1, <4>1, Zenon DEF Granted, Addressed
      <4>3. HeldBy(server, decl[r])'
        BY <1>1, <1>2, <4>2, HeldGranting DEF HeldBy
      <4>4. Undisturbed(r)
        BY <1>5, <3>2
      <4>5. pc'[r] = "match" /\ \A q \in Resources : Idle(q)' \/ q = r
        BY <1>6, <2>1, <4>4 DEF Undisturbed
      <4>6. /\ server'.role = server.role /\ server'.user = server.user
            /\ decl[r].scope # All => server'.on[All] = server.on[All]
            /\ server.on[decl[r].scope] \subseteq server'.on[decl[r].scope]
        BY <1>1, <4>2, StatementsLeave
      <4>7. view' = view /\ decl' = decl /\ op' = op
        BY <1>2, <2>1
      <4>. QED  BY <3>1, <4>3, <4>4, <4>5, <4>6, <4>7 DEF Undisturbed
    <3>3. op' = [op EXCEPT ![r] = "create"]
      BY <1>1, <2>1, <3>1
    <3>. QED  BY <1>2, <2>1, <3>1, <3>2, <3>3, GotoQuiet DEF Calls
  <2>2. CASE End(r, "failed", tf[r])
    BY <1>2, <1>3, <2>2, EndQuiet DEF Outcomes
  <2>. QED  BY <1>8, <2>1, <2>2 DEF GrantStatement
<1>9. ASSUME NEW at \in {"covered", "retry"}, Goto(r, at), UNCHANGED <<op, outcome, tf>>,
             server' = server, op[r] = "create", pc[r] \in {"match", "covered"},
             decl[r].priv \notin Groups \cup {RoleName} => at = "covered" \/ ~IsGrantCovered(view, decl[r])
      PROVE  QuietInv'
  <2>1. quiet => Undisturbed(r)'
    <3>1. at = "retry" /\ decl[r].scope # All /\ decl[r].priv \notin Groups
             => ~(Given(decl[r]) \subseteq view.on[All])
      BY <1>1, <1>9, CoveredByAll, GrantsAssumption DEF IInv, Shapes
    <3>. QED  BY <1>2, <1>5, <1>6, <1>9, <3>1 DEF Undisturbed, HeldBy
  <2>2. op' = [op EXCEPT ![r] = "create"]
    BY <1>1, <1>9
  <2>. QED  BY <1>2, <1>9, <2>1, <2>2, GotoQuiet DEF Calls
<1>10. CASE Match(r)
  <2>1. op[r] \in {"create", "refresh"} /\ pc[r] = "match" /\ server' = server
    BY <1>10 DEF Match, QuietInv, Underway
  <2>2. ASSUME NEW result, NEW state, End(r, result, state), result \in {"done", "created", "failed"},
               state \in {None, tf[r], ReadOption(r)} \/ decl[r].priv = RoleName
        PROVE  QuietInv'
    BY <1>2, <1>3, <1>4, <2>2, EndQuiet DEF Outcomes
  <2>3. CASE Found(view, decl[r]) /\ op[r] = "refresh"
    BY <1>10, <2>2, <2>3 DEF Match
  <2>4. CASE Found(view, decl[r]) /\ op[r] # "refresh"
    BY <1>10, <2>2, <2>4 DEF Match
  <2>5. CASE ~Found(view, decl[r]) /\ op[r] = "refresh"
    BY <1>10, <2>2, <2>5 DEF Match, ReadMissing
  <2>6. CASE ~Found(view, decl[r]) /\ op[r] # "refresh"
    BY <1>9, <1>10, <2>1, <2>6 DEF Match
  <2>. QED  BY <2>3, <2>4, <2>5, <2>6
<1>11. CASE Covered(r)
  <2>1. pc[r] = "covered" /\ op[r] = "create" /\ server' = server
    BY <1>11 DEF Covered, QuietInv, Underway
  <2>2. CASE IsGrantCovered(view, decl[r])
    BY <1>2, <1>3, <1>11, <2>2, EndQuiet DEF Covered, Outcomes
  <2>3. CASE ~IsGrantCovered(view, decl[r])
    BY <1>9, <1>11, <2>1, <2>3 DEF Covered
  <2>. QED  BY <2>2, <2>3
<1>12. CASE Retry(r)
  BY <1>2, <1>3, <1>4, <1>12, EndQuiet DEF Retry, Outcomes
<1>13. CASE RevokeStatement(r)
  <2>1. CASE op[r] = "replace" /\ server' \in Revoked(server, decl[r])
    <3>1. /\ Goto(r, "check") /\ op' = [op EXCEPT ![r] = "create"] /\ pc[r] = "revoke"
          /\ tf' = [tf EXCEPT ![r] = None] /\ outcome' = outcome
      BY <1>13, <2>1 DEF RevokeStatement, End
    <3>2. decl[r].scope = All
      BY <2>1, GrantsAssumption DEF QuietInv, AsDeclared, IInv, Shapes
    <3>3. ASSUME quiet PROVE Undisturbed(r)'
      <4>1. server' = server \/ server' = Revoking(server, decl[r])
        BY <2>1, Zenon DEF Revoked, Addressed
      <4>2. server'.role = server.role /\ server'.user = server.user
        BY <1>1, <4>1, StatementsLeave
      <4>. QED  BY <1>2, <1>5, <1>6, <3>1, <3>2, <3>3, <4>2 DEF Undisturbed
    <3>. QED  BY <1>2, <3>1, <3>3, GotoQuiet DEF Calls
  <2>2. CASE op[r] # "replace" /\ End(r, "done", None)
    BY <1>2, <2>2, EndQuiet DEF Outcomes
  <2>3. CASE End(r, "failed", tf[r])
    BY <1>2, <1>3, <2>3, EndQuiet DEF Outcomes
  <2>. QED  BY <1>13, <2>1, <2>2, <2>3 DEF RevokeStatement
<1>. QED  BY <1>7, <1>8, <1>10, <1>11, <1>12, <1>13 DEF Provider

LEMMA QuietStep == IInv /\ QuietInv /\ [Next]_vars => QuietInv'
<1> SUFFICES ASSUME IInv, QuietInv, [Next]_vars PROVE QuietInv'
  OBVIOUS
<1>1. ASSUME NEW r \in Resources, Refresh(r) PROVE QuietInv'
  BY <1>1, BeginQuiet DEF Refresh, Ops, Calls
<1>2. ASSUME NEW r \in Resources, Create(r) PROVE QuietInv'
  BY <1>2, BeginQuiet DEF Create, Ops, Calls
<1>3. ASSUME NEW r \in Resources, Destroy(r) PROVE QuietInv'
  BY <1>3, BeginQuiet DEF Destroy, Ops, Calls
<1>4. ASSUME NEW r \in Resources, Replace(r) PROVE QuietInv'
  <2>1. decl[r].priv = RoleName
    BY <1>4 DEF Replace, QuietInv, AsDeclared
  <2>. QED  BY <1>4, <2>1, BeginQuiet DEF Replace, Ops, Calls
<1>5. ASSUME NEW r \in Resources, CallFails(r) PROVE QuietInv'
  <2>1. decl[r].priv # RoleName => tf[r] \in {None, decl[r].option}
    BY DEF QuietInv, AsDeclared
  <2>. QED  BY <1>5, <2>1, EndQuiet DEF CallFails, data, Outcomes
<1>6. CASE CatchUp
  <2>1. /\ view' = server /\ server' = server /\ decl' = decl /\ tf' = tf
        /\ op' = op /\ pc' = pc /\ outcome' = outcome /\ quiet' = quiet
    BY <1>6 DEF CatchUp, data, control
  <2>2. \A r \in Resources : Undisturbed(r) => Undisturbed(r)'
    BY <2>1 DEF Undisturbed, Idle, HeldBy
  <2>. QED  BY <2>1, <2>2 DEF QuietInv, Underway, AsDeclared, Idle
<1>7. CASE OtherClient
  BY <1>7 DEF OtherClient, data, control, QuietInv, Underway, AsDeclared, Idle
<1>8. CASE Configure \/ UNCHANGED vars
  <2>1. /\ view' = view /\ server' = server /\ decl' = decl /\ tf' = tf
        /\ op' = op /\ pc' = pc /\ outcome' = outcome /\ quiet' = quiet
    BY <1>8 DEF Configure, vars, data, control
  <2>2. \A r \in Resources : Undisturbed(r) => Undisturbed(r)'
    BY <2>1 DEF Undisturbed, Idle, HeldBy
  <2>. QED  BY <2>1, <2>2 DEF QuietInv, Underway, AsDeclared, Idle
<1>. QED  BY <1>1, <1>2, <1>3, <1>4, <1>5, <1>6, <1>7, <1>8, ProviderQuiet DEF Next, Change

LEMMA QuietInvariance == Spec => []QuietInv
BY QuietInitially, QuietStep, Invariance, PTL DEF Spec

(* The rights of the grantee stay sound, a resource is in the state exactly   *)
(* where its operation takes it to be, and the state of a privilege grant has *)
(* the option that was asked for, whatever rows of it were found.             *)
THEOREM TypeCorrect == Spec => []TypeOK
<1>1. IInv /\ QuietInv => TypeOK
  <2> SUFFICES ASSUME IInv, QuietInv PROVE TypeOK
    OBVIOUS
  <2>1. \A d \in Scopes : \A right \in server.on[d] : <<right[1], FALSE>> \in server.on[d]
    <3> SUFFICES ASSUME NEW d \in Scopes, NEW right \in server.on[d]
                 PROVE  <<right[1], FALSE>> \in server.on[d]
      OBVIOUS
    <3>1. right \in Rights
      BY DEF IInv, Shapes, Grantee
    <3>2. PICK p \in Single \cup {RoleName}, o \in BOOLEAN : right = <<p, o>>
      BY <3>1 DEF Rights
    <3>. QED  BY <3>2 DEF IInv, Shapes, Sound
  <2>. QED  BY <2>1 DEF TypeOK, IInv, Shapes, Recording, Grantee, QuietInv, AsDeclared
<1>. QED  BY <1>1, Invariance, QuietInvariance, PTL

(* The end of an operation is that of the resource that takes the step.       *)
LEMMA OwnOutcome ==
    ASSUME IInv, QuietInv, quiet, [Next]_vars, NEW r \in Resources, pc[r] # "idle",
           outcome'[r] \in {"created", "timeout"}
    PROVE  Match(r) \/ Retry(r)
<1>1. outcome[r] = "none" /\ outcome \in [Resources -> Outcomes] /\ pc \in [Resources -> Calls]
  BY DEF QuietInv, Underway, Idle, IInv, Shapes
<1>2. \A q \in Resources : pc[q] = "idle" \/ q = r
  BY DEF QuietInv, Undisturbed, Idle
<1>3. ASSUME NEW q \in Resources, Refresh(q) \/ Change(q) PROVE FALSE
  BY <1>1, <1>3 DEF Refresh, Change, Create, Destroy, Replace, Begin
<1>4. ASSUME NEW q \in Resources, Provider(q) PROVE Match(r) \/ Retry(r)
  <2>1. q = r
    BY <1>2, <1>4 DEF Provider, Check, GrantStatement, Match, Covered, Retry, RevokeStatement
  <2>. QED  BY <1>1, <1>4, <2>1 DEF Provider, Check, GrantStatement, Covered, RevokeStatement, End
<1>5. ASSUME NEW q \in Resources, CallFails(q) PROVE FALSE
  BY <1>1, <1>5 DEF CallFails, End
<1>6. CASE Configure \/ CatchUp \/ OtherClient \/ UNCHANGED vars
  BY <1>1, <1>6 DEF Configure, CatchUp, OtherClient, vars, control
<1>. QED  BY <1>3, <1>4, <1>5, <1>6 DEF Next

(* Whatever else the grantee holds, and whatever replica answers: the create  *)
(* of a grant on a database ends as created only if a right of it is the      *)
(* database's own, so that destroying it takes no hole out of the broad one   *)
(* for nothing.                                                               *)
THEOREM OwnRecorded == Spec => CoveredNotRecorded
<1>1. IInv /\ QuietInv /\ [Next]_vars => [\A r \in Resources :
          pc[r] # "idle" /\ outcome'[r] = "created" /\ quiet /\ decl[r].scope # All
          => Own(server, decl[r].scope) \cap (Members(decl[r].priv) \X BOOLEAN) # {}]_vars
  <2> SUFFICES ASSUME IInv, QuietInv, [Next]_vars, NEW r \in Resources,
                      pc[r] # "idle", outcome'[r] = "created", quiet, decl[r].scope # All
               PROVE  Own(server, decl[r].scope) \cap (Members(decl[r].priv) \X BOOLEAN) # {}
    OBVIOUS
  <2>1. Match(r) \/ Retry(r)
    BY OwnOutcome
  <2>2. decl[r] \in Grant /\ outcome \in [Resources -> Outcomes]
    BY Declared DEF IInv, QuietInv, Underway
  <2>3. Found(view, decl[r]) /\ op[r] = "create"
    BY <2>1, <2>2 DEF Match, Retry, End, ReadMissing, QuietInv, Underway, Idle
  <2>4. Undisturbed(r) /\ pc[r] \in {"match", "retry"}
    BY <2>1 DEF Match, Retry, QuietInv, Idle
  <2>5. PICK p \in Members(decl[r].priv), o \in BOOLEAN : <<p, o>> \in Own(view, decl[r].scope)
    BY <2>2, <2>3, FoundOwn
  <2>6. <<p, o>> \in Own(server, decl[r].scope)
    BY <2>3, <2>4, <2>5 DEF Own, Undisturbed
  <2>. QED  BY <2>5, <2>6
<1>. QED  BY <1>1, Invariance, QuietInvariance, PTL DEF Spec, CoveredNotRecorded

(* A create that nobody disturbs and that waits for the row of a privilege or *)
(* of a role waits for one that will be shown, unless a group's row stands    *)
(* for it: with the rows of the present the wait is over.                     *)
THEOREM CoveredIsTold == Spec => CoveredTold
<1>1. IInv /\ QuietInv /\ [Next]_vars => [\A r \in Resources :
          pc[r] = "retry" /\ quiet /\ view = server /\ decl[r].priv \notin Groups
          /\ ~ShownInGroup(view, decl[r])
          => outcome'[r] # "timeout"]_vars
  <2> SUFFICES ASSUME IInv, QuietInv, [Next]_vars, NEW r \in Resources,
                      pc[r] = "retry", quiet, view = server, decl[r].priv \notin Groups,
                      ~ShownInGroup(view, decl[r]), outcome'[r] = "timeout"
               PROVE  FALSE
    OBVIOUS
  <2>1. Retry(r)
    BY OwnOutcome DEF Match
  <2>2. decl[r] \in Grant /\ outcome \in [Resources -> Outcomes]
    BY Declared DEF IInv, QuietInv, Underway
  <2>3. ~Found(view, decl[r]) /\ op[r] = "create" /\ Undisturbed(r)
    BY <2>1, <2>2 DEF Retry, End, QuietInv, Underway, Idle
  <2>4. \A o \in BOOLEAN : <<decl[r].priv, o>> \notin Own(server, decl[r].scope)
    BY <2>2, <2>3, OwnFound
  <2>5. Members(decl[r].priv) = {decl[r].priv} /\ decl[r].scope \in Scopes
    BY <2>2, MembersAre DEF Grant, Privileges
  <2>6. Given(decl[r]) \subseteq server.on[decl[r].scope]
    BY <2>3, <2>5 DEF Undisturbed, HeldBy
  <2>7. CASE decl[r].scope = All
    <3>1. <<decl[r].priv, FALSE>> \in Given(decl[r])
      BY <2>5 DEF Given
    <3>. QED  BY <2>4, <2>6, <2>7, <3>1 DEF Own
  <2>8. CASE decl[r].scope # All
    <3>1. Given(decl[r]) \subseteq {decl[r].priv} \X BOOLEAN
      BY <2>5 DEF Given
    <3>2. Given(decl[r]) \subseteq server.on[All]
      <4> SUFFICES ASSUME NEW right \in Given(decl[r]) PROVE right \in server.on[All]
        OBVIOUS
      <4>1. PICK o \in BOOLEAN : right = <<decl[r].priv, o>>
        BY <3>1
      <4>. QED  BY <2>4, <2>6, <2>8, <4>1 DEF Own
    <3>. QED  BY <2>3, <2>8, <3>2 DEF Undisturbed
  <2>. QED  BY <2>7, <2>8
<1>. QED  BY <1>1, Invariance, QuietInvariance, PTL DEF Spec, CoveredTold
=============================================================================

-------------------------------- MODULE Grants --------------------------------
(***************************************************************************)
(* Resources that grant privileges or a role to one grantee role:          *)
(* pkg/resource/grantprivilege and grantrole over internal/dbops and       *)
(* internal/grants.  Terraform creates and destroys several at a time, and *)
(* each sends a GRANT or REVOKE and looks for rows of system.grants or     *)
(* system.role_grants, from a replica that may not have caught up.         *)
(*                                                                         *)
(* A scope is everything, or a database; tables, columns and access        *)
(* objects narrow a grant in the same way.  A grant to a user has the same *)
(* steps except that no other entity can take its name.                    *)
(***************************************************************************)
EXTENDS Naturals, FiniteSets

CONSTANTS Resources,
          Single,       \* privileges without members
          Groups,       \* privileges that stand for members of theirs
          Sources,      \* of them, the sources, split into READ and WRITE
          Members(_),   \* the single privileges that one stands for
          RoleName,     \* the role that grant_role grants, as a privilege
          Databases,
          Prefixes,     \* <<b, d>>: the name of b is a prefix of that of d
          All,          \* the scope *.*
          None,         \* no state
          Declarations, \* what the resources may declare
          MaxEvents     \* resources added and removed, statements of other
                        \* clients and failing calls, taken together

Privileges == Single \cup Groups \cup {RoleName}
Scopes     == Databases \cup {All}
Rights     == (Single \cup {RoleName}) \X BOOLEAN   \* <<p, TRUE>>: to grant p on
Grant      == [priv : Privileges, scope : Scopes, option : BOOLEAN]

ASSUME GrantsAssumption ==
    /\ All \notin Databases /\ RoleName \notin Single \cup Groups
    /\ Sources \subseteq Groups /\ Single \cap Groups = {}
    /\ \A p \in Single \cup {RoleName} : Members(p) = {p}
    /\ \A p \in Groups : Members(p) \subseteq Single /\ Members(p) # {}
    /\ Declarations \subseteq [Resources -> Grant]
    /\ \A d \in Declarations : \A r \in Resources : d[r].priv = RoleName => d[r].scope = All
    /\ MaxEvents \in Nat

VARIABLES grouped,   \* system.grants shows a group as one row
          decl,      \* what each resource declares
          wanted,    \* the resources in the configuration
          server,    \* the grantee and its rights
          view,      \* the copy that SELECTs are answered from
          tf,        \* per resource: the option in the state, or None
          op, pc,    \* per resource: its operation, and the next call
          outcome,   \* per resource: how its last operation ended
          quiet,     \* history: the operation began on a current view, and nobody
                     \* else has acted since
          events, calm         \* how many, and whether none was another's or a fault

data    == <<grouped, decl>>
control == <<op, pc, outcome>>
budget  == <<events, calm>>
vars    == <<data, wanted, server, view, tf, control, quiet, budget>>

-----------------------------------------------------------------------------
(* Rights on the server: of everything, and of each database.                 *)

Given(g) == Members(g.priv) \X (IF g.option THEN BOOLEAN ELSE {FALSE})

(* GRANT reaches what lies within the scope.                                  *)
Granting(s, g) ==
    [s EXCEPT !.on = [d \in Scopes |-> IF g.scope \in {All, d} THEN @[d] \cup Given(g) ELSE @[d]]]

(* Bug: the statement leaves out the database.                                *)
RevokingEverywhere(s, g) ==
    [s EXCEPT !.on = [d \in Scopes |-> @[d] \ (Members(g.priv) \X BOOLEAN)]]

(* REVOKE takes the option with the right.  On a database it leaves a partial *)
(* revoke of what is granted on everything.                                   *)
Revoking(s, g) ==
    [s EXCEPT !.on = [d \in Scopes |-> IF g.scope \in {All, d}
                                       THEN @[d] \ (Members(g.priv) \X BOOLEAN) ELSE @[d]]]

(* A statement on the grantee's name is for the user of that name, if any.    *)
Addressed(s, after) ==
    CASE s.user -> {s}
      [] ~s.user /\ s.role -> {after}
      [] OTHER -> {}

Granted(s, g) == Addressed(s, Granting(s, g))
Revoked(s, g) == Addressed(s, Revoking(s, g))

-----------------------------------------------------------------------------
(* Rows of system.grants, without the partial revokes.                        *)

(* On a database, what everything does not have already.                      *)
Own(s, scope) == IF scope = All THEN s.on[All] ELSE s.on[scope] \ s.on[All]

(* What is granted with the option, or without it, in rows of its own.        *)
OwnWith(s, scope, option) ==
    {p \in Single \cup {RoleName} :
        /\ <<p, option>> \in Own(s, scope)
        /\ ~option => <<p, TRUE>> \notin Own(s, scope)}

RowPrivileges(own) ==
    LET full == {p \in Groups \ Sources : grouped /\ Members(p) \subseteq own}
    IN  full \cup (own \ UNION {Members(p) : p \in full})

Rows(s) ==
    UNION {{[priv |-> p, scope |-> d, option |-> o] : p \in RowPrivileges(OwnWith(s, d, o))} :
              d \in Scopes, o \in BOOLEAN}

-----------------------------------------------------------------------------
(* internal/grants and the matchers.                                          *)

Descendants(p) == {p} \cup Members(p)

(* Bug: a row of a broader scope will do.                                     *)
MatchedWithin(row, g) == row.priv \in Descendants(g.priv) /\ row.scope \in {g.scope, All}

(* ClassicGrantMatcher: of a group, any member.  grant_option is not asked.   *)
Matched(row, g) == row.priv \in Descendants(g.priv) /\ row.scope = g.scope

(* SourcesReadWriteGrantMatcher wants a row of each.                          *)
Found(s, g) ==
    IF g.priv \in Sources
    THEN \A m \in Members(g.priv) : \E row \in Rows(s) : row.priv = m /\ row.scope = g.scope
    ELSE \E row \in Rows(s) : Matched(row, g)

(* GetGrantRole returns the admin option of its row.                          *)
AdminOption(s) == <<RoleName, TRUE>> \in s.on[All]

(* Every stored name may be that of a prefix grant.                           *)
ObjectCovers(broader, narrower) ==
    broader \in {All, narrower} \/ <<broader, narrower>> \in Prefixes

(* Bug: broader and narrower are mixed up.                                    *)
CoversSwapped(broader, narrower) ==
    /\ broader.priv \in Descendants(narrower.priv)
    /\ narrower.option => broader.option
    /\ ObjectCovers(narrower.scope, broader.scope)

Covers(broader, narrower) ==
    /\ narrower.priv \in Descendants(broader.priv)
    /\ narrower.option => broader.option
    /\ ObjectCovers(broader.scope, narrower.scope)

IsGrantCovered(s, g) == \E row \in Rows(s) : Covers(row, g)

-----------------------------------------------------------------------------
(* Operations.  Terraform refreshes before it applies, never meanwhile; two   *)
(* refreshes do not disturb each other, so they are taken one at a time.      *)

Idle(r) == pc[r] = "idle"

Goto(r, at) == pc' = [pc EXCEPT ![r] = at]

Begin(r, o, at) ==
    /\ Idle(r) /\ Goto(r, at)
    /\ \A q \in Resources : Idle(q) \/ "refresh" \notin {o, op[q]}
    /\ op' = [op EXCEPT ![r] = o]
    /\ outcome' = [outcome EXCEPT ![r] = "none"]
    /\ quiet' = (view = server /\ \A q \in Resources : Idle(q))
    /\ UNCHANGED <<data, wanted, server, view, tf, budget>>

End(r, result, state) ==
    /\ Goto(r, "idle")
    /\ op' = [op EXCEPT ![r] = "none"]
    /\ outcome' = [outcome EXCEPT ![r] = result]
    /\ tf' = [tf EXCEPT ![r] = state]

Refresh(r) == tf[r] # None /\ Begin(r, "refresh", "match")

Create(r) == r \in wanted /\ tf[r] = None /\ Begin(r, "create", "check")

Destroy(r) == r \notin wanted /\ tf[r] # None /\ Begin(r, "destroy", "revoke")

(* Only the option of a role grant is read back, and may come back different. *)
Replace(r) ==
    r \in wanted /\ tf[r] \notin {None, decl[r].option} /\ Begin(r, "replace", "revoke")

Configure ==
    /\ events < MaxEvents /\ \A r \in Resources : Idle(r)
    /\ \E r \in Resources : wanted' = IF r \in wanted THEN wanted \ {r} ELSE wanted \cup {r}
    /\ events' = events + 1
    /\ UNCHANGED <<data, server, view, tf, control, quiet, calm>>

-----------------------------------------------------------------------------
(* The calls.                                                                 *)

Step ==
    /\ quiet' = (quiet /\ \E r \in Resources : pc'[r] # "idle")
    /\ UNCHANGED <<data, wanted, view, budget>>

(* FindRoleByName and FindUserByName.                                         *)
Check(r) ==
    /\ pc[r] = "check"
    /\ IF view.role /\ ~view.user
       THEN Goto(r, "grant") /\ UNCHANGED <<op, outcome, tf>>
       ELSE End(r, "failed", tf[r])
    /\ UNCHANGED server /\ Step

GrantStatement(r) ==
    /\ pc[r] = "grant"
    /\ \/ server' \in Granted(server, decl[r]) /\ Goto(r, "match") /\ UNCHANGED <<op, outcome, tf>>
       \/ Granted(server, decl[r]) = {} /\ End(r, "failed", tf[r]) /\ UNCHANGED server
    /\ Step

(* Bug: the grant is built from the row that was found, its option included.  *)
ReadOptionOfRow(r) == \E row \in Rows(view) : Matched(row, decl[r]) /\ row.option

(* What the state says of a grant that was found: of a privilege, what was    *)
(* asked for.  A role grant whose option is not the planned one is an error,  *)
(* with the state kept.                                                       *)
ReadOption(r) == IF decl[r].priv = RoleName THEN AdminOption(view) ELSE decl[r].option

(* Bug: a grant that is gone stays in the state.                              *)
ReadKeeps(r) == End(r, "done", tf[r])

(* A grant that is gone leaves the state.                                     *)
ReadMissing(r) == End(r, "done", None)

(* GetGrantPrivilege and GetGrantRole.                                        *)
Match(r) ==
    /\ pc[r] = "match"
    /\ \/ /\ Found(view, decl[r]) /\ op[r] = "refresh"
          /\ End(r, "done", IF decl[r].priv = RoleName THEN AdminOption(view) ELSE tf[r])
       \/ /\ Found(view, decl[r]) /\ op[r] # "refresh"
          /\ End(r, IF ReadOption(r) = decl[r].option THEN "created" ELSE "failed", ReadOption(r))
       \/ ~Found(view, decl[r]) /\ op[r] = "refresh" /\ ReadMissing(r)
       \/ /\ ~Found(view, decl[r]) /\ op[r] # "refresh"
          /\ Goto(r, IF decl[r].priv = RoleName THEN "retry" ELSE "covered")
          /\ UNCHANGED <<op, outcome, tf>>
    /\ UNCHANGED server /\ Step

(* Once more after the first miss; a covered grant is an error.  A second     *)
(* SELECT of the rows only explains it.                                       *)
Covered(r) ==
    /\ pc[r] = "covered"
    /\ IF IsGrantCovered(view, decl[r])
       THEN End(r, "overlap", tf[r])
       ELSE Goto(r, "retry") /\ UNCHANGED <<op, outcome, tf>>
    /\ UNCHANGED server /\ Step

(* retryWithBackoff, until the row is there or the deadline passes.           *)
Retry(r) ==
    /\ pc[r] = "retry"
    /\ IF Found(view, decl[r])
       THEN End(r, IF ReadOption(r) = decl[r].option THEN "created" ELSE "failed", ReadOption(r))
       ELSE End(r, "timeout", tf[r])
    /\ UNCHANGED server /\ Step

(* Delete: nothing is looked up first.                                        *)
RevokeStatement(r) ==
    /\ pc[r] = "revoke"
    /\ \/ /\ server' \in Revoked(server, decl[r])
          /\ IF op[r] = "replace"
             THEN /\ Goto(r, "check") /\ op' = [op EXCEPT ![r] = "create"]
                  /\ tf' = [tf EXCEPT ![r] = None] /\ UNCHANGED outcome
             ELSE End(r, "done", None)
       \/ Revoked(server, decl[r]) = {} /\ End(r, "failed", tf[r]) /\ UNCHANGED server
    /\ Step

-----------------------------------------------------------------------------
(* Faults and the environment.                                                *)

CallFails(r) ==
    /\ ~Idle(r) /\ events < MaxEvents
    /\ \/ UNCHANGED server
       \/ pc[r] = "grant" /\ server' \in Granted(server, decl[r])
       \/ pc[r] = "revoke" /\ server' \in Revoked(server, decl[r])
    /\ End(r, "failed", tf[r])
    /\ quiet' = FALSE
    /\ events' = events + 1 /\ calm' = FALSE
    /\ UNCHANGED <<data, wanted, view>>

CatchUp ==
    /\ view # server
    /\ view' = server
    /\ UNCHANGED <<data, wanted, server, tf, control, quiet, budget>>

NoRights == [d \in Scopes |-> {}]

(* Another client grants or revokes, or drops or creates the role or a user   *)
(* of its name.                                                               *)
OtherClient ==
    /\ events < MaxEvents
    /\ \/ \E r \in Resources, d \in Scopes, p \in Privileges :
             LET g == [priv |-> p, scope |-> d, option |-> FALSE]
             IN  /\ p \in Descendants(decl[r].priv) /\ (p = RoleName => d = All)
                 /\ server' \in Granted(server, g) \cup Revoked(server, g)
       \/ server' = [server EXCEPT !.user = ~@]
       \/ server' = [server EXCEPT !.role = ~@, !.on = NoRights]
    /\ server' # server
    /\ quiet' = FALSE
    /\ events' = events + 1 /\ calm' = FALSE
    /\ UNCHANGED <<data, wanted, view, tf, control>>

-----------------------------------------------------------------------------
Init ==
    /\ grouped \in BOOLEAN
    /\ decl \in Declarations
    /\ wanted \in SUBSET Resources
    /\ server = [role |-> TRUE, user |-> FALSE, on |-> NoRights] /\ view = server
    /\ tf = [r \in Resources |-> None]
    /\ op = [r \in Resources |-> "none"] /\ pc = [r \in Resources |-> "idle"]
    /\ outcome = [r \in Resources |-> "none"]
    /\ quiet = FALSE
    /\ events = 0 /\ calm = TRUE

Provider(r) ==
    Check(r) \/ GrantStatement(r) \/ Match(r) \/ Covered(r) \/ Retry(r) \/ RevokeStatement(r)

Change(r) == Create(r) \/ Destroy(r) \/ Replace(r)

Next ==
    \/ \E r \in Resources : Refresh(r) \/ Change(r) \/ Provider(r) \/ CallFails(r)
    \/ Configure \/ CatchUp \/ OtherClient

Spec == Init /\ [][Next]_vars

(* The operator refreshes and applies again and again.                        *)
FairSpec ==
    /\ Spec /\ WF_vars(CatchUp)
    /\ \A r \in Resources :
          /\ WF_vars(Provider(r))
          /\ SF_vars(Refresh(r)) /\ SF_vars(Change(r))

-----------------------------------------------------------------------------
(* Properties.                                                                *)

(* No right is left as a mere option to grant it on, a resource is in the     *)
(* state exactly where its operation takes it to be, and only of a role grant *)
(* may the state have another option than the one declared.                   *)
TypeOK ==
    /\ server.on \in [Scopes -> SUBSET Rights] /\ view.on \in [Scopes -> SUBSET Rights]
    /\ wanted \subseteq Resources
    /\ tf \in [Resources -> BOOLEAN \cup {None}]
    /\ \A d \in Scopes : \A right \in server.on[d] : <<right[1], FALSE>> \in server.on[d]
    /\ \A r \in Resources :
          /\ Idle(r) <=> op[r] = "none"
          /\ op[r] = "create" => tf[r] = None
          /\ op[r] \in {"refresh", "destroy", "replace"} => tf[r] # None
          /\ decl[r].priv # RoleName => tf[r] \in {None, decl[r].option}

Disjoint(g, h) ==
    \/ Members(g.priv) \cap Members(h.priv) = {}
    \/ g.scope # h.scope /\ All \notin {g.scope, h.scope}

Held(g) == \A d \in Scopes : g.scope \in {All, d} => Given(g) \subseteq server.on[d]

(* Resources whose grants have nothing in common can be created, replaced and *)
(* destroyed at the same time and in any order: what the state records, the   *)
(* grantee holds (Create, Delete).                                            *)
RecordedMeansHeld ==
    /\ calm
    /\ \A r, q \in Resources : r = q \/ Disjoint(decl[r], decl[q])
    => \A r \in Resources : Idle(r) /\ tf[r] # None => Held(decl[r])

(* A create that nobody disturbs records a grant on a database only if the    *)
(* grantee holds some of it there and not on everything: destroying it would  *)
(* otherwise punch a hole (GetGrantPrivilege after GRANT).                    *)
CoveredNotRecorded ==
    [][\A r \in Resources :
          pc[r] # "idle" /\ outcome'[r] = "created" /\ quiet /\ decl[r].scope # All
          => Own(server, decl[r].scope) \cap (Members(decl[r].priv) \X BOOLEAN) # {}]_vars

ShownInGroup(s, g) ==
    \E row \in Rows(s) : g.priv \in Members(row.priv) \ {row.priv} /\ row.scope = g.scope

(* A create that nobody disturbs does not wait in vain for the row of a grant *)
(* that others cover, or that is there: except for groups, of which the rows  *)
(* may show members only, and for a privilege that completed a group whose    *)
(* row stands for it now (isGrantCovered, retryWithBackoff).                  *)
CoveredTold ==
    [][\A r \in Resources :
          pc[r] = "retry" /\ quiet /\ view = server /\ decl[r].priv \notin Groups
          /\ ~ShownInGroup(view, decl[r])
          => outcome'[r] # "timeout"]_vars

(* Whatever the others did, once they are done and the grantee exists, every  *)
(* resource of single privileges or of a role gets its grant, or is told      *)
(* again and again that another one covers it.                                *)
Settled(r) ==
    IF r \in wanted
    THEN tf[r] = decl[r].option /\ <<decl[r].priv, FALSE>> \in server.on[decl[r].scope]
    ELSE tf[r] = None

EventuallySettled ==
    <>[](server.role /\ ~server.user) =>
        \A r \in Resources :
            decl[r].priv \notin Groups => <>[]Settled(r) \/ []<>(outcome[r] = "overlap")
=============================================================================

---------------------------- MODULE ReviewedView ----------------------------
(***************************************************************************)
(* A view as module SQLPlan sees it: view.ModifyPlan and the closures of   *)
(* view.convergeView.  Every view has columns, the declared ones or those  *)
(* the server inferred from its query; the provider compares them only     *)
(* when the configuration sets them.                                       *)
(***************************************************************************)
EXTENDS Naturals, Sequences

CONSTANTS Queries, NotSet, NoView

Inferred(query) == query

Views       == [query : Queries, columns : Queries]
ViewConfigs == [query : Queries, columns : Queries \cup {NotSet}]

(* syncViewState.                                                             *)
ViewReadAs(config, view) ==
    [query   |-> view.query,
     columns |-> IF config.columns = NotSet THEN NotSet ELSE view.columns]

(* ModifyPlan keeps create_statement when neither attribute changes.          *)
ViewKept(have, want) == have.columns = want.columns /\ have.query = want.query

ViewMustReplace(have, want) == FALSE

CreateView(orReplace, config) == [kind |-> "create", orReplace |-> orReplace,
                                  query |-> config.query, columns |-> config.columns]
CreateViewStatement(config) == CreateView(FALSE, config)
DropView == [kind |-> "drop"]

ViewStatements == {CreateView(r, c) : r \in BOOLEAN, c \in ViewConfigs} \cup {DropView}

ViewAlterations(want, view) ==
    IF ViewReadAs(want, view) = want THEN <<>> ELSE <<CreateView(TRUE, want)>>

ViewAccepts(views, n, statement) ==
    IF statement.kind = "create"
    THEN views[n] = NoView \/ statement.orReplace
    ELSE views[n] # NoView

ViewAfter(views, n, statement) ==
    [views EXCEPT ![n] =
        IF statement.kind = "drop" THEN NoView
        ELSE [query   |-> statement.query,
              columns |-> IF statement.columns = NotSet
                          THEN Inferred(statement.query) ELSE statement.columns]]
=============================================================================

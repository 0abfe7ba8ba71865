----------------------------- MODULE LiversQuery -----------------------------
(* How the generated executor (graph/main.generated.go) answers a query: one   *)
(* goroutine per root field, per edge of a list and per groups field; results  *)
(* that are null although the schema says they are not make the object around  *)
(* them null; and the response is written when all of it has ended. The groups  *)
(* fields call the group loader, of which only the promise is used:            *)
(* GroupLookup, which GroupLoader implements.                                  *)
(*                                                                            *)
(* The fields that read a row without failing (names, dates, cursors, page      *)
(* infos) are not shown.                                                       *)
EXTENDS Naturals, Sequences, FiniteSets

CONSTANTS Requests,
          Roots, ReqOf,   \* the root fields, and the request that selects each
          Kind,           \* "livers", or "liver", which may be null
          PageOf,         \* the livers its resolver finds
          FieldsOf,       \* the groups fields (aliases) selected in each liver,
          Decodable,      \* and those of them whose cursor decodes
          Livers, Groups

ASSUME QueryAssumption ==
  /\ ReqOf \in [Roots -> Requests]
  /\ Kind \in [Roots -> {"livers", "liver"}]
  /\ \A r \in Roots : PageOf[r] \in Seq(Livers) /\ (Kind[r] = "liver" => Len(PageOf[r]) = 1)
  /\ IsFiniteSet(Roots) /\ \A r \in Roots : IsFiniteSet(FieldsOf[r])

VARIABLES
  members, dbUp, ctx,   \* the database and the requests' contexts,
  stage, seen,          \* and the calls of the loader: see GroupLookup
  root,       \* result of each root field
  field,      \* result of each groups field
  errors,     \* number of errors collected for each request
  response    \* the "data" of each response

lookupVars == <<members, dbUp, ctx, stage, seen>>
vars == <<members, dbUp, ctx, stage, seen, root, field, errors, response>>

\* The groups fields of a query: root field, index of the liver, alias.
CallsOf(r) == {<<r, i, f>> : i \in DOMAIN PageOf[r], f \in FieldsOf[r]}
Calls == UNION {CallsOf(r) : r \in Roots}
RootsOf(x) == {r \in Roots : ReqOf[r] = x}

KeyOf == [c \in Calls |-> PageOf[c[1]][c[2]]]
CtxOf == [c \in Calls |-> ReqOf[c[1]]]
CallsIn(x) == {c \in Calls : CtxOf[c] = x}

Loader == INSTANCE GroupLookup WITH Contexts <- Requests

Results == {"null", "object"}

Init ==
  /\ Loader!Init
  /\ root = [r \in Roots |-> "none"]
  /\ field = [c \in Calls |-> "none"]
  /\ errors = [x \in Requests |-> 0]
  /\ response = [x \in Requests |-> "none"]

-----------------------------------------------------------------------------
(* The executor.                                                             *)

\* The operation begins: the loader is in its context, and the root fields of
\* the query are started.
Begin(x) ==
  /\ ctx[x] = "bare"
  /\ ctx' = [ctx EXCEPT ![x] = "live"]
  /\ UNCHANGED <<members, dbUp, stage, seen, root, field, errors, response>>

AddError(x) == errors' = [errors EXCEPT ![x] = @ + 1]

\* The resolver finds its livers; their fields are started. A page of no liver
\* is also the answer to a "first" below one, without asking the database.
ResolveRoot(r) ==
  /\ root[r] = "none"
  /\ ctx[ReqOf[r]] # "bare"
  /\ PageOf[r] # <<>> => dbUp /\ ctx[ReqOf[r]] = "live"
  /\ root' = [root EXCEPT ![r] = "running"]
  /\ UNCHANGED <<lookupVars, field, errors, response>>

\* No permission, no such liver, a cursor that does not decode, the database.
RootFails(r) ==
  /\ root[r] = "none"
  /\ ctx[ReqOf[r]] # "bare"
  /\ root' = [root EXCEPT ![r] = "null"]
  /\ AddError(ReqOf[r])
  /\ UNCHANGED <<lookupVars, field, response>>

\* The resolver of groups decodes its cursor, then calls the loader.
LoadGroups(c) ==
  /\ root[c[1]] = "running"
  /\ field[c] = "none"
  /\ c[3] \in Decodable
  /\ Loader!Ask(c)
  /\ field' = [field EXCEPT ![c] = "loading"]
  /\ UNCHANGED <<root, errors, response>>

CursorFails(c) ==
  /\ root[c[1]] = "running"
  /\ field[c] = "none"
  /\ c[3] \notin Decodable
  /\ field' = [field EXCEPT ![c] = "null"]
  /\ AddError(CtxOf[c])
  /\ UNCHANGED <<lookupVars, root, response>>

\* Variant: no result at all for an error.
LeftUnset(answer) == IF answer.kind = "data" THEN "object" ELSE "none"

GroupsResult(answer) == IF answer.kind = "data" THEN "object" ELSE "null"

\* The loader answers; its error is the field's.
GroupsReturn(c) ==
  /\ Loader!Give(c)
  /\ field' = [field EXCEPT ![c] = GroupsResult(seen[c])]
  /\ IF GroupsResult(seen[c]) = "null" THEN AddError(CtxOf[c]) ELSE UNCHANGED errors
  /\ UNCHANGED <<root, response>>

AnyEnded(r) == CallsOf(r) # {} => \E c \in CallsOf(r) : field[c] \in Results  \* variants
AllObjects(r) == \A c \in CallsOf(r) : field[c] = "object"

\* Dispatch waits for the fields of a liver, the list for its edges.
FieldsEnded(r) == \A c \in CallsOf(r) : field[c] \in Results

\* Variant: only the last edge counts.
LastOnly(r) == \E c \in CallsOf(r) : c[2] = Len(PageOf[r]) /\ field[c] = "null"

\* One null groups field makes its liver null, the edge, the list.
AnyNull(r) == \E c \in CallsOf(r) : field[c] = "null"

Reported(r) == IF AnyNull(r) THEN 1 ELSE 0  \* variant of Repeated: "must not be null"

\* A null that has its error already is not reported again on its way up.
Repeated(r) == 0

CompleteRoot(r) ==
  /\ root[r] = "running"
  /\ FieldsEnded(r)
  /\ root' = [root EXCEPT ![r] = IF AnyNull(r) THEN "null" ELSE "object"]
  /\ errors' = [errors EXCEPT ![ReqOf[r]] = @ + Repeated(r)]
  /\ UNCHANGED <<lookupVars, field, response>>

NonNull(r) == Kind[r] = "livers"

Respond(x) ==
  /\ ctx[x] # "bare"
  /\ response[x] = "none"
  /\ \A r \in RootsOf(x) : root[r] \in Results
  /\ response' = [response EXCEPT ![x] =
       IF \E r \in RootsOf(x) : NonNull(r) /\ root[r] = "null" THEN "null" ELSE "object"]
  /\ UNCHANGED <<lookupVars, root, field, errors>>

-----------------------------------------------------------------------------
(* The loader and the surroundings.                                          *)

\* Calls of one batch, of any requests, are looked up or fail together.
Asked == {c \in Calls : stage[c] = "asked"}

LookUpWith(c) ==
  /\ c \in Asked
  /\ \E S \in SUBSET Asked : c \in S /\ (Loader!Look(S) \/ Loader!Fail(S))
  /\ UNCHANGED <<root, field, errors, response>>

Cancel(x) ==
  /\ ctx[x] = "live"
  /\ ctx' = [ctx EXCEPT ![x] = "cancelled"]
  /\ UNCHANGED <<members, dbUp, stage, seen, root, field, errors, response>>

Toggle ==
  /\ dbUp' = ~dbUp
  /\ UNCHANGED <<members, ctx, stage, seen, root, field, errors, response>>

\* A liver joins or leaves a group.
Write(g, l) ==
  /\ members' = IF <<g, l>> \in members THEN members \ {<<g, l>>} ELSE members \cup {<<g, l>>}
  /\ UNCHANGED <<dbUp, ctx, stage, seen, root, field, errors, response>>

Executor(x) == \/ Respond(x)
               \/ \E r \in RootsOf(x) : ResolveRoot(r) \/ RootFails(r) \/ CompleteRoot(r)
               \/ \E c \in CallsIn(x) : LoadGroups(c) \/ CursorFails(c) \/ GroupsReturn(c)

Answering(x) == \E c \in CallsIn(x) : LookUpWith(c)

Next == \/ \E x \in Requests : Begin(x) \/ Executor(x) \/ Answering(x) \/ Cancel(x)
        \/ Toggle
        \/ \E g \in Groups, l \in Livers : Write(g, l)

Spec == Init /\ [][Next]_vars

\* A request goes on as long as one of its goroutines can, and the loader answers
\* what it is asked (EveryLoadReturns of GroupLoader).
Fairness == \A x \in Requests : WF_vars(Executor(x) \/ Answering(x))

FairSpec == Spec /\ Fairness

-----------------------------------------------------------------------------
(* Properties.                                                               *)

TypeOK ==
  /\ root \in [Roots -> {"none", "running"} \cup Results]
  /\ field \in [Calls -> {"none", "loading"} \cup Results]
  /\ \A c \in Calls : /\ field[c] = "none" => stage[c] = "idle"
                      /\ field[c] = "loading" <=> stage[c] \in {"asked", "looked"}
  /\ errors \in [Requests -> 0 .. Cardinality(Roots) + Cardinality(Calls)]
  /\ response \in [Requests -> {"none"} \cup Results]

\* What failed, by what the loader and the resolvers answered.
RootFailed(r) == root[r] = "null" /\ \A c \in CallsOf(r) : field[c] = "none"
GroupsFailed(c) == \/ root[c[1]] # "none" /\ field[c] # "none" /\ c[3] \notin Decodable
                   \/ stage[c] = "answered" /\ seen[c].kind # "data"
RootFailures(x) == {r \in RootsOf(x) : RootFailed(r)}
GroupsFailures(x) == {c \in CallsIn(x) : GroupsFailed(c)}

\* The data of a response is null exactly when a livers field or one of the
\* groups fields below it failed: no page with missing edges or groups is ever
\* sent, and the failure of a liver field takes nothing else with it.
NullExactly ==
  \A x \in Requests : response[x] # "none" =>
    (response[x] = "null" <=>
       \E r \in RootsOf(x) : /\ Kind[r] = "livers"
                             /\ RootFailed(r) \/ \E c \in CallsOf(r) : GroupsFailed(c))

\* A response carries one error for each failure, wherever the null ends up,
\* including those of edges that fail after another one has decided the result.
ErrorsExactly ==
  \A x \in Requests : response[x] # "none" =>
    errors[x] = Cardinality(RootFailures(x)) + Cardinality(GroupsFailures(x))

\* A response is sent when nothing of the request is left running: no call of
\* the loader outlives it, although one failure decides the result early.
NothingLeftRunning ==
  \A x \in Requests : response[x] # "none" =>
    \A c \in CallsIn(x) : stage[c] \in {"idle", "answered"}

\* Every query is answered, also when its client is gone.
EveryQueryAnswered == \A x \in Requests : (ctx[x] # "bare") ~> (response[x] # "none")
==============================================================================

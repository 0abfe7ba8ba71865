------------------------------- MODULE Executor -------------------------------
(* How the generated executor (graph/main.generated.go) completes what the    *)
(* resolvers return to a response: one operator for each type of the schema.  *)
(* LiversQuery is about the order in which its goroutines do that; this is    *)
(* about what comes out.                                                      *)
(*                                                                            *)
(* A resolver's outcome is an error or a value that may be nil. A result is   *)
(* the completed value, {} if it is null, and the paths of the errors raised   *)
(* on the way, relative to it. A step of a path is a response key or an index. *)
(* sel gives the fields selected in each type. __typename, a constant, is left *)
(* out.                                                                       *)
EXTENDS Naturals, Sequences

Returned(v) == [error |-> FALSE, value |-> {v}]
Optional(v) == [error |-> FALSE, value |-> v]
Erred == [error |-> TRUE, value |-> {}]
The(outcome) == CHOOSE v \in outcome.value : TRUE

Here == {<<>>}
Key(k) == <<k, 0>>
Index(i) == <<"element", i>>
Under(step, errors) == {<<step>> \o path : path \in errors}

Completed(v) == [data |-> {v}, errors |-> {}]
NullWith(errors) == [data |-> {}, errors |-> errors]

-----------------------------------------------------------------------------
(* Fields, objects and lists.                                                *)

\* completed is the result of a value, where there is one. Otherwise it is an
\* error or "must not be null".
NonNull(outcome, completed) ==
  IF outcome.error \/ outcome.value = {} THEN NullWith(Here) ELSE completed

OrNull(outcome, completed) ==
  IF outcome.error THEN NullWith(Here)
  ELSE IF outcome.value = {} THEN NullWith({})
  ELSE completed

FirstError(fields, required) ==  \* variant: one error for an object that is null
  LET failed == {f \in required \cap DOMAIN fields : fields[f].data = {}}
      kept == IF failed = {} THEN DOMAIN fields ELSE {CHOOSE f \in failed : TRUE}
  IN  [data |-> IF failed # {} THEN {} ELSE {[f \in DOMAIN fields |-> fields[f].data]},
       errors |-> UNION {Under(Key(f), fields[f].errors) : f \in kept}]

\* An object is null if one of its required fields is. All fields are
\* completed, and all of their errors are kept.
Object(fields, required) ==
  [data |-> IF \E f \in required \cap DOMAIN fields : fields[f].data = {}
            THEN {} ELSE {[f \in DOMAIN fields |-> fields[f].data]},
   errors |-> UNION {Under(Key(f), fields[f].errors) : f \in DOMAIN fields}]

ElementErrors(results) == UNION {Under(Index(i), results[i].errors) : i \in DOMAIN results}

WithNulls(results) ==  \* variant: null elements stay in the list
  [data |-> {[i \in DOMAIN results |-> results[i].data]}, errors |-> ElementErrors(results)]

\* A list is null if one of its elements is.
List(results) ==
  [data |-> IF \E i \in DOMAIN results : results[i].data = {}
            THEN {} ELSE {[i \in DOMAIN results |-> results[i].data]},
   errors |-> ElementErrors(results)]

\* The zero time is marshalled to null, an error where there must be a time.
MarshalNTime(t, zero) == IF t = zero THEN NullWith(Here) ELSE Completed(t)
MarshalOTime(t, zero) == IF t = zero THEN NullWith({}) ELSE Completed(t)

-----------------------------------------------------------------------------
(* The types.                                                                *)

\* The fields of each type.
Schema ==
  [Group |-> {"name"},
   LiverGroupEdge |-> {"node", "cursor"},
   LiverGroupConnetion |-> {"edges", "pageInfo"},
   Liver |-> {"name", "debuted_on", "retired_on", "status", "enrollmentDays", "groups"},
   PageInfo |-> {"hasPreviousPage", "hasNextPage", "startCursor", "endCursor"},
   LiverEdge |-> {"node", "cursor"},
   LiverConnection |-> {"edges", "pageInfo"}]

GroupName(group) == NonNull(group["name"], Completed(The(group["name"])))

Group(group, sel) == Object([f \in sel.Group |-> GroupName(group)], {"name"})

LiverGroupEdgeField(edge, f, sel) ==
  LET v == The(edge[f])
  IN  NonNull(edge[f], IF f = "node" THEN Group(v, sel) ELSE Completed(v))

LiverGroupEdge(edge, sel) ==
  Object([f \in sel.LiverGroupEdge |-> LiverGroupEdgeField(edge, f, sel)], {"node", "cursor"})

LiverGroupEdges(edges, sel) == List([i \in DOMAIN edges |-> LiverGroupEdge(edges[i], sel)])

PageInfoFlag(info, f) == NonNull(info[f], Completed(The(info[f])))
PageInfoCursor(info, f) == OrNull(info[f], Completed(The(info[f])))

PageInfo(info, sel) ==
  LET flags == {"hasPreviousPage", "hasNextPage"}
  IN  Object([f \in sel.PageInfo |-> IF f \in flags THEN PageInfoFlag(info, f)
                                     ELSE PageInfoCursor(info, f)],
             flags)

LiverGroupConnetionField(conn, f, sel) ==
  LET v == The(conn[f])
  IN  NonNull(conn[f], IF f = "edges" THEN LiverGroupEdges(v, sel) ELSE PageInfo(v, sel))

LiverGroupConnetion(conn, sel) ==
  Object([f \in sel.LiverGroupConnetion |-> LiverGroupConnetionField(conn, f, sel)],
         {"edges", "pageInfo"})

\* Of the fields kept in the table, only retired_on may be null.
LiverScalar(liver, f, zero) ==
  LET v == The(liver[f])
  IN  CASE f = "debuted_on" -> NonNull(liver[f], MarshalNTime(v, zero))
        [] f = "retired_on" -> OrNull(liver[f], MarshalOTime(v, zero))
        [] OTHER            -> NonNull(liver[f], Completed(v))

LiverComputed(liver, f) == NonNull(liver[f], Completed(The(liver[f])))

LiverGroups(liver, sel) ==
  NonNull(liver["groups"], LiverGroupConnetion(The(liver["groups"]), sel))

Liver(liver, sel, zero) ==
  Object([f \in sel.Liver |->
            CASE f = "groups" -> LiverGroups(liver, sel)
              [] f \in {"status", "enrollmentDays"} -> LiverComputed(liver, f)
              [] OTHER -> LiverScalar(liver, f, zero)],
         {"name", "debuted_on", "status", "enrollmentDays", "groups"})

LiverEdgeField(edge, f, sel, zero) ==
  LET v == The(edge[f])
  IN  NonNull(edge[f], IF f = "node" THEN Liver(v, sel, zero) ELSE Completed(v))

LiverEdge(edge, sel, zero) ==
  Object([f \in sel.LiverEdge |-> LiverEdgeField(edge, f, sel, zero)], {"node", "cursor"})

LiverEdges(edges, sel, zero) == List([i \in DOMAIN edges |-> LiverEdge(edges[i], sel, zero)])

LiverConnectionField(conn, f, sel, zero) ==
  LET v == The(conn[f])
  IN  NonNull(conn[f], IF f = "edges" THEN LiverEdges(v, sel, zero) ELSE PageInfo(v, sel))

LiverConnection(conn, sel, zero) ==
  Object([f \in sel.LiverConnection |-> LiverConnectionField(conn, f, sel, zero)],
         {"edges", "pageInfo"})

-----------------------------------------------------------------------------
(* The operations. A query or a mutation selects root fields under response   *)
(* keys.                                                                      *)

QueryLiver(outcome, sel, zero) == OrNull(outcome, Liver(The(outcome), sel, zero))
QueryLivers(outcome, sel, zero) == NonNull(outcome, LiverConnection(The(outcome), sel, zero))

\* outcomes: of the resolver under each key; kinds: the field of each key.
Query(outcomes, kinds, sel, zero) ==
  Object([k \in DOMAIN outcomes |->
            IF kinds[k] = "liver" THEN QueryLiver(outcomes[k], sel, zero)
            ELSE QueryLivers(outcomes[k], sel, zero)],
         {k \in DOMAIN outcomes : kinds[k] = "livers"})

MutationRegisterLiver(outcome) == NonNull(outcome, Completed(The(outcome)))

Mutation(outcomes) ==
  Object([k \in DOMAIN outcomes |-> MutationRegisterLiver(outcomes[k])], DOMAIN outcomes)

-----------------------------------------------------------------------------
(* What the GraphQL specification says of a response, without saying how it   *)
(* is made: an error nulls the nearest place around it that may be null, and  *)
(* nothing else is nulled.                                                    *)

\* What a value has at a step, {} if that is null or the value is.
Child(found, step) ==
  IF found = {} THEN {}
  ELSE LET v == CHOOSE x \in found : TRUE
           at == IF step[1] = "element" THEN step[2] ELSE step[1]
       IN  IF at \in DOMAIN v THEN v[at] ELSE {}

\* The values along a path: the data, what it has at the first step, and so on.
Along(data, path) ==
  LET at[n \in 0 .. Len(path)] == IF n = 0 THEN data ELSE Child(at[n - 1], path[n])
  IN  at

\* A place is null itself, and not within something null.
NullAt(data, path) ==
  LET at == Along(data, path)
  IN  at[Len(path)] = {} /\ \A n \in 0 .. Len(path) - 1 : at[n] # {}

\* The number of steps to the nearest place that may be null, as the response may.
NearestNullable(path, nullable) ==
  CHOOSE n \in 0 .. Len(path) :
    /\ n = 0 \/ path[n][1] \in nullable
    /\ \A m \in n + 1 .. Len(path) : path[m][1] \notin nullable

\* Each error nulls, and each null place has an error.
Conforms(result, nullable, places) ==
  /\ \A e \in result.errors : Along(result.data, e)[NearestNullable(e, nullable)] = {}
  /\ \A p \in places : NullAt(result.data, p) =>
       \E e \in result.errors : SubSeq(e, 1, NearestNullable(e, nullable)) = p

-----------------------------------------------------------------------------
(* What the schema says of the data: an object has the fields selected, of    *)
(* which only the optional ones may be null, and so on within it. Below the   *)
(* root fields the schema lets nothing but these be null.                     *)

Complete(found, fields, optional) ==
  \A v \in found : DOMAIN v = fields /\ \A f \in fields \ optional : v[f] # {}

\* The edges are those at the indices, in a list without nulls.
CompleteConnection(found, fields, edgeFields, pageInfoFields, indices) ==
  /\ Complete(found, fields, {})
  /\ Complete(Child(found, Key("pageInfo")), pageInfoFields, {"startCursor", "endCursor"})
  /\ \A edges \in Child(found, Key("edges")) :
       /\ DOMAIN edges = indices
       /\ \A i \in indices : edges[i] # {} /\ Complete(edges[i], edgeFields, {})

NodeOf(found, i) == Child(Child(Child(found, Key("edges")), Index(i)), Key("node"))

\* A liver with the groups at the indices.
CompleteLiver(found, sel, indices) ==
  LET groups == Child(found, Key("groups"))
  IN  /\ Complete(found, sel.Liver, {"retired_on"})
      /\ CompleteConnection(groups, sel.LiverGroupConnetion, sel.LiverGroupEdge,
                            sel.PageInfo, indices)
      /\ \A i \in indices : Complete(NodeOf(groups, i), sel.Group, {})
==============================================================================

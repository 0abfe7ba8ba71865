----------------------------- MODULE Connections -----------------------------
(* The connections of the GraphQL API as functions of what the database       *)
(* holds: the resolvers (graph/resolvers/main.resolvers.go), cursors and page *)
(* infos (graph/models/models.go) and GetLivers (domain/repos.go).            *)
(*                                                                            *)
(* Livers and groups are their ids. An optional argument is a set: {} when it *)
(* is absent or null, {v} when it is v. Sequences of ids are rows in the      *)
(* order the database returned them.                                          *)
EXTENDS Integers, Sequences, FiniteSets, SequencesExt, FiniteSetsExt

Given(arg) == arg # {}
Value(arg) == CHOOSE v \in arg : TRUE
Failure == [kind |-> "error"]
Connection(edges, hasNext) == [kind |-> "connection", edges |-> edges, hasNext |-> hasNext]

\* The elements of a finite set in the order of before.
InOrder(S, before(_, _)) ==
  [i \in 1 .. Cardinality(S) |->
     CHOOSE x \in S : Cardinality({y \in S : before(y, x)}) = i - 1]

Prefix(s, n) == SubSeq(s, 1, Min({n, Len(s)}))

-----------------------------------------------------------------------------
(* Cursors. A cursor holds the type of its edge and a JSON value; decoding   *)
(* reads the value's field and never looks at the type.                      *)

EdgeCursor(id) == [type |-> "Edge", field |-> "none", id |-> id]  \* variant

LiverEdgeCursor(id) == [type |-> "LiverEdge", field |-> "LiverID", id |-> id]
LiverGroupEdgeCursor(id) == [type |-> "LiverGroupEdge", field |-> "GroupID", id |-> id]

\* A cursor whose value is no JSON object, such as those of models_test.go.
ScalarCursor == [type |-> "Group", field |-> "none", id |-> 0]
Decodes(cursor) == cursor.field # "none"

\* A field the value lacks keeps its zero.
Decoded(cursor, field) == IF cursor.field = field THEN cursor.id ELSE 0

-----------------------------------------------------------------------------
(* PageInfo of a connection, for both types of edges.                        *)

NewPageInfo(conn, type) ==
  LET edges == conn.edges
      CursorOf(id) == IF type = "LiverEdge" THEN LiverEdgeCursor(id)
                                            ELSE LiverGroupEdgeCursor(id)
  IN  IF edges = <<>>
      THEN [hasPreviousPage |-> FALSE, hasNextPage |-> FALSE,
            startCursor |-> {}, endCursor |-> {}]
      ELSE [hasPreviousPage |-> FALSE, hasNextPage |-> conn.hasNext,
            startCursor |-> {CursorOf(edges[1])},
            endCursor |-> {CursorOf(edges[Len(edges)])}]

-----------------------------------------------------------------------------
(* Livers.                                                                   *)

FromStart(livers, from) == livers  \* variant

After(livers, from) == IF from = 0 THEN livers ELSE {l \in livers : l > from}

DescByDefault(rows, direction) ==  \* variant
  InOrder(rows, LAMBDA a, b : IF direction # "ASC" THEN a > b ELSE a < b)

OrderedBy(rows, direction) ==
  InOrder(rows, LAMBDA a, b : IF direction = "DESC" THEN a > b ELSE a < b)

LimitOnly(ordered, limit) == Connection(Prefix(ordered, limit), FALSE)  \* variants
FullMeansMore(ordered, limit) == Connection(Prefix(ordered, limit), Len(ordered) >= limit)

\* LIMIT limit + 1: the extra row only tells whether there are more.
Limited(ordered, limit) ==
  LET fetched == Prefix(ordered, limit + 1)
  IN  Connection(Prefix(fetched, limit), Len(fetched) > limit)

\* SELECT ... [WHERE liver_id > from] ORDER BY liver_id LIMIT limit + 1.
GetLivers(livers, limit, from, direction) ==
  Limited(OrderedBy(After(livers, from), direction), limit)

\* Query.livers. The cursor is decoded and dropped; the direction is "" as soon
\* as there is an orderBy.
Livers(livers, first, after, orderBy) ==
  IF ~Given(first) \/ Value(first) <= 0 THEN Connection(<<>>, FALSE)
  ELSE IF Given(after) /\ ~Decodes(Value(after)) THEN Failure
  ELSE GetLivers(livers, Value(first), 0, IF Given(orderBy) THEN "" ELSE "ASC")

-----------------------------------------------------------------------------
(* The groups of a liver.                                                    *)

ShortPage(kept, f) == Prefix(kept, Max({f - 1, 1}))  \* variant
PageOf(kept, f) == Prefix(kept, Max({f, 1}))

MoreThanNext(rows, f) == Len(rows) > f + 1  \* variant

HasNext(rows, f) == Len(rows) > f

\* The loop skips the groups before the cursor.
Kept(rows, from) ==
  LET at == OrderedBy({i \in DOMAIN rows : ~(rows[i] < from)}, "ASC")
  IN  [n \in DOMAIN at |-> rows[at[n]]]

\* Liver.groups, on the rows the loader returned. The loop stops only after it
\* appended an edge, so a first below one still yields one.
GroupsOf(rows, first, after) ==
  LET f == IF Given(first) THEN Value(first) ELSE 0
      from == IF Given(after) THEN Decoded(Value(after), "GroupID") ELSE 0
  IN  IF Given(after) /\ ~Decodes(Value(after)) THEN Failure
      ELSE Connection(PageOf(Kept(rows, from), f), HasNext(rows, f))
==============================================================================

------------------------------ MODULE LiverPages ------------------------------
(* A client that reads the livers page by page while other clients register   *)
(* livers. It walks either the GraphQL connection, following endCursor while   *)
(* hasNextPage, or the repository's GetLivers, following the last liver's id   *)
(* with WithStartLiverID (which no caller in the repository does).             *)
EXTENDS Connections

CONSTANTS Ids,        \* ids the livers table may hand out
          Firsts,     \* the values of "first" a client may send: {} or {n}
          Directions, \* the orders the client may ask for; "none": no orderBy
          Ways        \* how the client may read: "graphql", "repository"

\* Assumed of the constants.
LiverPagesAssumption ==
  /\ Ids \subseteq Nat \ {0} /\ IsFiniteSet(Ids)
  /\ \A f \in Firsts : f \subseteq Int /\ Cardinality(f) <= 1
  /\ Directions \subseteq {"none", "ASC", "DESC"}
  /\ Ways \subseteq {"graphql", "repository"}

VARIABLES
  via,        \* how the client reads
  livers,     \* ids committed to the livers table
  reserved,   \* ids handed out to inserts that have not committed
  first,      \* the page size the client asks for
  orderBy,    \* the order the client asked for
  atStart,    \* what the table held when the client asked for its first page
  pages,      \* the pages the client received
  cursor,     \* the cursor for its next page
  more        \* did the last page announce another one?

vars == <<via, livers, reserved, first, orderBy, atStart, pages, cursor, more>>

\* WithStartLiverID selects greater ids, so it continues an ascending walk only.
Continues == Given(first) /\ Value(first) > 0 /\ orderBy # "DESC"

Init ==
  /\ via \in Ways
  /\ livers \in SUBSET Ids
  /\ reserved = {}
  /\ first \in Firsts
  /\ orderBy \in Directions
  /\ via = "repository" => Continues
  /\ atStart = {}
  /\ pages = <<>>
  /\ cursor = {}
  /\ more = TRUE

\* An insert takes the next id of the auto-increment column ...
Reserve(l) ==
  /\ l \in Ids
  /\ \A k \in livers \cup reserved : k < l
  /\ reserved' = reserved \cup {l}
  /\ UNCHANGED <<via, livers, first, orderBy, atStart, pages, cursor, more>>

\* ... and inserts commit in any order.
Commit(l) ==
  /\ l \in reserved
  /\ reserved' = reserved \ {l}
  /\ livers' = livers \cup {l}
  /\ UNCHANGED <<via, first, orderBy, atStart, pages, cursor, more>>

Page == IF via = "graphql"
        THEN Livers(livers, first, cursor, IF orderBy = "none" THEN {} ELSE {orderBy})
        ELSE GetLivers(livers, Value(first),
                       IF Given(cursor) THEN Decoded(Value(cursor), "LiverID") ELSE 0,
                       orderBy)

\* The client asks for its next page. MaxPages bounds a walk that never ends.
MaxPages == Cardinality(Ids) + 1

FetchPage ==
  /\ more
  /\ Len(pages) < MaxPages
  /\ \E page \in {Page} :
       LET info == NewPageInfo(page, "LiverEdge")
       IN  /\ pages' = Append(pages, page.edges)
           /\ cursor' = info.endCursor
           /\ more' = info.hasNextPage
  /\ atStart' = IF pages = <<>> THEN livers ELSE atStart
  /\ UNCHANGED <<via, livers, reserved, first, orderBy>>

Next == FetchPage \/ \E l \in Ids : Reserve(l) \/ Commit(l)

Spec == Init /\ [][Next]_vars /\ WF_vars(FetchPage)

-----------------------------------------------------------------------------
(* Properties.                                                               *)

\* A place of the walk is a page and a row of it.
Places == UNION {{i} \X DOMAIN pages[i] : i \in DOMAIN pages}
At(p) == pages[p[1]][p[2]]
Before(p, q) == p[1] < q[1] \/ (p[1] = q[1] /\ p[2] < q[2])

PageSize == IF Given(first) THEN Max({Value(first), 0}) ELSE 0

TypeOK ==
  /\ via \in Ways
  /\ livers \in SUBSET Ids /\ reserved \in SUBSET Ids /\ atStart \in SUBSET Ids
  /\ first \in Firsts /\ orderBy \in Directions
  /\ pages \in Seq(Seq(Ids))
  /\ \A c \in cursor : Decodes(c) /\ Decoded(c, "LiverID") \in Ids
  /\ more \in BOOLEAN

\* Reading with GetLivers and WithStartLiverID, a client receives livers in the
\* order it asked for and none twice, although ids are committed out of order
\* behind and before it.
WalkInOrder ==
  via = "repository" => \A p, q \in Places : Before(p, q) => At(p) < At(q)

\* ... and once no further page is announced, it has every liver the table held
\* when it began, however many were registered in the meantime.
WalkComplete == (via = "repository" /\ ~more) => atStart \subseteq {At(p) : p \in Places}

\* ... and its walk comes to an end: a page that announces no other.
WalkEnds == via = "repository" => <>(~more)

\* The announcement is right for the moment of the page: another page is
\* announced exactly when this one is full and the table goes on behind it, so
\* the extra row of the query is neither shown nor forgotten.
AnnouncesRightly ==
  [][pages' # pages =>
       LET page == Last(pages')
       IN  /\ Len(page) <= PageSize
           /\ more' <=> /\ page # <<>>
                        /\ Len(page) = PageSize
                        /\ \E l \in livers : l > Last(page)]_vars

NoRepeats == \A p, q \in Places : At(p) = At(q) => p = q
InAskedOrder(page) ==
  \A i, j \in DOMAIN page : i < j =>
    IF orderBy = "DESC" THEN page[i] > page[j] ELSE page[i] < page[j]
OrderHonoured == \A i \in DOMAIN pages : InAskedOrder(pages[i])

\* What schemata/main.gql offers, after and orderBy, is not without any effect: a
\* client of Query.livers that follows the cursors is given every liver once, or
\* each page is at least in the order it asked for. The code drops both the
\* cursor and the direction.
ArgumentsHonoured == NoRepeats \/ OrderHonoured
==============================================================================

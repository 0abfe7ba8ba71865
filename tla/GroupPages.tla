------------------------------ MODULE GroupPages ------------------------------
(* A client that reads the groups of one liver page by page. Every page is    *)
(* computed from the rows the group loader returns for the liver, in whatever  *)
(* order the database gave them (the statement has no ORDER BY), while the     *)
(* liver joins and leaves groups.                                              *)
EXTENDS Connections

CONSTANTS GroupIds,   \* ids of the groups
          Firsts,     \* the values of "first" a client may send: {} or {n}
          Afters      \* the cursors a client may send with its first request

\* Assumed of the constants.
GroupPagesAssumption ==
  /\ GroupIds \subseteq Nat \ {0} /\ IsFiniteSet(GroupIds)
  /\ \A f \in Firsts : f \subseteq Int /\ Cardinality(f) <= 1
  /\ \A a \in Afters : Cardinality(a) <= 1 /\ \A c \in a : c.id \in Nat

VARIABLES
  ordered,    \* does the database happen to return rows by id?
  belongs,    \* the groups the liver belongs to now
  first,      \* the page size the client asks for
  after,      \* the cursor of its next request
  asked,      \* its last request: the rows it was answered from and its cursor
  reply,      \* the connection of the last answer, or an error
  more,       \* may the client ask again?
  seen        \* the groups on the pages so far

vars == <<ordered, belongs, first, after, asked, reply, more, seen>>

NoReply == Connection(<<>>, TRUE)

Init ==
  /\ ordered \in BOOLEAN
  /\ belongs \in SUBSET GroupIds
  /\ first \in Firsts
  /\ after \in Afters
  /\ asked = [rows |-> <<>>, after |-> {}]
  /\ reply = NoReply
  /\ more = TRUE
  /\ seen = {}

RowOrders == IF ordered
             THEN {OrderedBy(belongs, "ASC")}
             ELSE SetToSeqs(belongs)

\* The loader answers with the liver's groups.
FetchPage ==
  /\ more
  /\ belongs # {}
  /\ \E rows \in RowOrders : \E conn \in {GroupsOf(rows, first, after)} :
       LET info == NewPageInfo(conn, "LiverGroupEdge")
       IN  /\ asked' = [rows |-> rows, after |-> after]
           /\ reply' = conn
           /\ IF conn = Failure
              THEN more' = FALSE /\ UNCHANGED <<after, seen>>
              ELSE /\ more' = info.hasNextPage
                   /\ after' = IF Given(info.endCursor) THEN info.endCursor ELSE after
                   /\ seen' = seen \cup ToSet(conn.edges)
  /\ UNCHANGED <<ordered, belongs, first>>

\* The loader's query fails, or finds no group, which is an error as well. The
\* client may ask for the same page again.
LoaderFails ==
  /\ more
  /\ asked' = [rows |-> <<>>, after |-> after]
  /\ reply' = Failure
  /\ UNCHANGED <<ordered, belongs, first, after, more, seen>>

\* Other writers change the memberships.
Join(g) == /\ g \in GroupIds \ belongs
           /\ belongs' = belongs \cup {g}
           /\ UNCHANGED <<ordered, first, after, asked, reply, more, seen>>

Leave(g) == /\ g \in belongs
            /\ belongs' = belongs \ {g}
            /\ UNCHANGED <<ordered, first, after, asked, reply, more, seen>>

Next == FetchPage \/ LoaderFails \/ \E g \in GroupIds : Join(g) \/ Leave(g)

\* A client that walks goes on asking while another page is announced, and the
\* query does not fail for ever.
Spec == Init /\ [][Next]_vars /\ WF_vars(FetchPage)

-----------------------------------------------------------------------------
(* Properties.                                                               *)

IsPage == reply # Failure /\ reply # NoReply
PageSize == IF Given(first) THEN Value(first) ELSE 0
From == IF Given(asked.after) THEN Decoded(Value(asked.after), "GroupID") ELSE 0
HasNextPage == NewPageInfo(reply, "LiverGroupEdge").hasNextPage

TypeOK ==
  /\ ordered \in BOOLEAN
  /\ belongs \in SUBSET GroupIds /\ seen \in SUBSET GroupIds
  /\ first \in Firsts
  /\ after \in Afters \/ \A c \in after : Decodes(c) /\ Decoded(c, "GroupID") \in GroupIds
  /\ asked.rows \in Seq(GroupIds)
  /\ reply = Failure \/ reply.edges \in Seq(GroupIds)
  /\ more \in BOOLEAN

\* A page that announces no other ends the list: it holds every group of the
\* answer from the cursor on, also when rows are unordered, the cursor is a
\* liver's or first is not positive; and without a cursor a page of at least one
\* group announces another only if groups are left.
AnnouncesNext ==
  IsPage =>
    /\ ~HasNextPage => \A g \in ToSet(asked.rows) : g >= From => g \in ToSet(reply.edges)
    /\ (asked.after = {} /\ PageSize >= 1 /\ HasNextPage)
         => Len(reply.edges) < Len(asked.rows)

\* With rows by id and at least two groups a page, a walk from the start shows
\* every group the liver keeps, although each page begins with the last group of
\* the page before and others join and leave meanwhile.
WalkSeesStable ==
  \A g \in GroupIds :
    (ordered /\ after = {} /\ PageSize >= 2 /\ [](g \in belongs)) => <>(g \in seen)
==============================================================================

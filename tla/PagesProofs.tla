----------------------------- MODULE PagesProofs -----------------------------
(* Theorems about the walks of LiverPages, the pages of GroupPages and the two  *)
(* side by side, for any ids, page sizes, cursors and directions.              *)
EXTENDS Pages, ConnectionsProofs

-----------------------------------------------------------------------------
(* The livers.                                                               *)

\* Where the next page begins, and the livers it is read from. The resolver
\* drops its cursor.
PageFrom == IF via = "repository" /\ Given(cursor)
            THEN Decoded(Value(cursor), "LiverID") ELSE 0
Remaining == {l \in livers : l > PageFrom}

\* The cursor is that of the last row of a page.
CursorOfRow == cursor = {} \/ \E l \in Ids : cursor = {LiverEdgeCursor(l)}

WalkStarts == pages = <<>> => cursor = {} /\ more /\ atStart = {}
WalkAscends == via = "repository" => Continues
StartStays == atStart \subseteq livers

\* Between two pages the cursor is the last row received: everything received is
\* at or before it, and whatever was there at the start and is at or before it
\* was received.
UpTo(l) == /\ \A p \in Places : At(p) <= l
           /\ \A k \in atStart : k <= l => \E p \in Places : At(p) = k
CursorTells ==
  (via = "repository" /\ more /\ pages # <<>>) =>
    \E l \in Ids : cursor = {LiverEdgeCursor(l)} /\ UpTo(l)

LiversIInv == /\ TypeOK /\ CursorOfRow /\ WalkStarts /\ WalkAscends /\ StartStays
              /\ CursorTells /\ WalkInOrder /\ WalkComplete
\* What the code reads for a page: its rows continue after PageFrom.
LEMMA PageIsLimited ==
  ASSUME LiverPagesAssumption, TypeOK, CursorOfRow, WalkAscends
  PROVE  /\ PageFrom \in Nat
         /\ IF Given(first) /\ Value(first) > 0
            THEN \E d : d # "DESC" /\ Page = Limited(OrderedBy(Remaining, d), Value(first))
            ELSE via # "repository" /\ Page = Connection(<<>>, FALSE)
<1> DEFINE last == Decoded(Value(cursor), "LiverID")
           from == IF Given(cursor) THEN last ELSE 0
           order == IF orderBy = "none" THEN {} ELSE {orderBy}
<1>1. cursor # {} => Decodes(Value(cursor)) /\ last \in Ids
  BY DEF TypeOK, Value
<1>2. livers \subseteq Nat /\ \A l \in livers : l > 0
  BY DEF LiverPagesAssumption, TypeOK
<1> HIDE DEF last
<1>3. from \in Nat /\ PageFrom \in Nat /\ PageFrom = IF via = "repository" THEN from ELSE 0
  BY <1>1 DEF LiverPagesAssumption, PageFrom, Given, last
<1>4. \A k \in Nat : After(livers, k) = {l \in livers : l > k}
  BY <1>2 DEF After
<1>5. CASE via = "repository"
  <2>1. Given(first) /\ Value(first) > 0 /\ orderBy # "DESC"
    BY <1>5 DEF WalkAscends, Continues
  <2>2. Page = GetLivers(livers, Value(first), PageFrom, orderBy)
    BY <1>3, <1>5 DEF Page, last
  <2>3. After(livers, PageFrom) = Remaining
    BY <1>3, <1>4 DEF Remaining
  <2> QED BY <1>3, <2>1, <2>2, <2>3 DEF GetLivers
<1>6. CASE via = "graphql"
  <2>1. Page = Livers(livers, first, cursor, order)
    BY <1>6 DEF Page
  <2>2. PageFrom = 0 /\ After(livers, 0) = Remaining
    BY <1>3, <1>4, <1>6 DEF Remaining
  <2>3. CASE Given(first) /\ Value(first) > 0
    <3>1. Page = GetLivers(livers, Value(first), 0, IF Given(order) THEN "" ELSE "ASC")
      <4>1. ~(~Given(first) \/ Value(first) <= 0)
        <5>1. Value(first) \in Int
          BY <2>3 DEF LiverPagesAssumption, TypeOK, Given, Value
        <5> QED BY <2>3, <5>1
      <4>2. ~(Given(cursor) /\ ~Decodes(Value(cursor)))
        BY <1>1 DEF Given
      <4> QED BY <2>1, <4>1, <4>2 DEF Livers
    <3>2. PICK d \in {"", "ASC"} : Page = GetLivers(livers, Value(first), 0, d)
      BY <3>1
    <3>3. d # "DESC" /\ Page = Limited(OrderedBy(Remaining, d), Value(first))
      BY <2>2, <3>2 DEF GetLivers
    <3> QED BY <1>3, <2>3, <3>3
  <2>4. CASE ~(Given(first) /\ Value(first) > 0)
    <3>1. Given(first) => Value(first) \in Int
      BY DEF LiverPagesAssumption, TypeOK, Given, Value
    <3>2. ~Given(first) \/ Value(first) <= 0
      BY <2>4, <3>1
    <3>3. Page = Connection(<<>>, FALSE)
      BY <2>1, <3>2 DEF Livers
    <3> QED BY <1>3, <1>6, <2>4, <3>3
  <2> QED BY <2>3, <2>4
<1> QED BY <1>5, <1>6 DEF LiverPagesAssumption, TypeOK

\* ... so a page continues where the walk stands, skips nobody, and announces
\* another one exactly when there is one.
LEMMA PageRead ==
  ASSUME LiverPagesAssumption, TypeOK, CursorOfRow, WalkAscends
  PROVE  LET edges == Page.edges
             info == NewPageInfo(Page, "LiverEdge")
         IN  /\ edges \in Seq(Remaining) /\ Len(edges) <= PageSize
             /\ \A i, j \in DOMAIN edges : i < j => edges[i] < edges[j]
             /\ \A i \in DOMAIN edges : \A l \in Remaining :
                  l <= edges[i] => \E j \in DOMAIN edges : edges[j] = l
             /\ info.hasNextPage \in BOOLEAN
             /\ info.hasNextPage <=> /\ edges # <<>> /\ Len(edges) = PageSize
                                     /\ \E l \in livers : l > edges[Len(edges)]
             /\ (via = "repository" /\ ~info.hasNextPage) =>
                  \A l \in Remaining : \E j \in DOMAIN edges : edges[j] = l
             /\ info.endCursor = IF edges = <<>> THEN {}
                                 ELSE {LiverEdgeCursor(edges[Len(edges)])}
<1> DEFINE edges == Page.edges
           info == NewPageInfo(Page, "LiverEdge")
<1>1. /\ info.hasNextPage = IF edges = <<>> THEN FALSE ELSE Page.hasNext
      /\ info.endCursor = IF edges = <<>> THEN {} ELSE {LiverEdgeCursor(edges[Len(edges)])}
  BY DEF NewPageInfo
<1>2. Remaining \in SUBSET Ids /\ Remaining \in SUBSET Int /\ IsFiniteSet(Remaining)
  <2>1. Remaining \in SUBSET Ids
    BY DEF Remaining, TypeOK
  <2>2. Ids \subseteq Int /\ IsFiniteSet(Ids)
    BY DEF LiverPagesAssumption
  <2> QED BY <2>1, <2>2, FS_Subset
<1>3. CASE Given(first) /\ Value(first) > 0
  <2>1. PICK d : d # "DESC" /\ Page = Limited(OrderedBy(Remaining, d), Value(first))
    BY <1>3, PageIsLimited
  <2>2. Value(first) \in Nat \ {0} /\ PageSize = Value(first)
    <3>1. Value(first) \in Int
      BY <1>3 DEF LiverPagesAssumption, TypeOK, Given, Value
    <3> QED BY <1>3, <3>1, MaxOfTwo DEF PageSize
  <2>3. /\ Page.hasNext \in BOOLEAN
        /\ edges \in Seq(Remaining) /\ Len(edges) <= PageSize
        /\ \A i, j \in DOMAIN edges : i < j => edges[i] < edges[j]
        /\ \A i \in DOMAIN edges : \A l \in Remaining :
             l <= edges[i] => \E j \in DOMAIN edges : edges[j] = l
        /\ ~Page.hasNext => \A l \in Remaining : \E j \in DOMAIN edges : edges[j] = l
        /\ Page.hasNext <=> /\ Len(edges) = PageSize
                            /\ \E l \in Remaining : l > edges[Len(edges)]
    BY <1>2, <2>1, <2>2, LimitedPage
  <2> HIDE DEF edges, info
  <2>4. Page.hasNext => edges # <<>>
    BY <2>2, <2>3
  <2>5. edges # <<>> => Len(edges) \in DOMAIN edges /\ edges[Len(edges)] \in Remaining
    BY <2>3
  <2>6. edges # <<>> =>
          ((\E l \in Remaining : l > edges[Len(edges)])
             <=> (\E l \in livers : l > edges[Len(edges)]))
    <3>1. ASSUME edges # <<>>, NEW l \in livers, l > edges[Len(edges)]
          PROVE  l \in Remaining
      <4>1. edges[Len(edges)] > PageFrom /\ edges[Len(edges)] \in Int
        BY <1>2, <2>5, <3>1 DEF Remaining
      <4>2. l \in Int
        BY DEF LiverPagesAssumption, TypeOK
      <4>3. PageFrom \in Int
        BY PageIsLimited
      <4> QED BY <3>1, <4>1, <4>2, <4>3 DEF Remaining
    <3>2. Remaining \subseteq livers
      BY DEF Remaining
    <3> QED BY <3>1, <3>2
  <2>7. info.hasNextPage = Page.hasNext
    BY <1>1, <2>3, <2>4
  <2> QED BY <1>1, <2>3, <2>4, <2>6, <2>7 DEF edges, info
<1>4. CASE ~(Given(first) /\ Value(first) > 0)
  <2>1. via # "repository" /\ edges = <<>>
    BY <1>4, PageIsLimited DEF Connection
  <2>2. PageSize \in Nat
    <3>1. Given(first) => Value(first) \in Int
      BY DEF LiverPagesAssumption, TypeOK, Given, Value
    <3> QED BY <3>1, MaxOfTwo DEF PageSize
  <2> HIDE DEF edges, info
  <2>3. info.hasNextPage = FALSE /\ info.endCursor = {}
    BY <1>1, <2>1
  <2>4. edges \in Seq(Remaining) /\ Len(edges) = 0 /\ DOMAIN edges = {}
    BY <2>1
  <2>5. /\ Len(edges) <= PageSize
        /\ \A i, j \in DOMAIN edges : i < j => edges[i] < edges[j]
        /\ \A i \in DOMAIN edges : \A l \in Remaining :
             l <= edges[i] => \E j \in DOMAIN edges : edges[j] = l
        /\ info.hasNextPage <=> /\ edges # <<>> /\ Len(edges) = PageSize
                                /\ \E l \in livers : l > edges[Len(edges)]
    BY <2>1, <2>2, <2>3, <2>4
  <2> QED BY <1>1, <2>1, <2>3, <2>4, <2>5 DEF edges, info
<1> QED BY <1>3, <1>4
\* A page that arrives adds its rows behind the places the walk has.
LEMMA PlacesOfPage ==
  ASSUME pages \in Seq(Seq(Ids)), NEW edges \in Seq(Ids), pages' = Append(pages, edges)
  PROVE  /\ \A p \in Places : /\ p \in Places' /\ At(p)' = At(p)
                              /\ p[1] \in 1 .. Len(pages) /\ At(p) \in Ids
         /\ \A j \in DOMAIN edges :
              \E p \in Places' : p = <<Len(pages) + 1, j>> /\ At(p)' = edges[j]
         /\ \A p \in Places' : \/ p \in Places
                               \/ \E j \in DOMAIN edges : p = <<Len(pages) + 1, j>>
<1>1. /\ DOMAIN pages = 1 .. Len(pages) /\ Len(pages) \in Nat
      /\ DOMAIN pages' = 1 .. Len(pages) + 1
      /\ \A i \in DOMAIN pages : pages'[i] = pages[i] /\ pages[i] \in Seq(Ids)
      /\ pages'[Len(pages) + 1] = edges
  OBVIOUS
<1>2. ASSUME NEW p \in Places
      PROVE  /\ p \in Places' /\ At(p)' = At(p)
             /\ p[1] \in 1 .. Len(pages) /\ At(p) \in Ids
  <2>1. PICK i \in DOMAIN pages : p \in {i} \X DOMAIN pages[i]
    BY DEF Places
  <2>2. p[1] = i /\ p[2] \in DOMAIN pages[i] /\ pages[i] \in Seq(Ids)
    BY <1>1, <2>1
  <2>3. i \in DOMAIN pages' /\ pages'[i] = pages[i]
    BY <1>1
  <2>4. p \in Places'
    BY <2>1, <2>3 DEF Places
  <2>5. At(p)' = At(p) /\ At(p) \in Ids
    BY <2>2, <2>3 DEF At
  <2> QED BY <1>1, <2>2, <2>4, <2>5
<1>3. ASSUME NEW j \in DOMAIN edges
      PROVE  \E p \in Places' : p = <<Len(pages) + 1, j>> /\ At(p)' = edges[j]
  <2>1. Len(pages) + 1 \in DOMAIN pages' /\ j \in DOMAIN pages'[Len(pages) + 1]
    BY <1>1
  <2>2. <<Len(pages) + 1, j>> \in {Len(pages) + 1} \X DOMAIN pages'[Len(pages) + 1]
    BY <2>1
  <2>3. PICK p : p = <<Len(pages) + 1, j>>
    OBVIOUS
  <2>4. p \in Places'
    BY <2>1, <2>2, <2>3 DEF Places
  <2>5. At(p)' = pages'[Len(pages) + 1][j]
    BY <2>3 DEF At
  <2> QED BY <1>1, <2>3, <2>4, <2>5
<1>4. ASSUME NEW p \in Places'
      PROVE  p \in Places \/ \E j \in DOMAIN edges : p = <<Len(pages) + 1, j>>
  <2>1. PICK i \in DOMAIN pages' : p \in {i} \X DOMAIN pages'[i]
    BY DEF Places
  <2>2. CASE i \in DOMAIN pages
    <3>1. p \in {i} \X DOMAIN pages[i]
      BY <1>1, <2>1, <2>2
    <3> QED BY <2>2, <3>1 DEF Places
  <2>3. CASE i = Len(pages) + 1
    <3>1. p \in {Len(pages) + 1} \X DOMAIN edges
      BY <1>1, <2>1, <2>3
    <3> QED BY <3>1
  <2> QED BY <1>1, <2>2, <2>3
<1> QED BY <1>2, <1>3, <1>4

\* Where a walk stands between two pages.
LEMMA WalkStands ==
  ASSUME LiverPagesAssumption, LiversIInv, via = "repository", more
  PROVE  /\ \A p \in Places : At(p) <= PageFrom
         /\ \A k \in IF pages = <<>> THEN livers ELSE atStart :
              k \in Remaining \/ \E p \in Places : At(p) = k
<1> USE DEF LiversIInv
<1>1. CASE pages = <<>>
  <2>1. Places = {} /\ PageFrom = 0
    BY <1>1 DEF WalkStarts, Places, PageFrom, Given
  <2>2. \A k \in livers : k > 0
    BY DEF TypeOK, LiverPagesAssumption
  <2> QED BY <1>1, <2>1, <2>2 DEF Remaining
<1>2. CASE pages # <<>>
  <2>1. PICK l \in Ids : cursor = {LiverEdgeCursor(l)} /\ UpTo(l)
    BY <1>2 DEF CursorTells
  <2>2. Value(cursor) = LiverEdgeCursor(l)
    BY <2>1 DEF Value
  <2>3. PageFrom = l
    BY <2>1, <2>2 DEF PageFrom, Given, Decoded, LiverEdgeCursor
  <2>4. ASSUME NEW k \in atStart, k \notin Remaining PROVE \E p \in Places : At(p) = k
    <3>1. k \in Int /\ l \in Int /\ k \in livers
      BY DEF LiverPagesAssumption, TypeOK, StartStays
    <3>2. k <= l
      BY <2>3, <2>4, <3>1 DEF Remaining
    <3> QED BY <2>1, <3>2 DEF UpTo
  <2> QED BY <1>2, <2>1, <2>3, <2>4 DEF UpTo
<1> QED BY <1>1, <1>2

LEMMA InitLivers == ASSUME LiverPagesAssumption PROVE Init => LiversIInv
<1> SUFFICES ASSUME Init PROVE LiversIInv
  OBVIOUS
<1>1. TypeOK
  BY DEF Init, TypeOK
<1>2. CursorOfRow /\ WalkStarts /\ WalkAscends /\ StartStays /\ CursorTells
  BY DEF Init, CursorOfRow, WalkStarts, WalkAscends, StartStays, CursorTells
<1>3. Places = {}
  BY DEF Init, Places
<1>4. WalkInOrder /\ WalkComplete
  BY <1>3 DEF Init, WalkInOrder, WalkComplete
<1> QED BY <1>1, <1>2, <1>4 DEF LiversIInv

\* Others register livers: the client's walk stays as it is.
LEMMA RegistrationKeepsWalk ==
  ASSUME LiverPagesAssumption, LiversIInv,
         (\E l \in Ids : Reserve(l) \/ Commit(l)) \/ UNCHANGED vars
  PROVE  LiversIInv'
<1> USE DEF LiversIInv
<1>1. /\ UNCHANGED <<via, first, orderBy, atStart, pages, cursor, more>>
      /\ livers \subseteq livers' /\ livers' \in SUBSET Ids /\ reserved' \in SUBSET Ids
  BY DEF TypeOK, Reserve, Commit, vars
<1>2. TypeOK'
  BY <1>1 DEF TypeOK
<1>3. (CursorOfRow /\ WalkStarts /\ WalkAscends /\ StartStays)'
  BY <1>1 DEF CursorOfRow, WalkStarts, WalkAscends, Continues, StartStays
<1>4. Places' = Places /\ \A p : At(p)' = At(p)
  BY <1>1 DEF Places, At
<1>5. CursorTells'
  BY <1>1, <1>4 DEF CursorTells, UpTo
<1>6. WalkInOrder' /\ WalkComplete'
  BY <1>1, <1>4 DEF WalkInOrder, WalkComplete
<1> QED BY <1>2, <1>3, <1>5, <1>6
\* A page arrives.
LEMMA FetchKeepsWalk ==
  ASSUME LiverPagesAssumption, LiversIInv, FetchPage
  PROVE  LiversIInv'
<1> USE DEF LiversIInv
<1> DEFINE edges == Page.edges
           info == NewPageInfo(Page, "LiverEdge")
           known == IF pages = <<>> THEN livers ELSE atStart
           last == edges[Len(edges)]
<1>1. /\ more
      /\ pages' = Append(pages, edges) /\ cursor' = info.endCursor
      /\ more' = info.hasNextPage /\ atStart' = known
      /\ UNCHANGED <<via, livers, reserved, first, orderBy>>
  BY DEF FetchPage
<1>2. /\ edges \in Seq(Remaining)
      /\ \A i, j \in DOMAIN edges : i < j => edges[i] < edges[j]
      /\ \A i \in DOMAIN edges : \A l \in Remaining :
           l <= edges[i] => \E j \in DOMAIN edges : edges[j] = l
      /\ info.hasNextPage \in BOOLEAN
      /\ info.hasNextPage => edges # <<>>
      /\ (via = "repository" /\ ~info.hasNextPage) =>
           \A l \in Remaining : \E j \in DOMAIN edges : edges[j] = l
      /\ info.endCursor = IF edges = <<>> THEN {} ELSE {LiverEdgeCursor(last)}
  BY PageRead
<1> HIDE DEF edges, info
<1>3. Remaining \in SUBSET Ids /\ Ids \subseteq Int /\ PageFrom \in Int
      /\ \A l \in Remaining : l > PageFrom
  <2>1. PageFrom \in Nat
    BY PageIsLimited
  <2>2. Ids \subseteq Int /\ livers \subseteq Ids
    BY DEF TypeOK, LiverPagesAssumption
  <2>3. Remaining \subseteq livers /\ \A l \in Remaining : l > PageFrom
    BY DEF Remaining
  <2> QED BY <2>1, <2>2, <2>3
<1>4. /\ edges \in Seq(Ids) /\ DOMAIN edges = 1 .. Len(edges)
      /\ \A j \in DOMAIN edges : edges[j] \in Ids /\ edges[j] > PageFrom
      /\ edges # <<>> => Len(edges) \in DOMAIN edges
  <2>1. DOMAIN edges = 1 .. Len(edges) /\ \A j \in 1 .. Len(edges) : edges[j] \in Remaining
    BY <1>2
  <2>2. \A j \in 1 .. Len(edges) : edges[j] \in Ids
    BY <1>3, <2>1
  <2>3. edges \in Seq(Ids)
    BY <1>2, <2>2
  <2>4. edges # <<>> => Len(edges) \in 1 .. Len(edges)
    BY <1>2
  <2> QED BY <1>3, <2>1, <2>2, <2>3, <2>4
<1>5. /\ \A p \in Places : /\ p \in Places' /\ At(p)' = At(p)
                           /\ p[1] \in 1 .. Len(pages) /\ At(p) \in Ids
      /\ \A j \in DOMAIN edges :
           \E p \in Places' : p = <<Len(pages) + 1, j>> /\ At(p)' = edges[j]
      /\ \A p \in Places' : \/ p \in Places
                            \/ \E j \in DOMAIN edges : p = <<Len(pages) + 1, j>>
  BY <1>1, <1>4, PlacesOfPage DEF TypeOK
<1>6. via = "repository" =>
        /\ \A p \in Places : At(p) <= PageFrom
        /\ \A k \in known : k \in Remaining \/ \E p \in Places : At(p) = k
  BY <1>1, WalkStands
<1>7. known \in SUBSET Ids /\ known \subseteq livers
  BY DEF TypeOK, StartStays
<1> HIDE DEF known
<1>8. Len(pages) \in Int /\ pages' # <<>> /\ pages' \in Seq(Seq(Ids))
  BY <1>1, <1>4 DEF TypeOK
<1>9. CursorOfRow' /\ (\A c \in cursor' : Decodes(c) /\ Decoded(c, "LiverID") \in Ids)
  <2>1. cursor' = {} \/ (cursor' = {LiverEdgeCursor(last)} /\ last \in Ids)
    BY <1>1, <1>2, <1>4
  <2> HIDE DEF last
  <2> QED BY <2>1 DEF CursorOfRow, Decodes, Decoded, LiverEdgeCursor
<1>10. TypeOK'
  BY <1>1, <1>2, <1>7, <1>8, <1>9 DEF TypeOK
<1>11. WalkStarts' /\ WalkAscends' /\ StartStays'
  BY <1>1, <1>7, <1>8 DEF WalkStarts, WalkAscends, Continues, StartStays
<1>12. CursorTells'
  <2> SUFFICES ASSUME via = "repository", edges # <<>>, NEW l \in Ids, l = last
               PROVE  cursor' = {LiverEdgeCursor(l)} /\ UpTo(l)'
    BY <1>1, <1>2, <1>4 DEF CursorTells
  <2>1. cursor' = {LiverEdgeCursor(l)} /\ Len(edges) \in DOMAIN edges /\ l > PageFrom
    BY <1>1, <1>2, <1>4
  <2>2. ASSUME NEW p \in Places' PROVE At(p)' <= l
    <3>1. CASE p \in Places
      <4>1. At(p)' = At(p) /\ At(p) <= PageFrom /\ At(p) \in Int /\ l \in Int
        BY <1>3, <1>5, <1>6, <2>1, <3>1
      <4> QED BY <1>3, <2>1, <4>1
    <3>2. ASSUME NEW j \in DOMAIN edges, p = <<Len(pages) + 1, j>>
          PROVE  At(p)' <= l
      <4>1. At(p)' = edges[j]
        BY <1>5, <3>2
      <4>2. j = Len(edges) \/ j < Len(edges)
        BY <1>4
      <4>3. edges[j] \in Int /\ l \in Int
        BY <1>3, <1>4, <2>1
      <4> QED BY <1>2, <2>1, <4>1, <4>2, <4>3
    <3> QED BY <1>5, <3>1, <3>2
  <2>3. ASSUME NEW k \in known, k <= l PROVE \E p \in Places' : At(p)' = k
    <3>1. CASE k \in Remaining
      <4>1. PICK j \in DOMAIN edges : edges[j] = k
        BY <1>2, <2>1, <2>3, <3>1
      <4> QED BY <1>5, <4>1
    <3>2. CASE \E p \in Places : At(p) = k
      BY <1>5, <3>2
    <3> QED BY <1>6, <3>1, <3>2
  <2> QED BY <1>1, <2>1, <2>2, <2>3 DEF UpTo
<1>13. WalkInOrder'
  <2> SUFFICES ASSUME via = "repository", NEW p \in Places', NEW q \in Places', Before(p, q)
               PROVE  At(p)' < At(q)'
    BY <1>1 DEF WalkInOrder, Before
  <2>1. CASE p \in Places /\ q \in Places
    BY <1>5, <2>1 DEF WalkInOrder
  <2>2. ASSUME p \in Places, NEW j \in DOMAIN edges, q = <<Len(pages) + 1, j>>
        PROVE  At(p)' < At(q)'
    <3>1. At(p)' = At(p) /\ At(p) <= PageFrom /\ At(q)' = edges[j] /\ edges[j] > PageFrom
      BY <1>4, <1>5, <1>6, <2>2
    <3>2. At(p) \in Int /\ edges[j] \in Int
      BY <1>3, <1>4, <1>5, <2>2
    <3> QED BY <1>3, <3>1, <3>2
  <2>3. ASSUME q \in Places, NEW j \in DOMAIN edges, p = <<Len(pages) + 1, j>>
        PROVE  FALSE
    <3>1. q[1] \in 1 .. Len(pages) /\ p[1] = Len(pages) + 1
      BY <1>5, <2>3
    <3> QED BY <1>8, <3>1 DEF Before
  <2>4. ASSUME NEW i \in DOMAIN edges, p = <<Len(pages) + 1, i>>,
               NEW j \in DOMAIN edges, q = <<Len(pages) + 1, j>>
        PROVE  At(p)' < At(q)'
    <3>1. i < j
      <4>1. p[1] = Len(pages) + 1 /\ q[1] = Len(pages) + 1 /\ p[2] = i /\ q[2] = j
        BY <2>4
      <4> QED BY <1>8, <4>1 DEF Before
    <3>2. At(p)' = edges[i] /\ At(q)' = edges[j]
      BY <1>5, <2>4
    <3> QED BY <1>2, <2>4, <3>1, <3>2
  <2> QED BY <1>5, <2>1, <2>2, <2>3, <2>4
<1>14. WalkComplete'
  <2> SUFFICES ASSUME via = "repository", ~info.hasNextPage, NEW k \in known
               PROVE  \E p \in Places' : At(p)' = k
    BY <1>1 DEF WalkComplete
  <2>1. CASE k \in Remaining
    <3>1. PICK j \in DOMAIN edges : edges[j] = k
      BY <1>2, <2>1
    <3> QED BY <1>5, <3>1
  <2>2. CASE \E p \in Places : At(p) = k
    BY <1>5, <2>2
  <2> QED BY <1>6, <2>1, <2>2
<1> QED BY <1>9, <1>10, <1>11, <1>12, <1>13, <1>14

LEMMA LiversInvariance == ASSUME LiverPagesAssumption PROVE Spec => []LiversIInv
<1>1. Init => LiversIInv
  BY InitLivers
<1>2. LiversIInv /\ [Next]_vars => LiversIInv'
  BY FetchKeepsWalk, RegistrationKeepsWalk DEF Next
<1> QED BY <1>1, <1>2, PTL DEF Spec

\* The variables of the walk keep their types; its cursors are always ones the
\* resolver can decode.
THEOREM WalkTypeCorrect == ASSUME LiverPagesAssumption PROVE Spec => []TypeOK
<1>1. LiversIInv => TypeOK
  BY DEF LiversIInv
<1> QED BY <1>1, LiversInvariance, PTL

\* A client that follows GetLivers with WithStartLiverID receives the livers in
\* ascending order and none twice, whatever is registered meanwhile.
THEOREM WalkKeepsOrder == ASSUME LiverPagesAssumption PROVE Spec => []WalkInOrder
<1>1. LiversIInv => WalkInOrder
  BY DEF LiversIInv
<1> QED BY <1>1, LiversInvariance, PTL

\* ... and when no further page is announced it has every liver that was there
\* when it began.
THEOREM WalkMissesNobody == ASSUME LiverPagesAssumption PROVE Spec => []WalkComplete
<1>1. LiversIInv => WalkComplete
  BY DEF LiversIInv
<1> QED BY <1>1, LiversInvariance, PTL

\* Each page of either way, over GraphQL or over the repository, announces
\* another exactly when it is full and the table goes on behind it.
THEOREM PagesAnnounceRightly ==
  ASSUME LiverPagesAssumption PROVE Spec => AnnouncesRightly
<1> DEFINE Announces ==
      pages' # pages => LET page == Last(pages')
                        IN  /\ Len(page) <= PageSize
                            /\ more' <=> /\ page # <<>>
                                         /\ Len(page) = PageSize
                                         /\ \E l \in livers : l > Last(page)
<1>1. ASSUME LiversIInv, [Next]_vars PROVE [Announces]_vars
  <2>1. CASE FetchPage
    <3> DEFINE edges == Page.edges
               info == NewPageInfo(Page, "LiverEdge")
    <3>1. pages' = Append(pages, edges) /\ more' = info.hasNextPage
      BY <2>1 DEF FetchPage
    <3>2. /\ edges \in Seq(Remaining) /\ Len(edges) <= PageSize
          /\ info.hasNextPage <=> /\ edges # <<>> /\ Len(edges) = PageSize
                                  /\ \E l \in livers : l > edges[Len(edges)]
      BY <1>1, PageRead DEF LiversIInv
    <3> HIDE DEF edges, info
    <3>3. edges \in Seq(Ids)
      <4>1. \A j \in 1 .. Len(edges) : edges[j] \in Remaining
        BY <3>2
      <4>2. Remaining \in SUBSET Ids
        BY <1>1 DEF LiversIInv, TypeOK, Remaining
      <4> QED BY <3>2, <4>1, <4>2
    <3>4. Last(pages') = edges
      BY <1>1, <3>1, <3>3 DEF LiversIInv, TypeOK, Last
    <3> QED BY <3>1, <3>2, <3>4 DEF Last
  <2>2. CASE UNCHANGED pages
    BY <2>2
  <2> QED BY <1>1, <2>1, <2>2 DEF Next, Reserve, Commit, vars
<1>2. LiversIInv /\ [Next]_vars => [Announces]_vars
  BY <1>1
<1> QED BY <1>2, LiversInvariance, PTL DEF Spec, AnnouncesRightly
-----------------------------------------------------------------------------
(* The groups of a liver.                                                    *)

\* GroupPages, an instance, has the operators of Connections under names of its
\* own; they are the same ones.
LEMMA SameCounts ==
  ASSUME NEW S
  PROVE  /\ GroupList!Cardinality(S) = Cardinality(S)
         /\ GroupList!IsFiniteSet(S) <=> IsFiniteSet(S)
<1>1. GroupList!Cardinality(S) = Cardinality(S)
  BY DEF GroupList!Cardinality, Cardinality
<1>2. GroupList!IsFiniteSet(S) <=> IsFiniteSet(S)
  BY DEF GroupList!IsFiniteSet, IsFiniteSet
<1> QED BY <1>1, <1>2

LEMMA SameOrder ==
  ASSUME NEW S \in SUBSET Int, IsFiniteSet(S), NEW d, d # "DESC"
  PROVE  GroupList!OrderedBy(S, d) = OrderedBy(S, d)
<1> DEFINE before(x) == {y \in S : IF d = "DESC" THEN y > x ELSE y < x}
           place == [x \in S |-> Cardinality({y \in S : y < x}) + 1]
           P(x, i) == Cardinality(before(x)) = i - 1
           Q(x, i) == GroupList!Cardinality(before(x)) = i - 1
           n == Cardinality(S)
           row(i) == CHOOSE x \in S : P(x, i)
           groupRow(i) == CHOOSE x \in S : Q(x, i)
<1>1. /\ OrderedBy(S, d) = [i \in 1 .. n |-> row(i)]
      /\ GroupList!OrderedBy(S, d) = [i \in 1 .. GroupList!Cardinality(S) |-> groupRow(i)]
  BY DEF OrderedBy, InOrder, GroupList!OrderedBy, GroupList!InOrder
<1>2. place \in Bijection(S, 1 .. n)
  BY PlacesOfElements
<1>3. ASSUME NEW x \in S, NEW i \in 1 .. n
      PROVE  (P(x, i) <=> place[x] = i) /\ (Q(x, i) <=> P(x, i))
  <2>1. {y \in S : y < x} \in SUBSET S
    OBVIOUS
  <2>2. Cardinality({y \in S : y < x}) \in Nat
    BY <2>1, FS_Subset, FS_CardinalityType
  <2>3. before(x) = {y \in S : y < x}
    OBVIOUS
  <2>4. i \in Int
    OBVIOUS
  <2>5. GroupList!Cardinality(before(x)) = Cardinality(before(x))
    BY SameCounts
  <2>6. place[x] = Cardinality(before(x)) + 1
    BY <2>3
  <2> HIDE DEF before, place
  <2> QED BY <2>2, <2>3, <2>4, <2>5, <2>6
<1> HIDE DEF P, Q, place, n
<1>4. ASSUME NEW i \in 1 .. n PROVE groupRow(i) = row(i)
  <2>1. PICK x \in S : place[x] = i
    BY <1>2 DEF Bijection, Surjection
  <2>2. row(i) \in S /\ P(row(i), i)
    BY <1>3, <2>1
  <2>3. groupRow(i) \in S /\ Q(groupRow(i), i)
    BY <1>3, <2>1
  <2> HIDE DEF row, groupRow
  <2>4. place[row(i)] = place[groupRow(i)]
    BY <1>3, <2>2, <2>3
  <2> QED BY <1>2, <2>2, <2>3, <2>4 DEF Bijection, Injection, IsInjective
<1>5. GroupList!Cardinality(S) = n
  BY SameCounts DEF n
<1> HIDE DEF row, groupRow
<1> QED BY <1>1, <1>4, <1>5

LEMMA SameKept ==
  ASSUME NEW T, NEW rows \in Seq(T), NEW from
  PROVE  GroupList!Kept(rows, from) = Kept(rows, from)
<1> DEFINE I == {i \in DOMAIN rows : ~(rows[i] < from)}
<1>1. I \in SUBSET (1 .. Len(rows)) /\ I \in SUBSET Int /\ Len(rows) \in Nat
  OBVIOUS
<1>2. IsFiniteSet(I)
  <2>1. IsFiniteSet(1 .. Len(rows))
    BY <1>1, FS_Interval
  <2> HIDE DEF I
  <2> QED BY <1>1, <2>1, FS_Subset
<1>3. PICK d : d = "ASC"
  OBVIOUS
<1> HIDE DEF I
<1>4. GroupList!OrderedBy(I, d) = OrderedBy(I, d)
  <2>1. d # "DESC"
    BY <1>3
  <2> QED BY <1>1, <1>2, <2>1, SameOrder
<1> QED BY <1>3, <1>4 DEF GroupList!Kept, Kept, I

LEMMA SameGroups ==
  ASSUME NEW T, NEW rows \in Seq(T), NEW a
  PROVE  GroupList!GroupsOf(rows, first, a) = GroupsOf(rows, first, a)
<1>1. \A from : GroupList!Kept(rows, from) = Kept(rows, from)
  BY SameKept
<1>2. \A k, f : GroupList!PageOf(k, f) = PageOf(k, f)
  BY DEF GroupList!PageOf, PageOf, GroupList!Prefix, Prefix,
         GroupList!Min, Min, GroupList!Max, Max
<1> QED BY <1>1, <1>2
        DEF GroupList!GroupsOf, GroupsOf, GroupList!Given, Given, GroupList!Value, Value,
            GroupList!Decoded, Decoded, GroupList!Decodes, Decodes, GroupList!Failure,
            Failure, GroupList!Connection, Connection, GroupList!HasNext, HasNext

LEMMA SameOperators ==
  /\ GroupList!Failure = Failure
  /\ \A edges, hasNext : GroupList!Connection(edges, hasNext) = Connection(edges, hasNext)
  /\ \A arg : (GroupList!Given(arg) <=> Given(arg)) /\ GroupList!Value(arg) = Value(arg)
  /\ \A c : GroupList!Decodes(c) <=> Decodes(c)
  /\ \A c, field : GroupList!Decoded(c, field) = Decoded(c, field)
  /\ \A s : GroupList!ToSet(s) = ToSet(s)
  /\ \A conn, type : GroupList!NewPageInfo(conn, type) = NewPageInfo(conn, type)
<1>1. GroupList!Failure = Failure
  BY DEF GroupList!Failure, Failure
<1>2. \A edges, hasNext : GroupList!Connection(edges, hasNext) = Connection(edges, hasNext)
  BY DEF GroupList!Connection, Connection
<1>3. \A arg : (GroupList!Given(arg) <=> Given(arg)) /\ GroupList!Value(arg) = Value(arg)
  BY DEF GroupList!Given, Given, GroupList!Value, Value
<1>4. \A c : GroupList!Decodes(c) <=> Decodes(c)
  BY DEF GroupList!Decodes, Decodes
<1>5. \A c, field : GroupList!Decoded(c, field) = Decoded(c, field)
  BY DEF GroupList!Decoded, Decoded
<1>6. \A s : GroupList!ToSet(s) = ToSet(s)
  BY DEF GroupList!ToSet, ToSet
<1>7. \A conn, type : GroupList!NewPageInfo(conn, type) = NewPageInfo(conn, type)
  BY DEF GroupList!NewPageInfo, NewPageInfo, GroupList!LiverEdgeCursor, LiverEdgeCursor,
         GroupList!LiverGroupEdgeCursor, LiverGroupEdgeCursor
<1> QED BY <1>1, <1>2, <1>3, <1>4, <1>5, <1>6, <1>7

\* A cursor the client may hold, and where the resolver begins with it.
CursorTyped(a) == a = {} \/ (a # {} /\ Decoded(Value(a), "GroupID") \in Nat)
FromOf(a) == IF Given(a) THEN Decoded(Value(a), "GroupID") ELSE 0
SizeOf == IF Given(first) THEN Value(first) ELSE 0

\* What a page of groups holds of the rows it is cut from.
LEMMA GroupsPage ==
  ASSUME GroupList!GroupPagesAssumption, first \in Firsts,
         NEW rows \in Seq(GroupIds), NEW a, CursorTyped(a),
         GroupsOf(rows, first, a) # Failure
  PROVE  LET conn == GroupsOf(rows, first, a)
         IN  /\ conn.edges \in Seq(GroupIds)
             /\ conn.hasNext = (Len(rows) > SizeOf)
             /\ SizeOf \in Int /\ Len(rows) \in Nat /\ FromOf(a) \in Nat
             /\ SizeOf >= 1 => Len(conn.edges) <= SizeOf
             /\ (conn.edges = <<>> \/ Len(rows) <= SizeOf) =>
                  \A i \in DOMAIN rows : rows[i] >= FromOf(a) =>
                    \E n \in DOMAIN conn.edges : conn.edges[n] = rows[i]
<1> DEFINE conn == GroupsOf(rows, first, a)
           kept == Kept(rows, FromOf(a))
           size == Max({SizeOf, 1})
           edges == Prefix(kept, size)
<1>1. FromOf(a) \in Nat /\ Len(rows) \in Nat
  BY DEF CursorTyped, FromOf, Given
<1>2. SizeOf \in Int
  BY DEF GroupList!GroupPagesAssumption, SizeOf, Given, Value
<1>3. size \in Nat /\ size >= 1 /\ size = IF SizeOf >= 1 THEN SizeOf ELSE 1
  BY <1>2, MaxOfTwo
<1>4. conn.edges = edges /\ conn.hasNext = (Len(rows) > SizeOf)
  BY DEF GroupsOf, PageOf, HasNext, Connection, FromOf, SizeOf
<1> HIDE DEF conn, size
<1>5. /\ kept \in Seq(GroupIds) /\ Len(kept) <= Len(rows)
      /\ \A i \in DOMAIN rows : rows[i] >= FromOf(a) =>
           \E n \in DOMAIN kept : kept[n] = rows[i]
  <2>1. GroupIds \in SUBSET Int /\ FromOf(a) \in Int
    BY <1>1 DEF GroupList!GroupPagesAssumption
  <2> QED BY <2>1, RowsKept
<1> HIDE DEF kept
<1>6. /\ edges \in Seq(GroupIds)
      /\ Len(edges) = IF size <= Len(kept) THEN size ELSE Len(kept)
      /\ \A i \in 1 .. Len(edges) : edges[i] = kept[i]
  BY <1>3, <1>5, FirstRows
<1> HIDE DEF edges
<1>7. SizeOf >= 1 => Len(edges) <= SizeOf
  BY <1>2, <1>3, <1>5, <1>6
<1>8. ASSUME edges = <<>> \/ Len(rows) <= SizeOf,
             NEW i \in DOMAIN rows, rows[i] >= FromOf(a)
      PROVE  \E n \in DOMAIN edges : edges[n] = rows[i]
  <2>1. PICK n \in DOMAIN kept : kept[n] = rows[i]
    BY <1>5, <1>8
  <2>2. Len(edges) = Len(kept)
    BY <1>1, <1>2, <1>3, <1>5, <1>6, <1>8
  <2>3. n \in 1 .. Len(edges) /\ n \in DOMAIN edges
    BY <1>5, <1>6, <2>2
  <2> QED BY <1>6, <2>1, <2>3
<1>9. /\ conn.edges \in Seq(GroupIds)
      /\ SizeOf >= 1 => Len(conn.edges) <= SizeOf
      /\ (conn.edges = <<>> \/ Len(rows) <= SizeOf) =>
           \A i \in DOMAIN rows : rows[i] >= FromOf(a) =>
             \E n \in DOMAIN conn.edges : conn.edges[n] = rows[i]
  BY <1>4, <1>6, <1>7, <1>8
<1> QED BY <1>1, <1>2, <1>4, <1>9 DEF conn
\* The answer is the one the resolver makes of the rows and cursor of the request.
AnswerOfRows == GroupList!IsPage => reply = GroupsOf(asked.rows, first, asked.after)
CursorsTyped == CursorTyped(after) /\ CursorTyped(asked.after)

GroupsIInv == GroupList!TypeOK /\ CursorsTyped /\ AnswerOfRows

LEMMA InitGroups ==
  ASSUME GroupList!GroupPagesAssumption PROVE GroupList!Init => GroupsIInv
<1> SUFFICES ASSUME GroupList!Init PROVE GroupsIInv
  OBVIOUS
<1> USE DEF GroupList!Init
<1>1. GroupList!TypeOK
  <2>1. reply.edges = <<>> /\ <<>> \in Seq(GroupIds)
    BY DEF GroupList!NoReply, GroupList!Connection
  <2>2. asked.rows = <<>>
    OBVIOUS
  <2> QED BY <2>1, <2>2 DEF GroupList!TypeOK
<1>2. CursorTyped(after) /\ CursorTyped(asked.after)
  <2>1. ASSUME after # {} PROVE Decoded(Value(after), "GroupID") \in Nat
    <3>1. Value(after) \in after
      BY <2>1 DEF Value
    <3>2. Value(after).id \in Nat
      BY <3>1 DEF GroupList!GroupPagesAssumption
    <3> QED BY <3>2 DEF Decoded
  <2> QED BY <2>1 DEF CursorTyped
<1>3. AnswerOfRows
  BY DEF AnswerOfRows, GroupList!IsPage
<1> QED BY <1>1, <1>2, <1>3 DEF GroupsIInv, CursorsTyped

\* The rows of an answer are groups, in whatever order.
LEMMA RowsOfGroups ==
  ASSUME GroupList!GroupPagesAssumption, GroupList!TypeOK, NEW rows \in GroupList!RowOrders
  PROVE  rows \in Seq(GroupIds)
<1>1. belongs \in SUBSET GroupIds /\ belongs \in SUBSET Int /\ IsFiniteSet(belongs)
  <2>1. belongs \in SUBSET GroupIds /\ GroupIds \subseteq Int /\ IsFiniteSet(GroupIds)
    BY SameCounts DEF GroupList!TypeOK, GroupList!GroupPagesAssumption
  <2> QED BY <2>1, FS_Subset
<1>2. CASE ordered
  <2>1. PICK d : d = "ASC"
    OBVIOUS
  <2>2. d # "DESC" /\ rows = GroupList!OrderedBy(belongs, d)
    BY <1>2, <2>1 DEF GroupList!RowOrders
  <2>3. rows \in Seq(belongs)
    BY <1>1, <2>2, SameOrder, Ascending
  <2>4. Len(rows) \in Nat /\ rows \in [1 .. Len(rows) -> belongs]
    BY <2>3
  <2>5. rows \in [1 .. Len(rows) -> GroupIds]
    BY <1>1, <2>4
  <2> QED BY <2>4, <2>5
<1>3. CASE ~ordered
  <2>1. Cardinality(belongs) \in Nat
    BY <1>1, FS_CardinalityType
  <2>2. rows \in [1 .. Cardinality(belongs) -> belongs]
    BY <1>3, SameCounts DEF GroupList!RowOrders, GroupList!SetToSeqs
  <2>3. rows \in [1 .. Cardinality(belongs) -> GroupIds]
    BY <1>1, <2>2
  <2> QED BY <2>1, <2>3
<1> QED BY <1>2, <1>3

LEMMA NextKeepsGroups ==
  ASSUME GroupList!GroupPagesAssumption, GroupsIInv, [GroupList!Next]_(GroupList!vars)
  PROVE  GroupsIInv'
<1> USE DEF GroupsIInv, CursorsTyped
<1>1. CASE GroupList!FetchPage
  <2>1. PICK rows \in GroupList!RowOrders :
          LET conn == GroupsOf(rows, first, after)
              info == NewPageInfo(conn, "LiverGroupEdge")
          IN  /\ asked' = [rows |-> rows, after |-> after]
              /\ reply' = conn
              /\ IF conn = Failure
                 THEN more' = FALSE /\ UNCHANGED <<after, seen>>
                 ELSE /\ more' = info.hasNextPage
                      /\ after' = IF Given(info.endCursor) THEN info.endCursor ELSE after
                      /\ seen' = seen \cup ToSet(conn.edges)
    <3>1. \A rows \in GroupList!RowOrders :
            GroupList!GroupsOf(rows, first, after) = GroupsOf(rows, first, after)
      BY RowsOfGroups, SameGroups
    <3> QED BY <1>1, <3>1, SameOperators DEF GroupList!FetchPage
  <2>2. UNCHANGED <<ordered, belongs, first>>
    BY <1>1 DEF GroupList!FetchPage
  <2> DEFINE conn == GroupsOf(rows, first, after)
             info == NewPageInfo(conn, "LiverGroupEdge")
  <2>3. rows \in Seq(GroupIds)
    BY RowsOfGroups
  <2>4. asked'.rows = rows /\ asked'.after = after /\ reply' = conn
    BY <2>1
  <2>5. AnswerOfRows' /\ CursorTyped(asked.after)'
    BY <2>2, <2>4 DEF AnswerOfRows, CursorTyped
  <2>6. CASE conn = Failure
    <3>1. more' = FALSE /\ UNCHANGED <<after, seen>>
      BY <2>1, <2>6
    <3>2. GroupList!TypeOK'
      BY <2>2, <2>3, <2>4, <2>6, <3>1, SameOperators DEF GroupList!TypeOK
    <3> QED BY <2>5, <3>1, <3>2 DEF CursorTyped
  <2>7. CASE conn # Failure
    <3>1. /\ more' = info.hasNextPage
          /\ after' = IF Given(info.endCursor) THEN info.endCursor ELSE after
          /\ seen' = seen \cup ToSet(conn.edges)
      BY <2>1, <2>7
    <3>2. conn.edges \in Seq(GroupIds) /\ conn.hasNext \in BOOLEAN
      <4>1. first \in Firsts
        BY DEF GroupList!TypeOK
      <4>2. conn.edges \in Seq(GroupIds) /\ conn.hasNext = (Len(rows) > SizeOf)
        BY <2>3, <2>7, <4>1, GroupsPage
      <4> QED BY <4>2
    <3>3. /\ info.hasNextPage = IF conn.edges = <<>> THEN FALSE ELSE conn.hasNext
          /\ info.endCursor = IF conn.edges = <<>> THEN {}
                              ELSE {LiverGroupEdgeCursor(conn.edges[Len(conn.edges)])}
      BY DEF NewPageInfo
    <3> HIDE DEF conn, info
    <3>4. conn.edges # <<>> => conn.edges[Len(conn.edges)] \in GroupIds
      BY <3>2
    <3>5. after' = after \/ \E g \in GroupIds : after' = {LiverGroupEdgeCursor(g)}
      BY <3>1, <3>3, <3>4 DEF Given
    <3>6. CursorTyped(after)'
      <4>1. CASE after' = after
        BY <4>1 DEF CursorTyped
      <4>2. ASSUME NEW g \in GroupIds, after' = {LiverGroupEdgeCursor(g)}
            PROVE  CursorTyped(after)'
        <5>1. Value(after') = LiverGroupEdgeCursor(g) /\ after' # {}
          BY <4>2 DEF Value
        <5>2. g \in Nat
          BY DEF GroupList!GroupPagesAssumption
        <5> QED BY <5>1, <5>2 DEF CursorTyped, Decoded, LiverGroupEdgeCursor
      <4> QED BY <3>5, <4>1, <4>2
    <3>7. (after \in Afters \/ \A c \in after : Decodes(c) /\ Decoded(c, "GroupID") \in GroupIds)'
      <4>1. \A g \in GroupIds :
              /\ Decodes(LiverGroupEdgeCursor(g))
              /\ Decoded(LiverGroupEdgeCursor(g), "GroupID") = g
        BY DEF Decodes, Decoded, LiverGroupEdgeCursor
      <4> QED BY <3>5, <4>1, SameOperators DEF GroupList!TypeOK
    <3>8. seen' \in SUBSET GroupIds
      BY <3>1, <3>2 DEF GroupList!TypeOK, ToSet
    <3>9. GroupList!TypeOK'
      BY <2>2, <2>3, <2>4, <3>1, <3>2, <3>3, <3>7, <3>8, SameOperators DEF GroupList!TypeOK
    <3> QED BY <2>5, <3>6, <3>9
  <2> QED BY <2>6, <2>7
<1>2. CASE GroupList!LoaderFails
  <2>1. /\ asked'.rows = <<>> /\ asked'.after = after /\ reply' = Failure
        /\ UNCHANGED <<ordered, belongs, first, after, more, seen>>
    BY <1>2, SameOperators DEF GroupList!LoaderFails
  <2>2. GroupList!TypeOK'
    <3>1. asked'.rows \in Seq(GroupIds)
      BY <2>1
    <3> QED BY <2>1, <3>1, SameOperators DEF GroupList!TypeOK
  <2>3. AnswerOfRows'
    BY <2>1, SameOperators DEF AnswerOfRows, GroupList!IsPage
  <2> QED BY <2>1, <2>2, <2>3 DEF CursorTyped
<1>3. ASSUME UNCHANGED <<ordered, first, after, asked, reply, more, seen>>,
             belongs' \in SUBSET GroupIds
      PROVE  GroupsIInv'
  <2>1. GroupList!TypeOK'
    BY <1>3 DEF GroupList!TypeOK
  <2> QED BY <1>3, <2>1 DEF CursorTyped, AnswerOfRows, GroupList!IsPage
<1>4. CASE \E g \in GroupIds : GroupList!Join(g) \/ GroupList!Leave(g)
  BY <1>3, <1>4 DEF GroupList!Join, GroupList!Leave, GroupList!TypeOK
<1>5. CASE UNCHANGED GroupList!vars
  BY <1>3, <1>5 DEF GroupList!vars, GroupList!TypeOK
<1> QED BY <1>1, <1>2, <1>4, <1>5 DEF GroupList!Next

LEMMA GroupsInvariance ==
  ASSUME GroupList!GroupPagesAssumption PROVE GroupList!Spec => []GroupsIInv
<1>1. GroupList!Init => GroupsIInv
  BY InitGroups
<1>2. GroupsIInv /\ [GroupList!Next]_(GroupList!vars) => GroupsIInv'
  BY NextKeepsGroups
<1> QED BY <1>1, <1>2, PTL DEF GroupList!Spec

\* The variables of the client of a liver's groups keep their types; every cursor
\* it is given is one of a group.
THEOREM GroupPagesTypeCorrect ==
  ASSUME GroupList!GroupPagesAssumption PROVE GroupList!Spec => []GroupList!TypeOK
<1>1. GroupsIInv => GroupList!TypeOK
  BY DEF GroupsIInv
<1> QED BY <1>1, GroupsInvariance, PTL

LEMMA AnnouncedNext ==
  ASSUME GroupList!GroupPagesAssumption, GroupsIInv PROVE AnnouncesNext
<1> DEFINE edges == reply.edges
           rows == asked.rows
<1>1. ASSUME GroupList!IsPage
      PROVE  /\ ~GroupList!HasNextPage =>
                  \A g \in ToSet(rows) : g >= GroupList!From => g \in ToSet(edges)
             /\ (asked.after = {} /\ GroupList!PageSize >= 1 /\ GroupList!HasNextPage)
                  => Len(edges) < Len(rows)
  <2>1. rows \in Seq(GroupIds) /\ first \in Firsts /\ CursorTyped(asked.after)
    BY <1>1 DEF GroupsIInv, CursorsTyped, GroupList!TypeOK
  <2>2. GroupsOf(rows, first, asked.after) # Failure /\ reply = GroupsOf(rows, first, asked.after)
    BY <1>1, SameOperators DEF GroupsIInv, AnswerOfRows, GroupList!IsPage
  <2>3. GroupList!From = FromOf(asked.after) /\ GroupList!PageSize = SizeOf
    BY SameOperators DEF GroupList!From, GroupList!PageSize, FromOf, SizeOf
  <2>4. GroupList!HasNextPage = IF edges = <<>> THEN FALSE ELSE reply.hasNext
    BY SameOperators DEF GroupList!HasNextPage, NewPageInfo
  <2>5. /\ edges \in Seq(GroupIds)
        /\ reply.hasNext = (Len(rows) > SizeOf)
        /\ SizeOf \in Int /\ Len(rows) \in Nat
        /\ SizeOf >= 1 => Len(edges) <= SizeOf
        /\ (edges = <<>> \/ Len(rows) <= SizeOf) =>
             \A i \in DOMAIN rows : rows[i] >= FromOf(asked.after) =>
               \E n \in DOMAIN edges : edges[n] = rows[i]
    BY <2>1, <2>2, GroupsPage
  <2> HIDE DEF edges, rows
  <2>6. ~GroupList!HasNextPage <=> edges = <<>> \/ Len(rows) <= SizeOf
    <3>1. CASE edges = <<>>
      BY <2>4, <3>1
    <3>2. CASE edges # <<>>
      <4>1. GroupList!HasNextPage <=> Len(rows) > SizeOf
        BY <2>4, <2>5, <3>2
      <4> QED BY <2>5, <3>2, <4>1
    <3> QED BY <3>1, <3>2
  <2>7. ASSUME ~GroupList!HasNextPage, NEW g \in ToSet(rows), g >= GroupList!From
        PROVE  g \in ToSet(edges)
    <3>1. PICK i \in DOMAIN rows : rows[i] = g
      BY DEF ToSet
    <3>2. PICK n \in DOMAIN edges : edges[n] = g
      BY <2>3, <2>5, <2>6, <2>7, <3>1
    <3> QED BY <3>2 DEF ToSet
  <2>8. ASSUME GroupList!PageSize >= 1, GroupList!HasNextPage PROVE Len(edges) < Len(rows)
    <3>1. Len(edges) \in Nat /\ Len(edges) <= SizeOf /\ ~(Len(rows) <= SizeOf)
      BY <2>3, <2>5, <2>6, <2>8
    <3> QED BY <2>5, <3>1
  <2> QED BY <2>7, <2>8
<1> QED BY <1>1, SameOperators DEF AnnouncesNext, GroupList!AnnouncesNext

\* A page of groups that announces no other holds every group of the answer from
\* its cursor on, whatever the order of the rows, the cursor and the page size; a
\* first page announces another only when groups are left.
THEOREM GroupPagesAnnounce ==
  ASSUME GroupList!GroupPagesAssumption PROVE GroupList!Spec => []AnnouncesNext
<1>1. GroupsIInv => AnnouncesNext
  BY AnnouncedNext
<1> QED BY <1>1, GroupsInvariance, PTL
-----------------------------------------------------------------------------
(* Side by side.                                                             *)

\* The client that asks keeps its invariant, and the other one rests.
PagesIInv == \/ of = "livers" /\ LiversIInv /\ GroupsRest
             \/ of = "groups" /\ GroupsIInv /\ LiversRest

LEMMA PagesInvariance == PagesSpec => []PagesIInv
<1> USE PagesAssumption
<1>1. PagesInit => PagesIInv
  BY InitLivers, InitGroups DEF PagesInit, PagesIInv
<1>2. ASSUME PagesIInv, [PagesNext]_allVars PROVE PagesIInv'
  <2>1. CASE of = "livers"
    <3>1. LiversIInv /\ GroupsRest
      BY <1>2, <2>1 DEF PagesIInv
    <3>2. [Next]_vars /\ UNCHANGED <<of, groupVars>>
      BY <1>2, <2>1 DEF PagesNext, allVars, liverVars, vars
    <3>3. LiversIInv'
      BY <3>1, <3>2, FetchKeepsWalk, RegistrationKeepsWalk DEF Next
    <3>4. GroupsRest'
      BY <3>1, <3>2 DEF GroupsRest, groupVars, GroupList!NoReply
    <3> QED BY <2>1, <3>2, <3>3, <3>4 DEF PagesIInv
  <2>2. CASE of = "groups"
    <3>1. GroupsIInv /\ LiversRest
      BY <1>2, <2>2 DEF PagesIInv
    <3>2. [GroupList!Next]_(GroupList!vars) /\ UNCHANGED <<of, liverVars>>
      BY <1>2, <2>2 DEF PagesNext, allVars, groupVars, GroupList!vars
    <3>3. GroupsIInv'
      BY <3>1, <3>2, NextKeepsGroups
    <3>4. LiversRest'
      BY <3>1, <3>2 DEF LiversRest, liverVars
    <3> QED BY <2>2, <3>2, <3>3, <3>4 DEF PagesIInv
  <2> QED BY <1>2, <2>1, <2>2 DEF PagesIInv
<1>3. PagesIInv /\ [PagesNext]_allVars => PagesIInv'
  BY <1>2
<1> QED BY <1>1, <1>3, PTL DEF PagesSpec

\* Side by side, the clients of both connections keep the types of their variables.
THEOREM PagesTypeCorrect == PagesSpec => []PagesTypeOK
<1>1. PagesIInv => PagesTypeOK
  BY DEF PagesIInv, LiversIInv, GroupsIInv, PagesTypeOK
<1> QED BY <1>1, PagesInvariance, PTL

\* ... and what was shown of each of them still holds.
THEOREM PagesKeepPromises == PagesSpec => [](WalkInOrder /\ WalkComplete /\ AnnouncesNext)
<1>1. PagesIInv => WalkInOrder /\ WalkComplete
  BY DEF PagesIInv, LiversIInv, LiversRest, WalkInOrder, WalkComplete
<1>2. PagesIInv => AnnouncesNext
  BY PagesAssumption, AnnouncedNext
     DEF PagesIInv, GroupsRest, AnnouncesNext, GroupList!AnnouncesNext, GroupList!IsPage
<1> QED BY <1>1, <1>2, PagesInvariance, PTL
==============================================================================

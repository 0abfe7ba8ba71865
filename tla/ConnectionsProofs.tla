--------------------------- MODULE ConnectionsProofs ---------------------------
(* Lemmas about the operators of Connections: what a page is of the rows it is *)
(* cut from, for any rows, page sizes and directions.                          *)
EXTENDS Connections, FiniteSetTheorems, TLAPS

-----------------------------------------------------------------------------
(* Sorting, LIMIT and page sizes.                                            *)

LEMMA MinOfTwo == ASSUME NEW a \in Int, NEW b \in Int
                  PROVE  Min({a, b}) = IF a <= b THEN a ELSE b
<1>1. ASSUME NEW m \in {a, b}, \A y \in {a, b} : m <= y
      PROVE  m = IF a <= b THEN a ELSE b
  BY <1>1
<1>2. \E m \in {a, b} : \A y \in {a, b} : m <= y
  OBVIOUS
<1> QED BY <1>1, <1>2 DEF Min

LEMMA MaxOfTwo == ASSUME NEW a \in Int, NEW b \in Int
                  PROVE  Max({a, b}) = IF a >= b THEN a ELSE b
<1>1. ASSUME NEW m \in {a, b}, \A y \in {a, b} : m >= y
      PROVE  m = IF a >= b THEN a ELSE b
  BY <1>1
<1>2. \E m \in {a, b} : \A y \in {a, b} : m >= y
  OBVIOUS
<1> QED BY <1>1, <1>2 DEF Max

\* The place of an element is the number of those before it: places are told
\* apart, and every place is taken.
LEMMA PlacesOfElements ==
  ASSUME NEW S \in SUBSET Int, IsFiniteSet(S)
  PROVE  LET place == [x \in S |-> Cardinality({y \in S : y < x}) + 1]
         IN  /\ place \in Bijection(S, 1 .. Cardinality(S))
             /\ \A x, y \in S : x < y <=> place[x] < place[y]
<1> DEFINE below(x) == {y \in S : y < x}
           place == [x \in S |-> Cardinality(below(x)) + 1]
           n == Cardinality(S)
<1>1. n \in Nat
  BY FS_CardinalityType
<1>2. ASSUME NEW x \in S
      PROVE  /\ IsFiniteSet(below(x)) /\ Cardinality(below(x)) \in Nat
             /\ Cardinality(below(x)) < n
  <2>1. below(x) \in SUBSET S /\ x \notin below(x)
    OBVIOUS
  <2>2. IsFiniteSet(below(x)) /\ Cardinality(below(x)) <= n /\ Cardinality(below(x)) # n
    BY <2>1, FS_Subset
  <2>3. Cardinality(below(x)) \in Nat
    BY <2>2, FS_CardinalityType
  <2> QED BY <1>1, <2>2, <2>3
<1>3. ASSUME NEW x \in S, NEW y \in S, x < y
      PROVE  Cardinality(below(x)) < Cardinality(below(y))
  <2>1. ASSUME NEW z \in below(x) PROVE z \in below(y)
    <3>1. z \in Int /\ x \in Int /\ y \in Int /\ z \in S /\ z < x
      BY <2>1
    <3> QED BY <1>3, <3>1
  <2>2. below(x) \in SUBSET below(y) /\ x \in below(y) /\ x \notin below(x)
    <3>1. x \in below(y) /\ x \notin below(x)
      BY <1>3
    <3>2. below(x) \in SUBSET below(y)
      <4> HIDE DEF below
      <4> QED BY <2>1
    <3> QED BY <3>1, <3>2
  <2>3. Cardinality(below(x)) <= Cardinality(below(y)) /\ Cardinality(below(x)) # Cardinality(below(y))
    BY <1>2, <2>2, FS_Subset
  <2> QED BY <1>2, <2>3
<1>4. place \in [S -> 1 .. n] /\ \A x, y \in S : x < y => place[x] < place[y]
  BY <1>1, <1>2, <1>3
<1> HIDE DEF place, n
<1>5. \A x, y \in S : x # y => place[x] # place[y]
  <2>1. \A x, y \in S : x # y => x < y \/ y < x
    OBVIOUS
  <2>2. \A x \in S : place[x] \in Int
    BY <1>1, <1>4
  <2> QED BY <1>4, <2>1, <2>2
<1>6. place \in Injection(S, 1 .. n)
  BY <1>4, <1>5 DEF Injection, IsInjective
<1>7. IsFiniteSet(1 .. n) /\ Cardinality(1 .. n) = n
  BY <1>1, FS_Interval
<1>8. place \in Surjection(S, 1 .. n)
  BY <1>6, <1>7, FS_Injection DEF n
<1>9. \A x, y \in S : x < y <=> place[x] < place[y]
  <2>1. \A x, y \in S : x < y \/ y < x \/ x = y
    OBVIOUS
  <2>2. \A x \in S : place[x] \in Int
    BY <1>1, <1>4
  <2> QED BY <1>4, <2>1, <2>2
<1>10. place \in Bijection(S, 1 .. n) /\ \A x, y \in S : x < y <=> place[x] < place[y]
  BY <1>6, <1>8, <1>9 DEF Bijection
<1> QED BY <1>10 DEF place, n

\* ORDER BY ... ASC: the rows, each once, in ascending order.
LEMMA Ascending ==
  ASSUME NEW S \in SUBSET Int, IsFiniteSet(S), NEW d, d # "DESC"
  PROVE  LET rows == OrderedBy(S, d)
         IN  /\ rows \in Seq(S) /\ Len(rows) = Cardinality(S)
             /\ \A i, j \in DOMAIN rows : i < j => rows[i] < rows[j]
             /\ \A x \in S : \E i \in DOMAIN rows : rows[i] = x
<1> DEFINE place == [x \in S |-> Cardinality({y \in S : y < x}) + 1]
           n == Cardinality(S)
           rows == OrderedBy(S, d)
<1>1. place \in Bijection(S, 1 .. n) /\ \A x, y \in S : x < y <=> place[x] < place[y]
  BY PlacesOfElements
<1>2. n \in Nat
  BY FS_CardinalityType
<1> DEFINE row(i) == CHOOSE x \in S :
                       Cardinality({y \in S : IF d = "DESC" THEN y > x ELSE y < x}) = i - 1
<1>3. rows = [i \in 1 .. n |-> row(i)]
  BY DEF OrderedBy, InOrder
<1>4. \A x \in S : {y \in S : IF d = "DESC" THEN y > x ELSE y < x} = {y \in S : y < x}
  OBVIOUS
<1>5. ASSUME NEW x \in S
      PROVE  Cardinality({y \in S : IF d = "DESC" THEN y > x ELSE y < x}) = place[x] - 1
  <2>1. Cardinality({y \in S : y < x}) \in Nat
    <3>1. {y \in S : y < x} \in SUBSET S
      OBVIOUS
    <3> QED BY <3>1, FS_Subset, FS_CardinalityType
  <2>2. place[x] = Cardinality({y \in S : y < x}) + 1
    OBVIOUS
  <2> HIDE DEF place
  <2> QED BY <1>4, <2>1, <2>2
<1> HIDE DEF place, n, rows
<1>6. ASSUME NEW i \in 1 .. n PROVE rows[i] \in S /\ place[rows[i]] = i
  <2>1. PICK x \in S : place[x] = i
    BY <1>1 DEF Bijection, Surjection
  <2>2. \A z \in S : place[z] \in 1 .. n
    BY <1>1 DEF Bijection, Surjection
  <2> DEFINE P(z) == Cardinality({y \in S : IF d = "DESC" THEN y > z ELSE y < z}) = i - 1
  <2>3. P(x)
    BY <1>5, <2>1
  <2>4. rows[i] = CHOOSE z \in S : P(z)
    BY <1>3
  <2> HIDE DEF P
  <2>5. rows[i] \in S /\ P(rows[i])
    BY <2>3, <2>4
  <2>6. place[rows[i]] - 1 = i - 1
    BY <1>5, <2>5 DEF P
  <2>7. place[rows[i]] \in 1 .. n
    BY <2>2, <2>5
  <2>8. place[rows[i]] \in Int /\ i \in Int
    BY <1>2, <2>7
  <2> HIDE DEF P
  <2> QED BY <2>5, <2>6, <2>8
<1>7. rows \in Seq(S) /\ Len(rows) = n /\ DOMAIN rows = 1 .. n
  <2> HIDE DEF row
  <2>1. DOMAIN rows = 1 .. n /\ rows = [i \in 1 .. n |-> rows[i]]
    BY <1>3
  <2> QED BY <1>2, <1>6, <2>1
<1>8. ASSUME NEW x \in S PROVE \E i \in 1 .. n : rows[i] = x
  <2>1. place[x] \in 1 .. n
    BY <1>1 DEF Bijection, Surjection
  <2>2. rows[place[x]] \in S /\ place[rows[place[x]]] = place[x]
    BY <1>6, <2>1
  <2>3. rows[place[x]] = x
    BY <1>1, <2>2 DEF Bijection, Injection, IsInjective
  <2> QED BY <2>1, <2>3
<1>9. \A i, j \in 1 .. n : i < j => rows[i] < rows[j]
  BY <1>1, <1>6
<1>10. /\ rows \in Seq(S) /\ Len(rows) = n
       /\ \A i, j \in DOMAIN rows : i < j => rows[i] < rows[j]
       /\ \A x \in S : \E i \in DOMAIN rows : rows[i] = x
  BY <1>7, <1>8, <1>9
<1> QED BY <1>10 DEF rows, n

\* LIMIT k, and the pages the resolvers cut.
LEMMA FirstRows ==
  ASSUME NEW T, NEW s \in Seq(T), NEW k \in Nat
  PROVE  /\ Prefix(s, k) \in Seq(T)
         /\ Len(Prefix(s, k)) = IF k <= Len(s) THEN k ELSE Len(s)
         /\ \A i \in 1 .. Len(Prefix(s, k)) : Prefix(s, k)[i] = s[i]
<1> DEFINE m == IF k <= Len(s) THEN k ELSE Len(s)
<1>1. Len(s) \in Nat /\ m \in 0 .. Len(s)
  OBVIOUS
<1>2. Prefix(s, k) = SubSeq(s, 1, m)
  BY <1>1, MinOfTwo DEF Prefix
<1> HIDE DEF m
<1>3. /\ SubSeq(s, 1, m) \in Seq(T) /\ Len(SubSeq(s, 1, m)) = m
      /\ \A i \in 1 .. m : SubSeq(s, 1, m)[i] = s[i]
  BY <1>1
<1> QED BY <1>2, <1>3 DEF m

\* A page read with LIMIT limit + 1 from the rows in ascending order: it skips
\* no row, and the extra row tells whether it is the last.
LEMMA LimitedPage ==
  ASSUME NEW S \in SUBSET Int, IsFiniteSet(S), NEW d, d # "DESC",
         NEW limit \in Nat \ {0}
  PROVE  LET page == Limited(OrderedBy(S, d), limit)
             edges == page.edges
         IN  /\ page.kind = "connection" /\ page.hasNext \in BOOLEAN
             /\ edges \in Seq(S) /\ Len(edges) <= limit
             /\ \A i, j \in DOMAIN edges : i < j => edges[i] < edges[j]
             /\ \A i \in DOMAIN edges : \A l \in S :
                  l <= edges[i] => \E j \in DOMAIN edges : edges[j] = l
             /\ ~page.hasNext => \A l \in S : \E j \in DOMAIN edges : edges[j] = l
             /\ page.hasNext <=> /\ Len(edges) = limit
                                 /\ \E l \in S : l > edges[Len(edges)]
<1> DEFINE rows == OrderedBy(S, d)
           n == Len(rows)
           fetched == Prefix(rows, limit + 1)
           edges == Prefix(fetched, limit)
           another == Len(fetched) > limit
<1>1. /\ rows \in Seq(S)
      /\ \A i, j \in DOMAIN rows : i < j => rows[i] < rows[j]
      /\ \A x \in S : \E i \in DOMAIN rows : rows[i] = x
  BY Ascending
<1> HIDE DEF rows
<1>2. n \in Nat /\ DOMAIN rows = 1 .. n /\ \A i \in 1 .. n : rows[i] \in S
  BY <1>1
<1>3. /\ fetched \in Seq(S)
      /\ Len(fetched) = IF limit + 1 <= n THEN limit + 1 ELSE n
      /\ \A i \in 1 .. Len(fetched) : fetched[i] = rows[i]
  BY <1>1, FirstRows
<1> HIDE DEF fetched
<1>4. /\ edges \in Seq(S)
      /\ Len(edges) = IF limit <= Len(fetched) THEN limit ELSE Len(fetched)
      /\ \A i \in 1 .. Len(edges) : edges[i] = fetched[i]
  BY <1>3, FirstRows
<1> HIDE DEF edges, n
<1>5. /\ another <=> limit < n
      /\ Len(edges) \in Nat /\ Len(edges) <= limit
      /\ Len(edges) = IF limit < n THEN limit ELSE n
  BY <1>2, <1>3, <1>4
<1>6. /\ DOMAIN edges = 1 .. Len(edges)
      /\ \A i \in 1 .. Len(edges) : i \in 1 .. n /\ edges[i] = rows[i] /\ rows[i] \in S
  BY <1>2, <1>3, <1>4, <1>5
<1> HIDE DEF another
<1>7. \A i, j \in DOMAIN edges : i < j => edges[i] < edges[j]
  BY <1>1, <1>2, <1>6
<1>8. ASSUME NEW i \in DOMAIN edges, NEW l \in S, l <= edges[i]
      PROVE  \E j \in DOMAIN edges : edges[j] = l
  <2>1. PICK j \in 1 .. n : rows[j] = l
    BY <1>1, <1>2
  <2>2. edges[i] = rows[i] /\ i \in 1 .. Len(edges) /\ i \in 1 .. n
        /\ rows[i] \in Int /\ rows[j] \in Int
    BY <1>6, <2>1
  <2>3. ~(i < j)
    BY <1>1, <1>2, <1>8, <2>1, <2>2
  <2>4. j \in 1 .. Len(edges)
    BY <1>2, <1>5, <2>1, <2>2, <2>3
  <2> QED BY <1>6, <2>1, <2>4
<1>9. ASSUME ~another, NEW l \in S PROVE \E j \in DOMAIN edges : edges[j] = l
  <2>1. Len(edges) = n
    BY <1>5, <1>9
  <2> QED BY <1>1, <1>2, <1>6, <2>1
<1>10. ASSUME another PROVE Len(edges) = limit /\ \E l \in S : l > edges[Len(edges)]
  <2>1. /\ limit < n /\ Len(edges) = limit
        /\ limit \in 1 .. n /\ limit + 1 \in 1 .. n /\ limit < limit + 1
    BY <1>2, <1>5, <1>10
  <2>2. edges[limit] = rows[limit] /\ rows[limit] < rows[limit + 1] /\ rows[limit + 1] \in S
    BY <1>1, <1>2, <1>6, <2>1
  <2>3. rows[limit] \in Int /\ rows[limit + 1] \in Int
    BY <1>2, <2>1
  <2> QED BY <2>1, <2>2, <2>3
<1>11. ASSUME Len(edges) = limit, NEW l \in S, l > edges[Len(edges)] PROVE another
  <2>1. SUFFICES ASSUME ~another PROVE FALSE
    OBVIOUS
  <2>2. PICK j \in DOMAIN edges : edges[j] = l
    BY <1>9, <2>1
  <2>3. limit \in DOMAIN edges /\ j \in 1 .. limit /\ edges[limit] \in Int /\ l \in Int
    <3>1. limit \in 1 .. Len(edges) /\ j \in 1 .. limit
      BY <1>6, <1>11, <2>2
    <3> QED BY <1>6, <3>1
  <2>4. j = limit \/ j < limit
    BY <2>3
  <2> QED BY <1>7, <1>11, <2>2, <2>3, <2>4
<1>12. Limited(OrderedBy(S, d), limit)
         = [kind |-> "connection", edges |-> edges, hasNext |-> another]
  BY DEF Limited, Connection, edges, fetched, another, rows
<1>13. another \in BOOLEAN
  BY DEF another
<1>14. edges \in Seq(S) /\ Len(edges) <= limit
  BY <1>4, <1>5
<1> HIDE DEF another
<1>15. another <=> Len(edges) = limit /\ \E l \in S : l > edges[Len(edges)]
  BY <1>10, <1>11
<1> QED BY <1>7, <1>8, <1>9, <1>12, <1>13, <1>14, <1>15

\* The rows from the cursor on: no more than there were, and all of them.
LEMMA RowsKept ==
  ASSUME NEW T \in SUBSET Int, NEW rows \in Seq(T), NEW from \in Int
  PROVE  /\ Kept(rows, from) \in Seq(T)
         /\ Len(Kept(rows, from)) <= Len(rows)
         /\ \A i \in DOMAIN rows : rows[i] >= from =>
              \E n \in DOMAIN Kept(rows, from) : Kept(rows, from)[n] = rows[i]
<1> DEFINE I == {i \in DOMAIN rows : ~(rows[i] < from)}
           at == OrderedBy(I, "ASC")
<1>1. /\ DOMAIN rows = 1 .. Len(rows) /\ Len(rows) \in Nat
      /\ \A i \in DOMAIN rows : rows[i] \in T
  OBVIOUS
<1>2. /\ I \in SUBSET (1 .. Len(rows)) /\ I \in SUBSET Int
      /\ \A i \in I : i \in DOMAIN rows
  BY <1>1
<1>3. /\ IsFiniteSet(1 .. Len(rows)) /\ Cardinality(1 .. Len(rows)) = Len(rows)
      /\ IsFiniteSet(I) /\ Cardinality(I) <= Len(rows)
  <2>1. IsFiniteSet(1 .. Len(rows)) /\ Cardinality(1 .. Len(rows)) = Len(rows)
    BY <1>1, FS_Interval
  <2> HIDE DEF I
  <2> QED BY <1>2, <2>1, FS_Subset
<1>4. \A i \in DOMAIN rows : rows[i] >= from => i \in I
  <2>1. \A i \in DOMAIN rows : rows[i] \in Int
    BY <1>1
  <2> QED BY <2>1
<1> HIDE DEF I
<1>5. /\ at \in Seq(I) /\ Len(at) = Cardinality(I)
      /\ \A i \in I : \E n \in DOMAIN at : at[n] = i
  <2>1. PICK d : d = "ASC"
    OBVIOUS
  <2>2. d # "DESC" /\ at = OrderedBy(I, d)
    BY <2>1
  <2>3. I \in SUBSET Int /\ IsFiniteSet(I)
    BY <1>2, <1>3
  <2> HIDE DEF at
  <2> QED BY <2>2, <2>3, Ascending
<1>6. Kept(rows, from) = [n \in DOMAIN at |-> rows[at[n]]]
  BY DEF Kept, I
<1> HIDE DEF at
<1>7. DOMAIN at = 1 .. Len(at) /\ Len(at) \in Nat /\ \A n \in DOMAIN at : at[n] \in I
  BY <1>5
<1>8. Kept(rows, from) \in Seq(T) /\ Len(Kept(rows, from)) = Len(at)
      /\ DOMAIN Kept(rows, from) = DOMAIN at
  <2>1. \A n \in DOMAIN at : rows[at[n]] \in T
    BY <1>1, <1>2, <1>7
  <2> QED BY <1>6, <1>7, <2>1
<1>9. ASSUME NEW i \in DOMAIN rows, rows[i] >= from
      PROVE  \E n \in DOMAIN Kept(rows, from) : Kept(rows, from)[n] = rows[i]
  BY <1>4, <1>5, <1>6, <1>8, <1>9
<1> QED BY <1>3, <1>5, <1>8, <1>9
==============================================================================

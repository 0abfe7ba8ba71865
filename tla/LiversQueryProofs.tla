-------------------------- MODULE LiversQueryProofs --------------------------
(* Theorems about LiversQuery, for any requests, root fields, pages, aliases   *)
(* and cursors, and any order in which the executor's goroutines run.          *)
EXTENDS LiversQuery, FiniteSetTheorems, TLAPS

USE DEF Results

\* The calls of the loader and the results of their fields go together: a field
\* whose cursor does not decode calls nothing, and any other is as far as its
\* call.
FieldsFollowCalls ==
  \A c \in Calls :
    IF c[3] \in Decodable
    THEN /\ field[c] = "none" <=> stage[c] = "idle"
         /\ field[c] = "loading" <=> stage[c] \in {"asked", "looked"}
         /\ stage[c] = "answered" => (field[c] = "null" <=> seen[c].kind # "data")
    ELSE stage[c] = "idle" /\ field[c] \in {"none", "null"}

\* Groups fields are started by the result of their root field, which waits for
\* all of them.
RootsWaitForFields ==
  \A r \in Roots :
    /\ root[r] = "none" => \A c \in CallsOf(r) : field[c] = "none"
    /\ root[r] = "object" => FieldsEnded(r) /\ ~AnyNull(r)
    /\ root[r] = "null" => RootFailed(r) \/ (FieldsEnded(r) /\ AnyNull(r))

\* A response waits for its root fields and keeps what they decided.
ResponsesWaitForRoots ==
  \A x \in Requests : response[x] # "none" =>
    /\ \A r \in RootsOf(x) : root[r] \in Results
    /\ response[x] = "null" <=> \E r \in RootsOf(x) : NonNull(r) /\ root[r] = "null"

\* Every error so far is that of a root field or of a groups field.
NullFields(x) == {c \in CallsIn(x) : field[c] = "null"}
ErrorsCounted ==
  \A x \in Requests : errors[x] = Cardinality(RootFailures(x)) + Cardinality(NullFields(x))

Types ==
  /\ ctx \in [Requests -> {"bare", "live", "cancelled"}]
  /\ stage \in [Calls -> {"idle", "asked", "looked", "answered"}]
  /\ root \in [Roots -> {"none", "running"} \cup Results]
  /\ field \in [Calls -> {"none", "loading"} \cup Results]
  /\ errors \in [Requests -> Nat]
  /\ response \in [Requests -> {"none"} \cup Results]
  /\ members \in SUBSET (Groups \X Livers)

IInv == Types /\ FieldsFollowCalls /\ RootsWaitForFields /\ ResponsesWaitForRoots /\ ErrorsCounted

-----------------------------------------------------------------------------
(* Calls, and counting them.                                                 *)

LEMMA CallFacts ==
  /\ \A c \in Calls : /\ c[1] \in Roots /\ c \in CallsOf(c[1])
                      /\ CtxOf[c] = ReqOf[c[1]] /\ CtxOf[c] \in Requests
  /\ \A r \in Roots : \A c \in CallsOf(r) : c \in Calls /\ c[1] = r
<1>1. ASSUME NEW r \in Roots, NEW c \in CallsOf(r) PROVE c \in Calls /\ c[1] = r
  BY DEF Calls, CallsOf
<1>2. ASSUME NEW c \in Calls
      PROVE  c[1] \in Roots /\ c \in CallsOf(c[1])
  <2>1. PICK r \in Roots : c \in CallsOf(r)
    BY DEF Calls
  <2> QED BY <1>1, <2>1
<1>3. ASSUME NEW c \in Calls
      PROVE  CtxOf[c] = ReqOf[c[1]] /\ CtxOf[c] \in Requests
  BY <1>2, QueryAssumption DEF QueryAssumption, CtxOf
<1> QED BY <1>1, <1>2, <1>3

LEMMA CallsOfFinite == ASSUME NEW r \in Roots PROVE IsFiniteSet(CallsOf(r))
<1> DEFINE D == DOMAIN PageOf[r]
           F == FieldsOf[r]
           triple == [p \in D \X F |-> <<r, p[1], p[2]>>]
<1>1. IsFiniteSet(D \X F)
  <2>1. D = 1 .. Len(PageOf[r]) /\ Len(PageOf[r]) \in Int
    BY QueryAssumption DEF QueryAssumption
  <2>2. IsFiniteSet(D)
    BY <2>1, FS_Interval
  <2>3. IsFiniteSet(F)
    BY QueryAssumption DEF QueryAssumption
  <2> HIDE DEF D, F
  <2> QED BY <2>2, <2>3, FS_Product
<1>2. triple \in Surjection(D \X F, CallsOf(r))
  <2>1. CallsOf(r) = {<<r, i, f>> : i \in D, f \in F}
    BY DEF CallsOf
  <2> HIDE DEF D, F
  <2>2. triple \in [D \X F -> CallsOf(r)]
    BY <2>1
  <2>3. ASSUME NEW c \in CallsOf(r) PROVE \E p \in D \X F : triple[p] = c
    <3>1. PICK i \in D, f \in F : c = <<r, i, f>>
      BY <2>1
    <3>2. <<i, f>> \in D \X F /\ triple[<<i, f>>] = c
      BY <3>1
    <3> QED BY <3>2
  <2> HIDE DEF triple
  <2> QED BY <2>2, <2>3 DEF Surjection
<1> QED BY <1>1, <1>2, FS_Surjection DEF ExistsSurjection

LEMMA CallsFinite == IsFiniteSet(Calls)
<1> DEFINE all == [r \in Roots |-> CallsOf(r)]
           families == {CallsOf(r) : r \in Roots}
<1>1. all \in Surjection(Roots, families)
  BY DEF Surjection
<1>2. IsFiniteSet(families)
  BY <1>1, QueryAssumption, FS_Surjection DEF QueryAssumption, ExistsSurjection
<1>3. \A T \in families : IsFiniteSet(T)
  BY CallsOfFinite
<1> QED BY <1>2, <1>3, FS_UNION DEF Calls

\* What is counted is finite, and one more failure is one more error.
LEMMA CountsFinite ==
  ASSUME NEW x
  PROVE  /\ IsFiniteSet(RootFailures(x)) /\ IsFiniteSet(NullFields(x))
         /\ Cardinality(RootFailures(x)) \in 0 .. Cardinality(Roots)
         /\ Cardinality(NullFields(x)) \in 0 .. Cardinality(Calls)
<1>1. RootFailures(x) \in SUBSET Roots /\ NullFields(x) \in SUBSET Calls
  BY DEF RootFailures, RootsOf, NullFields, CallsIn
<1>2. IsFiniteSet(Roots) /\ IsFiniteSet(Calls)
  BY CallsFinite, QueryAssumption DEF QueryAssumption
<1>3. /\ IsFiniteSet(RootFailures(x)) /\ Cardinality(RootFailures(x)) <= Cardinality(Roots)
      /\ IsFiniteSet(NullFields(x)) /\ Cardinality(NullFields(x)) <= Cardinality(Calls)
  BY <1>1, <1>2, FS_Subset
<1>4. /\ Cardinality(Roots) \in Nat /\ Cardinality(Calls) \in Nat
      /\ Cardinality(RootFailures(x)) \in Nat /\ Cardinality(NullFields(x)) \in Nat
  BY <1>2, <1>3, FS_CardinalityType
<1> QED BY <1>3, <1>4

LEMMA OneMore ==
  ASSUME NEW S, IsFiniteSet(S), NEW e, e \notin S
  PROVE  Cardinality(S \cup {e}) = Cardinality(S) + 1
BY FS_AddElement

-----------------------------------------------------------------------------
(* The inductive invariant.                                                  *)

LEMMA InitIInv == Init => IInv
<1> SUFFICES ASSUME Init PROVE IInv
  OBVIOUS
<1> USE CallFacts DEF Init, Loader!Init
<1>1. Types
  BY DEF Types
<1>2. FieldsFollowCalls /\ RootsWaitForFields /\ ResponsesWaitForRoots
  BY DEF FieldsFollowCalls, RootsWaitForFields, ResponsesWaitForRoots
<1>3. ErrorsCounted
  <2>1. \A x \in Requests : RootFailures(x) = {} /\ NullFields(x) = {}
    BY DEF RootFailures, RootFailed, RootsOf, NullFields, CallsIn
  <2>2. Cardinality({}) = 0
    BY FS_EmptySet
  <2>3. \A x \in Requests : errors[x] = 0
    OBVIOUS
  <2> HIDE DEF Init
  <2> QED BY <2>1, <2>2, <2>3 DEF ErrorsCounted
<1> QED BY <1>1, <1>2, <1>3 DEF IInv

\* Calls that are looked up do not move the fields that wait for them.
LEMMA LookUpsKeepFields ==
  ASSUME IInv, NEW S \in SUBSET Asked, Loader!Look(S) \/ Loader!Fail(S), field' = field
  PROVE  stage' \in [Calls -> {"idle", "asked", "looked", "answered"}] /\ FieldsFollowCalls'
<1> USE DEF IInv, Types, Loader!Look, Loader!Fail, Asked
<1>1. /\ stage' = [c \in Calls |-> IF c \in S THEN "looked" ELSE stage[c]]
      /\ \A c \in Calls \ S : seen'[c] = seen[c]
  OBVIOUS
<1>2. \A c \in S : stage[c] = "asked"
  OBVIOUS
<1> QED BY <1>1, <1>2 DEF FieldsFollowCalls

\* Steps that move no result leave what is said of the results.
LEMMA ResultsRest ==
  ASSUME IInv, UNCHANGED <<root, field, errors, response>>
  PROVE  (RootsWaitForFields /\ ResponsesWaitForRoots /\ ErrorsCounted)'
BY DEF IInv, RootsWaitForFields, ResponsesWaitForRoots, ErrorsCounted, RootFailures, RootFailed,
       NullFields, CallsIn, RootsOf, FieldsEnded, AnyNull, NonNull, CallsOf

LEMMA NextKeepsIInv == IInv /\ [Next]_vars => IInv'
<1> SUFFICES ASSUME IInv, [Next]_vars PROVE IInv'
  OBVIOUS
<1> USE CallFacts DEF IInv
<1>1. ASSUME NEW x \in Requests, Begin(x) \/ Cancel(x) PROVE IInv'
  <2> USE <1>1 DEF Begin, Cancel
  <2>1. Types'
    BY DEF Types
  <2>2. FieldsFollowCalls'
    BY DEF FieldsFollowCalls
  <2> QED BY <2>1, <2>2, ResultsRest
<1>2. ASSUME NEW x \in Requests, NEW r \in RootsOf(x), ResolveRoot(r) PROVE IInv'
  <2> USE <1>2 DEF ResolveRoot, lookupVars
  <2>0. r \in Roots
    BY DEF RootsOf
  <2>1. Types'
    BY <2>0 DEF Types
  <2>2. FieldsFollowCalls'
    BY DEF FieldsFollowCalls
  <2>3. RootsWaitForFields'
    BY <2>0 DEF RootsWaitForFields, FieldsEnded, AnyNull, RootFailed, Types
  <2>4. ResponsesWaitForRoots'
    BY <2>0 DEF ResponsesWaitForRoots, RootsOf, NonNull, Types
  <2>5. ErrorsCounted'
    <3>1. \A y \in Requests : RootFailures(y)' = RootFailures(y) /\ NullFields(y)' = NullFields(y)
      BY <2>0 DEF RootFailures, RootFailed, RootsOf, NullFields, CallsIn, Types
    <3> QED BY <3>1 DEF ErrorsCounted
  <2> QED BY <2>1, <2>2, <2>3, <2>4, <2>5
<1>3. ASSUME NEW x \in Requests, NEW r \in RootsOf(x), RootFails(r) PROVE IInv'
  <2> USE <1>3 DEF RootFails, AddError, lookupVars
  <2>0. r \in Roots /\ ReqOf[r] = x
    BY DEF RootsOf
  <2>1. Types'
    BY <2>0 DEF Types
  <2>2. FieldsFollowCalls'
    BY DEF FieldsFollowCalls
  <2>3. RootsWaitForFields'
    BY <2>0 DEF RootsWaitForFields, FieldsEnded, AnyNull, RootFailed, Types
  <2>4. ResponsesWaitForRoots'
    BY <2>0 DEF ResponsesWaitForRoots, RootsOf, NonNull, Types
  <2>5. ErrorsCounted'
    <3>1. \A y \in Requests : NullFields(y)' = NullFields(y)
      BY DEF NullFields, CallsIn
    <3>2. \A y \in Requests \ {x} : RootFailures(y)' = RootFailures(y)
      BY <2>0 DEF RootFailures, RootFailed, RootsOf, Types
    <3>3. RootFailures(x)' = RootFailures(x) \cup {r} /\ r \notin RootFailures(x)
      BY <2>0 DEF RootFailures, RootFailed, RootsOf, RootsWaitForFields, Types
    <3>4. Cardinality(RootFailures(x)') = Cardinality(RootFailures(x)) + 1
      BY <3>3, OneMore, CountsFinite
    <3>5. /\ Cardinality(RootFailures(x)) \in Nat /\ Cardinality(NullFields(x)) \in Nat
      BY CountsFinite
    <3>6. /\ errors'[x] = errors[x] + 1
          /\ \A y \in Requests \ {x} : errors'[y] = errors[y]
      BY <2>0 DEF Types
    <3> QED BY <3>1, <3>2, <3>4, <3>5, <3>6 DEF ErrorsCounted
  <2> QED BY <2>1, <2>2, <2>3, <2>4, <2>5
<1>4. ASSUME NEW x \in Requests, NEW r \in RootsOf(x), CompleteRoot(r) PROVE IInv'
  <2> USE <1>4 DEF CompleteRoot, Repeated, lookupVars
  <2>0. r \in Roots /\ ReqOf[r] = x
    BY DEF RootsOf
  <2>a. errors' = errors
    BY <2>0 DEF Types
  <2>1. Types'
    BY <2>0, <2>a DEF Types
  <2>2. FieldsFollowCalls'
    BY DEF FieldsFollowCalls
  <2>3. RootsWaitForFields'
    BY <2>0 DEF RootsWaitForFields, FieldsEnded, AnyNull, RootFailed, Types
  <2>4. ResponsesWaitForRoots'
    BY <2>0 DEF ResponsesWaitForRoots, RootsOf, NonNull, Types
  <2>5. ErrorsCounted'
    <3>1. \A y \in Requests : RootFailures(y)' = RootFailures(y) /\ NullFields(y)' = NullFields(y)
      BY <2>0 DEF RootFailures, RootFailed, RootsOf, NullFields, CallsIn, AnyNull, Types
    <3> QED BY <3>1, <2>a DEF ErrorsCounted
  <2> QED BY <2>1, <2>2, <2>3, <2>4, <2>5
<1>5. ASSUME NEW x \in Requests, NEW c \in CallsIn(x), LoadGroups(c) PROVE IInv'
  <2> USE <1>5 DEF LoadGroups, Loader!Ask
  <2>0. c \in Calls /\ CtxOf[c] = x
    BY DEF CallsIn
  <2>1. Types'
    BY <2>0 DEF Types
  <2>2. FieldsFollowCalls'
    BY <2>0 DEF FieldsFollowCalls, Types
  <2>3. RootsWaitForFields'
    BY <2>0 DEF RootsWaitForFields, FieldsEnded, AnyNull, RootFailed, Types
  <2>4. ResponsesWaitForRoots'
    BY DEF ResponsesWaitForRoots, RootsOf, NonNull
  <2>5. ErrorsCounted'
    <3>1. \A y \in Requests : RootFailures(y)' = RootFailures(y) /\ NullFields(y)' = NullFields(y)
      BY <2>0 DEF RootFailures, RootFailed, RootsOf, NullFields, CallsIn, Types
    <3> QED BY <3>1 DEF ErrorsCounted
  <2> QED BY <2>1, <2>2, <2>3, <2>4, <2>5
<1>6. ASSUME NEW x \in Requests, NEW c \in CallsIn(x), CursorFails(c) PROVE IInv'
  <2> USE <1>6 DEF CursorFails, AddError, lookupVars
  <2>0. c \in Calls /\ CtxOf[c] = x
    BY DEF CallsIn
  <2>1. Types'
    BY <2>0 DEF Types
  <2>2. FieldsFollowCalls'
    BY <2>0 DEF FieldsFollowCalls, Types
  <2>3. RootsWaitForFields'
    BY <2>0 DEF RootsWaitForFields, FieldsEnded, AnyNull, RootFailed, Types
  <2>4. ResponsesWaitForRoots'
    BY DEF ResponsesWaitForRoots, RootsOf, NonNull
  <2>5. ErrorsCounted'
    <3>1. \A y \in Requests : RootFailures(y)' = RootFailures(y)
      BY <2>0 DEF RootFailures, RootFailed, RootsOf, Types
    <3>2. \A y \in Requests \ {x} : NullFields(y)' = NullFields(y)
      BY <2>0 DEF NullFields, CallsIn, Types
    <3>3. NullFields(x)' = NullFields(x) \cup {c} /\ c \notin NullFields(x)
      BY <2>0 DEF NullFields, CallsIn, Types
    <3>4. Cardinality(NullFields(x)') = Cardinality(NullFields(x)) + 1
      BY <3>3, OneMore, CountsFinite
    <3>5. /\ Cardinality(RootFailures(x)) \in Nat /\ Cardinality(NullFields(x)) \in Nat
      BY CountsFinite
    <3>6. /\ errors'[x] = errors[x] + 1
          /\ \A y \in Requests \ {x} : errors'[y] = errors[y]
      BY <2>0 DEF Types
    <3> QED BY <3>1, <3>2, <3>4, <3>5, <3>6 DEF ErrorsCounted
  <2> QED BY <2>1, <2>2, <2>3, <2>4, <2>5
<1>7. ASSUME NEW x \in Requests, NEW c \in CallsIn(x), GroupsReturn(c) PROVE IInv'
  <2> USE <1>7 DEF GroupsReturn, GroupsResult, AddError, Loader!Give
  <2>0. c \in Calls /\ CtxOf[c] = x
    BY DEF CallsIn
  <2>a. field[c] = "loading" /\ c[3] \in Decodable
    BY <2>0 DEF FieldsFollowCalls
  <2>b. field' = [field EXCEPT ![c] = IF seen[c].kind = "data" THEN "object" ELSE "null"]
    OBVIOUS
  <2>c. root[c[1]] = "running"
    BY <2>0, <2>a DEF RootsWaitForFields, FieldsEnded, RootFailed, Types
  <2>1. Types'
    BY <2>0 DEF Types
  <2>2. FieldsFollowCalls'
    BY <2>0, <2>a, <2>b DEF FieldsFollowCalls, Types
  <2>3. RootsWaitForFields'
    BY <2>0, <2>b, <2>c DEF RootsWaitForFields, FieldsEnded, AnyNull, RootFailed, Types
  <2>4. ResponsesWaitForRoots'
    BY DEF ResponsesWaitForRoots, RootsOf, NonNull
  <2>5. ErrorsCounted'
    <3>1. \A y \in Requests : RootFailures(y)' = RootFailures(y)
      BY <2>0, <2>c DEF RootFailures, RootFailed, RootsOf, Types
    <3>2. CASE seen[c].kind = "data"
      <4>1. \A y \in Requests : NullFields(y)' = NullFields(y)
        BY <2>0, <2>a, <2>b, <3>2 DEF NullFields, CallsIn, Types
      <4>2. errors' = errors
        BY <3>2
      <4> QED BY <3>1, <4>1, <4>2 DEF ErrorsCounted
    <3>3. CASE seen[c].kind # "data"
      <4>1. \A y \in Requests \ {x} : NullFields(y)' = NullFields(y)
        BY <2>0, <2>b DEF NullFields, CallsIn, Types
      <4>2. NullFields(x)' = NullFields(x) \cup {c} /\ c \notin NullFields(x)
        BY <2>0, <2>a, <2>b, <3>3 DEF NullFields, CallsIn, Types
      <4>3. Cardinality(NullFields(x)') = Cardinality(NullFields(x)) + 1
        BY <4>2, OneMore, CountsFinite
      <4>4. /\ Cardinality(RootFailures(x)) \in Nat /\ Cardinality(NullFields(x)) \in Nat
        BY CountsFinite
      <4>5. /\ errors'[x] = errors[x] + 1
            /\ \A y \in Requests \ {x} : errors'[y] = errors[y]
        BY <2>0, <3>3 DEF Types
      <4> QED BY <3>1, <4>1, <4>3, <4>4, <4>5 DEF ErrorsCounted
    <3> QED BY <3>2, <3>3
  <2> QED BY <2>1, <2>2, <2>3, <2>4, <2>5
<1>8. ASSUME NEW x \in Requests, Respond(x) PROVE IInv'
  <2> USE <1>8 DEF Respond, lookupVars
  <2>1. Types'
    BY DEF Types
  <2>2. (FieldsFollowCalls /\ RootsWaitForFields)'
    BY DEF FieldsFollowCalls, RootsWaitForFields, RootFailed, FieldsEnded, AnyNull
  <2>3. ResponsesWaitForRoots'
    BY DEF ResponsesWaitForRoots, RootsOf, NonNull, Types
  <2>4. ErrorsCounted'
    BY DEF ErrorsCounted, RootFailures, RootFailed, NullFields
  <2> QED BY <2>1, <2>2, <2>3, <2>4
<1>9. ASSUME NEW x \in Requests, NEW c \in CallsIn(x), LookUpWith(c) PROVE IInv'
  <2> USE <1>9 DEF LookUpWith
  <2>1. PICK S \in SUBSET Asked : Loader!Look(S) \/ Loader!Fail(S)
    OBVIOUS
  <2>2. /\ stage' \in [Calls -> {"idle", "asked", "looked", "answered"}]
        /\ FieldsFollowCalls'
    BY <2>1, LookUpsKeepFields
  <2>3. UNCHANGED <<members, dbUp, ctx>>
    BY <2>1 DEF Loader!Look, Loader!Fail
  <2>4. Types'
    BY <2>2, <2>3 DEF Types
  <2> QED BY <2>2, <2>4, ResultsRest
<1>10. CASE Toggle \/ \E g \in Groups, l \in Livers : Write(g, l)
  <2> USE <1>10 DEF Toggle, Write
  <2>0. members' \in SUBSET (Groups \X Livers)
    <3>1. CASE Toggle
      BY <3>1 DEF Types
    <3>2. ASSUME NEW g \in Groups, NEW l \in Livers, Write(g, l)
          PROVE  members' \in SUBSET (Groups \X Livers)
      BY <3>2 DEF Types
    <3> QED BY <1>10, <3>1, <3>2
  <2>1. Types'
    BY <2>0 DEF Types
  <2>2. FieldsFollowCalls'
    BY DEF FieldsFollowCalls
  <2> QED BY <2>1, <2>2, ResultsRest
<1>11. CASE UNCHANGED vars
  <2> USE <1>11 DEF vars
  <2>1. Types' /\ FieldsFollowCalls'
    BY DEF Types, FieldsFollowCalls
  <2> QED BY <2>1, ResultsRest
<1> QED BY <1>1, <1>2, <1>3, <1>4, <1>5, <1>6, <1>7, <1>8, <1>9, <1>10, <1>11
       DEF Next, Executor, Answering

LEMMA Invariance == Spec => []IInv
BY InitIInv, NextKeepsIInv, PTL DEF Spec

-----------------------------------------------------------------------------
(* The results.                                                              *)

\* What has failed, as the properties say it, is what is null.
LEMMA FailedFieldsAreNull ==
  ASSUME IInv, NEW c \in Calls
  PROVE  GroupsFailed(c) <=> field[c] = "null"
<1> USE CallFacts DEF IInv, Types
<1>1. CASE c[3] \in Decodable
  BY <1>1 DEF GroupsFailed, FieldsFollowCalls
<1>2. CASE c[3] \notin Decodable
  <2>1. field[c] # "none" => root[c[1]] # "none"
    BY DEF RootsWaitForFields
  <2> QED BY <1>2, <2>1 DEF GroupsFailed, FieldsFollowCalls
<1> QED BY <1>1, <1>2

\* Every field of the query keeps its type, a groups field is as far as its call
\* of the loader, and no more errors are collected than fields can fail.
THEOREM QueryTypeCorrect == Spec => []TypeOK
<1>1. IInv => TypeOK
  <2> SUFFICES ASSUME IInv PROVE TypeOK
    OBVIOUS
  <2>1. errors \in [Requests -> 0 .. Cardinality(Roots) + Cardinality(Calls)]
    <3>1. ASSUME NEW x \in Requests
          PROVE  errors[x] \in 0 .. Cardinality(Roots) + Cardinality(Calls)
      <4>1. Cardinality(Roots) \in Nat /\ Cardinality(Calls) \in Nat
        BY CallsFinite, QueryAssumption, FS_CardinalityType DEF QueryAssumption
      <4>2. errors[x] = Cardinality(RootFailures(x)) + Cardinality(NullFields(x))
        BY DEF IInv, ErrorsCounted
      <4> QED BY <4>1, <4>2, CountsFinite
    <3> QED BY <3>1 DEF IInv, Types
  <2>2. \A c \in Calls : /\ field[c] = "none" => stage[c] = "idle"
                         /\ field[c] = "loading" <=> stage[c] \in {"asked", "looked"}
    BY DEF IInv, FieldsFollowCalls
  <2> QED BY <2>1, <2>2 DEF IInv, Types, TypeOK
<1> QED BY <1>1, Invariance, PTL

\* The "data" of a response is null exactly when a livers field, or a groups field
\* below one, failed (the null propagation of graph/main.generated.go).
THEOREM NullsAreExact == Spec => []NullExactly
<1>1. IInv => NullExactly
  <2> SUFFICES ASSUME IInv, NEW x \in Requests, response[x] # "none"
               PROVE  response[x] = "null" <=>
                        \E r \in RootsOf(x) : /\ Kind[r] = "livers"
                                              /\ RootFailed(r) \/ \E c \in CallsOf(r) : GroupsFailed(c)
    BY DEF NullExactly
  <2>1. ASSUME NEW r \in RootsOf(x)
        PROVE  root[r] = "null" <=> RootFailed(r) \/ \E c \in CallsOf(r) : GroupsFailed(c)
    <3>1. r \in Roots /\ root[r] \in Results
      BY DEF RootsOf, IInv, ResponsesWaitForRoots
    <3>2. \A c \in CallsOf(r) : GroupsFailed(c) <=> field[c] = "null"
      BY <3>1, CallFacts, FailedFieldsAreNull
    <3> QED BY <3>1, <3>2 DEF IInv, RootsWaitForFields, RootFailed, AnyNull
  <2> QED BY <2>1 DEF IInv, ResponsesWaitForRoots, NonNull
<1> QED BY <1>1, Invariance, PTL

\* A response has one error for each root field and each groups field that failed,
\* however they raced.
THEOREM ErrorsAreExact == Spec => []ErrorsExactly
<1>1. IInv => ErrorsExactly
  <2> SUFFICES ASSUME IInv, NEW x \in Requests
               PROVE  errors[x] = Cardinality(RootFailures(x)) + Cardinality(GroupsFailures(x))
    BY DEF ErrorsExactly
  <2>1. GroupsFailures(x) = NullFields(x)
    BY FailedFieldsAreNull DEF GroupsFailures, NullFields, CallsIn
  <2> QED BY <2>1 DEF IInv, ErrorsCounted
<1> QED BY <1>1, Invariance, PTL

\* When a response is sent no call of the group loader of its request is open.
THEOREM NothingOutlivesResponse == Spec => []NothingLeftRunning
<1>1. IInv => NothingLeftRunning
  <2> SUFFICES ASSUME IInv, NEW x \in Requests, response[x] # "none", NEW c \in CallsIn(x)
               PROVE  stage[c] \in {"idle", "answered"}
    BY DEF NothingLeftRunning
  <2>1. c \in Calls /\ c[1] \in RootsOf(x) /\ c[1] \in Roots /\ c \in CallsOf(c[1])
    BY CallFacts DEF CallsIn, RootsOf
  <2>2. root[c[1]] \in Results
    BY <2>1 DEF IInv, ResponsesWaitForRoots
  <2>3. field[c] # "loading"
    BY <2>1, <2>2 DEF IInv, RootsWaitForFields, RootFailed, FieldsEnded
  <2> QED BY <2>1, <2>3 DEF IInv, Types, FieldsFollowCalls
<1> QED BY <1>1, Invariance, PTL

\* The executor uses the group loader by its promise alone: every step of the
\* query is one of GroupLookup, or leaves it alone.
THEOREM QueryUsesLoader == Spec => Loader!Spec
<1>1. Init => Loader!Init
  BY DEF Init
<1>2. IInv /\ [Next]_vars => [Loader!Next]_(Loader!vars)
  <2> SUFFICES ASSUME IInv, [Next]_vars PROVE [Loader!Next]_(Loader!vars)
    OBVIOUS
  <2> USE DEF Loader!vars
  <2>1. ASSUME NEW x \in Requests, Begin(x) \/ Cancel(x) PROVE Loader!Next
    BY <2>1 DEF Begin, Cancel, Loader!Next, Loader!Environment
  <2>2. CASE Toggle
    BY <2>2 DEF Toggle, Loader!Next, Loader!Environment
  <2>3. ASSUME NEW g \in Groups, NEW l \in Livers, Write(g, l) PROVE Loader!Next
    <3>1. members' \in SUBSET (Groups \X Livers)
      BY <2>3 DEF Write, IInv, Types
    <3> QED BY <2>3, <3>1 DEF Write, Loader!Next, Loader!Environment
  <2>4. ASSUME NEW x \in Requests, NEW c \in CallsIn(x), LookUpWith(c) PROVE Loader!Next
    <3>1. Asked \subseteq Calls
      BY DEF Asked
    <3> QED BY <2>4, <3>1 DEF LookUpWith, Loader!Next
  <2>5. ASSUME NEW x \in Requests, NEW c \in CallsIn(x),
               LoadGroups(c) \/ CursorFails(c) \/ GroupsReturn(c)
        PROVE  [Loader!Next]_(Loader!vars)
    <3>1. c \in Calls
      BY DEF CallsIn
    <3> QED BY <2>5, <3>1 DEF LoadGroups, CursorFails, GroupsReturn, lookupVars, Loader!Next
  <2>6. ASSUME NEW x \in Requests,
               Respond(x) \/ \E r \in RootsOf(x) : ResolveRoot(r) \/ RootFails(r) \/ CompleteRoot(r)
        PROVE  UNCHANGED Loader!vars
    BY <2>6 DEF Respond, ResolveRoot, RootFails, CompleteRoot, lookupVars
  <2>7. CASE UNCHANGED vars
    BY <2>7 DEF vars
  <2> QED BY <2>1, <2>2, <2>3, <2>4, <2>5, <2>6, <2>7 DEF Next, Executor, Answering
<1> QED BY <1>1, <1>2, Invariance, PTL DEF Spec, Loader!Spec
==============================================================================

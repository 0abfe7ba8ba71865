-------------------------- MODULE AuthorizationProofs --------------------------
(* Theorems about Authorization, for any number of requests, tokens, keys and  *)
(* identifiers and any rotations, outages and silences of the issuer.          *)
EXTENDS Authorization, FiniteSetTheorems, TLAPS

\* Behind the first step a request has a token that names its key.
Identifies == \A r \in Requests : phase[r] \notin {"new", "rejected"} => Identified(r)

\* While a request is authenticated, the histories bracket what the issuer
\* publishes now, and what the request fetched.
HistoryBrackets ==
  \A r \in Requests : phase[r] \in Active =>
    /\ throughout[r] \subseteq Pairs(published) /\ Pairs(published) \subseteq during[r]
    /\ steady[r] => service = "up"

FetchedBracketed ==
  \A r \in Requests : phase[r] = "verify" =>
    throughout[r] \subseteq Pairs(fetched[r]) /\ Pairs(fetched[r]) \subseteq during[r]

\* What the checks behind it have established of a token.
Verified == \A r \in Requests : phase[r] \in {"validate", "serving"} => SignedDuring(r)
Validated == \A r \in Requests : phase[r] = "serving" => token[r].valid

FieldsWhileServing == \A r \in Requests : DOMAIN field[r] # {} => phase[r] = "serving"

IInv == /\ TypeOK /\ Identifies /\ HistoryBrackets /\ FetchedBracketed
        /\ Verified /\ Validated /\ FieldsWhileServing
        /\ RejectedRightly /\ GrantedExactly

USE DEF Phases, Active, Outcomes, Services

-----------------------------------------------------------------------------
(* Permissions and key sets.                                                 *)

LEMMA ScopesFinite == IsFiniteSet(Scopes)
<1>1. IsFiniteSet({}) /\ IsFiniteSet({} \cup {"read"})
  BY FS_EmptySet, FS_AddElement
<1>2. IsFiniteSet(({} \cup {"read"}) \cup {"write"})
  BY <1>1, FS_AddElement
<1>3. Scopes = ({} \cup {"read"}) \cup {"write"}
  BY DEF Scopes
<1> QED BY <1>2, <1>3

\* Comparing the sizes first never denies what the elements allow.
LEMMA SuperSetIsInclusion ==
  ASSUME NEW ps \in SUBSET Scopes, NEW other
  PROVE  IsSuperSetOf(ps, other) <=> other \subseteq ps
<1>1. ASSUME other \subseteq ps PROVE Cardinality(ps) >= Cardinality(other)
  <2>1. IsFiniteSet(ps)
    BY ScopesFinite, FS_Subset
  <2>2. /\ Cardinality(other) \in Nat /\ Cardinality(ps) \in Nat
        /\ Cardinality(other) <= Cardinality(ps)
    BY <1>1, <2>1, FS_Subset, FS_CardinalityType
  <2> QED BY <2>2
<1> QED BY <1>1 DEF IsSuperSetOf

\* The directive of a field decides by the scopes in the claim alone.
LEMMA DecideByScopes ==
  ASSUME NEW t \in Tokens, NEW f
  PROVE  /\ Decide(t, f) \in Outcomes
         /\ Decide(t, f) = "resolved" <=> \E scopes \in t.claim : RequiredScopes(f) \subseteq scopes
<1> DEFINE parsed == ParsePermissionClaim(t.claim)
           wanted == RequiredScopes(f)
<1>1. t # NoToken
  BY AuthorizationAssumption DEF AuthorizationAssumption
<1>2. wanted \subseteq Scopes
  BY DEF RequiredScopes, Scopes
<1>3. ASSUME NEW scopes \in t.claim
      PROVE  IsSuperSetOf(scopes \cap Scopes, wanted) <=> wanted \subseteq scopes
  BY <1>2, SuperSetIsInclusion
<1>4. (\E allowed \in parsed : IsSuperSetOf(allowed, wanted))
        <=> \E scopes \in t.claim : wanted \subseteq scopes
  <2>1. parsed = {scopes \cap Scopes : scopes \in t.claim}
    BY DEF ParsePermissionClaim
  <2>2. ASSUME NEW scopes \in t.claim, wanted \subseteq scopes
        PROVE  \E allowed \in parsed : IsSuperSetOf(allowed, wanted)
    <3>1. scopes \cap Scopes \in parsed
      BY <2>1
    <3>2. IsSuperSetOf(scopes \cap Scopes, wanted)
      BY <1>3, <2>2
    <3> QED BY <3>1, <3>2
  <2>3. ASSUME NEW allowed \in parsed, IsSuperSetOf(allowed, wanted)
        PROVE  \E scopes \in t.claim : wanted \subseteq scopes
    <3>1. PICK scopes \in t.claim : allowed = scopes \cap Scopes
      BY <2>1
    <3> QED BY <1>3, <2>3, <3>1
  <2> HIDE DEF parsed, wanted
  <2> QED BY <2>2, <2>3
<1>5. parsed = {} => ~ \E scopes \in t.claim : wanted \subseteq scopes
  BY DEF ParsePermissionClaim
<1> HIDE DEF parsed, wanted
<1>6. Decide(t, f) = CASE t = NoToken -> "unauthenticated"
                       [] parsed = {} -> "internal error"
                       [] \E allowed \in parsed : IsSuperSetOf(allowed, wanted) -> "resolved"
                       [] OTHER -> "insufficient permission"
  BY DEF Decide, parsed, wanted
<1>7. CASE parsed = {}
  BY <1>1, <1>5, <1>6, <1>7 DEF wanted
<1>8. CASE parsed # {} /\ \E allowed \in parsed : IsSuperSetOf(allowed, wanted)
  BY <1>1, <1>4, <1>6, <1>8 DEF wanted
<1>9. CASE parsed # {} /\ ~ \E allowed \in parsed : IsSuperSetOf(allowed, wanted)
  BY <1>1, <1>4, <1>6, <1>9 DEF wanted
<1> QED BY <1>7, <1>8, <1>9

LEMMA PairsType == ASSUME NEW set \in KeySets PROVE Pairs(set) \in SUBSET (KeyIds \X Keys)
BY DEF KeySets, Pairs

\* A key is handed to the verification exactly when it was published under the
\* token's kid.
LEMMA KeysForPublished ==
  ASSUME NEW set \in KeySets, NEW kid \in KeyIds, NEW key \in Keys
  PROVE  key \in KeysFor(set, kid) <=> <<kid, key>> \in Pairs(set)
BY AuthorizationAssumption DEF AuthorizationAssumption, KeysFor, Pairs

LEMMA TokenParts ==
  ASSUME NEW r \in Requests, Identified(r)
  PROVE  token[r] \in Tokens /\ token[r].kid \in KeyIds /\ token[r].key \in Keys
BY AuthorizationAssumption DEF AuthorizationAssumption, Identified
-----------------------------------------------------------------------------
(* The inductive invariant.                                                  *)

LEMMA InitIInv == Init => IInv
<1> SUFFICES ASSUME Init PROVE IInv
  OBVIOUS
<1> USE DEF Init
<1>1. TypeOK
  BY DEF TypeOK, NothingFetched, KeySets
<1> QED BY <1>1 DEF IInv, Identifies, HistoryBrackets, FetchedBracketed, Verified, Validated,
                    FieldsWhileServing, RejectedRightly, GrantedExactly

LEMMA NextKeepsIInv == IInv /\ [Next]_vars => IInv'
<1> SUFFICES ASSUME IInv, [Next]_vars PROVE IInv'
  OBVIOUS
<1> USE DEF IInv
<1>1. ASSUME NEW r \in Requests, Authenticate(r) PROVE IInv'
  <2> USE <1>1 DEF Authenticate, Goto, issuer
  <2>0. Pairs(published) \in SUBSET (KeyIds \X Keys)
    BY PairsType DEF TypeOK
  <2>1. TypeOK'
    BY <2>0 DEF TypeOK
  <2>2. Identifies'
    BY DEF Identifies, Identified, TypeOK
  <2>3. HistoryBrackets'
    BY DEF HistoryBrackets, TypeOK
  <2>4. FetchedBracketed'
    BY DEF FetchedBracketed, TypeOK
  <2>5. (Verified /\ Validated /\ FieldsWhileServing)'
    BY DEF Verified, Validated, FieldsWhileServing, SignedDuring, TypeOK
  <2>6. RejectedRightly'
    BY DEF RejectedRightly, SignedThroughout, Identified, TypeOK
  <2>7. GrantedExactly'
    BY DEF GrantedExactly, RequiredScopes, TypeOK
  <2> QED BY <2>1, <2>2, <2>3, <2>4, <2>5, <2>6, <2>7
<1>2. ASSUME NEW r \in Requests, FetchKeysURI(r) PROVE IInv'
  <2> USE <1>2 DEF FetchKeysURI, AfterTrip, Goto, issuer, history
  <2>1. TypeOK'
    BY DEF TypeOK
  <2>2. Identifies'
    BY DEF Identifies, Identified, TypeOK
  <2>3. HistoryBrackets'
    BY DEF HistoryBrackets, TypeOK
  <2>4. FetchedBracketed'
    BY DEF FetchedBracketed, TypeOK
  <2>5. (Verified /\ Validated /\ FieldsWhileServing)'
    BY DEF Verified, Validated, FieldsWhileServing, SignedDuring, TypeOK
  <2>6. RejectedRightly'
    BY DEF RejectedRightly, HistoryBrackets, SignedThroughout, Identified, TypeOK
  <2>7. GrantedExactly'
    BY DEF GrantedExactly, RequiredScopes, TypeOK
  <2> QED BY <2>1, <2>2, <2>3, <2>4, <2>5, <2>6, <2>7
<1>3. ASSUME NEW r \in Requests, Fetch(r) PROVE IInv'
  <2> USE <1>3 DEF Fetch, AfterTrip, Goto, issuer, history
  <2>0. /\ phase' = [phase EXCEPT ![r] = AfterTrip("verify")]
        /\ AfterTrip("verify") = "verify" <=> service = "up"
        /\ fetched' = [fetched EXCEPT ![r] = IF service = "up" THEN published ELSE fetched[r]]
    BY DEF TypeOK
  <2>1. TypeOK'
    BY DEF TypeOK
  <2>2. Identifies'
    BY DEF Identifies, Identified, TypeOK
  <2>3. HistoryBrackets'
    BY DEF HistoryBrackets, TypeOK
  <2>4. FetchedBracketed'
    <3> SUFFICES ASSUME NEW q \in Requests, phase'[q] = "verify"
                 PROVE  /\ throughout[q] \subseteq Pairs(fetched'[q])
                        /\ Pairs(fetched'[q]) \subseteq during[q]
      BY DEF FetchedBracketed
    <3>1. CASE q = r
      BY <2>0, <3>1 DEF HistoryBrackets, TypeOK
    <3>2. CASE q # r
      <4>1. phase[q] = "verify" /\ fetched'[q] = fetched[q]
        BY <2>0, <3>2 DEF TypeOK
      <4> QED BY <4>1 DEF FetchedBracketed
    <3> QED BY <3>1, <3>2
  <2>5. (Verified /\ Validated /\ FieldsWhileServing)'
    <3>1. \A q \in Requests : /\ phase'[q] \in {"validate", "serving"} => phase'[q] = phase[q]
                              /\ phase[q] = "serving" => phase'[q] = phase[q]
      BY <2>0 DEF TypeOK
    <3> QED BY <3>1 DEF Verified, Validated, FieldsWhileServing, SignedDuring
  <2>6. RejectedRightly'
    BY DEF RejectedRightly, HistoryBrackets, SignedThroughout, Identified, TypeOK
  <2>7. GrantedExactly'
    BY DEF GrantedExactly, RequiredScopes, TypeOK
  <2> QED BY <2>1, <2>2, <2>3, <2>4, <2>5, <2>6, <2>7
<1>4. ASSUME NEW r \in Requests, Verify(r) PROVE IInv'
  <2> USE <1>4 DEF Verify, Goto, issuer, history
  <2>0. /\ token[r].key \in KeysFor(fetched[r], token[r].kid)
             <=> <<token[r].kid, token[r].key>> \in Pairs(fetched[r])
        /\ throughout[r] \subseteq Pairs(fetched[r]) /\ Pairs(fetched[r]) \subseteq during[r]
    <3>1. Identified(r)
      BY DEF Identifies
    <3>2. fetched[r] \in KeySets
      BY DEF TypeOK
    <3> QED BY <3>1, <3>2, TokenParts, KeysForPublished DEF FetchedBracketed
  <2>1. TypeOK'
    BY DEF TypeOK
  <2>2. Identifies'
    BY DEF Identifies, Identified, TypeOK
  <2>3. HistoryBrackets'
    BY DEF HistoryBrackets, TypeOK
  <2>4. FetchedBracketed'
    BY DEF FetchedBracketed, TypeOK
  <2>5. (Verified /\ Validated /\ FieldsWhileServing)'
    BY <2>0 DEF Verified, Validated, FieldsWhileServing, SignedDuring, TypeOK
  <2>6. RejectedRightly'
    BY <2>0 DEF RejectedRightly, SignedThroughout, Identified, TypeOK
  <2>7. GrantedExactly'
    BY DEF GrantedExactly, RequiredScopes, TypeOK
  <2> QED BY <2>1, <2>2, <2>3, <2>4, <2>5, <2>6, <2>7
<1>5. ASSUME NEW r \in Requests, Validate(r) PROVE IInv'
  <2> USE <1>5 DEF Validate, Goto, issuer, history
  <2>1. TypeOK'
    BY DEF TypeOK
  <2>2. Identifies'
    BY DEF Identifies, Identified, TypeOK
  <2>3. HistoryBrackets'
    BY DEF HistoryBrackets, TypeOK
  <2>4. FetchedBracketed'
    BY DEF FetchedBracketed, TypeOK
  <2>5. (Verified /\ Validated /\ FieldsWhileServing)'
    BY DEF Verified, Validated, FieldsWhileServing, SignedDuring, TypeOK
  <2>6. RejectedRightly'
    BY DEF RejectedRightly, SignedThroughout, Identified, TypeOK
  <2>7. GrantedExactly'
    BY DEF GrantedExactly, RequiredScopes, TypeOK
  <2> QED BY <2>1, <2>2, <2>3, <2>4, <2>5, <2>6, <2>7
<1>6. ASSUME NEW r \in Requests, NEW f \in operation[r], ResolveField(r, f) PROVE IInv'
  <2> USE <1>6 DEF ResolveField, Pending, issuer, history
  <2>0. /\ Decide(token[r], f) \in Outcomes
        /\ Decide(token[r], f) = "resolved"
             <=> \E scopes \in token[r].claim : RequiredScopes(f) \subseteq scopes
    BY DecideByScopes DEF Identifies, Identified
  <2>1. TypeOK'
    BY <2>0 DEF TypeOK
  <2>2. Identifies'
    BY DEF Identifies, Identified
  <2>3. (HistoryBrackets /\ FetchedBracketed)'
    BY DEF HistoryBrackets, FetchedBracketed
  <2>4. (Verified /\ Validated /\ FieldsWhileServing)'
    BY DEF Verified, Validated, FieldsWhileServing, SignedDuring, TypeOK
  <2>5. RejectedRightly'
    BY DEF RejectedRightly, SignedThroughout, Identified
  <2>6. GrantedExactly'
    <3> SUFFICES ASSUME NEW q \in Requests, NEW g \in DOMAIN field'[q]
                 PROVE  field'[q][g] = "resolved"
                          <=> \E scopes \in token[q].claim : RequiredScopes(g) \subseteq scopes
      BY DEF GrantedExactly, RequiredScopes
    <3>1. CASE q = r /\ g = f
      <4>1. field'[q][g] = Decide(token[r], f)
        BY <3>1 DEF TypeOK
      <4> QED BY <2>0, <3>1, <4>1
    <3>2. CASE ~(q = r /\ g = f)
      <4>1. g \in DOMAIN field[q] /\ field'[q][g] = field[q][g]
        BY <3>2 DEF TypeOK
      <4> QED BY <4>1 DEF GrantedExactly
    <3> QED BY <3>1, <3>2
  <2> QED BY <2>1, <2>2, <2>3, <2>4, <2>5, <2>6
<1>7. ASSUME NEW kid \in KeyIds, NEW key \in Keys \cup {NoKey}, Rotate(kid, key) PROVE IInv'
  <2> USE <1>7 DEF Rotate
  <2>0. published' \in KeySets /\ Pairs(published') \in SUBSET (KeyIds \X Keys)
    <3>1. published' \in KeySets
      BY DEF TypeOK, KeySets
    <3> QED BY <3>1, PairsType
  <2>1. TypeOK'
    BY <2>0 DEF TypeOK
  <2>2. Identifies'
    BY DEF Identifies, Identified
  <2>3. HistoryBrackets'
    BY <2>0 DEF HistoryBrackets, TypeOK
  <2>4. FetchedBracketed'
    BY DEF FetchedBracketed, TypeOK
  <2>5. (Verified /\ Validated /\ FieldsWhileServing)'
    BY DEF Verified, Validated, FieldsWhileServing, SignedDuring, TypeOK
  <2>6. RejectedRightly'
    BY DEF RejectedRightly, SignedThroughout, Identified, TypeOK
  <2>7. GrantedExactly'
    BY DEF GrantedExactly, RequiredScopes
  <2> QED BY <2>1, <2>2, <2>3, <2>4, <2>5, <2>6, <2>7
<1>8. ASSUME NEW how \in Services, Turn(how) PROVE IInv'
  <2> USE <1>8 DEF Turn
  <2>1. TypeOK'
    BY DEF TypeOK
  <2>2. Identifies'
    BY DEF Identifies, Identified
  <2>3. (HistoryBrackets /\ FetchedBracketed)'
    BY DEF HistoryBrackets, FetchedBracketed, TypeOK
  <2>4. (Verified /\ Validated /\ FieldsWhileServing)'
    BY DEF Verified, Validated, FieldsWhileServing, SignedDuring
  <2>5. RejectedRightly'
    BY DEF RejectedRightly, SignedThroughout, Identified, TypeOK
  <2>6. GrantedExactly'
    BY DEF GrantedExactly, RequiredScopes
  <2> QED BY <2>1, <2>2, <2>3, <2>4, <2>5, <2>6
<1>9. ASSUME NEW r \in Requests, Abort(r) PROVE IInv'
  <2> USE <1>9 DEF Abort, Noticed, Goto, issuer, history
  <2>1. TypeOK'
    BY DEF TypeOK
  <2>2. Identifies'
    BY DEF Identifies, Identified, TypeOK
  <2>3. (HistoryBrackets /\ FetchedBracketed)'
    BY DEF HistoryBrackets, FetchedBracketed, TypeOK
  <2>4. (Verified /\ Validated /\ FieldsWhileServing)'
    BY DEF Verified, Validated, FieldsWhileServing, SignedDuring, TypeOK
  <2>5. RejectedRightly'
    BY DEF RejectedRightly, SignedThroughout, Identified, TypeOK
  <2>6. GrantedExactly'
    BY DEF GrantedExactly, RequiredScopes
  <2> QED BY <2>1, <2>2, <2>3, <2>4, <2>5, <2>6
<1>10. ASSUME NEW r \in Requests, Leave(r) PROVE IInv'
  <2> USE <1>10 DEF Leave, issuer, history
  <2>1. TypeOK'
    BY DEF TypeOK
  <2>2. (Identifies /\ Verified /\ Validated /\ FieldsWhileServing)'
    BY DEF Identifies, Identified, Verified, Validated, FieldsWhileServing, SignedDuring
  <2>3. (HistoryBrackets /\ FetchedBracketed)'
    BY DEF HistoryBrackets, FetchedBracketed
  <2>4. RejectedRightly'
    BY DEF RejectedRightly, SignedThroughout, Identified, TypeOK
  <2>5. GrantedExactly'
    BY DEF GrantedExactly, RequiredScopes
  <2> QED BY <2>1, <2>2, <2>3, <2>4, <2>5
<1>11. CASE UNCHANGED vars
  <2> USE <1>11 DEF vars
  <2>1. TypeOK'
    BY DEF TypeOK
  <2>2. (Identifies /\ Verified /\ Validated /\ FieldsWhileServing)'
    BY DEF Identifies, Identified, Verified, Validated, FieldsWhileServing, SignedDuring
  <2>3. (HistoryBrackets /\ FetchedBracketed)'
    BY DEF HistoryBrackets, FetchedBracketed
  <2>4. (RejectedRightly /\ GrantedExactly)'
    BY DEF RejectedRightly, SignedThroughout, Identified, GrantedExactly, RequiredScopes
  <2> QED BY <2>1, <2>2, <2>3, <2>4
<1> QED BY <1>1, <1>2, <1>3, <1>4, <1>5, <1>6, <1>7, <1>8, <1>9, <1>10, <1>11 DEF Next, Step

LEMMA Invariance == Spec => []IInv
BY InitIInv, NextKeepsIInv, PTL DEF Spec

-----------------------------------------------------------------------------
(* The results.                                                              *)

\* Every variable keeps its type, for any issuer, tokens and operations: a field
\* the middleware let through is resolved, denied, or an internal error, and is
\* never reported unauthenticated (authz/authz.go, graph/directives).
THEOREM AuthorizationTypeCorrect == Spec => []TypeOK
<1>1. IInv => TypeOK
  BY DEF IInv
<1> QED BY <1>1, Invariance, PTL

\* The middleware of authz/authz.go serves a request only with a valid token
\* signed with a key that the issuer published under the token's kid while this
\* very request was authenticated, whatever it rotates meanwhile.
THEOREM ServedForAReason == Spec => []ServedRightly
<1>1. IInv => ServedRightly
  BY DEF IInv, ServedRightly, Identifies, Identified, Verified, Validated
<1> QED BY <1>1, Invariance, PTL

\* It rejects no request with a valid token whose key stayed published, as long
\* as the issuer answered all the time and the client stayed.
THEOREM RejectedForAReason == Spec => []RejectedRightly
<1>1. IInv => RejectedRightly
  BY DEF IInv
<1> QED BY <1>1, Invariance, PTL

\* The @authenticate directive runs a field exactly for the tokens whose claim
\* has its scopes, whatever other scopes the claim lists.
THEOREM FieldsGrantedByScope == Spec => []GrantedExactly
<1>1. IInv => GrantedExactly
  BY DEF IInv
<1> QED BY <1>1, Invariance, PTL
==============================================================================

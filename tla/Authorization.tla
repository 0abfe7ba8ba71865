---------------------------- MODULE Authorization ----------------------------
(* How a GraphQL request comes to run its fields: the middleware of authz/     *)
(* (a token from the header, verified with keys fetched from the issuer for    *)
(* every request, then validated) and the @authenticate directive of each root *)
(* field (graph/directives, graph/models/permission_set.go). The issuer        *)
(* rotates its keys, fails and falls silent meanwhile.                         *)
(*                                                                             *)
(* What may be missing is a set: {} when it is, {v} when it is v.              *)
EXTENDS Naturals, FiniteSets

CONSTANTS Requests,
          KeyIds, Keys,   \* identifiers the issuer publishes keys under
          NoKey,          \* no key under an identifier
          Tokens,         \* well-formed tokens: [kid, key, valid, claim]
          NoToken,        \* a request without one
          NotJWS,         \* a header that holds something else
          Operations      \* the sets of root fields a request may select

Scopes == {"read", "write"}
NoKid == "no kid"

ASSUME AuthorizationAssumption ==
  /\ NoKey \notin Keys /\ NoKid \notin KeyIds
  /\ NoToken \notin Tokens /\ NotJWS \notin Tokens
  /\ Tokens \subseteq [kid : KeyIds \cup {NoKid}, key : Keys, valid : BOOLEAN,
                       claim : SUBSET SUBSET (Scopes \cup {"other"})]
  /\ \A t \in Tokens : Cardinality(t.claim) <= 1
  /\ Operations \subseteq SUBSET {"liver", "livers", "registerLiver"}

VARIABLES
  published,  \* the issuer's key under each identifier
  service,    \* does the issuer answer, fail, or accept requests in silence?
  token,      \* what each request carries
  operation,  \* the root fields it selects
  phase,      \* where it is
  fetched,    \* the key set it fetched
  field,      \* what became of each root field it reached
  gone,       \* has its client gone?
  during,     \* history: the keys published at some time of its authentication,
  throughout, \* the keys published all the time,
  steady      \* and whether the issuer answered all the time

issuer == <<published, service>>
history == <<during, throughout, steady>>
vars == <<published, service, token, operation, phase, fetched, field, gone,
          during, throughout, steady>>

KeySets == [KeyIds -> Keys \cup {NoKey}]
Pairs(set) == {<<kid, set[kid]>> : kid \in {k \in KeyIds : set[k] # NoKey}}
NothingFetched == [kid \in KeyIds |-> NoKey]

Services == {"up", "down", "silent"}
Phases == {"new", "uri", "keys", "ignored", "verify", "validate", "serving", "rejected"}
Active == {"uri", "keys", "verify", "validate"}
Outcomes == {"resolved", "insufficient permission", "internal error"}
\* Behind the middleware no field is "unauthenticated".

-----------------------------------------------------------------------------
(* Scopes and permissions.                                                   *)

\* The arguments of @authenticate in the schema.
RequiredScopes(f) == IF f = "registerLiver" THEN {"write"} ELSE {"read"}

\* The scopes the API knows of those in the "permissions" claim; no set at all
\* (nil) when the claim is missing or no array.
ParsePermissionClaim(claim) == {scopes \cap Scopes : scopes \in claim}

BySize(ps, other) == Cardinality(ps) >= Cardinality(other)  \* variant

IsSuperSetOf(ps, other) ==
  /\ Cardinality(ps) >= Cardinality(other)
  /\ \A req \in other : req \in ps

NilIsNobody(t, f) ==  \* variant
  IF t.claim = {} THEN "unauthenticated"
  ELSE IF \E s \in t.claim : RequiredScopes(f) \subseteq s THEN "resolved"
  ELSE "insufficient permission"

\* The directive dereferences the set for its span before it compares; a nil
\* one panics, and the executor recovers into an error of the field.
Decide(t, f) ==
  LET parsed == ParsePermissionClaim(t.claim)
  IN  CASE t = NoToken -> "unauthenticated"
        [] parsed = {} -> "internal error"
        [] \E allowed \in parsed : IsSuperSetOf(allowed, RequiredScopes(f)) -> "resolved"
        [] OTHER -> "insufficient permission"

-----------------------------------------------------------------------------
(* A request.                                                                *)

Init ==
  /\ published \in KeySets /\ service \in Services
  /\ token \in [Requests -> Tokens \cup {NoToken, NotJWS}]
  /\ operation \in [Requests -> Operations]
  /\ phase = [r \in Requests |-> "new"]
  /\ fetched = [r \in Requests |-> NothingFetched]
  /\ field = [r \in Requests |-> [f \in {} |-> ""]]
  /\ gone = [r \in Requests |-> FALSE]
  /\ during = [r \in Requests |-> {}]
  /\ throughout = [r \in Requests |-> {}]
  /\ steady = [r \in Requests |-> TRUE]

Goto(r, p) == phase' = [phase EXCEPT ![r] = p]

\* A token is found in the header, parsed, and names its key.
Identified(r) == token[r] \in Tokens /\ token[r].kid # NoKid

Authenticate(r) ==
  /\ phase[r] = "new"
  /\ Goto(r, IF Identified(r) THEN "uri" ELSE "rejected")
  /\ during' = [during EXCEPT ![r] = Pairs(published)]
  /\ throughout' = [throughout EXCEPT ![r] = Pairs(published)]
  /\ steady' = [steady EXCEPT ![r] = service = "up"]
  /\ UNCHANGED <<issuer, token, operation, fetched, field, gone>>

\* Where a round trip to the issuer leads: the client has no timeout, so a silent
\* issuer is waited for.
AfterTrip(answered) ==
  CASE service = "up" -> answered
    [] service = "down" -> "rejected"
    [] service = "silent" -> "ignored"

FetchKeysURI(r) ==
  /\ phase[r] = "uri"
  /\ Goto(r, AfterTrip("keys"))
  /\ UNCHANGED <<issuer, token, operation, fetched, field, gone, history>>

Fetch(r) ==
  /\ phase[r] = "keys"
  /\ Goto(r, AfterTrip("verify"))
  /\ fetched' = [fetched EXCEPT ![r] = IF service = "up" THEN published ELSE @]
  /\ UNCHANGED <<issuer, token, operation, field, gone, history>>

Noticed(r) == gone[r]

\* The round trips carry the context of the request, which ends with its client.
Abort(r) ==
  /\ phase[r] \in {"uri", "keys", "ignored"}
  /\ Noticed(r)
  /\ Goto(r, "rejected")
  /\ UNCHANGED <<issuer, token, operation, fetched, field, gone, history>>

AnyKey(set, kid) == {set[k] : k \in KeyIds} \ {NoKey}  \* variants
OtherKeys(set, kid) == {set[k] : k \in KeyIds \ {kid}} \ {NoKey}

\* What FetchKeys hands to the verification: the key under the token's kid.
KeysFor(set, kid) == {set[kid]} \ {NoKey}

Verify(r) ==
  /\ phase[r] = "verify"
  /\ Goto(r, IF token[r].key \in KeysFor(fetched[r], token[r].kid) THEN "validate" ELSE "rejected")
  /\ UNCHANGED <<issuer, token, operation, fetched, field, gone, history>>

\* Audience and times; then the handler behind the middleware runs.
Validate(r) ==
  /\ phase[r] = "validate"
  /\ Goto(r, IF token[r].valid THEN "serving" ELSE "rejected")
  /\ UNCHANGED <<issuer, token, operation, fetched, field, gone, history>>

Pending(r) == operation[r] \ DOMAIN field[r]

\* Root fields of a query run in goroutines of their own, each behind its
\* directive.
ResolveField(r, f) ==
  /\ phase[r] = "serving"
  /\ f \in Pending(r)
  /\ field' = [field EXCEPT ![r] = [g \in DOMAIN field[r] \cup {f} |->
                 IF g = f THEN Decide(token[r], f) ELSE field[r][g]]]
  /\ UNCHANGED <<issuer, token, operation, phase, fetched, gone, history>>

\* The issuer replaces, adds or withdraws a key ...
Rotate(kid, key) ==
  /\ key # published[kid]
  /\ published' = [published EXCEPT ![kid] = key]
  /\ during' = [r \in Requests |-> IF phase[r] \in Active
                                    THEN during[r] \cup Pairs(published') ELSE during[r]]
  /\ throughout' = [r \in Requests |-> IF phase[r] \in Active
                                        THEN throughout[r] \cap Pairs(published')
                                        ELSE throughout[r]]
  /\ UNCHANGED <<service, token, operation, phase, fetched, field, gone, steady>>

\* ... or fails, falls silent or resumes to answer.
Turn(how) ==
  /\ how # service
  /\ service' = how
  /\ steady' = [r \in Requests |-> steady[r] /\ (phase[r] \in Active => how = "up")]
  /\ UNCHANGED <<published, token, operation, phase, fetched, field, gone, during, throughout>>

\* The client of a request that is being authenticated goes away.
Leave(r) ==
  /\ phase[r] \in Active \cup {"ignored"}
  /\ ~gone[r]
  /\ gone' = [gone EXCEPT ![r] = TRUE]
  /\ UNCHANGED <<issuer, token, operation, phase, fetched, field, history>>

Step(r) == \/ Authenticate(r) \/ FetchKeysURI(r) \/ Fetch(r) \/ Abort(r)
           \/ Verify(r) \/ Validate(r)
           \/ \E f \in operation[r] : ResolveField(r, f)

Next == \/ \E r \in Requests : Step(r) \/ Leave(r)
        \/ \E kid \in KeyIds, key \in Keys \cup {NoKey} : Rotate(kid, key)
        \/ \E how \in Services : Turn(how)

Spec == Init /\ [][Next]_vars

\* Goroutines are scheduled, the end of a context is noticed, and a round trip is
\* answered, fails or is ignored; nothing ends one that is ignored but its client.
FairSpec == Spec /\ \A r \in Requests : WF_vars(Step(r))

-----------------------------------------------------------------------------
(* Properties.                                                               *)

TypeOK ==
  /\ published \in KeySets /\ service \in Services
  /\ token \in [Requests -> Tokens \cup {NoToken, NotJWS}]
  /\ operation \in [Requests -> Operations]
  /\ phase \in [Requests -> Phases]
  /\ fetched \in [Requests -> KeySets]
  /\ DOMAIN field = Requests
  /\ \A r \in Requests : /\ DOMAIN field[r] \subseteq operation[r]
                         /\ \A f \in DOMAIN field[r] : field[r][f] \in Outcomes
  /\ gone \in [Requests -> BOOLEAN]
  /\ during \in [Requests -> SUBSET (KeyIds \X Keys)]
  /\ throughout \in [Requests -> SUBSET (KeyIds \X Keys)]
  /\ steady \in [Requests -> BOOLEAN]

SignedDuring(r) == <<token[r].kid, token[r].key>> \in during[r]
SignedThroughout(r) == <<token[r].kid, token[r].key>> \in throughout[r]

\* A request is served only with a valid token whose key the issuer published,
\* under the token's kid, at some time while the request was authenticated: keys
\* of earlier requests do not count.
ServedRightly ==
  \A r \in Requests : phase[r] = "serving" =>
    token[r] \in Tokens /\ token[r].valid /\ SignedDuring(r)

\* A request is rejected only for a reason: no usable token, a client that has
\* gone, or an issuer that withdrew the key or did not answer at some time
\* meanwhile. A rotation that keeps the token's key rejects nobody.
RejectedRightly ==
  \A r \in Requests : (phase[r] = "rejected" /\ Identified(r) /\ ~gone[r]) =>
    ~(token[r].valid /\ SignedThroughout(r) /\ steady[r])

\* A field runs exactly for tokens whose claim has the scopes of its directive;
\* a denied field beside it, or scopes the API does not know, change nothing.
GrantedExactly ==
  \A r \in Requests : \A f \in DOMAIN field[r] :
    field[r][f] = "resolved" <=>
      \E scopes \in token[r].claim : RequiredScopes(f) \subseteq scopes

\* A token without the scopes is told so (graph/directives/directives.go: "insufficient
\* permission").
DeniedByName ==
  \A r \in Requests : \A f \in DOMAIN field[r] : field[r][f] # "internal error"

==============================================================================

--------------------------- MODULE MCAuthorization ---------------------------
(* An issuer with two identifiers and two keys; tokens with every kind of      *)
(* permissions claim, and ones whose key, kid or validity is wrong.            *)
EXTENDS Authorization, TLC

CONSTANTS k1, k2, a, b

Token(kid, key, valid, claim) == [kid |-> kid, key |-> key, valid |-> valid, claim |-> claim]
Claim(scopes) == {scopes}
NoClaim == {}

MCTokens == { Token(k1, a, TRUE, Claim({"read"})),
              Token(k2, b, TRUE, Claim({"read", "write"})),
              Token(k1, b, TRUE, Claim({"write", "other"})),
              Token(k1, a, TRUE, NoClaim),
              Token(k1, a, FALSE, Claim({"read"})),
              Token(NoKid, a, TRUE, Claim({"read"})) }
AllClaims == {Token(k1, a, TRUE, c) : c \in {NoClaim} \cup
                {Claim(s) : s \in SUBSET {"read", "write", "other"}}}

MCOperations == {{"livers"}, {"liver", "livers"}, {"registerLiver"}}
==============================================================================

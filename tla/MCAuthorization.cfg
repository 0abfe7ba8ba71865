CONSTANTS
  k1 = k1  k2 = k2  a = a  b = b
  KeyIds = {k1, k2}
  Keys = {a, b}
  NoKey = NoKey
  NoToken = NoToken
  NotJWS = NotJWS
  Operations <- MCOperations
  Requests = {r}
  Tokens <- MCTokens
SPECIFICATION FairSpec
INVARIANTS TypeOK ServedRightly RejectedRightly GrantedExactly
 
CHECK_DEADLOCK FALSE

CONSTANTS
  k1 = k1  k2 = k2  a = a  b = b
  KeyIds = {k1, k2}
  Keys = {a, b}
  NoKey = NoKey
  NoToken = NoToken
  NotJWS = NotJWS
  Operations <- MCOperations
  Requests = {r}
  Tokens <- AllClaims
SPECIFICATION Spec
INVARIANTS DeniedByName
CHECK_DEADLOCK FALSE

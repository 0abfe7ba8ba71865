CONSTANTS
  x = x
  page = page  byName = byName
  l1 = l1  l2 = l2  g1 = g1
  f = f  bad = bad
  Requests = {x}
  Roots = {page, byName}
  ReqOf <- MCReqOf
  Kind <- MCKind
  PageOf <- MCPageOf
  FieldsOf <- MCFieldsOf
  Decodable = {f}
  Livers = {l1, l2}
  Groups = {g1}
SPECIFICATION FairSpec
INVARIANTS TypeOK NullExactly ErrorsExactly NothingLeftRunning
PROPERTIES EveryQueryAnswered
CHECK_DEADLOCK FALSE

CONSTANTS
  c1 = c1
  c2 = c2
  c3 = c3
  x1 = x1
  x2 = x2
  l1 = l1
  l2 = l2
  NoCall = NoCall
  Calls = {c1, c2, c3}
  Contexts = {x1, x2}
  Livers = {l1, l2}
  Groups = {g1}
  KeyOf <- ThreeKeys
  CtxOf <- ThreeContexts
SPECIFICATION FairSpec
INVARIANTS TypeOK NoLostLoad
PROPERTIES KeepsPromise EveryLoadReturns

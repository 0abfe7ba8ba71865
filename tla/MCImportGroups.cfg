CONSTANTS
  r1 = r1  r2 = r2
  l1 = l1  l2 = l2  l3 = l3
  g1 = g1  g2 = g2  g3 = g3
  LiverNames = {l1, l2, l3}
  GroupNames = {g1, g2, g3}
  Key <- MCKey
  Data <- MCData
  Runs = {r1, r2}
  Schemas = {"ddl", "init"}
SPECIFICATION FairSpec
INVARIANTS TypeOK ImportComplete NothingLeftToWrite
PROPERTIES RunEnds
CHECK_DEADLOCK FALSE

CONSTANTS
  r1 = r1
  r2 = r2
  r3 = r3
  Programs = {"web"}
  Requests = {r1, r2, r3}
  ServerOf <- MCServerOf
  EgressOf <- MCEgressOf
  Environments <- MCEnvironments
SPECIFICATION ProxySpec
INVARIANT DrainsInFlight
CHECK_DEADLOCK FALSE

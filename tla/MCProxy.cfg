CONSTANTS
  r1 = r1
  r2 = r2
  r3 = r3
  Programs = {"web", "upstream", "downstream"}
  Requests = {r1, r2, r3}
  ServerOf <- MCServerOf
  EgressOf <- MCEgressOf
  Environments <- MCEnvironments
SPECIFICATION ProxySpec
INVARIANTS ProxyTypeOK TelemetryOutlivesServing ExitCodeTells ProvidersReleased StatusTells
PROPERTIES ProcessStops PatientShutdown ProxyEnds
CHECK_DEADLOCK FALSE

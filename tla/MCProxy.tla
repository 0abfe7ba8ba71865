------------------------------- MODULE MCProxy -------------------------------
(* Instances of Proxy: a request to the upstream server and the two that it    *)
(* may lead to at the downstream server of the process, the second because of  *)
(* a redirect. Where the downstream server runs alone they are its clients'.   *)
(* Settings: all good, or for each application one that it refuses.            *)
EXTENDS Proxy, TLC

CONSTANTS r1, r2, r3

MCServerOf == (r1 :> "upstream") @@ (r2 :> "downstream") @@ (r3 :> "downstream")
MCEgressOf == r1 :> <<r2, r3>>

Good == [s \in Settings |-> "good"]
MCEnvironments ==
  {Good,
   [Good EXCEPT !["dsn"] = "malformed", !["origin"] = "missing"],
   [Good EXCEPT !["issuer"] = "missing", !["origin"] = "malformed"]}
==============================================================================

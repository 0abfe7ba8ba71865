----------------------------- MODULE ProxyProofs -----------------------------
(* Theorems about WebProcess, for every program, setting and set of requests,  *)
(* and about Proxy: the process with its proxied requests implements           *)
(* WebProcess, so that what is proved of the process holds of it, and the      *)
(* status of a proxied request tells what became of it.                        *)
EXTENDS Proxy, TLAPS

-----------------------------------------------------------------------------
(* The process.                                                              *)

USE DEF Servers

Begun == {"draining", "drained", "gaveUp"}
Ended == {"drained", "gaveUp"}

\* Nothing of the servers exists before run() has wired the application, nor of
\* those that are not the program's.
NothingServed ==
  /\ serve = [s \in Servers |-> "none"] /\ drain = [s \in Servers |-> "none"]
  /\ grace = "none" /\ ~ctxDone

NothingBeforeStart == main \in {"setup", "wiring"} => NothingServed
OwnServersOnly == \A s \in Servers : s \notin Launched => serve[s] = "none" /\ drain[s] = "none"
WaitsForServers ==
  main = "waiting" => grace # "none" /\ \A s \in Launched : serve[s] # "none"

\* The providers are a proper part of the set while they are set up, and all of
\* them until the cleanup begins.
ProvidersUp == /\ main = "setup" => providers # Launched
               /\ main \in {"wiring", "waiting"} => providers = Launched

\* run() goes on to its cleanups only when no server can serve any more.
CleansAfterwards ==
  main = "cleaning" => NothingServed \/ AllReturned

\* What the exit code says holds from the moment it is decided.
CodeTells ==
  /\ code = "0" => AllClosed
  /\ code = "1" => (\A s \in Servers : serve[s] = "none") \/ AnyFailed

\* A server shuts down only for a signal that graceful() caught.
ShutsForSignal ==
  /\ \A s \in Servers : /\ closing[s] <=> drain[s] \in Begun
                        /\ serve[s] = "closed" => closing[s]
                        /\ drain[s] # "none" => grace \in {"shutting", "returned"}
  /\ grace \in {"shutting", "returned"} => signalled

\* What ended the context of a single server while it is waited for.
ContextEnds ==
  (~Together /\ main = "waiting" /\ ctxDone /\ ~expired) => \A s \in Launched : drain[s] \in Ended

IInv == /\ TypeOK /\ NothingBeforeStart /\ OwnServersOnly /\ WaitsForServers /\ ProvidersUp
        /\ CleansAfterwards /\ CodeTells /\ ShutsForSignal /\ ContextEnds
        /\ TelemetryOutlivesServing /\ ProvidersReleased

-----------------------------------------------------------------------------
(* The servers of a program.                                                 *)

LEMMA LabelsFacts ==
  ASSUME program \in Programs
  PROVE  /\ Labels \in Seq(Servers) /\ Len(Labels) \in {1, 2}
         /\ \A i, j \in DOMAIN Labels : Labels[i] = Labels[j] => i = j
<1>1. program \in {"web", "upstream", "downstream"}
  BY ProcessAssumption DEF ProcessAssumption, LabelsOf
<1>2. CASE program = "web"
  <2>1. Labels = <<"upstream", "downstream">>
    BY <1>2 DEF Labels, LabelsOf
  <2> QED BY <2>1
<1>3. CASE program = "upstream"
  <2>1. Labels = <<"upstream">>
    BY <1>3 DEF Labels, LabelsOf
  <2> QED BY <2>1
<1>4. CASE program = "downstream"
  <2>1. Labels = <<"downstream">>
    BY <1>4 DEF Labels, LabelsOf
  <2> QED BY <2>1
<1> QED BY <1>1, <1>2, <1>3, <1>4

LEMMA LaunchedFacts ==
  ASSUME program \in Programs
  PROVE  Launched \in SUBSET Servers /\ Launched # {}
<1>1. 1 \in DOMAIN Labels /\ DOMAIN Labels = 1 .. Len(Labels)
  BY LabelsFacts
<1> QED BY <1>1, LabelsFacts DEF Launched

\* Only once the last one is set up are the providers those of all servers.
LEMMA PrefixFacts ==
  ASSUME program \in Programs, NEW i \in DOMAIN Labels
  PROVE  {Labels[j] : j \in 1 .. i} = Launched <=> i = Len(Labels)
<1>1. DOMAIN Labels = 1 .. Len(Labels) /\ Len(Labels) \in Nat
  BY LabelsFacts
<1>2. CASE i = Len(Labels)
  BY <1>1, <1>2 DEF Launched
<1>3. CASE i # Len(Labels)
  <2>1. Labels[Len(Labels)] \in Launched
    BY <1>1, LabelsFacts DEF Launched
  <2>2. \A j \in 1 .. i : Labels[j] # Labels[Len(Labels)]
    BY <1>1, <1>3, LabelsFacts
  <2> QED BY <1>3, <2>1, <2>2
<1> QED BY <1>2, <1>3

LEMMA InitIInv == Init => IInv
<1> SUFFICES ASSUME Init PROVE IInv
  OBVIOUS
<1> USE DEF Init
<1>1. Launched # {}
  BY LaunchedFacts
<1>2. TypeOK
  BY DEF TypeOK
<1> QED BY <1>1, <1>2 DEF IInv, NothingBeforeStart, NothingServed, OwnServersOnly, WaitsForServers,
        ProvidersUp, CleansAfterwards, CodeTells, ShutsForSignal, ContextEnds,
        TelemetryOutlivesServing, ProvidersReleased, Begun

-----------------------------------------------------------------------------
(* Every step keeps the invariant.                                           *)

LEMMA NextKeepsIInv == IInv /\ [Next]_vars => IInv'
<1> SUFFICES ASSUME IInv, [Next]_vars PROVE IInv'
  OBVIOUS
<1> USE DEF IInv
<1>0. /\ program' = program /\ Launched' = Launched /\ Labels' = Labels
      /\ Together' = Together
  <2>1. program' = program
    BY DEF Next, Run, Serving, vars, SetupObservability, SetupFails, WiringFails, StartServers, Wait,
           Cleanup, Exit, Listen, ServeFails, ServeReturns, ShutdownBegins, ShutdownDrained,
           ShutdownGivesUp, Accept, Respond, Notify, CatchSignal, GracefulReturns, Signal, TimerExpires
  <2> QED BY <2>1 DEF Launched, Labels, Together
<1>a. Launched \in SUBSET Servers /\ Launched # {}
  BY LaunchedFacts DEF TypeOK
<1> USE <1>0, <1>a
<1>1. CASE SetupObservability
  <2> USE <1>1 DEF SetupObservability
  <2>0. PICK i \in DOMAIN Labels :
          /\ providers = {Labels[j] : j \in 1 .. i - 1}
          /\ providers' = providers \cup {Labels[i]}
          /\ main' = IF i = Len(Labels) THEN "wiring" ELSE "setup"
    OBVIOUS
  <2>a. providers' = {Labels[j] : j \in 1 .. i}
    <3>1. i \in Nat /\ i >= 1
      BY LabelsFacts DEF TypeOK
    <3>2. 1 .. i = (1 .. i - 1) \cup {i}
      BY <3>1
    <3> QED BY <2>0, <3>2
  <2>b. Labels[i] \in Launched /\ (providers' = Launched <=> i = Len(Labels))
    BY <2>a, PrefixFacts DEF TypeOK, Launched
  <2>1. TypeOK'
    BY <2>0, <2>b DEF TypeOK
  <2>2. (NothingBeforeStart /\ OwnServersOnly /\ WaitsForServers)'
    BY DEF NothingBeforeStart, NothingServed, OwnServersOnly, WaitsForServers, TypeOK
  <2>3. (ProvidersUp /\ ProvidersReleased /\ TelemetryOutlivesServing)'
    BY <2>0, <2>b DEF ProvidersUp, ProvidersReleased, TelemetryOutlivesServing, NothingBeforeStart,
                      NothingServed, TypeOK
  <2>4. CleansAfterwards'
    BY DEF CleansAfterwards, NothingServed, AllReturned, Returned, TypeOK
  <2>5. CodeTells'
    BY DEF CodeTells, AllClosed, AnyFailed, TypeOK
  <2>6. ShutsForSignal'
    BY DEF ShutsForSignal, Begun, TypeOK
  <2>7. ContextEnds'
    BY DEF ContextEnds, Ended, TypeOK
  <2> QED BY <2>1, <2>2, <2>3, <2>4, <2>5, <2>6, <2>7
<1>2. CASE SetupFails
  <2> USE <1>2 DEF SetupFails, FailureCode
  <2>1. TypeOK'
    BY DEF TypeOK
  <2>2. (NothingBeforeStart /\ OwnServersOnly /\ WaitsForServers)'
    BY DEF NothingBeforeStart, NothingServed, OwnServersOnly, WaitsForServers, TypeOK
  <2>3. (ProvidersUp /\ ProvidersReleased /\ TelemetryOutlivesServing)'
    BY DEF ProvidersUp, ProvidersReleased, TelemetryOutlivesServing,
           NothingBeforeStart, NothingServed, TypeOK
  <2>4. CleansAfterwards'
    BY DEF CleansAfterwards, NothingServed, AllReturned, Returned, TypeOK
  <2>5. CodeTells'
    BY DEF CodeTells, AllClosed, AnyFailed, NothingBeforeStart, NothingServed, TypeOK
  <2>6. ShutsForSignal'
    BY DEF ShutsForSignal, Begun, TypeOK
  <2>7. ContextEnds'
    BY DEF ContextEnds, Ended, TypeOK
  <2> QED BY <2>1, <2>2, <2>3, <2>4, <2>5, <2>6, <2>7
<1>3. CASE WiringFails
  <2> USE <1>3 DEF WiringFails, Deferred
  <2>1. TypeOK'
    BY DEF TypeOK
  <2>2. (NothingBeforeStart /\ OwnServersOnly /\ WaitsForServers)'
    BY DEF NothingBeforeStart, NothingServed, OwnServersOnly, WaitsForServers, TypeOK
  <2>3. (ProvidersUp /\ ProvidersReleased /\ TelemetryOutlivesServing)'
    BY DEF ProvidersUp, ProvidersReleased, TelemetryOutlivesServing, TypeOK
  <2>4. CleansAfterwards'
    BY DEF CleansAfterwards, NothingBeforeStart, NothingServed, TypeOK
  <2>5. CodeTells'
    BY DEF CodeTells, AllClosed, AnyFailed, NothingBeforeStart, NothingServed, TypeOK
  <2>6. ShutsForSignal'
    BY DEF ShutsForSignal, Begun, TypeOK
  <2>7. ContextEnds'
    BY DEF ContextEnds, Ended, TypeOK
  <2> QED BY <2>1, <2>2, <2>3, <2>4, <2>5, <2>6, <2>7
<1>4. CASE StartServers
  <2> USE <1>4 DEF StartServers
  <2>1. TypeOK'
    BY DEF TypeOK
  <2>2. (NothingBeforeStart /\ OwnServersOnly /\ WaitsForServers)'
    BY DEF NothingBeforeStart, NothingServed, OwnServersOnly, WaitsForServers, TypeOK
  <2>3. (ProvidersUp /\ ProvidersReleased /\ TelemetryOutlivesServing)'
    BY DEF ProvidersUp, ProvidersReleased, TelemetryOutlivesServing, TypeOK
  <2>4. CleansAfterwards'
    BY DEF CleansAfterwards, NothingServed, AllReturned, Returned, TypeOK
  <2>5. CodeTells'
    BY DEF CodeTells, AllClosed, AnyFailed, TypeOK
  <2>6. ShutsForSignal'
    BY DEF ShutsForSignal, Begun, NothingBeforeStart, NothingServed, TypeOK
  <2>7. ContextEnds'
    BY DEF ContextEnds, Ended, NothingBeforeStart, NothingServed, TypeOK
  <2> QED BY <2>1, <2>2, <2>3, <2>4, <2>5, <2>6, <2>7
<1>5. CASE Wait
  <2> USE <1>5 DEF Wait
  <2>1. TypeOK'
    BY DEF TypeOK
  <2>2. (NothingBeforeStart /\ OwnServersOnly /\ WaitsForServers)'
    BY DEF NothingBeforeStart, NothingServed, OwnServersOnly, WaitsForServers, TypeOK
  <2>3. (ProvidersUp /\ ProvidersReleased /\ TelemetryOutlivesServing)'
    BY DEF ProvidersUp, ProvidersReleased, TelemetryOutlivesServing, TypeOK
  <2>4. CleansAfterwards'
    BY DEF CleansAfterwards, NothingServed, AllReturned, Returned, TypeOK
  <2>5. CodeTells'
    BY DEF CodeTells, AllClosed, AnyFailed, AllReturned, Returned, TypeOK
  <2>6. ShutsForSignal'
    BY DEF ShutsForSignal, Begun, TypeOK
  <2>7. ContextEnds'
    BY DEF ContextEnds, Ended, TypeOK
  <2> QED BY <2>1, <2>2, <2>3, <2>4, <2>5, <2>6, <2>7
<1>6. CASE Cleanup
  <2> USE <1>6 DEF Cleanup
  <2>1. TypeOK'
    BY DEF TypeOK
  <2>2. (NothingBeforeStart /\ OwnServersOnly /\ WaitsForServers)'
    BY DEF NothingBeforeStart, NothingServed, OwnServersOnly, WaitsForServers, TypeOK
  <2>3. (ProvidersUp /\ ProvidersReleased /\ TelemetryOutlivesServing)'
    BY DEF ProvidersUp, ProvidersReleased, TelemetryOutlivesServing, CleansAfterwards, NothingServed,
           AllReturned, Returned, OwnServersOnly, TypeOK
  <2>4. CleansAfterwards'
    BY DEF CleansAfterwards, NothingServed, AllReturned, Returned, TypeOK
  <2>5. CodeTells'
    BY DEF CodeTells, AllClosed, AnyFailed, TypeOK
  <2>6. ShutsForSignal'
    BY DEF ShutsForSignal, Begun, TypeOK
  <2>7. ContextEnds'
    BY DEF ContextEnds, Ended, TypeOK
  <2> QED BY <2>1, <2>2, <2>3, <2>4, <2>5, <2>6, <2>7
<1>7. CASE Exit
  <2> USE <1>7 DEF Exit
  <2>1. TypeOK'
    BY DEF TypeOK
  <2>2. (NothingBeforeStart /\ OwnServersOnly /\ WaitsForServers)'
    BY DEF NothingBeforeStart, NothingServed, OwnServersOnly, WaitsForServers, TypeOK
  <2>3. (ProvidersUp /\ ProvidersReleased /\ TelemetryOutlivesServing)'
    BY DEF ProvidersUp, ProvidersReleased, TelemetryOutlivesServing, TypeOK
  <2>4. CleansAfterwards'
    BY DEF CleansAfterwards, NothingServed, AllReturned, Returned, TypeOK
  <2>5. CodeTells'
    BY DEF CodeTells, AllClosed, AnyFailed, TypeOK
  <2>6. ShutsForSignal'
    BY DEF ShutsForSignal, Begun, TypeOK
  <2>7. ContextEnds'
    BY DEF ContextEnds, Ended, TypeOK
  <2> QED BY <2>1, <2>2, <2>3, <2>4, <2>5, <2>6, <2>7
<1>8. ASSUME NEW s \in Servers, Listen(s) PROVE IInv'
  <2> USE <1>8 DEF Listen, Alive
  <2>1. TypeOK'
    BY DEF TypeOK
  <2>2. (NothingBeforeStart /\ OwnServersOnly /\ WaitsForServers)'
    BY DEF NothingBeforeStart, NothingServed, OwnServersOnly, WaitsForServers, TypeOK
  <2>3. (ProvidersUp /\ ProvidersReleased /\ TelemetryOutlivesServing)'
    BY DEF ProvidersUp, ProvidersReleased, TelemetryOutlivesServing, TypeOK
  <2>4. CleansAfterwards'
    BY DEF CleansAfterwards, NothingServed, AllReturned, Returned, TypeOK
  <2>5. CodeTells'
    BY DEF CodeTells, AllClosed, AnyFailed, TypeOK
  <2>6. ShutsForSignal'
    BY DEF ShutsForSignal, Begun, TypeOK
  <2>7. ContextEnds'
    BY DEF ContextEnds, Ended, TypeOK
  <2> QED BY <2>1, <2>2, <2>3, <2>4, <2>5, <2>6, <2>7
<1>9. ASSUME NEW s \in Servers, ServeFails(s) PROVE IInv'
  <2> USE <1>9 DEF ServeFails, Alive
  <2>1. TypeOK'
    BY DEF TypeOK
  <2>2. (NothingBeforeStart /\ OwnServersOnly /\ WaitsForServers)'
    BY DEF NothingBeforeStart, NothingServed, OwnServersOnly, WaitsForServers, TypeOK
  <2>3. (ProvidersUp /\ ProvidersReleased /\ TelemetryOutlivesServing)'
    BY DEF ProvidersUp, ProvidersReleased, TelemetryOutlivesServing, TypeOK
  <2>4. CleansAfterwards'
    BY DEF CleansAfterwards, NothingServed, AllReturned, Returned, TypeOK
  <2>5. CodeTells'
    BY DEF CodeTells, AllClosed, AnyFailed, TypeOK
  <2>6. ShutsForSignal'
    BY DEF ShutsForSignal, Begun, TypeOK
  <2>7. ContextEnds'
    BY DEF ContextEnds, Ended, TypeOK
  <2> QED BY <2>1, <2>2, <2>3, <2>4, <2>5, <2>6, <2>7
<1>10. ASSUME NEW s \in Servers, ServeReturns(s) PROVE IInv'
  <2> USE <1>10 DEF ServeReturns, ListenerClosed, Alive
  <2>1. TypeOK'
    BY DEF TypeOK
  <2>2. (NothingBeforeStart /\ OwnServersOnly /\ WaitsForServers)'
    BY DEF NothingBeforeStart, NothingServed, OwnServersOnly, WaitsForServers, TypeOK
  <2>3. (ProvidersUp /\ ProvidersReleased /\ TelemetryOutlivesServing)'
    BY DEF ProvidersUp, ProvidersReleased, TelemetryOutlivesServing, TypeOK
  <2>4. CleansAfterwards'
    BY DEF CleansAfterwards, NothingServed, AllReturned, Returned, TypeOK
  <2>5. CodeTells'
    BY DEF CodeTells, AllClosed, AnyFailed, TypeOK
  <2>6. ShutsForSignal'
    BY DEF ShutsForSignal, Begun, TypeOK
  <2>7. ContextEnds'
    BY DEF ContextEnds, Ended, TypeOK
  <2> QED BY <2>1, <2>2, <2>3, <2>4, <2>5, <2>6, <2>7
<1>11. ASSUME NEW s \in Servers, ShutdownBegins(s) PROVE IInv'
  <2> USE <1>11 DEF ShutdownBegins, Alive
  <2>1. TypeOK'
    BY DEF TypeOK
  <2>2. (NothingBeforeStart /\ OwnServersOnly /\ WaitsForServers)'
    BY DEF NothingBeforeStart, NothingServed, OwnServersOnly, WaitsForServers, TypeOK
  <2>3. (ProvidersUp /\ ProvidersReleased /\ TelemetryOutlivesServing)'
    BY DEF ProvidersUp, ProvidersReleased, TelemetryOutlivesServing, TypeOK
  <2>4. CleansAfterwards'
    BY DEF CleansAfterwards, NothingServed, AllReturned, Returned, TypeOK
  <2>5. CodeTells'
    BY DEF CodeTells, AllClosed, AnyFailed, TypeOK
  <2>6. ShutsForSignal'
    BY DEF ShutsForSignal, Begun, TypeOK
  <2>7. ContextEnds'
    BY DEF ContextEnds, Ended, TypeOK
  <2> QED BY <2>1, <2>2, <2>3, <2>4, <2>5, <2>6, <2>7
<1>12. ASSUME NEW s \in Servers, ShutdownDrained(s) PROVE IInv'
  <2> USE <1>12 DEF ShutdownDrained, Alive
  <2>1. TypeOK'
    BY DEF TypeOK
  <2>2. (NothingBeforeStart /\ OwnServersOnly /\ WaitsForServers)'
    BY DEF NothingBeforeStart, NothingServed, OwnServersOnly, WaitsForServers, TypeOK
  <2>3. (ProvidersUp /\ ProvidersReleased /\ TelemetryOutlivesServing)'
    BY DEF ProvidersUp, ProvidersReleased, TelemetryOutlivesServing, TypeOK
  <2>4. CleansAfterwards'
    BY DEF CleansAfterwards, NothingServed, AllReturned, Returned, TypeOK
  <2>5. CodeTells'
    BY DEF CodeTells, AllClosed, AnyFailed, TypeOK
  <2>6. ShutsForSignal'
    BY DEF ShutsForSignal, Begun, TypeOK
  <2>7. ContextEnds'
    BY DEF ContextEnds, Ended, TypeOK
  <2> QED BY <2>1, <2>2, <2>3, <2>4, <2>5, <2>6, <2>7
<1>13. ASSUME NEW s \in Servers, ShutdownGivesUp(s) PROVE IInv'
  <2> USE <1>13 DEF ShutdownGivesUp, Alive
  <2>1. TypeOK'
    BY DEF TypeOK
  <2>2. (NothingBeforeStart /\ OwnServersOnly /\ WaitsForServers)'
    BY DEF NothingBeforeStart, NothingServed, OwnServersOnly, WaitsForServers, TypeOK
  <2>3. (ProvidersUp /\ ProvidersReleased /\ TelemetryOutlivesServing)'
    BY DEF ProvidersUp, ProvidersReleased, TelemetryOutlivesServing, TypeOK
  <2>4. CleansAfterwards'
    BY DEF CleansAfterwards, NothingServed, AllReturned, Returned, TypeOK
  <2>5. CodeTells'
    BY DEF CodeTells, AllClosed, AnyFailed, TypeOK
  <2>6. ShutsForSignal'
    BY DEF ShutsForSignal, Begun, TypeOK
  <2>7. ContextEnds'
    BY DEF ContextEnds, Ended, TypeOK
  <2> QED BY <2>1, <2>2, <2>3, <2>4, <2>5, <2>6, <2>7
<1>14. ASSUME NEW r \in Requests, Accept(r) PROVE IInv'
  <2> USE <1>14 DEF Accept, Alive
  <2>1. TypeOK'
    BY DEF TypeOK
  <2>2. (NothingBeforeStart /\ OwnServersOnly /\ WaitsForServers)'
    BY DEF NothingBeforeStart, NothingServed, OwnServersOnly, WaitsForServers, TypeOK
  <2>3. (ProvidersUp /\ ProvidersReleased /\ TelemetryOutlivesServing)'
    BY DEF ProvidersUp, ProvidersReleased, TelemetryOutlivesServing, TypeOK
  <2>4. CleansAfterwards'
    BY DEF CleansAfterwards, NothingServed, AllReturned, Returned, TypeOK
  <2>5. CodeTells'
    BY DEF CodeTells, AllClosed, AnyFailed, TypeOK
  <2>6. ShutsForSignal'
    BY DEF ShutsForSignal, Begun, TypeOK
  <2>7. ContextEnds'
    BY DEF ContextEnds, Ended, TypeOK
  <2> QED BY <2>1, <2>2, <2>3, <2>4, <2>5, <2>6, <2>7
<1>15. ASSUME NEW r \in Requests, Respond(r) PROVE IInv'
  <2> USE <1>15 DEF Respond, Alive
  <2>1. TypeOK'
    BY DEF TypeOK
  <2>2. (NothingBeforeStart /\ OwnServersOnly /\ WaitsForServers)'
    BY DEF NothingBeforeStart, NothingServed, OwnServersOnly, WaitsForServers, TypeOK
  <2>3. (ProvidersUp /\ ProvidersReleased /\ TelemetryOutlivesServing)'
    BY DEF ProvidersUp, ProvidersReleased, TelemetryOutlivesServing, TypeOK
  <2>4. CleansAfterwards'
    BY DEF CleansAfterwards, NothingServed, AllReturned, Returned, TypeOK
  <2>5. CodeTells'
    BY DEF CodeTells, AllClosed, AnyFailed, TypeOK
  <2>6. ShutsForSignal'
    BY DEF ShutsForSignal, Begun, TypeOK
  <2>7. ContextEnds'
    BY DEF ContextEnds, Ended, TypeOK
  <2> QED BY <2>1, <2>2, <2>3, <2>4, <2>5, <2>6, <2>7
<1>16. CASE Notify
  <2> USE <1>16 DEF Notify, Alive
  <2>1. TypeOK'
    BY DEF TypeOK
  <2>2. (NothingBeforeStart /\ OwnServersOnly /\ WaitsForServers)'
    BY DEF NothingBeforeStart, NothingServed, OwnServersOnly, WaitsForServers, TypeOK
  <2>3. (ProvidersUp /\ ProvidersReleased /\ TelemetryOutlivesServing)'
    BY DEF ProvidersUp, ProvidersReleased, TelemetryOutlivesServing, TypeOK
  <2>4. CleansAfterwards'
    BY DEF CleansAfterwards, NothingServed, AllReturned, Returned, TypeOK
  <2>5. CodeTells'
    BY DEF CodeTells, AllClosed, AnyFailed, TypeOK
  <2>6. ShutsForSignal'
    BY DEF ShutsForSignal, Begun, TypeOK
  <2>7. ContextEnds'
    BY DEF ContextEnds, Ended, TypeOK
  <2> QED BY <2>1, <2>2, <2>3, <2>4, <2>5, <2>6, <2>7
<1>17. CASE CatchSignal
  <2> USE <1>17 DEF CatchSignal, ToShutDown, Alive
  <2>1. TypeOK'
    BY DEF TypeOK
  <2>2. (NothingBeforeStart /\ OwnServersOnly /\ WaitsForServers)'
    BY DEF NothingBeforeStart, NothingServed, OwnServersOnly, WaitsForServers, TypeOK
  <2>3. (ProvidersUp /\ ProvidersReleased /\ TelemetryOutlivesServing)'
    BY DEF ProvidersUp, ProvidersReleased, TelemetryOutlivesServing, TypeOK
  <2>4. CleansAfterwards'
    BY DEF CleansAfterwards, NothingServed, AllReturned, Returned, TypeOK
  <2>5. CodeTells'
    BY DEF CodeTells, AllClosed, AnyFailed, TypeOK
  <2>6. ShutsForSignal'
    BY DEF ShutsForSignal, Begun, TypeOK
  <2>7. ContextEnds'
    BY DEF ContextEnds, Ended, ShutsForSignal, TypeOK
  <2> QED BY <2>1, <2>2, <2>3, <2>4, <2>5, <2>6, <2>7
<1>18. CASE GracefulReturns
  <2> USE <1>18 DEF GracefulReturns, ReturnsAtOnce, ReturnsAfterShutdown, ShutdownAwaited, Alive
  <2>1. TypeOK'
    BY DEF TypeOK
  <2>2. (NothingBeforeStart /\ OwnServersOnly /\ WaitsForServers)'
    BY DEF NothingBeforeStart, NothingServed, OwnServersOnly, WaitsForServers, TypeOK
  <2>3. (ProvidersUp /\ ProvidersReleased /\ TelemetryOutlivesServing)'
    BY DEF ProvidersUp, ProvidersReleased, TelemetryOutlivesServing, TypeOK
  <2>4. CleansAfterwards'
    BY DEF CleansAfterwards, NothingServed, AllReturned, Returned, TypeOK
  <2>5. CodeTells'
    BY DEF CodeTells, AllClosed, AnyFailed, TypeOK
  <2>6. ShutsForSignal'
    BY DEF ShutsForSignal, Begun, TypeOK
  <2>7. ContextEnds'
    BY DEF ContextEnds, Ended, TypeOK
  <2> QED BY <2>1, <2>2, <2>3, <2>4, <2>5, <2>6, <2>7
<1>19. CASE Signal
  <2> USE <1>19 DEF Signal, Alive
  <2>1. TypeOK'
    BY DEF TypeOK
  <2>2. (NothingBeforeStart /\ OwnServersOnly /\ WaitsForServers)'
    BY DEF NothingBeforeStart, NothingServed, OwnServersOnly, WaitsForServers, TypeOK
  <2>3. (ProvidersUp /\ ProvidersReleased /\ TelemetryOutlivesServing)'
    BY DEF ProvidersUp, ProvidersReleased, TelemetryOutlivesServing, TypeOK
  <2>4. CleansAfterwards'
    BY DEF CleansAfterwards, NothingServed, AllReturned, Returned, TypeOK
  <2>5. CodeTells'
    BY DEF CodeTells, AllClosed, AnyFailed, TypeOK
  <2>6. ShutsForSignal'
    BY DEF ShutsForSignal, Begun, TypeOK
  <2>7. ContextEnds'
    BY DEF ContextEnds, Ended, TypeOK
  <2> QED BY <2>1, <2>2, <2>3, <2>4, <2>5, <2>6, <2>7
<1>20. CASE TimerExpires
  <2> USE <1>20 DEF TimerExpires
  <2>1. TypeOK'
    BY DEF TypeOK
  <2>2. (NothingBeforeStart /\ OwnServersOnly /\ WaitsForServers)'
    BY DEF NothingBeforeStart, NothingServed, OwnServersOnly, WaitsForServers, TypeOK
  <2>3. (ProvidersUp /\ ProvidersReleased /\ TelemetryOutlivesServing)'
    BY DEF ProvidersUp, ProvidersReleased, TelemetryOutlivesServing, TypeOK
  <2>4. CleansAfterwards'
    BY DEF CleansAfterwards, NothingServed, AllReturned, Returned, TypeOK
  <2>5. CodeTells'
    BY DEF CodeTells, AllClosed, AnyFailed, TypeOK
  <2>6. ShutsForSignal'
    BY DEF ShutsForSignal, Begun, TypeOK
  <2>7. ContextEnds'
    BY DEF ContextEnds, Ended, TypeOK
  <2> QED BY <2>1, <2>2, <2>3, <2>4, <2>5, <2>6, <2>7
<1>21. CASE UNCHANGED vars
  BY <1>21 DEF vars, TypeOK, NothingBeforeStart, NothingServed, OwnServersOnly, WaitsForServers,
        ProvidersUp, CleansAfterwards, AllReturned, Returned, CodeTells, AllClosed, AnyFailed,
        ShutsForSignal, ContextEnds, TelemetryOutlivesServing, ProvidersReleased
<1> QED BY <1>1, <1>2, <1>3, <1>4, <1>5, <1>6, <1>7, <1>8, <1>9, <1>10, <1>11, <1>12, <1>13, <1>14, <1>15, <1>16, <1>17, <1>18, <1>19, <1>20, <1>21 DEF Next, Run, Serving

LEMMA Invariance == Spec => []IInv
BY InitIInv, NextKeepsIInv, PTL DEF Spec

-----------------------------------------------------------------------------
(* The results.                                                              *)

\* No server of the process serves, or is about to, once run()'s deferred
\* cleanups took a telemetry provider down (cmd/web/main.go).
THEOREM TelemetryOutlives == Spec => []TelemetryOutlivesServing
<1>1. IInv => TelemetryOutlivesServing
  BY DEF IInv
<1> QED BY <1>1, Invariance, PTL

\* Exit code 0 means that a signal closed every server of the program, 1 that the
\* start or a server failed, in each of the three programs.
THEOREM ExitCodesTell == Spec => []ExitCodeTells
<1>1. IInv => ExitCodeTells
  <2> SUFFICES ASSUME IInv, main = "exited"
               PROVE  /\ code = "0" => signalled /\ \A s \in Launched : serve[s] = "closed"
                      /\ code = "1" => \/ \A s \in Launched : serve[s] = "none"
                                       \/ \E s \in Servers : serve[s] = "failed"
    BY DEF ExitCodeTells
  <2>1. Launched \in SUBSET Servers /\ Launched # {}
    BY LaunchedFacts DEF IInv, TypeOK
  <2>2. ASSUME code = "0" PROVE signalled /\ \A s \in Launched : serve[s] = "closed"
    BY <2>1, <2>2 DEF IInv, CodeTells, AllClosed, ShutsForSignal, Begun
  <2>3. ASSUME code = "1"
        PROVE  \/ \A s \in Launched : serve[s] = "none"
               \/ \E s \in Servers : serve[s] = "failed"
    BY <2>1, <2>3 DEF IInv, CodeTells, AnyFailed
  <2> QED BY <2>2, <2>3
<1> QED BY <1>1, Invariance, PTL

\* A process that wired its application and was not killed ends with no provider
\* left unflushed, on its error paths too.
THEOREM ProvidersGetReleased == Spec => []ProvidersReleased
<1>1. IInv => ProvidersReleased
  BY DEF IInv
<1> QED BY <1>1, Invariance, PTL

\* In cmd/upstream and cmd/downstream, Shutdown gives up on requests in flight only
\* after shutdownTimeout or once run() went on: graceful()'s own deferred cancel
\* never cuts it short.
THEOREM ShutdownIsPatient == Spec => PatientShutdown
<1>1. IInv /\ [Next]_vars
        => [\A s \in Servers : (~Together /\ drain'[s] = "gaveUp" /\ drain[s] # "gaveUp")
              => expired \/ main # "waiting"]_vars
  <2> SUFFICES ASSUME IInv, Next, NEW s \in Servers, ~Together,
                      drain'[s] = "gaveUp", drain[s] # "gaveUp"
               PROVE  expired \/ main # "waiting"
    OBVIOUS
  <2>1. ShutdownGivesUp(s)
    BY DEF IInv, TypeOK, Next, Run, Serving, SetupObservability, SetupFails, WiringFails,
           StartServers, Wait, Cleanup, Exit, Listen, ServeFails, ServeReturns, ShutdownBegins,
           ShutdownDrained, ShutdownGivesUp, Accept, Respond, Notify, CatchSignal,
           GracefulReturns, Signal, TimerExpires
  <2>2. drain[s] = "draining" /\ ctxDone
    BY <2>1 DEF ShutdownGivesUp
  <2>3. s \in Launched
    BY <2>2 DEF IInv, OwnServersOnly
  <2> QED BY <2>2, <2>3 DEF IInv, ContextEnds, Ended
<1> QED BY <1>1, Invariance, PTL DEF Spec, PatientShutdown

-----------------------------------------------------------------------------
(* The proxied requests.                                                     *)

USE DEF Targets

\* A request to the upstream server asks for something once it has arrived, where
\* the program runs that server, and did nothing before.
NothingBeforeArrival ==
  \A r \in Upstreams :
    /\ request[r] = "new" <=> target[r] = "none"
    /\ request[r] = "new" => egress[r] = "none" /\ status[r] = "none"
    /\ request[r] # "new" => "upstream" \in Launched

\* Only requests with a usable path are sent on.
SentOnRightly ==
  \A r \in Upstreams :
    /\ egress[r] = "none" <=> sent[r] = 0
    /\ egress[r] # "none" => target[r] \in {"origin", "elsewhere"}

\* The downstream server has not seen requests that were not sent on, and has done
\* with those whose redirects were followed.
Hops ==
  "upstream" \in Launched =>
    \A r \in Upstreams : \A i \in DOMAIN EgressOf[r] :
      /\ i > sent[r] => request[EgressOf[r][i]] = "new"
      /\ i < sent[r] => request[EgressOf[r][i]] # "running"

\* What handleProxy knows of the last request it sent on.
LastHop ==
  \A r \in Upstreams :
    sent[r] > 0 =>
      /\ egress[r] \in {"dialing", "outside"} => request[Egress(r)] = "new"
      /\ egress[r] = "answered" => request[Egress(r)] # "running"
      /\ egress[r] = "aborted" => cut[r]
      /\ (egress[r] = "failed" /\ ~cut[r]) =>
           \/ request[Egress(r)] = "new"
           \/ request[Egress(r)] = "done" /\ sent[r] = Len(EgressOf[r])

\* A port that was held once can only be given up for good.
HeldPort ==
  \A r \in Upstreams : held[r] => serve["downstream"] \in {"serving", "closed", "failed"}

\* Nobody else answers at a port while it is held.
OwnAnswer ==
  \A r \in Upstreams :
    (Inside(r) /\ held[r] /\ Listening("downstream")) =>
      /\ egress[r] # "outside"
      /\ egress[r] = "answered" => request[Egress(r)] = "done"

\* What each status was made from.
StatusMade ==
  \A r \in Upstreams :
    /\ status[r] = "200" => target[r] = "health" \/ egress[r] = "answered"
    /\ status[r] = "400" => target[r] \in Unproxied
    /\ status[r] = "500" => target[r] = "unbuildable" \/ egress[r] \in {"failed", "aborted"}

ProxyIInv == /\ IInv /\ ProxyTypeOK /\ NothingBeforeArrival /\ SentOnRightly /\ Hops /\ LastHop
             /\ HeldPort /\ OwnAnswer /\ StatusMade

-----------------------------------------------------------------------------
(* Requests and the process.                                                 *)

LEMMA EgressFacts ==
  /\ Upstreams \subseteq Requests
  /\ \A r \in Upstreams :
       /\ Len(EgressOf[r]) \in Nat \ {0} /\ DOMAIN EgressOf[r] = 1 .. Len(EgressOf[r])
       /\ \A i \in DOMAIN EgressOf[r] :
            /\ EgressOf[r][i] \in Requests \ Upstreams
            /\ \A q \in Upstreams : \A j \in DOMAIN EgressOf[q] :
                 EgressOf[r][i] = EgressOf[q][j] => r = q /\ i = j
<1>1. Upstreams \subseteq Requests /\ Downstreams \subseteq Requests \ Upstreams
  BY DEF Upstreams, Downstreams
<1>2. \A r \in Upstreams : EgressOf[r] \in Seq(Downstreams) /\ EgressOf[r] # <<>>
  BY ProxyAssumption DEF ProxyAssumption
<1>3. \A r \in Upstreams :
        /\ Len(EgressOf[r]) \in Nat \ {0} /\ DOMAIN EgressOf[r] = 1 .. Len(EgressOf[r])
        /\ \A i \in DOMAIN EgressOf[r] : EgressOf[r][i] \in Downstreams
  BY <1>2
<1>4. \A r, q \in Upstreams : \A i \in DOMAIN EgressOf[r], j \in DOMAIN EgressOf[q] :
        EgressOf[r][i] = EgressOf[q][j] => r = q /\ i = j
  BY ProxyAssumption DEF ProxyAssumption
<1> QED BY <1>1, <1>3, <1>4

\* Every step of the process with its requests is a step of the process, or one
\* of the requests alone.
LEMMA StepOfProcess ==
  ASSUME ProxyTypeOK, SentOnRightly, [ProxyNext]_allVars
  PROVE  [Next]_vars
<1>1. CASE Process /\ UNCHANGED proxyVars
  BY <1>1 DEF Process, Next
<1>2. ASSUME NEW r \in Upstreams,
             \/ AcceptUpstream(r) \/ Handler(r) \/ Dial(r) \/ Receive(r)
             \/ EgressBreaks(r) \/ EgressAborted(r) \/ ArriveLate(r) \/ Cut(r)
      PROVE  [Next]_vars
  <2>1. r \in Requests /\ (egress[r] # "none" => Egress(r) \in Requests)
    BY EgressFacts DEF ProxyTypeOK, SentOnRightly, Egress
  <2>2. CASE AcceptUpstream(r) \/ RespondUpstream(r)
    BY <2>1, <2>2 DEF AcceptUpstream, RespondUpstream, Next
  <2>3. CASE AcceptEgress(r) \/ ArriveLate(r)
    <3>1. egress[r] # "none" /\ Accept(Egress(r))
      BY <2>3 DEF AcceptEgress, ArriveLate, Egressing
    <3> QED BY <2>1, <3>1 DEF Next
  <2>4. CASE Handler(r) /\ ~RespondUpstream(r)
    BY <2>4 DEF Handler, HandleHealthCheck, RejectPath, BuildFails, SendEgress, HandleProxy
  <2>5. CASE DialFails(r) \/ TakenOutside(r) \/ Receive(r)
    BY <2>5 DEF Receive, DialFails, TakenOutside, EgressAnswered, Redirected, TooManyRedirects
  <2>6. CASE EgressBreaks(r) \/ EgressAborted(r) \/ Cut(r)
    BY <2>6 DEF EgressBreaks, EgressAborted, Cut
  <2> QED BY <1>2, <2>2, <2>3, <2>4, <2>5, <2>6 DEF Dial
<1>3. ASSUME NEW q \in Requests \ Upstreams, AcceptDownstream(q) \/ RespondDownstream(q)
      PROVE  [Next]_vars
  BY <1>3 DEF AcceptDownstream, RespondDownstream, Next
<1>4. CASE UNCHANGED allVars
  BY <1>4 DEF allVars
<1> QED BY <1>1, <1>2, <1>3, <1>4 DEF ProxyNext

\* A step of the process itself leaves the requests alone.
LEMMA ProcessLeavesRequests == Process => request' = request
BY DEF Process, Run, Serving, SetupObservability, SetupFails, WiringFails, StartServers, Wait,
       Cleanup, Exit, Listen, ServeFails, ServeReturns, ShutdownBegins, ShutdownDrained,
       ShutdownGivesUp, Notify, CatchSignal, GracefulReturns, Signal, TimerExpires

\* No step of the process takes a port back that was given up.
LEMMA ProcessKeepsPort ==
  ASSUME IInv, Process, serve["downstream"] \in {"serving", "closed", "failed"}
  PROVE  /\ serve'["downstream"] \in {"serving", "closed", "failed"}
         /\ Listening("downstream")' => Listening("downstream")
<1> USE DEF Listening, IInv, TypeOK
<1>1. CASE StartServers
  BY <1>1 DEF StartServers, NothingBeforeStart, NothingServed
<1>2. ASSUME NEW s \in Servers,
             Listen(s) \/ ServeFails(s) \/ ServeReturns(s) \/ ShutdownBegins(s)
      PROVE  /\ serve'["downstream"] \in {"serving", "closed", "failed"}
             /\ Listening("downstream")' => Listening("downstream")
  BY <1>2 DEF Listen, ServeFails, ServeReturns, ShutdownBegins
<1>3. CASE UNCHANGED <<serve, closing>>
  BY <1>3
<1> QED BY <1>1, <1>2, <1>3 DEF Process, Run, Serving, SetupObservability, SetupFails, WiringFails,
      Wait, Cleanup, Exit, ShutdownDrained, ShutdownGivesUp, Notify, CatchSignal, GracefulReturns,
      Signal, TimerExpires

LEMMA InitProxyIInv == ProxyInit => ProxyIInv
<1> SUFFICES ASSUME ProxyInit PROVE ProxyIInv
  OBVIOUS
<1>1. IInv
  BY InitIInv DEF ProxyInit
<1>2. /\ \A r \in Requests : request[r] = "new"
      /\ \A r \in Upstreams : \A i \in DOMAIN EgressOf[r] : request[EgressOf[r][i]] = "new"
  BY EgressFacts DEF ProxyInit, Init
<1>3. ProxyTypeOK
  BY <1>1, <1>2, EgressFacts DEF ProxyInit, ProxyTypeOK, IInv
<1>4. NothingBeforeArrival /\ SentOnRightly /\ Hops
  BY <1>2, EgressFacts DEF ProxyInit, NothingBeforeArrival, SentOnRightly, Hops
<1>5. LastHop /\ HeldPort /\ OwnAnswer /\ StatusMade
  BY DEF ProxyInit, LastHop, HeldPort, OwnAnswer, StatusMade
<1> QED BY <1>1, <1>3, <1>4, <1>5 DEF ProxyIInv

-----------------------------------------------------------------------------
(* Every step keeps the invariant.                                           *)

LEMMA ProxyNextKeepsIInv == ProxyIInv /\ [ProxyNext]_allVars => ProxyIInv'
<1> SUFFICES ASSUME ProxyIInv, [ProxyNext]_allVars PROVE ProxyIInv'
  OBVIOUS
<1> USE EgressFacts DEF ProxyIInv, proxyVars
<1>0. IInv' /\ TypeOK'
  BY StepOfProcess, NextKeepsIInv DEF IInv
<1>a. Launched' = Launched
  <2>1. program' = program
    BY StepOfProcess DEF Next, Run, Serving, vars, SetupObservability, SetupFails, WiringFails,
           StartServers, Wait, Cleanup, Exit, Listen, ServeFails, ServeReturns, ShutdownBegins,
           ShutdownDrained, ShutdownGivesUp, Accept, Respond, Notify, CatchSignal,
           GracefulReturns, Signal, TimerExpires
  <2> QED BY <2>1 DEF Launched, Labels
<1>b. /\ request \in [Requests -> {"new", "running", "done"}]
      /\ \A s \in Servers : serve[s] = "serving" => s \in Launched
  BY DEF IInv, TypeOK, OwnServersOnly
<1> USE <1>0, <1>a, <1>b
<1>1. CASE Process /\ UNCHANGED proxyVars
  <2> USE <1>1, ProcessLeavesRequests
  <2>1. ProxyTypeOK'
    BY DEF ProxyTypeOK, NothingBeforeArrival, SentOnRightly
  <2>2. NothingBeforeArrival'
    BY DEF NothingBeforeArrival, ProxyTypeOK
  <2>3. SentOnRightly'
    BY DEF SentOnRightly, NothingBeforeArrival, ProxyTypeOK
  <2>4. Hops'
    BY DEF Hops, SentOnRightly, NothingBeforeArrival, LastHop, Egress, ProxyTypeOK
  <2>5. LastHop'
    BY DEF LastHop, Hops, SentOnRightly, NothingBeforeArrival, Egress, ProxyTypeOK
  <2>6. HeldPort'
    BY ProcessKeepsPort DEF HeldPort, NothingBeforeArrival, Listening, ProxyTypeOK
  <2>7. OwnAnswer'
    BY ProcessKeepsPort DEF OwnAnswer, HeldPort, LastHop, SentOnRightly, NothingBeforeArrival, Listening, Inside, Egress, ProxyTypeOK
  <2>8. StatusMade'
    BY DEF StatusMade, NothingBeforeArrival, SentOnRightly, Unproxied, ProxyTypeOK
  <2> QED BY <2>1, <2>2, <2>3, <2>4, <2>5, <2>6, <2>7, <2>8
<1>2. ASSUME NEW r \in Upstreams, AcceptUpstream(r) PROVE ProxyIInv'
  <2> USE <1>2 DEF AcceptUpstream, Accept, vars
  <2>0. Listening("downstream") \in BOOLEAN /\ "upstream" \in Launched
    BY DEF Listening, Upstreams
  <2>1. ProxyTypeOK'
    BY <2>0 DEF ProxyTypeOK, NothingBeforeArrival, SentOnRightly
  <2>2. NothingBeforeArrival'
    BY <2>0 DEF NothingBeforeArrival, ProxyTypeOK
  <2>3. SentOnRightly'
    BY DEF SentOnRightly, NothingBeforeArrival, ProxyTypeOK
  <2>4. Hops'
    BY DEF Hops, SentOnRightly, NothingBeforeArrival, LastHop, Egress, ProxyTypeOK
  <2>5. LastHop'
    BY DEF LastHop, Hops, SentOnRightly, NothingBeforeArrival, Egress, ProxyTypeOK
  <2>6. HeldPort'
    BY DEF HeldPort, NothingBeforeArrival, Listening, ProxyTypeOK
  <2>7. OwnAnswer'
    BY DEF OwnAnswer, HeldPort, LastHop, SentOnRightly, NothingBeforeArrival, Listening, Inside, Egress, ProxyTypeOK
  <2>8. StatusMade'
    BY DEF StatusMade, NothingBeforeArrival, SentOnRightly, Unproxied, ProxyTypeOK
  <2> QED BY <2>1, <2>2, <2>3, <2>4, <2>5, <2>6, <2>7, <2>8
<1>3. ASSUME NEW r \in Upstreams, HandleHealthCheck(r) PROVE ProxyIInv'
  <2> USE <1>3 DEF HandleHealthCheck, Handling, Answer, vars
  <2>1. ProxyTypeOK'
    BY DEF ProxyTypeOK, NothingBeforeArrival, SentOnRightly
  <2>2. NothingBeforeArrival'
    BY DEF NothingBeforeArrival, ProxyTypeOK
  <2>3. SentOnRightly'
    BY DEF SentOnRightly, NothingBeforeArrival, ProxyTypeOK
  <2>4. Hops'
    BY DEF Hops, SentOnRightly, NothingBeforeArrival, LastHop, Egress, ProxyTypeOK
  <2>5. LastHop'
    BY DEF LastHop, Hops, SentOnRightly, NothingBeforeArrival, Egress, ProxyTypeOK
  <2>6. HeldPort'
    BY DEF HeldPort, NothingBeforeArrival, Listening, ProxyTypeOK
  <2>7. OwnAnswer'
    BY DEF OwnAnswer, HeldPort, LastHop, SentOnRightly, NothingBeforeArrival, Listening, Inside, Egress, ProxyTypeOK
  <2>8. StatusMade'
    BY DEF StatusMade, NothingBeforeArrival, SentOnRightly, Unproxied, ProxyTypeOK
  <2> QED BY <2>1, <2>2, <2>3, <2>4, <2>5, <2>6, <2>7, <2>8
<1>4. ASSUME NEW r \in Upstreams, RejectPath(r) PROVE ProxyIInv'
  <2> USE <1>4 DEF RejectPath, Handling, Answer, Unproxied, vars
  <2>1. ProxyTypeOK'
    BY DEF ProxyTypeOK, NothingBeforeArrival, SentOnRightly
  <2>2. NothingBeforeArrival'
    BY DEF NothingBeforeArrival, ProxyTypeOK
  <2>3. SentOnRightly'
    BY DEF SentOnRightly, NothingBeforeArrival, ProxyTypeOK
  <2>4. Hops'
    BY DEF Hops, SentOnRightly, NothingBeforeArrival, LastHop, Egress, ProxyTypeOK
  <2>5. LastHop'
    BY DEF LastHop, Hops, SentOnRightly, NothingBeforeArrival, Egress, ProxyTypeOK
  <2>6. HeldPort'
    BY DEF HeldPort, NothingBeforeArrival, Listening, ProxyTypeOK
  <2>7. OwnAnswer'
    BY DEF OwnAnswer, HeldPort, LastHop, SentOnRightly, NothingBeforeArrival, Listening, Inside, Egress, ProxyTypeOK
  <2>8. StatusMade'
    BY DEF StatusMade, NothingBeforeArrival, SentOnRightly, Unproxied, ProxyTypeOK
  <2> QED BY <2>1, <2>2, <2>3, <2>4, <2>5, <2>6, <2>7, <2>8
<1>5. ASSUME NEW r \in Upstreams, BuildFails(r) PROVE ProxyIInv'
  <2> USE <1>5 DEF BuildFails, Handling, Answer, vars
  <2>1. ProxyTypeOK'
    BY DEF ProxyTypeOK, NothingBeforeArrival, SentOnRightly
  <2>2. NothingBeforeArrival'
    BY DEF NothingBeforeArrival, ProxyTypeOK
  <2>3. SentOnRightly'
    BY DEF SentOnRightly, NothingBeforeArrival, ProxyTypeOK
  <2>4. Hops'
    BY DEF Hops, SentOnRightly, NothingBeforeArrival, LastHop, Egress, ProxyTypeOK
  <2>5. LastHop'
    BY DEF LastHop, Hops, SentOnRightly, NothingBeforeArrival, Egress, ProxyTypeOK
  <2>6. HeldPort'
    BY DEF HeldPort, NothingBeforeArrival, Listening, ProxyTypeOK
  <2>7. OwnAnswer'
    BY DEF OwnAnswer, HeldPort, LastHop, SentOnRightly, NothingBeforeArrival, Listening, Inside, Egress, ProxyTypeOK
  <2>8. StatusMade'
    BY DEF StatusMade, NothingBeforeArrival, SentOnRightly, Unproxied, ProxyTypeOK
  <2> QED BY <2>1, <2>2, <2>3, <2>4, <2>5, <2>6, <2>7, <2>8
<1>6. ASSUME NEW r \in Upstreams, SendEgress(r) PROVE ProxyIInv'
  <2> USE <1>6 DEF SendEgress, Handling, Unproxied, vars
  <2>1. ProxyTypeOK'
    BY DEF ProxyTypeOK, NothingBeforeArrival, SentOnRightly
  <2>2. NothingBeforeArrival'
    BY DEF NothingBeforeArrival, ProxyTypeOK
  <2>3. SentOnRightly'
    BY DEF SentOnRightly, NothingBeforeArrival, ProxyTypeOK
  <2>4. Hops'
    BY DEF Hops, SentOnRightly, NothingBeforeArrival, LastHop, Egress, ProxyTypeOK
  <2>5. LastHop'
    BY DEF LastHop, Hops, SentOnRightly, NothingBeforeArrival, Egress, ProxyTypeOK
  <2>6. HeldPort'
    BY DEF HeldPort, NothingBeforeArrival, Listening, ProxyTypeOK
  <2>7. OwnAnswer'
    BY DEF OwnAnswer, HeldPort, LastHop, SentOnRightly, NothingBeforeArrival, Listening, Inside, Egress, ProxyTypeOK
  <2>8. StatusMade'
    BY DEF StatusMade, NothingBeforeArrival, SentOnRightly, Unproxied, ProxyTypeOK
  <2> QED BY <2>1, <2>2, <2>3, <2>4, <2>5, <2>6, <2>7, <2>8
<1>7. ASSUME NEW r \in Upstreams, HandleProxy(r) PROVE ProxyIInv'
  <2> USE <1>7 DEF HandleProxy, Handling, Answer, vars
  <2>1. ProxyTypeOK'
    BY DEF ProxyTypeOK, NothingBeforeArrival, SentOnRightly
  <2>2. NothingBeforeArrival'
    BY DEF NothingBeforeArrival, ProxyTypeOK
  <2>3. SentOnRightly'
    BY DEF SentOnRightly, NothingBeforeArrival, ProxyTypeOK
  <2>4. Hops'
    BY DEF Hops, SentOnRightly, NothingBeforeArrival, LastHop, Egress, ProxyTypeOK
  <2>5. LastHop'
    BY DEF LastHop, Hops, SentOnRightly, NothingBeforeArrival, Egress, ProxyTypeOK
  <2>6. HeldPort'
    BY DEF HeldPort, NothingBeforeArrival, Listening, ProxyTypeOK
  <2>7. OwnAnswer'
    BY DEF OwnAnswer, HeldPort, LastHop, SentOnRightly, NothingBeforeArrival, Listening, Inside, Egress, ProxyTypeOK
  <2>8. StatusMade'
    BY DEF StatusMade, NothingBeforeArrival, SentOnRightly, Unproxied, ProxyTypeOK
  <2> QED BY <2>1, <2>2, <2>3, <2>4, <2>5, <2>6, <2>7, <2>8
<1>8. ASSUME NEW r \in Upstreams, RespondUpstream(r) PROVE ProxyIInv'
  <2> USE <1>8 DEF RespondUpstream, Respond, vars
  <2>1. ProxyTypeOK'
    BY DEF ProxyTypeOK, NothingBeforeArrival, SentOnRightly
  <2>2. NothingBeforeArrival'
    BY DEF NothingBeforeArrival, ProxyTypeOK
  <2>3. SentOnRightly'
    BY DEF SentOnRightly, NothingBeforeArrival, ProxyTypeOK
  <2>4. Hops'
    BY DEF Hops, SentOnRightly, NothingBeforeArrival, LastHop, Egress, ProxyTypeOK
  <2>5. LastHop'
    BY DEF LastHop, Hops, SentOnRightly, NothingBeforeArrival, Egress, ProxyTypeOK
  <2>6. HeldPort'
    BY DEF HeldPort, NothingBeforeArrival, Listening, ProxyTypeOK
  <2>7. OwnAnswer'
    BY DEF OwnAnswer, HeldPort, LastHop, SentOnRightly, NothingBeforeArrival, Listening, Inside, Egress, ProxyTypeOK
  <2>8. StatusMade'
    BY DEF StatusMade, NothingBeforeArrival, SentOnRightly, Unproxied, ProxyTypeOK
  <2> QED BY <2>1, <2>2, <2>3, <2>4, <2>5, <2>6, <2>7, <2>8
<1>9. ASSUME NEW r \in Upstreams, AcceptEgress(r) PROVE ProxyIInv'
  <2> USE <1>9 DEF AcceptEgress, Egressing, Handling, Becomes, Accept, Inside, Egress, vars
  <2>0. sent[r] \in DOMAIN EgressOf[r] /\ Egress(r) \in Requests \ Upstreams
    BY DEF SentOnRightly, ProxyTypeOK
  <2>1. ProxyTypeOK'
    BY DEF ProxyTypeOK, NothingBeforeArrival, SentOnRightly
  <2>2. NothingBeforeArrival'
    BY <2>0 DEF NothingBeforeArrival, ProxyTypeOK
  <2>3. SentOnRightly'
    BY DEF SentOnRightly, NothingBeforeArrival, ProxyTypeOK
  <2>4. Hops'
    BY <2>0 DEF Hops, SentOnRightly, NothingBeforeArrival, LastHop, Egress, ProxyTypeOK
  <2>5. LastHop'
    BY DEF LastHop, Hops, SentOnRightly, NothingBeforeArrival, Egress, ProxyTypeOK
  <2>6. HeldPort'
    BY DEF HeldPort, NothingBeforeArrival, Listening, ProxyTypeOK
  <2>7. OwnAnswer'
    BY DEF OwnAnswer, HeldPort, LastHop, SentOnRightly, NothingBeforeArrival, Listening, Inside, Egress, ProxyTypeOK
  <2>8. StatusMade'
    BY DEF StatusMade, NothingBeforeArrival, SentOnRightly, Unproxied, ProxyTypeOK
  <2> QED BY <2>1, <2>2, <2>3, <2>4, <2>5, <2>6, <2>7, <2>8
<1>10. ASSUME NEW r \in Upstreams, DialFails(r) PROVE ProxyIInv'
  <2> USE <1>10 DEF DialFails, Egressing, Handling, Becomes, Inside, vars
  <2>1. ProxyTypeOK'
    BY DEF ProxyTypeOK, NothingBeforeArrival, SentOnRightly
  <2>2. NothingBeforeArrival'
    BY DEF NothingBeforeArrival, ProxyTypeOK
  <2>3. SentOnRightly'
    BY DEF SentOnRightly, NothingBeforeArrival, ProxyTypeOK
  <2>4. Hops'
    BY DEF Hops, SentOnRightly, NothingBeforeArrival, LastHop, Egress, ProxyTypeOK
  <2>5. LastHop'
    BY DEF LastHop, Hops, SentOnRightly, NothingBeforeArrival, Egress, ProxyTypeOK
  <2>6. HeldPort'
    BY DEF HeldPort, NothingBeforeArrival, Listening, ProxyTypeOK
  <2>7. OwnAnswer'
    BY DEF OwnAnswer, HeldPort, LastHop, SentOnRightly, NothingBeforeArrival, Listening, Inside, Egress, ProxyTypeOK
  <2>8. StatusMade'
    BY DEF StatusMade, NothingBeforeArrival, SentOnRightly, Unproxied, ProxyTypeOK
  <2> QED BY <2>1, <2>2, <2>3, <2>4, <2>5, <2>6, <2>7, <2>8
<1>11. ASSUME NEW r \in Upstreams, TakenOutside(r) PROVE ProxyIInv'
  <2> USE <1>11 DEF TakenOutside, Egressing, Handling, Becomes, Inside, vars
  <2>1. ProxyTypeOK'
    BY DEF ProxyTypeOK, NothingBeforeArrival, SentOnRightly
  <2>2. NothingBeforeArrival'
    BY DEF NothingBeforeArrival, ProxyTypeOK
  <2>3. SentOnRightly'
    BY DEF SentOnRightly, NothingBeforeArrival, ProxyTypeOK
  <2>4. Hops'
    BY DEF Hops, SentOnRightly, NothingBeforeArrival, LastHop, Egress, ProxyTypeOK
  <2>5. LastHop'
    BY DEF LastHop, Hops, SentOnRightly, NothingBeforeArrival, Egress, ProxyTypeOK
  <2>6. HeldPort'
    BY DEF HeldPort, NothingBeforeArrival, Listening, ProxyTypeOK
  <2>7. OwnAnswer'
    BY DEF OwnAnswer, HeldPort, LastHop, SentOnRightly, NothingBeforeArrival, Listening, Inside, Egress, ProxyTypeOK
  <2>8. StatusMade'
    BY DEF StatusMade, NothingBeforeArrival, SentOnRightly, Unproxied, ProxyTypeOK
  <2> QED BY <2>1, <2>2, <2>3, <2>4, <2>5, <2>6, <2>7, <2>8
<1>12. ASSUME NEW r \in Upstreams, EgressAnswered(r) PROVE ProxyIInv'
  <2> USE <1>12 DEF EgressAnswered, Handling, HasAnswer, Becomes, Egress, vars
  <2>1. ProxyTypeOK'
    BY DEF ProxyTypeOK, NothingBeforeArrival, SentOnRightly
  <2>2. NothingBeforeArrival'
    BY DEF NothingBeforeArrival, ProxyTypeOK
  <2>3. SentOnRightly'
    BY DEF SentOnRightly, NothingBeforeArrival, ProxyTypeOK
  <2>4. Hops'
    BY DEF Hops, SentOnRightly, NothingBeforeArrival, LastHop, Egress, ProxyTypeOK
  <2>5. LastHop'
    BY DEF LastHop, Hops, SentOnRightly, NothingBeforeArrival, Egress, ProxyTypeOK
  <2>6. HeldPort'
    BY DEF HeldPort, NothingBeforeArrival, Listening, ProxyTypeOK
  <2>7. OwnAnswer'
    BY DEF OwnAnswer, HeldPort, LastHop, SentOnRightly, NothingBeforeArrival, Listening, Inside, Egress, ProxyTypeOK
  <2>8. StatusMade'
    BY DEF StatusMade, NothingBeforeArrival, SentOnRightly, Unproxied, ProxyTypeOK
  <2> QED BY <2>1, <2>2, <2>3, <2>4, <2>5, <2>6, <2>7, <2>8
<1>13. ASSUME NEW r \in Upstreams, Redirected(r) PROVE ProxyIInv'
  <2> USE <1>13 DEF Redirected, Handling, HasAnswer, Becomes, Egress, vars
  <2>1. ProxyTypeOK'
    BY DEF ProxyTypeOK, NothingBeforeArrival, SentOnRightly
  <2>2. NothingBeforeArrival'
    BY DEF NothingBeforeArrival, ProxyTypeOK
  <2>3. SentOnRightly'
    BY DEF SentOnRightly, NothingBeforeArrival, ProxyTypeOK
  <2>4. Hops'
    BY DEF Hops, SentOnRightly, NothingBeforeArrival, LastHop, Egress, ProxyTypeOK
  <2>5. LastHop'
    BY DEF LastHop, Hops, SentOnRightly, NothingBeforeArrival, Egress, ProxyTypeOK
  <2>6. HeldPort'
    BY DEF HeldPort, NothingBeforeArrival, Listening, ProxyTypeOK
  <2>7. OwnAnswer'
    BY DEF OwnAnswer, HeldPort, LastHop, SentOnRightly, NothingBeforeArrival, Listening, Inside, Egress, ProxyTypeOK
  <2>8. StatusMade'
    BY DEF StatusMade, NothingBeforeArrival, SentOnRightly, Unproxied, ProxyTypeOK
  <2> QED BY <2>1, <2>2, <2>3, <2>4, <2>5, <2>6, <2>7, <2>8
<1>14. ASSUME NEW r \in Upstreams, TooManyRedirects(r) PROVE ProxyIInv'
  <2> USE <1>14 DEF TooManyRedirects, Handling, HasAnswer, Becomes, Egress, vars
  <2>1. ProxyTypeOK'
    BY DEF ProxyTypeOK, NothingBeforeArrival, SentOnRightly
  <2>2. NothingBeforeArrival'
    BY DEF NothingBeforeArrival, ProxyTypeOK
  <2>3. SentOnRightly'
    BY DEF SentOnRightly, NothingBeforeArrival, ProxyTypeOK
  <2>4. Hops'
    BY DEF Hops, SentOnRightly, NothingBeforeArrival, LastHop, Egress, ProxyTypeOK
  <2>5. LastHop'
    BY DEF LastHop, Hops, SentOnRightly, NothingBeforeArrival, Egress, ProxyTypeOK
  <2>6. HeldPort'
    BY DEF HeldPort, NothingBeforeArrival, Listening, ProxyTypeOK
  <2>7. OwnAnswer'
    BY DEF OwnAnswer, HeldPort, LastHop, SentOnRightly, NothingBeforeArrival, Listening, Inside, Egress, ProxyTypeOK
  <2>8. StatusMade'
    BY DEF StatusMade, NothingBeforeArrival, SentOnRightly, Unproxied, ProxyTypeOK
  <2> QED BY <2>1, <2>2, <2>3, <2>4, <2>5, <2>6, <2>7, <2>8
<1>15. ASSUME NEW r \in Upstreams, EgressBreaks(r) PROVE ProxyIInv'
  <2> USE <1>15 DEF EgressBreaks, Egressing, Handling, Becomes, vars
  <2>1. ProxyTypeOK'
    BY DEF ProxyTypeOK, NothingBeforeArrival, SentOnRightly
  <2>2. NothingBeforeArrival'
    BY DEF NothingBeforeArrival, ProxyTypeOK
  <2>3. SentOnRightly'
    BY DEF SentOnRightly, NothingBeforeArrival, ProxyTypeOK
  <2>4. Hops'
    BY DEF Hops, SentOnRightly, NothingBeforeArrival, LastHop, Egress, ProxyTypeOK
  <2>5. LastHop'
    BY DEF LastHop, Hops, SentOnRightly, NothingBeforeArrival, Egress, ProxyTypeOK
  <2>6. HeldPort'
    BY DEF HeldPort, NothingBeforeArrival, Listening, ProxyTypeOK
  <2>7. OwnAnswer'
    BY DEF OwnAnswer, HeldPort, LastHop, SentOnRightly, NothingBeforeArrival, Listening, Inside, Egress, ProxyTypeOK
  <2>8. StatusMade'
    BY DEF StatusMade, NothingBeforeArrival, SentOnRightly, Unproxied, ProxyTypeOK
  <2> QED BY <2>1, <2>2, <2>3, <2>4, <2>5, <2>6, <2>7, <2>8
<1>16. ASSUME NEW r \in Upstreams, EgressAborted(r) PROVE ProxyIInv'
  <2> USE <1>16 DEF EgressAborted, Egressing, Handling, Becomes, Cancelled, vars
  <2>1. ProxyTypeOK'
    BY DEF ProxyTypeOK, NothingBeforeArrival, SentOnRightly
  <2>2. NothingBeforeArrival'
    BY DEF NothingBeforeArrival, ProxyTypeOK
  <2>3. SentOnRightly'
    BY DEF SentOnRightly, NothingBeforeArrival, ProxyTypeOK
  <2>4. Hops'
    BY DEF Hops, SentOnRightly, NothingBeforeArrival, LastHop, Egress, ProxyTypeOK
  <2>5. LastHop'
    BY DEF LastHop, Hops, SentOnRightly, NothingBeforeArrival, Egress, ProxyTypeOK
  <2>6. HeldPort'
    BY DEF HeldPort, NothingBeforeArrival, Listening, ProxyTypeOK
  <2>7. OwnAnswer'
    BY DEF OwnAnswer, HeldPort, LastHop, SentOnRightly, NothingBeforeArrival, Listening, Inside, Egress, ProxyTypeOK
  <2>8. StatusMade'
    BY DEF StatusMade, NothingBeforeArrival, SentOnRightly, Unproxied, ProxyTypeOK
  <2> QED BY <2>1, <2>2, <2>3, <2>4, <2>5, <2>6, <2>7, <2>8
<1>17. ASSUME NEW r \in Upstreams, ArriveLate(r) PROVE ProxyIInv'
  <2> USE <1>17 DEF ArriveLate, Accept, Inside, Egress, vars
  <2>0. sent[r] \in DOMAIN EgressOf[r] /\ Egress(r) \in Requests \ Upstreams
    BY DEF SentOnRightly, ProxyTypeOK
  <2>1. ProxyTypeOK'
    BY DEF ProxyTypeOK, NothingBeforeArrival, SentOnRightly
  <2>2. NothingBeforeArrival'
    BY <2>0 DEF NothingBeforeArrival, ProxyTypeOK
  <2>3. SentOnRightly'
    BY DEF SentOnRightly, NothingBeforeArrival, ProxyTypeOK
  <2>4. Hops'
    BY <2>0 DEF Hops, SentOnRightly, NothingBeforeArrival, LastHop, Egress, ProxyTypeOK
  <2>5. LastHop'
    BY DEF LastHop, Hops, SentOnRightly, NothingBeforeArrival, Egress, ProxyTypeOK
  <2>6. HeldPort'
    BY DEF HeldPort, NothingBeforeArrival, Listening, ProxyTypeOK
  <2>7. OwnAnswer'
    BY DEF OwnAnswer, HeldPort, LastHop, SentOnRightly, NothingBeforeArrival, Listening, Inside, Egress, ProxyTypeOK
  <2>8. StatusMade'
    BY DEF StatusMade, NothingBeforeArrival, SentOnRightly, Unproxied, ProxyTypeOK
  <2> QED BY <2>1, <2>2, <2>3, <2>4, <2>5, <2>6, <2>7, <2>8
<1>18. ASSUME NEW r \in Upstreams, Cut(r) PROVE ProxyIInv'
  <2> USE <1>18 DEF Cut, Handling, vars
  <2>1. ProxyTypeOK'
    BY DEF ProxyTypeOK, NothingBeforeArrival, SentOnRightly
  <2>2. NothingBeforeArrival'
    BY DEF NothingBeforeArrival, ProxyTypeOK
  <2>3. SentOnRightly'
    BY DEF SentOnRightly, NothingBeforeArrival, ProxyTypeOK
  <2>4. Hops'
    BY DEF Hops, SentOnRightly, NothingBeforeArrival, LastHop, Egress, ProxyTypeOK
  <2>5. LastHop'
    BY DEF LastHop, Hops, SentOnRightly, NothingBeforeArrival, Egress, ProxyTypeOK
  <2>6. HeldPort'
    BY DEF HeldPort, NothingBeforeArrival, Listening, ProxyTypeOK
  <2>7. OwnAnswer'
    BY DEF OwnAnswer, HeldPort, LastHop, SentOnRightly, NothingBeforeArrival, Listening, Inside, Egress, ProxyTypeOK
  <2>8. StatusMade'
    BY DEF StatusMade, NothingBeforeArrival, SentOnRightly, Unproxied, ProxyTypeOK
  <2> QED BY <2>1, <2>2, <2>3, <2>4, <2>5, <2>6, <2>7, <2>8
<1>19. ASSUME NEW q \in Requests \ Upstreams, AcceptDownstream(q) PROVE ProxyIInv'
  <2> USE <1>19 DEF AcceptDownstream, Accept
  <2>1. ProxyTypeOK'
    BY DEF ProxyTypeOK, NothingBeforeArrival, SentOnRightly
  <2>2. NothingBeforeArrival'
    BY DEF NothingBeforeArrival, ProxyTypeOK
  <2>3. SentOnRightly'
    BY DEF SentOnRightly, NothingBeforeArrival, ProxyTypeOK
  <2>4. Hops'
    BY DEF Hops, SentOnRightly, NothingBeforeArrival, LastHop, Egress, ProxyTypeOK
  <2>5. LastHop'
    BY DEF LastHop, Hops, SentOnRightly, NothingBeforeArrival, Egress, ProxyTypeOK
  <2>6. HeldPort'
    BY DEF HeldPort, NothingBeforeArrival, Listening, ProxyTypeOK
  <2>7. OwnAnswer'
    BY DEF OwnAnswer, HeldPort, LastHop, SentOnRightly, NothingBeforeArrival, Listening, Inside, Egress, ProxyTypeOK
  <2>8. StatusMade'
    BY DEF StatusMade, NothingBeforeArrival, SentOnRightly, Unproxied, ProxyTypeOK
  <2> QED BY <2>1, <2>2, <2>3, <2>4, <2>5, <2>6, <2>7, <2>8
<1>20. ASSUME NEW q \in Requests \ Upstreams, RespondDownstream(q) PROVE ProxyIInv'
  <2> USE <1>20 DEF RespondDownstream, Respond
  <2>1. ProxyTypeOK'
    BY DEF ProxyTypeOK, NothingBeforeArrival, SentOnRightly
  <2>2. NothingBeforeArrival'
    BY DEF NothingBeforeArrival, ProxyTypeOK
  <2>3. SentOnRightly'
    BY DEF SentOnRightly, NothingBeforeArrival, ProxyTypeOK
  <2>4. Hops'
    BY DEF Hops, SentOnRightly, NothingBeforeArrival, LastHop, Egress, ProxyTypeOK
  <2>5. LastHop'
    BY DEF LastHop, Hops, SentOnRightly, NothingBeforeArrival, Egress, ProxyTypeOK
  <2>6. HeldPort'
    BY DEF HeldPort, NothingBeforeArrival, Listening, ProxyTypeOK
  <2>7. OwnAnswer'
    BY DEF OwnAnswer, HeldPort, LastHop, SentOnRightly, NothingBeforeArrival, Listening, Inside, Egress, ProxyTypeOK
  <2>8. StatusMade'
    BY DEF StatusMade, NothingBeforeArrival, SentOnRightly, Unproxied, ProxyTypeOK
  <2> QED BY <2>1, <2>2, <2>3, <2>4, <2>5, <2>6, <2>7, <2>8
<1>21. CASE UNCHANGED allVars
  <2> USE <1>21 DEF allVars, vars
  <2>1. ProxyTypeOK'
    BY DEF ProxyTypeOK, NothingBeforeArrival, SentOnRightly
  <2>2. NothingBeforeArrival'
    BY DEF NothingBeforeArrival, ProxyTypeOK
  <2>3. SentOnRightly'
    BY DEF SentOnRightly, NothingBeforeArrival, ProxyTypeOK
  <2>4. Hops'
    BY DEF Hops, SentOnRightly, NothingBeforeArrival, LastHop, Egress, ProxyTypeOK
  <2>5. LastHop'
    BY DEF LastHop, Hops, SentOnRightly, NothingBeforeArrival, Egress, ProxyTypeOK
  <2>6. HeldPort'
    BY DEF HeldPort, NothingBeforeArrival, Listening, ProxyTypeOK
  <2>7. OwnAnswer'
    BY DEF OwnAnswer, HeldPort, LastHop, SentOnRightly, NothingBeforeArrival, Listening, Inside, Egress, ProxyTypeOK
  <2>8. StatusMade'
    BY DEF StatusMade, NothingBeforeArrival, SentOnRightly, Unproxied, ProxyTypeOK
  <2> QED BY <2>1, <2>2, <2>3, <2>4, <2>5, <2>6, <2>7, <2>8
<1> QED BY <1>1, <1>2, <1>3, <1>4, <1>5, <1>6, <1>7, <1>8, <1>9, <1>10, <1>11, <1>12, <1>13, <1>14, <1>15, <1>16, <1>17, <1>18, <1>19, <1>20, <1>21 DEF ProxyNext, Handler, Dial, Receive

LEMMA ProxyInvariance == ProxySpec => []ProxyIInv
BY InitProxyIInv, ProxyNextKeepsIInv, PTL DEF ProxySpec

-----------------------------------------------------------------------------
(* The results.                                                              *)

\* The process that handles requests behaves as the process alone: so what is
\* proved of WebProcess holds while requests are proxied between its servers.
THEOREM ProxyImplementsProcess == ProxySpec => Spec
<1>1. ProxyInit => Init
  BY DEF ProxyInit
<1>2. ProxyIInv /\ [ProxyNext]_allVars => [Next]_vars
  BY StepOfProcess DEF ProxyIInv
<1> QED BY <1>1, <1>2, ProxyInvariance, PTL DEF ProxySpec, Spec

\* Every variable keeps its type, and handleProxy (upstream/upstream.go) answers
\* only what has arrived, with 400 exactly where a path is missing or malformed.
THEOREM ProxyTypeCorrect == ProxySpec => []ProxyTypeOK
<1>1. ProxyIInv => ProxyTypeOK
  BY DEF ProxyIInv
<1> QED BY <1>1, ProxyInvariance, PTL

\* What the status handleProxy (upstream/upstream.go) answers with tells a client
\* that waited for it, whoever holds the port of the downstream server and however
\* the request was redirected.
THEOREM StatusTellsTheTruth == ProxySpec => []StatusTells
<1>1. ASSUME ProxyIInv PROVE StatusTells
  <2> SUFFICES ASSUME NEW r \in Upstreams, status[r] # "none", ~cut[r]
               PROVE  /\ \A i \in DOMAIN EgressOf[r] : request[EgressOf[r][i]] # "running"
                      /\ status[r] = "400" =>
                           \A i \in DOMAIN EgressOf[r] : request[EgressOf[r][i]] = "new"
                      /\ (status[r] = "500" /\ sent[r] \in 1 .. Len(EgressOf[r]) - 1)
                           => request[Egress(r)] = "new"
                      /\ (status[r] = "200" /\ Inside(r) /\ held[r] /\ Listening("downstream"))
                           => request[Egress(r)] = "done"
    BY DEF StatusTells
  <2> USE <1>1 DEF ProxyIInv
  <2>1. status[r] \in {"200", "400", "500"} /\ sent[r] \in Nat /\ "upstream" \in Launched
    BY DEF ProxyTypeOK, NothingBeforeArrival
  <2>2. sent[r] = 0 \/ egress[r] \in {"answered", "failed"}
    <3>1. target[r] \notin {"origin", "elsewhere"} => sent[r] = 0
      BY DEF SentOnRightly
    <3>2. sent[r] > 0 => egress[r] # "aborted"
      BY DEF LastHop
    <3> QED BY <2>1, <3>1, <3>2 DEF StatusMade, Unproxied
  <2>3. sent[r] > 0 => request[Egress(r)] # "running"
    BY <2>1, <2>2 DEF LastHop
  <2>4. \A i \in DOMAIN EgressOf[r] : request[EgressOf[r][i]] # "running"
    BY <2>1, <2>3, EgressFacts DEF Hops, Egress
  <2>5. status[r] = "400" => sent[r] = 0
    BY <2>2 DEF StatusMade, SentOnRightly, Unproxied
  <2>6. status[r] = "400" => \A i \in DOMAIN EgressOf[r] : request[EgressOf[r][i]] = "new"
    BY <2>1, <2>5, EgressFacts DEF Hops
  <2>7. (status[r] = "500" /\ sent[r] \in 1 .. Len(EgressOf[r]) - 1) => request[Egress(r)] = "new"
    BY <2>1, EgressFacts DEF StatusMade, SentOnRightly, LastHop
  <2>8. (status[r] = "200" /\ Inside(r) /\ held[r] /\ Listening("downstream"))
          => request[Egress(r)] = "done"
    BY DEF StatusMade, OwnAnswer, Inside
  <2> QED BY <2>4, <2>6, <2>7, <2>8
<1>2. ProxyIInv => StatusTells
  BY <1>1
<1> QED BY <1>2, ProxyInvariance, PTL
==============================================================================

------------------------------ MODULE WebProcess ------------------------------
(* The life of a server process: cmd/web/main.go, which runs the upstream and *)
(* the downstream server together, and cmd/upstream and cmd/downstream, which *)
(* run one of them. run() sets telemetry up, wires the application, serves    *)
(* and waits; graceful() waits for a signal and shuts the servers down;       *)
(* the deferred cleanups of run() shut the telemetry providers down.          *)
EXTENDS Naturals, Sequences

CONSTANTS Programs,       \* the programs to consider, by their directory in cmd
          Requests,       \* the HTTP requests clients may send
          ServerOf,       \* the server each request goes to
          Environments    \* the settings the process may be given

Servers == {"upstream", "downstream"}

\* The servers of a program, in the order its run() sets them up.
LabelsOf == [web |-> <<"upstream", "downstream">>,
             upstream |-> <<"upstream">>,
             downstream |-> <<"downstream">>]

\* DSN, AUTH0_ISSUER and DOWNSTREAM_ORIGIN.
Settings == {"dsn", "issuer", "origin"}

ASSUME ProcessAssumption ==
  /\ Programs \subseteq DOMAIN LabelsOf
  /\ ServerOf \in [Requests -> Servers]
  /\ Environments \subseteq [Settings -> {"missing", "malformed", "good"}]

VARIABLES
  program,     \* the program that runs
  settings,    \* what its environment sets
  main,        \* where run() is
  code,        \* exit code of the process
  providers,   \* the components whose telemetry providers are up
  serve,       \* each server's ListenAndServe
  closing,     \* has Shutdown been called on the server?
  drain,       \* each server's call of Shutdown
  grace,       \* where graceful() is
  signalled,   \* is a signal in the channel of graceful()?
  ctxDone,     \* is the context that graceful() derives from done?
  expired,     \* has shutdownTimeout passed since the servers were started?
  request      \* progress of each request

vars == <<program, settings, main, code, providers, serve, closing, drain, grace,
          signalled, ctxDone, expired, request>>

Labels == LabelsOf[program]
Launched == {Labels[i] : i \in DOMAIN Labels}

\* cmd/web waits for its servers with an errgroup and starts a goroutine for each
\* Shutdown; the single servers do both in place.
Together == program = "web"

Init ==
  /\ program \in Programs
  /\ settings \in Environments
  /\ main = "setup"
  /\ code = "none"
  /\ providers = {}
  /\ serve = [s \in Servers |-> "none"]
  /\ closing = [s \in Servers |-> FALSE]
  /\ drain = [s \in Servers |-> "none"]
  /\ grace = "none"
  /\ signalled = FALSE
  /\ ctxDone = FALSE
  /\ expired = FALSE
  /\ request = [r \in Requests |-> "new"]

Running(s) == {r \in Requests : ServerOf[r] = s /\ request[r] = "running"}
Returned(s) == serve[s] \in {"closed", "failed"}

\* When main() ends, every goroutine ends with it.
Alive == main # "exited"

-----------------------------------------------------------------------------
(* run()                                                                     *)

\* The next component's providers are set up, in the order of Labels.
SetupObservability ==
  /\ main = "setup"
  /\ \E i \in DOMAIN Labels :
       /\ providers = {Labels[j] : j \in 1 .. i - 1}
       /\ providers' = providers \cup {Labels[i]}
       /\ main' = IF i = Len(Labels) THEN "wiring" ELSE "setup"
  /\ UNCHANGED <<program, settings, code, serve, closing, drain, grace, signalled, ctxDone, expired, request>>

FailureCode == "1"

\* The deferred cleanup is registered only once every component is set up.
SetupFails ==
  /\ main = "setup"
  /\ main' = "exited" /\ code' = FailureCode
  /\ UNCHANGED <<program, settings, providers, serve, closing, drain, grace, signalled, ctxDone, expired, request>>

Uncleaned == "exited"  \* variant: the cleanup is deferred after the wiring
Deferred == "cleaning"

\* db.New parses the DSN; an empty one is a DSN. NewKeyProvider only wants some
\* issuer, upstream.New an origin that parses.
DSNRejected == settings["dsn"] = "malformed"
IssuerRejected == settings["issuer"] = "missing"
OriginRejected == settings["origin"] \in {"missing", "malformed"}

UpstreamRefused == OriginRejected
DownstreamRefused == DSNRejected \/ IssuerRejected

\* cmd/web makes the origin from the port of its own downstream server.
WebRefused == DownstreamRefused

\* A constructor refuses its setting; all of them run before any server starts.
Refused == [web |-> WebRefused, upstream |-> UpstreamRefused,
            downstream |-> DownstreamRefused][program]

WiringFails ==
  /\ main = "wiring"
  /\ Refused
  /\ main' = Deferred /\ code' = "1"
  /\ UNCHANGED <<program, settings, providers, serve, closing, drain, grace, signalled, ctxDone, expired, request>>

\* The context's timer starts here; graceful() and one goroutine per server.
StartServers ==
  /\ main = "wiring"
  /\ ~Refused
  /\ main' = "waiting"
  /\ serve' = [s \in Servers |-> IF s \in Launched THEN "starting" ELSE "none"]
  /\ grace' = "starting"
  /\ UNCHANGED <<program, settings, code, providers, closing, drain, signalled, ctxDone, expired, request>>

SomeReturned == \E s \in Launched : Returned(s)           \* variants of AllReturned
AllClosed == \A s \in Launched : serve[s] = "closed"

AllReturned == \A s \in Launched : Returned(s)

LastFailed == serve[Labels[Len(Labels)]] = "failed"     \* variant of AnyFailed

AnyFailed == \E s \in Launched : serve[s] = "failed"

\* Every ListenAndServe has returned. The error run() returns is the first one
\* that is not ErrServerClosed; its deferred cancel ends the context.
Wait ==
  /\ main = "waiting"
  /\ AllReturned
  /\ main' = "cleaning"
  /\ code' = IF AnyFailed THEN "1" ELSE "0"
  /\ ctxDone' = TRUE
  /\ UNCHANGED <<program, settings, providers, serve, closing, drain, grace, signalled, expired, request>>

\* The deferred cleanups shut the components' providers down in order.
Cleanup ==
  /\ main = "cleaning"
  /\ \E i \in DOMAIN Labels :
       /\ Labels[i] \in providers
       /\ \A j \in 1 .. i - 1 : Labels[j] \notin providers
       /\ providers' = providers \ {Labels[i]}
  /\ UNCHANGED <<program, settings, main, code, serve, closing, drain, grace, signalled, ctxDone, expired, request>>

\* main() ends the process, and with it every goroutine.
Exit ==
  /\ main = "cleaning"
  /\ providers = {}
  /\ main' = "exited"
  /\ UNCHANGED <<program, settings, code, providers, serve, closing, drain, grace, signalled, ctxDone, expired, request>>

-----------------------------------------------------------------------------
(* ListenAndServe and Shutdown of net/http.                                  *)

\* The listener opens, unless Shutdown came first.
Listen(s) ==
  /\ Alive
  /\ serve[s] = "starting"
  /\ serve' = [serve EXCEPT ![s] = IF closing[s] THEN "closed" ELSE "serving"]
  /\ UNCHANGED <<program, settings, main, code, providers, closing, drain, grace, signalled, ctxDone, expired, request>>

\* The port is taken, or the listener breaks. The errgroup cancels its context.
ServeFails(s) ==
  /\ Alive
  /\ serve[s] \in {"starting", "serving"}
  /\ ~closing[s]
  /\ serve' = [serve EXCEPT ![s] = "failed"]
  /\ ctxDone' = (ctxDone \/ Together)
  /\ UNCHANGED <<program, settings, main, code, providers, closing, drain, grace, signalled, expired, request>>

ListenerClosed(s) == closing[s]

\* Shutdown closed the listener: ErrServerClosed, at once, whatever is running.
ServeReturns(s) ==
  /\ Alive
  /\ serve[s] = "serving"
  /\ ListenerClosed(s)
  /\ serve' = [serve EXCEPT ![s] = "closed"]
  /\ UNCHANGED <<program, settings, main, code, providers, closing, drain, grace, signalled, ctxDone, expired, request>>

Accept(r) ==
  /\ Alive
  /\ request[r] = "new"
  /\ serve[ServerOf[r]] = "serving"
  /\ ~closing[ServerOf[r]]
  /\ request' = [request EXCEPT ![r] = "running"]
  /\ UNCHANGED <<program, settings, main, code, providers, serve, closing, drain, grace, signalled, ctxDone, expired>>

Respond(r) ==
  /\ Alive
  /\ request[r] = "running"
  /\ request' = [request EXCEPT ![r] = "done"]
  /\ UNCHANGED <<program, settings, main, code, providers, serve, closing, drain, grace, signalled, ctxDone, expired>>

ShutdownBegins(s) ==
  /\ Alive
  /\ drain[s] = "called"
  /\ drain' = [drain EXCEPT ![s] = "draining"]
  /\ closing' = [closing EXCEPT ![s] = TRUE]
  /\ UNCHANGED <<program, settings, main, code, providers, serve, grace, signalled, ctxDone, expired, request>>

ShutdownDrained(s) ==
  /\ Alive
  /\ drain[s] = "draining"
  /\ Running(s) = {}
  /\ drain' = [drain EXCEPT ![s] = "drained"]
  /\ UNCHANGED <<program, settings, main, code, providers, serve, closing, grace, signalled, ctxDone, expired, request>>

\* The context ends while requests run: "failed to gracefully shutdown server".
ShutdownGivesUp(s) ==
  /\ Alive
  /\ drain[s] = "draining"
  /\ Running(s) # {}
  /\ ctxDone
  /\ drain' = [drain EXCEPT ![s] = "gaveUp"]
  /\ UNCHANGED <<program, settings, main, code, providers, serve, closing, grace, signalled, ctxDone, expired, request>>

-----------------------------------------------------------------------------
(* graceful()                                                                *)

Notify ==
  /\ Alive
  /\ grace = "starting"
  /\ grace' = "listening"
  /\ UNCHANGED <<program, settings, main, code, providers, serve, closing, drain, signalled, ctxDone, expired, request>>

LastOnly == {Labels[Len(Labels)]}  \* variant: all goroutines share the loop variable
ToShutDown == Launched

\* cmd/web starts a goroutine per server; the others call Shutdown in place.
CatchSignal ==
  /\ Alive
  /\ grace = "listening"
  /\ signalled
  /\ grace' = "shutting"
  /\ drain' = [s \in Servers |-> IF s \in ToShutDown THEN "called" ELSE drain[s]]
  /\ UNCHANGED <<program, settings, main, code, providers, serve, closing, signalled, ctxDone, expired, request>>

\* The deferred cancel: at once in cmd/web, where the WaitGroup is never waited
\* for ...
ReturnsAtOnce ==
  /\ Together
  /\ grace' = "returned"

NotAwaited == TRUE  \* variant
ShutdownAwaited == \A s \in Launched : drain[s] \in {"drained", "gaveUp"}

\* ... and after Shutdown in the others.
ReturnsAfterShutdown ==
  /\ ~Together
  /\ ShutdownAwaited
  /\ grace' = "returned"

GracefulReturns ==
  /\ Alive
  /\ grace = "shutting"
  /\ ReturnsAtOnce \/ ReturnsAfterShutdown
  /\ ctxDone' = TRUE
  /\ UNCHANGED <<program, settings, main, code, providers, serve, closing, drain, signalled, expired, request>>

-----------------------------------------------------------------------------
(* The surroundings.                                                         *)

\* Before signal.Notify a signal kills the process; afterwards it waits in the
\* channel, and further ones are dropped.
Signal ==
  /\ Alive
  /\ ~signalled
  /\ signalled' = TRUE
  /\ IF grace \in {"none", "starting"}
     THEN main' = "exited" /\ code' = "killed"
     ELSE UNCHANGED <<main, code>>
  /\ UNCHANGED <<program, settings, providers, serve, closing, drain, grace, ctxDone, expired, request>>

\* shutdownTimeout counts from the start of the servers, not from the signal.
TimerExpires ==
  /\ main \in {"waiting", "cleaning"}
  /\ grace # "none"
  /\ ~expired
  /\ expired' = TRUE
  /\ ctxDone' = TRUE
  /\ UNCHANGED <<program, settings, main, code, providers, serve, closing, drain, grace, signalled, request>>

Run == \/ SetupObservability \/ SetupFails \/ WiringFails \/ StartServers
       \/ Wait \/ Cleanup \/ Exit

Serving == \E s \in Servers : \/ Listen(s) \/ ServeFails(s) \/ ServeReturns(s)
                              \/ ShutdownBegins(s) \/ ShutdownDrained(s)
                              \/ ShutdownGivesUp(s)

Next == \/ Run
        \/ Serving
        \/ \E r \in Requests : Accept(r) \/ Respond(r)
        \/ Notify \/ CatchSignal \/ GracefulReturns
        \/ Signal \/ TimerExpires

Spec == Init /\ [][Next]_vars

\* Goroutines are scheduled and exporters' shutdowns return (they are bounded by
\* their own timeout). No client has to send anything, no handler has to finish,
\* nobody has to send a signal.
Fairness ==
  /\ WF_vars(SetupObservability \/ WiringFails \/ StartServers)
  /\ WF_vars(Wait) /\ WF_vars(Cleanup) /\ WF_vars(Exit)
  /\ WF_vars(Notify) /\ WF_vars(CatchSignal) /\ WF_vars(GracefulReturns)
  /\ \A s \in Servers : /\ WF_vars(Listen(s)) /\ WF_vars(ServeReturns(s))
                        /\ WF_vars(ShutdownBegins(s))

FairSpec == Spec /\ Fairness

-----------------------------------------------------------------------------
(* Properties.                                                               *)

TypeOK ==
  /\ program \in Programs /\ settings \in Environments
  /\ main \in {"setup", "wiring", "waiting", "cleaning", "exited"}
  /\ code \in {"none", "0", "1", "killed"}
  /\ code = "none" <=> main \in {"setup", "wiring", "waiting"}
  /\ providers \in SUBSET Launched
  /\ serve \in [Servers -> {"none", "starting", "serving", "closed", "failed"}]
  /\ closing \in [Servers -> BOOLEAN]
  /\ drain \in [Servers -> {"none", "called", "draining", "drained", "gaveUp"}]
  /\ grace \in {"none", "starting", "listening", "shutting", "returned"}
  /\ signalled \in BOOLEAN /\ ctxDone \in BOOLEAN /\ expired \in BOOLEAN
  /\ request \in [Requests -> {"new", "running", "done"}]

\* No server is about to serve, or serves, once any telemetry provider went down:
\* run() must not reach its deferred cleanups while a sibling server is fine.
TelemetryOutlivesServing ==
  \A s \in Servers : serve[s] \in {"starting", "serving"} => providers = Launched

\* The exit code tells how the servers ended: 0 only after a signal that closed
\* every one of them, 1 only if the start or a server failed.
ExitCodeTells ==
  main = "exited" =>
    /\ code = "0" => signalled /\ \A s \in Launched : serve[s] = "closed"
    /\ code = "1" => \/ \A s \in Launched : serve[s] = "none"
                     \/ \E s \in Servers : serve[s] = "failed"

\* A process that got as far as wiring its application and ends by itself leaves
\* no provider behind unflushed, on the error paths too.
ProvidersReleased ==
  (main = "exited" /\ code # "killed" /\ providers # {})
    => providers # Launched /\ \A s \in Servers : serve[s] = "none"

\* A signal, and the failure of every server, end the process, although nothing
\* waits for the requests in flight and handlers may never return.
ProcessStops ==
  (signalled \/ (main = "waiting" /\ \A s \in Launched : serve[s] = "failed")) ~> main = "exited"

\* Where graceful() calls Shutdown in place, the draining of a server is cut
\* short only by the timeout or by run() going on to its cleanups, never by the
\* cancel that graceful() defers.
PatientShutdown ==
  [][\A s \in Servers : (~Together /\ drain'[s] = "gaveUp" /\ drain[s] # "gaveUp")
       => expired \/ main # "waiting"]_vars

\* A graceful shutdown lets the requests in flight finish unless shutdownTimeout
\* passes first ("failed to gracefully shutdown server"). The code does not do it.
DrainsInFlight ==
  (main = "exited" /\ code = "0" /\ ~expired) => \A s \in Servers : Running(s) = {}
==============================================================================

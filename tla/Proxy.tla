-------------------------------- MODULE Proxy --------------------------------
(* The requests of the upstream server (upstream/upstream.go), together with  *)
(* the process they run in: handleProxy sends a request of its own to the     *)
(* downstream origin, which in cmd/web is the other server of the process and *)
(* in cmd/upstream another process.                                           *)
EXTENDS WebProcess

\* The requests to the downstream server that a request to the upstream server may
\* lead to, in order: http.Client follows redirects, up to ten requests in all.
CONSTANT EgressOf

Upstreams == {r \in Requests : ServerOf[r] = "upstream"}
Downstreams == {r \in Requests : ServerOf[r] = "downstream"}

ASSUME ProxyAssumption ==
  /\ EgressOf \in [Upstreams -> Seq(Downstreams)]
  /\ \A r \in Upstreams : EgressOf[r] # <<>>
  /\ \A r, q \in Upstreams : \A i \in DOMAIN EgressOf[r], j \in DOMAIN EgressOf[q] :
       EgressOf[r][i] = EgressOf[q][j] => r = q /\ i = j

\* What a request asks for: a page of the server itself; or /proxy with no path, a
\* malformed one, one no request can be built of, the origin or any other place.
Targets == {"health", "noPath", "badPath", "unbuildable", "origin", "elsewhere"}

VARIABLES
  target,   \* what each request to the upstream server asks for, or is redirected to
  egress,   \* progress of the request it has sent on
  sent,     \* how many requests it has sent on
  held,     \* did the downstream server hold its port when it arrived?
  cut,      \* has its client gone?
  status    \* the status it is answered with

proxyVars == <<target, egress, sent, held, cut, status>>
allVars == <<vars, proxyVars>>

\* Is the downstream server of the same process asked?
Inside(r) == target[r] = "origin" /\ "downstream" \in Launched

\* Does the server hold its port? If not, its port is closed or another process has it.
Listening(s) == serve[s] = "serving" /\ ~closing[s]

\* The request that was sent last.
Egress(r) == EgressOf[r][sent[r]]

ProxyInit ==
  /\ Init
  /\ target = [r \in Upstreams |-> "none"]
  /\ egress = [r \in Upstreams |-> "none"]
  /\ sent = [r \in Upstreams |-> 0]
  /\ held = [r \in Upstreams |-> FALSE]
  /\ cut = [r \in Upstreams |-> FALSE]
  /\ status = [r \in Upstreams |-> "none"]

-----------------------------------------------------------------------------
(* Requests and their handlers.                                              *)

AcceptUpstream(r) ==
  /\ Accept(r)
  /\ \E t \in Targets : target' = [target EXCEPT ![r] = t]
  /\ held' = [held EXCEPT ![r] = Listening("downstream")]
  /\ UNCHANGED <<egress, sent, cut, status>>

\* A client's own request to the downstream server.
AcceptDownstream(r) ==
  /\ "upstream" \in Launched =>
       \A u \in Upstreams : \A i \in DOMAIN EgressOf[u] : EgressOf[u][i] # r
  /\ Accept(r)
  /\ UNCHANGED proxyVars

Handling(r) == Alive /\ request[r] = "running" /\ status[r] = "none"
Answer(r, s) == status' = [status EXCEPT ![r] = s]

HandleHealthCheck(r) ==
  /\ Handling(r)
  /\ target[r] = "health"
  /\ Answer(r, "200")
  /\ UNCHANGED <<vars, target, egress, sent, held, cut>>

NoPathOnly == {"noPath"}  \* variant
Unproxied == {"noPath", "badPath"}

\* "path query parameter is required", "malformed URL".
RejectPath(r) ==
  /\ Handling(r)
  /\ target[r] \in Unproxied
  /\ Answer(r, "400")
  /\ UNCHANGED <<vars, target, egress, sent, held, cut>>

\* "cannot build egress request".
BuildFails(r) ==
  /\ Handling(r)
  /\ target[r] = "unbuildable"
  /\ Answer(r, "500")
  /\ UNCHANGED <<vars, target, egress, sent, held, cut>>

SendEgress(r) ==
  /\ Handling(r)
  /\ target[r] \notin Unproxied \cup {"health", "unbuildable"}
  /\ egress[r] = "none"
  /\ egress' = [egress EXCEPT ![r] = "dialing"]
  /\ sent' = [sent EXCEPT ![r] = 1]
  /\ UNCHANGED <<vars, target, held, cut, status>>

\* The response is the status, the headers and the body of the last egress response,
\* whatever that status is; a failure to send or to read it is an error.
HandleProxy(r) ==
  /\ Handling(r)
  /\ egress[r] \in {"answered", "failed", "aborted"}
  /\ Answer(r, IF egress[r] = "answered" THEN "200" ELSE "500")
  /\ UNCHANGED <<vars, target, egress, sent, held, cut>>

RespondUpstream(r) ==
  /\ status[r] # "none"
  /\ Respond(r)
  /\ UNCHANGED proxyVars

RespondDownstream(r) ==
  /\ ServerOf[r] = "downstream"
  /\ Respond(r)
  /\ UNCHANGED proxyVars

\* The client of a request that is being handled goes away.
Cut(r) ==
  /\ Handling(r)
  /\ ~cut[r]
  /\ cut' = [cut EXCEPT ![r] = TRUE]
  /\ UNCHANGED <<vars, target, egress, sent, held, status>>

-----------------------------------------------------------------------------
(* The egress request, from client.Do to the end of io.ReadAll.              *)

Egressing(r, stages) == Handling(r) /\ egress[r] \in stages
Becomes(r, stage) == egress' = [egress EXCEPT ![r] = stage]

\* It reaches the downstream server of the process.
AcceptEgress(r) ==
  /\ Egressing(r, {"dialing"}) /\ Inside(r)
  /\ Accept(Egress(r))
  /\ Becomes(r, "accepted")
  /\ UNCHANGED <<target, sent, held, cut, status>>

\* Nobody listens at its target, or the listener closes before it accepts.
DialFails(r) ==
  /\ Egressing(r, {"dialing"})
  /\ Inside(r) => ~Listening("downstream")
  /\ Becomes(r, "failed")
  /\ UNCHANGED <<vars, target, sent, held, cut, status>>

\* Another process takes it: the server of another place, or the one that holds the
\* port which the own downstream server could not bind or has given up.
TakenOutside(r) ==
  /\ Egressing(r, {"dialing"})
  /\ Inside(r) => ~Listening("downstream")
  /\ Becomes(r, "outside")
  /\ UNCHANGED <<vars, target, sent, held, cut, status>>

\* Has it an answer? Another process has one whenever it likes, or never.
HasAnswer(r) ==
  \/ egress[r] = "outside"
  \/ egress[r] = "accepted" /\ request[Egress(r)] = "done"

EgressAnswered(r) ==
  /\ Handling(r) /\ HasAnswer(r)
  /\ Becomes(r, "answered")
  /\ UNCHANGED <<vars, target, sent, held, cut, status>>

\* The answer is a redirect, which client.Do follows: the multiplexer of the
\* downstream server only redirects to paths of its own.
Redirected(r) ==
  /\ Handling(r) /\ HasAnswer(r)
  /\ sent[r] < Len(EgressOf[r])
  /\ \E t \in {"origin", "elsewhere"} :
       /\ egress[r] = "accepted" => t = "origin"
       /\ target' = [target EXCEPT ![r] = t]
  /\ sent' = [sent EXCEPT ![r] = @ + 1]
  /\ Becomes(r, "dialing")
  /\ UNCHANGED <<vars, held, cut, status>>

TooManyRedirects(r) ==
  /\ Handling(r) /\ HasAnswer(r)
  /\ sent[r] = Len(EgressOf[r])
  /\ Becomes(r, "failed")
  /\ UNCHANGED <<vars, target, sent, held, cut, status>>

\* Another process closes the connection, or answers what is no response.
EgressBreaks(r) ==
  /\ Egressing(r, {"outside"})
  /\ Becomes(r, "failed")
  /\ UNCHANGED <<vars, target, sent, held, cut, status>>

Detached(r) == FALSE    \* variants: a context of its own, without a deadline
OwnDeadline(r) == TRUE  \* and with one

\* The egress request carries the context of the one it is made for.
Cancelled(r) == cut[r]

\* One that was being sent may still arrive.
EgressAborted(r) ==
  /\ Egressing(r, {"dialing", "accepted", "outside"})
  /\ Cancelled(r)
  /\ Becomes(r, IF egress[r] = "dialing" THEN "aborted" ELSE "failed")
  /\ UNCHANGED <<vars, target, sent, held, cut, status>>

ArriveLate(r) ==
  /\ egress[r] = "aborted" /\ Inside(r)
  /\ Accept(Egress(r))
  /\ UNCHANGED proxyVars

-----------------------------------------------------------------------------
Process == Run \/ Serving \/ Notify \/ CatchSignal \/ GracefulReturns
           \/ Signal \/ TimerExpires

Handler(r) == \/ HandleHealthCheck(r) \/ RejectPath(r) \/ BuildFails(r) \/ SendEgress(r)
              \/ HandleProxy(r) \/ RespondUpstream(r)

Dial(r) == AcceptEgress(r) \/ DialFails(r) \/ TakenOutside(r)
Receive(r) == EgressAnswered(r) \/ Redirected(r) \/ TooManyRedirects(r)

ProxyNext ==
  \/ Process /\ UNCHANGED proxyVars
  \/ \E r \in Upstreams : \/ AcceptUpstream(r) \/ Handler(r) \/ Dial(r) \/ Receive(r)
                          \/ EgressBreaks(r) \/ EgressAborted(r) \/ ArriveLate(r) \/ Cut(r)
  \/ \E r \in Requests \ Upstreams : AcceptDownstream(r) \/ RespondDownstream(r)

\* Like the goroutines of run(), those of the upstream handlers are scheduled. A
\* dial ends (http.DefaultTransport limits it), an answer of the own downstream
\* server is received and the end of the context is noticed. Handlers of the
\* downstream server and other processes need not answer: client.Do has no limit.
ProxySpec ==
  /\ ProxyInit /\ [][ProxyNext]_allVars
  /\ Fairness
  /\ \A r \in Upstreams :
       /\ WF_allVars(Handler(r)) /\ WF_allVars(Dial(r)) /\ WF_allVars(EgressAborted(r))
       /\ WF_allVars(egress[r] = "accepted" /\ Receive(r))

-----------------------------------------------------------------------------
(* Properties.                                                               *)

ProxyTypeOK ==
  /\ TypeOK
  /\ target \in [Upstreams -> Targets \cup {"none"}]
  /\ egress \in [Upstreams -> {"none", "dialing", "accepted", "outside", "answered", "failed", "aborted"}]
  /\ sent \in [Upstreams -> Nat] /\ \A r \in Upstreams : sent[r] <= Len(EgressOf[r])
  /\ held \in [Upstreams -> BOOLEAN] /\ cut \in [Upstreams -> BOOLEAN]
  /\ status \in [Upstreams -> {"none", "200", "400", "500"}]
  /\ \A r \in Upstreams : /\ status[r] # "none" => request[r] # "new"
                          /\ status[r] \in {"none", "400"} \/ target[r] \notin {"noPath", "badPath"}

\* What a client that waited for its answer knows of the downstream server. None of
\* the requests sent on for it, redirects included, is still running there. 400:
\* none was sent. 500: the last one was not answered there, it is not even known
\* there, unless the redirects were too many. 200 from the origin: it was answered
\* there, as long as that server has held its port since the request arrived;
\* otherwise the answer may be that of a process which holds the port instead.
StatusTells ==
  \A r \in Upstreams :
    LET asked == {EgressOf[r][i] : i \in DOMAIN EgressOf[r]}
    IN (status[r] # "none" /\ ~cut[r]) =>
         /\ \A q \in asked : request[q] # "running"
         /\ status[r] = "400" => \A q \in asked : request[q] = "new"
         /\ (status[r] = "500" /\ sent[r] \in 1 .. Len(EgressOf[r]) - 1)
              => request[Egress(r)] = "new"
         /\ (status[r] = "200" /\ Inside(r) /\ held[r] /\ Listening("downstream"))
              => request[Egress(r)] = "done"

\* Servers that shut down, fail or start do not leave a proxied request waiting: it
\* ends, unless a handler of the downstream server hangs or another process has it
\* and stays silent. Even then its client's going away ends it, and only that:
\* client.Do has no time limit of its own.
ProxyEnds ==
  \A r \in Upstreams :
    /\ request[r] = "running" ~>
         (\/ request[r] = "done" \/ ~Alive
          \/ egress[r] = "outside"
          \/ egress[r] = "accepted" /\ request[Egress(r)] = "running")
    /\ (request[r] = "running" /\ cut[r]) ~> (request[r] = "done" \/ ~Alive)
==============================================================================

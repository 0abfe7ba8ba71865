----------------------------- MODULE GroupLoader -----------------------------
(* graph/loaders/loader.go together with the dataloader it drives            *)
(* (github.com/graph-gophers/dataloader/v7, modelled from the way loader.go  *)
(* configures and calls it: batched, NoCache, no batch capacity).            *)
(*                                                                           *)
(* One process-wide loader serves every request. A call of                   *)
(* GetBelongingGroupsByLiverID appends a request to the batch that is        *)
(* collecting, or opens one; the opener's context becomes the context of the *)
(* whole batch. A sleeper closes the batch, its goroutine runs               *)
(* LoadLiverGroups once for all collected keys, then hands result i to       *)
(* request i, one request after the other.                                   *)
(*                                                                           *)
(* A batch is named by the call that opened it: every call loads once, so    *)
(* it opens one batch at most.                                               *)
EXTENDS Naturals, Sequences, FiniteSets

CONSTANTS Calls, Contexts, Livers, Groups, KeyOf, CtxOf

ASSUME CallsAssumption == /\ KeyOf \in [Calls -> Livers]
                          /\ CtxOf \in [Calls -> Contexts]

CONSTANT NoCall
ASSUME NoCallAssumption == NoCall \notin Calls

VARIABLES
  members,     \* rows <<group, liver>> the join of repos.go returns for all livers
  dbUp,        \* does the database answer?
  ctx,         \* [Contexts -> {"bare", "live", "cancelled"}]
  curBatcher,  \* the loader's curBatcher: the collecting batch, or NoCall
  phase,       \* phase of each batch's goroutine
  reqs,        \* the requests of each batch, in the order of its input channel
  items,       \* what LoadLiverGroups returned to each batch
  sent,        \* how many requests of each batch have their result
  ticket,      \* the request each call's thunk waits on: <<batch, position>>
  answer       \* what each call's thunk returned

loaderVars == <<curBatcher, phase, reqs, items, sent, ticket, answer>>
envVars == <<members, dbUp, ctx>>
vars == <<members, dbUp, ctx, curBatcher, phase, reqs, items, sent, ticket, answer>>

NoAnswer == [kind |-> "none"]
NotFound == [kind |-> "notFound"]         \* "belonging groups not found"
NoAggregate == [kind |-> "noAggregate"]   \* ErrLoaderAggregateRequired
Failed == [kind |-> "failed"]             \* the dataloader's wrong-length error
Data(gs) == [kind |-> "data", groups |-> gs]
NoTicket == <<NoCall, 0>>

Rows == Groups \X Livers
Results == {NotFound} \cup {Data(gs) : gs \in (SUBSET Groups) \ {{}}}
Answers == {NoAnswer, NoAggregate, Failed} \cup Results
Phases == {"unused", "open", "closed", "answering"}

-----------------------------------------------------------------------------
(* The batch function.                                                       *)

\* The keys of a batch, in the order of its requests; repeated keys stay.
Keys(b) == [i \in DOMAIN reqs[b] |-> KeyOf[reqs[b][i]]]

\* domain/repos.go: one statement, so one reading of the tables.
GetBelongingGroupsByLivers(keys) ==
  {r \in members : \E i \in DOMAIN keys : keys[i] = r[2]}

AlwaysData(rows, l) == Data({g \in Groups : <<g, l>> \in rows})  \* variant

\* A liver without a row gets an error.
ResultOf(rows, l) ==
  LET gs == {g \in Groups : <<g, l>> \in rows}
  IN  IF gs = {} THEN NotFound ELSE Data(gs)

LoadReversed(rows, keys) ==  \* variant: results in another order than the keys
  [i \in DOMAIN keys |-> ResultOf(rows, keys[Len(keys) + 1 - i])]

\* results[i] belongs to keys[i].
LoadLiverGroups(rows, keys) == [i \in DOMAIN keys |-> ResultOf(rows, keys[i])]

\* The dataloader gives item i to request i, unless the numbers differ.
Item(b, i) == IF Len(items[b]) = Len(reqs[b]) THEN items[b][i] ELSE Failed

-----------------------------------------------------------------------------
Init ==
  /\ members \in SUBSET Rows
  /\ dbUp = TRUE
  /\ ctx = [x \in Contexts |-> "bare"]
  /\ curBatcher = NoCall
  /\ phase = [b \in Calls |-> "unused"]
  /\ reqs = [b \in Calls |-> <<>>]
  /\ items = [b \in Calls |-> <<>>]
  /\ sent = [b \in Calls |-> 0]
  /\ ticket = [c \in Calls |-> NoTicket]
  /\ answer = [c \in Calls |-> NoAnswer]

Idle(c) == ticket[c] = NoTicket /\ answer[c] = NoAnswer

\* The operation's context carries the loader from here on.
InterceptOperation(x) ==
  /\ ctx[x] = "bare"
  /\ ctx' = [ctx EXCEPT ![x] = "live"]
  /\ UNCHANGED <<members, dbUp, loaderVars>>

\* For(ctx) is nil: the call returns at once.
LoadWithoutAggregate(c) ==
  /\ Idle(c)
  /\ ctx[CtxOf[c]] = "bare"
  /\ answer' = [answer EXCEPT ![c] = NoAggregate]
  /\ UNCHANGED <<envVars, curBatcher, phase, reqs, items, sent, ticket>>

\* Load, under the batch lock. A cancelled context does not stop it.
Load(c) ==
  LET b == IF curBatcher = NoCall THEN c ELSE curBatcher
  IN  /\ Idle(c)
      /\ ctx[CtxOf[c]] # "bare"
      /\ curBatcher' = b
      /\ phase' = [phase EXCEPT ![b] = "open"]
      /\ reqs' = [reqs EXCEPT ![b] = Append(@, c)]
      /\ ticket' = [ticket EXCEPT ![c] = <<b, Len(reqs[b]) + 1>>]
      /\ UNCHANGED <<envVars, items, sent, answer>>

KeepBatcher(b) == curBatcher  \* variant: no reset

Reset(b) == IF curBatcher = b THEN NoCall ELSE curBatcher

\* The batch's sleeper wakes up after the wait and ends the batch.
Sleeper(b) ==
  /\ phase[b] = "open"
  /\ phase' = [phase EXCEPT ![b] = "closed"]
  /\ curBatcher' = Reset(b)
  /\ UNCHANGED <<envVars, reqs, items, sent, ticket, answer>>

\* The batch goroutine runs LoadLiverGroups under the context of the call that
\* opened the batch. An error of the query turns into nil results.
Batch(b) ==
  /\ phase[b] = "closed"
  /\ phase' = [phase EXCEPT ![b] = "answering"]
  /\ items' = [items EXCEPT ![b] =
       IF dbUp /\ ctx[CtxOf[b]] # "cancelled"
       THEN LoadLiverGroups(GetBelongingGroupsByLivers(Keys(b)), Keys(b))
       ELSE <<>>]
  /\ UNCHANGED <<envVars, curBatcher, reqs, sent, ticket, answer>>

LeftButLast(b) == sent[b] < Len(reqs[b]) - 1  \* variant: off by one

Left(b) == sent[b] < Len(reqs[b])

\* The next request of the batch gets its result, and its thunk returns.
Deliver(b) ==
  /\ phase[b] = "answering"
  /\ Left(b)
  /\ sent' = [sent EXCEPT ![b] = @ + 1]
  /\ answer' = [answer EXCEPT ![reqs[b][sent[b] + 1]] = Item(b, sent[b] + 1)]
  /\ UNCHANGED <<envVars, curBatcher, phase, reqs, items, ticket>>

-----------------------------------------------------------------------------
(* The surroundings.                                                         *)

\* The client goes away, or net/http cancels the request's context.
Cancel(x) ==
  /\ ctx[x] = "live"
  /\ ctx' = [ctx EXCEPT ![x] = "cancelled"]
  /\ UNCHANGED <<members, dbUp, loaderVars>>

\* Another writer inserts or deletes a row.
Write ==
  /\ \E r \in Rows : members' = (members \cup {r}) \/ members' = (members \ {r})
  /\ UNCHANGED <<dbUp, ctx, loaderVars>>

Toggle ==
  /\ dbUp' = ~dbUp
  /\ UNCHANGED <<members, ctx, loaderVars>>

Next ==
  \/ \E x \in Contexts : InterceptOperation(x) \/ Cancel(x)
  \/ \E c \in Calls : LoadWithoutAggregate(c) \/ Load(c)
  \/ \E b \in Calls : Sleeper(b) \/ Batch(b) \/ Deliver(b)
  \/ Write
  \/ Toggle

Spec == Init /\ [][Next]_vars

\* Timers fire, goroutines are scheduled, and a query returns (rows, or the
\* driver's error) once it was sent. No caller is obliged to call.
Fairness == \A b \in Calls : /\ WF_vars(Sleeper(b))
                             /\ WF_vars(Batch(b))
                             /\ WF_vars(Deliver(b))

FairSpec == Spec /\ Fairness

-----------------------------------------------------------------------------
(* Properties.                                                               *)

\* Every variable keeps its shape.
TypeOK ==
  /\ members \in SUBSET Rows
  /\ dbUp \in BOOLEAN
  /\ ctx \in [Contexts -> {"bare", "live", "cancelled"}]
  /\ curBatcher \in Calls \cup {NoCall}
  /\ phase \in [Calls -> Phases]
  /\ reqs \in [Calls -> Seq(Calls)]
  /\ items \in [Calls -> Seq(Results)]
  /\ sent \in [Calls -> Nat]
  /\ ticket \in [Calls -> (Calls \cup {NoCall}) \X Nat]
  /\ answer \in [Calls -> Answers]

\* A batch is collecting exactly while the loader points to it.
OneCollector == \A b \in Calls : phase[b] = "open" <=> curBatcher = b

\* A batch holds requests exactly from its opening on, and the first is its
\* opener's: the context the batch runs under is that of one of its calls.
OpenerFirst ==
  \A b \in Calls : IF phase[b] = "unused"
                   THEN reqs[b] = <<>>
                   ELSE Len(reqs[b]) > 0 /\ reqs[b][1] = b

\* Calls and requests match one to one: the request a thunk waits on is in the
\* place its ticket names, and no request waits in two places.
Tickets ==
  /\ \A c \in Calls : ticket[c] # NoTicket =>
       /\ ticket[c][1] \in Calls
       /\ ticket[c][2] \in 1 .. Len(reqs[ticket[c][1]])
       /\ reqs[ticket[c][1]][ticket[c][2]] = c
  /\ \A b \in Calls : \A i \in DOMAIN reqs[b] : ticket[reqs[b][i]] = <<b, i>>

\* A request has its result exactly when its batch's goroutine has passed it.
Progress ==
  /\ \A b \in Calls : sent[b] <= Len(reqs[b])
  /\ \A b \in Calls : phase[b] # "answering" => sent[b] = 0
  /\ \A c \in Calls : ticket[c] # NoTicket =>
       (answer[c] # NoAnswer <=> ticket[c][2] <= sent[ticket[c][1]])

\* No call is lost or answered twice: a call whose thunk is waiting has its one
\* request in one batch, not yet passed by that batch's goroutine, and every
\* batch runs under the context of a call it serves (hazard: the curBatcher
\* handed over between Load and the sleeper).
NoLostLoad == OneCollector /\ OpenerFirst /\ Tickets /\ Progress

\* What each call has found so far, as GroupLookup sees it.
StageOf == [c \in Calls |->
  IF answer[c] # NoAnswer THEN "answered"
  ELSE IF ticket[c] = NoTicket THEN "idle"
  ELSE IF phase[ticket[c][1]] = "answering" THEN "looked"
  ELSE "asked"]

SeenOf == [c \in Calls |->
  IF answer[c] = NoAnswer /\ ticket[c] # NoTicket /\ phase[ticket[c][1]] = "answering"
  THEN Item(ticket[c][1], ticket[c][2])
  ELSE answer[c]]

Lookup == INSTANCE GroupLookup WITH stage <- StageOf, seen <- SeenOf

\* The loader keeps the promise of GroupLookup: every answer is what the call's
\* own liver had while the call was in progress, and a failure has its cause in
\* the database or in the request of a call of the same batch (hazards: results
\* paired with the wrong keys, stale answers, cancellation shared by requests).
KeepsPromise == Lookup!Spec

\* Every call that loads is answered, whatever happens to the contexts and the
\* database meanwhile.
EveryLoadReturns == \A c \in Calls : ticket[c] # NoTicket ~> answer[c] # NoAnswer
==============================================================================

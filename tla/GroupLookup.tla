----------------------------- MODULE GroupLookup -----------------------------
(* What the group loader promises to the resolvers that call it              *)
(* (graph/loaders/loader.go), with no batches, queues or goroutines: a call  *)
(* for one liver is answered once, with the groups that liver had at some    *)
(* moment between the call and its answer; calls that are looked up together *)
(* fail together, and only when the database is down or the request of one   *)
(* of them was cancelled.                                                    *)
EXTENDS FiniteSets

CONSTANTS Calls,      \* calls of GetBelongingGroupsByLiverID
          Contexts,   \* the requests' contexts
          Livers, Groups,
          KeyOf,      \* the liver each call asks for
          CtxOf       \* the context each call runs in

VARIABLES members,    \* the rows of liver_group_members, joined to liver_groups
          dbUp,       \* does the database answer queries?
          ctx,        \* state of each context
          stage,      \* progress of each call
          seen        \* what each call found

vars == <<members, dbUp, ctx, stage, seen>>

NoAnswer == [kind |-> "none"]
NotFound == [kind |-> "notFound"]
NoAggregate == [kind |-> "noAggregate"]
Failed == [kind |-> "failed"]
Data(gs) == [kind |-> "data", groups |-> gs]

\* What liver l's groups are right now: none at all is an error of the API.
LookUp(l) == LET gs == {g \in Groups : <<g, l>> \in members}
             IN  IF gs = {} THEN NotFound ELSE Data(gs)

Init == /\ members \in SUBSET (Groups \X Livers)
        /\ dbUp = TRUE
        /\ ctx = [x \in Contexts |-> "bare"]
        /\ stage = [c \in Calls |-> "idle"]
        /\ seen = [c \in Calls |-> NoAnswer]

Ask(c) == /\ stage[c] = "idle"
          /\ ctx[CtxOf[c]] # "bare"
          /\ stage' = [stage EXCEPT ![c] = "asked"]
          /\ UNCHANGED <<members, dbUp, ctx, seen>>

Refuse(c) == /\ stage[c] = "idle"
             /\ ctx[CtxOf[c]] = "bare"
             /\ stage' = [stage EXCEPT ![c] = "answered"]
             /\ seen' = [seen EXCEPT ![c] = NoAggregate]
             /\ UNCHANGED <<members, dbUp, ctx>>

\* The calls of S are looked up in one reading of the database.
Look(S) == /\ \A c \in S : stage[c] = "asked"
           /\ stage' = [c \in Calls |-> IF c \in S THEN "looked" ELSE stage[c]]
           /\ seen' = [c \in Calls |-> IF c \in S THEN LookUp(KeyOf[c]) ELSE seen[c]]
           /\ UNCHANGED <<members, dbUp, ctx>>

\* The calls of S fail together, for a reason one of them has.
Fail(S) == /\ \A c \in S : stage[c] = "asked"
           /\ ~dbUp \/ \E c \in S : ctx[CtxOf[c]] = "cancelled"
           /\ stage' = [c \in Calls |-> IF c \in S THEN "looked" ELSE stage[c]]
           /\ seen' = [c \in Calls |-> IF c \in S THEN Failed ELSE seen[c]]
           /\ UNCHANGED <<members, dbUp, ctx>>

Give(c) == /\ stage[c] = "looked"
           /\ stage' = [stage EXCEPT ![c] = "answered"]
           /\ UNCHANGED <<members, dbUp, ctx, seen>>

\* The surroundings: requests start and are cancelled, rows come and go, the
\* database fails and recovers.
Environment == /\ \/ /\ members' \in SUBSET (Groups \X Livers)
                     /\ UNCHANGED <<dbUp, ctx>>
                  \/ /\ dbUp' = ~dbUp
                     /\ UNCHANGED <<members, ctx>>
                  \/ /\ \E x \in Contexts :
                          \/ ctx[x] = "bare" /\ ctx' = [ctx EXCEPT ![x] = "live"]
                          \/ ctx[x] = "live" /\ ctx' = [ctx EXCEPT ![x] = "cancelled"]
                     /\ UNCHANGED <<members, dbUp>>
               /\ UNCHANGED <<stage, seen>>

Next == \/ \E c \in Calls : Ask(c) \/ Refuse(c) \/ Give(c)
        \/ \E S \in SUBSET Calls : Look(S) \/ Fail(S)
        \/ Environment

Spec == Init /\ [][Next]_vars
==============================================================================

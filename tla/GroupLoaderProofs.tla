-------------------------- MODULE GroupLoaderProofs --------------------------
(* Theorems about GroupLoader, for any number of calls, requests, livers and *)
(* groups and any assignment of calls to them.                               *)
EXTENDS GroupLoader, TLAPS

IInv == TypeOK /\ NoLostLoad

USE DEF NoTicket, NoAnswer, NotFound, NoAggregate, Failed, Data

\* LoadLiverGroups returns one well-formed result for each key.
LEMMA OneResultPerKey ==
  ASSUME NEW rows, NEW n \in Nat, NEW keys \in [1 .. n -> Livers]
  PROVE  LoadLiverGroups(rows, keys) \in Seq(Results) /\ Len(LoadLiverGroups(rows, keys)) = n
<1> DEFINE gs(i) == {g \in Groups : <<g, keys[i]>> \in rows}
<1>1. \A i \in 1 .. n : (IF gs(i) = {} THEN NotFound ELSE Data(gs(i))) \in Results
  BY DEF Results
<1>2. LoadLiverGroups(rows, keys) \in [1 .. n -> Results]
  BY <1>1 DEF LoadLiverGroups, ResultOf
<1> QED BY <1>2

LEMMA KeysType == ASSUME TypeOK, NEW b \in Calls
                  PROVE  Keys(b) \in [1 .. Len(reqs[b]) -> Livers]
BY CallsAssumption DEF TypeOK, Keys

\* What the goroutine of a batch hands to one of its requests is an answer.
LEMMA ItemType == ASSUME TypeOK, NEW b \in Calls, NEW i \in 1 .. Len(reqs[b])
                  PROVE  Item(b, i) \in Results \cup {Failed}
BY DEF TypeOK, Item

LEMMA ResultIsAnswer == NoAnswer \notin Results \cup {Failed}
BY DEF Results

\* The call that opened a batch is the first the batch serves.
LEMMA OpenerTicket == ASSUME TypeOK, OpenerFirst, Tickets, NEW b \in Calls, phase[b] # "unused"
                      PROVE  ticket[b] = <<b, 1>>
<1>1. reqs[b] \in Seq(Calls) /\ 1 \in DOMAIN reqs[b] /\ reqs[b][1] = b
  BY DEF OpenerFirst, TypeOK
<1> QED BY <1>1 DEF Tickets

LEMMA InitIInv == Init => IInv
<1> SUFFICES ASSUME Init PROVE IInv
  OBVIOUS
<1>1. TypeOK
  BY DEF Init, TypeOK, Phases, Answers
<1>2. OneCollector
  BY NoCallAssumption DEF Init, OneCollector
<1>3. OpenerFirst /\ Tickets /\ Progress
  BY DEF Init, OpenerFirst, Tickets, Progress
<1> QED BY <1>1, <1>2, <1>3 DEF IInv, NoLostLoad

\* Nothing but the loader's own steps touches what IInv says of the loader.
LEMMA SurroundingsKeepIInv ==
  ASSUME IInv, UNCHANGED loaderVars,
         members' \in SUBSET Rows, dbUp' \in BOOLEAN,
         ctx' \in [Contexts -> {"bare", "live", "cancelled"}]
  PROVE  IInv'
BY DEF IInv, TypeOK, NoLostLoad, OneCollector, OpenerFirst, Tickets, Progress, loaderVars

LEMMA NextKeepsIInv == IInv /\ [Next]_vars => IInv'
<1> SUFFICES ASSUME IInv, [Next]_vars PROVE IInv'
  OBVIOUS
<1> USE DEF IInv, NoLostLoad
<1>1. ASSUME NEW x \in Contexts, InterceptOperation(x) \/ Cancel(x) PROVE IInv'
  BY <1>1, SurroundingsKeepIInv DEF InterceptOperation, Cancel, TypeOK
<1>2. ASSUME NEW c \in Calls, LoadWithoutAggregate(c) PROVE IInv'
  <2>1. TypeOK'
    BY <1>2 DEF LoadWithoutAggregate, TypeOK, envVars, Answers
  <2>2. OneCollector' /\ OpenerFirst' /\ Tickets'
    BY <1>2 DEF LoadWithoutAggregate, OneCollector, OpenerFirst, Tickets, envVars
  <2>3. Progress'
    BY <1>2 DEF LoadWithoutAggregate, Progress, TypeOK, Idle, envVars
  <2> QED BY <2>1, <2>2, <2>3
<1>3. ASSUME NEW c \in Calls, Load(c) PROVE IInv'
  <2> DEFINE b == IF curBatcher = NoCall THEN c ELSE curBatcher
             n == Len(reqs[b])
  <2>1. /\ b \in Calls /\ n \in Nat
        /\ ticket[c] = NoTicket /\ answer[c] = NoAnswer
        /\ curBatcher' = b
        /\ phase' = [phase EXCEPT ![b] = "open"]
        /\ reqs' = [reqs EXCEPT ![b] = Append(reqs[b], c)]
        /\ ticket' = [ticket EXCEPT ![c] = <<b, n + 1>>]
        /\ UNCHANGED <<members, dbUp, ctx, items, sent, answer>>
    BY <1>3 DEF Load, Idle, envVars, TypeOK
  <2>2. phase[c] = "unused"
    BY <2>1, OpenerTicket, NoCallAssumption
  <2>3. /\ phase[b] \in {"unused", "open"} /\ sent[b] = 0
        /\ (phase[b] = "unused" => b = c /\ n = 0)
    BY <2>1, <2>2 DEF OneCollector, OpenerFirst, Progress, TypeOK
  <2> HIDE DEF b
  <2>5. /\ reqs'[b] \in Seq(Calls) /\ Len(reqs'[b]) = n + 1
        /\ \A i \in 1 .. n : reqs'[b][i] = reqs[b][i]
        /\ reqs'[b][n + 1] = c
        /\ \A d \in Calls : d # b => reqs'[d] = reqs[d]
    BY <2>1 DEF TypeOK
  <2>6. TypeOK'
    BY <2>1, <2>5 DEF TypeOK, Phases
  <2>7. OneCollector'
    <3>1. curBatcher = NoCall \/ curBatcher = b
      BY DEF b
    <3> QED BY <2>1, <3>1, NoCallAssumption DEF OneCollector, TypeOK
  <2>8. OpenerFirst'
    BY <2>1, <2>3, <2>5 DEF OpenerFirst, TypeOK
  <2>9. Tickets'
    <3>1. ASSUME NEW d \in Calls, ticket'[d] # NoTicket
          PROVE  /\ ticket'[d][1] \in Calls
                 /\ ticket'[d][2] \in 1 .. Len(reqs'[ticket'[d][1]])
                 /\ reqs'[ticket'[d][1]][ticket'[d][2]] = d
      <4>1. CASE d = c
        BY <2>1, <2>5, <4>1 DEF TypeOK
      <4>2. CASE d # c
        <5>1. ticket'[d] = ticket[d]
          BY <2>1, <4>2 DEF TypeOK
        <5>2. /\ ticket[d][1] \in Calls
              /\ ticket[d][2] \in 1 .. Len(reqs[ticket[d][1]])
              /\ reqs[ticket[d][1]][ticket[d][2]] = d
          BY <3>1, <5>1 DEF Tickets
        <5> QED BY <2>1, <2>5, <5>1, <5>2
      <4> QED BY <4>1, <4>2
    <3>2. ASSUME NEW d \in Calls, NEW i \in DOMAIN reqs'[d]
          PROVE  ticket'[reqs'[d][i]] = <<d, i>>
      <4>1. CASE d = b /\ i = n + 1
        BY <2>1, <2>5, <4>1 DEF TypeOK
      <4>2. CASE ~(d = b /\ i = n + 1)
        <5>1. i \in DOMAIN reqs[d] /\ reqs'[d][i] = reqs[d][i]
          <6>1. CASE d = b
            BY <2>1, <2>5, <4>2, <6>1 DEF TypeOK
          <6>2. CASE d # b
            BY <2>5, <6>2
          <6> QED BY <6>1, <6>2
        <5>2. ticket[reqs[d][i]] = <<d, i>> /\ reqs[d][i] \in Calls
          BY <5>1 DEF Tickets, TypeOK
        <5>3. reqs[d][i] # c
          BY <2>1, <5>2, NoCallAssumption
        <5> QED BY <2>1, <5>1, <5>2, <5>3 DEF TypeOK
      <4> QED BY <4>1, <4>2
    <3> QED BY <3>1, <3>2 DEF Tickets
  <2>10. Progress'
    <3>1. \A d \in Calls : sent'[d] <= Len(reqs'[d])
      BY <2>1, <2>5 DEF Progress, TypeOK
    <3>2. \A d \in Calls : phase'[d] # "answering" => sent'[d] = 0
      BY <2>1, <2>3 DEF Progress, TypeOK
    <3>3. ASSUME NEW d \in Calls, ticket'[d] # NoTicket
          PROVE  answer'[d] # NoAnswer <=> ticket'[d][2] <= sent'[ticket'[d][1]]
      <4>1. CASE d = c
        BY <2>1, <2>3, <4>1 DEF TypeOK
      <4>2. CASE d # c
        BY <2>1, <3>3, <4>2 DEF Progress, TypeOK
      <4> QED BY <4>1, <4>2
    <3> QED BY <3>1, <3>2, <3>3 DEF Progress
  <2> QED BY <2>6, <2>7, <2>8, <2>9, <2>10
<1>4. ASSUME NEW b \in Calls, Sleeper(b) PROVE IInv'
  <2>1. TypeOK'
    BY <1>4 DEF Sleeper, Reset, TypeOK, Phases, envVars
  <2>2. OneCollector'
    BY <1>4, NoCallAssumption DEF Sleeper, Reset, OneCollector, TypeOK
  <2>3. OpenerFirst'
    BY <1>4 DEF Sleeper, Reset, OpenerFirst, TypeOK
  <2>4. Tickets'
    BY <1>4 DEF Sleeper, Reset, Tickets
  <2>5. Progress'
    BY <1>4 DEF Sleeper, Reset, Progress, TypeOK
  <2> QED BY <2>1, <2>2, <2>3, <2>4, <2>5
<1>5. ASSUME NEW b \in Calls, Batch(b) PROVE IInv'
  <2>1. LoadLiverGroups(GetBelongingGroupsByLivers(Keys(b)), Keys(b)) \in Seq(Results)
    <3> DEFINE rows == GetBelongingGroupsByLivers(Keys(b))
               n == Len(reqs[b])
               keys == Keys(b)
    <3>1. n \in Nat /\ keys \in [1 .. n -> Livers]
      BY KeysType DEF TypeOK
    <3> HIDE DEF rows, n, keys
    <3>2. LoadLiverGroups(rows, keys) \in Seq(Results)
      BY <3>1, OneResultPerKey
    <3> QED BY <3>2 DEF rows, keys
  <2>2. TypeOK'
    BY <1>5, <2>1 DEF Batch, TypeOK, Phases, envVars
  <2>3. OneCollector'
    BY <1>5 DEF Batch, OneCollector, TypeOK
  <2>4. OpenerFirst'
    BY <1>5 DEF Batch, OpenerFirst, TypeOK
  <2>5. Tickets'
    BY <1>5 DEF Batch, Tickets
  <2>6. Progress'
    BY <1>5 DEF Batch, Progress, TypeOK
  <2> QED BY <2>2, <2>3, <2>4, <2>5, <2>6
<1>6. ASSUME NEW b \in Calls, Deliver(b) PROVE IInv'
  <2> DEFINE k == sent[b] + 1
             r == reqs[b][k]
  <2>1. /\ k \in 1 .. Len(reqs[b]) /\ r \in Calls /\ ticket[r] = <<b, k>>
        /\ phase[b] = "answering"
        /\ sent' = [sent EXCEPT ![b] = k]
        /\ answer' = [answer EXCEPT ![r] = Item(b, k)]
        /\ UNCHANGED <<members, dbUp, ctx, curBatcher, phase, reqs, items, ticket>>
    BY <1>6 DEF Deliver, Left, TypeOK, Tickets, envVars
  <2>2. Item(b, k) \in Answers /\ Item(b, k) # NoAnswer
    BY <2>1, ItemType, ResultIsAnswer DEF Answers
  <2> HIDE DEF k, r
  <2>3. TypeOK'
    <3>1. k \in Nat
      BY DEF TypeOK, k
    <3>2. sent' \in [Calls -> Nat] /\ answer' \in [Calls -> Answers]
      BY <2>1, <2>2, <3>1 DEF TypeOK
    <3> QED BY <2>1, <3>2 DEF TypeOK
  <2>4. OneCollector' /\ OpenerFirst' /\ Tickets'
    BY <2>1 DEF OneCollector, OpenerFirst, Tickets
  <2>5. Progress'
    <3>1. \A d \in Calls : sent'[d] <= Len(reqs'[d])
      BY <2>1 DEF Progress, TypeOK
    <3>2. \A d \in Calls : phase'[d] # "answering" => sent'[d] = 0
      BY <2>1 DEF Progress, TypeOK
    <3>3. ASSUME NEW d \in Calls, ticket'[d] # NoTicket
          PROVE  answer'[d] # NoAnswer <=> ticket'[d][2] <= sent'[ticket'[d][1]]
      <4>1. CASE d = r
        BY <2>1, <2>2, <4>1 DEF TypeOK
      <4>2. CASE d # r /\ ticket[d][1] = b
        <5>1. ticket[d][2] \in Nat /\ ticket[d][2] # k
          BY <2>1, <3>3, <4>2 DEF Tickets, TypeOK, r
        <5>2. sent[b] \in Nat /\ (ticket[d][2] <= sent[b] <=> ticket[d][2] <= k)
          BY <5>1 DEF TypeOK, k
        <5>3. answer'[d] = answer[d] /\ ticket'[d] = ticket[d] /\ sent'[b] = k
          BY <2>1, <4>2 DEF TypeOK
        <5> QED BY <3>3, <4>2, <5>2, <5>3 DEF Progress
      <4>3. CASE d # r /\ ticket[d][1] # b
        BY <2>1, <3>3, <4>3 DEF Progress, Tickets, TypeOK
      <4> QED BY <4>1, <4>2, <4>3
    <3> QED BY <3>1, <3>2, <3>3 DEF Progress
  <2> QED BY <2>3, <2>4, <2>5
<1>7. ASSUME Write \/ Toggle PROVE IInv'
  BY <1>7, SurroundingsKeepIInv DEF Write, Toggle, TypeOK
<1>8. CASE UNCHANGED vars
  BY <1>8, SurroundingsKeepIInv DEF vars, loaderVars, TypeOK
<1> QED BY <1>1, <1>2, <1>3, <1>4, <1>5, <1>6, <1>7, <1>8 DEF Next

LEMMA Invariance == Spec => []IInv
BY InitIInv, NextKeepsIInv, PTL DEF Spec

\* Every variable of the loader keeps its type.
THEOREM LoaderTypeCorrect == Spec => []TypeOK
<1>1. IInv => TypeOK
  BY DEF IInv
<1> QED BY <1>1, Invariance, PTL

\* No call of the loader is lost, answered twice, or served by a batch that runs
\* under the context of a call the batch does not hold.
THEOREM LoaderLosesNoCall == Spec => []NoLostLoad
<1>1. IInv => NoLostLoad
  BY DEF IInv
<1> QED BY <1>1, Invariance, PTL

-----------------------------------------------------------------------------
(* GroupLoader implements GroupLookup: opening and closing batches is         *)
(* invisible, running the batch function looks its calls up together, and     *)
(* handing a result over answers a call.                                      *)

Stage(c) == IF answer[c] # NoAnswer THEN "answered"
            ELSE IF ticket[c] = NoTicket THEN "idle"
            ELSE IF phase[ticket[c][1]] = "answering" THEN "looked"
            ELSE "asked"

Seen(c) == IF answer[c] = NoAnswer /\ ticket[c] # NoTicket /\ phase[ticket[c][1]] = "answering"
           THEN Item(ticket[c][1], ticket[c][2])
           ELSE answer[c]

LEMMA MapsPointwise ==
  /\ StageOf = [c \in Calls |-> Stage(c)]
  /\ SeenOf = [c \in Calls |-> Seen(c)]
  /\ StageOf' = [c \in Calls |-> Stage(c)']
  /\ SeenOf' = [c \in Calls |-> Seen(c)']
BY DEF StageOf, SeenOf, Stage, Seen

\* Steps of the surroundings leave the calls alone.
LEMMA SurroundingsStutter ==
  ASSUME UNCHANGED loaderVars
  PROVE  UNCHANGED <<StageOf, SeenOf>>
BY DEF loaderVars, StageOf, SeenOf, Item

LEMMA InitRefines == Init => Lookup!Init
BY DEF Init, Lookup!Init, Lookup!NoAnswer, StageOf, SeenOf, Rows

LEMMA RefusalRefines ==
  ASSUME IInv, NEW c \in Calls, LoadWithoutAggregate(c)
  PROVE  Lookup!Refuse(c)
<1>1. /\ ticket[c] = NoTicket /\ answer[c] = NoAnswer /\ ctx[CtxOf[c]] = "bare"
      /\ answer' = [answer EXCEPT ![c] = NoAggregate]
      /\ UNCHANGED <<members, dbUp, ctx, phase, reqs, items, ticket>>
  BY DEF LoadWithoutAggregate, Idle, envVars
<1>2. answer \in [Calls -> Answers]
  BY DEF IInv, TypeOK
<1>3. Stage(c) = "idle" /\ Stage(c)' = "answered" /\ Seen(c)' = NoAggregate
  BY <1>1, <1>2 DEF Stage, Seen
<1>4. \A d \in Calls : d # c => Stage(d)' = Stage(d) /\ Seen(d)' = Seen(d)
  BY <1>1, <1>2 DEF Stage, Seen, Item
<1> QED BY <1>1, <1>3, <1>4, MapsPointwise DEF Lookup!Refuse, Lookup!NoAggregate

LEMMA LoadRefines ==
  ASSUME IInv, NEW c \in Calls, Load(c)
  PROVE  Lookup!Ask(c)
<1> DEFINE b == IF curBatcher = NoCall THEN c ELSE curBatcher
<1>1. /\ b \in Calls
      /\ ticket[c] = NoTicket /\ answer[c] = NoAnswer /\ ctx[CtxOf[c]] # "bare"
      /\ phase' = [phase EXCEPT ![b] = "open"]
      /\ ticket' = [ticket EXCEPT ![c] = <<b, Len(reqs[b]) + 1>>]
      /\ reqs' = [reqs EXCEPT ![b] = Append(reqs[b], c)]
      /\ UNCHANGED <<members, dbUp, ctx, items, answer>>
  BY DEF Load, Idle, envVars, IInv, TypeOK
<1>2. phase[b] # "answering"
  <2>1. CASE curBatcher = NoCall
    BY <1>1, <2>1, OpenerTicket, NoCallAssumption DEF IInv, NoLostLoad
  <2>2. CASE curBatcher # NoCall
    BY <2>2 DEF IInv, NoLostLoad, OneCollector, TypeOK
  <2> QED BY <2>1, <2>2
<1> HIDE DEF b
<1>3. /\ phase \in [Calls -> Phases] /\ reqs \in [Calls -> Seq(Calls)]
      /\ ticket \in [Calls -> (Calls \cup {NoCall}) \X Nat]
  BY DEF IInv, TypeOK
<1>4. Stage(c) = "idle" /\ Stage(c)' = "asked" /\ Seen(c) = NoAnswer /\ Seen(c)' = NoAnswer
  BY <1>1, <1>3, NoCallAssumption DEF Stage, Seen
<1>5. ASSUME NEW d \in Calls, d # c PROVE Stage(d)' = Stage(d) /\ Seen(d)' = Seen(d)
  <2>1. ticket'[d] = ticket[d] /\ answer'[d] = answer[d]
    BY <1>1, <1>3, <1>5
  <2>2. ticket[d] # NoTicket => ticket[d][1] \in Calls
    BY DEF IInv, NoLostLoad, Tickets
  <2>3. CASE ticket[d] = NoTicket
    BY <2>1, <2>3 DEF Stage, Seen
  <2>4. CASE ticket[d] # NoTicket /\ ticket[d][1] = b
    BY <1>1, <1>2, <1>3, <2>1, <2>4 DEF Stage, Seen
  <2>5. CASE ticket[d] # NoTicket /\ ticket[d][1] # b
    BY <1>1, <1>3, <2>1, <2>2, <2>5 DEF Stage, Seen, Item
  <2> QED BY <2>3, <2>4, <2>5
<1> QED BY <1>1, <1>4, <1>5, MapsPointwise DEF Lookup!Ask

LEMMA SleeperRefines ==
  ASSUME IInv, NEW b \in Calls, Sleeper(b)
  PROVE  UNCHANGED Lookup!vars
<1>1. /\ phase[b] = "open" /\ phase' = [phase EXCEPT ![b] = "closed"]
      /\ phase \in [Calls -> Phases]
      /\ UNCHANGED <<members, dbUp, ctx, reqs, items, ticket, answer>>
  BY DEF Sleeper, Reset, envVars, IInv, TypeOK
<1>2. ASSUME NEW d \in Calls PROVE Stage(d)' = Stage(d) /\ Seen(d)' = Seen(d)
  <2>1. ticket[d] # NoTicket => ticket[d][1] \in Calls
    BY DEF IInv, NoLostLoad, Tickets
  <2> QED BY <1>1, <2>1 DEF Stage, Seen, Item
<1> QED BY <1>1, <1>2, MapsPointwise DEF Lookup!vars

\* The result of a query for the keys of a batch is, for each of its requests,
\* what the request's own liver has.
LEMMA RowsOfOwnLiver ==
  ASSUME IInv, NEW b \in Calls, NEW i \in 1 .. Len(reqs[b])
  PROVE  LoadLiverGroups(GetBelongingGroupsByLivers(Keys(b)), Keys(b))[i]
           = Lookup!LookUp(KeyOf[reqs[b][i]])
<1> DEFINE l == KeyOf[reqs[b][i]]
           rows == GetBelongingGroupsByLivers(Keys(b))
<1>1. i \in DOMAIN Keys(b) /\ Keys(b)[i] = l
  BY DEF Keys, IInv, TypeOK
<1>2. \A g \in Groups : <<g, l>> \in rows <=> <<g, l>> \in members
  BY <1>1 DEF GetBelongingGroupsByLivers
<1>3. {g \in Groups : <<g, l>> \in rows} = {g \in Groups : <<g, l>> \in members}
  BY <1>2
<1> QED BY <1>1, <1>3 DEF LoadLiverGroups, ResultOf, Lookup!LookUp, Lookup!NotFound, Lookup!Data

LEMMA BatchRefines ==
  ASSUME IInv, NEW b \in Calls, Batch(b)
  PROVE  \E S \in SUBSET Calls : Lookup!Look(S) \/ Lookup!Fail(S)
<1> DEFINE S == {c \in Calls : ticket[c] # NoTicket /\ ticket[c][1] = b}
           fine == dbUp /\ ctx[CtxOf[b]] # "cancelled"
           res == LoadLiverGroups(GetBelongingGroupsByLivers(Keys(b)), Keys(b))
<1>1. /\ phase[b] = "closed" /\ phase' = [phase EXCEPT ![b] = "answering"]
      /\ phase \in [Calls -> Phases] /\ items \in [Calls -> Seq(Results)]
      /\ items' = [items EXCEPT ![b] = IF fine THEN res ELSE <<>>]
      /\ UNCHANGED <<members, dbUp, ctx, reqs, ticket, answer>>
  BY DEF Batch, envVars, IInv, TypeOK
<1>2. Len(reqs[b]) \in Nat /\ Len(reqs[b]) > 0 /\ Len(res) = Len(reqs[b])
  <2> DEFINE rows == GetBelongingGroupsByLivers(Keys(b))
             n == Len(reqs[b])
             keys == Keys(b)
  <2>1. n \in Nat /\ n > 0 /\ keys \in [1 .. n -> Livers]
    BY <1>1, KeysType DEF TypeOK, IInv, NoLostLoad, OpenerFirst
  <2> HIDE DEF rows, n, keys
  <2>2. Len(LoadLiverGroups(rows, keys)) = n
    BY <2>1, OneResultPerKey
  <2> QED BY <2>1, <2>2 DEF rows, keys, n
<1>3. b \in S
  BY <1>1, OpenerTicket, NoCallAssumption DEF IInv, NoLostLoad
<1> HIDE DEF res, fine
<1>4. ASSUME NEW c \in S
      PROVE  /\ Stage(c) = "asked" /\ Stage(c)' = "looked"
             /\ Seen(c)' = IF fine THEN Lookup!LookUp(KeyOf[c]) ELSE Failed
  <2>1. /\ ticket[c][2] \in 1 .. Len(reqs[b]) /\ reqs[b][ticket[c][2]] = c
        /\ sent[b] = 0 /\ (answer[c] # NoAnswer <=> ticket[c][2] <= sent[b])
    BY <1>1 DEF IInv, NoLostLoad, Tickets, Progress
  <2>2. answer[c] = NoAnswer
    BY <1>2, <2>1
  <2>3. Stage(c) = "asked" /\ Stage(c)' = "looked" /\ Seen(c)' = Item(b, ticket[c][2])'
    BY <1>1, <2>2 DEF Stage, Seen
  <2>4. CASE fine
    <3>1. items'[b] = res /\ res[ticket[c][2]] = Lookup!LookUp(KeyOf[c])
      BY <1>1, <2>1, <2>4, RowsOfOwnLiver DEF res
    <3>2. Item(b, ticket[c][2])' = res[ticket[c][2]]
      BY <1>1, <1>2, <3>1 DEF Item
    <3> QED BY <2>3, <2>4, <3>1, <3>2
  <2>5. CASE ~fine
    <3>1. items'[b] = <<>> /\ reqs'[b] = reqs[b]
      BY <1>1, <2>5
    <3>2. Item(b, ticket[c][2])' = Failed
      BY <1>2, <3>1 DEF Item
    <3> QED BY <2>3, <2>5, <3>2
  <2> QED BY <2>4, <2>5
<1>5. ASSUME NEW d \in Calls, d \notin S PROVE Stage(d)' = Stage(d) /\ Seen(d)' = Seen(d)
  <2>1. ticket[d] # NoTicket => ticket[d][1] \in Calls /\ ticket[d][1] # b
    BY <1>5 DEF IInv, NoLostLoad, Tickets
  <2>2. CASE ticket[d] = NoTicket
    BY <1>1, <2>2 DEF Stage, Seen
  <2>3. CASE ticket[d] # NoTicket
    BY <1>1, <2>1, <2>3 DEF Stage, Seen, Item
  <2> QED BY <2>2, <2>3
<1>6. S \in SUBSET Calls
  OBVIOUS
<1> HIDE DEF S
<1>7. CASE fine
  <2>1. Lookup!Look(S)
    BY <1>1, <1>4, <1>5, <1>6, <1>7, MapsPointwise DEF Lookup!Look
  <2> QED BY <1>6, <2>1
<1>8. CASE ~fine
  <2>1. ~dbUp \/ \E c \in S : ctx[CtxOf[c]] = "cancelled"
    BY <1>3, <1>8 DEF fine
  <2>2. Lookup!Fail(S)
    BY <1>1, <1>4, <1>5, <1>6, <1>8, <2>1, MapsPointwise DEF Lookup!Fail, Lookup!Failed
  <2> QED BY <1>6, <2>2
<1> QED BY <1>7, <1>8

LEMMA DeliverRefines ==
  ASSUME IInv, NEW b \in Calls, Deliver(b)
  PROVE  \E r \in Calls : Lookup!Give(r)
<1>1. PICK k \in Nat, r \in Calls :
        /\ k = sent[b] + 1 /\ r = reqs[b][k]
        /\ k \in 1 .. Len(reqs[b]) /\ ticket[r] = <<b, k>>
  <2>1. /\ sent[b] + 1 \in Nat /\ sent[b] + 1 \in DOMAIN reqs[b]
        /\ sent[b] + 1 \in 1 .. Len(reqs[b])
        /\ reqs[b][sent[b] + 1] \in Calls
    BY DEF Deliver, Left, TypeOK, IInv
  <2>2. ticket[reqs[b][sent[b] + 1]] = <<b, sent[b] + 1>>
    BY <2>1 DEF Tickets, IInv, NoLostLoad
  <2> QED BY <2>1, <2>2
<1>2. /\ ~(k <= sent[b]) /\ phase[b] = "answering"
      /\ answer' = [answer EXCEPT ![r] = Item(b, k)]
      /\ answer \in [Calls -> Answers]
      /\ UNCHANGED <<members, dbUp, ctx, phase, reqs, items, ticket>>
  <2>1. sent[b] \in Nat /\ ~(k <= sent[b])
    BY <1>1 DEF TypeOK, IInv
  <2> QED BY <1>1, <2>1 DEF Deliver, Left, TypeOK, envVars, IInv
<1>3. Item(b, k) # NoAnswer /\ Item(b, k)' = Item(b, k)
  BY <1>1, <1>2, ItemType, ResultIsAnswer DEF IInv, Item
<1>4. ticket[r] # NoTicket
  BY <1>1, NoCallAssumption
<1>5. answer[r] = NoAnswer
  BY <1>1, <1>2, <1>4 DEF IInv, NoLostLoad, Progress
<1>6. Stage(r) = "looked" /\ Stage(r)' = "answered" /\ Seen(r)' = Seen(r)
  BY <1>1, <1>2, <1>3, <1>4, <1>5 DEF Stage, Seen
<1>7. \A d \in Calls : d # r => Stage(d)' = Stage(d) /\ Seen(d)' = Seen(d)
  BY <1>2 DEF Stage, Seen, Item
<1>8. Lookup!Give(r)
  BY <1>2, <1>6, <1>7, MapsPointwise DEF Lookup!Give
<1> QED BY <1>8

LEMMA NextRefines == IInv /\ [Next]_vars => [Lookup!Next]_(Lookup!vars)
<1> SUFFICES ASSUME IInv, [Next]_vars PROVE Lookup!Next \/ UNCHANGED Lookup!vars
  OBVIOUS
<1>1. ASSUME NEW x \in Contexts, InterceptOperation(x) \/ Cancel(x) PROVE Lookup!Next
  BY <1>1, SurroundingsStutter DEF InterceptOperation, Cancel, Lookup!Next, Lookup!Environment
<1>2. ASSUME NEW c \in Calls, LoadWithoutAggregate(c) PROVE Lookup!Next
  BY <1>2, RefusalRefines DEF Lookup!Next
<1>3. ASSUME NEW c \in Calls, Load(c) PROVE Lookup!Next
  BY <1>3, LoadRefines DEF Lookup!Next
<1>4. ASSUME NEW b \in Calls, Sleeper(b) PROVE UNCHANGED Lookup!vars
  BY <1>4, SleeperRefines
<1>5. ASSUME NEW b \in Calls, Batch(b) PROVE Lookup!Next
  BY <1>5, BatchRefines DEF Lookup!Next
<1>6. ASSUME NEW b \in Calls, Deliver(b) PROVE Lookup!Next
  BY <1>6, DeliverRefines DEF Lookup!Next
<1>7. ASSUME Write PROVE Lookup!Next
  <2>1. members' \in SUBSET (Groups \X Livers) /\ UNCHANGED <<dbUp, ctx>>
    BY <1>7 DEF Write, IInv, TypeOK, Rows
  <2> QED BY <1>7, <2>1, SurroundingsStutter DEF Write, Lookup!Next, Lookup!Environment
<1>8. ASSUME Toggle PROVE Lookup!Next
  BY <1>8, SurroundingsStutter DEF Toggle, Lookup!Next, Lookup!Environment
<1>9. CASE UNCHANGED vars
  BY <1>9, SurroundingsStutter DEF vars, loaderVars, Lookup!vars
<1> QED BY <1>1, <1>2, <1>3, <1>4, <1>5, <1>6, <1>7, <1>8, <1>9 DEF Next

\* The batching loader keeps the promise of GroupLookup: every answer is what
\* the call's own liver had while the call was in progress, and a failure has
\* its cause in the database or in the request of a call of the same batch.
THEOREM LoaderKeepsPromise == Spec => KeepsPromise
<1>1. Init => Lookup!Init
  BY InitRefines
<1>2. IInv /\ [Next]_vars => [Lookup!Next]_(Lookup!vars)
  BY NextRefines
<1> QED BY <1>1, <1>2, Invariance, PTL DEF Spec, KeepsPromise, Lookup!Spec
==============================================================================

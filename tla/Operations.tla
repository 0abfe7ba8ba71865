------------------------------ MODULE Operations ------------------------------
(* Operations of the GraphQL API from request to response, over one livers    *)
(* table: mutations register livers one after another, queries read them, and *)
(* meanwhile time passes, the database comes and goes, connections break and   *)
(* clients send again what they have no answer to. The executor is Executor,   *)
(* the resolvers are Connections and LiverStatus, the statements are Storage.  *)
(*                                                                            *)
(* Requests are authorized (Authorization) and valid against the schema. What  *)
(* the group loader answers (GroupLoader) is either of its answers.            *)
EXTENDS Connections, Arguments, LiverStatus

CONSTANTS Clients, Names, Collated, \* Collated[n]: what the column compares for n
          Plans,        \* the operation of each client, in each behaviour
          Tables,       \* the rows the livers table may hold at first
          MaxTries,     \* how often a client may send its operation
          MaxNow        \* the last moment of the clock

\* What a mutation asks for, under the one or other of three response keys.
Registrations == [field : {"registerLiver"}, args : [name : {Name(n) : n \in Names}]]

\* What a query of livers may be given: a size is an integer, and a cursor any
\* value, since the library knows no more of this scalar than its name.
LiversArguments(args) ==
  /\ "first" \in DOMAIN args /\ args["first"] \notin {Null, HugeNumber} =>
       args["first"].kind = "number" /\ args["first"].number \in Int
  /\ "after" \in DOMAIN args /\ args["after"].kind = "string" /\ args["after"] # NoCursor =>
       args["after"].decoded # {}

\* An operation is valid against the schema, under three response keys.
Valid(operation) ==
  /\ DOMAIN operation.fields \subseteq 1 .. 3
  /\ operation.type = "mutation" =>
       operation.fields \in Seq(Registrations) /\ Len(operation.fields) <= 3
  /\ operation.type = "query" =>
       /\ \A type \in DOMAIN Schema : operation.sel[type] \subseteq Schema[type]
       /\ \A i \in DOMAIN operation.fields :
            \/ operation.fields[i].field = "liver"
            \/ operation.fields[i].field = "livers" /\ LiversArguments(operation.fields[i].args)

\* A table has the columns of the schema and holds each name once, and nothing
\* yet by the clients.
Consistent(table) ==
  /\ IsFiniteSet(table)
  /\ \A r \in table :
       /\ r.id \in 1 .. Cardinality(table) /\ r.name \in Names
       /\ r.debutedOn \in Int /\ r.retiredOn \in SUBSET Int
       /\ r.by = <<>>
       /\ \A s \in table : Collated[r.name] = Collated[s.name] => r = s

ASSUME OperationsAssumption ==
  /\ Collated \in [Names -> Names]
  /\ MaxTries \in Nat \ {0} /\ MaxNow \in Nat
  /\ \A plan \in Plans : \A c \in Clients : Valid(plan[c])
  /\ \A table \in Tables : Consistent(table)

VARIABLES
  mode,      \* how strictly the database checks inserts
  dbUp,      \* does the database answer?
  rows,      \* the rows of the table, each with the insert it is "by"
  now,       \* the clock
  op,        \* the operation of each client
  stage,     \* of each attempt: "unsent", "running" or "ended"
  live,      \* of each attempt: is its connection open?
  began,     \* the moment each attempt began
  resolved,  \* of each attempt: the outcomes of its resolvers so far
  unsure     \* history: inserts that took effect but were answered with an error

vars == <<mode, dbUp, rows, now, op, stage, live, began, resolved, unsure>>

Db == INSTANCE Storage

Attempts == Clients \X (1 .. MaxTries)
Of(a) == op[a[1]]

Init ==
  /\ mode \in Db!Modes
  /\ dbUp = TRUE
  /\ rows \in Tables
  /\ now = 0
  /\ op \in Plans
  /\ stage = [a \in Attempts |-> "unsent"]
  /\ live = [a \in Attempts |-> TRUE]
  /\ began = [a \in Attempts |-> 0]
  /\ resolved = [a \in Attempts |-> <<>>]
  /\ unsure = {}

-----------------------------------------------------------------------------
(* What every resolver does.                                                 *)

Running(a, type) == stage[a] = "running" /\ Of(a).type = type

Conclude(a, place, outcome) ==
  resolved' = [resolved EXCEPT ![a] =
                 [p \in DOMAIN @ \cup {place} |-> IF p = place THEN outcome ELSE @[p]]]

Reachable(a) == dbUp /\ live[a]

\* What a statement returns, or an error: the database's, or that of the
\* cancelled context, which may still come too late.
FromDatabase(a, outcome) ==
  (IF dbUp THEN {outcome} ELSE {}) \cup (IF Reachable(a) THEN {} ELSE {Erred})

Argument(outcome, name) ==
  CHOOSE v \in The(outcome)[name] : TRUE

-----------------------------------------------------------------------------
(* Mutations: registerLiver under each key, in the order of the document.     *)

Turn(a) == <<Cardinality(DOMAIN resolved[a]) + 1>>

Registering(a) ==
  /\ Running(a, "mutation")
  /\ Turn(a)[1] \in DOMAIN Of(a).fields

NameToRegister(a) == Argument(RegisterLiverArgs(Of(a).fields[Turn(a)[1]].args), "name")

NoUniqueKey(name) == {}  \* variant
Holding(name) == {r \in rows : Collated[r.name] = Collated[name]}

Insertable(name) ==
  /\ dbUp
  /\ Db!Accepted(Db!RegisterLiver, "ddl", mode)
  /\ Holding(name) = {}

\* What an insert leaves out becomes '0000-00-00' if the mode lets it.
Insert(a) ==
  rows' = rows \cup {[id |-> Cardinality(rows) + 1, name |-> NameToRegister(a),
                      debutedOn |-> ZeroTime, retiredOn |-> {}, by |-> <<a, Turn(a)>>]}

RegisterLiver(a) ==
  /\ Registering(a)
  /\ Insertable(NameToRegister(a))
  /\ Insert(a)
  /\ Conclude(a, Turn(a), Returned(TRUE))
  /\ UNCHANGED <<mode, dbUp, now, op, stage, live, began, unsure>>

\* The insert takes effect, but the database goes away before it says so, or
\* the client did.
RegistrationUnacknowledged(a) ==
  /\ Registering(a)
  /\ Insertable(NameToRegister(a))
  /\ Insert(a)
  /\ IF live[a] THEN dbUp' = FALSE ELSE UNCHANGED dbUp
  /\ unsure' = unsure \cup {<<a, Turn(a)>>}
  /\ Conclude(a, Turn(a), Erred)
  /\ UNCHANGED <<mode, now, op, stage, live, began>>

\* The statement is refused, or never reaches the database.
RegistrationFails(a) ==
  /\ Registering(a)
  /\ ~Insertable(NameToRegister(a)) \/ ~live[a]
  /\ Conclude(a, Turn(a), Erred)
  /\ UNCHANGED <<mode, dbUp, rows, now, op, stage, live, began, unsure>>

-----------------------------------------------------------------------------
(* Queries: every root field, and every groups field, in a goroutine of its   *)
(* own. A liver is its row.                                                   *)

RowOf(id) == CHOOSE r \in rows : r.id = id

ReadLiver(a, args) ==
  FromDatabase(a, LET found == Holding(Argument(LiverArgs(args), "name"))
                  IN  IF found = {} THEN Erred ELSE Optional(found))

AskedFor(args) == Given(args.first) /\ Value(args.first) > 0

LiversPage(a, arg, page) ==
  LET conn == Returned([edges |-> [n \in DOMAIN page.edges |-> RowOf(page.edges[n])],
                        hasNext |-> page.hasNext])
  IN  IF AskedFor(arg) THEN FromDatabase(a, conn) ELSE {conn}

ReadLivers(a, args) ==
  LET coerced == LiversArgs(args)
      Page(arg) == Livers({r.id : r \in rows}, arg.first, arg.after, arg.orderBy)
  IN  IF coerced.error THEN {Erred}
      ELSE UNION {UNION {IF page = Failure THEN {Erred} ELSE LiversPage(a, arg, page) :
                           page \in {Page(arg)}} : arg \in coerced.value}

ResolveRoot(a, i) ==
  /\ Running(a, "query")
  /\ i \in DOMAIN Of(a).fields
  /\ <<i>> \notin DOMAIN resolved[a]
  /\ LET field == Of(a).fields[i]
     IN  \E outcome \in IF field.field = "liver" THEN ReadLiver(a, field.args)
                        ELSE ReadLivers(a, field.args) :
           Conclude(a, <<i>>, outcome)
  /\ UNCHANGED <<mode, dbUp, rows, now, op, stage, live, began, unsure>>

\* The livers a root field of a query returned.
Found(a, i) ==
  IF \/ Of(a).type = "mutation"
     \/ <<i>> \notin DOMAIN resolved[a]
     \/ resolved[a][<<i>>].error
  THEN <<>>
  ELSE LET v == Value(resolved[a][<<i>>].value)
       IN  IF Of(a).fields[i].field = "liver" THEN <<v>> ELSE v.edges

LateFields == {"status", "enrollmentDays", "groups"}

Unresolved(a, i, n, f) ==
  /\ Running(a, "query")
  /\ i \in DOMAIN Of(a).fields /\ n \in DOMAIN Found(a, i)
  /\ f \in Of(a).sel.Liver
  /\ <<i, n, f>> \notin DOMAIN resolved[a]

\* Each of the two reads the clock.
ReadClock(a, i, n, f) ==
  /\ f \in {"status", "enrollmentDays"}
  /\ Unresolved(a, i, n, f)
  /\ LET liver == Found(a, i)[n]
     IN  Conclude(a, <<i, n, f>>,
                  Returned(IF f = "status" THEN Status(liver, now)
                           ELSE EnrollmentDays(liver, now)))
  /\ UNCHANGED <<mode, dbUp, rows, now, op, stage, live, began, unsure>>

\* The groups of a liver that GroupLoader may answer with.
GroupRows == <<1, 2>>

LiverGroupsOutcomes(args) ==
  LET coerced == GroupsArgs(args)
      arg == Value(coerced.value)
  IN  IF coerced.error THEN {Erred}
      ELSE {Erred} \cup
           (IF GroupsOf(GroupRows, arg.first, arg.after) = Failure THEN {}
            ELSE {Returned(GroupsOf(GroupRows, arg.first, arg.after))})

LoadGroups(a, i, n) ==
  /\ Unresolved(a, i, n, "groups")
  /\ \E outcome \in LiverGroupsOutcomes(Of(a).groupsArgs) :
       Conclude(a, <<i, n, "groups">>, outcome)
  /\ UNCHANGED <<mode, dbUp, rows, now, op, stage, live, began, unsure>>

-----------------------------------------------------------------------------
(* The response, once every resolver returned.                               *)

KeyOf(i) == <<"k1", "k2", "k3">>[i]  \* the response keys, in the order of the document

CursorText(cursor) == IF cursor = {} THEN {} ELSE {MarshalText(Value(cursor))}

PageInfoOf(conn, type) ==
  LET info == NewPageInfo(conn, type)
  IN  [hasPreviousPage |-> Returned(info.hasPreviousPage),
       hasNextPage |-> Returned(info.hasNextPage),
       startCursor |-> Optional(CursorText(info.startCursor)),
       endCursor |-> Optional(CursorText(info.endCursor))]

GroupConnectionOf(conn) ==
  [edges |-> Returned([m \in DOMAIN conn.edges |->
                         [node |-> Returned([name |-> Returned(conn.edges[m])]),
                          cursor |-> Returned(MarshalText(LiverGroupEdgeCursor(conn.edges[m])))]]),
   pageInfo |-> Returned(PageInfoOf(conn, "LiverGroupEdge"))]

LiverOf(a, i, n) ==
  LET liver == Found(a, i)[n]
      Late(f) == resolved[a][<<i, n, f>>]
  IN  [f \in Of(a).sel.Liver |->
         CASE f = "name" -> Returned(liver.name)
           [] f = "debuted_on" -> Returned(liver.debutedOn)
           [] f = "retired_on" -> Optional(liver.retiredOn)
           [] f = "groups" -> IF Late(f).error THEN Late(f)
                              ELSE Returned(GroupConnectionOf(Value(Late(f).value)))
           [] OTHER -> Late(f)]

ConnectionOf(a, i) ==
  LET found == Found(a, i)
      conn == [edges |-> [n \in DOMAIN found |-> found[n].id],
               hasNext |-> Value(resolved[a][<<i>>].value).hasNext]
  IN  [edges |-> Returned([n \in DOMAIN found |->
                             [node |-> Returned(LiverOf(a, i, n)),
                              cursor |-> Returned(MarshalText(LiverEdgeCursor(found[n].id)))]]),
       pageInfo |-> Returned(PageInfoOf(conn, "LiverEdge"))]

RootOutcome(a, i) ==
  IF Of(a).type = "mutation" \/ resolved[a][<<i>>].error THEN resolved[a][<<i>>]
  ELSE Returned(IF Of(a).fields[i].field = "liver" THEN LiverOf(a, i, 1)
                ELSE ConnectionOf(a, i))

\* By response key.
Roots(a) == {KeyOf(i) : i \in DOMAIN Of(a).fields}
IndexOf(a, k) == CHOOSE i \in DOMAIN Of(a).fields : KeyOf(i) = k

Exec(a) ==
  LET outcomes == [k \in Roots(a) |-> RootOutcome(a, IndexOf(a, k))]
  IN  IF Of(a).type = "mutation" THEN Mutation(outcomes)
      ELSE Query(outcomes, [k \in Roots(a) |-> Of(a).fields[IndexOf(a, k)].field],
                 Of(a).sel, ZeroTime)

AllResolved(a) ==
  /\ \A i \in DOMAIN Of(a).fields : <<i>> \in DOMAIN resolved[a]
  /\ \A i \in DOMAIN Of(a).fields : \A n \in DOMAIN Found(a, i), f \in LateFields :
       ~Unresolved(a, i, n, f)

\* The response is Exec(a), if the connection is still open.
Respond(a) ==
  /\ stage[a] = "running"
  /\ AllResolved(a)
  /\ stage' = [stage EXCEPT ![a] = "ended"]
  /\ UNCHANGED <<mode, dbUp, rows, now, op, live, began, resolved, unsure>>

-----------------------------------------------------------------------------
(* Clients, connections, the database and the clock.                         *)

\* A client sends again when it has no answer, or one with errors, but not for
\* ever. One whose operation has no tries is idle.
Send(a) ==
  /\ stage[a] = "unsent" /\ a[2] <= Of(a).tries
  /\ a[2] > 1 => LET before == <<a[1], a[2] - 1>>
                 IN  /\ stage[before] # "unsent"
                     /\ ~live[before] \/ (stage[before] = "ended" /\ Exec(before).errors # {})
  /\ stage' = [stage EXCEPT ![a] = "running"]
  /\ began' = [began EXCEPT ![a] = now]
  /\ UNCHANGED <<mode, dbUp, rows, now, op, live, resolved, unsure>>

\* The connection breaks; the handler goes on, with its context cancelled.
Cut(a) ==
  /\ stage[a] = "running" /\ live[a]
  /\ live' = [live EXCEPT ![a] = FALSE]
  /\ UNCHANGED <<mode, dbUp, rows, now, op, stage, began, resolved, unsure>>

ToggleDb ==
  /\ dbUp' = ~dbUp
  /\ UNCHANGED <<mode, rows, now, op, stage, live, began, resolved, unsure>>

\* Only queries read the clock, and none takes as long as a day.
Tick ==
  /\ now < MaxNow
  /\ \E a \in Attempts : stage[a] = "running" /\ Of(a).type = "query"
  /\ \A a \in Attempts : stage[a] = "running" => now + 1 - began[a] < TicksPerDay
  /\ now' = now + 1
  /\ UNCHANGED <<mode, dbUp, rows, op, stage, live, began, resolved, unsure>>

-----------------------------------------------------------------------------

Work(a) ==
  \/ RegisterLiver(a) \/ RegistrationUnacknowledged(a) \/ RegistrationFails(a)
  \/ \E i \in DOMAIN Of(a).fields :
       \/ ResolveRoot(a, i)
       \/ \E n \in DOMAIN Found(a, i) :
            \/ LoadGroups(a, i, n)
            \/ \E f \in LateFields : ReadClock(a, i, n, f)
  \/ Respond(a)

Next ==
  \/ ToggleDb \/ Tick
  \/ \E a \in Attempts : Send(a) \/ Cut(a) \/ Work(a)

Spec == Init /\ [][Next]_vars

-----------------------------------------------------------------------------
(* Properties.                                                               *)

Answered(a) == stage[a] = "ended" /\ live[a]

\* The fields of a liver have the types of the schema, in every response.
ResponseLivers(a, i) ==
  LET root == Child(Exec(a).data, Key(KeyOf(i)))
  IN  IF Of(a).fields[i].field = "liver" THEN root
      ELSE UNION {NodeOf(root, n) : n \in DOMAIN Found(a, i)}

LiversAnswered ==
  UNION {UNION {ResponseLivers(a, i) : i \in DOMAIN Of(a).fields} :
           a \in {b \in Attempts : Answered(b) /\ Of(b).type = "query"}}

\* Type correctness, of the responses as well: what the schema calls a name, a
\* status or a number of days is one.
TypeOK ==
  /\ mode \in Db!Modes /\ dbUp \in BOOLEAN /\ now \in 0 .. MaxNow
  /\ \A r \in rows : r.id \in 1 .. Cardinality(rows) /\ r.name \in Names
  /\ stage \in [Attempts -> {"unsent", "running", "ended"}]
  /\ live \in [Attempts -> BOOLEAN] /\ began \in [Attempts -> 0 .. MaxNow]
  /\ \A liver \in LiversAnswered : \A f \in DOMAIN liver : \A v \in liver[f] :
       CASE f = "name" -> v \in Names
         [] f = "status" -> v \in {"ANNOUNCED", "DEBUTED", "RETIRED"}
         [] f = "enrollmentDays" -> v \in -MaxDuration .. MaxDuration
         [] OTHER -> TRUE

\* The answer to a mutation has no error for its field i.
Told(a, i) ==
  /\ Answered(a) /\ Of(a).type = "mutation"
  /\ <<Key(KeyOf(i))>> \notin Exec(a).errors

NameSent(a, i) == Of(a).fields[i].args.name.string

\* However often clients send a registration again, a liver has one row, and at
\* most one of the answers for its name is true.
RegisteredOnce ==
  /\ \A r, s \in rows : Collated[r.name] = Collated[s.name] => r = s
  /\ \A a, b \in Attempts : \A i \in DOMAIN Of(a).fields, j \in DOMAIN Of(b).fields :
       (Told(a, i) /\ Told(b, j) /\ Collated[NameSent(a, i)] = Collated[NameSent(b, j)])
         => a = b /\ i = j

\* The errors of a mutation tell what it did, although its data is null as soon
\* as one of its fields fails: a field has no error exactly when its liver was
\* inserted by it, but for the inserts whose acknowledgement was lost.
AnswerTellsEffects ==
  \A a \in Attempts : Answered(a) /\ Of(a).type = "mutation" =>
    \A i \in DOMAIN Of(a).fields :
      LET by == <<a, <<i>>>>
          inserted == \E r \in rows : r.by = by
      IN  /\ <<Key(KeyOf(i))>> \notin Exec(a).errors => inserted /\ by \notin unsure
          /\ <<Key(KeyOf(i))>> \in Exec(a).errors => (inserted <=> by \in unsure)

\* The places of a response that the schema lets an error null, or might.
Places(a) == {<<>>} \cup {<<Key(k)>> : k \in Roots(a)}

NullableKeys(a) == {KeyOf(i) : i \in {j \in DOMAIN Of(a).fields : Of(a).fields[j].field = "liver"}}

\* The groups of a liver that the resolver returned.
GroupsFound(a, i, n) ==
  IF "groups" \in Of(a).sel.Liver /\ ~resolved[a][<<i, n, "groups">>].error
  THEN DOMAIN Value(resolved[a][<<i, n, "groups">>].value).edges
  ELSE {}

RootComplete(a, i) ==
  LET root == Child(Exec(a).data, Key(KeyOf(i)))
      sel == Of(a).sel
  IN  IF Of(a).fields[i].field = "liver"
      THEN CompleteLiver(root, sel, GroupsFound(a, i, 1))
      ELSE /\ CompleteConnection(root, sel.LiverConnection, sel.LiverEdge, sel.PageInfo,
                                 DOMAIN Found(a, i))
           /\ \A n \in DOMAIN Found(a, i) :
                CompleteLiver(NodeOf(root, n), sel, GroupsFound(a, i, n))

\* Every query is answered as the GraphQL specification has it: each error nulls
\* the nearest place around it that the schema lets be null, nothing is null
\* without an error, whether it was raised by a resolver or by a debut that has
\* no date, and what is not null has all that was selected and returned.
ResponseConforms ==
  \A a \in Attempts : Answered(a) /\ Of(a).type = "query" =>
    /\ Conforms(Exec(a), NullableKeys(a), Places(a))
    /\ \A i \in DOMAIN Of(a).fields : RootComplete(a, i)

\* The status and the days of one answer are of the same liver at different
\* moments, and still do not contradict each other: who is yet to debut has no
\* days, who debuted has no negative ones.
StatusAgrees ==
  \A liver \in LiversAnswered :
    ({"status", "enrollmentDays"} \subseteq DOMAIN liver) =>
      /\ liver["status"] = {"ANNOUNCED"} => \A d \in liver["enrollmentDays"] : d <= 0
      /\ liver["status"] = {"DEBUTED"} => \A d \in liver["enrollmentDays"] : d >= 0

Garbled(args) ==
  \/ /\ "after" \in DOMAIN args /\ args["after"] # Null
     /\ (args["after"].kind # "string" \/ args["after"] = NoCursor)
  \/ "first" \in DOMAIN args /\ args["first"] = HugeNumber
Sized(args) == "first" \in DOMAIN args /\ args["first"] # Null /\ args["first"].number > 0

\* A cursor that is none, or a size that is too large, is an error of its field
\* whatever else is asked, and a page of no size is an empty page, without an
\* error, whatever the cursor's value is and whether or not the database answers.
ArgumentsDecide ==
  \A a \in Attempts : Answered(a) /\ Of(a).type = "query" =>
    \A i \in DOMAIN Of(a).fields : Of(a).fields[i].field = "livers" =>
      LET args == Of(a).fields[i].args
          failed == <<Key(KeyOf(i))>> \in Exec(a).errors
      IN  /\ Garbled(args) => failed /\ Exec(a).data = {}
          /\ ~Garbled(args) /\ ~Sized(args) => ~failed /\ Found(a, i) = <<>>

\* A registration is an error only for a name that is taken, while the database
\* answers and the client waits.
RegistrationSucceeds ==
  [][\A a \in Attempts :
       (RegistrationFails(a) /\ Reachable(a)) => Holding(NameToRegister(a)) # {}]_vars
==============================================================================

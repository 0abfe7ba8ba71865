--------------------------- MODULE OperationsProofs ---------------------------
(* Theorems about Operations: what the answers to registrations tell and what  *)
(* the responses of queries hold, for any clients, operations, tables,         *)
(* collation, number of tries and length of a day.                             *)
EXTENDS Operations, ConnectionsProofs, WellFoundedInduction

-----------------------------------------------------------------------------
(* Operators of the model.                                                   *)

\* The fields of a mutation that were resolved are counted by their places.
LEMMA PlacesCounted ==
  ASSUME NEW n \in Nat
  PROVE  Cardinality({<<i>> : i \in 1 .. n}) = n
<1> DEFINE T == {<<i>> : i \in 1 .. n}
           f == [i \in 1 .. n |-> <<i>>]
<1>1. f \in Bijection(1 .. n, T)
  BY DEF Bijection, Injection, Surjection, IsInjective
<1>2. IsFiniteSet(1 .. n) /\ Cardinality(1 .. n) = n
  BY FS_Interval
<1> HIDE DEF f, T
<1>3. Cardinality(T) = n
  BY <1>1, <1>2, FS_Bijection DEF ExistsBijection
<1> QED BY <1>3 DEF T

\* What a resolver concludes is kept under its place, and nothing else changes.
LEMMA Concluded ==
  ASSUME DOMAIN resolved = Attempts, NEW b \in Attempts, NEW place, NEW outcome,
         Conclude(b, place, outcome)
  PROVE  /\ DOMAIN resolved' = Attempts
         /\ \A a \in Attempts : a # b => resolved'[a] = resolved[a]
         /\ DOMAIN resolved'[b] = DOMAIN resolved[b] \cup {place}
         /\ resolved'[b][place] = outcome
         /\ \A p \in DOMAIN resolved[b] : p # place => resolved'[b][p] = resolved[b][p]
<1> DEFINE after == [p \in DOMAIN resolved[b] \cup {place} |->
                       IF p = place THEN outcome ELSE resolved[b][p]]
<1>1. resolved' = [resolved EXCEPT ![b] = after]
  BY DEF Conclude
<1>2. /\ DOMAIN after = DOMAIN resolved[b] \cup {place} /\ after[place] = outcome
      /\ \A p \in DOMAIN resolved[b] : p # place => after[p] = resolved[b][p]
  OBVIOUS
<1> HIDE DEF after
<1>3. /\ DOMAIN resolved' = Attempts /\ resolved'[b] = after
      /\ \A a \in Attempts : a # b => resolved'[a] = resolved[a]
  BY <1>1
<1> QED BY <1>2, <1>3

ResponseKeys == {"k1", "k2", "k3"}

\* Root fields have response keys of their own.
LEMMA KeyOfField ==
  ASSUME op \in Plans, NEW a \in Attempts, NEW i \in DOMAIN Of(a).fields
  PROVE  /\ KeyOf(i) \in ResponseKeys /\ KeyOf(i) \in Roots(a) /\ IndexOf(a, KeyOf(i)) = i
         /\ \A j \in DOMAIN Of(a).fields : KeyOf(j) = KeyOf(i) => j = i
<1>1. Valid(Of(a))
  BY OperationsAssumption DEF Of, Attempts
<1>2. \A j \in DOMAIN Of(a).fields : j = 1 \/ j = 2 \/ j = 3
  <2>1. DOMAIN Of(a).fields \subseteq 1 .. 3
    BY <1>1 DEF Valid
  <2>2. \A j \in 1 .. 3 : j = 1 \/ j = 2 \/ j = 3
    OBVIOUS
  <2> QED BY <2>1, <2>2
<1>3. KeyOf(1) = "k1" /\ KeyOf(2) = "k2" /\ KeyOf(3) = "k3"
  BY DEF KeyOf
<1>4. \A j \in DOMAIN Of(a).fields : KeyOf(j) = KeyOf(i) => j = i
  BY <1>2, <1>3
<1>5. KeyOf(i) \in ResponseKeys
  BY <1>2, <1>3 DEF ResponseKeys
<1> QED BY <1>4, <1>5 DEF Roots, IndexOf

-----------------------------------------------------------------------------
(* Mutations.                                                                *)

Mutations == {a \in Attempts : Of(a).type = "mutation"}

LEMMA FieldsOfMutation ==
  ASSUME op \in Plans, NEW a \in Mutations
  PROVE  /\ Of(a).fields \in Seq(Registrations) /\ Len(Of(a).fields) \in 0 .. 3
         /\ DOMAIN Of(a).fields = 1 .. Len(Of(a).fields)
         /\ \A i \in DOMAIN Of(a).fields :
              /\ i \in 1 .. 3
              /\ Of(a).fields[i].args.name = Name(NameSent(a, i))
              /\ DOMAIN Of(a).fields[i].args = {"name"}
              /\ NameSent(a, i) \in Names
<1>1. a[1] \in Clients /\ Of(a).type = "mutation" /\ Of(a) = op[a[1]]
  BY DEF Mutations, Attempts, Of
<1>2. Of(a).fields \in Seq(Registrations) /\ Len(Of(a).fields) <= 3
  BY <1>1, OperationsAssumption DEF Valid
<1> DEFINE fields == Of(a).fields
<1> HIDE DEF fields
<1>3. fields \in Seq(Registrations) /\ Len(fields) <= 3
  BY <1>2 DEF fields
<1>4. DOMAIN fields = 1 .. Len(fields) /\ Len(fields) \in 0 .. 3
  <2>1. DOMAIN fields = 1 .. Len(fields) /\ Len(fields) \in Nat
    BY <1>3
  <2> QED BY <1>3, <2>1
<1>5. ASSUME NEW i \in DOMAIN fields
      PROVE  /\ i \in 1 .. 3
             /\ fields[i].args.name = Name(fields[i].args.name.string)
             /\ DOMAIN fields[i].args = {"name"}
             /\ fields[i].args.name.string \in Names
  <2>1. fields[i] \in Registrations /\ i \in 1 .. 3
    BY <1>3, <1>4
  <2>2. fields[i].args \in [name : {Name(n) : n \in Names}]
    BY <2>1 DEF Registrations
  <2>3. PICK n \in Names : fields[i].args.name = Name(n)
    BY <2>2
  <2>4. fields[i].args.name.string = n
    BY <2>3 DEF Name
  <2> QED BY <2>1, <2>2, <2>3, <2>4
<1> QED BY <1>3, <1>4, <1>5 DEF fields, NameSent

LEMMA NameSentIsRegistered ==
  ASSUME op \in Plans, NEW a \in Mutations, Registering(a)
  PROVE  NameToRegister(a) = NameSent(a, Turn(a)[1])
<1> DEFINE i == Turn(a)[1]
           args == Of(a).fields[i].args
           n == NameSent(a, i)
<1>1. i \in DOMAIN Of(a).fields
  BY DEF Registering
<1> HIDE DEF i
<1>2. args.name = Name(n) /\ DOMAIN args = {"name"}
  BY <1>1, FieldsOfMutation
<1> HIDE DEF args, n
<1>3. Coerced(args, "name", UnmarshalNString(args["name"])) = Returned(n)
  BY <1>2 DEF Coerced, UnmarshalNString, Name
<1>4. RegisterLiverArgs(args) = Returned([name |-> {n}])
  <2> DEFINE coerced == [name |-> Coerced(args, "name", UnmarshalNString(args["name"]))]
  <2>1. DOMAIN coerced = {"name"} /\ coerced["name"] = [error |-> FALSE, value |-> {n}]
    BY <1>3 DEF Returned
  <2>2. RegisterLiverArgs(args) = Together(coerced)
    BY DEF RegisterLiverArgs
  <2> HIDE DEF coerced
  <2>3. Together(coerced) = Returned([x \in {"name"} |-> coerced[x].value])
    BY <2>1 DEF Together
  <2>4. [x \in {"name"} |-> coerced[x].value] = [name |-> {n}]
    BY <2>1
  <2> QED BY <2>2, <2>3, <2>4
<1>5. The(RegisterLiverArgs(args)) = [name |-> {n}]
  BY <1>4 DEF The, Returned
<1>6. Argument(RegisterLiverArgs(args), "name") = n
  BY <1>5 DEF Argument
<1> QED BY <1>6 DEF NameToRegister, args, n, i

\* A mutation has an error under a key exactly when the resolver of its field
\* returned one, whatever became of its data.
LEMMA ErrorsOfMutation ==
  ASSUME op \in Plans, NEW a \in Mutations, NEW i \in DOMAIN Of(a).fields
  PROVE  <<Key(KeyOf(i))>> \in Exec(a).errors
           <=> resolved[a][<<i>>].error \/ resolved[a][<<i>>].value = {}
<1> DEFINE fields == Of(a).fields
           outcomes == [k \in Roots(a) |-> RootOutcome(a, IndexOf(a, k))]
           results == [k \in DOMAIN outcomes |-> MutationRegisterLiver(outcomes[k])]
           bad(k) == outcomes[k].error \/ outcomes[k].value = {}
<1>1. Of(a).type = "mutation"
  BY DEF Mutations
<1>2. Exec(a) = Object(results, DOMAIN outcomes)
  BY <1>1 DEF Exec, Mutation
<1>3. Exec(a).errors = UNION {Under(Key(k), results[k].errors) : k \in Roots(a)}
  BY <1>2 DEF Object
<1>4. \A k \in Roots(a) : results[k].errors = IF bad(k) THEN {<<>>} ELSE {}
  BY DEF MutationRegisterLiver, NonNull, NullWith, Completed, Here
<1>5. KeyOf(i) \in Roots(a) /\ IndexOf(a, KeyOf(i)) = i
  BY KeyOfField DEF Mutations
<1>6. bad(KeyOf(i)) <=> resolved[a][<<i>>].error \/ resolved[a][<<i>>].value = {}
  BY <1>1, <1>5 DEF RootOutcome
<1> HIDE DEF outcomes, results, bad
<1>7. \A k \in Roots(a) : Under(Key(k), results[k].errors) = IF bad(k) THEN {<<Key(k)>>} ELSE {}
  <2>1. \A k : <<Key(k)>> \o <<>> = <<Key(k)>>
    OBVIOUS
  <2> QED BY <1>4, <2>1 DEF Under
<1>8. \A k : Key(k) = Key(KeyOf(i)) => k = KeyOf(i)
  BY DEF Key
<1>9. <<Key(KeyOf(i))>> \in Exec(a).errors <=> bad(KeyOf(i))
  <2>1. ASSUME bad(KeyOf(i)) PROVE <<Key(KeyOf(i))>> \in Exec(a).errors
    BY <1>3, <1>5, <1>7, <2>1
  <2>2. ASSUME <<Key(KeyOf(i))>> \in Exec(a).errors PROVE bad(KeyOf(i))
    <3>1. PICK k \in Roots(a) : <<Key(KeyOf(i))>> \in Under(Key(k), results[k].errors)
      BY <1>3, <2>2
    <3>2. bad(k) /\ <<Key(KeyOf(i))>> = <<Key(k)>>
      <4>1. Under(Key(k), results[k].errors) = IF bad(k) THEN {<<Key(k)>>} ELSE {}
        BY <1>7
      <4> QED BY <3>1, <4>1
    <3>3. Key(KeyOf(i)) = Key(k)
      BY <3>2
    <3> QED BY <1>8, <3>2, <3>3
  <2> QED BY <2>1, <2>2
<1> QED BY <1>6, <1>9
-----------------------------------------------------------------------------
(* The inductive invariant.                                                  *)

Inserted(a, i) == \E r \in rows : r.by = <<a, <<i>>>>

Typed ==
  /\ op \in Plans
  /\ stage \in [Attempts -> {"unsent", "running", "ended"}]
  /\ live \in [Attempts -> BOOLEAN]
  /\ DOMAIN resolved = Attempts

\* The fields of a mutation are resolved in the order of the document, all of
\* them before its answer.
InTurn ==
  \A a \in Mutations :
    /\ \E n \in 0 .. Len(Of(a).fields) : DOMAIN resolved[a] = {<<i>> : i \in 1 .. n}
    /\ stage[a] = "ended" => \A i \in DOMAIN Of(a).fields : <<i>> \in DOMAIN resolved[a]

NamesOnce == \A r, s \in rows : Collated[r.name] = Collated[s.name] => r = s

\* No field takes effect before it is resolved ...
NothingBefore ==
  \A a \in Mutations : \A i \in Nat :
    <<i>> \notin DOMAIN resolved[a] => ~Inserted(a, i) /\ <<a, <<i>>>> \notin unsure

\* ... and then its outcome tells its effect, but for a lost acknowledgement.
OutcomeTells(a, i) ==
  \/ /\ resolved[a][<<i>>] = Returned(TRUE)
     /\ <<a, <<i>>>> \notin unsure
     /\ \E r \in rows : /\ r.by = <<a, <<i>>>>
                        /\ Collated[r.name] = Collated[NameSent(a, i)]
  \/ /\ resolved[a][<<i>>] = Erred
     /\ Inserted(a, i) <=> <<a, <<i>>>> \in unsure

OutcomesTell ==
  \A a \in Mutations : \A i \in DOMAIN Of(a).fields :
    <<i>> \in DOMAIN resolved[a] => OutcomeTells(a, i)

EffectsInv == Typed /\ InTurn /\ NamesOnce /\ NothingBefore /\ OutcomesTell

LEMMA InitEffects == Init => EffectsInv
<1> SUFFICES ASSUME Init PROVE EffectsInv
  OBVIOUS
<1> USE DEF Init
<1>1. Typed
  BY DEF Typed
<1>2. \A a \in Attempts : DOMAIN resolved[a] = {} /\ stage[a] = "unsent"
  OBVIOUS
<1>3. \A r \in rows : r.by = <<>>
  BY OperationsAssumption DEF Consistent
<1>4. InTurn
  <2> SUFFICES ASSUME NEW a \in Mutations
               PROVE  0 \in 0 .. Len(Of(a).fields) /\ DOMAIN resolved[a] = {<<i>> : i \in 1 .. 0}
    BY <1>2 DEF InTurn, Mutations
  <2>1. Len(Of(a).fields) \in 0 .. 3
    BY FieldsOfMutation
  <2> QED BY <1>2, <2>1 DEF Mutations
<1>5. NamesOnce
  BY OperationsAssumption DEF Consistent, NamesOnce
<1>6. NothingBefore
  <2>1. \A a, i : <<a, <<i>>>> # <<>>
    OBVIOUS
  <2> QED BY <1>3, <2>1 DEF NothingBefore, Inserted
<1>7. OutcomesTell
  BY <1>2 DEF OutcomesTell, Mutations
<1> QED BY <1>1, <1>4, <1>5, <1>6, <1>7 DEF EffectsInv

\* Whatever leaves the table, the lost acknowledgements and what mutations
\* returned alone keeps the invariant.
LEMMA OthersKeepEffects ==
  ASSUME EffectsInv, UNCHANGED <<rows, op, unsure>>,
         DOMAIN resolved' = Attempts,
         stage' \in [Attempts -> {"unsent", "running", "ended"}],
         live' \in [Attempts -> BOOLEAN],
         \A a \in Mutations : /\ resolved'[a] = resolved[a]
                              /\ stage'[a] = "ended" =>
                                   \A i \in DOMAIN Of(a).fields : <<i>> \in DOMAIN resolved[a]
  PROVE  EffectsInv'
<1> USE DEF EffectsInv
<1>1. Typed'
  BY DEF Typed
<1>2. Mutations' = Mutations /\ \A a : Of(a)' = Of(a) /\ \A i : NameSent(a, i)' = NameSent(a, i)
  BY DEF Mutations, Of, NameSent
<1>3. \A a, i : Inserted(a, i)' <=> Inserted(a, i)
  BY DEF Inserted
<1>4. InTurn'
  BY <1>2 DEF InTurn
<1>5. NamesOnce'
  BY DEF NamesOnce
<1>6. NothingBefore'
  BY <1>2, <1>3 DEF NothingBefore
<1>7. OutcomesTell'
  <2>1. ASSUME NEW a \in Mutations, NEW i, OutcomeTells(a, i) PROVE OutcomeTells(a, i)'
    BY <1>2, <1>3, <2>1 DEF OutcomeTells
  <2> QED BY <1>2, <2>1 DEF OutcomesTell
<1> QED BY <1>1, <1>4, <1>5, <1>6, <1>7

\* A field of a mutation is resolved: it comes next in the document, and had no
\* effect yet.
LEMMA NextInTurn ==
  ASSUME EffectsInv, NEW b \in Attempts, Registering(b), NEW outcome,
         Conclude(b, Turn(b), outcome), UNCHANGED <<op, stage, live>>
  PROVE  \E j \in DOMAIN Of(b).fields :
           /\ Turn(b) = <<j>> /\ j \in Nat /\ b \in Mutations
           /\ <<j>> \notin DOMAIN resolved[b]
           /\ NameToRegister(b) = NameSent(b, j)
           /\ Typed' /\ InTurn'
<1> USE DEF EffectsInv
<1>1. b \in Mutations /\ stage[b] = "running"
  BY DEF Registering, Running, Mutations
<1>2. PICK n \in 0 .. Len(Of(b).fields) : DOMAIN resolved[b] = {<<i>> : i \in 1 .. n}
  BY <1>1 DEF InTurn
<1>3. n \in Nat /\ Turn(b) = <<n + 1>>
  <2>1. Len(Of(b).fields) \in 0 .. 3
    BY <1>1, FieldsOfMutation DEF Typed
  <2>2. n \in Nat
    BY <2>1
  <2> QED BY <1>2, <2>2, PlacesCounted DEF Turn
<1> DEFINE j == n + 1
<1>4. j \in DOMAIN Of(b).fields /\ j \in Nat /\ j \in 1 .. Len(Of(b).fields)
  <2>1. Turn(b)[1] = j
    BY <1>3
  <2> QED BY <1>1, <1>3, <2>1, FieldsOfMutation DEF Registering, Typed
<1>5. <<j>> \notin DOMAIN resolved[b]
  <2>1. \A i \in 1 .. n : i # j
    BY <1>3
  <2> QED BY <1>2, <2>1
<1>6. NameToRegister(b) = NameSent(b, j)
  BY <1>1, <1>3, NameSentIsRegistered DEF Typed
<1>7. /\ DOMAIN resolved' = Attempts
      /\ \A a \in Attempts : a # b => resolved'[a] = resolved[a]
      /\ DOMAIN resolved'[b] = DOMAIN resolved[b] \cup {<<j>>}
  BY <1>3, Concluded DEF Typed
<1>8. Typed'
  BY <1>7 DEF Typed
<1>9. InTurn'
  <2>1. Mutations' = Mutations /\ \A a : Of(a)' = Of(a)
    BY DEF Mutations, Of
  <2>2. \A a \in Mutations : a # b => resolved'[a] = resolved[a]
    BY <1>7 DEF Mutations
  <2>3. DOMAIN resolved'[b] = {<<i>> : i \in 1 .. j}
    <3>1. 1 .. j = (1 .. n) \cup {j}
      BY <1>3
    <3> QED BY <1>2, <1>7, <3>1
  <2>4. j \in 0 .. Len(Of(b).fields)
    BY <1>4
  <2>5. stage'[b] # "ended"
    BY <1>1
  <2> HIDE DEF j
  <2>6. ASSUME NEW a \in Mutations
        PROVE  /\ \E m \in 0 .. Len(Of(a).fields) : DOMAIN resolved'[a] = {<<i>> : i \in 1 .. m}
               /\ stage'[a] = "ended" => \A i \in DOMAIN Of(a).fields : <<i>> \in DOMAIN resolved'[a]
    <3>1. CASE a = b
      BY <2>3, <2>4, <2>5, <3>1
    <3>2. CASE a # b
      BY <2>2, <3>2 DEF InTurn
    <3> QED BY <3>1, <3>2
  <2> QED BY <2>1, <2>6 DEF InTurn
<1> QED BY <1>1, <1>3, <1>4, <1>5, <1>6, <1>8, <1>9

\* An insert adds a row: the one by its field, which had none.
LEMMA InsertIsNew ==
  ASSUME EffectsInv, NEW b \in Attempts, Registering(b), NEW outcome,
         Conclude(b, Turn(b), outcome), UNCHANGED <<op, stage, live>>, Insert(b)
  PROVE  rows' # rows
<1>1. PICK j \in DOMAIN Of(b).fields :
        Turn(b) = <<j>> /\ j \in Nat /\ b \in Mutations /\ <<j>> \notin DOMAIN resolved[b]
  BY NextInTurn
<1>2. ~Inserted(b, j)
  BY <1>1 DEF EffectsInv, NothingBefore
<1>3. \E r \in rows' : r.by = <<b, <<j>>>>
  <2> DEFINE new == [id |-> Cardinality(rows) + 1, name |-> NameToRegister(b),
                     debutedOn |-> ZeroTime, retiredOn |-> {}, by |-> <<b, <<j>>>>]
  <2>1. rows' = rows \cup {new}
    BY <1>1 DEF Insert
  <2>2. new.by = <<b, <<j>>>>
    OBVIOUS
  <2> HIDE DEF new
  <2> QED BY <2>1, <2>2
<1> QED BY <1>2, <1>3 DEF Inserted

\* The three ways a registration ends keep the invariant.
LEMMA RegistrationKeepsEffects ==
  ASSUME EffectsInv, NEW b \in Attempts, Registering(b), NEW outcome,
         Conclude(b, Turn(b), outcome), UNCHANGED <<op, stage, live>>,
         rows' = rows \/ (Insert(b) /\ Holding(NameToRegister(b)) = {}),
         \/ outcome = Returned(TRUE) /\ rows' # rows /\ unsure' = unsure
         \/ outcome = Erred /\ rows' # rows /\ unsure' = unsure \cup {<<b, Turn(b)>>}
         \/ outcome = Erred /\ rows' = rows /\ unsure' = unsure
  PROVE  EffectsInv'
<1> USE DEF EffectsInv
<1>1. PICK j \in DOMAIN Of(b).fields :
        /\ Turn(b) = <<j>> /\ j \in Nat /\ b \in Mutations
        /\ <<j>> \notin DOMAIN resolved[b]
        /\ NameToRegister(b) = NameSent(b, j)
        /\ Typed' /\ InTurn'
  BY NextInTurn
<1>2. /\ \A a \in Attempts : a # b => resolved'[a] = resolved[a]
      /\ DOMAIN resolved'[b] = DOMAIN resolved[b] \cup {<<j>>}
      /\ resolved'[b][<<j>>] = outcome
      /\ \A p \in DOMAIN resolved[b] : p # <<j>> => resolved'[b][p] = resolved[b][p]
  BY <1>1, Concluded DEF Typed
<1>3. Mutations' = Mutations /\ \A a : Of(a)' = Of(a) /\ \A i : NameSent(a, i)' = NameSent(a, i)
  BY DEF Mutations, Of, NameSent
<1> DEFINE by == <<b, <<j>>>>
           name == NameSent(b, j)
\* What an insert adds.
<1>4. ASSUME rows' # rows
      PROVE  \E new : /\ rows' = rows \cup {new} /\ new.by = by /\ new.name = name
                      /\ \A r \in rows : Collated[r.name] # Collated[name]
  <2>1. rows' = rows \cup {[id |-> Cardinality(rows) + 1, name |-> name,
                           debutedOn |-> ZeroTime, retiredOn |-> {}, by |-> by]}
    BY <1>1, <1>4 DEF Insert
  <2>2. \A r \in rows : Collated[r.name] # Collated[name]
    BY <1>1, <1>4 DEF Holding
  <2> DEFINE new == [id |-> Cardinality(rows) + 1, name |-> name,
                     debutedOn |-> ZeroTime, retiredOn |-> {}, by |-> by]
  <2>3. new.by = by /\ new.name = name
    OBVIOUS
  <2> HIDE DEF new
  <2>4. rows' = rows \cup {new}
    BY <2>1 DEF new
  <2> QED BY <2>2, <2>3, <2>4
<1>5. \A a, i : <<a, <<i>>>> = by <=> a = b /\ i = j
  OBVIOUS
<1> HIDE DEF by, name
<1>6. ASSUME NEW a, NEW i, ~(a = b /\ i = j)
      PROVE  /\ Inserted(a, i)' <=> Inserted(a, i)
             /\ <<a, <<i>>>> \in unsure' <=> <<a, <<i>>>> \in unsure
             /\ \A r \in rows : r \in rows'
  <2>1. <<a, <<i>>>> # by
    BY <1>5, <1>6
  <2>2. CASE rows' = rows
    BY <1>1, <2>1, <2>2 DEF Inserted, by
  <2>3. CASE rows' # rows
    <3>1. PICK new : rows' = rows \cup {new} /\ new.by = by
      BY <1>4, <2>3
    <3> QED BY <1>1, <2>1, <3>1 DEF Inserted, by
  <2> QED BY <2>2, <2>3
<1>7. ~Inserted(b, j) /\ by \notin unsure
  BY <1>1 DEF NothingBefore, by
<1>8. /\ rows' = rows => ~Inserted(b, j)'
      /\ rows' # rows => Inserted(b, j)' /\ \E r \in rows' : /\ r.by = by
                                                             /\ Collated[r.name] = Collated[name]
  <2>1. rows' = rows => ~Inserted(b, j)'
    BY <1>7 DEF Inserted
  <2>2. ASSUME rows' # rows
        PROVE  Inserted(b, j)' /\ \E r \in rows' : r.by = by /\ Collated[r.name] = Collated[name]
    <3>1. PICK new : rows' = rows \cup {new} /\ new.by = by /\ new.name = name
      BY <1>4, <2>2
    <3> QED BY <3>1 DEF Inserted, by
  <2> QED BY <2>1, <2>2
<1>9. NamesOnce'
  <2>1. CASE rows' = rows
    BY <2>1 DEF NamesOnce
  <2>2. CASE rows' # rows
    <3>1. PICK new : /\ rows' = rows \cup {new} /\ new.name = name
                     /\ \A r \in rows : Collated[r.name] # Collated[name]
      BY <1>4, <2>2
    <3> QED BY <3>1 DEF NamesOnce
  <2> QED BY <2>1, <2>2
<1>10. NothingBefore'
  <2> SUFFICES ASSUME NEW a \in Mutations, NEW i \in Nat, <<i>> \notin DOMAIN resolved'[a]
               PROVE  ~Inserted(a, i)' /\ <<a, <<i>>>> \notin unsure'
    BY <1>3 DEF NothingBefore
  <2>1. ~(a = b /\ i = j)
    BY <1>2
  <2>2. <<i>> \notin DOMAIN resolved[a]
    BY <1>2 DEF Mutations
  <2> QED BY <1>6, <2>1, <2>2 DEF NothingBefore
<1>11. OutcomesTell'
  <2> SUFFICES ASSUME NEW a \in Mutations, NEW i \in DOMAIN Of(a).fields,
                      <<i>> \in DOMAIN resolved'[a]
               PROVE  OutcomeTells(a, i)'
    BY <1>3 DEF OutcomesTell
  <2>1. CASE a = b /\ i = j
    <3>1. \/ outcome = Returned(TRUE) /\ rows' # rows /\ by \notin unsure'
          \/ outcome = Erred /\ rows' # rows /\ by \in unsure'
          \/ outcome = Erred /\ rows' = rows /\ by \notin unsure'
      BY <1>1, <1>7 DEF by
    <3>2. OutcomeTells(b, j)'
      BY <1>2, <1>3, <1>8, <3>1 DEF OutcomeTells, by, name
    <3> QED BY <2>1, <3>2
  <2>2. CASE ~(a = b /\ i = j)
    <3>1. <<i>> \in DOMAIN resolved[a] /\ resolved'[a][<<i>>] = resolved[a][<<i>>]
      BY <1>2, <2>2 DEF Mutations
    <3>2. OutcomeTells(a, i)
      BY <3>1 DEF OutcomesTell
    <3> QED BY <1>3, <1>6, <2>2, <3>1, <3>2 DEF OutcomeTells
  <2> QED BY <2>1, <2>2
<1> QED BY <1>1, <1>9, <1>10, <1>11

\* What a query resolves, and what happens around the operations, changes nothing
\* a mutation tells.
LEMMA QueriesKeepEffects ==
  ASSUME EffectsInv, NEW b \in Attempts, Of(b).type = "query", NEW place, NEW outcome,
         Conclude(b, place, outcome), UNCHANGED <<rows, op, stage, live, unsure>>
  PROVE  EffectsInv'
<1> USE DEF EffectsInv
<1>1. DOMAIN resolved' = Attempts /\ \A a \in Attempts : a # b => resolved'[a] = resolved[a]
  BY Concluded DEF Typed
<1>2. \A a \in Mutations : a # b /\ resolved'[a] = resolved[a]
  BY <1>1 DEF Mutations
<1>3. \A a \in Mutations : stage'[a] = "ended" =>
        \A i \in DOMAIN Of(a).fields : <<i>> \in DOMAIN resolved[a]
  BY DEF InTurn
<1>4. UNCHANGED <<rows, op, unsure>>
      /\ stage' \in [Attempts -> {"unsent", "running", "ended"}]
      /\ live' \in [Attempts -> BOOLEAN]
  BY DEF Typed
<1> QED BY <1>1, <1>2, <1>3, <1>4, OthersKeepEffects

LEMMA NextKeepsEffects == EffectsInv /\ [Next]_vars => EffectsInv'
<1> SUFFICES ASSUME EffectsInv, [Next]_vars PROVE EffectsInv'
  OBVIOUS
<1> USE DEF EffectsInv
\* Steps that resolve nothing.
<1>1. ASSUME UNCHANGED <<rows, op, resolved, unsure>>,
             stage' \in [Attempts -> {"unsent", "running", "ended"}],
             live' \in [Attempts -> BOOLEAN],
             \A a \in Mutations : (stage'[a] = "ended" /\ stage[a] # "ended") =>
               \A i \in DOMAIN Of(a).fields : <<i>> \in DOMAIN resolved[a]
      PROVE  EffectsInv'
  <2>1. DOMAIN resolved' = Attempts /\ \A a \in Mutations : resolved'[a] = resolved[a]
    BY <1>1 DEF Typed
  <2>2. \A a \in Mutations : stage'[a] = "ended" =>
          \A i \in DOMAIN Of(a).fields : <<i>> \in DOMAIN resolved[a]
    BY <1>1 DEF InTurn
  <2> QED BY <1>1, <2>1, <2>2, OthersKeepEffects
<1>2. CASE ToggleDb \/ Tick \/ UNCHANGED vars
  <2>1. UNCHANGED <<rows, op, resolved, unsure, stage, live>>
    BY <1>2 DEF ToggleDb, Tick, vars
  <2> QED BY <1>1, <2>1 DEF Typed
<1>3. ASSUME NEW a \in Attempts, Send(a) PROVE EffectsInv'
  <2>1. UNCHANGED <<rows, op, resolved, unsure, live>>
        /\ stage' = [stage EXCEPT ![a] = "running"]
    BY <1>3 DEF Send
  <2>2. \A c \in Attempts : stage'[c] = "ended" => stage[c] = "ended"
    BY <2>1 DEF Typed
  <2>3. stage' \in [Attempts -> {"unsent", "running", "ended"}]
    BY <2>1 DEF Typed
  <2> QED BY <1>1, <2>1, <2>2, <2>3 DEF Typed, Mutations
<1>4. ASSUME NEW a \in Attempts, Cut(a) PROVE EffectsInv'
  <2>1. UNCHANGED <<rows, op, resolved, unsure, stage>>
        /\ live' = [live EXCEPT ![a] = FALSE]
    BY <1>4 DEF Cut
  <2>2. live' \in [Attempts -> BOOLEAN]
    BY <2>1 DEF Typed
  <2> QED BY <1>1, <2>1, <2>2 DEF Typed
<1>5. ASSUME NEW a \in Attempts, Respond(a) PROVE EffectsInv'
  <2>1. UNCHANGED <<rows, op, resolved, unsure, live>>
        /\ stage' = [stage EXCEPT ![a] = "ended"] /\ AllResolved(a)
    BY <1>5 DEF Respond
  <2>2. stage' \in [Attempts -> {"unsent", "running", "ended"}]
    BY <2>1 DEF Typed
  <2>3. ASSUME NEW c \in Mutations, stage'[c] = "ended", stage[c] # "ended"
        PROVE  \A i \in DOMAIN Of(c).fields : <<i>> \in DOMAIN resolved[c]
    <3>1. c = a
      BY <2>1, <2>3 DEF Typed, Mutations
    <3> QED BY <2>1, <3>1 DEF AllResolved
  <2> QED BY <1>1, <2>1, <2>2, <2>3 DEF Typed
<1>6. ASSUME NEW a \in Attempts, RegisterLiver(a) PROVE EffectsInv'
  <2>1. /\ Registering(a) /\ Conclude(a, Turn(a), Returned(TRUE))
        /\ UNCHANGED <<op, stage, live, unsure>>
        /\ Insert(a) /\ Holding(NameToRegister(a)) = {}
    BY <1>6 DEF RegisterLiver, Insertable
  <2>2. rows' # rows
    BY <2>1, InsertIsNew
  <2> QED BY <2>1, <2>2, RegistrationKeepsEffects
<1>7. ASSUME NEW a \in Attempts, RegistrationUnacknowledged(a) PROVE EffectsInv'
  <2>1. /\ Registering(a) /\ Conclude(a, Turn(a), Erred)
        /\ UNCHANGED <<op, stage, live>> /\ unsure' = unsure \cup {<<a, Turn(a)>>}
        /\ Insert(a) /\ Holding(NameToRegister(a)) = {}
    BY <1>7 DEF RegistrationUnacknowledged, Insertable
  <2>2. rows' # rows
    BY <2>1, InsertIsNew
  <2> QED BY <2>1, <2>2, RegistrationKeepsEffects
<1>8. ASSUME NEW a \in Attempts, RegistrationFails(a) PROVE EffectsInv'
  <2>1. /\ Registering(a) /\ Conclude(a, Turn(a), Erred)
        /\ UNCHANGED <<op, stage, live, rows, unsure>>
    BY <1>8 DEF RegistrationFails
  <2> QED BY <2>1, RegistrationKeepsEffects
<1>9. ASSUME NEW a \in Attempts, NEW i, ResolveRoot(a, i) PROVE EffectsInv'
  <2>1. PICK outcome : Conclude(a, <<i>>, outcome)
    BY <1>9 DEF ResolveRoot
  <2>2. Of(a).type = "query" /\ UNCHANGED <<rows, op, stage, live, unsure>>
    BY <1>9 DEF ResolveRoot, Running
  <2> QED BY <2>1, <2>2, QueriesKeepEffects
<1>10. ASSUME NEW a \in Attempts, NEW i, NEW n, LoadGroups(a, i, n) PROVE EffectsInv'
  <2>1. PICK outcome : Conclude(a, <<i, n, "groups">>, outcome)
    BY <1>10 DEF LoadGroups
  <2>2. Of(a).type = "query" /\ UNCHANGED <<rows, op, stage, live, unsure>>
    BY <1>10 DEF LoadGroups, Unresolved, Running
  <2> QED BY <2>1, <2>2, QueriesKeepEffects
<1>11. ASSUME NEW a \in Attempts, NEW i, NEW n, NEW f, ReadClock(a, i, n, f) PROVE EffectsInv'
  <2>1. PICK outcome : Conclude(a, <<i, n, f>>, outcome)
    BY <1>11 DEF ReadClock
  <2>2. Of(a).type = "query" /\ UNCHANGED <<rows, op, stage, live, unsure>>
    BY <1>11 DEF ReadClock, Unresolved, Running
  <2> QED BY <2>1, <2>2, QueriesKeepEffects
<1> QED BY <1>2, <1>3, <1>4, <1>5, <1>6, <1>7, <1>8, <1>9, <1>10, <1>11 DEF Next, Work

LEMMA EffectsInvariance == Spec => []EffectsInv
<1> QED BY InitEffects, NextKeepsEffects, PTL DEF Spec

\* What an answer to a mutation says of its field.
LEMMA ToldOrNot ==
  ASSUME EffectsInv, NEW a \in Attempts, Answered(a), Of(a).type = "mutation",
         NEW i \in DOMAIN Of(a).fields
  PROVE  /\ a \in Mutations /\ OutcomeTells(a, i)
         /\ <<Key(KeyOf(i))>> \in Exec(a).errors <=> resolved[a][<<i>>] = Erred
         /\ <<Key(KeyOf(i))>> \notin Exec(a).errors <=> resolved[a][<<i>>] = Returned(TRUE)
<1>1. a \in Mutations /\ op \in Plans
  BY DEF Mutations, EffectsInv, Typed
<1>2. <<i>> \in DOMAIN resolved[a]
  BY <1>1 DEF EffectsInv, InTurn, Answered
<1>3. OutcomeTells(a, i)
  BY <1>1, <1>2 DEF EffectsInv, OutcomesTell
<1>4. /\ Erred.error = TRUE /\ Returned(TRUE).error = FALSE /\ Returned(TRUE).value # {}
      /\ Erred # Returned(TRUE)
  BY DEF Erred, Returned
<1>5. <<Key(KeyOf(i))>> \in Exec(a).errors
        <=> resolved[a][<<i>>].error \/ resolved[a][<<i>>].value = {}
  BY <1>1, ErrorsOfMutation
<1>6. resolved[a][<<i>>] = Erred \/ resolved[a][<<i>>] = Returned(TRUE)
  BY <1>3 DEF OutcomeTells
<1> QED BY <1>1, <1>3, <1>4, <1>5, <1>6

\* The errors of a mutation that is answered tell what it did, field by field, but
\* for the inserts whose acknowledgement was lost: also when its data is null
\* because another field failed.
THEOREM AnswersTellEffects == Spec => []AnswerTellsEffects
<1>1. ASSUME EffectsInv PROVE AnswerTellsEffects
  <2> SUFFICES ASSUME NEW a \in Attempts, Answered(a), Of(a).type = "mutation",
                      NEW i \in DOMAIN Of(a).fields
               PROVE  LET by == <<a, <<i>>>>
                          inserted == \E r \in rows : r.by = by
                      IN  /\ <<Key(KeyOf(i))>> \notin Exec(a).errors => inserted /\ by \notin unsure
                          /\ <<Key(KeyOf(i))>> \in Exec(a).errors => (inserted <=> by \in unsure)
    BY DEF AnswerTellsEffects
  <2>1. /\ OutcomeTells(a, i)
        /\ <<Key(KeyOf(i))>> \in Exec(a).errors <=> resolved[a][<<i>>] = Erred
        /\ <<Key(KeyOf(i))>> \notin Exec(a).errors <=> resolved[a][<<i>>] = Returned(TRUE)
    BY <1>1, ToldOrNot
  <2> QED BY <2>1 DEF OutcomeTells, Inserted
<1>2. EffectsInv => AnswerTellsEffects
  BY <1>1
<1> QED BY <1>2, EffectsInvariance, PTL

\* However often clients send a registration again, and with whatever collation,
\* the table holds a name once, and at most one answer says that it registered it.
THEOREM NamesRegisteredOnce == Spec => []RegisteredOnce
<1>1. ASSUME EffectsInv PROVE RegisteredOnce
  <2>1. \A r, s \in rows : Collated[r.name] = Collated[s.name] => r = s
    BY <1>1 DEF EffectsInv, NamesOnce
  <2>2. ASSUME NEW a \in Attempts, NEW i \in DOMAIN Of(a).fields, Told(a, i)
        PROVE  \E r \in rows : /\ r.by = <<a, <<i>>>>
                               /\ Collated[r.name] = Collated[NameSent(a, i)]
    <3>1. resolved[a][<<i>>] = Returned(TRUE) /\ OutcomeTells(a, i)
      BY <1>1, <2>2, ToldOrNot DEF Told
    <3> QED BY <3>1 DEF OutcomeTells, Returned, Erred
  <2>3. ASSUME NEW a \in Attempts, NEW b \in Attempts,
               NEW i \in DOMAIN Of(a).fields, NEW j \in DOMAIN Of(b).fields,
               Told(a, i), Told(b, j),
               Collated[NameSent(a, i)] = Collated[NameSent(b, j)]
        PROVE  a = b /\ i = j
    <3>1. PICK r \in rows : r.by = <<a, <<i>>>> /\ Collated[r.name] = Collated[NameSent(a, i)]
      BY <2>2, <2>3
    <3>2. PICK s \in rows : s.by = <<b, <<j>>>> /\ Collated[s.name] = Collated[NameSent(b, j)]
      BY <2>2, <2>3
    <3>3. r = s
      BY <2>1, <2>3, <3>1, <3>2
    <3>4. <<a, <<i>>>> = <<b, <<j>>>>
      BY <3>1, <3>2, <3>3
    <3> QED BY <3>4
  <2> QED BY <2>1, <2>3 DEF RegisteredOnce
<1>2. EffectsInv => RegisteredOnce
  BY <1>1
<1> QED BY <1>2, EffectsInvariance, PTL
-----------------------------------------------------------------------------
(* The clock and the fields that are computed from it.                       *)

LEMMA Quotient ==
  ASSUME NEW x \in Nat, NEW D \in Nat \ {0}
  PROVE  /\ x \div D \in 0 .. x
         /\ x < D => x \div D = 0
<1> DEFINE q == x \div D
           r == x % D
<1>1. q \in Int /\ r \in 0 .. D - 1 /\ x = D * q + r
  OBVIOUS
<1> HIDE DEF q, r
<1>2. q >= 0
  <2>1. ASSUME q <= -1 PROVE FALSE
    <3>1. D * q <= -D
      BY <1>1, <2>1
    <3> QED BY <1>1, <3>1
  <2> QED BY <1>1, <2>1
<1>3. q <= x
  <2>1. D * q >= q
    BY <1>1, <1>2
  <2> QED BY <1>1, <2>1
<1>4. x < D => q = 0
  <2>1. ASSUME q >= 1 PROVE D * q >= D
    BY <1>1, <2>1
  <2> QED BY <1>1, <1>2, <2>1
<1> QED BY <1>1, <1>2, <1>3, <1>4 DEF q

\* A liver's dates as the table has them.
LiverRow(r) == r.name \in Names /\ r.debutedOn \in Int /\ r.retiredOn \in SUBSET Int

\* Days are within the longest duration, have the sign of what is left of the
\* duration, and less than a day is no day, before the debut as after it.
LEMMA DaysOfDuration ==
  ASSUME NEW d \in -MaxDuration .. MaxDuration
  PROVE  /\ Days(d) \in -MaxDuration .. MaxDuration
         /\ d > -TicksPerDay => Days(d) >= 0
         /\ d < TicksPerDay => Days(d) <= 0
<1>1. TicksPerDay \in Nat \ {0} /\ MaxDuration \in Nat
  BY LiverStatusAssumption
<1>2. d \in Int
  BY <1>1
<1>3. CASE d >= 0
  <2>1. d \in Nat /\ d <= MaxDuration
    BY <1>1, <1>3
  <2>2. /\ d \div TicksPerDay \in 0 .. d
        /\ d < TicksPerDay => d \div TicksPerDay = 0
    BY <1>1, <2>1, Quotient
  <2>3. Days(d) = d \div TicksPerDay
    BY <1>2, <1>3 DEF Days
  <2> HIDE DEF Days
  <2> DEFINE q == d \div TicksPerDay
  <2>4. q \in 0 .. d /\ (d < TicksPerDay => q = 0) /\ Days(d) = q
    BY <2>2, <2>3
  <2> HIDE DEF q
  <2> QED BY <1>1, <2>1, <2>4
<1>4. CASE d < 0
  <2>1. -d \in Nat /\ -d <= MaxDuration
    BY <1>1, <1>4
  <2> DEFINE e == -d
             q == e \div TicksPerDay
  <2>2. q \in 0 .. e /\ (e < TicksPerDay => q = 0)
    BY <1>1, <2>1, Quotient
  <2>3. Days(d) = -q
    BY <1>2, <1>4 DEF Days
  <2> HIDE DEF q
  <2> QED BY <1>1, <1>2, <1>4, <2>1, <2>2, <2>3
<1> QED BY <1>2, <1>3, <1>4

LEMMA StatusOfLiver ==
  ASSUME NEW r, LiverRow(r), NEW t \in Int
  PROVE  /\ Status(r, t) \in {"ANNOUNCED", "DEBUTED", "RETIRED"}
         /\ EnrollmentDays(r, t) \in -MaxDuration .. MaxDuration
<1>1. Status(r, t) \in {"ANNOUNCED", "DEBUTED", "RETIRED"}
  BY DEF Status
<1>2. MaxDuration \in Nat
  BY LiverStatusAssumption
<1>3. EnrollmentDuration(r, t) \in -MaxDuration .. MaxDuration
  <2> DEFINE to == IF Retired(r) THEN CHOOSE u \in r.retiredOn : TRUE ELSE t
  <2>1. to \in Int /\ r.debutedOn \in Int
    BY DEF LiverRow, Retired
  <2>2. EnrollmentDuration(r, t) = Sub(to, r.debutedOn)
    BY DEF EnrollmentDuration
  <2> HIDE DEF to
  <2> QED BY <1>2, <2>1, <2>2 DEF Sub
<1> QED BY <1>1, <1>3, DaysOfDuration DEF EnrollmentDays

\* Who is yet to debut at one moment has no days at another one less than a day
\* away, and who has debuted has no negative ones.
LEMMA MomentsAgree ==
  ASSUME NEW r, LiverRow(r), NEW t \in Int, NEW u \in Int,
         t - u < TicksPerDay, u - t < TicksPerDay
  PROVE  /\ Status(r, t) = "ANNOUNCED" => EnrollmentDays(r, u) <= 0
         /\ Status(r, t) = "DEBUTED" => EnrollmentDays(r, u) >= 0
<1> DEFINE d == r.debutedOn
           e == EnrollmentDuration(r, u)
<1>1. TicksPerDay \in Nat \ {0} /\ MaxDuration \in Nat /\ d \in Int
  BY LiverStatusAssumption DEF LiverRow
<1>2. CASE Retired(r)
  BY <1>2 DEF Status
<1>3. CASE ~Retired(r)
  <2>1. e = IF u - d > MaxDuration THEN MaxDuration
            ELSE IF u - d < -MaxDuration THEN -MaxDuration ELSE u - d
    BY <1>3 DEF EnrollmentDuration, Sub
  <2>2. /\ Status(r, t) = "ANNOUNCED" => d > t
        /\ Status(r, t) = "DEBUTED" => ~(d > t)
    BY <1>3 DEF Status
  <2> HIDE DEF d, e
  <2>3. e \in -MaxDuration .. MaxDuration
    BY <1>1, <2>1
  <2>4. d > t => e < TicksPerDay
    BY <1>1, <2>1
  <2>5. ~(d > t) => e > -TicksPerDay
    BY <1>1, <2>1
  <2>6. e < TicksPerDay => Days(e) <= 0
    BY <2>3, DaysOfDuration
  <2>7. e > -TicksPerDay => Days(e) >= 0
    BY <2>3, DaysOfDuration
  <2> QED BY <2>2, <2>4, <2>5, <2>6, <2>7 DEF EnrollmentDays, e
<1> QED BY <1>2, <1>3
-----------------------------------------------------------------------------
(* Responses of queries.                                                     *)

Queries == {a \in Attempts : Of(a).type = "query"}

\* Every error has a path from where it is reported to where it was raised, of
\* fields and indices.
IsPath(p) ==
  /\ Len(p) \in Nat /\ p = [j \in 1 .. Len(p) |-> p[j]]
  /\ \A j \in 1 .. Len(p) : p[j][1] \notin ResponseKeys
HavePaths(result) == \A p \in result.errors : IsPath(p)

LEMMA LongerPath ==
  ASSUME NEW p, IsPath(p), NEW s
  PROVE  /\ Len(<<s>> \o p) = Len(p) + 1
         /\ <<s>> \o p = [j \in 1 .. Len(p) + 1 |-> (<<s>> \o p)[j]]
         /\ (<<s>> \o p)[1] = s
         /\ \A j \in 2 .. Len(p) + 1 : (<<s>> \o p)[j][1] \notin ResponseKeys
         /\ s[1] \notin ResponseKeys => IsPath(<<s>> \o p)
<1> DEFINE T == {s} \cup {p[j] : j \in 1 .. Len(p)}
           n == Len(p)
           q == <<s>> \o p
<1>1. /\ n \in Nat /\ p = [j \in 1 .. n |-> p[j]] /\ \A j \in 1 .. n : p[j] \in T
      /\ \A j \in 1 .. n : p[j][1] \notin ResponseKeys
  BY DEF IsPath
<1> HIDE DEF T, n
<1>2. p \in Seq(T) /\ Len(p) = n
  BY <1>1 DEF n
<1>3. <<s>> \in Seq(T)
  BY DEF T
<1>4. q \in Seq(T) /\ Len(q) = n + 1 /\ q[1] = s /\ \A j \in 2 .. n + 1 : q[j] = p[j - 1]
  BY <1>1, <1>2, <1>3
<1> HIDE DEF q
<1>5. q = [j \in 1 .. n + 1 |-> q[j]]
  BY <1>1, <1>4
<1>6. ASSUME NEW j \in 2 .. n + 1 PROVE q[j][1] \notin ResponseKeys
  <2>1. j - 1 \in 1 .. n
    BY <1>1
  <2> QED BY <1>1, <1>4, <2>1
<1>7. ASSUME s[1] \notin ResponseKeys PROVE IsPath(q)
  <2>1. \A j \in 1 .. n + 1 : j = 1 \/ j \in 2 .. n + 1
    BY <1>1
  <2>2. \A j \in 1 .. n + 1 : q[j][1] \notin ResponseKeys
    BY <1>4, <1>6, <1>7, <2>1
  <2> QED BY <1>1, <1>4, <1>5, <2>2 DEF IsPath
<1> QED BY <1>4, <1>5, <1>6, <1>7 DEF q, n

LEMMA PathsUnder ==
  ASSUME NEW s, NEW result, HavePaths(result), NEW p \in Under(s, result.errors)
  PROVE  p[1] = s /\ (s[1] \notin ResponseKeys => IsPath(p))
<1>1. PICK path \in result.errors : p = <<s>> \o path
  BY DEF Under
<1>2. IsPath(path)
  BY DEF HavePaths
<1> QED BY <1>1, <1>2, LongerPath

LEMMA PathsOfObject ==
  ASSUME NEW fields, NEW required,
         \A f \in DOMAIN fields : f \notin ResponseKeys /\ HavePaths(fields[f])
  PROVE  HavePaths(Object(fields, required))
<1>1. \A f \in DOMAIN fields : \A p \in Under(Key(f), fields[f].errors) : IsPath(p)
  <2>1. \A f : Key(f)[1] = f
    BY DEF Key
  <2> QED BY <2>1, PathsUnder
<1> QED BY <1>1 DEF HavePaths, Object

LEMMA PathsOfList ==
  ASSUME NEW results, \A i \in DOMAIN results : HavePaths(results[i])
  PROVE  HavePaths(List(results))
<1>1. \A i \in DOMAIN results : \A p \in Under(Index(i), results[i].errors) : IsPath(p)
  <2>1. \A i : Index(i)[1] \notin ResponseKeys
    BY DEF Index, ResponseKeys
  <2> QED BY <2>1, PathsUnder
<1> QED BY <1>1 DEF HavePaths, List, ElementErrors

\* What a valid query selects.
InSchema(sel) == \A type \in DOMAIN Schema : sel[type] \subseteq Schema[type]

LEMMA Selected ==
  ASSUME NEW sel, InSchema(sel)
  PROVE  /\ sel.Group \subseteq {"name"}
         /\ sel.LiverGroupEdge \subseteq {"node", "cursor"}
         /\ sel.LiverGroupConnetion \subseteq {"edges", "pageInfo"}
         /\ sel.Liver \subseteq {"name", "debuted_on", "retired_on", "status", "enrollmentDays", "groups"}
         /\ sel.PageInfo \subseteq {"hasPreviousPage", "hasNextPage", "startCursor", "endCursor"}
         /\ sel.LiverEdge \subseteq {"node", "cursor"}
         /\ sel.LiverConnection \subseteq {"edges", "pageInfo"}
         /\ \A type \in DOMAIN Schema : \A f \in sel[type] : f \notin ResponseKeys /\ f # "element"
<1>1. \A type \in DOMAIN Schema : \A f \in Schema[type] : f \notin ResponseKeys /\ f # "element"
  BY DEF Schema, ResponseKeys
<1>2. \A type \in DOMAIN Schema : \A f \in sel[type] : f \notin ResponseKeys /\ f # "element"
  BY <1>1 DEF InSchema
<1> QED BY <1>2 DEF InSchema, Schema

LEMMA SelectedByQuery ==
  ASSUME op \in Plans, NEW a \in Queries
  PROVE  InSchema(Of(a).sel)
<1>1. Valid(Of(a)) /\ Of(a).type = "query"
  BY OperationsAssumption DEF Of, Queries, Attempts
<1> QED BY <1>1 DEF Valid, InSchema

LEMMA PathsOfValues ==
  /\ \A v : HavePaths(Completed(v))
  /\ HavePaths(NullWith(Here)) /\ HavePaths(NullWith({}))
  /\ \A outcome, completed : HavePaths(completed) =>
       HavePaths(NonNull(outcome, completed)) /\ HavePaths(OrNull(outcome, completed))
<1>1. IsPath(<<>>)
  BY DEF IsPath
<1>2. (\A v : HavePaths(Completed(v))) /\ HavePaths(NullWith(Here)) /\ HavePaths(NullWith({}))
  BY <1>1 DEF HavePaths, Completed, NullWith, Here
<1> QED BY <1>2 DEF NonNull, OrNull

LEMMA PathsOfPageInfo ==
  ASSUME NEW info, NEW sel, InSchema(sel)
  PROVE  HavePaths(PageInfo(info, sel))
<1>1. \A f : HavePaths(IF f \in {"hasPreviousPage", "hasNextPage"} THEN PageInfoFlag(info, f)
                       ELSE PageInfoCursor(info, f))
  BY PathsOfValues DEF PageInfoFlag, PageInfoCursor
<1>2. \A f \in sel.PageInfo : f \notin ResponseKeys
  BY Selected DEF ResponseKeys
<1> QED BY <1>1, <1>2, PathsOfObject DEF PageInfo

LEMMA PathsOfGroups ==
  ASSUME NEW sel, InSchema(sel), NEW conn
  PROVE  HavePaths(LiverGroupConnetion(conn, sel))
<1>1. ASSUME NEW group PROVE HavePaths(Group(group, sel))
  <2>1. \A f \in sel.Group : f \notin ResponseKeys
    BY Selected DEF ResponseKeys
  <2> QED BY <2>1, PathsOfValues, PathsOfObject DEF Group, GroupName
<1>2. ASSUME NEW edge PROVE HavePaths(LiverGroupEdge(edge, sel))
  <2>1. \A f : HavePaths(LiverGroupEdgeField(edge, f, sel))
    BY <1>1, PathsOfValues DEF LiverGroupEdgeField
  <2>2. \A f \in sel.LiverGroupEdge : f \notin ResponseKeys
    BY Selected DEF ResponseKeys
  <2> QED BY <2>1, <2>2, PathsOfObject DEF LiverGroupEdge
<1>3. \A edges : HavePaths(LiverGroupEdges(edges, sel))
  BY <1>2, PathsOfList DEF LiverGroupEdges
<1>4. \A f : HavePaths(LiverGroupConnetionField(conn, f, sel))
  BY <1>3, PathsOfValues, PathsOfPageInfo DEF LiverGroupConnetionField
<1>5. \A f \in sel.LiverGroupConnetion : f \notin ResponseKeys
  BY Selected DEF ResponseKeys
<1> QED BY <1>4, <1>5, PathsOfObject DEF LiverGroupConnetion

LEMMA PathsOfLiver ==
  ASSUME NEW sel, InSchema(sel), NEW liver, NEW zero
  PROVE  HavePaths(Liver(liver, sel, zero))
<1>1. \A f : HavePaths(LiverScalar(liver, f, zero))
  BY PathsOfValues DEF LiverScalar, MarshalNTime, MarshalOTime
<1>2. \A f : HavePaths(LiverComputed(liver, f))
  BY PathsOfValues DEF LiverComputed
<1>3. HavePaths(LiverGroups(liver, sel))
  BY PathsOfValues, PathsOfGroups DEF LiverGroups
<1>4. \A f : HavePaths(CASE f = "groups" -> LiverGroups(liver, sel)
                         [] f \in {"status", "enrollmentDays"} -> LiverComputed(liver, f)
                         [] OTHER -> LiverScalar(liver, f, zero))
  BY <1>1, <1>2, <1>3
<1>5. \A f \in sel.Liver : f \notin ResponseKeys
  BY Selected DEF ResponseKeys
<1> QED BY <1>4, <1>5, PathsOfObject DEF Liver

LEMMA PathsOfRoots ==
  ASSUME NEW sel, InSchema(sel), NEW outcome, NEW zero
  PROVE  /\ HavePaths(QueryLiver(outcome, sel, zero))
         /\ HavePaths(QueryLivers(outcome, sel, zero))
<1>1. ASSUME NEW edge PROVE HavePaths(LiverEdge(edge, sel, zero))
  <2>1. \A f : HavePaths(LiverEdgeField(edge, f, sel, zero))
    BY PathsOfLiver, PathsOfValues DEF LiverEdgeField
  <2>2. \A f \in sel.LiverEdge : f \notin ResponseKeys
    BY Selected DEF ResponseKeys
  <2> QED BY <2>1, <2>2, PathsOfObject DEF LiverEdge
<1>2. \A edges : HavePaths(LiverEdges(edges, sel, zero))
  BY <1>1, PathsOfList DEF LiverEdges
<1>3. \A conn, f : HavePaths(LiverConnectionField(conn, f, sel, zero))
  BY <1>2, PathsOfValues, PathsOfPageInfo DEF LiverConnectionField
<1>4. \A conn : HavePaths(LiverConnection(conn, sel, zero))
  <2>1. \A f \in sel.LiverConnection : f \notin ResponseKeys
    BY Selected DEF ResponseKeys
  <2> QED BY <1>3, <2>1, PathsOfObject DEF LiverConnection
<1> QED BY <1>4, PathsOfLiver, PathsOfValues DEF QueryLiver, QueryLivers

RootResult(a, i) ==
  IF Of(a).fields[i].field = "liver" THEN QueryLiver(RootOutcome(a, i), Of(a).sel, ZeroTime)
  ELSE QueryLivers(RootOutcome(a, i), Of(a).sel, ZeroTime)

\* What a response holds under a key is the result of that root field.
LEMMA RootOfQuery ==
  ASSUME op \in Plans, NEW a \in Queries, NEW i \in DOMAIN Of(a).fields
  PROVE  /\ Child(Exec(a).data, Key(KeyOf(i))) \subseteq RootResult(a, i).data
         /\ RootResult(a, i).errors = {} => <<Key(KeyOf(i))>> \notin Exec(a).errors
         /\ <<>> \in RootResult(a, i).errors => <<Key(KeyOf(i))>> \in Exec(a).errors
         /\ (Of(a).fields[i].field = "livers" /\ RootResult(a, i).data = {}) => Exec(a).data = {}
<1> DEFINE outcomes == [k \in Roots(a) |-> RootOutcome(a, IndexOf(a, k))]
           kinds == [k \in Roots(a) |-> Of(a).fields[IndexOf(a, k)].field]
           results == [k \in DOMAIN outcomes |->
                         IF kinds[k] = "liver" THEN QueryLiver(outcomes[k], Of(a).sel, ZeroTime)
                         ELSE QueryLivers(outcomes[k], Of(a).sel, ZeroTime)]
           required == {k \in DOMAIN outcomes : kinds[k] = "livers"}
           key == KeyOf(i)
<1>1. a \in Attempts /\ Of(a).type = "query" /\ Of(a).type # "mutation"
  BY DEF Queries
<1>2. Exec(a) = Object(results, required)
  BY <1>1 DEF Exec, Query
<1>3. key \in Roots(a) /\ IndexOf(a, key) = i /\ key \in ResponseKeys
  BY <1>1, KeyOfField
<1>4. results[key] = RootResult(a, i) /\ DOMAIN results = Roots(a)
  BY <1>3 DEF RootResult
<1>5. Of(a).fields[i].field = "livers" => key \in required
  BY <1>3
<1>6. \A k \in DOMAIN results : HavePaths(results[k])
  BY PathsOfRoots, SelectedByQuery
<1> HIDE DEF outcomes, kinds, results, required, key
<1>7. /\ Exec(a).data = {} \/ Exec(a).data = {[k \in Roots(a) |-> results[k].data]}
      /\ key \in required /\ results[key].data = {} => Exec(a).data = {}
      /\ Exec(a).errors = UNION {Under(Key(k), results[k].errors) : k \in Roots(a)}
  BY <1>2, <1>3, <1>4 DEF Object
<1>8. Child(Exec(a).data, Key(key)) \subseteq results[key].data
  <2>1. Key(key)[1] = key /\ key # "element"
    BY <1>3 DEF Key, ResponseKeys
  <2>2. CASE Exec(a).data = {}
    BY <2>2 DEF Child
  <2>3. CASE Exec(a).data = {[k \in Roots(a) |-> results[k].data]}
    <3> DEFINE v == [k \in Roots(a) |-> results[k].data]
    <3>1. v[key] = results[key].data /\ key \in DOMAIN v
      BY <1>3
    <3> HIDE DEF v
    <3>2. (CHOOSE x \in {v} : TRUE) = v
      OBVIOUS
    <3>3. Child({v}, Key(key)) = v[key]
      BY <2>1, <3>1, <3>2 DEF Child
    <3> QED BY <2>3, <3>1, <3>3 DEF v
  <2> QED BY <1>7, <2>2, <2>3
<1>9. ASSUME results[key].errors = {} PROVE <<Key(key)>> \notin Exec(a).errors
  <2>1. ASSUME <<Key(key)>> \in Exec(a).errors PROVE FALSE
    <3>1. PICK k \in Roots(a) : <<Key(key)>> \in Under(Key(k), results[k].errors)
      BY <1>7, <2>1
    <3>2. HavePaths(results[k])
      BY <1>4, <1>6
    <3> DEFINE p == <<Key(key)>>
    <3>3. p[1] = Key(key)
      OBVIOUS
    <3> HIDE DEF p
    <3>4. p[1] = Key(k)
      BY <3>1, <3>2, PathsUnder DEF p
    <3>5. k = key
      BY <3>3, <3>4 DEF Key
    <3> QED BY <1>9, <3>1, <3>5 DEF Under
  <2> QED BY <2>1
<1>10. ASSUME <<>> \in results[key].errors PROVE <<Key(key)>> \in Exec(a).errors
  <2>1. <<Key(key)>> \o <<>> = <<Key(key)>>
    OBVIOUS
  <2>2. <<Key(key)>> \in Under(Key(key), results[key].errors)
    BY <1>10, <2>1 DEF Under
  <2> QED BY <1>3, <1>7, <2>2
<1> QED BY <1>4, <1>5, <1>7, <1>8, <1>9, <1>10 DEF key

\* Below a key: the value of a field of an object, or of an element of a list, is
\* its result.
LEMMA ChildOfObject ==
  ASSUME NEW fields, NEW required, NEW f, f # "element"
  PROVE  LET object == Object(fields, required).data
             child == Child(object, Key(f))
         IN  /\ child \subseteq IF f \in DOMAIN fields THEN fields[f].data ELSE {}
             /\ object # {} => child = IF f \in DOMAIN fields THEN fields[f].data ELSE {}
             /\ object # {} /\ f \in DOMAIN fields /\ f \in required => child # {}
<1> DEFINE v == [g \in DOMAIN fields |-> fields[g].data]
           object == Object(fields, required).data
<1>1. /\ object = {} \/ object = {v}
      /\ f \in DOMAIN fields /\ f \in required /\ fields[f].data = {} => object = {}
  BY DEF Object
<1>2. DOMAIN v = DOMAIN fields /\ (f \in DOMAIN fields => v[f] = fields[f].data)
  OBVIOUS
<1> HIDE DEF v, object
<1>3. Key(f)[1] = f /\ (CHOOSE x \in {v} : TRUE) = v
  BY DEF Key
<1>4. Child({}, Key(f)) = {} /\ Child({v}, Key(f)) = IF f \in DOMAIN v THEN v[f] ELSE {}
  BY <1>3 DEF Child
<1> QED BY <1>1, <1>2, <1>4 DEF object

LEMMA ChildOfList ==
  ASSUME NEW results, NEW n \in DOMAIN results
  PROVE  LET list == List(results).data
             child == Child(list, Index(n))
         IN  child \subseteq results[n].data /\ (list # {} => child = results[n].data)
<1> DEFINE v == [i \in DOMAIN results |-> results[i].data]
           list == List(results).data
<1>1. list = {} \/ list = {v}
  BY DEF List
<1>2. n \in DOMAIN v /\ v[n] = results[n].data
  OBVIOUS
<1> HIDE DEF v, list
<1>3. Index(n)[1] = "element" /\ Index(n)[2] = n /\ (CHOOSE x \in {v} : TRUE) = v
  BY DEF Index
<1>4. Child({}, Index(n)) = {} /\ Child({v}, Index(n)) = v[n]
  BY <1>2, <1>3 DEF Child
<1> QED BY <1>1, <1>2, <1>4 DEF list

LEMMA ChildOfPart ==
  ASSUME NEW part, NEW whole, part \subseteq whole, NEW step,
         NEW v, whole = {} \/ whole = {v}
  PROVE  Child(part, step) \subseteq Child(whole, step)
<1>1. part = {} \/ part = whole
  OBVIOUS
<1> QED BY <1>1 DEF Child

\* A liver of a response is the completion of one that its resolver found.
LEMMA LiverOfResponse ==
  ASSUME op \in Plans, NEW a \in Queries, NEW i \in DOMAIN Of(a).fields,
         <<i>> \in DOMAIN resolved[a],
         NEW liver \in ResponseLivers(a, i)
  PROVE  \E n \in DOMAIN Found(a, i) : liver \in Liver(LiverOf(a, i, n), Of(a).sel, ZeroTime).data
<1> DEFINE sel == Of(a).sel
           root == RootResult(a, i)
           answer == Child(Exec(a).data, Key(KeyOf(i)))
<1>1. answer \subseteq root.data
  BY RootOfQuery
<1>2. Of(a).type # "mutation"
  BY DEF Queries
<1>3. CASE resolved[a][<<i>>].error
  <2>1. RootOutcome(a, i).error
    BY <1>3 DEF RootOutcome
  <2>2. root.data = {}
    BY <2>1 DEF RootResult, QueryLiver, QueryLivers, OrNull, NonNull, NullWith
  <2>3. answer = {}
    BY <1>1, <2>2
  <2> HIDE DEF answer, root
  <2>4. \A step : Child({}, step) = {}
    BY DEF Child
  <2>5. ResponseLivers(a, i) = {}
    BY <2>3, <2>4 DEF ResponseLivers, NodeOf, answer
  <2> QED BY <2>5
<1>4. CASE ~resolved[a][<<i>>].error /\ Of(a).fields[i].field = "liver"
  <2>1. RootOutcome(a, i) = Returned(LiverOf(a, i, 1))
    BY <1>2, <1>4 DEF RootOutcome
  <2>2. The(RootOutcome(a, i)) = LiverOf(a, i, 1)
    BY <2>1 DEF The, Returned
  <2>3. root.data \subseteq Liver(LiverOf(a, i, 1), sel, ZeroTime).data
    BY <1>4, <2>2 DEF RootResult, QueryLiver, OrNull, NullWith
  <2>4. ResponseLivers(a, i) = answer
    BY <1>4 DEF ResponseLivers
  <2>5. 1 \in DOMAIN Found(a, i)
    BY <1>2, <1>4 DEF Found
  <2> HIDE DEF answer, root
  <2> QED BY <1>1, <2>3, <2>4, <2>5
<1>5. CASE ~resolved[a][<<i>>].error /\ Of(a).fields[i].field # "liver"
  <2> DEFINE conn == ConnectionOf(a, i)
             fields == [f \in sel.LiverConnection |-> LiverConnectionField(conn, f, sel, ZeroTime)]
             edges == The(conn["edges"])
             elements == [n \in DOMAIN edges |-> LiverEdge(edges[n], sel, ZeroTime)]
             Node(n) == NodeOf(answer, n)
  <2>1. The(RootOutcome(a, i)) = conn
    BY <1>2, <1>5 DEF RootOutcome, The, Returned
  <2>2. root.data \subseteq LiverConnection(conn, sel, ZeroTime).data
    BY <1>5, <2>1 DEF RootResult, QueryLivers, NonNull, NullWith
  <2>3. PICK n \in DOMAIN Found(a, i) : liver \in Node(n)
    BY <1>5 DEF ResponseLivers
  <2>5. /\ edges = [m \in DOMAIN Found(a, i) |->
                     [node |-> Returned(LiverOf(a, i, m)),
                      cursor |-> Returned(MarshalText(LiverEdgeCursor(Found(a, i)[m].id)))]]
        /\ conn["edges"] = Returned(edges)
    BY DEF ConnectionOf, The, Returned
  <2>6. DOMAIN elements = DOMAIN Found(a, i) /\ n \in DOMAIN elements
        /\ elements[n] = LiverEdge(edges[n], sel, ZeroTime)
        /\ edges[n].node = Returned(LiverOf(a, i, n))
    BY <2>5
  <2>7. LiverConnection(conn, sel, ZeroTime) = Object(fields, {"edges", "pageInfo"})
    BY DEF LiverConnection
  <2>8. DOMAIN fields = sel.LiverConnection
    OBVIOUS
  <2>9. "edges" \in DOMAIN fields => fields["edges"].data \subseteq List(elements).data
    BY <2>8 DEF LiverConnectionField, LiverEdges, NonNull, NullWith
  <2> DEFINE edgeFields == [f \in sel.LiverEdge |-> LiverEdgeField(edges[n], f, sel, ZeroTime)]
  <2>10. elements[n] = Object(edgeFields, {"node", "cursor"})
    BY <2>6 DEF LiverEdge
  <2>11. "node" \in DOMAIN edgeFields =>
           edgeFields["node"].data \subseteq Liver(LiverOf(a, i, n), sel, ZeroTime).data
    <3>1. The(edges[n].node) = LiverOf(a, i, n)
      BY <2>6 DEF The, Returned
    <3> QED BY <3>1 DEF LiverEdgeField, NonNull, NullWith
  <2>12. \A required, all : \E v : Object(all, required).data = {} \/ Object(all, required).data = {v}
    BY DEF Object
  <2>13. \E v : List(elements).data = {} \/ List(elements).data = {v}
    BY DEF List
  <2> HIDE DEF conn, fields, edges, elements, edgeFields, answer, root
  <2>14. Child(answer, Key("edges")) \subseteq List(elements).data
    <3> DEFINE whole == Object(fields, {"edges", "pageInfo"}).data
    <3>1. answer \subseteq whole
      BY <1>1, <2>2, <2>7
    <3>2. PICK v : whole = {} \/ whole = {v}
      BY <2>12
    <3> HIDE DEF whole
    <3>3. Child(answer, Key("edges")) \subseteq Child(whole, Key("edges"))
      BY <3>1, <3>2, ChildOfPart
    <3>4. Child(whole, Key("edges")) \subseteq IF "edges" \in DOMAIN fields THEN fields["edges"].data ELSE {}
      BY ChildOfObject DEF whole
    <3> QED BY <2>9, <3>3, <3>4
  <2>15. Child(Child(answer, Key("edges")), Index(n)) \subseteq elements[n].data
    <3>1. PICK v : List(elements).data = {} \/ List(elements).data = {v}
      BY <2>13
    <3>2. Child(Child(answer, Key("edges")), Index(n)) \subseteq Child(List(elements).data, Index(n))
      BY <2>14, <3>1, ChildOfPart
    <3>3. Child(List(elements).data, Index(n)) \subseteq elements[n].data
      BY <2>6, ChildOfList
    <3> QED BY <3>2, <3>3
  <2>16. Node(n) \subseteq Liver(LiverOf(a, i, n), sel, ZeroTime).data
    <3> DEFINE whole == Object(edgeFields, {"node", "cursor"}).data
               part == Child(Child(answer, Key("edges")), Index(n))
    <3>1. part \subseteq whole
      BY <2>10, <2>15
    <3>2. PICK v : whole = {} \/ whole = {v}
      BY <2>12
    <3> HIDE DEF whole, part
    <3>3. Child(part, Key("node")) \subseteq Child(whole, Key("node"))
      BY <3>1, <3>2, ChildOfPart
    <3>4. Child(whole, Key("node")) \subseteq
            IF "node" \in DOMAIN edgeFields THEN edgeFields["node"].data ELSE {}
      BY ChildOfObject DEF whole
    <3> QED BY <2>11, <3>3, <3>4 DEF part, NodeOf
  <2> QED BY <2>3, <2>16
<1> QED BY <1>3, <1>4, <1>5

\* What such a liver says of itself.
LEMMA LiverCompleted ==
  ASSUME NEW a, NEW i, NEW n, NEW liver \in Liver(LiverOf(a, i, n), Of(a).sel, ZeroTime).data
  PROVE  /\ DOMAIN liver = Of(a).sel.Liver
         /\ "name" \in DOMAIN liver => liver["name"] = {Found(a, i)[n].name}
         /\ \A f \in {"status", "enrollmentDays"} \cap DOMAIN liver : \A v :
              resolved[a][<<i, n, f>>] = Returned(v) => liver[f] = {v}
<1> DEFINE sel == Of(a).sel
           from == LiverOf(a, i, n)
           fields == [f \in sel.Liver |->
                        CASE f = "groups" -> LiverGroups(from, sel)
                          [] f \in {"status", "enrollmentDays"} -> LiverComputed(from, f)
                          [] OTHER -> LiverScalar(from, f, ZeroTime)]
<1>1. Liver(from, sel, ZeroTime) = Object(fields, {"name", "debuted_on", "status", "enrollmentDays", "groups"})
  BY DEF Liver
<1>2. DOMAIN fields = sel.Liver
  OBVIOUS
<1>3. "name" \in sel.Liver => fields["name"] = LiverScalar(from, "name", ZeroTime)
  OBVIOUS
<1>4. \A f \in {"status", "enrollmentDays"} : f \in sel.Liver => fields[f] = LiverComputed(from, f)
  OBVIOUS
<1> HIDE DEF fields
<1>5. liver = [f \in sel.Liver |-> fields[f].data]
  BY <1>1, <1>2 DEF Object
<1>6. ASSUME "name" \in sel.Liver PROVE liver["name"] = {Found(a, i)[n].name}
  <2>1. from["name"] = Returned(Found(a, i)[n].name)
    BY <1>6 DEF LiverOf
  <2>2. fields["name"].data = {Found(a, i)[n].name}
    BY <1>3, <1>6, <2>1 DEF LiverScalar, NonNull, Completed, The, Returned
  <2> QED BY <1>5, <1>6, <2>2
<1>7. ASSUME NEW f \in {"status", "enrollmentDays"}, f \in sel.Liver,
             NEW v, resolved[a][<<i, n, f>>] = Returned(v)
      PROVE  liver[f] = {v}
  <2>1. from[f] = Returned(v)
    BY <1>7 DEF LiverOf
  <2>2. fields[f].data = {v}
    BY <1>4, <1>7, <2>1 DEF LiverComputed, NonNull, Completed, The, Returned
  <2> QED BY <1>5, <1>7, <2>2
<1> QED BY <1>5, <1>6, <1>7
-----------------------------------------------------------------------------
(* What the resolvers of a query find.                                       *)

LEMMA ArgumentsRead ==
  ASSUME NEW args, LiversArguments(args)
  PROVE  /\ LiversArgs(args).error <=> Garbled(args)
         /\ ~Garbled(args) => \E arg :
              /\ LiversArgs(args).value = {arg}
              /\ arg.first = {} \/ \E n \in Int : arg.first = {n}
              /\ AskedFor(arg) <=> Sized(args)
<1> DEFINE given == WithDefaults(args)
           first == Coerced(given, "first", UnmarshalOInt(given["first"]))
           after == Coerced(given, "after", UnmarshalOCursor(given["after"]))
           orderBy == Coerced(given, "orderBy", UnmarshalOLiverOrder(given["orderBy"]))
           coerced == [first |-> first, after |-> after, orderBy |-> orderBy]
<1>1. LiversArgs(args) = Together(coerced)
  BY DEF LiversArgs
<1>2. /\ DOMAIN given = DOMAIN args \cup {"first"}
      /\ \A n \in DOMAIN args : given[n] = args[n]
      /\ "first" \notin DOMAIN args => given["first"] = Number(0)
  BY DEF WithDefaults
<1>3. /\ NoCursor # Null /\ NoCursor.kind = "string" /\ NoCursor.decoded = {}
      /\ HugeNumber # Null /\ HugeNumber.kind = "huge"
  BY DEF NoCursor, Null, HugeNumber
<1>4. Erred.error /\ \A v : ~Optional(v).error /\ Optional(v).value = v
                         /\ ~Returned(v).error /\ Returned(v).value = {v}
  BY DEF Erred, Optional, Returned
<1>5. Number(0) # Null /\ Number(0).number = 0 /\ Number(0).kind = "number"
  BY DEF Number, Null
<1> HIDE DEF given
<1>6. /\ first.error <=> "first" \in DOMAIN args /\ args["first"] = HugeNumber
      /\ ~first.error => first.value = IF given["first"] = Null THEN {} ELSE {given["first"].number}
  <2>1. first = UnmarshalOInt(given["first"])
    BY <1>2 DEF Coerced
  <2> HIDE DEF first
  <2>2. CASE given["first"] = Null
    BY <1>2, <1>3, <1>4, <1>5, <2>1, <2>2 DEF UnmarshalOInt
  <2>3. CASE given["first"] = HugeNumber
    <3>1. "first" \in DOMAIN args
      BY <1>2, <1>3, <1>5, <2>3
    <3> QED BY <1>2, <1>3, <1>4, <2>1, <2>3, <3>1 DEF UnmarshalOInt, UnmarshalInt
  <2>4. CASE given["first"] \notin {Null, HugeNumber}
    <3>1. given["first"].kind = "number"
      BY <1>2, <1>5, <2>4 DEF LiversArguments
    <3> QED BY <1>2, <1>4, <2>1, <2>4, <3>1 DEF UnmarshalOInt, UnmarshalInt
  <2> QED BY <2>2, <2>3, <2>4
<1>7. after.error <=> /\ "after" \in DOMAIN args /\ args["after"] # Null
                      /\ args["after"].kind # "string" \/ args["after"] = NoCursor
  <2>1. CASE "after" \notin DOMAIN args
    BY <1>2, <1>4, <2>1 DEF Coerced
  <2>2. CASE "after" \in DOMAIN args
    <3>1. after = UnmarshalOCursor(args["after"])
      BY <1>2, <2>2 DEF Coerced
    <3> HIDE DEF after
    <3>2. CASE args["after"] = Null
      BY <1>3, <1>4, <3>1, <3>2 DEF UnmarshalOCursor
    <3>3. CASE args["after"] = NoCursor
      BY <1>3, <1>4, <2>2, <3>1, <3>3 DEF UnmarshalOCursor, UnmarshalGQL, UnmarshalText
    <3>4. CASE args["after"] \notin {Null, NoCursor} /\ args["after"].kind = "string"
      <4>1. args["after"].decoded # {}
        BY <2>2, <3>4 DEF LiversArguments
      <4> QED BY <1>4, <3>1, <3>4, <4>1 DEF UnmarshalOCursor, UnmarshalGQL, UnmarshalText
    <3>5. CASE args["after"] \notin {Null, NoCursor} /\ args["after"].kind # "string"
      BY <1>4, <2>2, <3>1, <3>5 DEF UnmarshalOCursor, UnmarshalGQL
    <3> QED BY <3>2, <3>3, <3>4, <3>5
  <2> QED BY <2>1, <2>2
<1>8. ~orderBy.error
  BY <1>4 DEF Coerced, UnmarshalOLiverOrder, UnmarshalInputLiverOrder
<1>9. ~first.error =>
        /\ first.value = {} \/ \E n \in Int : first.value = {n}
        /\ Sized(args) <=> first.value # {} /\ given["first"].number > 0
  <2>1. CASE "first" \in DOMAIN args
    <3> HIDE DEF first
    <3>1. ASSUME ~first.error PROVE args["first"] = Null \/ args["first"].number \in Int
      BY <1>6, <2>1, <3>1 DEF LiversArguments
    <3> QED BY <1>2, <1>6, <2>1, <3>1 DEF Sized
  <2>2. CASE "first" \notin DOMAIN args
    <3> HIDE DEF first
    <3> QED BY <1>2, <1>5, <1>6, <2>2 DEF Sized
  <2> QED BY <2>1, <2>2
<1> HIDE DEF first, after, orderBy
<1>10. /\ DOMAIN coerced = {"first", "after", "orderBy"}
       /\ coerced["first"] = first /\ coerced["after"] = after /\ coerced["orderBy"] = orderBy
  OBVIOUS
<1> HIDE DEF coerced
<1>11. (\E name \in DOMAIN coerced : coerced[name].error) <=> Garbled(args)
  BY <1>6, <1>7, <1>8, <1>10 DEF Garbled
<1>12. LiversArgs(args).error <=> Garbled(args)
  BY <1>1, <1>4, <1>11 DEF Together
<1>13. ASSUME ~Garbled(args)
       PROVE  \E arg : /\ LiversArgs(args).value = {arg}
                       /\ arg.first = {} \/ \E n \in Int : arg.first = {n}
                       /\ AskedFor(arg) <=> Sized(args)
  <2> DEFINE arg == [name \in DOMAIN coerced |-> coerced[name].value]
  <2>1. LiversArgs(args).value = {arg}
    BY <1>1, <1>4, <1>11, <1>13 DEF Together
  <2>2. arg.first = first.value
    BY <1>10
  <2> HIDE DEF arg
  <2>0. ~first.error
    BY <1>10, <1>11, <1>13
  <2>3. AskedFor(arg) <=> Sized(args)
    <3>1. first.value # {} => Value(first.value) = given["first"].number
      BY <1>6, <2>0 DEF Value
    <3> QED BY <1>9, <2>0, <2>2, <3>1 DEF AskedFor, Given
  <2> QED BY <1>9, <2>0, <2>1, <2>2, <2>3
<1> QED BY <1>12, <1>13

LEMMA PageOfLivers ==
  ASSUME NEW ids \in SUBSET Int, IsFiniteSet(ids), NEW first, NEW after, NEW orderBy,
         first = {} \/ \E n \in Int : first = {n}
  PROVE  LET page == Livers(ids, first, after, orderBy)
         IN  /\ page = Failure \/ page.edges \in Seq(ids)
             /\ ~(Given(first) /\ Value(first) > 0) => page = Connection(<<>>, FALSE)
<1>1. Given(first) => Value(first) \in Int
  BY DEF Given, Value
<1>2. CASE ~(Given(first) /\ Value(first) > 0)
  <2>1. ~Given(first) \/ Value(first) <= 0
    BY <1>1, <1>2
  <2>2. Livers(ids, first, after, orderBy) = Connection(<<>>, FALSE)
    BY <2>1 DEF Livers
  <2> QED BY <2>2 DEF Connection
<1>3. CASE Given(first) /\ Value(first) > 0
  <2>1. Value(first) \in Nat \ {0} /\ ~(Value(first) <= 0)
    <3>1. \A n \in Int : n > 0 => n \in Nat \ {0} /\ ~(n <= 0)
      OBVIOUS
    <3> QED BY <1>1, <1>3, <3>1
  <2>2. PICK d \in {"", "ASC"} : d = IF Given(orderBy) THEN "" ELSE "ASC"
    OBVIOUS
  <2>3. d # "DESC"
    BY <2>2
  <2>4. After(ids, 0) = ids
    BY DEF After
  <2>5. \/ Livers(ids, first, after, orderBy) = Failure
        \/ Livers(ids, first, after, orderBy) = Limited(OrderedBy(ids, d), Value(first))
    <3>1. Livers(ids, first, after, orderBy) =
            IF Given(after) /\ ~Decodes(Value(after)) THEN Failure
            ELSE GetLivers(ids, Value(first), 0, d)
      BY <1>3, <2>1, <2>2 DEF Livers
    <3> QED BY <2>4, <3>1 DEF GetLivers
  <2>6. Limited(OrderedBy(ids, d), Value(first)).edges \in Seq(ids)
    BY <2>1, <2>3, LimitedPage
  <2> QED BY <1>3, <2>5, <2>6
<1> QED BY <1>2, <1>3

RowsTyped ==
  IsFiniteSet(rows) /\ \A r \in rows : r.id \in 1 .. Cardinality(rows) /\ LiverRow(r)

\* Query.livers is an error, or finds rows of the table; its arguments alone decide
\* on the errors of cursors and the empty pages.
LEMMA LiversFound ==
  ASSUME RowsTyped, NEW a, NEW args, LiversArguments(args), NEW outcome \in ReadLivers(a, args)
  PROVE  /\ outcome = Erred \/ \E conn : outcome = Returned(conn) /\ conn.edges \in Seq(rows)
         /\ Garbled(args) => outcome = Erred
         /\ ~Garbled(args) /\ ~Sized(args) =>
              \E conn : outcome = Returned(conn) /\ conn.edges = <<>>
<1> DEFINE ids == {r.id : r \in rows}
           Page(arg) == Livers(ids, arg.first, arg.after, arg.orderBy)
<1>1. ids \in SUBSET Int /\ IsFiniteSet(ids)
  <2>1. Cardinality(rows) \in Nat
    BY FS_CardinalityType DEF RowsTyped
  <2>2. IsFiniteSet(1 .. Cardinality(rows))
    BY <2>1, FS_Interval
  <2>3. ids \in SUBSET (1 .. Cardinality(rows))
    BY DEF RowsTyped
  <2> HIDE DEF ids
  <2>4. IsFiniteSet(ids)
    BY <2>2, <2>3, FS_Subset
  <2>5. ids \in SUBSET Int
    BY <2>1, <2>3
  <2> QED BY <2>4, <2>5
<1>2. ASSUME NEW id \in ids PROVE RowOf(id) \in rows
  <2>1. \E r \in rows : r.id = id
    OBVIOUS
  <2> HIDE DEF ids
  <2> QED BY <2>1 DEF RowOf
<1>3. CASE Garbled(args)
  <2>1. outcome = Erred
    BY <1>3, ArgumentsRead DEF ReadLivers
  <2> QED BY <1>3, <2>1
<1>4. CASE ~Garbled(args)
  <2>1. PICK arg : /\ LiversArgs(args).value = {arg}
                   /\ arg.first = {} \/ \E n \in Int : arg.first = {n}
                   /\ AskedFor(arg) <=> Sized(args)
    BY <1>4, ArgumentsRead
  <2> DEFINE page == Page(arg)
  <2>2. outcome \in IF page = Failure THEN {Erred} ELSE LiversPage(a, arg, page)
    <3>1. ~LiversArgs(args).error
      BY <1>4, ArgumentsRead
    <3> QED BY <2>1, <3>1 DEF ReadLivers
  <2>3. /\ page = Failure \/ page.edges \in Seq(ids)
        /\ ~AskedFor(arg) => page = Connection(<<>>, FALSE)
    BY <1>1, <2>1, PageOfLivers DEF AskedFor
  <2> HIDE DEF page, ids
  <2> DEFINE conn == [edges |-> [n \in DOMAIN page.edges |-> RowOf(page.edges[n])],
                      hasNext |-> page.hasNext]
  <2>4. ASSUME page.edges \in Seq(ids)
        PROVE  conn.edges \in Seq(rows) /\ (page.edges = <<>> => conn.edges = <<>>)
    <3> DEFINE n == Len(page.edges)
               found == [m \in 1 .. n |-> RowOf(page.edges[m])]
    <3>1. n \in Nat /\ DOMAIN page.edges = 1 .. n /\ \A m \in 1 .. n : page.edges[m] \in ids
      BY <2>4
    <3>2. conn.edges = found
      BY <3>1
    <3>3. \A m \in 1 .. n : RowOf(page.edges[m]) \in rows
      BY <1>2, <3>1
    <3>4. found \in Seq(rows)
      BY <3>1, <3>3
    <3>5. page.edges = <<>> => found = <<>>
      OBVIOUS
    <3> QED BY <3>2, <3>4, <3>5
  <2>5. CASE page = Failure
    <3>1. AskedFor(arg)
      BY <2>3, <2>5 DEF Connection, Failure
    <3> QED BY <1>4, <2>1, <2>2, <2>5, <3>1
  <2>6. CASE page # Failure
    <3>1. page.edges \in Seq(ids) /\ outcome \in LiversPage(a, arg, page)
      BY <2>2, <2>3, <2>6
    <3>2. outcome = Erred \/ outcome = Returned(conn)
      BY <3>1 DEF LiversPage, FromDatabase
    <3>3. ~AskedFor(arg) => outcome = Returned(conn)
      BY <3>1 DEF LiversPage
    <3>4. ~AskedFor(arg) => page.edges = <<>>
      BY <2>3 DEF Connection
    <3> HIDE DEF conn
    <3> QED BY <1>4, <2>1, <2>4, <3>1, <3>2, <3>3, <3>4
  <2> QED BY <2>5, <2>6
<1> QED BY <1>3, <1>4

\* Query.liver is an error, or finds a row of the table.
LEMMA LiverFound ==
  ASSUME NEW a, NEW args, NEW outcome \in ReadLiver(a, args)
  PROVE  outcome = Erred \/ (~outcome.error /\ Value(outcome.value) \in rows)
<1> DEFINE found == Holding(Argument(LiverArgs(args), "name"))
<1>1. found \subseteq rows
  BY DEF Holding
<1>2. outcome = Erred \/ (found # {} /\ outcome = Optional(found))
  BY DEF ReadLiver, FromDatabase
<1> HIDE DEF found
<1>3. found # {} => Value(found) \in found
  BY DEF Value
<1> QED BY <1>1, <1>2, <1>3 DEF Optional
-----------------------------------------------------------------------------
(* The inductive invariant of the queries.                                   *)

ClockFields == {"status", "enrollmentDays"}

\* What a computed field of a liver is, at a moment.
At(liver, f, t) == IF f = "status" THEN Status(liver, t) ELSE EnrollmentDays(liver, t)

TableTyped ==
  /\ mode \in Db!Modes /\ dbUp \in BOOLEAN /\ now \in 0 .. MaxNow
  /\ began \in [Attempts -> 0 .. MaxNow]
  /\ RowsTyped

WithinADay(a, t) == began[a] <= t /\ t - began[a] < TicksPerDay

\* Nothing is resolved before an attempt is sent, and less than a day passes while
\* it runs.
Timely(a) ==
  /\ stage[a] = "unsent" => DOMAIN resolved[a] = {}
  /\ stage[a] = "running" => WithinADay(a, now)

\* A root field finds livers of the table, and its arguments decide on errors.
RootsFound(a) ==
  \A i \in DOMAIN Of(a).fields : <<i>> \in DOMAIN resolved[a] =>
    LET field == Of(a).fields[i]
        outcome == resolved[a][<<i>>]
    IN  /\ \A n \in DOMAIN Found(a, i) : LiverRow(Found(a, i)[n])
        /\ field.field # "liver" =>
             /\ Garbled(field.args) => outcome = Erred
             /\ ~Garbled(field.args) /\ ~Sized(field.args) =>
                  \E conn : outcome = Returned(conn) /\ conn.edges = <<>>

\* The fields of a liver are resolved after it was found ...
LateAfterRoots(a) ==
  \A i, n, f : <<i, n, f>> \in DOMAIN resolved[a] => <<i>> \in DOMAIN resolved[a]

\* ... those computed from the clock at some moment of the attempt, ...
ClocksRead(a) ==
  \A i \in DOMAIN Of(a).fields : \A n \in DOMAIN Found(a, i), f \in ClockFields :
    <<i, n, f>> \in DOMAIN resolved[a] =>
      \E t \in Int : /\ WithinADay(a, t)
                     /\ resolved[a][<<i, n, f>>] = Returned(At(Found(a, i)[n], f, t))

\* ... and all of them before the answer.
AllRead(a) ==
  stage[a] = "ended" => \A i \in DOMAIN Of(a).fields :
    /\ <<i>> \in DOMAIN resolved[a]
    /\ \A n \in DOMAIN Found(a, i), f \in ClockFields \cap Of(a).sel.Liver :
         <<i, n, f>> \in DOMAIN resolved[a]

QueriesInv ==
  /\ TableTyped
  /\ \A a \in Attempts : Timely(a)
  /\ \A a \in Queries : RootsFound(a) /\ LateAfterRoots(a) /\ ClocksRead(a) /\ AllRead(a)

LEMMA InitQueries == Init => QueriesInv
<1> SUFFICES ASSUME Init PROVE QueriesInv
  OBVIOUS
<1>1. RowsTyped
  BY OperationsAssumption DEF Init, Consistent, RowsTyped, LiverRow
<1>2. TableTyped
  BY <1>1, OperationsAssumption DEF Init, TableTyped
<1>3. \A a \in Attempts : DOMAIN resolved[a] = {} /\ stage[a] = "unsent"
  BY DEF Init
<1> QED BY <1>2, <1>3
        DEF QueriesInv, Queries, Timely, RootsFound, LateAfterRoots, ClocksRead, AllRead

\* What an attempt resolved says the same as long as it is the same.
LEMMA SameResolved ==
  ASSUME NEW a, op' = op, resolved'[a] = resolved[a], began'[a] = began[a]
  PROVE  /\ \A i : Found(a, i)' = Found(a, i)
         /\ RootsFound(a)' <=> RootsFound(a)
         /\ LateAfterRoots(a)' <=> LateAfterRoots(a)
         /\ ClocksRead(a)' <=> ClocksRead(a)
<1>1. Of(a)' = Of(a)
  BY DEF Of
<1>2. \A i : Found(a, i)' = Found(a, i)
  BY <1>1 DEF Found
<1>3. RootsFound(a)' <=> RootsFound(a)
  BY <1>1, <1>2 DEF RootsFound
<1>4. LateAfterRoots(a)' <=> LateAfterRoots(a)
  BY DEF LateAfterRoots
<1>5. \A t : WithinADay(a, t)' <=> WithinADay(a, t)
  BY DEF WithinADay
<1>6. ClocksRead(a)' <=> ClocksRead(a)
  BY <1>1, <1>2, <1>5 DEF ClocksRead
<1> QED BY <1>2, <1>3, <1>4, <1>6

\* A running query resolves a field.
LEMMA ResolvingKeepsQueries ==
  ASSUME EffectsInv, QueriesInv, NEW b \in Queries, stage[b] = "running",
         NEW place, NEW outcome, Conclude(b, place, outcome),
         UNCHANGED <<mode, dbUp, rows, now, op, stage, began>>,
         RootsFound(b)', LateAfterRoots(b)', ClocksRead(b)'
  PROVE  QueriesInv'
<1>1. b \in Attempts /\ Queries' = Queries
  BY DEF Queries, Of
<1>2. \A a \in Attempts : a # b => resolved'[a] = resolved[a]
  BY <1>1, Concluded DEF EffectsInv, Typed
<1>3. TableTyped'
  BY DEF QueriesInv, TableTyped, RowsTyped
<1>4. ASSUME NEW a \in Attempts PROVE Timely(a)'
  BY <1>2 DEF QueriesInv, Timely, WithinADay
<1>5. ASSUME NEW a \in Queries
      PROVE  RootsFound(a)' /\ LateAfterRoots(a)' /\ ClocksRead(a)' /\ AllRead(a)'
  <2>1. CASE a = b
    BY <2>1 DEF AllRead
  <2>2. CASE a # b
    <3>1. resolved'[a] = resolved[a] /\ began'[a] = began[a] /\ Of(a)' = Of(a)
      BY <1>2, <2>2 DEF Queries, Of
    <3>2. RootsFound(a) /\ LateAfterRoots(a) /\ ClocksRead(a) /\ AllRead(a)
      BY DEF QueriesInv
    <3>3. AllRead(a)'
      BY <3>1, <3>2, SameResolved DEF AllRead
    <3> QED BY <3>1, <3>2, <3>3, SameResolved
  <2> QED BY <2>1, <2>2
<1> QED BY <1>1, <1>3, <1>4, <1>5 DEF QueriesInv

\* A place of a root field and one of a field of a liver are different, and so are
\* those of two fields.
LEMMA PlacesDiffer ==
  /\ \A i, j, n, f : <<i>> # <<j, n, f>>
  /\ \A i, j : <<i>> = <<j>> => i = j
  /\ \A i, n, f, j, m, g : <<i, n, f>> = <<j, m, g>> => i = j /\ n = m /\ f = g
<1>1. \A i, j, n, f : Len(<<i>>) = 1 /\ Len(<<j, n, f>>) = 3
  OBVIOUS
<1>2. \A i, j, n, f : <<i>> # <<j, n, f>>
  BY <1>1
<1> QED BY <1>2

\* What a root field of a valid query finds.
LEMMA RootFinds ==
  ASSUME RowsTyped, NEW a, NEW field,
         field.field # "liver" => LiversArguments(field.args),
         NEW outcome \in IF field.field = "liver" THEN ReadLiver(a, field.args)
                         ELSE ReadLivers(a, field.args)
  PROVE  /\ ~outcome.error =>
              LET v == Value(outcome.value)
                  found == IF field.field = "liver" THEN <<v>> ELSE v.edges
              IN  \A n \in DOMAIN found : LiverRow(found[n])
         /\ field.field # "liver" =>
              /\ Garbled(field.args) => outcome = Erred
              /\ ~Garbled(field.args) /\ ~Sized(field.args) =>
                   \E conn : outcome = Returned(conn) /\ conn.edges = <<>>
<1> DEFINE v == Value(outcome.value)
<1>1. Erred.error
  BY DEF Erred
<1>2. CASE field.field = "liver"
  <2>1. outcome = Erred \/ (~outcome.error /\ v \in rows)
    BY <1>2, LiverFound
  <2> HIDE DEF v
  <2>2. ~outcome.error => LiverRow(v)
    BY <1>1, <2>1 DEF RowsTyped
  <2>3. \A n \in DOMAIN <<v>> : <<v>>[n] = v
    OBVIOUS
  <2> QED BY <1>2, <2>2, <2>3 DEF v
<1>3. CASE field.field # "liver"
  <2>1. LiversArguments(field.args) /\ outcome \in ReadLivers(a, field.args)
    BY <1>3
  <2>2. /\ outcome = Erred \/ \E conn : outcome = Returned(conn) /\ conn.edges \in Seq(rows)
        /\ Garbled(field.args) => outcome = Erred
        /\ ~Garbled(field.args) /\ ~Sized(field.args) =>
             \E conn : outcome = Returned(conn) /\ conn.edges = <<>>
    BY <2>1, LiversFound
  <2>3. ASSUME NEW conn, outcome = Returned(conn), conn.edges \in Seq(rows)
        PROVE  \A n \in DOMAIN v.edges : LiverRow(v.edges[n])
    <3>1. v = conn
      BY <2>3 DEF Value, Returned
    <3> HIDE DEF v
    <3>2. \A n \in DOMAIN conn.edges : conn.edges[n] \in rows
      BY <2>3
    <3> QED BY <3>1, <3>2 DEF RowsTyped
  <2> QED BY <1>1, <1>3, <2>2, <2>3
<1> QED BY <1>2, <1>3

LEMMA RootKeepsQueries ==
  ASSUME EffectsInv, QueriesInv, NEW b \in Attempts, NEW i, ResolveRoot(b, i)
  PROVE  QueriesInv'
<1> DEFINE field == Of(b).fields[i]
<1>1. /\ b \in Queries /\ stage[b] = "running" /\ i \in DOMAIN Of(b).fields
      /\ <<i>> \notin DOMAIN resolved[b] /\ op \in Plans
      /\ UNCHANGED <<mode, dbUp, rows, now, op, stage, began>>
  BY DEF ResolveRoot, Running, Queries, EffectsInv, Typed
<1>2. PICK outcome \in IF field.field = "liver" THEN ReadLiver(b, field.args)
                       ELSE ReadLivers(b, field.args) : Conclude(b, <<i>>, outcome)
  BY DEF ResolveRoot
<1>3. /\ DOMAIN resolved'[b] = DOMAIN resolved[b] \cup {<<i>>}
      /\ resolved'[b][<<i>>] = outcome
      /\ \A p \in DOMAIN resolved[b] : p # <<i>> => resolved'[b][p] = resolved[b][p]
  BY <1>2, Concluded DEF EffectsInv, Typed
<1>4. RowsTyped /\ RootsFound(b) /\ LateAfterRoots(b) /\ ClocksRead(b)
  BY <1>1 DEF QueriesInv, TableTyped
<1>5. Of(b)' = Of(b) /\ Of(b).type = "query" /\ Of(b).type # "mutation"
  BY <1>1 DEF Of, Queries
<1>6. field.field # "liver" => LiversArguments(field.args)
  BY <1>1, <1>5, OperationsAssumption DEF Valid, Of, Attempts
<1>7. Found(b, i)' = IF outcome.error THEN <<>>
                     ELSE LET v == Value(outcome.value)
                          IN  IF field.field = "liver" THEN <<v>> ELSE v.edges
  BY <1>3, <1>5 DEF Found
<1>8. ASSUME NEW j, j # i
      PROVE  /\ <<j>> \in DOMAIN resolved'[b] <=> <<j>> \in DOMAIN resolved[b]
             /\ <<j>> \in DOMAIN resolved[b] => resolved'[b][<<j>>] = resolved[b][<<j>>]
             /\ Found(b, j)' = Found(b, j)
  <2>1. <<j>> # <<i>>
    BY <1>8, PlacesDiffer
  <2> QED BY <1>3, <1>5, <2>1 DEF Found
<1>9. RootsFound(b)'
  <2> SUFFICES ASSUME NEW j \in DOMAIN Of(b).fields, <<j>> \in DOMAIN resolved'[b]
               PROVE  /\ \A n \in DOMAIN Found(b, j)' : LiverRow(Found(b, j)'[n])
                      /\ Of(b).fields[j].field # "liver" =>
                           LET args == Of(b).fields[j].args
                           IN  /\ Garbled(args) => resolved'[b][<<j>>] = Erred
                               /\ ~Garbled(args) /\ ~Sized(args) =>
                                    \E conn : resolved'[b][<<j>>] = Returned(conn) /\ conn.edges = <<>>
    BY <1>5 DEF RootsFound
  <2>1. CASE j = i
    <3>1. \A n \in DOMAIN Found(b, i)' : LiverRow(Found(b, i)'[n])
      <4> DEFINE v == Value(outcome.value)
                 found == IF field.field = "liver" THEN <<v>> ELSE v.edges
      <4>1. ~outcome.error => \A n \in DOMAIN found : LiverRow(found[n])
        BY <1>2, <1>4, <1>6, RootFinds
      <4>2. Found(b, i)' = IF outcome.error THEN <<>> ELSE found
        BY <1>7
      <4> HIDE DEF found
      <4>3. DOMAIN <<>> = {}
        OBVIOUS
      <4> QED BY <4>1, <4>2, <4>3
    <3>2. field.field # "liver" =>
            /\ Garbled(field.args) => outcome = Erred
            /\ ~Garbled(field.args) /\ ~Sized(field.args) =>
                 \E conn : outcome = Returned(conn) /\ conn.edges = <<>>
      BY <1>2, <1>4, <1>6, RootFinds
    <3> QED BY <1>3, <2>1, <3>1, <3>2
  <2>2. CASE j # i
    BY <1>4, <1>8, <2>2 DEF RootsFound
  <2> QED BY <2>1, <2>2
<1>10. \A j, n, f : <<j, n, f>> \in DOMAIN resolved'[b] =>
         <<j, n, f>> \in DOMAIN resolved[b] /\ resolved'[b][<<j, n, f>>] = resolved[b][<<j, n, f>>]
  BY <1>3, PlacesDiffer
<1>11. LateAfterRoots(b)'
  BY <1>3, <1>4, <1>10 DEF LateAfterRoots
<1>12. ClocksRead(b)'
  <2> SUFFICES ASSUME NEW j \in DOMAIN Of(b).fields, NEW n \in DOMAIN Found(b, j)',
                      NEW f \in ClockFields, <<j, n, f>> \in DOMAIN resolved'[b]
               PROVE  \E t \in Int : /\ WithinADay(b, t)'
                                     /\ resolved'[b][<<j, n, f>>] = Returned(At(Found(b, j)'[n], f, t))
    BY <1>5 DEF ClocksRead
  <2>1. j # i /\ <<j, n, f>> \in DOMAIN resolved[b]
    BY <1>1, <1>4, <1>10 DEF LateAfterRoots
  <2>2. \A t : WithinADay(b, t)' <=> WithinADay(b, t)
    BY <1>1 DEF WithinADay
  <2>3. Found(b, j)' = Found(b, j)
    BY <1>8, <2>1
  <2>4. n \in DOMAIN Found(b, j)
    BY <2>3
  <2>5. PICK t \in Int : /\ WithinADay(b, t)
                         /\ resolved[b][<<j, n, f>>] = Returned(At(Found(b, j)[n], f, t))
    BY <1>4, <2>1, <2>4 DEF ClocksRead
  <2>6. resolved'[b][<<j, n, f>>] = resolved[b][<<j, n, f>>]
    BY <1>10
  <2> QED BY <2>2, <2>3, <2>5, <2>6
<1> QED BY <1>1, <1>2, <1>9, <1>11, <1>12, ResolvingKeepsQueries

\* A field of a liver that was found: one that is computed from the clock is
\* computed now.
LEMMA LateKeepsQueries ==
  ASSUME EffectsInv, QueriesInv, NEW b \in Attempts, NEW i, NEW n, NEW f, NEW outcome,
         Unresolved(b, i, n, f), Conclude(b, <<i, n, f>>, outcome),
         f \in ClockFields => outcome = Returned(At(Found(b, i)[n], f, now)),
         UNCHANGED <<mode, dbUp, rows, now, op, stage, began>>
  PROVE  QueriesInv'
<1>1. /\ b \in Queries /\ stage[b] = "running" /\ i \in DOMAIN Of(b).fields
      /\ n \in DOMAIN Found(b, i) /\ <<i, n, f>> \notin DOMAIN resolved[b]
  BY DEF Unresolved, Running, Queries
<1>2. /\ DOMAIN resolved'[b] = DOMAIN resolved[b] \cup {<<i, n, f>>}
      /\ resolved'[b][<<i, n, f>>] = outcome
      /\ \A p \in DOMAIN resolved[b] : p # <<i, n, f>> => resolved'[b][p] = resolved[b][p]
  BY Concluded DEF EffectsInv, Typed
<1>3. RootsFound(b) /\ LateAfterRoots(b) /\ ClocksRead(b) /\ Timely(b) /\ now \in 0 .. MaxNow
  BY <1>1 DEF QueriesInv, TableTyped
<1>4. Of(b)' = Of(b)
  BY DEF Of
<1>5. ASSUME NEW j
      PROVE  /\ <<j>> \in DOMAIN resolved'[b] <=> <<j>> \in DOMAIN resolved[b]
             /\ <<j>> \in DOMAIN resolved[b] => resolved'[b][<<j>>] = resolved[b][<<j>>]
             /\ Found(b, j)' = Found(b, j)
  <2>1. <<j>> # <<i, n, f>>
    BY PlacesDiffer
  <2> QED BY <1>2, <1>4, <2>1 DEF Found
<1>6. RootsFound(b)'
  BY <1>3, <1>4, <1>5 DEF RootsFound
<1>7. <<i>> \in DOMAIN resolved[b]
  <2>1. DOMAIN <<>> = {}
    OBVIOUS
  <2> QED BY <1>1, <2>1 DEF Found
<1>8. LateAfterRoots(b)'
  <2> SUFFICES ASSUME NEW j, NEW m, NEW g, <<j, m, g>> \in DOMAIN resolved'[b]
               PROVE  <<j>> \in DOMAIN resolved[b]
    BY <1>5 DEF LateAfterRoots
  <2>1. CASE <<j, m, g>> = <<i, n, f>>
    BY <1>7, <2>1, PlacesDiffer
  <2>2. CASE <<j, m, g>> \in DOMAIN resolved[b]
    BY <1>3, <2>2 DEF LateAfterRoots
  <2> QED BY <1>2, <2>1, <2>2
<1>9. ClocksRead(b)'
  <2> SUFFICES ASSUME NEW j \in DOMAIN Of(b).fields, NEW m \in DOMAIN Found(b, j)',
                      NEW g \in ClockFields, <<j, m, g>> \in DOMAIN resolved'[b]
               PROVE  \E t \in Int : /\ WithinADay(b, t)'
                                     /\ resolved'[b][<<j, m, g>>] = Returned(At(Found(b, j)'[m], g, t))
    BY <1>4 DEF ClocksRead
  <2>1. Found(b, j)' = Found(b, j) /\ \A t : WithinADay(b, t)' <=> WithinADay(b, t)
    BY <1>5 DEF WithinADay
  <2>2. CASE <<j, m, g>> = <<i, n, f>>
    <3>1. j = i /\ m = n /\ g = f
      BY <2>2, PlacesDiffer
    <3>2. WithinADay(b, now) /\ now \in Int
      BY <1>1, <1>3 DEF Timely
    <3> QED BY <1>2, <2>1, <3>1, <3>2
  <2>3. CASE <<j, m, g>> # <<i, n, f>>
    <3>1. <<j, m, g>> \in DOMAIN resolved[b] /\ resolved'[b][<<j, m, g>>] = resolved[b][<<j, m, g>>]
      BY <1>2, <2>3
    <3>2. PICK t \in Int : /\ WithinADay(b, t)
                           /\ resolved[b][<<j, m, g>>] = Returned(At(Found(b, j)[m], g, t))
      BY <1>3, <2>1, <3>1 DEF ClocksRead
    <3> QED BY <2>1, <3>1, <3>2
  <2> QED BY <2>2, <2>3
<1> QED BY <1>1, <1>6, <1>8, <1>9, ResolvingKeepsQueries

\* The ways a registration ends.
LEMMA RegistrationKeepsQueries ==
  ASSUME EffectsInv, QueriesInv, NEW b \in Attempts, Registering(b), NEW outcome,
         Conclude(b, Turn(b), outcome), UNCHANGED <<mode, now, op, stage, live, began>>,
         dbUp' \in BOOLEAN, rows' = rows \/ Insert(b)
  PROVE  QueriesInv'
<1>1. Queries' = Queries /\ b \notin Queries /\ stage[b] = "running"
  BY DEF Queries, Of, Registering, Running
<1>2. \A a \in Attempts : a # b => resolved'[a] = resolved[a]
  BY Concluded DEF EffectsInv, Typed
<1>3. RowsTyped'
  <2>1. CASE rows' = rows
    BY <2>1 DEF QueriesInv, TableTyped, RowsTyped
  <2>2. CASE Insert(b)
    <3> DEFINE new == [id |-> Cardinality(rows) + 1, name |-> NameToRegister(b),
                       debutedOn |-> ZeroTime, retiredOn |-> {}, by |-> <<b, Turn(b)>>]
    <3>1. rows' = rows \cup {new} /\ new \notin rows
      BY <2>2, InsertIsNew DEF Insert
    <3>2. NameToRegister(b) \in Names
      <4>1. PICK j \in DOMAIN Of(b).fields : b \in Mutations /\ NameToRegister(b) = NameSent(b, j)
        BY NextInTurn
      <4> QED BY <4>1, FieldsOfMutation DEF EffectsInv, Typed
    <3>3. ZeroTime \in Int
      BY LiverStatusAssumption DEF ZeroTime
    <3>4. new.id = Cardinality(rows) + 1 /\ LiverRow(new)
      BY <3>2, <3>3 DEF LiverRow
    <3> HIDE DEF new
    <3>5. IsFiniteSet(rows) /\ Cardinality(rows) \in Nat
      BY FS_CardinalityType DEF QueriesInv, TableTyped, RowsTyped
    <3>6. IsFiniteSet(rows') /\ Cardinality(rows') = Cardinality(rows) + 1
      BY <3>1, <3>5, FS_AddElement
    <3>7. \A r \in rows : r.id \in 1 .. Cardinality(rows) /\ LiverRow(r)
      BY DEF QueriesInv, TableTyped, RowsTyped
    <3>8. ASSUME NEW r \in rows' PROVE r.id \in 1 .. Cardinality(rows') /\ LiverRow(r)
      <4>1. CASE r \in rows
        BY <3>5, <3>6, <3>7, <4>1
      <4>2. CASE r = new
        BY <3>4, <3>5, <3>6, <4>2
      <4> QED BY <3>1, <4>1, <4>2
    <3>9. \A r : LiverRow(r)' <=> LiverRow(r)
      BY DEF LiverRow
    <3> QED BY <3>6, <3>8, <3>9 DEF RowsTyped
  <2> QED BY <2>1, <2>2
<1>4. TableTyped'
  BY <1>3 DEF QueriesInv, TableTyped
<1>5. ASSUME NEW a \in Attempts PROVE Timely(a)'
  BY <1>1, <1>2 DEF QueriesInv, Timely, WithinADay
<1>6. ASSUME NEW a \in Queries
      PROVE  RootsFound(a)' /\ LateAfterRoots(a)' /\ ClocksRead(a)' /\ AllRead(a)'
  <2>1. resolved'[a] = resolved[a] /\ began'[a] = began[a] /\ Of(a)' = Of(a)
    BY <1>1, <1>2 DEF Queries, Of
  <2>2. RootsFound(a) /\ LateAfterRoots(a) /\ ClocksRead(a) /\ AllRead(a)
    BY DEF QueriesInv
  <2>3. AllRead(a)'
    BY <2>1, <2>2, SameResolved DEF AllRead
  <2> QED BY <2>1, <2>2, <2>3, SameResolved
<1> QED BY <1>1, <1>4, <1>5, <1>6 DEF QueriesInv

\* What leaves the table and the outcomes alone.
LEMMA OthersKeepQueries ==
  ASSUME QueriesInv, UNCHANGED <<mode, rows, op, resolved>>,
         dbUp' \in BOOLEAN, now' \in 0 .. MaxNow, began' \in [Attempts -> 0 .. MaxNow],
         \A a \in Attempts :
           /\ Timely(a)'
           /\ began'[a] = began[a] \/ DOMAIN resolved[a] = {}
           /\ (a \in Queries /\ stage'[a] = "ended" /\ stage[a] # "ended") => AllRead(a)'
  PROVE  QueriesInv'
<1>1. Queries' = Queries /\ \A a : Of(a)' = Of(a)
  BY DEF Queries, Of
<1>2. TableTyped'
  BY DEF QueriesInv, TableTyped, RowsTyped
<1>3. ASSUME NEW a \in Queries
      PROVE  RootsFound(a)' /\ LateAfterRoots(a)' /\ ClocksRead(a)' /\ AllRead(a)'
  <2>1. a \in Attempts /\ RootsFound(a) /\ LateAfterRoots(a) /\ ClocksRead(a) /\ AllRead(a)
    BY DEF QueriesInv, Queries
  <2>2. \A i : Found(a, i)' = Found(a, i)
    BY <1>1 DEF Found
  <2>3. RootsFound(a)' /\ LateAfterRoots(a)'
    BY <1>1, <2>1, <2>2 DEF RootsFound, LateAfterRoots
  <2>4. ClocksRead(a)'
    <3>1. CASE began'[a] = began[a]
      BY <2>1, <3>1, SameResolved
    <3>2. CASE DOMAIN resolved[a] = {}
      BY <3>2 DEF ClocksRead
    <3> QED BY <2>1, <3>1, <3>2
  <2>5. AllRead(a)'
    <3>1. CASE stage'[a] = "ended" /\ stage[a] # "ended"
      BY <2>1, <3>1
    <3>2. CASE ~(stage'[a] = "ended" /\ stage[a] # "ended")
      BY <1>1, <2>1, <2>2, <3>2 DEF AllRead
    <3> QED BY <3>1, <3>2
  <2> QED BY <2>3, <2>4, <2>5
<1> QED BY <1>1, <1>2, <1>3 DEF QueriesInv

LEMMA NextKeepsQueries == EffectsInv /\ QueriesInv /\ [Next]_vars => QueriesInv'
<1> SUFFICES ASSUME EffectsInv, QueriesInv, [Next]_vars PROVE QueriesInv'
  OBVIOUS
<1>1. /\ mode \in Db!Modes /\ dbUp \in BOOLEAN /\ now \in 0 .. MaxNow /\ MaxNow \in Nat
      /\ began \in [Attempts -> 0 .. MaxNow]
      /\ stage \in [Attempts -> {"unsent", "running", "ended"}]
      /\ \A a \in Attempts : Timely(a)
  BY OperationsAssumption DEF QueriesInv, TableTyped, EffectsInv, Typed
<1>2. CASE UNCHANGED vars
  BY <1>1, <1>2, OthersKeepQueries DEF vars, Timely, WithinADay
<1>3. CASE ToggleDb
  BY <1>1, <1>3, OthersKeepQueries DEF ToggleDb, Timely, WithinADay
<1>4. CASE Tick
  <2>1. /\ UNCHANGED <<mode, dbUp, rows, op, stage, live, began, resolved>>
        /\ now < MaxNow /\ now' = now + 1
        /\ \A a \in Attempts : stage[a] = "running" => now + 1 - began[a] < TicksPerDay
    BY <1>4 DEF Tick
  <2>2. now' \in 0 .. MaxNow
    BY <1>1, <2>1
  <2>3. ASSUME NEW a \in Attempts PROVE Timely(a)'
    <3>1. stage[a] = "running" => began[a] <= now + 1
      BY <1>1 DEF Timely, WithinADay
    <3> QED BY <1>1, <2>1, <3>1 DEF Timely, WithinADay
  <2> QED BY <1>1, <2>1, <2>2, <2>3, OthersKeepQueries
<1>5. ASSUME NEW b \in Attempts, Send(b) PROVE QueriesInv'
  <2>1. /\ UNCHANGED <<mode, dbUp, rows, now, op, resolved>> /\ stage[b] = "unsent"
        /\ stage' = [stage EXCEPT ![b] = "running"] /\ began' = [began EXCEPT ![b] = now]
    BY <1>5 DEF Send
  <2>2. began' \in [Attempts -> 0 .. MaxNow] /\ DOMAIN resolved[b] = {}
    BY <1>1, <2>1 DEF Timely
  <2>3. ASSUME NEW a \in Attempts
        PROVE  /\ Timely(a)'
               /\ began'[a] = began[a] \/ DOMAIN resolved[a] = {}
               /\ ~(stage'[a] = "ended" /\ stage[a] # "ended")
    <3>1. CASE a = b
      <4>1. stage'[a] = "running" /\ began'[a] = now /\ now' = now
        BY <1>1, <2>1, <3>1
      <4>2. now <= now /\ now - now < TicksPerDay
        BY <1>1, LiverStatusAssumption
      <4> QED BY <2>2, <3>1, <4>1, <4>2 DEF Timely, WithinADay
    <3>2. CASE a # b
      <4>1. stage'[a] = stage[a] /\ began'[a] = began[a]
        BY <1>1, <2>1, <3>2
      <4> QED BY <1>1, <2>1, <4>1 DEF Timely, WithinADay
    <3> QED BY <3>1, <3>2
  <2> QED BY <1>1, <2>1, <2>2, <2>3, OthersKeepQueries
<1>6. ASSUME NEW b \in Attempts, Cut(b) PROVE QueriesInv'
  <2>1. UNCHANGED <<mode, dbUp, rows, now, op, stage, began, resolved>>
    BY <1>6 DEF Cut
  <2> QED BY <1>1, <2>1, OthersKeepQueries DEF Timely, WithinADay
<1>7. ASSUME NEW b \in Attempts, Respond(b) PROVE QueriesInv'
  <2>1. /\ UNCHANGED <<mode, dbUp, rows, now, op, began, resolved>> /\ stage[b] = "running"
        /\ stage' = [stage EXCEPT ![b] = "ended"] /\ AllResolved(b)
    BY <1>7 DEF Respond
  <2>2. ASSUME NEW a \in Attempts PROVE Timely(a)'
    <3>1. CASE a = b
      BY <1>1, <2>1, <3>1 DEF Timely
    <3>2. CASE a # b
      BY <1>1, <2>1, <3>2 DEF Timely, WithinADay
    <3> QED BY <3>1, <3>2
  <2>3. Of(b)' = Of(b) /\ \A i : Found(b, i)' = Found(b, i)
    BY <2>1 DEF Of, Found
  <2>4. ASSUME NEW a \in Queries, stage'[a] = "ended", stage[a] # "ended"
        PROVE  AllRead(a)'
    <3>1. a = b
      BY <1>1, <2>1, <2>4 DEF Queries
    <3>2. Of(b).type = "query"
      BY <3>1 DEF Queries
    <3>3. ASSUME NEW i \in DOMAIN Of(b).fields
          PROVE  /\ <<i>> \in DOMAIN resolved[b]
                 /\ \A n \in DOMAIN Found(b, i), f \in ClockFields \cap Of(b).sel.Liver :
                      <<i, n, f>> \in DOMAIN resolved[b]
      BY <2>1, <3>2 DEF AllResolved, Unresolved, Running, ClockFields, LateFields
    <3> QED BY <2>1, <2>3, <3>1, <3>3 DEF AllRead
  <2>5. Queries \subseteq Attempts
    BY DEF Queries
  <2> QED BY <1>1, <2>1, <2>2, <2>4, OthersKeepQueries
<1>8. ASSUME NEW b \in Attempts, RegisterLiver(b) PROVE QueriesInv'
  BY <1>1, <1>8, RegistrationKeepsQueries DEF RegisterLiver
<1>9. ASSUME NEW b \in Attempts, RegistrationUnacknowledged(b) PROVE QueriesInv'
  <2>1. dbUp' \in BOOLEAN
    BY <1>1, <1>9 DEF RegistrationUnacknowledged
  <2> QED BY <1>9, <2>1, RegistrationKeepsQueries DEF RegistrationUnacknowledged
<1>10. ASSUME NEW b \in Attempts, RegistrationFails(b) PROVE QueriesInv'
  BY <1>1, <1>10, RegistrationKeepsQueries DEF RegistrationFails
<1>11. ASSUME NEW b \in Attempts, NEW i, ResolveRoot(b, i) PROVE QueriesInv'
  BY <1>11, RootKeepsQueries
<1>12. ASSUME NEW b \in Attempts, NEW i, NEW n, LoadGroups(b, i, n) PROVE QueriesInv'
  <2>1. PICK outcome : Conclude(b, <<i, n, "groups">>, outcome)
    BY <1>12 DEF LoadGroups
  <2>2. "groups" \notin ClockFields
    BY DEF ClockFields
  <2> QED BY <1>12, <2>1, <2>2, LateKeepsQueries DEF LoadGroups
<1>13. ASSUME NEW b \in Attempts, NEW i, NEW n, NEW f, ReadClock(b, i, n, f) PROVE QueriesInv'
  <2>1. Conclude(b, <<i, n, f>>, Returned(At(Found(b, i)[n], f, now)))
    BY <1>13 DEF ReadClock, At
  <2> QED BY <1>13, <2>1, LateKeepsQueries DEF ReadClock
<1> QED BY <1>2, <1>3, <1>4, <1>5, <1>6, <1>7, <1>8, <1>9, <1>10, <1>11, <1>12, <1>13
        DEF Next, Work

LEMMA QueriesInvariance == Spec => [](EffectsInv /\ QueriesInv)
<1>1. Init => EffectsInv /\ QueriesInv
  BY InitEffects, InitQueries
<1>2. (EffectsInv /\ QueriesInv) /\ [Next]_vars => (EffectsInv /\ QueriesInv)'
  BY NextKeepsEffects, NextKeepsQueries
<1> QED BY <1>1, <1>2, PTL DEF Spec
-----------------------------------------------------------------------------
(* What the responses of queries hold.                                       *)

\* A liver of a response is one row, and what is computed of it was computed within
\* less than a day.
LEMMA LiverAnswered ==
  ASSUME EffectsInv, QueriesInv, NEW liver \in LiversAnswered
  PROVE  \E row : \E from \in Int :
           /\ LiverRow(row)
           /\ "name" \in DOMAIN liver => liver["name"] = {row.name}
           /\ \A f \in ClockFields \cap DOMAIN liver :
                \E t \in Int : from <= t /\ t - from < TicksPerDay /\ liver[f] = {At(row, f, t)}
<1>1. PICK a \in Attempts : /\ stage[a] = "ended" /\ Of(a).type = "query"
                            /\ \E i \in DOMAIN Of(a).fields : liver \in ResponseLivers(a, i)
  BY DEF LiversAnswered, Answered
<1>2. PICK i \in DOMAIN Of(a).fields : liver \in ResponseLivers(a, i)
  BY <1>1
<1>3. a \in Queries /\ op \in Plans
  BY <1>1 DEF Queries, EffectsInv, Typed
<1>4. RootsFound(a) /\ ClocksRead(a) /\ AllRead(a) /\ began[a] \in Int
  <2>1. began \in [Attempts -> 0 .. MaxNow] /\ MaxNow \in Nat
    BY OperationsAssumption DEF QueriesInv, TableTyped
  <2> QED BY <1>3, <2>1 DEF QueriesInv
<1>5. <<i>> \in DOMAIN resolved[a]
  BY <1>1, <1>4 DEF AllRead
<1>7. PICK n \in DOMAIN Found(a, i) : liver \in Liver(LiverOf(a, i, n), Of(a).sel, ZeroTime).data
  BY <1>2, <1>3, <1>5, LiverOfResponse
<1> DEFINE row == Found(a, i)[n]
<1>8. /\ DOMAIN liver = Of(a).sel.Liver
      /\ "name" \in DOMAIN liver => liver["name"] = {row.name}
      /\ \A f \in {"status", "enrollmentDays"} \cap DOMAIN liver : \A v :
           resolved[a][<<i, n, f>>] = Returned(v) => liver[f] = {v}
  BY <1>7, LiverCompleted
<1>9. LiverRow(row)
  BY <1>4, <1>5, <1>7 DEF RootsFound
<1>10. ASSUME NEW f \in ClockFields, f \in DOMAIN liver
       PROVE  \E t \in Int : WithinADay(a, t) /\ liver[f] = {At(row, f, t)}
  <2>1. <<i, n, f>> \in DOMAIN resolved[a]
    BY <1>1, <1>4, <1>7, <1>8, <1>10 DEF AllRead
  <2>2. PICK t \in Int : WithinADay(a, t) /\ resolved[a][<<i, n, f>>] = Returned(At(row, f, t))
    BY <1>4, <1>7, <2>1 DEF ClocksRead
  <2> QED BY <1>8, <1>10, <2>2 DEF ClockFields
<1> HIDE DEF row
<1>11. PICK from \in Int : from = began[a]
  BY <1>4
<1>12. \A f \in ClockFields \cap DOMAIN liver :
         \E t \in Int : from <= t /\ t - from < TicksPerDay /\ liver[f] = {At(row, f, t)}
  BY <1>10, <1>11 DEF WithinADay
<1> WITNESS row
<1> WITNESS from \in Int
<1> QED BY <1>8, <1>9, <1>12

\* A response whose status and days were computed at different moments does not
\* contradict itself: who is yet to debut has no days, who debuted no negative
\* ones, whatever the moments, the dates and the length of a day are, as long as a
\* request takes less than a day.
THEOREM StatusesAgree == Spec => []StatusAgrees
<1>1. ASSUME EffectsInv, QueriesInv PROVE StatusAgrees
  <2> SUFFICES ASSUME NEW liver \in LiversAnswered,
                      {"status", "enrollmentDays"} \subseteq DOMAIN liver
               PROVE  /\ liver["status"] = {"ANNOUNCED"} => \A d \in liver["enrollmentDays"] : d <= 0
                      /\ liver["status"] = {"DEBUTED"} => \A d \in liver["enrollmentDays"] : d >= 0
    BY DEF StatusAgrees
  <2>1. PICK row : \E from \in Int :
          /\ LiverRow(row)
          /\ \A f \in ClockFields \cap DOMAIN liver :
               \E t \in Int : from <= t /\ t - from < TicksPerDay /\ liver[f] = {At(row, f, t)}
    BY <1>1, LiverAnswered
  <2>2. PICK from \in Int :
          /\ LiverRow(row)
          /\ \A f \in ClockFields \cap DOMAIN liver :
               \E t \in Int : from <= t /\ t - from < TicksPerDay /\ liver[f] = {At(row, f, t)}
    BY <2>1
  <2>3. PICK t \in Int : /\ from <= t /\ t - from < TicksPerDay
                         /\ liver["status"] = {Status(row, t)}
    BY <2>2 DEF ClockFields, At
  <2>4. PICK u \in Int : /\ from <= u /\ u - from < TicksPerDay
                         /\ liver["enrollmentDays"] = {EnrollmentDays(row, u)}
    BY <2>2 DEF ClockFields, At
  <2>5. t - u < TicksPerDay /\ u - t < TicksPerDay
    BY <2>3, <2>4, LiverStatusAssumption
  <2>6. /\ Status(row, t) = "ANNOUNCED" => EnrollmentDays(row, u) <= 0
        /\ Status(row, t) = "DEBUTED" => EnrollmentDays(row, u) >= 0
    BY <2>2, <2>5, MomentsAgree
  <2> QED BY <2>3, <2>4, <2>6
<1>2. EffectsInv /\ QueriesInv => StatusAgrees
  BY <1>1
<1> QED BY <1>2, QueriesInvariance, PTL

\* Every variable, row and response has its type: in each response, what is called
\* a name is one, a status is one of the three and the days are within the longest
\* duration.
THEOREM OperationsTypeCorrect == Spec => []TypeOK
<1>1. ASSUME EffectsInv, QueriesInv PROVE TypeOK
  <2>1. /\ mode \in Db!Modes /\ dbUp \in BOOLEAN /\ now \in 0 .. MaxNow
        /\ \A r \in rows : r.id \in 1 .. Cardinality(rows) /\ r.name \in Names
        /\ stage \in [Attempts -> {"unsent", "running", "ended"}]
        /\ live \in [Attempts -> BOOLEAN] /\ began \in [Attempts -> 0 .. MaxNow]
    BY <1>1 DEF EffectsInv, Typed, QueriesInv, TableTyped, RowsTyped, LiverRow
  <2>2. ASSUME NEW liver \in LiversAnswered, NEW f \in DOMAIN liver, NEW v \in liver[f]
        PROVE  /\ f = "name" => v \in Names
               /\ f = "status" => v \in {"ANNOUNCED", "DEBUTED", "RETIRED"}
               /\ f = "enrollmentDays" => v \in -MaxDuration .. MaxDuration
    <3>1. PICK row :
            /\ LiverRow(row)
            /\ "name" \in DOMAIN liver => liver["name"] = {row.name}
            /\ \A g \in ClockFields \cap DOMAIN liver : \E t \in Int : liver[g] = {At(row, g, t)}
      BY <1>1, LiverAnswered
    <3>2. f = "name" => v \in Names
      BY <3>1 DEF LiverRow
    <3>3. f = "status" => \E t \in Int : v = Status(row, t)
      BY <3>1 DEF ClockFields, At
    <3>4. f = "enrollmentDays" => \E t \in Int : v = EnrollmentDays(row, t)
      BY <3>1 DEF ClockFields, At
    <3>5. \A t \in Int : /\ Status(row, t) \in {"ANNOUNCED", "DEBUTED", "RETIRED"}
                         /\ EnrollmentDays(row, t) \in -MaxDuration .. MaxDuration
      BY <3>1, StatusOfLiver
    <3> QED BY <3>2, <3>3, <3>4, <3>5
  <2> QED BY <2>1, <2>2 DEF TypeOK
<1>2. EffectsInv /\ QueriesInv => TypeOK
  BY <1>1
<1> QED BY <1>2, QueriesInvariance, PTL

LEMMA NoErrors ==
  ASSUME NEW fields, NEW required, \A f \in DOMAIN fields : fields[f].errors = {}
  PROVE  Object(fields, required).errors = {}
<1>1. \A f \in DOMAIN fields : Under(Key(f), fields[f].errors) = {}
  BY DEF Under
<1> QED BY <1>1 DEF Object

\* No field of a page's information is an error.
LEMMA PageInfoFound ==
  ASSUME NEW conn, NEW type
  PROVE  LET found == PageInfoOf(conn, type)
         IN  /\ \A f \in {"hasPreviousPage", "hasNextPage"} : ~found[f].error /\ found[f].value # {}
             /\ \A f \in {"startCursor", "endCursor"} : ~found[f].error
<1> DEFINE found == PageInfoOf(conn, type)
<1>1. \A v : ~Returned(v).error /\ Returned(v).value # {} /\ ~Optional(v).error
  BY DEF Returned, Optional
<1>2. \E p, n, s, e : found = [hasPreviousPage |-> Returned(p), hasNextPage |-> Returned(n),
                              startCursor |-> Optional(s), endCursor |-> Optional(e)]
  BY DEF PageInfoOf
<1> HIDE DEF found
<1>3. PICK p, n, s, e : found = [hasPreviousPage |-> Returned(p), hasNextPage |-> Returned(n),
                                 startCursor |-> Optional(s), endCursor |-> Optional(e)]
  BY <1>2
<1>4. /\ found["hasPreviousPage"] = Returned(p) /\ found["hasNextPage"] = Returned(n)
      /\ found["startCursor"] = Optional(s) /\ found["endCursor"] = Optional(e)
  BY <1>3
<1>5. /\ \A f \in {"hasPreviousPage", "hasNextPage"} : ~found[f].error /\ found[f].value # {}
      /\ \A f \in {"startCursor", "endCursor"} : ~found[f].error
  BY <1>1, <1>4
<1> QED BY <1>5 DEF found

\* The connection of a page that is empty is completed without an error.
LEMMA EmptyPage ==
  ASSUME op \in Plans, NEW a \in Queries, NEW i, Found(a, i) = <<>>
  PROVE  LiverConnection(ConnectionOf(a, i), Of(a).sel, ZeroTime).errors = {}
<1> DEFINE sel == Of(a).sel
           conn == ConnectionOf(a, i)
           fields == [f \in sel.LiverConnection |-> LiverConnectionField(conn, f, sel, ZeroTime)]
<1>1. /\ sel.LiverConnection \subseteq {"edges", "pageInfo"}
      /\ sel.PageInfo \subseteq {"hasPreviousPage", "hasNextPage", "startCursor", "endCursor"}
  BY Selected, SelectedByQuery
<1>2. LiverConnection(conn, sel, ZeroTime) = Object(fields, {"edges", "pageInfo"})
  BY DEF LiverConnection
<1>3. LiverConnectionField(conn, "edges", sel, ZeroTime).errors = {}
  <2>1. \E edges : conn["edges"] = Returned(edges) /\ DOMAIN edges = {}
    <3>1. DOMAIN Found(a, i) = {}
      OBVIOUS
    <3> QED BY <3>1 DEF ConnectionOf
  <2> HIDE DEF conn
  <2>2. PICK edges : conn["edges"] = Returned(edges) /\ DOMAIN edges = {}
    BY <2>1
  <2>3. The(conn["edges"]) = edges /\ ~conn["edges"].error /\ conn["edges"].value # {}
    BY <2>2 DEF The, Returned
  <2>4. LiverConnectionField(conn, "edges", sel, ZeroTime) = LiverEdges(edges, sel, ZeroTime)
    BY <2>3 DEF LiverConnectionField, NonNull
  <2>5. LiverEdges(edges, sel, ZeroTime).errors = {}
    BY <2>2 DEF LiverEdges, List, ElementErrors
  <2> QED BY <2>4, <2>5
<1>4. LiverConnectionField(conn, "pageInfo", sel, ZeroTime).errors = {}
  <2>1. PICK page : conn["pageInfo"] = Returned(PageInfoOf(page, "LiverEdge"))
    BY DEF ConnectionOf
  <2> DEFINE info == PageInfoOf(page, "LiverEdge")
             parts == [f \in sel.PageInfo |->
                         IF f \in {"hasPreviousPage", "hasNextPage"} THEN PageInfoFlag(info, f)
                         ELSE PageInfoCursor(info, f)]
  <2>2. /\ \A f \in {"hasPreviousPage", "hasNextPage"} : ~info[f].error /\ info[f].value # {}
        /\ \A f \in {"startCursor", "endCursor"} : ~info[f].error
    BY PageInfoFound
  <2> HIDE DEF info, conn
  <2>3. The(conn["pageInfo"]) = info /\ ~conn["pageInfo"].error /\ conn["pageInfo"].value # {}
    BY <2>1 DEF The, Returned, info
  <2>4. LiverConnectionField(conn, "pageInfo", sel, ZeroTime) = PageInfo(info, sel)
    BY <2>3 DEF LiverConnectionField, NonNull
  <2>5. \A f \in sel.PageInfo : parts[f].errors = {}
    <3>1. \A f \in {"hasPreviousPage", "hasNextPage"} : PageInfoFlag(info, f).errors = {}
      BY <2>2 DEF PageInfoFlag, NonNull, Completed
    <3>2. \A f \in {"startCursor", "endCursor"} : PageInfoCursor(info, f).errors = {}
      BY <2>2 DEF PageInfoCursor, OrNull, Completed, NullWith
    <3> QED BY <1>1, <3>1, <3>2
  <2>6. PageInfo(info, sel) = Object(parts, {"hasPreviousPage", "hasNextPage"}) /\ DOMAIN parts = sel.PageInfo
    BY DEF PageInfo
  <2> HIDE DEF parts
  <2>7. PageInfo(info, sel).errors = {}
    BY <2>5, <2>6, NoErrors
  <2> QED BY <2>4, <2>7
<1>5. DOMAIN fields = sel.LiverConnection /\ \A f \in sel.LiverConnection : fields[f].errors = {}
  BY <1>1, <1>3, <1>4
<1> HIDE DEF fields
<1> QED BY <1>2, <1>5, NoErrors

\* In every response of a query, a cursor that is none, or a size that does not fit,
\* is an error of its field and
\* leaves no data, whatever else is asked; and where no page is asked for the page
\* is empty and without an error, whatever the database does.
THEOREM ArgumentsDecideErrors == Spec => []ArgumentsDecide
<1>1. ASSUME EffectsInv, QueriesInv PROVE ArgumentsDecide
  <2> SUFFICES ASSUME NEW a \in Attempts, Answered(a), Of(a).type = "query",
                      NEW i \in DOMAIN Of(a).fields, Of(a).fields[i].field = "livers"
               PROVE  LET args == Of(a).fields[i].args
                          failed == <<Key(KeyOf(i))>> \in Exec(a).errors
                      IN  /\ Garbled(args) => failed /\ Exec(a).data = {}
                          /\ ~Garbled(args) /\ ~Sized(args) => ~failed /\ Found(a, i) = <<>>
    BY DEF ArgumentsDecide
  <2> DEFINE args == Of(a).fields[i].args
  <2>1. a \in Queries /\ op \in Plans /\ Of(a).type # "mutation"
    BY <1>1 DEF Queries, EffectsInv, Typed
  <2>2. <<i>> \in DOMAIN resolved[a] /\ RootsFound(a)
    BY <1>1, <2>1 DEF QueriesInv, AllRead, Answered
  <2>3. /\ Garbled(args) => resolved[a][<<i>>] = Erred
        /\ ~Garbled(args) /\ ~Sized(args) =>
             \E conn : resolved[a][<<i>>] = Returned(conn) /\ conn.edges = <<>>
    BY <2>2 DEF RootsFound
  <2>4. RootResult(a, i) = QueryLivers(RootOutcome(a, i), Of(a).sel, ZeroTime)
    BY DEF RootResult
  <2>5. ASSUME Garbled(args) PROVE <<Key(KeyOf(i))>> \in Exec(a).errors /\ Exec(a).data = {}
    <3>1. RootOutcome(a, i).error
      BY <2>3, <2>5 DEF RootOutcome, Erred
    <3>2. RootResult(a, i).data = {} /\ <<>> \in RootResult(a, i).errors
      BY <2>4, <3>1 DEF QueryLivers, NonNull, NullWith, Here
    <3> QED BY <2>1, <3>2, RootOfQuery
  <2>6. ASSUME ~Garbled(args), ~Sized(args)
        PROVE  <<Key(KeyOf(i))>> \notin Exec(a).errors /\ Found(a, i) = <<>>
    <3>1. PICK conn : resolved[a][<<i>>] = Returned(conn) /\ conn.edges = <<>>
      BY <2>3, <2>6
    <3>2. ~resolved[a][<<i>>].error /\ Value(resolved[a][<<i>>].value) = conn
      BY <3>1 DEF Returned, Value
    <3>3. Found(a, i) = <<>>
      BY <2>1, <2>2, <3>1, <3>2 DEF Found
    <3>4. RootOutcome(a, i) = Returned(ConnectionOf(a, i))
      BY <2>1, <3>2 DEF RootOutcome
    <3>5. The(RootOutcome(a, i)) = ConnectionOf(a, i) /\ ~RootOutcome(a, i).error /\ RootOutcome(a, i).value # {}
      BY <3>4 DEF The, Returned
    <3>6. RootResult(a, i).errors = {}
      BY <2>1, <2>4, <3>3, <3>5, EmptyPage DEF QueryLivers, NonNull
    <3> QED BY <2>1, <3>3, <3>6, RootOfQuery
  <2> QED BY <2>5, <2>6
<1>2. EffectsInv /\ QueriesInv => ArgumentsDecide
  BY <1>1
<1> QED BY <1>2, QueriesInvariance, PTL
-----------------------------------------------------------------------------
(* Where the data of a response is null.                                     *)

Steps(at, data, path, n) ==
  at = [m \in 0 .. n |-> IF m = 0 THEN data ELSE Child(at[m - 1], path[m])]

\* The values along a path are those its steps lead to.
LEMMA AlongSteps ==
  ASSUME NEW data, NEW path, Len(path) \in Nat
  PROVE  /\ Along(data, path)[0] = data
         /\ \A n \in 1 .. Len(path) : Along(data, path)[n] = Child(Along(data, path)[n - 1], path[n])
<1> DEFINE Less == {p \in Nat \X Nat : p[1] < p[2]}
           T == {n \in Nat : ~\E at : Steps(at, data, path, n)}
           len == Len(path)
<1>1. T = {}
  <2> SUFFICES ASSUME T # {} PROVE FALSE
    OBVIOUS
  <2>1. IsWellFoundedOn(Less, Nat)
    BY NatLessThanWellFounded DEF OpToRel
  <2>2. PICK n \in T : \A m \in T : ~(<<m, n>> \in Less)
    BY <2>1, WFMin
  <2>3. CASE n = 0
    <3> DEFINE at == [m \in {0} |-> data]
    <3>1. at = [m \in 0 .. 0 |-> IF m = 0 THEN data ELSE Child(at[m - 1], path[m])]
      OBVIOUS
    <3> QED BY <2>2, <2>3, <3>1 DEF Steps
  <2>4. CASE n # 0
    <3>1. n - 1 \in Nat /\ n - 1 \notin T
      <4>1. n \in Nat /\ n - 1 \in Nat /\ n - 1 < n
        BY <2>4
      <4> HIDE DEF T
      <4>2. <<n - 1, n>> \in Less
        BY <4>1
      <4> QED BY <2>2, <4>1, <4>2
    <3>2. PICK at : Steps(at, data, path, n - 1)
      BY <3>1
    <3> DEFINE next == [m \in 0 .. n |-> IF m = n THEN Child(at[n - 1], path[n]) ELSE at[m]]
    <3>3. Steps(next, data, path, n)
      <4>1. \A m \in 0 .. n - 1 : at[m] = IF m = 0 THEN data ELSE Child(at[m - 1], path[m])
        BY <3>1, <3>2 DEF Steps
      <4>2. \A m \in 0 .. n : next[m] = IF m = 0 THEN data ELSE Child(next[m - 1], path[m])
        <5> TAKE m \in 0 .. n
        <5>1. m = n \/ (m # n /\ m \in 0 .. n - 1)
          OBVIOUS
        <5>2. m # 0 => m - 1 \in 0 .. n - 1 /\ m - 1 # n
          OBVIOUS
        <5> QED BY <2>4, <4>1, <5>1, <5>2
      <4> HIDE DEF next
      <4>3. next = [m \in 0 .. n |-> next[m]]
        BY DEF next
      <4> QED BY <4>2, <4>3 DEF Steps
    <3> QED BY <2>2, <3>3
  <2> QED BY <2>3, <2>4
<1>2. \E at : Steps(at, data, path, len)
  BY <1>1
<1> DEFINE at == Along(data, path)
<1>3. at = CHOOSE f : Steps(f, data, path, len)
  BY DEF Along, Steps
<1> HIDE DEF at, len
<1>4. Steps(at, data, path, len)
  BY <1>2, <1>3
<1> QED BY <1>4 DEF Steps, at, len

\* A result is null exactly when there is an error in it. Only an optional value
\* may have neither.
Strict(result) == result.data = {} <=> result.errors # {}

LEMMA StrictValues ==
  /\ Strict(NullWith(Here)) /\ \A v : Strict(Completed(v)) /\ Completed(v).errors = {}
  /\ \A outcome, completed : Strict(completed) => Strict(NonNull(outcome, completed))
  /\ \A outcome, completed : ~outcome.error /\ completed.errors = {} =>
       OrNull(outcome, completed).errors = {}
<1>1. Strict(NullWith(Here)) /\ \A v : Strict(Completed(v)) /\ Completed(v).errors = {}
  BY DEF Strict, NullWith, Here, Completed
<1>2. \A outcome, completed : ~outcome.error /\ completed.errors = {} =>
        OrNull(outcome, completed).errors = {}
  BY DEF OrNull, NullWith
<1>3. \A outcome, completed : Strict(completed) => Strict(NonNull(outcome, completed))
  BY <1>1 DEF NonNull
<1> QED BY <1>1, <1>2, <1>3

LEMMA ErrorsUnder ==
  ASSUME NEW step, NEW errors
  PROVE  Under(step, errors) = {} <=> errors = {}
BY DEF Under

LEMMA StrictObject ==
  ASSUME NEW fields, NEW required,
         \A f \in DOMAIN fields : IF f \in required THEN Strict(fields[f]) ELSE fields[f].errors = {}
  PROVE  Strict(Object(fields, required))
<1> DEFINE object == Object(fields, required)
<1>1. /\ object.data = {} <=> \E f \in required \cap DOMAIN fields : fields[f].data = {}
      /\ object.errors = UNION {Under(Key(f), fields[f].errors) : f \in DOMAIN fields}
  BY DEF Object
<1> HIDE DEF object
<1>2. object.errors # {} <=> \E f \in DOMAIN fields : fields[f].errors # {}
  BY <1>1, ErrorsUnder
<1>3. \A f \in DOMAIN fields : fields[f].errors # {} <=> f \in required /\ fields[f].data = {}
  BY DEF Strict
<1> QED BY <1>1, <1>2, <1>3 DEF Strict, object

LEMMA StrictList ==
  ASSUME NEW results, \A i \in DOMAIN results : Strict(results[i])
  PROVE  Strict(List(results))
<1> DEFINE list == List(results)
<1>1. /\ list.data = {} <=> \E i \in DOMAIN results : results[i].data = {}
      /\ list.errors = UNION {Under(Index(i), results[i].errors) : i \in DOMAIN results}
  BY DEF List, ElementErrors
<1> HIDE DEF list
<1>2. list.errors # {} <=> \E i \in DOMAIN results : results[i].errors # {}
  BY <1>1, ErrorsUnder
<1> QED BY <1>1, <1>2 DEF Strict, list

\* The cursors of a page's ends are optional, and never errors.
CursorsFound(info) == ~info["startCursor"].error /\ ~info["endCursor"].error

LEMMA StrictPageInfo ==
  ASSUME NEW sel, InSchema(sel), NEW info, CursorsFound(info)
  PROVE  Strict(PageInfo(info, sel))
<1> DEFINE fields == [f \in sel.PageInfo |->
                        IF f \in {"hasPreviousPage", "hasNextPage"} THEN PageInfoFlag(info, f)
                        ELSE PageInfoCursor(info, f)]
<1>1. \A f : Strict(PageInfoFlag(info, f))
  BY StrictValues DEF PageInfoFlag
<1>2. \A f \in {"startCursor", "endCursor"} : PageInfoCursor(info, f).errors = {}
  BY StrictValues DEF PageInfoCursor, CursorsFound
<1>3. \A f \in sel.PageInfo : IF f \in {"hasPreviousPage", "hasNextPage"} THEN Strict(fields[f])
                              ELSE fields[f].errors = {}
  BY <1>1, <1>2, Selected
<1>4. PageInfo(info, sel) = Object(fields, {"hasPreviousPage", "hasNextPage"}) /\ DOMAIN fields = sel.PageInfo
  BY DEF PageInfo
<1> HIDE DEF fields
<1> QED BY <1>3, <1>4, StrictObject

LEMMA StrictGroups ==
  ASSUME NEW sel, InSchema(sel), NEW conn, CursorsFound(The(conn["pageInfo"]))
  PROVE  Strict(LiverGroupConnetion(conn, sel))
<1>1. ASSUME NEW group PROVE Strict(Group(group, sel))
  <2>1. Strict(GroupName(group))
    BY StrictValues DEF GroupName
  <2>2. sel.Group \subseteq {"name"}
    BY Selected
  <2> QED BY <2>1, <2>2, StrictObject DEF Group
<1>2. ASSUME NEW edge PROVE Strict(LiverGroupEdge(edge, sel))
  <2>1. \A f : Strict(LiverGroupEdgeField(edge, f, sel))
    BY <1>1, StrictValues DEF LiverGroupEdgeField
  <2>2. sel.LiverGroupEdge \subseteq {"node", "cursor"}
    BY Selected
  <2> QED BY <2>1, <2>2, StrictObject DEF LiverGroupEdge
<1>3. \A edges : Strict(LiverGroupEdges(edges, sel))
  BY <1>2, StrictList DEF LiverGroupEdges
<1>4. \A f : Strict(LiverGroupConnetionField(conn, f, sel)) \/ f \notin {"edges", "pageInfo"}
  BY <1>3, StrictValues, StrictPageInfo DEF LiverGroupConnetionField
<1>5. sel.LiverGroupConnetion \subseteq {"edges", "pageInfo"}
  BY Selected
<1> QED BY <1>4, <1>5, StrictObject DEF LiverGroupConnetion

LEMMA StrictLiver ==
  ASSUME NEW sel, InSchema(sel), NEW liver, NEW zero,
         "retired_on" \in sel.Liver => ~liver["retired_on"].error,
         "groups" \in sel.Liver => \/ liver["groups"].error
                                   \/ CursorsFound(The(The(liver["groups"])["pageInfo"]))
  PROVE  Strict(Liver(liver, sel, zero))
<1> DEFINE required == {"name", "debuted_on", "status", "enrollmentDays", "groups"}
           fields == [f \in sel.Liver |->
                        CASE f = "groups" -> LiverGroups(liver, sel)
                          [] f \in {"status", "enrollmentDays"} -> LiverComputed(liver, f)
                          [] OTHER -> LiverScalar(liver, f, zero)]
<1>1. Strict(LiverScalar(liver, "name", zero)) /\ Strict(LiverScalar(liver, "debuted_on", zero))
  BY StrictValues DEF LiverScalar, MarshalNTime
<1>2. "retired_on" \in sel.Liver => LiverScalar(liver, "retired_on", zero).errors = {}
  <2>1. \A t : MarshalOTime(t, zero).errors = {}
    BY DEF MarshalOTime, NullWith, Completed
  <2> QED BY <2>1, StrictValues DEF LiverScalar
<1>3. \A f : Strict(LiverComputed(liver, f))
  BY StrictValues DEF LiverComputed
<1>4. "groups" \in sel.Liver => Strict(LiverGroups(liver, sel))
  <2>1. CASE liver["groups"].error
    BY <2>1, StrictValues DEF LiverGroups, NonNull
  <2>2. CASE ~liver["groups"].error
    BY <2>2, StrictGroups, StrictValues DEF LiverGroups
  <2> QED BY <2>1, <2>2
<1>5. \A f \in sel.Liver : IF f \in required THEN Strict(fields[f]) ELSE fields[f].errors = {}
  <2>1. sel.Liver \subseteq required \cup {"retired_on"}
    BY Selected
  <2> QED BY <1>1, <1>2, <1>3, <1>4, <2>1
<1>6. Liver(liver, sel, zero) = Object(fields, required) /\ DOMAIN fields = sel.Liver
  BY DEF Liver
<1> HIDE DEF fields, required
<1> QED BY <1>5, <1>6, StrictObject

LEMMA StrictConnection ==
  ASSUME NEW sel, InSchema(sel), NEW conn, NEW zero, CursorsFound(The(conn["pageInfo"])),
         \A n \in DOMAIN The(conn["edges"]) : Strict(Liver(The(The(conn["edges"])[n]["node"]), sel, zero))
  PROVE  Strict(LiverConnection(conn, sel, zero))
<1> DEFINE edges == The(conn["edges"])
<1>1. ASSUME NEW n \in DOMAIN edges PROVE Strict(LiverEdge(edges[n], sel, zero))
  <2> DEFINE edge == edges[n]
  <2>0. Strict(Liver(The(edge["node"]), sel, zero))
    OBVIOUS
  <2> HIDE DEF edge
  <2>1. \A f : Strict(LiverEdgeField(edge, f, sel, zero))
    BY <2>0, StrictValues DEF LiverEdgeField
  <2>2. sel.LiverEdge \subseteq {"node", "cursor"}
    BY Selected
  <2>3. Strict(LiverEdge(edge, sel, zero))
    BY <2>1, <2>2, StrictObject DEF LiverEdge
  <2> QED BY <2>3 DEF edge
<1> HIDE DEF edges
<1>2. Strict(LiverEdges(edges, sel, zero))
  BY <1>1, StrictList DEF LiverEdges
<1>3. \A f \in {"edges", "pageInfo"} : Strict(LiverConnectionField(conn, f, sel, zero))
  BY <1>2, StrictValues, StrictPageInfo DEF LiverConnectionField, edges
<1>4. sel.LiverConnection \subseteq {"edges", "pageInfo"}
  BY Selected
<1> QED BY <1>3, <1>4, StrictObject DEF LiverConnection

LEMMA CursorsOfPage ==
  /\ \A conn, type : CursorsFound(PageInfoOf(conn, type))
  /\ \A conn : The(GroupConnectionOf(conn)["pageInfo"]) = PageInfoOf(conn, "LiverGroupEdge")
<1>1. \A conn, type : CursorsFound(PageInfoOf(conn, type))
  BY PageInfoFound DEF CursorsFound
<1>2. \A conn : The(GroupConnectionOf(conn)["pageInfo"]) = PageInfoOf(conn, "LiverGroupEdge")
  BY DEF GroupConnectionOf, The, Returned
<1> QED BY <1>1, <1>2

LEMMA StrictLiverOf ==
  ASSUME op \in Plans, NEW a \in Queries, NEW i, NEW n
  PROVE  Strict(Liver(LiverOf(a, i, n), Of(a).sel, ZeroTime))
<1> DEFINE sel == Of(a).sel
           liver == LiverOf(a, i, n)
           late == resolved[a][<<i, n, "groups">>]
<1>1. "retired_on" \in sel.Liver => ~liver["retired_on"].error
  BY DEF LiverOf, Optional
<1>2. "groups" \in sel.Liver =>
        liver["groups"] = IF late.error THEN late ELSE Returned(GroupConnectionOf(Value(late.value)))
  BY DEF LiverOf
<1> HIDE DEF late, liver, sel
<1>3. ASSUME "groups" \in sel.Liver, ~late.error
      PROVE  CursorsFound(The(The(liver["groups"])["pageInfo"]))
  <2>1. The(liver["groups"]) = GroupConnectionOf(Value(late.value))
    BY <1>2, <1>3 DEF The, Returned
  <2> QED BY <2>1, CursorsOfPage
<1>4. "groups" \in sel.Liver => \/ liver["groups"].error
                                \/ CursorsFound(The(The(liver["groups"])["pageInfo"]))
  BY <1>2, <1>3
<1>5. InSchema(sel)
  BY SelectedByQuery DEF sel
<1>6. Strict(Liver(liver, sel, ZeroTime))
  BY <1>1, <1>4, <1>5, StrictLiver
<1> QED BY <1>6 DEF liver, sel

\* A root field of a query is null exactly when it has an error: no resolver of
\* one returns nothing without.
LEMMA StrictRoot ==
  ASSUME op \in Plans, NEW a \in Queries, NEW i
  PROVE  Strict(RootResult(a, i))
<1> DEFINE sel == Of(a).sel
           outcome == RootOutcome(a, i)
<1>1. InSchema(sel) /\ Of(a).type # "mutation"
  BY SelectedByQuery DEF Queries
<1>2. CASE resolved[a][<<i>>].error
  <2>1. outcome.error
    BY <1>2 DEF RootOutcome
  <2> HIDE DEF outcome
  <2>2. RootResult(a, i) = NullWith(Here)
    BY <2>1 DEF RootResult, QueryLiver, QueryLivers, OrNull, NonNull, outcome
  <2> QED BY <2>2, StrictValues
<1>3. CASE ~resolved[a][<<i>>].error /\ Of(a).fields[i].field = "liver"
  <2>1. outcome = Returned(LiverOf(a, i, 1))
    BY <1>1, <1>3 DEF RootOutcome
  <2> HIDE DEF outcome
  <2>2. The(outcome) = LiverOf(a, i, 1) /\ ~outcome.error /\ outcome.value # {}
    BY <2>1 DEF The, Returned
  <2>3. RootResult(a, i) = Liver(LiverOf(a, i, 1), sel, ZeroTime)
    BY <1>3, <2>2 DEF RootResult, QueryLiver, OrNull, outcome
  <2> QED BY <2>3, StrictLiverOf
<1>4. CASE ~resolved[a][<<i>>].error /\ Of(a).fields[i].field # "liver"
  <2> DEFINE conn == ConnectionOf(a, i)
             edges == [n \in DOMAIN Found(a, i) |->
                         [node |-> Returned(LiverOf(a, i, n)),
                          cursor |-> Returned(MarshalText(LiverEdgeCursor(Found(a, i)[n].id)))]]
  <2>1. outcome = Returned(conn)
    BY <1>1, <1>4 DEF RootOutcome
  <2>2. /\ conn["edges"] = Returned(edges)
        /\ \E page : conn["pageInfo"] = Returned(PageInfoOf(page, "LiverEdge"))
    BY DEF ConnectionOf
  <2>3. \A n \in DOMAIN edges : edges[n]["node"] = Returned(LiverOf(a, i, n))
    OBVIOUS
  <2> HIDE DEF outcome, conn, edges
  <2>4. \A v : The(Returned(v)) = v
    BY DEF The, Returned
  <2>5. CursorsFound(The(conn["pageInfo"]))
    BY <2>2, <2>4, CursorsOfPage
  <2>6. \A n \in DOMAIN edges : Strict(Liver(The(edges[n]["node"]), sel, ZeroTime))
    BY <2>3, <2>4, StrictLiverOf
  <2>7. The(conn["edges"]) = edges
    BY <2>2, <2>4
  <2>8. Strict(LiverConnection(conn, sel, ZeroTime))
    <3> HIDE DEF sel
    <3> QED BY <1>1, <2>5, <2>6, <2>7, StrictConnection DEF sel
  <2>9. RootResult(a, i) = NonNull(outcome, LiverConnection(The(outcome), sel, ZeroTime))
    BY <1>4 DEF RootResult, QueryLivers, outcome
  <2> QED BY <2>1, <2>4, <2>8, <2>9, StrictValues
<1> QED BY <1>2, <1>3, <1>4

\* A response is the object of the results of its root fields.
LEMMA QueryResponse ==
  ASSUME op \in Plans, NEW a \in Queries
  PROVE  /\ \A path : path \in Exec(a).errors <=>
              \E i \in DOMAIN Of(a).fields : path \in Under(Key(KeyOf(i)), RootResult(a, i).errors)
         /\ Exec(a).data = {} <=>
              \E i \in DOMAIN Of(a).fields :
                Of(a).fields[i].field = "livers" /\ RootResult(a, i).data = {}
         /\ Exec(a).data # {} =>
              \A i \in DOMAIN Of(a).fields : Child(Exec(a).data, Key(KeyOf(i))) = RootResult(a, i).data
<1> DEFINE outcomes == [k \in Roots(a) |-> RootOutcome(a, IndexOf(a, k))]
           kinds == [k \in Roots(a) |-> Of(a).fields[IndexOf(a, k)].field]
           results == [k \in DOMAIN outcomes |->
                         IF kinds[k] = "liver" THEN QueryLiver(outcomes[k], Of(a).sel, ZeroTime)
                         ELSE QueryLivers(outcomes[k], Of(a).sel, ZeroTime)]
           required == {k \in DOMAIN outcomes : kinds[k] = "livers"}
<1>1. a \in Attempts /\ Of(a).type # "mutation"
  BY DEF Queries
<1>2. Exec(a) = Object(results, required)
  BY <1>1 DEF Exec, Query
<1>3. DOMAIN results = Roots(a) /\ required \subseteq Roots(a)
  OBVIOUS
<1>4. ASSUME NEW i \in DOMAIN Of(a).fields
      PROVE  /\ KeyOf(i) \in Roots(a) /\ KeyOf(i) # "element"
             /\ results[KeyOf(i)] = RootResult(a, i)
             /\ KeyOf(i) \in required <=> Of(a).fields[i].field = "livers"
  <2>1. KeyOf(i) \in Roots(a) /\ IndexOf(a, KeyOf(i)) = i /\ KeyOf(i) \in ResponseKeys
    BY <1>1, KeyOfField
  <2> QED BY <2>1 DEF RootResult, ResponseKeys
<1>5. \A k \in Roots(a) : \E i \in DOMAIN Of(a).fields : k = KeyOf(i)
  BY DEF Roots
<1> HIDE DEF outcomes, kinds, results, required
<1>6. /\ Exec(a).errors = UNION {Under(Key(k), results[k].errors) : k \in Roots(a)}
      /\ Exec(a).data = {} <=> \E k \in required : results[k].data = {}
  <2>1. Object(results, required).errors = UNION {Under(Key(k), results[k].errors) : k \in DOMAIN results}
    BY DEF Object
  <2>2. Object(results, required).data = {} <=>
          \E k \in required \cap DOMAIN results : results[k].data = {}
    BY DEF Object
  <2>3. required \cap DOMAIN results = required
    BY <1>3
  <2> QED BY <1>2, <1>3, <2>1, <2>2, <2>3
<1>7. ASSUME Exec(a).data # {}, NEW i \in DOMAIN Of(a).fields
      PROVE  Child(Exec(a).data, Key(KeyOf(i))) = RootResult(a, i).data
  BY <1>2, <1>3, <1>4, <1>7, ChildOfObject
<1>8. \A path : path \in Exec(a).errors <=>
        \E i \in DOMAIN Of(a).fields : path \in Under(Key(KeyOf(i)), RootResult(a, i).errors)
  BY <1>4, <1>5, <1>6
<1>9. Exec(a).data = {} <=> \E i \in DOMAIN Of(a).fields :
                              Of(a).fields[i].field = "livers" /\ RootResult(a, i).data = {}
  BY <1>3, <1>4, <1>5, <1>6
<1> QED BY <1>7, <1>8, <1>9

\* The errors of a field are paths from its key to something below it.
LEMMA ErrorsOfRoot ==
  ASSUME op \in Plans, NEW a \in Queries, NEW i \in DOMAIN Of(a).fields,
         NEW path \in Under(Key(KeyOf(i)), RootResult(a, i).errors)
  PROVE  /\ Len(path) \in Nat \ {0} /\ path = [j \in 1 .. Len(path) |-> path[j]]
         /\ path[1] = Key(KeyOf(i))
         /\ \A j \in 2 .. Len(path) : path[j][1] \notin ResponseKeys
<1>1. HavePaths(RootResult(a, i))
  BY PathsOfRoots, SelectedByQuery DEF RootResult
<1>2. PICK p \in RootResult(a, i).errors : path = <<Key(KeyOf(i))>> \o p
  BY DEF Under
<1>3. IsPath(p) /\ Len(p) \in Nat
  BY <1>1 DEF HavePaths, IsPath
<1> DEFINE s == Key(KeyOf(i))
<1> HIDE DEF s
<1>4. path = <<s>> \o p
  BY <1>2 DEF s
<1>5. /\ Len(<<s>> \o p) = Len(p) + 1
      /\ <<s>> \o p = [j \in 1 .. Len(p) + 1 |-> (<<s>> \o p)[j]]
      /\ (<<s>> \o p)[1] = s
      /\ \A j \in 2 .. Len(p) + 1 : (<<s>> \o p)[j][1] \notin ResponseKeys
  BY <1>3, LongerPath
<1>6. /\ Len(path) = Len(p) + 1
      /\ path = [j \in 1 .. Len(p) + 1 |-> path[j]]
      /\ path[1] = s
      /\ \A j \in 2 .. Len(p) + 1 : path[j][1] \notin ResponseKeys
  BY <1>4, <1>5
<1>7. Len(p) + 1 \in Nat \ {0}
  BY <1>3
<1> QED BY <1>6, <1>7 DEF s

\* Of the places around an error only its root field may be null, or nothing.
LEMMA NearestOfRoot ==
  ASSUME op \in Plans, NEW a \in Queries, NEW i \in DOMAIN Of(a).fields,
         NEW path \in Under(Key(KeyOf(i)), RootResult(a, i).errors)
  PROVE  NearestNullable(path, NullableKeys(a)) =
           IF Of(a).fields[i].field = "liver" THEN 1 ELSE 0
<1> DEFINE nullable == NullableKeys(a)
           len == Len(path)
           root == IF Of(a).fields[i].field = "liver" THEN 1 ELSE 0
           Nearest(n) == /\ n = 0 \/ path[n][1] \in nullable
                         /\ \A m \in n + 1 .. len : path[m][1] \notin nullable
<1>1. len \in Nat \ {0} /\ path[1] = Key(KeyOf(i)) /\ \A j \in 2 .. len : path[j][1] \notin ResponseKeys
  BY ErrorsOfRoot
<1>2. /\ nullable \subseteq ResponseKeys
      /\ KeyOf(i) \in nullable <=> Of(a).fields[i].field = "liver"
  BY KeyOfField DEF NullableKeys, Queries
<1>3. path[1][1] = KeyOf(i)
  BY <1>1 DEF Key
<1>4. \A j \in 2 .. len : path[j][1] \notin nullable
  BY <1>1, <1>2
<1>5. NearestNullable(path, nullable) = CHOOSE n \in 0 .. len : Nearest(n)
  BY DEF NearestNullable
<1> HIDE DEF nullable, len
<1>6. root \in 0 .. len /\ Nearest(root)
  <2>1. \A j \in 1 .. len : j = 1 \/ j \in 2 .. len
    BY <1>1
  <2>2. CASE Of(a).fields[i].field = "liver"
    BY <1>1, <1>2, <1>3, <1>4, <2>2
  <2>3. CASE Of(a).fields[i].field # "liver"
    BY <1>1, <1>2, <1>3, <1>4, <2>1, <2>3
  <2> QED BY <2>2, <2>3
<1>7. ASSUME NEW n \in 0 .. len, Nearest(n) PROVE n = root
  <2>1. n = 0 \/ n = 1
    <3>1. n = 0 \/ n = 1 \/ n \in 2 .. len
      BY <1>1
    <3> QED BY <1>4, <1>7, <3>1
  <2>2. CASE n = 0
    <3>1. 1 \in n + 1 .. len
      BY <1>1, <2>2
    <3> QED BY <1>2, <1>3, <1>7, <2>2, <3>1
  <2>3. CASE n = 1
    BY <1>2, <1>3, <1>7, <2>3
  <2> QED BY <2>1, <2>2, <2>3
<1> HIDE DEF Nearest, root
<1>8. NearestNullable(path, nullable) = root
  BY <1>5, <1>6, <1>7
<1> QED BY <1>8 DEF nullable, root

\* Where a part of a response may be null as a whole.
Part(part, whole) == part = {} \/ part = whole

LEMMA PartOfParts ==
  /\ \A part, whole, step : Part(part, whole) => Part(Child(part, step), Child(whole, step))
  /\ \A some, part, whole : Part(some, part) /\ Part(part, whole) => Part(some, whole)
  /\ \A outcome, completed : Part(NonNull(outcome, completed).data, completed.data)
<1>1. \A step : Child({}, step) = {}
  BY DEF Child
<1>2. \A part, whole, step : Part(part, whole) => Part(Child(part, step), Child(whole, step))
  BY <1>1 DEF Part
<1>3. \A outcome, completed : Part(NonNull(outcome, completed).data, completed.data)
  BY DEF NonNull, NullWith, Part
<1>4. \A some, part, whole : Part(some, part) /\ Part(part, whole) => Part(some, whole)
  BY DEF Part
<1> QED BY <1>2, <1>3, <1>4

LEMMA PartOfObject ==
  ASSUME NEW fields, NEW required, NEW f, f # "element"
  PROVE  Part(Child(Object(fields, required).data, Key(f)),
              IF f \in DOMAIN fields THEN fields[f].data ELSE {})
<1>1. Child({}, Key(f)) = {}
  BY DEF Child
<1> QED BY <1>1, ChildOfObject DEF Part

LEMMA PartOfList ==
  ASSUME NEW results, NEW n \in DOMAIN results
  PROVE  Part(Child(List(results).data, Index(n)), results[n].data)
<1>1. Child({}, Index(n)) = {}
  BY DEF Child
<1> QED BY <1>1, ChildOfList DEF Part

\* Nothing is complete, and so is what may be null of something complete.
LEMMA CompleteParts ==
  /\ \A part, whole, fields, optional :
       Part(part, whole) /\ Complete(whole, fields, optional) => Complete(part, fields, optional)
  /\ \A part, whole, fields, edgeFields, pageInfoFields, indices :
       /\ Part(part, whole)
       /\ CompleteConnection(whole, fields, edgeFields, pageInfoFields, indices)
       => CompleteConnection(part, fields, edgeFields, pageInfoFields, indices)
  /\ \A part, whole, sel, indices :
       Part(part, whole) /\ CompleteLiver(whole, sel, indices) => CompleteLiver(part, sel, indices)
  /\ \A i : NodeOf({}, i) = {}
<1>1. \A step : Child({}, step) = {}
  BY DEF Child
<1>2. \A fields, optional : Complete({}, fields, optional)
  BY DEF Complete
<1>3. \A fields, edgeFields, pageInfoFields, indices :
        CompleteConnection({}, fields, edgeFields, pageInfoFields, indices)
  BY <1>1, <1>2 DEF CompleteConnection
<1>4. \A i : NodeOf({}, i) = {}
  BY <1>1 DEF NodeOf
<1>5. \A sel, indices : CompleteLiver({}, sel, indices)
  BY <1>1, <1>2, <1>3, <1>4 DEF CompleteLiver
<1> QED BY <1>2, <1>3, <1>4, <1>5 DEF Part

LEMMA CompleteObject ==
  ASSUME NEW fields, NEW required, NEW optional, DOMAIN fields \subseteq required \cup optional
  PROVE  Complete(Object(fields, required).data, DOMAIN fields, optional)
<1> DEFINE v == [f \in DOMAIN fields |-> fields[f].data]
           object == Object(fields, required).data
<1>1. /\ object = {} \/ object = {v}
      /\ object # {} => \A f \in required \cap DOMAIN fields : fields[f].data # {}
  BY DEF Object
<1>2. DOMAIN v = DOMAIN fields /\ \A f \in DOMAIN fields : v[f] = fields[f].data
  OBVIOUS
<1> HIDE DEF v, object
<1>3. Complete(object, DOMAIN fields, optional)
  BY <1>1, <1>2 DEF Complete
<1> QED BY <1>3 DEF object

LEMMA CompleteList ==
  ASSUME NEW results, NEW edges \in List(results).data
  PROVE  /\ DOMAIN edges = DOMAIN results
         /\ \A i \in DOMAIN results : edges[i] = results[i].data /\ edges[i] # {}
<1> DEFINE v == [i \in DOMAIN results |-> results[i].data]
           list == List(results).data
<1>1. /\ list = {} \/ list = {v}
      /\ list # {} => \A i \in DOMAIN results : results[i].data # {}
  BY DEF List
<1>2. DOMAIN v = DOMAIN results /\ \A i \in DOMAIN results : v[i] = results[i].data
  OBVIOUS
<1>3. edges \in list
  OBVIOUS
<1> HIDE DEF v, list
<1> QED BY <1>1, <1>2, <1>3

\* The connections of livers and those of groups are made in the same way.
LEMMA ConnectionComplete ==
  ASSUME NEW sel, InSchema(sel), NEW fields, DOMAIN fields \subseteq {"edges", "pageInfo"},
         NEW elements, NEW info, NEW edgeFields,
         "edges" \in DOMAIN fields => Part(fields["edges"].data, List(elements).data),
         "pageInfo" \in DOMAIN fields => Part(fields["pageInfo"].data, PageInfo(info, sel).data),
         \A i \in DOMAIN elements : Complete(elements[i].data, edgeFields, {})
  PROVE  CompleteConnection(Object(fields, {"edges", "pageInfo"}).data, DOMAIN fields,
                            edgeFields, sel.PageInfo, DOMAIN elements)
<1> DEFINE conn == Object(fields, {"edges", "pageInfo"}).data
<1>1. Complete(conn, DOMAIN fields, {})
  BY CompleteObject
<1>2. Complete(PageInfo(info, sel).data, sel.PageInfo, {"startCursor", "endCursor"})
  <2> DEFINE flags == {"hasPreviousPage", "hasNextPage"}
             infoFields == [f \in sel.PageInfo |-> IF f \in flags THEN PageInfoFlag(info, f)
                                                   ELSE PageInfoCursor(info, f)]
  <2>1. DOMAIN infoFields = sel.PageInfo /\ sel.PageInfo \subseteq flags \cup {"startCursor", "endCursor"}
    BY Selected
  <2>2. PageInfo(info, sel) = Object(infoFields, flags)
    BY DEF PageInfo
  <2> HIDE DEF infoFields, flags
  <2>3. Complete(Object(infoFields, flags).data, DOMAIN infoFields, {"startCursor", "endCursor"})
    BY <2>1, CompleteObject
  <2> QED BY <2>1, <2>2, <2>3
<1>3. /\ Part(Child(conn, Key("pageInfo")),
              IF "pageInfo" \in DOMAIN fields THEN fields["pageInfo"].data ELSE {})
      /\ Part(Child(conn, Key("edges")),
              IF "edges" \in DOMAIN fields THEN fields["edges"].data ELSE {})
  BY PartOfObject
<1> HIDE DEF conn
<1>4. Complete(Child(conn, Key("pageInfo")), sel.PageInfo, {"startCursor", "endCursor"})
  <2>1. Part(Child(conn, Key("pageInfo")), PageInfo(info, sel).data)
    BY <1>3 DEF Part
  <2> QED BY <1>2, <2>1, CompleteParts
<1>5. ASSUME NEW edges \in Child(conn, Key("edges"))
      PROVE  /\ DOMAIN edges = DOMAIN elements
             /\ \A i \in DOMAIN elements : edges[i] # {} /\ Complete(edges[i], edgeFields, {})
  <2>1. edges \in List(elements).data
    BY <1>3, <1>5 DEF Part
  <2>2. /\ DOMAIN edges = DOMAIN elements
        /\ \A i \in DOMAIN elements : edges[i] = elements[i].data /\ edges[i] # {}
    BY <2>1, CompleteList
  <2> QED BY <2>2
<1> QED BY <1>1, <1>4, <1>5 DEF CompleteConnection, conn

LEMMA NodeOfConnection ==
  ASSUME NEW fields, NEW elements, NEW i \in DOMAIN elements, NEW edgeFields,
         "edges" \in DOMAIN fields => Part(fields["edges"].data, List(elements).data),
         elements[i] = Object(edgeFields, {"node", "cursor"})
  PROVE  Part(NodeOf(Object(fields, {"edges", "pageInfo"}).data, i),
              IF "node" \in DOMAIN edgeFields THEN edgeFields["node"].data ELSE {})
<1> DEFINE conn == Object(fields, {"edges", "pageInfo"}).data
           edges == Child(conn, Key("edges"))
           edge == Child(edges, Index(i))
           list == List(elements).data
<1>1. Part(edges, IF "edges" \in DOMAIN fields THEN fields["edges"].data ELSE {})
  BY PartOfObject
<1> HIDE DEF edges
<1>2. Part(edges, list)
  BY <1>1 DEF Part
<1>3. Part(Child(list, Index(i)), elements[i].data)
  BY PartOfList
<1> HIDE DEF list
<1>4. Part(edge, Object(edgeFields, {"node", "cursor"}).data)
  BY <1>2, <1>3, PartOfParts
<1>5. Part(Child(Object(edgeFields, {"node", "cursor"}).data, Key("node")),
           IF "node" \in DOMAIN edgeFields THEN edgeFields["node"].data ELSE {})
  BY PartOfObject
<1> HIDE DEF edge
<1>6. Part(Child(edge, Key("node")),
           IF "node" \in DOMAIN edgeFields THEN edgeFields["node"].data ELSE {})
  BY <1>4, <1>5, PartOfParts
<1> QED BY <1>6 DEF NodeOf, edge, edges, conn

LEMMA GroupsComplete ==
  ASSUME NEW sel, InSchema(sel), NEW conn
  PROVE  LET groups == LiverGroupConnetion(conn, sel).data
             indices == DOMAIN The(conn["edges"])
         IN  /\ CompleteConnection(groups, sel.LiverGroupConnetion, sel.LiverGroupEdge,
                                   sel.PageInfo, indices)
             /\ \A i \in indices : Complete(NodeOf(groups, i), sel.Group, {})
<1> DEFINE found == The(conn["edges"])
           fields == [f \in sel.LiverGroupConnetion |-> LiverGroupConnetionField(conn, f, sel)]
           elements == [i \in DOMAIN found |-> LiverGroupEdge(found[i], sel)]
           EdgeFields(i) == [f \in sel.LiverGroupEdge |-> LiverGroupEdgeField(found[i], f, sel)]
           groups == LiverGroupConnetion(conn, sel).data
<1>1. groups = Object(fields, {"edges", "pageInfo"}).data /\ DOMAIN fields = sel.LiverGroupConnetion
  BY DEF LiverGroupConnetion
<1>2. /\ "edges" \in DOMAIN fields => Part(fields["edges"].data, List(elements).data)
      /\ "pageInfo" \in DOMAIN fields =>
           Part(fields["pageInfo"].data, PageInfo(The(conn["pageInfo"]), sel).data)
  BY PartOfParts DEF LiverGroupConnetionField, LiverGroupEdges
<1>3. ASSUME NEW i \in DOMAIN elements
      PROVE  /\ elements[i] = Object(EdgeFields(i), {"node", "cursor"})
             /\ DOMAIN EdgeFields(i) = sel.LiverGroupEdge
             /\ "node" \in DOMAIN EdgeFields(i) =>
                  Part(EdgeFields(i)["node"].data, Group(The(found[i]["node"]), sel).data)
  BY <1>3, PartOfParts DEF LiverGroupEdge, LiverGroupEdgeField
<1>4. DOMAIN elements = DOMAIN found
  OBVIOUS
<1>5. ASSUME NEW group PROVE Complete(Group(group, sel).data, sel.Group, {})
  <2> DEFINE groupFields == [f \in sel.Group |-> GroupName(group)]
  <2>1. Group(group, sel) = Object(groupFields, {"name"}) /\ DOMAIN groupFields = sel.Group
    BY DEF Group
  <2>2. sel.Group \subseteq {"name"} \cup {}
    BY Selected
  <2> HIDE DEF groupFields
  <2> QED BY <2>1, <2>2, CompleteObject
<1> HIDE DEF fields, elements, EdgeFields, found, groups
<1>6. /\ sel.LiverGroupConnetion \subseteq {"edges", "pageInfo"}
      /\ sel.LiverGroupEdge \subseteq {"node", "cursor"} \cup {}
  BY Selected
<1>7. ASSUME NEW i \in DOMAIN elements PROVE Complete(elements[i].data, sel.LiverGroupEdge, {})
  <2>1. DOMAIN EdgeFields(i) \subseteq {"node", "cursor"} \cup {}
    BY <1>3, <1>6
  <2>2. Complete(Object(EdgeFields(i), {"node", "cursor"}).data, DOMAIN EdgeFields(i), {})
    BY <2>1, CompleteObject
  <2> QED BY <1>3, <2>2
<1>8. CompleteConnection(groups, sel.LiverGroupConnetion, sel.LiverGroupEdge, sel.PageInfo,
                         DOMAIN elements)
  BY <1>1, <1>2, <1>6, <1>7, ConnectionComplete
<1>9. ASSUME NEW i \in DOMAIN elements PROVE Complete(NodeOf(groups, i), sel.Group, {})
  <2>1. Part(NodeOf(groups, i),
             IF "node" \in DOMAIN EdgeFields(i) THEN EdgeFields(i)["node"].data ELSE {})
    BY <1>1, <1>2, <1>3, NodeOfConnection
  <2>2. Part(NodeOf(groups, i), Group(The(found[i]["node"]), sel).data)
    BY <1>3, <2>1 DEF Part
  <2> QED BY <1>5, <2>2, CompleteParts
<1> QED BY <1>4, <1>8, <1>9 DEF found, groups

LEMMA LiverComplete ==
  ASSUME op \in Plans, NEW a \in Queries, NEW i, NEW n
  PROVE  CompleteLiver(Liver(LiverOf(a, i, n), Of(a).sel, ZeroTime).data, Of(a).sel,
                       GroupsFound(a, i, n))
<1> DEFINE sel == Of(a).sel
           required == {"name", "debuted_on", "status", "enrollmentDays", "groups"}
           from == LiverOf(a, i, n)
           late == resolved[a][<<i, n, "groups">>]
           fields == [g \in sel.Liver |->
                        CASE g = "groups" -> LiverGroups(from, sel)
                          [] g \in {"status", "enrollmentDays"} -> LiverComputed(from, g)
                          [] OTHER -> LiverScalar(from, g, ZeroTime)]
           liver == Liver(from, sel, ZeroTime).data
           groups == Child(liver, Key("groups"))
           indices == GroupsFound(a, i, n)
<1>1. /\ liver = Object(fields, required).data
      /\ DOMAIN fields = sel.Liver
      /\ "groups" \in sel.Liver => fields["groups"] = LiverGroups(from, sel)
  BY DEF Liver
<1>2. "groups" \in sel.Liver =>
        from["groups"] = IF late.error THEN late ELSE Returned(GroupConnectionOf(Value(late.value)))
  BY DEF LiverOf
<1>3. InSchema(sel) /\ sel.Liver \subseteq required \cup {"retired_on"}
  BY SelectedByQuery, Selected
<1> HIDE DEF from, fields, liver, required
<1>4. Complete(liver, sel.Liver, {"retired_on"})
  BY <1>1, <1>3, CompleteObject
<1>5. Part(groups, IF "groups" \in sel.Liver THEN LiverGroups(from, sel).data ELSE {})
  <2>1. Part(Child(Object(fields, required).data, Key("groups")),
             IF "groups" \in DOMAIN fields THEN fields["groups"].data ELSE {})
    BY PartOfObject
  <2> QED BY <1>1, <2>1
<1> HIDE DEF groups
<1>6. /\ CompleteConnection(groups, sel.LiverGroupConnetion, sel.LiverGroupEdge, sel.PageInfo, indices)
      /\ \A m \in indices : Complete(NodeOf(groups, m), sel.Group, {})
  <2>1. ASSUME groups = {}
        PROVE  <1>6!1 /\ <1>6!2
    <3>1. \A x, y : Part({}, x) /\ Complete({}, y, {})
      BY DEF Part, Complete
    <3>2. CompleteConnection({}, sel.LiverGroupConnetion, sel.LiverGroupEdge, sel.PageInfo, indices)
      BY DEF CompleteConnection, Complete, Child
    <3> HIDE DEF sel, indices
    <3> QED BY <2>1, <3>1, <3>2, CompleteParts
  <2>2. CASE "groups" \notin sel.Liver
    BY <1>5, <2>1, <2>2 DEF Part
  <2>3. CASE "groups" \in sel.Liver /\ late.error
    <3>1. LiverGroups(from, sel).data = {}
      BY <1>2, <2>3 DEF LiverGroups, NonNull, NullWith
    <3> QED BY <1>5, <2>1, <2>3, <3>1 DEF Part
  <2>4. CASE "groups" \in sel.Liver /\ ~late.error
    <3> DEFINE page == Value(late.value)
               conn == GroupConnectionOf(page)
               all == [m \in DOMAIN page.edges |->
                         [node |-> Returned([name |-> Returned(page.edges[m])]),
                          cursor |-> Returned(MarshalText(LiverGroupEdgeCursor(page.edges[m])))]]
    <3>1. conn["edges"] = Returned(all) /\ DOMAIN all = DOMAIN page.edges
      BY DEF GroupConnectionOf
    <3>2. indices = DOMAIN page.edges
      BY <2>4 DEF GroupsFound
    <3> HIDE DEF conn, page, all
    <3>3. The(from["groups"]) = conn
      BY <1>2, <2>4 DEF The, Returned, conn, page
    <3>4. DOMAIN The(conn["edges"]) = indices
      BY <3>1, <3>2 DEF The, Returned
    <3>5. Part(groups, LiverGroupConnetion(conn, sel).data)
      <4>1. Part(LiverGroups(from, sel).data, LiverGroupConnetion(conn, sel).data)
        BY <3>3, PartOfParts DEF LiverGroups
      <4> QED BY <1>5, <2>4, <4>1, PartOfParts
    <3> HIDE DEF sel, indices
    <3>6. /\ CompleteConnection(LiverGroupConnetion(conn, sel).data, sel.LiverGroupConnetion,
                                sel.LiverGroupEdge, sel.PageInfo, indices)
          /\ \A m \in indices : Complete(NodeOf(LiverGroupConnetion(conn, sel).data, m), sel.Group, {})
      BY <1>3, <3>4, GroupsComplete
    <3>7. CASE groups = LiverGroupConnetion(conn, sel).data
      BY <3>6, <3>7
    <3> QED BY <2>1, <3>5, <3>7 DEF Part
  <2> QED BY <2>2, <2>3, <2>4
<1> QED BY <1>4, <1>6 DEF CompleteLiver, groups, liver, from

\* Of each root field of a query, nothing is null that the schema requires and
\* nothing is missing that was returned.
LEMMA RootsComplete ==
  ASSUME op \in Plans, NEW a \in Queries, NEW i \in DOMAIN Of(a).fields
  PROVE  RootComplete(a, i)
<1> DEFINE sel == Of(a).sel
           root == Child(Exec(a).data, Key(KeyOf(i)))
<1>1. Of(a).type # "mutation" /\ InSchema(sel)
  BY SelectedByQuery DEF Queries
<1>2. Part(root, RootResult(a, i).data)
  <2>1. Child({}, Key(KeyOf(i))) = {}
    BY DEF Child
  <2> QED BY <2>1, QueryResponse DEF Part
<1> HIDE DEF root, sel
<1>3. CASE Of(a).fields[i].field = "liver"
  <2>1. Part(RootResult(a, i).data, Liver(LiverOf(a, i, 1), sel, ZeroTime).data)
    <3>1. RootOutcome(a, i).error \/ The(RootOutcome(a, i)) = LiverOf(a, i, 1)
      BY <1>1, <1>3 DEF RootOutcome, The, Returned
    <3> QED BY <1>3, <3>1 DEF RootResult, QueryLiver, OrNull, NullWith, Part, sel
  <2>2. Part(root, Liver(LiverOf(a, i, 1), sel, ZeroTime).data)
    BY <1>2, <2>1, PartOfParts
  <2>3. CompleteLiver(root, sel, GroupsFound(a, i, 1))
    BY <2>2, LiverComplete, CompleteParts DEF sel
  <2> QED BY <1>3, <2>3 DEF RootComplete, root, sel
<1>4. CASE Of(a).fields[i].field # "liver"
  <2> DEFINE conn == ConnectionOf(a, i)
             found == The(conn["edges"])
             fields == [f \in sel.LiverConnection |-> LiverConnectionField(conn, f, sel, ZeroTime)]
             elements == [n \in DOMAIN found |-> LiverEdge(found[n], sel, ZeroTime)]
             EdgeFields(n) == [f \in sel.LiverEdge |-> LiverEdgeField(found[n], f, sel, ZeroTime)]
             whole == LiverConnection(conn, sel, ZeroTime).data
             LiverAt(n) == Liver(LiverOf(a, i, n), sel, ZeroTime).data
  <2>1. Part(RootResult(a, i).data, whole)
    <3>1. RootOutcome(a, i).error \/ The(RootOutcome(a, i)) = conn
      BY <1>1, <1>4 DEF RootOutcome, The, Returned
    <3> HIDE DEF conn
    <3> QED BY <1>4, <3>1 DEF RootResult, QueryLivers, NonNull, NullWith, Part, sel
  <2>2. found = [n \in DOMAIN Found(a, i) |->
                   [node |-> Returned(LiverOf(a, i, n)),
                    cursor |-> Returned(MarshalText(LiverEdgeCursor(Found(a, i)[n].id)))]]
    BY DEF ConnectionOf, The, Returned
  <2>3. /\ DOMAIN found = DOMAIN Found(a, i)
        /\ \A n \in DOMAIN Found(a, i) : found[n]["node"] = Returned(LiverOf(a, i, n))
    BY <2>2
  <2>4. whole = Object(fields, {"edges", "pageInfo"}).data /\ DOMAIN fields = sel.LiverConnection
    BY DEF LiverConnection
  <2>5. /\ "edges" \in DOMAIN fields => Part(fields["edges"].data, List(elements).data)
        /\ "pageInfo" \in DOMAIN fields =>
             Part(fields["pageInfo"].data, PageInfo(The(conn["pageInfo"]), sel).data)
    BY PartOfParts DEF LiverConnectionField, LiverEdges
  <2>6. DOMAIN elements = DOMAIN found
    OBVIOUS
  <2> HIDE DEF conn, found
  <2>7. ASSUME NEW n \in DOMAIN Found(a, i)
        PROVE  /\ elements[n] = Object(EdgeFields(n), {"node", "cursor"})
               /\ DOMAIN EdgeFields(n) = sel.LiverEdge
               /\ "node" \in DOMAIN EdgeFields(n) => Part(EdgeFields(n)["node"].data, LiverAt(n))
    <3>1. elements[n] = Object(EdgeFields(n), {"node", "cursor"}) /\ DOMAIN EdgeFields(n) = sel.LiverEdge
      BY <2>3, <2>7 DEF LiverEdge
    <3>2. The(found[n]["node"]) = LiverOf(a, i, n)
      <4>1. \A v : The(Returned(v)) = v
        BY DEF The, Returned
      <4> QED BY <2>3, <4>1
    <3>3. "node" \in DOMAIN EdgeFields(n) => Part(EdgeFields(n)["node"].data, LiverAt(n))
      BY <3>2, PartOfParts DEF LiverEdgeField
    <3> QED BY <3>1, <3>3
  <2>8. /\ sel.LiverConnection \subseteq {"edges", "pageInfo"}
        /\ sel.LiverEdge \subseteq {"node", "cursor"} \cup {}
    BY <1>1, Selected
  <2> HIDE DEF fields, elements, EdgeFields, whole, LiverAt
  <2>9. ASSUME NEW n \in DOMAIN elements PROVE Complete(elements[n].data, sel.LiverEdge, {})
    <3>1. n \in DOMAIN Found(a, i)
      BY <2>3, <2>6
    <3>2. DOMAIN EdgeFields(n) \subseteq {"node", "cursor"} \cup {}
      BY <2>7, <2>8, <3>1
    <3>3. Complete(Object(EdgeFields(n), {"node", "cursor"}).data, DOMAIN EdgeFields(n), {})
      BY <3>2, CompleteObject
    <3> QED BY <2>7, <3>1, <3>3
  <2>10. CompleteConnection(whole, sel.LiverConnection, sel.LiverEdge, sel.PageInfo, DOMAIN elements)
    <3>1. CompleteConnection(Object(fields, {"edges", "pageInfo"}).data, DOMAIN fields,
                             sel.LiverEdge, sel.PageInfo, DOMAIN elements)
      BY <1>1, <2>4, <2>5, <2>8, <2>9, ConnectionComplete
    <3> QED BY <2>4, <3>1
  <2>11. CompleteConnection(root, sel.LiverConnection, sel.LiverEdge, sel.PageInfo, DOMAIN Found(a, i))
    <3>1. Part(root, whole)
      BY <1>2, <2>1, PartOfParts
    <3> QED BY <2>3, <2>6, <2>10, <3>1, CompleteParts
  <2>12. ASSUME NEW n \in DOMAIN Found(a, i)
         PROVE  CompleteLiver(NodeOf(root, n), sel, GroupsFound(a, i, n))
    <3>1. Part(root, whole)
      BY <1>2, <2>1, PartOfParts
    <3>2. Part(NodeOf(root, n), NodeOf(whole, n))
      BY <3>1, PartOfParts DEF NodeOf
    <3>3. Part(NodeOf(whole, n),
               IF "node" \in DOMAIN EdgeFields(n) THEN EdgeFields(n)["node"].data ELSE {})
      BY <2>3, <2>4, <2>5, <2>6, <2>7, NodeOfConnection
    <3>4. Part(NodeOf(whole, n), LiverAt(n))
      BY <2>7, <3>3 DEF Part
    <3>5. Part(NodeOf(root, n), LiverAt(n))
      BY <3>2, <3>4, PartOfParts
    <3> QED BY <3>5, LiverComplete, CompleteParts DEF LiverAt, sel
  <2> QED BY <1>4, <2>11, <2>12 DEF RootComplete, root, sel
<1> QED BY <1>3, <1>4

LEMMA FieldsOfQuery ==
  ASSUME op \in Plans, NEW a \in Queries, NEW i \in DOMAIN Of(a).fields
  PROVE  Of(a).fields[i].field # "liver" <=> Of(a).fields[i].field = "livers"
<1>1. Valid(Of(a)) /\ Of(a).type = "query"
  BY OperationsAssumption DEF Of, Queries, Attempts
<1> QED BY <1>1 DEF Valid

\* An error of a root field nulls it if it may be null, and the response if not.
LEMMA ErrorsNull ==
  ASSUME op \in Plans, NEW a \in Queries, NEW path \in Exec(a).errors
  PROVE  Along(Exec(a).data, path)[NearestNullable(path, NullableKeys(a))] = {}
<1> DEFINE val == Along(Exec(a).data, path)
<1>1. PICK i \in DOMAIN Of(a).fields : path \in Under(Key(KeyOf(i)), RootResult(a, i).errors)
  BY QueryResponse
<1>2. RootResult(a, i).data = {}
  <2>1. RootResult(a, i).errors # {}
    BY <1>1 DEF Under
  <2> QED BY <2>1, StrictRoot DEF Strict
<1>3. Len(path) \in Nat \ {0} /\ path[1] = Key(KeyOf(i))
  BY <1>1, ErrorsOfRoot
<1>4. val[0] = Exec(a).data /\ \A n \in 1 .. Len(path) : val[n] = Child(val[n - 1], path[n])
  BY <1>3, AlongSteps
<1>5. NearestNullable(path, NullableKeys(a)) = IF Of(a).fields[i].field = "liver" THEN 1 ELSE 0
  BY <1>1, NearestOfRoot
<1> HIDE DEF val
<1>6. val[1] = Child(Exec(a).data, Key(KeyOf(i)))
  <2>1. 1 \in 1 .. Len(path) /\ 1 - 1 = 0
    BY <1>3
  <2>2. val[1] = Child(val[1 - 1], path[1])
    BY <1>4, <2>1
  <2> QED BY <1>3, <1>4, <2>1, <2>2
<1>7. val[1] = {}
  <2>1. Child({}, Key(KeyOf(i))) = {}
    BY DEF Child
  <2> QED BY <1>2, <1>6, <2>1, QueryResponse
<1>8. Of(a).fields[i].field # "liver" => val[0] = {}
  BY <1>2, <1>4, QueryResponse, FieldsOfQuery
<1> QED BY <1>5, <1>7, <1>8 DEF val

\* Where a root field or the response is null there is an error that nulls it.
LEMMA NullsHaveErrors ==
  ASSUME op \in Plans, NEW a \in Queries,
         NEW place \in {<<>>} \cup {<<Key(k)>> : k \in Roots(a)},
         NullAt(Exec(a).data, place)
  PROVE  \E path \in Exec(a).errors :
           SubSeq(path, 1, NearestNullable(path, NullableKeys(a))) = place
<1>1. ASSUME NEW i \in DOMAIN Of(a).fields, RootResult(a, i).data = {}
      PROVE  \E path \in Exec(a).errors :
               SubSeq(path, 1, NearestNullable(path, NullableKeys(a)))
                 = IF Of(a).fields[i].field = "liver" THEN <<Key(KeyOf(i))>> ELSE <<>>
  <2>1. RootResult(a, i).errors # {}
    BY <1>1, StrictRoot DEF Strict
  <2>2. Under(Key(KeyOf(i)), RootResult(a, i).errors) # {}
    BY <2>1, ErrorsUnder
  <2>3. PICK path : path \in Under(Key(KeyOf(i)), RootResult(a, i).errors)
    BY <2>2
  <2>4. path \in Exec(a).errors
    BY <2>3, QueryResponse
  <2>5. NearestNullable(path, NullableKeys(a)) = IF Of(a).fields[i].field = "liver" THEN 1 ELSE 0
    BY <2>3, NearestOfRoot
  <2>6. /\ Len(path) \in Nat \ {0} /\ path = [j \in 1 .. Len(path) |-> path[j]]
        /\ path[1] = Key(KeyOf(i))
    BY <2>3, ErrorsOfRoot
  <2>7. SubSeq(path, 1, 0) = <<>> /\ SubSeq(path, 1, 1) = <<path[1]>>
    <3> DEFINE T == {path[j] : j \in 1 .. Len(path)}
               len == Len(path)
    <3>1. \A j \in 1 .. len : path[j] \in T
      OBVIOUS
    <3> HIDE DEF T, len
    <3>2. path \in Seq(T) /\ len = Len(path)
      BY <2>6, <3>1 DEF len
    <3>3. 1 \in 1 .. len /\ 1 <= len
      BY <2>6 DEF len
    <3>4. SubSeq(path, 1, 0) = <<>>
      BY <2>6, <3>2
    <3>5. SubSeq(path, 1, 1) = <<path[1]>>
      <4>1. SubSeq(path, 1, 1) \in Seq(T) /\ Len(SubSeq(path, 1, 1)) = 1
        BY <2>6, <3>2, <3>3
      <4>2. SubSeq(path, 1, 1)[1] = path[1]
        BY <2>6, <3>2, <3>3
      <4> DEFINE part == SubSeq(path, 1, 1)
      <4> HIDE DEF part
      <4>3. part = [j \in 1 .. 1 |-> part[j]]
        BY <4>1 DEF part
      <4>4. \A j \in 1 .. 1 : part[j] = path[1]
        BY <4>2 DEF part
      <4>5. <<path[1]>> = [j \in 1 .. 1 |-> path[1]]
        OBVIOUS
      <4>6. part = <<path[1]>>
        BY <4>3, <4>4, <4>5
      <4> QED BY <4>6 DEF part
    <3> QED BY <3>4, <3>5
  <2> QED BY <2>4, <2>5, <2>6, <2>7
<1>2. CASE place = <<>>
  <2>1. Exec(a).data = {}
    <3>1. Len(<<>>) = 0
      OBVIOUS
    <3>2. Along(Exec(a).data, place)[0] = {}
      BY <1>2, <3>1 DEF NullAt
    <3> QED BY <1>2, <3>1, <3>2, AlongSteps
  <2>2. PICK i \in DOMAIN Of(a).fields :
          Of(a).fields[i].field = "livers" /\ RootResult(a, i).data = {}
    BY <2>1, QueryResponse
  <2> QED BY <1>1, <1>2, <2>2
<1>3. CASE \E k \in Roots(a) : place = <<Key(k)>>
  <2>1. PICK i \in DOMAIN Of(a).fields : place = <<Key(KeyOf(i))>>
    BY <1>3 DEF Roots
  <2>2. Len(place) = 1 /\ place[1] = Key(KeyOf(i))
    BY <2>1
  <2> DEFINE val == Along(Exec(a).data, place)
  <2>3. val[0] # {} /\ val[1] = {}
    BY <2>2 DEF NullAt
  <2>4. val[0] = Exec(a).data /\ val[1] = Child(val[0], Key(KeyOf(i)))
    <3>1. /\ val[0] = Exec(a).data
          /\ \A n \in 1 .. Len(place) : val[n] = Child(val[n - 1], place[n])
      <4>1. Len(place) \in Nat
        BY <2>2
      <4> QED BY <4>1, AlongSteps
    <3> HIDE DEF val
    <3>2. val[1] = Child(val[1 - 1], place[1]) /\ 1 - 1 = 0
      <4>1. 1 \in 1 .. Len(place)
        BY <2>2
      <4> QED BY <3>1, <4>1
    <3> QED BY <2>2, <3>1, <3>2
  <2> HIDE DEF val
  <2>5. RootResult(a, i).data = {}
    BY <2>3, <2>4, QueryResponse
  <2>6. Of(a).fields[i].field = "liver"
    BY <2>3, <2>4, <2>5, QueryResponse, FieldsOfQuery
  <2> QED BY <1>1, <2>1, <2>5, <2>6
<1> QED BY <1>2, <1>3

\* In the response to any query, whatever its resolvers returned, each error nulls
\* the nearest place around it that the schema lets be null, a root field or the
\* data that is null is so because of an error, and below them nothing is null that
\* the schema requires and nothing is missing that was selected and returned.
THEOREM ResponsesConform == Spec => []ResponseConforms
<1>1. ASSUME EffectsInv PROVE ResponseConforms
  <2> SUFFICES ASSUME NEW a \in Attempts, Of(a).type = "query"
               PROVE  /\ Conforms(Exec(a), NullableKeys(a), Places(a))
                      /\ \A i \in DOMAIN Of(a).fields : RootComplete(a, i)
    BY DEF ResponseConforms
  <2>1. a \in Queries /\ op \in Plans
    BY <1>1 DEF Queries, EffectsInv, Typed
  <2>2. ASSUME NEW path \in Exec(a).errors
        PROVE  Along(Exec(a).data, path)[NearestNullable(path, NullableKeys(a))] = {}
    BY <2>1, ErrorsNull
  <2>3. ASSUME NEW place \in Places(a), NullAt(Exec(a).data, place)
        PROVE  \E path \in Exec(a).errors :
                 SubSeq(path, 1, NearestNullable(path, NullableKeys(a))) = place
    BY <2>1, <2>3, NullsHaveErrors DEF Places
  <2>4. \A i \in DOMAIN Of(a).fields : RootComplete(a, i)
    BY <2>1, RootsComplete
  <2> QED BY <2>2, <2>3, <2>4 DEF Conforms
<1>2. EffectsInv => ResponseConforms
  BY <1>1
<1> QED BY <1>2, EffectsInvariance, PTL
==============================================================================

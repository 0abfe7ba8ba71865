----------------------------- MODULE MCOperations -----------------------------
(* Instances of Operations: two clients of which one registers livers, some   *)
(* under a name the database takes for another's, while the other one          *)
(* registers as well or reads. A day has two ticks.                            *)
EXTENDS Operations

MCClients == {1, 2}
MCNames == {"a", "A", "b"}
MCCollated == [n \in MCNames |-> IF n = "A" THEN "a" ELSE n]

Row(id, name, debutedOn, retiredOn) ==
  [id |-> id, name |-> name, debutedOn |-> debutedOn, retiredOn |-> retiredOn, by |-> <<>>]

MCTables == {{}, {Row(1, "b", 1, {})}, {Row(1, "b", -3, {0}), Row(2, "a", ZeroTime, {})}}

FullSelection ==
  [Liver |-> {"name", "debuted_on", "retired_on", "status", "enrollmentDays"},
   LiverConnection |-> {"edges", "pageInfo"}, LiverEdge |-> {"node", "cursor"},
   PageInfo |-> {"hasPreviousPage", "hasNextPage", "startCursor", "endCursor"},
   LiverGroupConnetion |-> {"edges", "pageInfo"}, LiverGroupEdge |-> {"node", "cursor"},
   Group |-> {"name"}]
WithGroups == [FullSelection EXCEPT !.Liver = {"name", "groups"}]
NamesOnly == [FullSelection EXCEPT !.Liver = {"name"}]

Registers(names, tries) ==
  [type |-> "mutation", tries |-> tries, sel |-> FullSelection, groupsArgs |-> <<>>,
   fields |-> [i \in DOMAIN names |-> [field |-> "registerLiver", args |-> [name |-> Name(names[i])]]]]

Reads(sel, groupsArgs, fields) ==
  [type |-> "query", tries |-> 1, sel |-> sel, groupsArgs |-> groupsArgs, fields |-> fields]
LiverNamed(n) == [field |-> "liver", args |-> [name |-> Name(n)]]
LiversWith(args) == [field |-> "livers", args |-> args]

Pages == {[first |-> Number(1)], [first |-> Number(2), orderBy |-> OrderBy("DATABASE_ID", "DESC")],
          [first |-> Number(1), after |-> MarshalText(LiverEdgeCursor(1))],
          [first |-> Number(1), after |-> MarshalText(ScalarCursor)],
          [first |-> Number(-1), after |-> MarshalText(ScalarCursor)],
          [first |-> Null], [after |-> Null, orderBy |-> Null],
          [after |-> NoCursor], [first |-> Number(1), after |-> NoCursor],
          [after |-> Number(5)], [first |-> HugeNumber]}

GroupArgs == {<<>>, [first |-> Number(1)], [first |-> Null, after |-> MarshalText(LiverGroupEdgeCursor(2))],
              [after |-> NoCursor], [first |-> HugeNumber]}

Joined == {Reads(FullSelection, <<>>, <<LiverNamed("A")>>),
           Reads(FullSelection, <<>>, <<LiversWith([first |-> Number(2)])>>)}

Queries ==
  {Reads(FullSelection, <<>>, <<LiverNamed("b")>>)}
  \cup {Reads(WithGroups, g, <<LiversWith([first |-> Number(2)])>>) : g \in GroupArgs}
  \cup {Reads(NamesOnly, <<>>, <<LiverNamed("b"), LiversWith(p)>>) : p \in Pages}

\* Two clients register, or one registers while the other reads, or one reads.
MCPlans ==
  {<<Registers(<<"a", "b">>, 2), Registers(<<"A">>, 2)>>}
  \cup {<<Registers(<<"a">>, 2), q>> : q \in Joined}
  \cup {<<Registers(<<"a">>, 0), q>> : q \in Queries}
==============================================================================

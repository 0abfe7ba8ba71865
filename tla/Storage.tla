------------------------------- MODULE Storage -------------------------------
(* Which statements of the program the database accepts, and when: the tables *)
(* are those of db/ddl.sql or of db/init.sql, whichever script ran last, and  *)
(* the server checks inserts as strictly as its sql_mode says.                *)
EXTENDS Naturals

\* "strict" is the mode of db/conf.d/server.cnf; the DSN may set another one.
Modes == {"strict", "loose"}

GroupKey == [ddl |-> "group_id", init |-> "liver_group_id"]

ColumnsOf(script) ==
  [livers |-> {"liver_id", "name", "debuted_on", "retired_on"},
   liver_groups |-> {GroupKey[script], "name"},
   liver_group_members |-> {"liver_group_id", "liver_id"}]

\* Columns that are not null, have no default and no auto_increment.
Required == [livers |-> {"name", "debuted_on"},
             liver_groups |-> {"name"},
             liver_group_members |-> {"liver_group_id", "liver_id"}]

-----------------------------------------------------------------------------
(* A statement: the columns it names, each of a table, the tables of which it *)
(* selects every column, the fields its rows are scanned into, the tables it  *)
(* inserts into, and whether that is INSERT IGNORE.                           *)

Statement(named, all, fields) ==
  [named |-> named, all |-> all, fields |-> fields, into |-> {}, ignore |-> FALSE]

Insertion(table, columns, ignore) ==
  [named |-> {table} \X columns, all |-> {}, fields |-> {}, into |-> {table},
   ignore |-> ignore]

\* An unknown column is an error of the database.
KnownColumns(stmt, script) ==
  \A c \in stmt.named : c[2] \in ColumnsOf(script)[c[1]]

\* A column without a field is an error of sqlx ("missing destination name").
Scans(stmt, script) ==
  \A table \in stmt.all : ColumnsOf(script)[table] \subseteq stmt.fields

\* What an insert leaves out is an error of a strict server, and of none when
\* the insert is INSERT IGNORE.
Complete(stmt) ==
  stmt.ignore \/ \A table \in stmt.into : {table} \X Required[table] \subseteq stmt.named

Accepted(stmt, script, mode) ==
  /\ KnownColumns(stmt, script)
  /\ Scans(stmt, script)
  /\ mode = "strict" => Complete(stmt)

-----------------------------------------------------------------------------
(* The statements of domain/repos.go.                                        *)

LiverFields == {"liver_id", "name", "debuted_on", "retired_on"}
GroupFields == {"liver_group_id", "name"}

GetLivers == Statement({<<"livers", "liver_id">>}, {"livers"}, LiverFields)
GetLiverByName == Statement({<<"livers", "name">>}, {"livers"}, LiverFields)
RegisterLiver == Insertion("livers", {"name"}, FALSE)

\* The condition on the members compares the name of their table, which is no
\* column.
JoinedMembers == {<<"liver_group_members", "liver_group_id">>,
                  <<"liver_groups", "liver_group_id">>,
                  <<"liver_group_members", "liver_group_members">>}

GetBelongingGroupsByLivers ==
  Statement(JoinedMembers \cup {<<"liver_group_members", "liver_id">>}, {"liver_groups"},
            GroupFields \cup {"liver_id"})

\* No caller in the repository.
GetBelongingGruopsByLiver == Statement(JoinedMembers, {"liver_groups"}, GroupFields)

-----------------------------------------------------------------------------
(* The statements of the importer.                                           *)

ListLivers == Statement({<<"livers", "name">>, <<"livers", "liver_id">>}, {}, {})
CreateGroups == Insertion("liver_groups", {"name"}, TRUE)
ListGroups == Statement({<<"liver_groups", "group_id">>}, {"liver_groups"}, {"name", "group_id"})
RegisterMembers == Insertion("liver_group_members", {"liver_group_id", "liver_id"}, TRUE)
==============================================================================

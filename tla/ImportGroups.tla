----------------------------- MODULE ImportGroups -----------------------------
(* cmd/import-liver-groups: the groups of a JSON file and their members are    *)
(* written to the database by separate statements, outside any transaction.   *)
(* Runs may overlap, fail or crash, and are started again by hand; livers are  *)
(* registered meanwhile. Ids stand for names one to one, so the maps by name   *)
(* that a run reads are the sets of their names.                               *)
EXTENDS Naturals, Sequences

CONSTANTS Runs,        \* executions of the importer
          LiverNames,  \* livers that may be registered
          GroupNames,  \* names of groups, as Go compares them
          Key,         \* what the unique key makes of a name (its collation)
          Data,        \* the file: a sequence of [name, members]
          Schemas      \* the scripts that may have created the tables last

ASSUME ImportAssumption ==
  /\ Key \in [GroupNames -> GroupNames]
  /\ Data \in Seq([name : GroupNames, members : SUBSET LiverNames])
  /\ Schemas \subseteq {"ddl", "init"}

VARIABLES
  schema,   \* the script that created the tables
  livers,   \* names in livers
  groups,   \* names in liver_groups
  members,  \* pairs of a group and a liver in liver_group_members
  pc,       \* where each run is
  json,     \* the run's file: "pending", "ok" or "error"
  listing,  \* the run's select of the livers: the same
  known,    \* liverIDByName of each run
  ids       \* groupIDByName of each run

tables == <<schema, livers, groups, members>>
vars == <<schema, livers, groups, members, pc, json, listing, known, ids>>

Status == {"pending", "ok", "error"}
Ended == {"done", "failed", "crashed"}
Phases == {"idle", "prepare", "create", "select", "first", "second"} \cup Ended

-----------------------------------------------------------------------------
(* Statements and the tables they meet.                                      *)

Db == INSTANCE Storage

\* The inserts are INSERT IGNORE, so the server's mode does not matter.
Accepts(stmt) == Db!Accepted(stmt, schema, "strict")

\* INSERT IGNORE keeps the first of the names its unique key cannot tell apart.
Fresh(i) ==
  /\ \A g \in groups : Key[g] # Key[Data[i].name]
  /\ \A j \in 1 .. (i - 1) : Key[Data[j].name] # Key[Data[i].name]
NewGroups == {Data[i].name : i \in {k \in DOMAIN Data : Fresh(k)}}

LastEntry(r) ==  \* variants of Rows
  {row \in ids[r] \X known[r] :
     Data[Len(Data)].name = row[1] /\ row[2] \in Data[Len(Data)].members}
LiversNow(r) ==
  {row \in ids[r] \X livers :
     \E i \in DOMAIN Data : Data[i].name = row[1] /\ row[2] \in Data[i].members}

\* The values registerMembers collects; what either map lacks is skipped.
Rows(r) ==
  {row \in ids[r] \X known[r] :
     \E i \in DOMAIN Data : Data[i].name = row[1] /\ row[2] \in Data[i].members}

-----------------------------------------------------------------------------
(* A run.                                                                    *)

Init ==
  /\ schema \in Schemas
  /\ livers \in SUBSET LiverNames
  /\ groups \in {gs \in SUBSET GroupNames : \A g, h \in gs : Key[g] = Key[h] => g = h}
  /\ members = {}
  /\ pc = [r \in Runs |-> "idle"]
  /\ json = [r \in Runs |-> "pending"]
  /\ listing = [r \in Runs |-> "pending"]
  /\ known = [r \in Runs |-> {}]
  /\ ids = [r \in Runs |-> {}]

Goto(r, phase) == pc' = [pc EXCEPT ![r] = phase]

\* db.New only parses the DSN.
Begin(r) ==
  /\ pc[r] = "idle"
  /\ Goto(r, "prepare") \/ Goto(r, "failed")
  /\ UNCHANGED <<tables, json, listing, known, ids>>

\* Two goroutines of an errgroup. The file's failure cancels prepareCtx, which
\* the select does not use.
LoadJSONData(r) ==
  /\ pc[r] = "prepare" /\ json[r] = "pending"
  /\ \E s \in {"ok", "error"} : json' = [json EXCEPT ![r] = s]
  /\ UNCHANGED <<tables, pc, listing, known, ids>>

GetAllLivers(r) ==
  /\ pc[r] = "prepare" /\ listing[r] = "pending"
  /\ \/ /\ Accepts(Db!ListLivers)
        /\ listing' = [listing EXCEPT ![r] = "ok"]
        /\ known' = [known EXCEPT ![r] = livers]
     \/ listing' = [listing EXCEPT ![r] = "error"] /\ UNCHANGED known
  /\ UNCHANGED <<tables, pc, json, ids>>

BothOk(r) == json[r] = "ok" /\ listing[r] = "ok"  \* variants
OneOk(r) == json[r] = "ok" \/ listing[r] = "ok"

Settled(r) == json[r] # "pending" /\ listing[r] # "pending"
Prepared(r) == json[r] = "ok" /\ listing[r] = "ok"

WaitPrepared(r) ==
  /\ pc[r] = "prepare" /\ Settled(r)
  /\ Goto(r, IF Prepared(r) THEN "create" ELSE "failed")
  /\ UNCHANGED <<tables, json, listing, known, ids>>

\* A statement may take effect although its run only learns of an error.
InsertGroups(r) ==
  /\ pc[r] = "create"
  /\ Data # <<>>
  /\ Accepts(Db!CreateGroups)
  /\ groups' = groups \cup NewGroups
  /\ Goto(r, "select") \/ Goto(r, "failed")
  /\ UNCHANGED <<schema, livers, members, json, listing, known, ids>>

SelectGroups(r) ==
  /\ pc[r] = "select"
  /\ Accepts(Db!ListGroups)
  /\ ids' = [ids EXCEPT ![r] = groups]
  /\ Goto(r, "first")
  /\ UNCHANGED <<tables, json, listing, known>>

NextPass(phase) == IF phase = "first" THEN "second" ELSE "done"

\* Called twice with the same arguments.
RegisterMembers(r) ==
  /\ pc[r] \in {"first", "second"}
  /\ Rows(r) # {}
  /\ Accepts(Db!RegisterMembers)
  /\ members' = members \cup Rows(r)
  /\ Goto(r, NextPass(pc[r])) \/ Goto(r, "failed")
  /\ UNCHANGED <<schema, livers, groups, json, listing, known, ids>>

\* Every statement may fail without an effect. An insert of no values always
\* does (goqu leaves a statement MySQL rejects), and so does the select of a
\* column the table lacks.
StatementFails(r) ==
  /\ pc[r] \in {"create", "select", "first", "second"}
  /\ Goto(r, "failed")
  /\ UNCHANGED <<tables, json, listing, known, ids>>

Crash(r) ==
  /\ pc[r] \notin Ended \cup {"idle"}
  /\ Goto(r, "crashed")
  /\ UNCHANGED <<tables, json, listing, known, ids>>

\* Another process registers a liver.
RegisterLiver(l) ==
  /\ l \in LiverNames \ livers
  /\ livers' = livers \cup {l}
  /\ UNCHANGED <<schema, groups, members, pc, json, listing, known, ids>>

Step(r) == \/ LoadJSONData(r) \/ GetAllLivers(r) \/ WaitPrepared(r)
           \/ InsertGroups(r) \/ SelectGroups(r) \/ RegisterMembers(r)
           \/ StatementFails(r)

Next == \/ \E r \in Runs : Begin(r) \/ Step(r) \/ Crash(r)
        \/ \E l \in LiverNames : RegisterLiver(l)

Spec == Init /\ [][Next]_vars

\* A started run goes on: the database answers every statement, if only with an
\* error, and goroutines are scheduled.
FairSpec == Spec /\ \A r \in Runs : WF_vars(Step(r))

-----------------------------------------------------------------------------
(* Properties.                                                               *)

TypeOK ==
  /\ schema \in Schemas
  /\ livers \in SUBSET LiverNames
  /\ groups \in SUBSET GroupNames
  /\ members \in SUBSET (GroupNames \X LiverNames)
  /\ pc \in [Runs -> Phases]
  /\ json \in [Runs -> Status] /\ listing \in [Runs -> Status]
  /\ known \in [Runs -> SUBSET LiverNames]
  /\ ids \in [Runs -> SUBSET GroupNames]
  /\ \A r \in Runs : pc[r] \in {"create", "select", "first", "second", "done"} => BothOk(r)

\* When a run ends without an error, every liver it had listed is a member of
\* every group the file gives it and the table holds by that name. A group whose
\* name the unique key takes for another's is not there, and its members are
\* skipped. Runs that crashed or failed before do not matter.
ImportComplete ==
  \A r \in Runs : pc[r] = "done" =>
    \A i \in DOMAIN Data : Data[i].name \in groups =>
      \A l \in Data[i].members \cap known[r] : <<Data[i].name, l>> \in members

\* Importing again is idempotent, whoever does it: once a run has got past its
\* first call of registerMembers, neither its own second call nor a run that
\* overlaps it, takes up after a crash or starts later has anything left to write,
\* unless it listed livers which that run had not.
NothingLeftToWrite ==
  \A r, s \in Runs :
    (pc[r] \in {"second", "done"} /\ pc[s] \in {"first", "second"} /\ known[s] \subseteq known[r])
      => Rows(s) \subseteq members

\* The server can read what a run imported: the tables an import can succeed in
\* (db/ddl.sql declares group_id) are tables its query for groups fits.
ImportReadable ==
  \A r \in Runs : pc[r] = "done" => Accepts(Db!GetBelongingGroupsByLivers)

\* A started run ends, if only with an error.
RunEnds == \A r \in Runs : pc[r] = "prepare" ~> pc[r] \in Ended
==============================================================================

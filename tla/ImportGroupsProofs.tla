-------------------------- MODULE ImportGroupsProofs --------------------------
(* Theorems about ImportGroups, for any number of overlapping runs, any file   *)
(* and any collation of the unique key.                                        *)
EXTENDS ImportGroups, WellFoundedInduction, TLAPS

Wanted(i) == \E g \in groups : Key[g] = Key[Data[i].name]
AfterInsert == {"select", "first", "second", "done"}
AfterSelect == {"first", "second", "done"}
AfterFirst == {"second", "done"}

\* The unique key of liver_groups holds.
KeysDistinct == \A g, h \in groups : Key[g] = Key[h] => g = h

\* What a run has read is still there.
ReadsLast == \A r \in Runs : known[r] \subseteq livers /\ ids[r] \subseteq groups

\* Behind its insert a run finds each name of the file, or one the key takes for
\* it; behind its select, no name of the file can still appear.
NamesTaken == \A r \in Runs : pc[r] \in AfterInsert => \A i \in DOMAIN Data : Wanted(i)
NamesRead == \A r \in Runs : pc[r] \in AfterSelect =>
               \A i \in DOMAIN Data : Data[i].name \in groups => Data[i].name \in ids[r]

RowsWritten == \A r \in Runs : pc[r] \in AfterFirst => Rows(r) \subseteq members

IInv == /\ TypeOK /\ KeysDistinct /\ ReadsLast /\ NamesTaken /\ NamesRead
        /\ RowsWritten

USE DEF Ended, Phases, Status, AfterInsert, AfterSelect, AfterFirst

\* A set of numbers that is not empty has a least element.
LEMMA LeastNumber == ASSUME NEW T \in SUBSET Nat, T # {}
                     PROVE  \E x \in T : \A y \in T : ~(y < x)
<1> DEFINE Less == {p \in Nat \X Nat : p[1] < p[2]}
<1>1. IsWellFoundedOn(Less, Nat)
  BY NatLessThanWellFounded DEF OpToRel
<1>2. \E x \in T : \A y \in T : ~(<<y, x>> \in Less)
  BY <1>1, WFMin
<1> QED BY <1>2

LEMMA DataTypes == /\ DOMAIN Data \subseteq Nat \ {0}
                   /\ \A i \in DOMAIN Data : /\ Data[i].name \in GroupNames
                                             /\ Data[i].members \in SUBSET LiverNames
                                             /\ 1 .. (i - 1) \subseteq DOMAIN Data
<1> DEFINE Entries == [name : GroupNames, members : SUBSET LiverNames]
<1>1. Data \in Seq(Entries)
  BY ImportAssumption DEF ImportAssumption
<1> HIDE DEF Entries
<1>2. /\ DOMAIN Data = 1 .. Len(Data) /\ Len(Data) \in Nat
      /\ \A i \in DOMAIN Data : Data[i] \in Entries
  BY <1>1
<1>3. \A i \in DOMAIN Data : Data[i].name \in GroupNames /\ Data[i].members \in SUBSET LiverNames
  BY <1>2 DEF Entries
<1> QED BY <1>2, <1>3

\* INSERT IGNORE adds names of the file only, no two that the key takes for one,
\* and behind it every name of the file is taken.
LEMMA InsertIgnore ==
  ASSUME TypeOK, KeysDistinct, groups' = groups \cup NewGroups
  PROVE  /\ NewGroups \subseteq GroupNames
         /\ KeysDistinct'
         /\ \A i \in DOMAIN Data : Wanted(i)'
         /\ \A i \in DOMAIN Data : Wanted(i) /\ Data[i].name \in groups' => Data[i].name \in groups
<1>1. NewGroups \subseteq GroupNames
  BY DataTypes DEF NewGroups
<1>2. KeysDistinct'
  <2> SUFFICES ASSUME NEW g \in groups', NEW h \in groups', Key[g] = Key[h] PROVE g = h
    BY DEF KeysDistinct
  <2>1. CASE g \in groups /\ h \in groups
    BY <2>1 DEF KeysDistinct
  <2>2. CASE g \in groups /\ h \in NewGroups
    BY <2>2 DEF NewGroups, Fresh
  <2>3. CASE g \in NewGroups /\ h \in groups
    BY <2>3 DEF NewGroups, Fresh
  <2>4. CASE g \in NewGroups /\ h \in NewGroups
    <3>1. PICK i \in DOMAIN Data : Data[i].name = g /\ Fresh(i)
      BY <2>4 DEF NewGroups
    <3>2. PICK j \in DOMAIN Data : Data[j].name = h /\ Fresh(j)
      BY <2>4 DEF NewGroups
    <3>3. ~(i < j) /\ ~(j < i)
      BY <3>1, <3>2, DataTypes DEF Fresh
    <3> QED BY <3>1, <3>2, <3>3, DataTypes
  <2> QED BY <2>1, <2>2, <2>3, <2>4
<1>3. ASSUME NEW i \in DOMAIN Data PROVE Wanted(i)'
  <2>1. CASE \E g \in groups : Key[g] = Key[Data[i].name]
    BY <2>1 DEF Wanted
  <2>2. CASE \A g \in groups : Key[g] # Key[Data[i].name]
    <3> DEFINE T == {j \in DOMAIN Data : Key[Data[j].name] = Key[Data[i].name]}
    <3>1. T \in SUBSET Nat /\ T # {}
      BY DataTypes
    <3>2. PICK j \in T : \A k \in T : ~(k < j)
      BY <3>1, LeastNumber
    <3>3. Fresh(j)
      BY <2>2, <3>2, DataTypes DEF Fresh
    <3>4. Data[j].name \in groups'
      BY <3>2, <3>3 DEF NewGroups
    <3> QED BY <3>2, <3>4 DEF Wanted
  <2> QED BY <2>1, <2>2
<1>4. ASSUME NEW i \in DOMAIN Data, Wanted(i), Data[i].name \in groups'
      PROVE  Data[i].name \in groups
  BY <1>4 DEF Wanted, NewGroups, Fresh
<1> QED BY <1>1, <1>2, <1>3, <1>4

\* A step that writes no group and no member, and reads nothing, keeps IInv when
\* its run goes on with what IInv asks of the next phase.
LEMMA MovesKeepIInv ==
  ASSUME IInv, NEW r \in Runs, NEW phase \in Phases, Goto(r, phase),
         UNCHANGED <<schema, groups, members, known, ids>>,
         livers' \in SUBSET LiverNames, livers \subseteq livers',
         json' = json, listing' = listing,
         phase \in {"create"} \cup AfterInsert => BothOk(r),
         phase \in AfterInsert => pc[r] \in AfterInsert,
         phase \in AfterSelect => pc[r] \in AfterSelect,
         phase \in AfterFirst => pc[r] \in AfterFirst
  PROVE  IInv'
<1>1. \A q \in Runs : pc'[q] = IF q = r THEN phase ELSE pc[q]
  BY DEF Goto, IInv, TypeOK
<1>2. TypeOK'
  BY <1>1 DEF Goto, IInv, TypeOK, BothOk
<1>3. KeysDistinct' /\ ReadsLast'
  BY DEF IInv, KeysDistinct, ReadsLast
<1>4. NamesTaken' /\ NamesRead'
  BY <1>1 DEF IInv, NamesTaken, NamesRead, Wanted
<1>5. RowsWritten'
  BY <1>1 DEF IInv, RowsWritten, Rows
<1> QED BY <1>2, <1>3, <1>4, <1>5 DEF IInv

LEMMA InitIInv == Init => IInv
<1> SUFFICES ASSUME Init PROVE IInv
  OBVIOUS
<1>1. TypeOK
  BY DEF Init, TypeOK
<1>2. KeysDistinct /\ ReadsLast /\ NamesTaken /\ NamesRead /\ RowsWritten
  BY DEF Init, KeysDistinct, ReadsLast, NamesTaken, NamesRead, RowsWritten
<1> QED BY <1>1, <1>2 DEF IInv

LEMMA NextKeepsIInv == IInv /\ [Next]_vars => IInv'
<1> SUFFICES ASSUME IInv, [Next]_vars PROVE IInv'
  OBVIOUS
<1>1. ASSUME NEW r \in Runs, Begin(r) \/ StatementFails(r) \/ Crash(r) PROVE IInv'
  BY <1>1, MovesKeepIInv DEF Begin, StatementFails, Crash, tables, IInv, TypeOK
<1>2. ASSUME NEW r \in Runs, WaitPrepared(r) PROVE IInv'
  BY <1>2, MovesKeepIInv DEF WaitPrepared, Prepared, BothOk, tables, IInv, TypeOK
<1>3. ASSUME NEW r \in Runs, LoadJSONData(r) \/ GetAllLivers(r) PROVE IInv'
  <2>1. /\ UNCHANGED <<schema, livers, groups, members, pc, ids>> /\ pc[r] = "prepare"
        /\ json' \in [Runs -> Status] /\ listing' \in [Runs -> Status]
        /\ known' \in [Runs -> SUBSET LiverNames]
        /\ \A q \in Runs \ {r} : /\ json'[q] = json[q] /\ listing'[q] = listing[q]
                                 /\ known'[q] = known[q]
        /\ known'[r] \subseteq livers
    BY <1>3 DEF LoadJSONData, GetAllLivers, tables, IInv, TypeOK, ReadsLast
  <2>2. TypeOK'
    BY <2>1 DEF IInv, TypeOK, BothOk
  <2>3. KeysDistinct' /\ ReadsLast' /\ NamesTaken' /\ NamesRead'
    BY <2>1 DEF IInv, KeysDistinct, ReadsLast, NamesTaken, NamesRead, Wanted
  <2>4. RowsWritten'
    BY <2>1 DEF IInv, RowsWritten, Rows
  <2> QED BY <2>2, <2>3, <2>4 DEF IInv
<1>4. ASSUME NEW r \in Runs, InsertGroups(r) PROVE IInv'
  <2>1. /\ groups' = groups \cup NewGroups
        /\ UNCHANGED <<schema, livers, members, json, listing, known, ids>>
        /\ pc[r] = "create" /\ pc'[r] \in {"select", "failed"}
        /\ pc' \in [Runs -> Phases]
        /\ \A q \in Runs \ {r} : pc'[q] = pc[q]
    BY <1>4 DEF InsertGroups, Goto, IInv, TypeOK
  <2>2. /\ NewGroups \subseteq GroupNames
        /\ KeysDistinct'
        /\ \A i \in DOMAIN Data : Wanted(i)'
        /\ \A i \in DOMAIN Data : Wanted(i) /\ Data[i].name \in groups' => Data[i].name \in groups
    BY <2>1, InsertIgnore DEF IInv
  <2>3. TypeOK'
    BY <2>1, <2>2 DEF IInv, TypeOK, BothOk
  <2>4. ReadsLast'
    BY <2>1 DEF IInv, ReadsLast
  <2>5. NamesTaken'
    BY <2>2 DEF NamesTaken
  <2>6. NamesRead'
    BY <2>1, <2>2 DEF IInv, NamesTaken, NamesRead
  <2>7. RowsWritten'
    BY <2>1 DEF IInv, RowsWritten, Rows
  <2> QED BY <2>2, <2>3, <2>4, <2>5, <2>6, <2>7 DEF IInv
<1>5. ASSUME NEW r \in Runs, SelectGroups(r) PROVE IInv'
  <2>1. /\ UNCHANGED <<schema, livers, groups, members, json, listing, known>>
        /\ pc[r] = "select" /\ pc'[r] = "first"
        /\ pc' \in [Runs -> Phases] /\ ids' \in [Runs -> SUBSET GroupNames]
        /\ ids'[r] = groups
        /\ \A q \in Runs \ {r} : pc'[q] = pc[q] /\ ids'[q] = ids[q]
    BY <1>5 DEF SelectGroups, Goto, tables, IInv, TypeOK
  <2>2. TypeOK'
    BY <2>1 DEF IInv, TypeOK, BothOk
  <2>3. KeysDistinct' /\ ReadsLast' /\ NamesTaken' /\ NamesRead'
    BY <2>1 DEF IInv, KeysDistinct, ReadsLast, NamesTaken, NamesRead, Wanted
  <2>4. RowsWritten'
    BY <2>1 DEF IInv, RowsWritten, Rows
  <2> QED BY <2>2, <2>3, <2>4 DEF IInv
<1>6. ASSUME NEW r \in Runs, RegisterMembers(r) PROVE IInv'
  <2>1. /\ UNCHANGED <<schema, livers, groups, json, listing, known, ids>>
        /\ members' = members \cup Rows(r)
        /\ pc[r] \in {"first", "second"} /\ pc'[r] \in {"second", "done", "failed"}
        /\ pc' \in [Runs -> Phases]
        /\ \A q \in Runs \ {r} : pc'[q] = pc[q]
    BY <1>6 DEF RegisterMembers, Goto, NextPass, IInv, TypeOK
  <2>2. Rows(r) \subseteq GroupNames \X LiverNames
    BY DEF Rows, IInv, TypeOK, ReadsLast
  <2>3. TypeOK'
    BY <2>1, <2>2 DEF IInv, TypeOK, BothOk
  <2>4. KeysDistinct' /\ ReadsLast' /\ NamesTaken' /\ NamesRead'
    BY <2>1 DEF IInv, KeysDistinct, ReadsLast, NamesTaken, NamesRead, Wanted
  <2>5. RowsWritten'
    BY <2>1 DEF IInv, RowsWritten, Rows
  <2> QED BY <2>3, <2>4, <2>5 DEF IInv
<1>7. ASSUME NEW l \in LiverNames, RegisterLiver(l) PROVE IInv'
  <2>1. /\ UNCHANGED <<schema, groups, members, pc, json, listing, known, ids>>
        /\ livers' = livers \cup {l}
    BY <1>7 DEF RegisterLiver
  <2>2. TypeOK'
    BY <2>1 DEF IInv, TypeOK, BothOk
  <2>3. KeysDistinct' /\ ReadsLast' /\ NamesTaken' /\ NamesRead' /\ RowsWritten'
    BY <2>1 DEF IInv, KeysDistinct, ReadsLast, NamesTaken, NamesRead,
                RowsWritten, Rows, Wanted
  <2> QED BY <2>2, <2>3 DEF IInv
<1>8. CASE UNCHANGED vars
  BY <1>8 DEF vars, IInv, TypeOK, KeysDistinct, ReadsLast, NamesTaken, NamesRead,
              RowsWritten, Rows, Wanted, BothOk
<1> QED
  BY <1>1, <1>2, <1>3, <1>4, <1>5, <1>6, <1>7, <1>8 DEF Next, Step

LEMMA Invariance == Spec => []IInv
BY InitIInv, NextKeepsIInv, PTL DEF Spec

\* The importer's variables keep their types, and a run writes only after it has
\* both the file and the livers (cmd/import-liver-groups/main.go, run).
THEOREM ImportTypeCorrect == Spec => []TypeOK
<1>1. IInv => TypeOK
  BY DEF IInv
<1> QED BY <1>1, Invariance, PTL

\* A run that ends without an error has written every membership of the file
\* between a liver it listed and a group the table holds.
THEOREM ImportsAreComplete == Spec => []ImportComplete
<1>1. IInv => ImportComplete
  <2> SUFFICES ASSUME IInv, NEW r \in Runs, pc[r] = "done",
                      NEW i \in DOMAIN Data, Data[i].name \in groups,
                      NEW l \in Data[i].members \cap known[r]
               PROVE  <<Data[i].name, l>> \in members
    BY DEF ImportComplete
  <2>1. Data[i].name \in ids[r]
    BY DEF IInv, NamesRead
  <2>2. <<Data[i].name, l>> \in Rows(r)
    BY <2>1 DEF Rows
  <2> QED BY <2>2 DEF IInv, RowsWritten
<1> QED BY <1>1, Invariance, PTL

\* Once a run has written its memberships, no run that listed no other livers has
\* any left to write, however they overlap, fail or crash.
THEOREM ReimportsWriteNothing == Spec => []NothingLeftToWrite
<1>1. IInv => NothingLeftToWrite
  <2> SUFFICES ASSUME IInv, NEW r \in Runs, NEW s \in Runs, pc[r] \in AfterFirst,
                      known[s] \subseteq known[r], NEW row \in Rows(s)
               PROVE  row \in members
    BY DEF NothingLeftToWrite
  <2>1. row[1] \in groups
    BY DEF Rows, IInv, ReadsLast
  <2>2. row \in Rows(r)
    BY <2>1 DEF Rows, IInv, NamesRead
  <2> QED BY <2>2 DEF IInv, RowsWritten
<1> QED BY <1>1, Invariance, PTL
==============================================================================

-------------------------------- MODULE Pages --------------------------------
(* LiverPages and GroupPages side by side: a behaviour is that of a client of  *)
(* one of the two connections; the other one rests. Both ask for pages of      *)
(* "first" elements and go on while "more" is announced.                       *)
EXTENDS LiverPages

CONSTANTS GroupIds, Afters

VARIABLES of,                                            \* the connection
          ordered, belongs, after, asked, reply, seen    \* GroupPages

groupVars == <<ordered, belongs, after, asked, reply, seen>>
liverVars == <<via, livers, reserved, orderBy, atStart, pages, cursor>>
allVars == <<of, liverVars, groupVars, first, more>>

GroupList == INSTANCE GroupPages

ASSUME PagesAssumption == LiverPagesAssumption /\ GroupList!GroupPagesAssumption

LiversRest ==
  /\ via = "graphql" /\ livers = {} /\ reserved = {} /\ orderBy = "none"
  /\ atStart = {} /\ pages = <<>> /\ cursor = {}

GroupsRest ==
  /\ ordered = FALSE /\ belongs = {} /\ after = {}
  /\ asked = [rows |-> <<>>, after |-> {}]
  /\ reply = GroupList!NoReply /\ seen = {}

PagesInit == \/ of = "livers" /\ Init /\ GroupsRest
             \/ of = "groups" /\ GroupList!Init /\ LiversRest

LiverFetch == of = "livers" /\ FetchPage /\ UNCHANGED <<of, groupVars>>
GroupFetch == of = "groups" /\ GroupList!FetchPage /\ UNCHANGED <<of, liverVars>>

PagesNext == \/ of = "livers" /\ Next /\ UNCHANGED <<of, groupVars>>
             \/ of = "groups" /\ GroupList!Next /\ UNCHANGED <<of, liverVars>>

PagesSpec == PagesInit /\ [][PagesNext]_allVars /\ WF_allVars(LiverFetch) /\ WF_allVars(GroupFetch)

\* The variables of both clients keep their types, whichever of them asks.
PagesTypeOK ==
  IF of = "livers" THEN TypeOK ELSE of = "groups" /\ GroupList!TypeOK

\* A page of groups announces another when groups are left behind it, and a first
\* page only then (see GroupPages).
AnnouncesNext == GroupList!AnnouncesNext

\* A walk shows every group the liver keeps (see GroupPages).
WalkSeesStable == GroupList!WalkSeesStable
==============================================================================

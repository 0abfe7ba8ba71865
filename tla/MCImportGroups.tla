---------------------------- MODULE MCImportGroups ----------------------------
(* Two runs over a file of three groups, of which the unique key takes two for *)
(* the same name, and three livers, one of them in no group.                   *)
EXTENDS ImportGroups, TLC

CONSTANTS r1, r2, l1, l2, l3, g1, g2, g3

MCKey == (g1 :> g1) @@ (g2 :> g1) @@ (g3 :> g3)
MCData == <<[name |-> g1, members |-> {l1, l2}],
            [name |-> g2, members |-> {l2}],
            [name |-> g3, members |-> {l1}]>>
==============================================================================

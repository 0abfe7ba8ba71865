------------------------------- MODULE MCPages -------------------------------
(* Instances of Pages. Page sizes are smaller than, equal to and larger than  *)
(* the list, and those the resolvers answer specially; cursors are a group's,  *)
(* a liver's and one whose value is no object.                                 *)
EXTENDS Pages

MCFirsts == {{1}, {2}, {3}, {}, {-1}, {0}}
MCAfters == {{}, {LiverGroupEdgeCursor(2)}, {LiverEdgeCursor(2)}, {ScalarCursor}}
==============================================================================

---------------------------- MODULE MCLiversQuery ----------------------------
(* A query that reads a page of two livers and, beside it, one of them by name *)
(* with two groups fields, one of whose cursors does not decode.               *)
EXTENDS LiversQuery, TLC

CONSTANTS x, page, byName, l1, l2, g1, f, bad

MCReqOf == (page :> x) @@ (byName :> x)
MCKind == (page :> "livers") @@ (byName :> "liver")
MCPageOf == (page :> <<l1, l2>>) @@ (byName :> <<l1>>)
MCFieldsOf == (page :> {f}) @@ (byName :> {f, bad})
==============================================================================

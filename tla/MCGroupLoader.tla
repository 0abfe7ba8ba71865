---------------------------- MODULE MCGroupLoader ----------------------------
(* A small instance of GroupLoader for TLC: two requests and two livers. Two *)
(* calls come from the first request and one from the second, which repeats  *)
(* a key of the first, so that the calls of both share a batch or miss it.   *)
EXTENDS GroupLoader, TLC

CONSTANTS c1, c2, c3, x1, x2, l1, l2

ThreeKeys == (c1 :> l1) @@ (c2 :> l2) @@ (c3 :> l1)
ThreeContexts == (c1 :> x1) @@ (c2 :> x1) @@ (c3 :> x2)
==============================================================================

----------------------------- MODULE MCNodeGraph -----------------------------
(* NodeGraph on small instances.                                           *)
EXTENDS NodeGraph, TLC

CONSTANTS n1, n2, n3, c1, c2, talker, viewer

\* Two nodes of one Context with the same name, and one in a Context of its own.
TwoAndOne == n1 :> c1 @@ n2 :> c1 @@ n3 :> c2
Namesakes == n1 :> talker @@ n2 :> talker @@ n3 :> viewer
=============================================================================

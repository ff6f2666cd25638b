----------------------------- MODULE MCDiscovery -----------------------------
(* Discovery on small instances.                                           *)
EXTENDS Discovery

CONSTANT l1

\* Every wait is for the same endpoint; for the others its events are unrelated.
OneEndpoint == [w \in Waits |-> l1]
=============================================================================

---------------------------- MODULE MCServiceRpc ----------------------------
(* ServiceRpc on small instances.                                          *)
EXTENDS ServiceRpc, TLC

CONSTANTS c1, c2, k1, k2, k3

\* Two callers share a Client, the third has one of its own.
SharedAndOwn == (k1 :> c1) @@ (k2 :> c1) @@ (k3 :> c2)

\* One caller repeats its call.
RepeatOne == [k \in Callers |-> IF k = k1 THEN 2 ELSE 1]
=============================================================================

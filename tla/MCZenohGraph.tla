---------------------------- MODULE MCZenohGraph ----------------------------
(* A Context that watches and waits for a publisher of /rosout, and one whose *)
(* node makes and drops a logger and an action client.                        *)
EXTENDS ZenohGraph

Fibonacci == [name |-> "fibonacci", type |-> "Fibonacci"]
MCRequests == {LoggerEntities, ActionClientEntities(Fibonacci)}
MCMaxNodes == [c \in Contexts |-> IF c \in Observers THEN 0 ELSE 1]
MCWaitsFor == [w \in Waits |-> [kind |-> "Publisher", name |-> Rosout.name]]
MCWaitsIn == [w \in Waits |-> CHOOSE o \in Observers : TRUE]
=============================================================================

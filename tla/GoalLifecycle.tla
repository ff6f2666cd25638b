---------------------------- MODULE GoalLifecycle ----------------------------
(***************************************************************************)
(* What an action server promises about each of its goals, whatever tasks, *)
(* locks and queues it is built from: the status changes of the protocol   *)
(* (a goal that is alive can be canceled or aborted, but must be executing *)
(* before it succeeds: src/action/server.rs:602), ends that are final, and *)
(* at most one result, which reports the end the goal really came to.      *)
(*                                                                         *)
(* The code has one step more, SucceedUnstarted, which the protocol does   *)
(* not have: it takes an id that has had a goal before.                    *)
(***************************************************************************)
EXTENDS Sequences

CONSTANT Goals

VARIABLES state,    \* the status of each goal, "Vacant" when it is not known
          outcome,  \* the result sent in the present life of each goal, if any
          life      \* has the id had no goal yet ("none"), one ("first") or more ("later")?

Ends == {"Succeeded", "Aborted", "Canceled"}
Live == {"Accepted", "Executing", "Canceling"}

Init ==
  /\ state = [g \in Goals |-> "Vacant"]
  /\ outcome = [g \in Goals |-> << >>]
  /\ life = [g \in Goals |-> "none"]

Move(g, from, to) ==
  /\ state[g] \in from
  /\ state' = [state EXCEPT ![g] = to]

Receive(g) ==
  /\ Move(g, {"Vacant"}, "Unknown")
  /\ outcome' = [outcome EXCEPT ![g] = << >>]
  /\ life' = [life EXCEPT ![g] = IF @ = "none" THEN "first" ELSE "later"]

Accept(g)  == Move(g, {"Unknown"}, "Accepted") /\ UNCHANGED <<outcome, life>>
Reject(g)  == Move(g, {"Unknown"}, "Vacant") /\ UNCHANGED <<outcome, life>>
Execute(g) == Move(g, {"Accepted"}, "Executing") /\ UNCHANGED <<outcome, life>>
Cancel(g)  == Move(g, Live, "Canceling") /\ UNCHANGED <<outcome, life>>

\* The goal ends; its result is sent at that moment or never.
End(g, from, e) ==
  /\ Move(g, from, e)
  /\ outcome[g] = << >>
  /\ \/ outcome' = [outcome EXCEPT ![g] = <<e>>]
     \/ UNCHANGED outcome
  /\ UNCHANGED life

Finish(g, e) == End(g, IF e = "Succeeded" THEN Live \ {"Accepted"} ELSE Live, e)

\* Not of the protocol: a handle of an earlier goal with the same id lets a goal
\* succeed that is only accepted.
SucceedUnstarted(g) == life[g] = "later" /\ End(g, {"Accepted"}, "Succeeded")

\* Goals that have come to an end are forgotten, several at a time.
Forget(G) ==
  /\ \A g \in G : state[g] \in Ends
  /\ state' = [g \in Goals |-> IF g \in G THEN "Vacant" ELSE state[g]]
  /\ UNCHANGED <<outcome, life>>

Next ==
  \/ \E g \in Goals : Receive(g) \/ Accept(g) \/ Reject(g) \/ Execute(g) \/ Cancel(g)
  \/ \E g \in Goals, e \in Ends : Finish(g, e)
  \/ \E g \in Goals : SucceedUnstarted(g)
  \/ \E G \in SUBSET Goals : Forget(G)

Spec == Init /\ [][Next]_<<state, outcome, life>>
=============================================================================

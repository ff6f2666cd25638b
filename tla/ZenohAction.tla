------------------------------ MODULE ZenohAction ------------------------------
(***************************************************************************)
(* Actions over zenoh (src/zenoh_backend/action.rs): an ActionClient that   *)
(* several threads share, and an ActionServer or a RawActionServer.  Both   *)
(* are the three services and two topics of an action and leave the goals   *)
(* to the application, which here does what the tests of action.rs do: it   *)
(* polls, accepts or rejects, executes, and answers a result request when   *)
(* the goal has ended.                                                      *)
(***************************************************************************)
EXTENDS ZenohService, ZenohTopic

CONSTANTS
  MaxFeedback     \* bound: feedback messages of the server

ASSUME ActionAssumption ==
  /\ Services = {"send_goal", "get_result", "cancel_goal"}
  /\ \A service \in Services : \E s \in Servers : ServersOf(service) = {s}
  /\ Publishers = {"feedback", "status"} /\ Subscriptions = Publishers
  /\ Hears = [x \in Subscriptions |-> {x}]
  /\ Threads = {"application"}
  /\ MaxFeedback \in Nat

VARIABLES
  raw,            \* RawActionServer, or the typed ActionServer
  goals,          \* the application's goals and their status
  accepted        \* the goals of which the client knows that they were accepted

appVars == <<raw, goals, accepted>>
vars == <<svcVars, topicVars, appVars>>

ZERO == <<"ZERO">>                                  \* UUID::ZERO
Goals == UNION {{k} \X (0..MaxCalls[k]) : k \in Callers}   \* UUID::new_random, never the same
Terminal == {"SUCCEEDED", "CANCELED"}               \* goal_status, without ABORTED
Statuses == {"EXECUTING", "CANCELING"} \cup Terminal
Requests == Goals \cup {ZERO}
Server(service) == CHOOSE s \in Servers : ServiceOf[s] = service

Init ==
  /\ ServiceInit /\ TopicInit
  /\ raw \in BOOLEAN
  /\ goals = << >>
  /\ accepted = {}

-----------------------------------------------------------------------------
(* ActionClient.                                                           *)

Calls(k, service, goal) ==
  /\ \E form \in Forms[k] : Call(k, service, goal, form)
  /\ UNCHANGED <<topicVars, appVars>>

SendGoal(k) == Calls(k, "send_goal", <<k, calls[k]>>)
GetResult(k, goal) == Calls(k, "get_result", goal)
CancelGoal(k, goal) == Calls(k, "cancel_goal", goal)
CancelAllGoals(k) == Calls(k, "cancel_goal", ZERO)

\* Each of them returns with the reply, or with an error.
Returns(k) ==
  /\ Return(k)
  /\ accepted' = IF result'[k].reply # None /\ result'[k].reply.value = "accepted"
                 THEN accepted \cup {result'[k].req} ELSE accepted
  /\ UNCHANGED <<topicVars, raw, goals>>

TimesOut(k) == Timeout(k) /\ UNCHANGED <<topicVars, appVars>>

TakeFeedback == Take("feedback") /\ UNCHANGED <<svcVars, appVars>>
TakeStatus == Take("status") /\ UNCHANGED <<svcVars, appVars>>

-----------------------------------------------------------------------------
(* The server.                                                             *)

\* In a RawActionServer two services are RawServers; cancel_goal stays typed.
IsRaw(service) == raw /\ service # "cancel_goal"

\* A RawActionServer decodes result requests itself, after RawServer::accept has
\* put the query into `pending`; goal requests it hands over as bytes.
Handed_Bug(service, q) == q.form = "ok"
Handed(service, q) == q.form = "ok" \/ service = "send_goal"

\* The application is one thread: it does nothing else in the middle of a publish.
Idle == sending["application"] = << >>

\* try_receive_goal, try_receive_result_request, try_receive_cancel and the raw
\* and awaiting forms of them.
TryReceive(service) ==
  LET s == Server(service) IN
  /\ Idle /\ queue[s] # << >>
  /\ Receive(s, IsRaw(service), Handed(service, Head(queue[s])))
  /\ UNCHANGED <<topicVars, appVars>>

Ended(goal) == goal \in DOMAIN goals => goals[goal] \in Terminal
Become(gs, status) ==
  goals' = [g \in DOMAIN goals \cup gs |-> IF g \in gs THEN status ELSE goals[g]]

\* respond_goal: bytes that are no goal cannot be accepted.
RespondGoal(h) ==
  \/ /\ h.form = "ok" /\ h.req \notin DOMAIN goals
     /\ SendResponse(Server("send_goal"), h, "accepted", TRUE)
     /\ Become({h.req}, "EXECUTING")
     /\ UNCHANGED <<topicVars, raw, accepted>>
  \/ /\ SendResponse(Server("send_goal"), h, "rejected", TRUE)
     /\ UNCHANGED <<topicVars, appVars>>

\* respond_result, with a result that can be encoded or not; respond_result_raw.
RespondResult(h) ==
  /\ Ended(h.req)
  /\ \E encodes \in {raw, TRUE} : SendResponse(Server("get_result"), h,
       IF h.req \in DOMAIN goals THEN goals[h.req] ELSE "unknown", encodes)
  /\ UNCHANGED <<topicVars, appVars>>

Selected(goal) == {g \in DOMAIN goals : goal \in {g, ZERO} /\ goals[g] = "EXECUTING"}

\* respond_cancel, with the goals that are now canceling.
RespondCancel(h) ==
  /\ SendResponse(Server("cancel_goal"), h, "canceling", TRUE)
  /\ Become(Selected(h.req), "CANCELING")
  /\ UNCHANGED <<topicVars, raw, accepted>>

PublishFeedback(goal) ==
  /\ ~Ended(goal) /\ pubSeq["feedback"] < MaxFeedback
  /\ Encode("application", "feedback", {<<goal, "feedback">>})
  /\ UNCHANGED <<svcVars, appVars>>

\* A goal ends, and publish_status tells the status of all.
Finish(goal) ==
  /\ ~Ended(goal)
  /\ Become({goal}, IF goals[goal] = "CANCELING" THEN "CANCELED" ELSE "SUCCEEDED")
  /\ Encode("application", "status", {<<g, goals'[g]>> : g \in DOMAIN goals})
  /\ UNCHANGED <<svcVars, raw, accepted>>

\* The application goes on if a publish fails.
Publish ==
  /\ Put("application") \/ (~Idle /\ PublishFails("application"))
  /\ UNCHANGED <<svcVars, appVars>>

-----------------------------------------------------------------------------

Client(k) ==
  \/ SendGoal(k)
  \/ \E goal \in accepted : GetResult(k, goal) \/ CancelGoal(k, goal)
  \/ CancelAllGoals(k)
  \/ TimesOut(k)

Respond(service) == Idle /\ \E h \in hand[Server(service)] :
  CASE service = "send_goal" -> RespondGoal(h)
    [] service = "get_result" -> RespondResult(h)
    [] OTHER -> RespondCancel(h)

Next ==
  \/ \E k \in Callers : Client(k) \/ Returns(k)
  \/ TakeFeedback \/ TakeStatus
  \/ \E service \in Services : TryReceive(service) \/ Respond(service)
  \/ \E goal \in DOMAIN goals : PublishFeedback(goal) \/ Finish(goal)
  \/ Publish

\* The application polls every service, answers what it can, finishes its goals and
\* publishes; a blocked call wakes up.  Nothing is assumed of the timeout.
Fairness ==
  /\ \A k \in Callers : WF_vars(Returns(k))
  /\ \A service \in Services : WF_vars(TryReceive(service)) /\ WF_vars(Respond(service))
  /\ WF_vars(Publish)
  /\ WF_vars(\E goal \in DOMAIN goals : Finish(goal))

Spec == Init /\ [][Next]_vars /\ Fairness

-----------------------------------------------------------------------------
(* Properties.                                                             *)

\* The types of the variables.
TypeOK ==
  /\ ServiceTypeOK(Requests, {"accepted", "rejected", "unknown", "canceling"} \cup Terminal)
  /\ TopicTypeOK(SUBSET (Goals \X (Statuses \cup {"feedback"})))
  /\ raw \in BOOLEAN
  /\ accepted \subseteq DOMAIN goals
  /\ goals \in [DOMAIN goals -> Statuses] /\ DOMAIN goals \subseteq Goals

\* No query is stranded in Server.pending: the application holds the id of each, so it
\* can still be answered.  The exception is in RawActionServer: a result request that
\* cannot be decoded is in `pending` already when from_cdr fails.
NotStranded ==
  \A s \in Servers : \A q \in pending[s] :
    q \in hand[s] \/ (raw /\ ServiceOf[s] = "get_result" /\ q.form = "garbled")

\* "blocks until the server responds" (get_result): a call of the ActionClient returns,
\* without its timeout, also when requests before it in a queue were malformed.
CallReturns ==
  \A k \in Callers :
    (get[k] # None /\ (raw => get[k].form = "ok")) ~> (get[k] = None)
=============================================================================

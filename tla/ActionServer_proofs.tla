------------------------- MODULE ActionServer_proofs -------------------------
(***************************************************************************)
(* Proofs about ActionServer for every set of goals, tasks and times, every *)
(* bound and, where a theorem does not say otherwise, with and without     *)
(* failing writes and whatever the application does with cancel requests.  *)
(***************************************************************************)
EXTENDS ActionServer, TLAPS

\* A call about a goal knows its goal; one that waits for a request or has found
\* it is send_result_response, and the request it found is about its goal; one that
\* goes through a list of goals is respond_to_cancel_requests.
CallsOK ==
  \A t \in Tasks :
    /\ op[t] \in {"accept", "start", "finish", "abort"} => goal[t] \in GoalIds
    /\ pc[t] \in {"wait", "finish"} => op[t] = "finish"
    /\ pc[t] \in {"collect", "cancel"} => op[t] = "cancel"
    /\ pc[t] = "finish" => req[t] \in ResultReqs /\ req[t][1] = goal[t]

\* A buffered request is about the goal it is filed under.
BufferOK == \A g \in GoalIds : resultRequests[g] # None => resultRequests[g][1] = g

\* Every handle and call past accept_goal belongs to a goal the client knows
\* to be accepted.
ToldOK ==
  /\ acceptedHandles \subseteq told
  /\ executingHandles \subseteq told
  /\ \A t \in Tasks : op[t] \in {"start", "finish"} => goal[t] \in told

\* No result has been sent yet for a goal that is not past execution.
UnreportedOK ==
  \A g \in GoalIds : status[g] \in {"Unknown", "Accepted", "Executing"} => reported[g] = << >>

\* The inductive invariant of the theorems below.
IndInv ==
  /\ TypeOK
  /\ CallsOK
  /\ BufferOK
  /\ ToldOK
  /\ UnreportedOK
  /\ AcceptedBeforeResult
  /\ ResultAnswersItsRequest

-----------------------------------------------------------------------------

USE DEF server, requests, handles, calls, visible

\* A new AsyncActionServer satisfies the inductive invariant.
LEMMA InitIndInv == Init => IndInv
BY ConstantsAssumption
DEF Init, IndInv, TypeOK, CallsOK, BufferOK, ToldOK, UnreportedOK, AcceptedBeforeResult,
    ResultAnswersItsRequest, NothingPublished, EntryStates, GoalStatuses, EndStatuses

\* A step that leaves the table, the calls, the handles and the results alone
\* only has to keep the types.
LEMMA FrameIndInv ==
  ASSUME IndInv, TypeOK',
         UNCHANGED <<status, resultRequests, acceptedHandles, executingHandles,
                     pc, op, goal, req, told, results, reported>>
  PROVE  IndInv'
BY DEF IndInv, CallsOK, BufferOK, ToldOK, UnreportedOK, AcceptedBeforeResult,
       ResultAnswersItsRequest

-----------------------------------------------------------------------------
(* The clients.                                                            *)

\* send_goal only adds a request to the queue.
LEMMA SendGoalIndInv == ASSUME IndInv, NEW g \in GoalIds, SendGoal(g) PROVE IndInv'
<1>1. sent' \in [GoalIds -> 0 .. MaxSends] /\ sent[g] + 1 \in 1 .. MaxSends
  BY ConstantsAssumption DEF IndInv, TypeOK, SendGoal
<1>2. goalQ' \subseteq GoalReqs
  BY <1>1 DEF IndInv, TypeOK, SendGoal, GoalReqs
<1>3. TypeOK'
  BY <1>1, <1>2 DEF IndInv, TypeOK, SendGoal
<1> QED BY <1>3, FrameIndInv DEF SendGoal

\* request_result only adds a request to the queue.
LEMMA RequestResultIndInv == ASSUME IndInv, NEW g \in GoalIds, RequestResult(g) PROVE IndInv'
<1>1. /\ resultSent' \in [GoalIds -> 0 .. MaxResultReqs]
      /\ resultSent[g] + 1 \in 1 .. MaxResultReqs
  BY ConstantsAssumption DEF IndInv, TypeOK, RequestResult
<1>2. resultQ' \subseteq ResultReqs
  BY <1>1 DEF IndInv, TypeOK, RequestResult, ResultReqs
<1>3. TypeOK'
  BY <1>1, <1>2 DEF IndInv, TypeOK, RequestResult
<1> QED BY <1>3, FrameIndInv DEF RequestResult

\* The cancel calls of the client only add a request to the queue.
LEMMA CancelGoalIndInv ==
  ASSUME IndInv, NEW g \in GoalIds \cup {None}, NEW stamp \in Times \cup {0}, CancelGoal(g, stamp)
  PROVE  IndInv'
<1>1. cancelSent' \in 0 .. MaxCancels /\ cancelSent + 1 \in 1 .. MaxCancels
  BY ConstantsAssumption DEF IndInv, TypeOK, CancelGoal
<1>2. cancelQ' \subseteq CancelReqs
  BY <1>1 DEF IndInv, TypeOK, CancelGoal, CancelReqs
<1>3. TypeOK'
  BY <1>1, <1>2 DEF IndInv, TypeOK, CancelGoal
<1> QED BY <1>3, FrameIndInv DEF CancelGoal

-----------------------------------------------------------------------------
(* New goals.                                                              *)

\* receive_new_goal starts a life of its goal, which has no result yet.
LEMMA ReceiveNewGoalIndInv == ASSUME IndInv, NEW r \in goalQ, ReceiveNewGoal(r) PROVE IndInv'
<1>1. r[1] \in GoalIds /\ r \in GoalReqs
  BY DEF IndInv, TypeOK, GoalReqs
<1>2. /\ status' \in [GoalIds -> EntryStates]
      /\ acceptedTime' \in [GoalIds -> Times \cup {None}]
      /\ reported' \in [GoalIds -> Seq(EndStatuses)]
  <2>1. "Unknown" \in EntryStates
    BY DEF EntryStates, GoalStatuses
  <2>2. status' \in [GoalIds -> EntryStates]
    <3>1. status' = [status EXCEPT ![r[1]] = "Unknown"] \/ status' = status
      BY DEF ReceiveNewGoal
    <3>2. status \in [GoalIds -> EntryStates]
      BY DEF IndInv, TypeOK
    <3> QED BY <1>1, <2>1, <3>1, <3>2
  <2>3. acceptedTime' \in [GoalIds -> Times \cup {None}]
    BY <1>1 DEF IndInv, TypeOK, ReceiveNewGoal
  <2>4. << >> \in Seq(EndStatuses)
    OBVIOUS
  <2>5. reported' \in [GoalIds -> Seq(EndStatuses)]
    <3>1. reported' = [reported EXCEPT ![r[1]] = << >>] \/ reported' = reported
      BY DEF ReceiveNewGoal
    <3>2. reported \in [GoalIds -> Seq(EndStatuses)]
      BY DEF IndInv, TypeOK
    <3> QED BY <1>1, <2>4, <3>1, <3>2
  <2> QED BY <2>2, <2>3, <2>5
<1>3. TypeOK'
  BY <1>1, <1>2 DEF IndInv, TypeOK, ReceiveNewGoal
<1>4. UnreportedOK'
  <2>1. \/ UNCHANGED <<status, reported>>
        \/ /\ status' = [status EXCEPT ![r[1]] = "Unknown"]
           /\ reported' = [reported EXCEPT ![r[1]] = << >>]
    BY DEF ReceiveNewGoal
  <2>2. \A g \in GoalIds : \/ status'[g] = status[g] /\ reported'[g] = reported[g]
                          \/ reported'[g] = << >>
    BY <2>1 DEF IndInv, TypeOK
  <2> QED BY <2>2 DEF IndInv, UnreportedOK
<1>5. CallsOK' /\ BufferOK' /\ ToldOK' /\ AcceptedBeforeResult' /\ ResultAnswersItsRequest'
  BY DEF IndInv, CallsOK, BufferOK, ToldOK, AcceptedBeforeResult, ResultAnswersItsRequest,
         ReceiveNewGoal
<1> QED BY <1>3, <1>4, <1>5 DEF IndInv

\* get_new_goal forgets finished goals; their results stay sent.
LEMMA GetNewGoalIndInv == ASSUME IndInv, GetNewGoal PROVE IndInv'
<1>1. /\ status' \in [GoalIds -> EntryStates]
      /\ acceptedTime' \in [GoalIds -> Times \cup {None}]
  BY DEF IndInv, TypeOK, GetNewGoal, EntryStates
<1>2. TypeOK'
  BY <1>1 DEF IndInv, TypeOK, GetNewGoal
<1>3. UnreportedOK'
  BY DEF IndInv, UnreportedOK, GetNewGoal
<1>4. CallsOK' /\ BufferOK' /\ ToldOK' /\ AcceptedBeforeResult' /\ ResultAnswersItsRequest'
  BY DEF IndInv, CallsOK, BufferOK, ToldOK, AcceptedBeforeResult, ResultAnswersItsRequest,
         GetNewGoal
<1> QED BY <1>2, <1>3, <1>4 DEF IndInv

\* accept_goal begins a call that knows its goal.
LEMMA AcceptGoalIndInv ==
  ASSUME IndInv, NEW t \in Tasks, NEW h \in newHandles, NEW now \in Times, AcceptGoal(t, h, now)
  PROVE  IndInv'
<1>1. h[1] \in GoalIds
  BY DEF IndInv, TypeOK, GoalReqs
<1>2. TypeOK'
  BY <1>1 DEF IndInv, TypeOK, AcceptGoal, Call, EntryStates, GoalStatuses
<1>3. CallsOK' /\ ToldOK'
  BY <1>1 DEF IndInv, TypeOK, CallsOK, ToldOK, AcceptGoal, Call
<1>4. UnreportedOK'
  BY <1>1 DEF IndInv, TypeOK, UnreportedOK, AcceptGoal
<1>5. BufferOK' /\ AcceptedBeforeResult' /\ ResultAnswersItsRequest'
  BY DEF IndInv, BufferOK, AcceptedBeforeResult, ResultAnswersItsRequest, AcceptGoal
<1> QED BY <1>2, <1>3, <1>4, <1>5 DEF IndInv

\* reject_goal forgets a goal that nobody has been told of.
LEMMA RejectGoalIndInv == ASSUME IndInv, NEW h \in newHandles, RejectGoal(h) PROVE IndInv'
<1>1. h[1] \in GoalIds
  BY DEF IndInv, TypeOK, GoalReqs
<1>2. TypeOK'
  BY <1>1 DEF IndInv, TypeOK, RejectGoal, EntryStates
<1>3. UnreportedOK'
  BY <1>1 DEF IndInv, TypeOK, UnreportedOK, RejectGoal
<1>4. CallsOK' /\ BufferOK' /\ ToldOK' /\ AcceptedBeforeResult' /\ ResultAnswersItsRequest'
  BY DEF IndInv, CallsOK, BufferOK, ToldOK, AcceptedBeforeResult, ResultAnswersItsRequest,
         RejectGoal
<1> QED BY <1>2, <1>3, <1>4 DEF IndInv

-----------------------------------------------------------------------------
(* Execution.                                                              *)

\* start_executing_goal needs the handle of an accepted goal.
LEMMA StartExecutingGoalIndInv ==
  ASSUME IndInv, NEW t \in Tasks, NEW g \in GoalIds, StartExecutingGoal(t, g)
  PROVE  IndInv'
<1>1. TypeOK'
  BY DEF IndInv, TypeOK, StartExecutingGoal, Call, EntryStates, GoalStatuses
<1>2. CallsOK' /\ ToldOK'
  BY DEF IndInv, TypeOK, CallsOK, ToldOK, StartExecutingGoal, Call
<1>3. UnreportedOK'
  BY DEF IndInv, TypeOK, UnreportedOK, StartExecutingGoal
<1>4. BufferOK' /\ AcceptedBeforeResult' /\ ResultAnswersItsRequest'
  BY DEF IndInv, BufferOK, AcceptedBeforeResult, ResultAnswersItsRequest, StartExecutingGoal
<1> QED BY <1>1, <1>2, <1>3, <1>4 DEF IndInv

\* publish_feedback changes nothing of the server.
LEMMA PublishFeedbackIndInv == ASSUME IndInv, NEW g \in GoalIds, PublishFeedback(g) PROVE IndInv'
<1>1. feedback' \in [GoalIds -> 0 .. MaxFeedback]
  BY ConstantsAssumption DEF IndInv, TypeOK, PublishFeedback
<1>2. TypeOK'
  BY <1>1 DEF IndInv, TypeOK, PublishFeedback
<1> QED BY <1>2, FrameIndInv DEF PublishFeedback

\* send_result_response takes its first request from the buffer.
LEMMA SendResultResponseIndInv ==
  ASSUME IndInv, NEW t \in Tasks, NEW g \in GoalIds, SendResultResponse(t, g)
  PROVE  IndInv'
<1>1. TypeOK'
  BY DEF IndInv, TypeOK, SendResultResponse, Call
<1>2. CallsOK'
  BY DEF IndInv, TypeOK, CallsOK, BufferOK, SendResultResponse, Call
<1>3. ToldOK'
  BY DEF IndInv, TypeOK, ToldOK, SendResultResponse, Call
<1>4. BufferOK' /\ UnreportedOK' /\ AcceptedBeforeResult' /\ ResultAnswersItsRequest'
  BY DEF IndInv, BufferOK, UnreportedOK, AcceptedBeforeResult, ResultAnswersItsRequest,
         SendResultResponse
<1> QED BY <1>1, <1>2, <1>3, <1>4 DEF IndInv

\* The receive loop of send_result_response keeps a request of its own goal
\* and files every other one under the goal it is about.
LEMMA ReceiveResultRequestIndInv ==
  ASSUME IndInv, NEW t \in Tasks, NEW r \in resultQ, ReceiveResultRequest(t, r)
  PROVE  IndInv'
<1>1. r \in ResultReqs /\ r[1] \in GoalIds
  BY DEF IndInv, TypeOK, ResultReqs
<1>2. /\ resultRequests' \in [GoalIds -> ResultReqs \cup {None}]
      /\ req' \in [Tasks -> ResultReqs \cup {None}]
  <2>1. /\ resultRequests' = [resultRequests EXCEPT ![r[1]] = r] \/ resultRequests' = resultRequests
        /\ req' = [req EXCEPT ![t] = r] \/ req' = req
    BY DEF ReceiveResultRequest, Buffer
  <2>2. /\ resultRequests \in [GoalIds -> ResultReqs \cup {None}]
        /\ req \in [Tasks -> ResultReqs \cup {None}]
    BY DEF IndInv, TypeOK
  <2>3. resultRequests' \in [GoalIds -> ResultReqs \cup {None}]
    BY <1>1, <2>1, <2>2
  <2>4. req' \in [Tasks -> ResultReqs \cup {None}]
    BY <1>1, <2>1, <2>2
  <2> QED BY <2>3, <2>4
<1>3. TypeOK'
  BY <1>2 DEF IndInv, TypeOK, ReceiveResultRequest
<1>4. CallsOK'
  BY <1>1 DEF IndInv, TypeOK, CallsOK, ReceiveResultRequest, IsMine
<1>5. BufferOK'
  BY <1>1 DEF IndInv, TypeOK, BufferOK, ReceiveResultRequest, Buffer
<1>6. ToldOK' /\ UnreportedOK' /\ AcceptedBeforeResult' /\ ResultAnswersItsRequest'
  BY DEF IndInv, ToldOK, UnreportedOK, AcceptedBeforeResult, ResultAnswersItsRequest,
         ReceiveResultRequest
<1> QED BY <1>3, <1>4, <1>5, <1>6 DEF IndInv

\* A call that ends drops its locals and changes nothing else of the invariant.
LEMMA ReturnOK ==
  ASSUME IndInv, NEW t \in Tasks, Return(t)
  PROVE  /\ pc' \in [Tasks -> {"idle", "snap", "publish", "wait", "finish", "collect", "cancel"}]
         /\ op' \in [Tasks -> {"none", "accept", "start", "finish", "abort", "cancel"}]
         /\ goal' \in [Tasks -> GoalIds \cup {None}]
         /\ req' \in [Tasks -> ResultReqs \cup {None}]
         /\ todo' \in [Tasks -> SUBSET GoalIds]
         /\ picked' \in [Tasks -> SUBSET GoalIds]
         /\ snap' \in [Tasks -> [GoalIds -> EntryStates]]
         /\ CallsOK'
         /\ \A u \in Tasks : op'[u] \in {"start", "finish"} => goal'[u] \in told
<1>1. /\ todo' \in [Tasks -> SUBSET GoalIds]
      /\ picked' \in [Tasks -> SUBSET GoalIds]
      /\ snap' \in [Tasks -> [GoalIds -> EntryStates]]
  BY DEF IndInv, TypeOK, Return, NothingPublished, EntryStates
<1>2. /\ pc' \in [Tasks -> {"idle", "snap", "publish", "wait", "finish", "collect", "cancel"}]
      /\ op' \in [Tasks -> {"none", "accept", "start", "finish", "abort", "cancel"}]
      /\ goal' \in [Tasks -> GoalIds \cup {None}]
      /\ req' \in [Tasks -> ResultReqs \cup {None}]
  BY DEF IndInv, TypeOK, Return, Call
<1>3. CallsOK' /\ \A u \in Tasks : op'[u] \in {"start", "finish"} => goal'[u] \in told
  BY DEF IndInv, TypeOK, CallsOK, ToldOK, Return, Call
<1> QED BY <1>1, <1>2, <1>3

\* A future of send_result_response that is dropped leaves the buffer as it is.
LEMMA DropSendResultIndInv == ASSUME IndInv, NEW t \in Tasks, DropSendResult(t) PROVE IndInv'
<1>1. TypeOK' /\ CallsOK' /\ ToldOK'
  BY ReturnOK DEF IndInv, TypeOK, ToldOK, DropSendResult
<1>2. BufferOK' /\ UnreportedOK' /\ AcceptedBeforeResult' /\ ResultAnswersItsRequest'
  BY DEF IndInv, BufferOK, UnreportedOK, AcceptedBeforeResult, ResultAnswersItsRequest,
         DropSendResult
<1> QED BY <1>1, <1>2 DEF IndInv

\* The last lock of send_result_response: the three ways out of it.
LEMMA FinishGoalIndInv ==
  ASSUME IndInv, NEW t \in Tasks, NEW e \in EndStatuses, FinishGoal(t, e)
  PROVE  IndInv'
<1>1. /\ goal[t] \in GoalIds /\ goal[t] \in told
      /\ req[t] \in ResultReqs /\ req[t][1] = goal[t]
  BY DEF IndInv, CallsOK, ToldOK, FinishGoal
<1>2. /\ status' \in [GoalIds -> EntryStates]
      /\ reported' \in [GoalIds -> Seq(EndStatuses)]
      /\ results' \subseteq Result
  <2>1. status' \in [GoalIds -> EntryStates]
    BY <1>1 DEF IndInv, TypeOK, FinishGoal, EntryStates, GoalStatuses
  <2>2. Append(reported[goal[t]], e) \in Seq(EndStatuses)
    BY <1>1 DEF IndInv, TypeOK
  <2>3. reported' \in [GoalIds -> Seq(EndStatuses)]
    <3>1. reported' = [reported EXCEPT ![goal[t]] = Append(@, e)] \/ reported' = reported
      BY DEF FinishGoal
    <3>2. reported \in [GoalIds -> Seq(EndStatuses)]
      BY DEF IndInv, TypeOK
    <3> QED BY <1>1, <2>2, <3>1, <3>2
  <2>4. results' \subseteq Result
    BY <1>1 DEF IndInv, TypeOK, FinishGoal, Result
  <2> QED BY <2>1, <2>3, <2>4
<1>3. /\ UNCHANGED <<acceptedTime, finished, resultRequests, requests, handles, told,
                     feedback, statusTopic>>
      /\ \/ Return(t)
         \/ /\ pc' = [pc EXCEPT ![t] = "snap"]
            /\ UNCHANGED <<op, goal, req, todo, picked, snap>>
  BY DEF FinishGoal
<1>4. TypeOK' /\ CallsOK' /\ ToldOK'
  <2>1. CASE Return(t)
    BY <1>2, <1>3, <2>1, ReturnOK DEF IndInv, TypeOK, ToldOK
  <2>2. CASE /\ pc' = [pc EXCEPT ![t] = "snap"]
             /\ UNCHANGED <<op, goal, req, todo, picked, snap>>
    <3>1. TypeOK'
      BY <1>2, <1>3, <2>2 DEF IndInv, TypeOK
    <3>2. CallsOK' /\ ToldOK'
      BY <1>3, <2>2 DEF IndInv, TypeOK, CallsOK, ToldOK
    <3> QED BY <3>1, <3>2
  <2> QED BY <1>3, <2>1, <2>2
<1>5. UnreportedOK'
  BY <1>1 DEF IndInv, TypeOK, UnreportedOK, FinishGoal, EndStatuses
<1>6. AcceptedBeforeResult' /\ ResultAnswersItsRequest'
  BY <1>1 DEF IndInv, AcceptedBeforeResult, ResultAnswersItsRequest, FinishGoal
<1>7. BufferOK'
  BY <1>3 DEF IndInv, BufferOK
<1> QED BY <1>4, <1>5, <1>6, <1>7 DEF IndInv

\* abort_goal ends a goal and sends no result.
LEMMA AbortGoalIndInv ==
  ASSUME IndInv, NEW t \in Tasks, NEW g \in GoalIds, AbortGoal(t, g)
  PROVE  IndInv'
<1>1. TypeOK'
  BY DEF IndInv, TypeOK, AbortGoal, Call, EntryStates, GoalStatuses, EndStatuses
<1>2. CallsOK' /\ ToldOK'
  BY DEF IndInv, TypeOK, CallsOK, ToldOK, AbortGoal, Call
<1>3. UnreportedOK'
  BY DEF IndInv, TypeOK, UnreportedOK, AbortGoal
<1>4. BufferOK' /\ AcceptedBeforeResult' /\ ResultAnswersItsRequest'
  BY DEF IndInv, BufferOK, AcceptedBeforeResult, ResultAnswersItsRequest, AbortGoal
<1> QED BY <1>1, <1>2, <1>3, <1>4 DEF IndInv

-----------------------------------------------------------------------------
(* publish_statuses.                                                       *)

\* publish_statuses copies the table, and with it the types.
LEMMA SnapshotStatusesIndInv == ASSUME IndInv, NEW t \in Tasks, SnapshotStatuses(t) PROVE IndInv'
<1>1. TypeOK'
  BY DEF IndInv, TypeOK, SnapshotStatuses
<1>2. CallsOK'
  BY DEF IndInv, TypeOK, CallsOK, SnapshotStatuses
<1>3. BufferOK' /\ ToldOK' /\ UnreportedOK' /\ AcceptedBeforeResult' /\ ResultAnswersItsRequest'
  BY DEF IndInv, BufferOK, ToldOK, UnreportedOK, AcceptedBeforeResult, ResultAnswersItsRequest,
         SnapshotStatuses
<1> QED BY <1>1, <1>2, <1>3 DEF IndInv

\* Only here does a client learn that its goal is accepted, and only here do
\* the handles appear that the later calls need.
LEMMA PublishStatusesIndInv == ASSUME IndInv, NEW t \in Tasks, PublishStatuses(t) PROVE IndInv'
<1>1. op[t] \in {"accept", "start", "finish", "abort"} => goal[t] \in GoalIds
  BY DEF IndInv, CallsOK
<1>2. /\ told \subseteq told' /\ told' \subseteq GoalIds
      /\ statusTopic' \in [GoalIds -> EntryStates]
  BY <1>1 DEF IndInv, TypeOK, PublishStatuses
<1>3. acceptedHandles' \subseteq told' /\ acceptedHandles' \subseteq GoalIds
  BY <1>1 DEF IndInv, TypeOK, ToldOK, PublishStatuses, GivesAcceptedHandle
<1>4. executingHandles' \subseteq told' /\ executingHandles' \subseteq GoalIds
  BY <1>1, <1>2 DEF IndInv, TypeOK, ToldOK, PublishStatuses, GivesExecutingHandle
<1>5. finished' \in Seq(GoalIds)
  BY <1>1 DEF IndInv, TypeOK, PublishStatuses, FinishingOps
<1>6. Return(t) /\ UNCHANGED <<status, acceptedTime, resultRequests, requests, newHandles,
                               cancelHandles, results, reported, feedback>>
  BY DEF PublishStatuses
<1>7. TypeOK'
  BY <1>2, <1>3, <1>4, <1>5, <1>6, ReturnOK DEF IndInv, TypeOK
<1>8. CallsOK' /\ ToldOK'
  BY <1>2, <1>3, <1>4, <1>6, ReturnOK DEF ToldOK
<1>9. BufferOK' /\ UnreportedOK' /\ AcceptedBeforeResult' /\ ResultAnswersItsRequest'
  BY <1>2, <1>6 DEF IndInv, BufferOK, UnreportedOK, AcceptedBeforeResult, ResultAnswersItsRequest
<1> QED BY <1>7, <1>8, <1>9 DEF IndInv

-----------------------------------------------------------------------------
(* Cancellation.                                                           *)

\* receive_cancel_request only makes a CancelHandle.
LEMMA ReceiveCancelRequestIndInv ==
  ASSUME IndInv, NEW c \in cancelQ, ReceiveCancelRequest(c)
  PROVE  IndInv'
<1>1. c \in CancelReqs
  BY DEF IndInv, TypeOK
<1>2. cancelHandles' \subseteq CancelHandle
  BY <1>1 DEF IndInv, TypeOK, ReceiveCancelRequest, CancelReqs, CancelHandle
<1>3. TypeOK'
  BY <1>2 DEF IndInv, TypeOK, ReceiveCancelRequest
<1> QED BY <1>3, FrameIndInv DEF ReceiveCancelRequest

\* respond_to_cancel_requests begins a call that is about no single goal.
LEMMA RespondToCancelRequestsIndInv ==
  ASSUME IndInv, NEW t \in Tasks, NEW h \in cancelHandles, NEW chosen \in SUBSET GoalIds,
         NEW kept \in BOOLEAN, RespondToCancelRequests(t, h, chosen, kept)
  PROVE  IndInv'
<1>1. cancelHandles' \subseteq cancelHandles
  BY DEF RespondToCancelRequests
<1>2. TypeOK'
  BY <1>1 DEF IndInv, TypeOK, RespondToCancelRequests, Call
<1>3. CallsOK' /\ ToldOK'
  BY DEF IndInv, TypeOK, CallsOK, ToldOK, RespondToCancelRequests, Call
<1>4. BufferOK' /\ UnreportedOK' /\ AcceptedBeforeResult' /\ ResultAnswersItsRequest'
  BY DEF IndInv, BufferOK, UnreportedOK, AcceptedBeforeResult, ResultAnswersItsRequest,
         RespondToCancelRequests
<1> QED BY <1>2, <1>3, <1>4 DEF IndInv

\* The filter_map of respond_to_cancel_requests changes only its own locals.
LEMMA CollectCancelingIndInv ==
  ASSUME IndInv, NEW t \in Tasks, NEW g \in GoalIds, CollectCanceling(t, g)
  PROVE  IndInv'
<1> DEFINE kept == picked[t] \cup (IF acceptedTime[g] # None THEN {g} ELSE {})
<1>1. /\ kept \in SUBSET GoalIds
      /\ picked' = [picked EXCEPT ![t] = kept]
      /\ todo' = [todo EXCEPT ![t] = IF todo[t] \ {g} = {} THEN kept ELSE todo[t] \ {g}]
  BY DEF IndInv, TypeOK, CollectCanceling
<1> HIDE DEF kept
<1>2. picked' \in [Tasks -> SUBSET GoalIds] /\ todo' \in [Tasks -> SUBSET GoalIds]
  BY <1>1 DEF IndInv, TypeOK
<1>3. PICK next \in {"collect", "cancel", "snap"} : pc' = [pc EXCEPT ![t] = next]
  BY DEF CollectCanceling
<1>4. TypeOK'
  BY <1>2, <1>3 DEF IndInv, TypeOK, CollectCanceling
<1>5. CallsOK'
  BY <1>3 DEF IndInv, TypeOK, CallsOK, CollectCanceling
<1>6. BufferOK' /\ ToldOK' /\ UnreportedOK' /\ AcceptedBeforeResult' /\ ResultAnswersItsRequest'
  BY DEF IndInv, BufferOK, ToldOK, UnreportedOK, AcceptedBeforeResult, ResultAnswersItsRequest,
         CollectCanceling
<1> QED BY <1>4, <1>5, <1>6 DEF IndInv

\* A status overwritten with Canceling is none of those that need an empty result.
LEMMA MarkCancelingIndInv ==
  ASSUME IndInv, NEW t \in Tasks, NEW g \in GoalIds, MarkCanceling(t, g)
  PROVE  IndInv'
<1>1. TypeOK'
  BY DEF IndInv, TypeOK, MarkCanceling, EntryStates, GoalStatuses
<1>2. CallsOK'
  BY DEF IndInv, TypeOK, CallsOK, MarkCanceling
<1>3. UnreportedOK'
  BY DEF IndInv, TypeOK, UnreportedOK, MarkCanceling
<1>4. BufferOK' /\ ToldOK' /\ AcceptedBeforeResult' /\ ResultAnswersItsRequest'
  BY DEF IndInv, BufferOK, ToldOK, AcceptedBeforeResult, ResultAnswersItsRequest, MarkCanceling
<1> QED BY <1>1, <1>2, <1>3, <1>4 DEF IndInv

-----------------------------------------------------------------------------

\* Every step of the server, its clients and its tasks keeps the inductive invariant.
LEMMA NextIndInv == IndInv /\ [Next]_vars => IndInv'
<1> SUFFICES ASSUME IndInv, [Next]_vars PROVE IndInv'
  OBVIOUS
<1>1. CASE ClientStep
  BY <1>1, SendGoalIndInv, RequestResultIndInv, CancelGoalIndInv DEF ClientStep
<1>2. CASE ReceiveStep
  BY <1>2, ReceiveNewGoalIndInv, GetNewGoalIndInv, RejectGoalIndInv, PublishFeedbackIndInv,
     ReceiveCancelRequestIndInv DEF ReceiveStep
<1>3. CASE \E t \in Tasks : StartCall(t)
  BY <1>3, AcceptGoalIndInv, StartExecutingGoalIndInv, AbortGoalIndInv, SendResultResponseIndInv,
     RespondToCancelRequestsIndInv DEF StartCall
<1>4. CASE \E t \in Tasks : ContinueCall(t)
  BY <1>4, SnapshotStatusesIndInv, PublishStatusesIndInv, FinishGoalIndInv,
     CollectCancelingIndInv, MarkCancelingIndInv DEF ContinueCall
<1>5. CASE \E t \in Tasks : DropSendResult(t)
  BY <1>5, DropSendResultIndInv
<1>6. CASE \E t \in Tasks, r \in resultQ : ReceiveResultRequest(t, r)
  BY <1>6, ReceiveResultRequestIndInv
<1>7. CASE UNCHANGED vars
  <2>1. TypeOK'
    BY <1>7 DEF IndInv, TypeOK, vars
  <2> QED BY <1>7, <2>1, FrameIndInv DEF vars
<1> QED BY <1>1, <1>2, <1>3, <1>4, <1>5, <1>6, <1>7 DEF Next

\* The inductive invariant holds in every state of every behaviour: calls know their
\* goals, the request buffer of send_result_response is filed by goal, handles
\* exist only for goals accept_goal has answered for, and no live goal has a result.
THEOREM Invariance == Spec => []IndInv
BY InitIndInv, NextIndInv, PTL DEF Spec

\* Every variable of the action server, its clients and its calls keeps its type.
THEOREM TypeCorrectness == Spec => []TypeOK
<1>1. IndInv => TypeOK
  BY DEF IndInv
<1> QED BY <1>1, Invariance, PTL

\* send_result_response never sends a result for a goal that accept_goal has
\* not told the client is accepted.
THEOREM AcceptedFirst == Spec => []AcceptedBeforeResult
<1>1. IndInv => AcceptedBeforeResult
  BY DEF IndInv
<1> QED BY <1>1, Invariance, PTL

\* However the tasks that call send_result_response share the stream and the
\* buffer of result requests, a result answers a request for its own goal.
THEOREM RightRequest == Spec => []ResultAnswersItsRequest
<1>1. IndInv => ResultAnswersItsRequest
  BY DEF IndInv
<1> QED BY <1>1, Invariance, PTL

\* publish_feedback publishes nothing for a goal whose result has been sent.
THEOREM NoFeedbackAfterResult == Spec => FeedbackStopsAtResult
<1>1. ASSUME IndInv, [Next]_vars, NEW g \in GoalIds, feedback'[g] # feedback[g]
      PROVE  reported[g] = << >>
  <2>1. PICK k \in GoalIds : PublishFeedback(k)
    BY <1>1 DEF Next, vars, ClientStep, ReceiveStep, StartCall, ContinueCall, SendGoal,
       RequestResult, CancelGoal, ReceiveNewGoal, GetNewGoal, RejectGoal, ReceiveCancelRequest,
       AcceptGoal, StartExecutingGoal, AbortGoal, SendResultResponse, RespondToCancelRequests,
       SnapshotStatuses, PublishStatuses, FinishGoal, CollectCanceling, MarkCanceling,
       DropSendResult, ReceiveResultRequest
  <2>2. k = g /\ status[g] = "Executing"
    BY <1>1, <2>1 DEF IndInv, TypeOK, PublishFeedback, Feedbackable
  <2> QED BY <1>1, <2>2 DEF IndInv, UnreportedOK
<1>2. IndInv /\ [Next]_vars =>
        [\A g \in GoalIds : feedback'[g] # feedback[g] => reported[g] = << >>]_vars
  BY <1>1
<1> QED BY <1>2, Invariance, PTL DEF Spec, FeedbackStopsAtResult

-----------------------------------------------------------------------------
(* If the application keeps answering a cancel request and finishing a goal *)
(* apart (CancelExclusive), the table tells the truth.                      *)

\* The statuses of a goal that has not ended.
Live == {"Accepted", "Executing", "Canceling"}

\* A call that has ended its goal and has not put it on the finished list yet.
Finishing(t) == op[t] \in FinishingOps /\ pc[t] \in {"snap", "publish"}

\* Such a goal is at its end, is not on the finished list, and has one such call.
FinishingOK ==
  /\ \A t \in Tasks : Finishing(t) =>
       status[goal[t]] \in EndStatuses /\ \A i \in DOMAIN finished : finished[i] # goal[t]
  /\ \A t, u \in Tasks : Finishing(t) /\ Finishing(u) /\ goal[t] = goal[u] => t = u

\* No result is awaited or about to be sent while a cancel request is answered.
ExclusiveOK ==
  \/ cancelHandles = {} /\ \A t \in Tasks : pc[t] \notin {"collect", "cancel"}
  \/ \A t \in Tasks : pc[t] \notin {"wait", "finish"}

\* So the goals it is about stay alive.
CancelOK ==
  /\ \A h \in cancelHandles : \A g \in h.goals : status[g] \in Live
  /\ \A t \in Tasks : pc[t] \in {"collect", "cancel"} =>
       \A g \in todo[t] \cup picked[t] : status[g] \in Live
  /\ \A t \in Tasks : pc[t] = "idle" => picked[t] = {}

\* The inductive invariant: a result or a canceled goal never meets the other's call.
SerialInv == FlushLooksDone /\ FinishingOK /\ ExclusiveOK /\ CancelOK /\ ResultIsFinalStatus

\* A new server has no goals.
LEMMA InitSerial == Init => SerialInv
BY DEF Init, SerialInv, FlushLooksDone, FinishingOK, Finishing, FinishingOps, ExclusiveOK, CancelOK,
       ResultIsFinalStatus

\* What depends on variables that a step leaves alone is kept.
LEMMA SerialFrame ==
  ASSUME SerialInv,
         UNCHANGED <<status, finished, reported, cancelHandles, pc, op, goal, todo, picked>>
  PROVE  SerialInv'
BY DEF SerialInv, FlushLooksDone, FinishingOK, Finishing, ExclusiveOK, CancelOK, ResultIsFinalStatus

\* A goal that is alive or new is on no finished list, has no call that finishes
\* it and no result.
LEMMA LiveGoal ==
  ASSUME IndInv, SerialInv, NEW g \in GoalIds, status[g] \in Live \cup {"Unknown", "Vacant"}
  PROVE  /\ \A i \in DOMAIN finished : finished[i] # g
         /\ \A t \in Tasks : Finishing(t) => goal[t] # g
         /\ status[g] # "Vacant" => reported[g] = << >>
<1>1. \A e \in EndStatuses : e \notin Live \cup {"Unknown", "Vacant"}
  BY DEF Live, EndStatuses
<1>2. /\ \A i \in DOMAIN finished : finished[i] # g
      /\ \A t \in Tasks : Finishing(t) => goal[t] # g
  BY <1>1 DEF SerialInv, FlushLooksDone, FinishingOK
<1>3. ASSUME reported[g] # << >>, status[g] # "Vacant" PROVE FALSE
  <2>1. reported[g] \in Seq(EndStatuses) /\ Len(reported[g]) = 1 /\ status[g] = reported[g][1]
    BY <1>3 DEF IndInv, TypeOK, SerialInv, ResultIsFinalStatus
  <2>2. reported[g][1] \in EndStatuses
    BY <2>1
  <2> QED BY <1>1, <2>1, <2>2
<1> QED BY <1>2, <1>3

\* Goals that a cancel request is about are alive.
LEMMA CanceledLive ==
  ASSUME SerialInv, NEW t \in Tasks, NEW g \in todo[t], pc[t] \in {"collect", "cancel"}
  PROVE  status[g] \in Live
BY DEF SerialInv, CancelOK

-----------------------------------------------------------------------------
(* Steps that change the status of one goal.                               *)

\* The entry of a goal that no result, list or cancel request is about may
\* change as it likes, as far as the entries go.
LEMMA EntryKeeps ==
  ASSUME IndInv, SerialInv, NEW g \in GoalIds, NEW s \in EntryStates,
         status[g] \in Live \cup {"Unknown", "Vacant"}, status' = [status EXCEPT ![g] = s],
         finished' = finished
  PROVE  /\ FlushLooksDone'
         /\ \A t \in Tasks : Finishing(t) => status'[goal[t]] = status[goal[t]]
<1>1. \A i \in DOMAIN finished : finished[i] # g /\ finished[i] \in GoalIds
  <2>1. \A i \in DOMAIN finished : finished[i] # g
    BY LiveGoal
  <2>2. finished \in Seq(GoalIds)
    BY DEF IndInv, TypeOK
  <2>3. \A i \in DOMAIN finished : finished[i] \in GoalIds
    BY <2>2
  <2> QED BY <2>1, <2>3
<1>2. \A i \in DOMAIN finished : status'[finished[i]] = status[finished[i]]
  BY <1>1 DEF IndInv, TypeOK
<1>3. FlushLooksDone'
  BY <1>2 DEF SerialInv, FlushLooksDone
<1>4. ASSUME NEW t \in Tasks, Finishing(t) PROVE status'[goal[t]] = status[goal[t]]
  <2>1. goal[t] # g /\ goal[t] \in GoalIds
    BY <1>4, LiveGoal DEF Finishing, FinishingOps, IndInv, CallsOK
  <2> QED BY <2>1 DEF IndInv, TypeOK
<1> QED BY <1>3, <1>4

\* receive_new_goal: a new life of a goal, without a result.
LEMMA ReceiveNewGoalSerial ==
  ASSUME IndInv, SerialInv, NEW r \in goalQ, ReceiveNewGoal(r)
  PROVE  SerialInv'
<1>1. r[1] \in GoalIds
  BY DEF IndInv, TypeOK, GoalReqs
<1>2. CASE status[r[1]] # "Vacant"
  BY <1>2, SerialFrame DEF ReceiveNewGoal
<1>3. CASE status[r[1]] = "Vacant"
  <2>1. /\ status' = [status EXCEPT ![r[1]] = "Unknown"] /\ reported' = [reported EXCEPT ![r[1]] = << >>]
        /\ UNCHANGED <<finished, cancelHandles, pc, op, goal, todo, picked>>
    BY <1>3 DEF ReceiveNewGoal
  <2>2. FlushLooksDone' /\ \A t \in Tasks : Finishing(t) => status'[goal[t]] = status[goal[t]]
    BY <1>1, <1>3, <2>1, EntryKeeps DEF EntryStates, GoalStatuses
  <2>3. FinishingOK'
    BY <2>1, <2>2 DEF SerialInv, FinishingOK, Finishing
  <2>4. ExclusiveOK'
    BY <2>1 DEF SerialInv, ExclusiveOK
  <2>5. \A g \in GoalIds : status[g] \in Live => status'[g] \in Live
    BY <1>1, <1>3, <2>1 DEF IndInv, TypeOK, Live
  <2>6. CancelOK'
    BY <2>1, <2>5 DEF SerialInv, CancelOK, IndInv, TypeOK, CancelHandle
  <2>7. ResultIsFinalStatus'
    BY <1>1, <2>1 DEF SerialInv, ResultIsFinalStatus, IndInv, TypeOK
  <2> QED BY <2>2, <2>3, <2>4, <2>6, <2>7 DEF SerialInv
<1> QED BY <1>2, <1>3

\* A step that keeps goals alive keeps what is said of cancel requests.
LEMMA CancelKeeps ==
  ASSUME IndInv, SerialInv, \A g \in GoalIds : status[g] \in Live => status'[g] \in Live,
         cancelHandles' \subseteq cancelHandles, picked' = picked,
         \A t \in Tasks : /\ pc'[t] = "idle" => pc[t] = "idle"
                          /\ pc'[t] \in {"collect", "cancel"} =>
                               pc[t] \in {"collect", "cancel"} /\ todo'[t] \subseteq todo[t]
  PROVE  CancelOK'
<1>1. \A h \in cancelHandles' : \A g \in h.goals : status'[g] \in Live
  BY DEF SerialInv, CancelOK, IndInv, TypeOK, CancelHandle
<1>2. ASSUME NEW t \in Tasks, pc'[t] \in {"collect", "cancel"}, NEW g \in todo'[t] \cup picked'[t]
      PROVE  status'[g] \in Live
  <2>1. g \in todo[t] \cup picked[t] /\ pc[t] \in {"collect", "cancel"}
    BY <1>2
  <2>2. g \in GoalIds
    BY <2>1 DEF IndInv, TypeOK
  <2> QED BY <2>1, <2>2 DEF SerialInv, CancelOK
<1> QED BY <1>1, <1>2 DEF SerialInv, CancelOK

\* accept_goal and start_executing_goal: a live goal goes on living, and the call
\* will not put it on the finished list.
LEMMA BeginSerial ==
  ASSUME IndInv, SerialInv, NEW t \in Tasks, NEW g \in GoalIds, NEW s \in Live,
         NEW name \in {"accept", "start"},
         status[g] \in {"Unknown", "Accepted"}, status' = [status EXCEPT ![g] = s],
         pc[t] = "idle", Call(t, name, g, "snap"),
         UNCHANGED <<finished, reported, cancelHandles, todo, picked>>
  PROVE  SerialInv'
<1>1. FlushLooksDone' /\ \A u \in Tasks : Finishing(u) => status'[goal[u]] = status[goal[u]]
  BY EntryKeeps DEF EntryStates, GoalStatuses, Live
<1>2. \A u \in Tasks : Finishing(u)' => u # t /\ Finishing(u) /\ goal'[u] = goal[u]
  BY DEF Finishing, FinishingOps, Call, IndInv, TypeOK
<1>3. FinishingOK'
  BY <1>1, <1>2 DEF SerialInv, FinishingOK
<1>4. \A u \in Tasks : pc'[u] = IF u = t THEN "snap" ELSE pc[u]
  BY DEF Call, IndInv, TypeOK
<1>5. ExclusiveOK'
  BY <1>4 DEF SerialInv, ExclusiveOK
<1>6. \A k \in GoalIds : status[k] \in Live => status'[k] \in Live
  BY DEF IndInv, TypeOK
<1>7. CancelOK'
  BY <1>4, <1>6, CancelKeeps
<1>8. ResultIsFinalStatus'
  <2>1. reported[g] = << >>
    BY LiveGoal DEF Live
  <2> QED BY <2>1 DEF SerialInv, ResultIsFinalStatus, IndInv, TypeOK
<1> QED BY <1>1, <1>3, <1>5, <1>7, <1>8 DEF SerialInv

\* reject_goal: a goal that is new is forgotten.
LEMMA RejectGoalSerial ==
  ASSUME IndInv, SerialInv, NEW h \in newHandles, RejectGoal(h)
  PROVE  SerialInv'
<1>1. h[1] \in GoalIds /\ status[h[1]] = "Unknown" /\ status' = [status EXCEPT ![h[1]] = "Vacant"]
  BY DEF IndInv, TypeOK, GoalReqs, RejectGoal
<1>2. UNCHANGED <<finished, reported, cancelHandles, pc, op, goal, todo, picked>>
  BY DEF RejectGoal
<1>3. FlushLooksDone' /\ \A u \in Tasks : Finishing(u) => status'[goal[u]] = status[goal[u]]
  BY <1>1, <1>2, EntryKeeps DEF EntryStates
<1>4. FinishingOK' /\ ExclusiveOK'
  BY <1>2, <1>3 DEF SerialInv, FinishingOK, Finishing, ExclusiveOK
<1>5. \A k \in GoalIds : status[k] \in Live => status'[k] \in Live
  BY <1>1 DEF IndInv, TypeOK, Live
<1>6. CancelOK'
  BY <1>2, <1>5, CancelKeeps
<1>7. ResultIsFinalStatus'
  <2>1. reported[h[1]] = << >>
    BY <1>1, LiveGoal
  <2> QED BY <1>1, <1>2, <2>1 DEF SerialInv, ResultIsFinalStatus, IndInv, TypeOK
<1> QED BY <1>3, <1>4, <1>6, <1>7 DEF SerialInv

\* get_new_goal: what is on the finished list is at its end, so no call or cancel
\* request is about it.
LEMMA GetNewGoalSerial == ASSUME IndInv, SerialInv, GetNewGoal PROVE SerialInv'
<1> DEFINE flushed == {finished[i] : i \in DOMAIN finished}
<1>1. /\ status' = [g \in GoalIds |-> IF g \in flushed THEN "Vacant" ELSE status[g]]
      /\ finished' = << >>
      /\ UNCHANGED <<reported, cancelHandles, pc, op, goal, todo, picked>>
  BY DEF GetNewGoal
<1>2. \A g \in flushed : status[g] \in EndStatuses
  BY DEF SerialInv, FlushLooksDone
<1>3. \A g \in GoalIds : status[g] \in Live => status'[g] \in Live
  BY <1>1, <1>2 DEF Live, EndStatuses
<1>4. FlushLooksDone' /\ ExclusiveOK'
  BY <1>1 DEF FlushLooksDone, SerialInv, ExclusiveOK
<1>5. \A t \in Tasks : Finishing(t) => goal[t] \in GoalIds /\ goal[t] \notin flushed
  BY DEF Finishing, FinishingOps, IndInv, CallsOK, SerialInv, FinishingOK
<1>6. FinishingOK'
  BY <1>1, <1>5 DEF SerialInv, FinishingOK, Finishing
<1>7. CancelOK'
  BY <1>1, <1>3, CancelKeeps
<1>8. ResultIsFinalStatus'
  BY <1>1 DEF SerialInv, ResultIsFinalStatus
<1> QED BY <1>4, <1>6, <1>7, <1>8 DEF SerialInv

\* abort_goal: no cancel request is being answered, so none is about the goal.
LEMMA AbortGoalSerial ==
  ASSUME CancelExclusive, IndInv, SerialInv, NEW t \in Tasks, NEW g \in GoalIds, AbortGoal(t, g)
  PROVE  SerialInv'
<1>1. /\ status[g] \in {"Accepted", "Executing"} /\ status' = [status EXCEPT ![g] = "Aborted"]
      /\ pc[t] = "idle" /\ Call(t, "abort", g, "snap")
      /\ UNCHANGED <<finished, reported, cancelHandles, todo, picked>>
  BY DEF AbortGoal, Abortable
<1>2. cancelHandles = {} /\ \A u \in Tasks : pc[u] \notin {"collect", "cancel"}
  BY DEF AbortGoal, NoCancelInProgress
<1>3. FlushLooksDone' /\ \A u \in Tasks : Finishing(u) => status'[goal[u]] = status[goal[u]]
  BY <1>1, EntryKeeps DEF EntryStates, GoalStatuses, EndStatuses, Live
<1>4. \A u \in Tasks : /\ pc'[u] = IF u = t THEN "snap" ELSE pc[u]
                       /\ u # t => (Finishing(u)' <=> Finishing(u)) /\ goal'[u] = goal[u]
  BY <1>1 DEF Call, Finishing, IndInv, TypeOK
<1>5. goal'[t] = g
  BY <1>1 DEF Call, IndInv, TypeOK
<1>6. /\ \A i \in DOMAIN finished : finished[i] # g
      /\ \A u \in Tasks : Finishing(u) => goal[u] # g
      /\ reported[g] = << >>
  BY <1>1, LiveGoal DEF Live
<1>7. status'[g] \in EndStatuses
  BY <1>1 DEF EndStatuses, IndInv, TypeOK
<1>8. FinishingOK'
  BY <1>1, <1>3, <1>4, <1>5, <1>6, <1>7 DEF SerialInv, FinishingOK
<1>9. ExclusiveOK' /\ CancelOK'
  BY <1>1, <1>2, <1>4 DEF SerialInv, ExclusiveOK, CancelOK
<1>10. ResultIsFinalStatus'
  BY <1>1, <1>6 DEF SerialInv, ResultIsFinalStatus, IndInv, TypeOK
<1> QED BY <1>3, <1>8, <1>9, <1>10 DEF SerialInv

-----------------------------------------------------------------------------
(* Steps of calls that leave the entries alone.                            *)

\* The table and the results stay, and no call becomes one that finishes a goal.
LEMMA EntriesFrame ==
  ASSUME SerialInv, UNCHANGED <<status, finished, reported>>,
         \A u \in Tasks : Finishing(u)' => Finishing(u) /\ goal'[u] = goal[u]
  PROVE  FlushLooksDone' /\ ResultIsFinalStatus' /\ FinishingOK'
BY DEF SerialInv, FlushLooksDone, ResultIsFinalStatus, FinishingOK

\* send_result_response begins: no cancel request is being answered.
LEMMA SendResultResponseSerial ==
  ASSUME CancelExclusive, IndInv, SerialInv, NEW t \in Tasks, NEW g \in GoalIds,
         SendResultResponse(t, g)
  PROVE  SerialInv'
<1>1. cancelHandles = {} /\ \A u \in Tasks : pc[u] \notin {"collect", "cancel"}
  BY DEF SendResultResponse, NoCancelInProgress
<1>2. \A u \in Tasks : /\ u # t => pc'[u] = pc[u] /\ op'[u] = op[u] /\ goal'[u] = goal[u]
                       /\ u = t => pc'[u] \in {"wait", "finish"}
  BY DEF SendResultResponse, Call, IndInv, TypeOK
<1>3. UNCHANGED <<status, finished, reported, cancelHandles, todo, picked>>
  BY DEF SendResultResponse
<1>4. \A u \in Tasks : Finishing(u)' => Finishing(u) /\ goal'[u] = goal[u]
  BY <1>2 DEF Finishing
<1>5. ExclusiveOK' /\ CancelOK'
  BY <1>1, <1>2, <1>3 DEF SerialInv, ExclusiveOK, CancelOK
<1> QED BY <1>3, <1>4, <1>5, EntriesFrame DEF SerialInv

\* A call that waits for a result request goes on waiting or has it.
LEMMA ReceiveResultRequestSerial ==
  ASSUME IndInv, SerialInv, NEW t \in Tasks, NEW r \in resultQ, ReceiveResultRequest(t, r)
  PROVE  SerialInv'
<1>1. \A u \in Tasks : /\ u # t => pc'[u] = pc[u]
                       /\ u = t => pc'[u] \in {"wait", "finish"} /\ pc[u] = "wait"
  BY DEF ReceiveResultRequest, IndInv, TypeOK
<1>2. UNCHANGED <<status, finished, reported, cancelHandles, todo, picked, op, goal>>
  BY DEF ReceiveResultRequest
<1>3. \A u \in Tasks : Finishing(u)' => Finishing(u) /\ goal'[u] = goal[u]
  BY <1>1, <1>2 DEF Finishing
<1>4. ExclusiveOK' /\ CancelOK'
  BY <1>1, <1>2 DEF SerialInv, ExclusiveOK, CancelOK
<1> QED BY <1>2, <1>3, <1>4, EntriesFrame DEF SerialInv

\* A call that returns is about no goal any more.
LEMMA ReturnSerial ==
  ASSUME IndInv, SerialInv, NEW t \in Tasks, Return(t), UNCHANGED cancelHandles
  PROVE  /\ ExclusiveOK'
         /\ (\A g \in GoalIds : status[g] \in Live => status'[g] \in Live) => CancelOK'
         /\ \A u \in Tasks : Finishing(u)' <=> u # t /\ Finishing(u)
         /\ \A u \in Tasks \ {t} : goal'[u] = goal[u]
<1>1. \A u \in Tasks : /\ u # t => /\ pc'[u] = pc[u] /\ op'[u] = op[u] /\ goal'[u] = goal[u]
                                   /\ todo'[u] = todo[u] /\ picked'[u] = picked[u]
                       /\ u = t => pc'[u] = "idle" /\ picked'[u] = {}
  BY DEF Return, Call, IndInv, TypeOK
<1>2. ExclusiveOK'
  BY <1>1 DEF SerialInv, ExclusiveOK
<1>3. ASSUME \A g \in GoalIds : status[g] \in Live => status'[g] \in Live PROVE CancelOK'
  <2>1. \A h \in cancelHandles' : \A g \in h.goals : status'[g] \in Live
    BY <1>3 DEF SerialInv, CancelOK, IndInv, TypeOK, CancelHandle
  <2>2. ASSUME NEW u \in Tasks, pc'[u] \in {"collect", "cancel"}, NEW g \in todo'[u] \cup picked'[u]
        PROVE  status'[g] \in Live
    <3>1. g \in todo[u] \cup picked[u] /\ pc[u] \in {"collect", "cancel"}
      BY <1>1, <2>2
    <3>2. g \in GoalIds
      BY <3>1 DEF IndInv, TypeOK
    <3> QED BY <1>3, <3>1, <3>2 DEF SerialInv, CancelOK
  <2> QED BY <1>1, <2>1, <2>2 DEF SerialInv, CancelOK
<1> QED BY <1>1, <1>2, <1>3 DEF Finishing

\* The future of send_result_response is dropped.
LEMMA DropSendResultSerial ==
  ASSUME IndInv, SerialInv, NEW t \in Tasks, DropSendResult(t)
  PROVE  SerialInv'
<1>1. Return(t) /\ UNCHANGED <<status, finished, reported, cancelHandles>>
  BY DEF DropSendResult
<1>2. ExclusiveOK' /\ CancelOK' /\ \A u \in Tasks : Finishing(u)' => Finishing(u) /\ goal'[u] = goal[u]
  BY <1>1, ReturnSerial
<1> QED BY <1>1, <1>2, EntriesFrame DEF SerialInv

\* send_result_response ends its goal, which is alive and has no result, and which no
\* cancel request is about.
LEMMA FinishGoalSerial ==
  ASSUME IndInv, SerialInv, NEW t \in Tasks, NEW e \in EndStatuses, FinishGoal(t, e)
  PROVE  SerialInv'
<1> DEFINE g == goal[t]
<1>1. /\ g \in GoalIds /\ pc[t] = "finish" /\ op[t] = "finish"
      /\ UNCHANGED <<finished, cancelHandles>>
  BY DEF IndInv, CallsOK, FinishGoal
<1>2. cancelHandles = {} /\ \A u \in Tasks : pc[u] \notin {"collect", "cancel"}
  BY <1>1 DEF SerialInv, ExclusiveOK
<1>3. CASE status[g] \notin Finishable
  <2>1. Return(t) /\ UNCHANGED <<status, reported>>
    BY <1>3 DEF FinishGoal
  <2>2. ExclusiveOK' /\ CancelOK' /\ \A u \in Tasks : Finishing(u)' => Finishing(u) /\ goal'[u] = goal[u]
    BY <1>1, <2>1, ReturnSerial
  <2> QED BY <1>1, <2>1, <2>2, EntriesFrame DEF SerialInv
<1>4. CASE status[g] \in Finishable
  <2>1. status[g] \in Live /\ status' = [status EXCEPT ![g] = e]
    BY <1>4 DEF FinishGoal, Finishable, Live
  <2>2. FlushLooksDone' /\ \A u \in Tasks : Finishing(u) => status'[goal[u]] = status[goal[u]]
    BY <1>1, <2>1, EntryKeeps DEF EntryStates, GoalStatuses
  <2>3. /\ \A i \in DOMAIN finished : finished[i] # g
        /\ \A u \in Tasks : Finishing(u) => goal[u] # g
        /\ reported[g] = << >>
    BY <1>1, <2>1, LiveGoal DEF Live
  <2>4. CASE Return(t) /\ UNCHANGED reported
    <3>1. /\ \A u \in Tasks : Finishing(u)' <=> u # t /\ Finishing(u)
          /\ \A u \in Tasks \ {t} : goal'[u] = goal[u]
          /\ ExclusiveOK'
      BY <1>1, <2>4, ReturnSerial
    <3>2. FinishingOK'
      BY <1>1, <2>2, <3>1 DEF SerialInv, FinishingOK
    <3>3. \A u \in Tasks : /\ u # t => pc'[u] = pc[u] /\ picked'[u] = picked[u]
                           /\ u = t => pc'[u] = "idle" /\ picked'[u] = {}
      BY <2>4 DEF Return, Call, IndInv, TypeOK
    <3>4. CancelOK'
      BY <1>1, <1>2, <3>3 DEF SerialInv, CancelOK
    <3>5. ResultIsFinalStatus'
      BY <1>1, <2>1, <2>3, <2>4 DEF SerialInv, ResultIsFinalStatus, IndInv, TypeOK
    <3> QED BY <2>2, <3>1, <3>2, <3>4, <3>5 DEF SerialInv
  <2>5. CASE /\ reported' = [reported EXCEPT ![g] = Append(@, e)]
             /\ pc' = [pc EXCEPT ![t] = "snap"]
             /\ UNCHANGED <<op, goal, req, todo, picked, snap>>
    <3>1. \A u \in Tasks : /\ u # t => (Finishing(u)' <=> Finishing(u)) /\ pc'[u] = pc[u]
                           /\ u = t => pc'[u] = "snap"
      BY <2>5 DEF Finishing, IndInv, TypeOK
    <3>2. status'[g] \in EndStatuses
      BY <1>1, <2>1 DEF IndInv, TypeOK
    <3>3. FinishingOK'
      BY <1>1, <2>2, <2>3, <2>5, <3>1, <3>2 DEF SerialInv, FinishingOK
    <3>4. ExclusiveOK' /\ CancelOK'
      BY <1>1, <1>2, <2>5, <3>1 DEF SerialInv, ExclusiveOK, CancelOK
    <3>5. Len(reported'[g]) = 1 /\ reported'[g][1] = e /\ status'[g] = e
      <4>1. reported'[g] = Append(<< >>, e) /\ status'[g] = e
        BY <1>1, <2>1, <2>3, <2>5 DEF IndInv, TypeOK
      <4> QED BY <4>1
    <3>6. \A k \in GoalIds \ {g} : reported'[k] = reported[k] /\ status'[k] = status[k]
      BY <1>1, <2>1, <2>5 DEF IndInv, TypeOK
    <3>7. ASSUME NEW k \in GoalIds, reported'[k] # << >>
          PROVE  Len(reported'[k]) = 1 /\ status'[k] \in {reported'[k][1], "Vacant"}
      BY <3>5, <3>6, <3>7 DEF SerialInv, ResultIsFinalStatus
    <3>8. ResultIsFinalStatus'
      BY <3>7 DEF ResultIsFinalStatus
    <3> QED BY <2>2, <3>3, <3>4, <3>8 DEF SerialInv
  <2> QED BY <1>4, <2>4, <2>5 DEF FinishGoal
<1> QED BY <1>3, <1>4

\* publish_statuses, first half.
LEMMA SnapshotStatusesSerial ==
  ASSUME IndInv, SerialInv, NEW t \in Tasks, SnapshotStatuses(t)
  PROVE  SerialInv'
<1>1. \A u \in Tasks : /\ u # t => pc'[u] = pc[u]
                       /\ u = t => pc'[u] = "publish" /\ pc[u] = "snap"
  BY DEF SnapshotStatuses, IndInv, TypeOK
<1>2. UNCHANGED <<status, finished, reported, cancelHandles, todo, picked, op, goal>>
  BY DEF SnapshotStatuses
<1>3. \A u \in Tasks : Finishing(u)' => Finishing(u) /\ goal'[u] = goal[u]
  BY <1>1, <1>2 DEF Finishing
<1>4. ExclusiveOK' /\ CancelOK'
  BY <1>1, <1>2 DEF SerialInv, ExclusiveOK, CancelOK
<1> QED BY <1>2, <1>3, <1>4, EntriesFrame DEF SerialInv

\* publish_statuses, second half: the goal that was ended goes on the list.
LEMMA PublishStatusesSerial ==
  ASSUME IndInv, SerialInv, NEW t \in Tasks, PublishStatuses(t)
  PROVE  SerialInv'
<1>1. /\ pc[t] = "publish" /\ Return(t) /\ UNCHANGED <<status, reported, cancelHandles>>
      /\ finished' = IF op[t] \in FinishingOps THEN Append(finished, goal[t]) ELSE finished
  BY DEF PublishStatuses
<1>2. ExclusiveOK' /\ CancelOK' /\ (\A u \in Tasks : Finishing(u)' => u # t /\ Finishing(u) /\ goal'[u] = goal[u])
  BY <1>1, ReturnSerial
<1>3. CASE op[t] \notin FinishingOps
  BY <1>1, <1>2, <1>3, EntriesFrame DEF SerialInv
<1>4. CASE op[t] \in FinishingOps
  <2>1. Finishing(t) /\ goal[t] \in GoalIds
    BY <1>1, <1>4 DEF Finishing, FinishingOps, IndInv, CallsOK
  <2>2. /\ finished \in Seq(GoalIds) /\ DOMAIN finished' = DOMAIN finished \cup {Len(finished) + 1}
        /\ \A i \in DOMAIN finished : finished'[i] = finished[i]
        /\ finished'[Len(finished) + 1] = goal[t] /\ Len(finished) + 1 \notin DOMAIN finished
    <3>1. finished \in Seq(GoalIds) /\ finished' = Append(finished, goal[t])
      BY <1>1, <1>4 DEF IndInv, TypeOK
    <3> QED BY <2>1, <3>1
  <2>3. status[goal[t]] \in EndStatuses /\ \A i \in DOMAIN finished : finished[i] # goal[t]
    BY <2>1 DEF SerialInv, FinishingOK
  <2>4. FlushLooksDone'
    BY <1>1, <2>2, <2>3 DEF SerialInv, FlushLooksDone
  <2>5. FinishingOK'
    BY <1>1, <1>2, <2>1, <2>2 DEF SerialInv, FinishingOK
  <2>6. ResultIsFinalStatus'
    BY <1>1 DEF SerialInv, ResultIsFinalStatus
  <2> QED BY <1>2, <2>4, <2>5, <2>6 DEF SerialInv
<1> QED BY <1>3, <1>4

-----------------------------------------------------------------------------
(* Cancellation.                                                           *)

\* receive_cancel_request: the goals it picks are alive, and nothing is being finished.
LEMMA ReceiveCancelRequestSerial ==
  ASSUME CancelExclusive, IndInv, SerialInv, NEW c \in cancelQ, ReceiveCancelRequest(c)
  PROVE  SerialInv'
<1>1. \A t \in Tasks : pc[t] \notin {"wait", "finish"}
  BY DEF ReceiveCancelRequest, NoFinishInProgress
<1>2. UNCHANGED <<status, finished, reported, pc, op, goal, todo, picked>>
  BY DEF ReceiveCancelRequest
<1>3. \A h \in cancelHandles' : \A g \in h.goals : status[g] \in Live
  <2>1. \A h \in cancelHandles' : h \in cancelHandles \/ \A g \in h.goals : status[g] \in Cancelable
    BY DEF ReceiveCancelRequest
  <2> QED BY <2>1 DEF SerialInv, CancelOK, Cancelable, Live
<1>4. CancelOK'
  BY <1>2, <1>3 DEF SerialInv, CancelOK
<1>5. ExclusiveOK'
  BY <1>1, <1>2 DEF ExclusiveOK
<1>6. \A u \in Tasks : Finishing(u)' => Finishing(u) /\ goal'[u] = goal[u]
  BY <1>2 DEF Finishing
<1> QED BY <1>2, <1>4, <1>5, <1>6, EntriesFrame DEF SerialInv

\* respond_to_cancel_requests begins with goals that are alive.
LEMMA RespondToCancelRequestsSerial ==
  ASSUME CancelExclusive, IndInv, SerialInv, NEW t \in Tasks, NEW h \in cancelHandles,
         NEW chosen \in SUBSET GoalIds, NEW kept \in BOOLEAN,
         RespondToCancelRequests(t, h, chosen, kept)
  PROVE  SerialInv'
<1>1. /\ UNCHANGED <<status, finished, reported, picked>>
      /\ cancelHandles' \subseteq cancelHandles /\ cancelHandles # {}
  BY DEF RespondToCancelRequests
<1>2. \A u \in Tasks : /\ u # t => /\ pc'[u] = pc[u] /\ op'[u] = op[u] /\ goal'[u] = goal[u]
                                   /\ todo'[u] = todo[u]
                       /\ u = t => /\ pc'[u] \in {"snap", "collect"} /\ op'[u] = "cancel"
                                   /\ todo'[u] = chosen /\ pc[u] = "idle"
  BY DEF RespondToCancelRequests, Call, IndInv, TypeOK
<1>3. \A u \in Tasks : Finishing(u)' => Finishing(u) /\ goal'[u] = goal[u]
  BY <1>2 DEF Finishing, FinishingOps
<1>4. ExclusiveOK'
  BY <1>1, <1>2 DEF SerialInv, ExclusiveOK
<1>5. \A g \in chosen : status[g] \in Live
  BY DEF SerialInv, CancelOK, RespondToCancelRequests
<1>6. ASSUME NEW u \in Tasks, pc'[u] \in {"collect", "cancel"}, NEW g \in todo'[u] \cup picked'[u]
      PROVE  status'[g] \in Live
  BY <1>1, <1>2, <1>5, <1>6 DEF SerialInv, CancelOK
<1>7. CancelOK'
  BY <1>1, <1>2, <1>6 DEF SerialInv, CancelOK
<1> QED BY <1>1, <1>3, <1>4, <1>7, EntriesFrame DEF SerialInv

\* Its filter_map keeps some of these goals.
LEMMA CollectCancelingSerial ==
  ASSUME IndInv, SerialInv, NEW t \in Tasks, NEW g \in GoalIds, CollectCanceling(t, g)
  PROVE  SerialInv'
<1> DEFINE kept == picked[t] \cup (IF acceptedTime[g] # None THEN {g} ELSE {})
<1>1. UNCHANGED <<status, finished, reported, cancelHandles, op, goal>>
  BY DEF CollectCanceling
<1>2. \A u \in Tasks : u # t => pc'[u] = pc[u] /\ todo'[u] = todo[u] /\ picked'[u] = picked[u]
  BY DEF CollectCanceling, IndInv, TypeOK
<1>3. /\ pc[t] = "collect" /\ pc'[t] \in {"collect", "cancel", "snap"} /\ g \in todo[t]
      /\ todo'[t] = (IF todo[t] \ {g} = {} THEN kept ELSE todo[t] \ {g}) /\ picked'[t] = kept
  BY DEF CollectCanceling, IndInv, TypeOK
<1>4. op[t] \notin FinishingOps
  BY <1>3 DEF IndInv, CallsOK, FinishingOps
<1>5. \A u \in Tasks : Finishing(u)' => Finishing(u) /\ goal'[u] = goal[u]
  BY <1>1, <1>2, <1>4 DEF Finishing
<1>6. ExclusiveOK'
  BY <1>1, <1>2, <1>3 DEF SerialInv, ExclusiveOK
<1>7. \A k \in todo'[t] \cup picked'[t] : k \in todo[t] \cup picked[t]
  BY <1>3
<1>8. CancelOK'
  BY <1>1, <1>2, <1>3, <1>7 DEF SerialInv, CancelOK
<1> QED BY <1>1, <1>5, <1>6, <1>8, EntriesFrame DEF SerialInv

\* Its second loop marks goals that are alive.
LEMMA MarkCancelingSerial ==
  ASSUME IndInv, SerialInv, NEW t \in Tasks, NEW g \in GoalIds, MarkCanceling(t, g)
  PROVE  SerialInv'
<1>1. pc[t] = "cancel" /\ g \in todo[t] /\ status[g] \in Live /\ op[t] = "cancel"
  BY CanceledLive DEF MarkCanceling, IndInv, CallsOK
<1>2. /\ status' = [status EXCEPT ![g] = "Canceling"]
      /\ UNCHANGED <<finished, reported, cancelHandles, op, goal, picked>>
  BY <1>1 DEF MarkCanceling, Live, IndInv, TypeOK
<1>3. \A u \in Tasks : /\ u # t => pc'[u] = pc[u] /\ todo'[u] = todo[u]
                       /\ u = t => pc'[u] \in {"snap", "cancel"} /\ todo'[u] \subseteq todo[u]
  BY DEF MarkCanceling, IndInv, TypeOK
<1>4. FlushLooksDone' /\ \A u \in Tasks : Finishing(u) => status'[goal[u]] = status[goal[u]]
  BY <1>1, <1>2, EntryKeeps DEF EntryStates, GoalStatuses
<1>5. \A u \in Tasks : Finishing(u)' => Finishing(u)
  BY <1>1, <1>2, <1>3 DEF Finishing, FinishingOps
<1>6. FinishingOK'
  BY <1>2, <1>4, <1>5 DEF SerialInv, FinishingOK
<1>7. ExclusiveOK'
  BY <1>1, <1>2, <1>3 DEF SerialInv, ExclusiveOK
<1>8. \A k \in GoalIds : status[k] \in Live => status'[k] \in Live
  BY <1>2 DEF IndInv, TypeOK, Live
<1>9. CancelOK'
  BY <1>1, <1>2, <1>3, <1>8, CancelKeeps
<1>10. ResultIsFinalStatus'
  <2>1. reported[g] = << >>
    BY <1>1, LiveGoal DEF Live
  <2> QED BY <1>2, <2>1 DEF SerialInv, ResultIsFinalStatus, IndInv, TypeOK
<1> QED BY <1>4, <1>6, <1>7, <1>9, <1>10 DEF SerialInv

-----------------------------------------------------------------------------

\* Every step keeps the invariant, if CancelExclusive.
LEMMA NextSerial == CancelExclusive /\ IndInv /\ SerialInv /\ [Next]_vars => SerialInv'
<1> SUFFICES ASSUME CancelExclusive, IndInv, SerialInv, [Next]_vars PROVE SerialInv'
  OBVIOUS
<1>1. CASE ClientStep \/ (\E g \in GoalIds : PublishFeedback(g)) \/ UNCHANGED vars
  BY <1>1, SerialFrame DEF ClientStep, SendGoal, RequestResult, CancelGoal, PublishFeedback, vars
<1>2. CASE ReceiveStep
  BY <1>1, <1>2, ReceiveNewGoalSerial, GetNewGoalSerial, RejectGoalSerial, ReceiveCancelRequestSerial
  DEF ReceiveStep
<1>3. ASSUME NEW t \in Tasks, StartCall(t) PROVE SerialInv'
  <2>1. ASSUME NEW h \in newHandles, NEW now \in Times, AcceptGoal(t, h, now) PROVE SerialInv'
    <3>1. h[1] \in GoalIds
      BY DEF IndInv, TypeOK, GoalReqs
    <3> QED BY <2>1, <3>1, BeginSerial DEF AcceptGoal, Live
  <2>2. ASSUME NEW g \in GoalIds, StartExecutingGoal(t, g) PROVE SerialInv'
    BY <2>2, BeginSerial DEF StartExecutingGoal, Live
  <2> QED BY <1>3, <2>1, <2>2, AbortGoalSerial, SendResultResponseSerial,
             RespondToCancelRequestsSerial DEF StartCall
<1>4. ASSUME NEW t \in Tasks, ContinueCall(t) PROVE SerialInv'
  BY <1>4, SnapshotStatusesSerial, PublishStatusesSerial, FinishGoalSerial,
     CollectCancelingSerial, MarkCancelingSerial DEF ContinueCall
<1>5. CASE \E t \in Tasks : DropSendResult(t)
  BY <1>5, DropSendResultSerial
<1>6. CASE \E t \in Tasks, r \in resultQ : ReceiveResultRequest(t, r)
  BY <1>6, ReceiveResultRequestSerial
<1> QED BY <1>1, <1>2, <1>3, <1>4, <1>5, <1>6 DEF Next

\* If cancel requests are answered apart from results, the finished list, the calls that
\* finish goals, the goals being canceled and the results agree with the table.
THEOREM SerialInvariance == ASSUME CancelExclusive PROVE Spec => []SerialInv
BY InitSerial, NextSerial, Invariance, PTL DEF Spec

\* The debug_assert of flush_finisehd_goals: a goal on the finished list is in the
\* table at its end, and on the list once.
THEOREM FlushIsRight == ASSUME CancelExclusive PROVE Spec => []FlushLooksDone
<1>1. SerialInv => FlushLooksDone
  BY DEF SerialInv
<1> QED BY <1>1, SerialInvariance, PTL

\* One result for each life of a goal, and the table never contradicts it
\* (send_result_response, respond_to_cancel_requests).
THEOREM ResultIsFinal == ASSUME CancelExclusive PROVE Spec => []ResultIsFinalStatus
<1>1. SerialInv => ResultIsFinalStatus
  BY DEF SerialInv
<1> QED BY <1>1, SerialInvariance, PTL

-----------------------------------------------------------------------------
(* The first goal of each id.                                              *)

\* The requests are numbered, so no request is handed out twice.
RequestsOK ==
  /\ \A r \in goalQ \cup newHandles : r[2] <= sent[r[1]]
  /\ goalQ \cap newHandles = {}

\* Every step keeps RequestsOK.
LEMMA NextRequests ==
  ASSUME IndInv, RequestsOK, [Next]_vars
  PROVE  RequestsOK'
<1>0. MaxSends \in Nat
  BY ConstantsAssumption
<1>1. ASSUME NEW g \in GoalIds, SendGoal(g) PROVE RequestsOK'
  <2>1. /\ goalQ' = goalQ \cup {<<g, sent[g] + 1>>} /\ newHandles' = newHandles
        /\ sent' = [sent EXCEPT ![g] = @ + 1]
    BY <1>1 DEF SendGoal, handles
  <2>2. sent \in [GoalIds -> Nat] /\ goalQ \cup newHandles \subseteq GoalIds \X Nat
    BY <1>0 DEF IndInv, TypeOK, GoalReqs
  <2>3. sent'[g] = sent[g] + 1 /\ \A k \in GoalIds \ {g} : sent'[k] = sent[k]
    BY <2>1, <2>2
  <2>4. ASSUME NEW r \in goalQ \cup newHandles PROVE r[2] <= sent'[r[1]]
    <3>1. r[1] \in GoalIds /\ r[2] \in Nat /\ r[2] <= sent[r[1]] /\ sent[r[1]] \in Nat
      BY <2>2 DEF RequestsOK
    <3> QED BY <2>2, <2>3, <3>1
  <2>5. <<g, sent[g] + 1>> \notin newHandles
    <3> SUFFICES ASSUME <<g, sent[g] + 1>> \in newHandles PROVE FALSE
      OBVIOUS
    <3>1. sent[g] + 1 <= sent[g] /\ sent[g] \in Nat
      BY <2>2 DEF RequestsOK
    <3> QED BY <3>1
  <2>6. sent[g] + 1 <= sent'[g]
    BY <2>2, <2>3
  <2> QED BY <2>1, <2>4, <2>5, <2>6 DEF RequestsOK
<1>2. ASSUME NEW r \in goalQ, ReceiveNewGoal(r) PROVE RequestsOK'
  <2>1. goalQ' = goalQ \ {r} /\ sent' = sent /\ newHandles' \subseteq newHandles \cup {r}
    BY <1>2 DEF ReceiveNewGoal
  <2> QED BY <2>1 DEF RequestsOK
<1>3. CASE goalQ' = goalQ /\ sent' = sent /\ newHandles' = newHandles
  BY <1>3 DEF RequestsOK
<1> QED
  BY <1>1, <1>2, <1>3
  DEF Next, vars, requests, handles, ClientStep, ReceiveStep, StartCall, ContinueCall, RequestResult,
      CancelGoal, GetNewGoal, RejectGoal, PublishFeedback, ReceiveCancelRequest, AcceptGoal,
      StartExecutingGoal, AbortGoal, SendResultResponse, RespondToCancelRequests,
      SnapshotStatuses, PublishStatuses, FinishGoal, CollectCanceling, MarkCanceling,
      DropSendResult, ReceiveResultRequest

\* A new goal of an id is its first if the id has had none before.
LEMMA ReceiveLives ==
  ASSUME IndInv, RequestsOK, NEW r \in goalQ, newHandles' = newHandles \cup {r}
  PROVE  lives' = [lives EXCEPT ![r[1]] = IF @ = "none" THEN "first" ELSE "later"]
<1>1. r[1] \in GoalIds /\ r \notin newHandles
  BY DEF IndInv, TypeOK, GoalReqs, RequestsOK
<1>2. Received(r[1])' = Received(r[1]) \cup {r} /\ r \notin Received(r[1])
  BY <1>1 DEF Received
<1>3. lives'[r[1]] = IF lives[r[1]] = "none" THEN "first" ELSE "later"
  BY <1>1, <1>2 DEF lives
<1>4. \A k \in GoalIds \ {r[1]} : Received(k)' = Received(k)
  BY DEF Received
<1>5. \A k \in GoalIds \ {r[1]} : lives'[k] = lives[k]
  BY <1>4 DEF lives
<1>6. lives = [g \in GoalIds |-> lives[g]] /\ lives' = [g \in GoalIds |-> lives'[g]]
  BY DEF lives
<1> QED BY <1>1, <1>3, <1>5, <1>6

\* An id that has had no goal is nowhere, and the first goal of an id has, before it is
\* started, no handle or call with which a result could be sent.
FirstLifeOK ==
  \A g \in GoalIds :
    /\ lives[g] = "none" => /\ status[g] = "Vacant" /\ g \notin executingHandles
                            /\ \A t \in Tasks : goal[t] # g
    /\ lives[g] = "first" /\ status[g] \in {"Unknown", "Accepted"} =>
         /\ g \notin executingHandles
         /\ \A t \in Tasks : goal[t] = g => op[t] = "accept"

\* A change of the table that neither receives nor accepts a goal keeps FirstLifeOK.
LEMMA FrameFirst ==
  ASSUME FirstLifeOK, newHandles' = newHandles, executingHandles' = executingHandles,
         \A t \in Tasks : \/ goal'[t] \notin GoalIds
                          \/ goal'[t] = goal[t] /\ op'[t] = op[t],
         \A g \in GoalIds : \/ status'[g] = status[g]
                            \/ status[g] # "Vacant" /\ status'[g] \notin {"Unknown", "Accepted"}
  PROVE  FirstLifeOK'
<1>1. lives' = lives
  BY DEF lives, Received
<1> QED BY <1>1 DEF FirstLifeOK

\* A call about one goal of the table starts, and may change its status.
LEMMA CallFirst ==
  ASSUME FirstLifeOK, newHandles' = newHandles, executingHandles' = executingHandles,
         NEW t \in Tasks, NEW g \in GoalIds, status[g] # "Vacant",
         \A k \in GoalIds \ {g} : status'[k] = status[k],
         \A u \in Tasks \ {t} : goal'[u] = goal[u] /\ op'[u] = op[u], goal'[t] = g,
         status'[g] \in {"Unknown", "Accepted"} =>
           op'[t] = "accept" /\ status[g] \in {"Unknown", "Accepted"}
  PROVE  FirstLifeOK'
<1>1. lives' = lives
  BY DEF lives, Received
<1>2. lives[g] # "none"
  BY DEF FirstLifeOK
<1>3. \A k \in GoalIds \ {g} : \A u \in Tasks : goal'[u] = k => goal[u] = k /\ op'[u] = op[u]
  OBVIOUS
<1>4. ASSUME NEW k \in GoalIds \ {g}
      PROVE  /\ lives[k] = "none" => /\ status'[k] = "Vacant" /\ k \notin executingHandles'
                                     /\ \A u \in Tasks : goal'[u] # k
             /\ lives[k] = "first" /\ status'[k] \in {"Unknown", "Accepted"} =>
                  /\ k \notin executingHandles'
                  /\ \A u \in Tasks : goal'[u] = k => op'[u] = "accept"
  BY <1>3 DEF FirstLifeOK
<1>5. lives[g] = "first" /\ status'[g] \in {"Unknown", "Accepted"} =>
        /\ g \notin executingHandles'
        /\ \A u \in Tasks : goal'[u] = g => op'[u] = "accept"
  BY DEF FirstLifeOK
<1> QED BY <1>1, <1>2, <1>4, <1>5 DEF FirstLifeOK

\* Every step keeps FirstLifeOK.
LEMMA NextFirst ==
  ASSUME IndInv, RequestsOK, FirstLifeOK, [Next]_vars
  PROVE  FirstLifeOK'
<1>0. None \notin GoalIds
  BY ConstantsAssumption
<1>1. ASSUME NEW t \in Tasks, Return(t)
      PROVE  \A u \in Tasks : goal'[u] \notin GoalIds \/ (goal'[u] = goal[u] /\ op'[u] = op[u])
  BY <1>0, <1>1 DEF Return, Call, IndInv, TypeOK
<1>2. ASSUME NEW t \in Tasks, NEW name, NEW g, NEW next, Call(t, name, g, next)
      PROVE  /\ \A u \in Tasks \ {t} : goal'[u] = goal[u] /\ op'[u] = op[u]
             /\ goal'[t] = g /\ op'[t] = name
  BY <1>2 DEF Call, IndInv, TypeOK
<1>3. ASSUME NEW g \in GoalIds, SendGoal(g) PROVE FirstLifeOK'
  <2>1. /\ newHandles' = newHandles /\ executingHandles' = executingHandles
        /\ goal' = goal /\ op' = op /\ status' = status
    BY <1>3 DEF SendGoal
  <2> QED BY <2>1, FrameFirst
<1>4. ASSUME NEW g \in GoalIds, RequestResult(g) PROVE FirstLifeOK'
  <2>1. /\ newHandles' = newHandles /\ executingHandles' = executingHandles
        /\ goal' = goal /\ op' = op /\ status' = status
    BY <1>4 DEF RequestResult
  <2> QED BY <2>1, FrameFirst
<1>5. ASSUME NEW g \in GoalIds \cup {None}, NEW stamp \in Times \cup {0}, CancelGoal(g, stamp)
      PROVE  FirstLifeOK'
  <2>1. /\ newHandles' = newHandles /\ executingHandles' = executingHandles
        /\ goal' = goal /\ op' = op /\ status' = status
    BY <1>5 DEF CancelGoal
  <2> QED BY <2>1, FrameFirst
<1>6. ASSUME NEW r \in goalQ, ReceiveNewGoal(r) PROVE FirstLifeOK'
  <2>1. r[1] \in GoalIds
    BY DEF IndInv, TypeOK, GoalReqs
  <2>2. op' = op /\ goal' = goal /\ executingHandles' = executingHandles
    BY <1>6 DEF ReceiveNewGoal
  <2>3. CASE status[r[1]] # "Vacant"
    <3>1. newHandles' = newHandles /\ status' = status
      BY <1>6, <2>3 DEF ReceiveNewGoal
    <3> QED BY <2>2, <3>1, FrameFirst
  <2>4. CASE status[r[1]] = "Vacant"
    <3>1. newHandles' = newHandles \cup {r} /\ status' = [status EXCEPT ![r[1]] = "Unknown"]
      BY <1>6, <2>4 DEF ReceiveNewGoal
    <3>2. lives' = [lives EXCEPT ![r[1]] = IF @ = "none" THEN "first" ELSE "later"]
      BY <3>1, ReceiveLives
    <3>3. /\ lives'[r[1]] = IF lives[r[1]] = "none" THEN "first" ELSE "later"
          /\ \A k \in GoalIds \ {r[1]} : lives'[k] = lives[k] /\ status'[k] = status[k]
      BY <2>1, <3>1, <3>2 DEF lives, IndInv, TypeOK
    <3> QED BY <2>1, <2>2, <3>3 DEF FirstLifeOK
  <2> QED BY <2>3, <2>4
<1>7. ASSUME GetNewGoal PROVE FirstLifeOK'
  <2>1. /\ newHandles' = newHandles /\ op' = op /\ goal' = goal
        /\ executingHandles' = executingHandles
    BY <1>7 DEF GetNewGoal
  <2>2. \A k \in GoalIds : status'[k] = "Vacant" \/ status'[k] = status[k]
    BY <1>7 DEF GetNewGoal
  <2>3. lives' = lives
    BY <2>1 DEF lives, Received
  <2> QED BY <2>1, <2>2, <2>3 DEF FirstLifeOK
<1>8. ASSUME NEW h \in newHandles, RejectGoal(h) PROVE FirstLifeOK'
  <2>1. /\ newHandles' = newHandles /\ op' = op /\ goal' = goal
        /\ executingHandles' = executingHandles
    BY <1>8 DEF RejectGoal
  <2>2. status[h[1]] = "Unknown" /\ status' = [status EXCEPT ![h[1]] = "Vacant"]
    BY <1>8 DEF RejectGoal
  <2>3. \A k \in GoalIds : status'[k] = IF k = h[1] THEN "Vacant" ELSE status[k]
    BY <2>2 DEF IndInv, TypeOK
  <2> QED BY <2>1, <2>2, <2>3, FrameFirst
<1>9. ASSUME NEW g \in GoalIds, PublishFeedback(g) PROVE FirstLifeOK'
  <2>1. /\ newHandles' = newHandles /\ executingHandles' = executingHandles
        /\ goal' = goal /\ op' = op /\ status' = status
    BY <1>9 DEF PublishFeedback
  <2> QED BY <2>1, FrameFirst
<1>10. ASSUME NEW c \in cancelQ, ReceiveCancelRequest(c) PROVE FirstLifeOK'
  <2>1. /\ newHandles' = newHandles /\ executingHandles' = executingHandles
        /\ goal' = goal /\ op' = op /\ status' = status
    BY <1>10 DEF ReceiveCancelRequest
  <2> QED BY <2>1, FrameFirst
<1>11. ASSUME NEW t \in Tasks, NEW h \in newHandles, NEW now \in Times, AcceptGoal(t, h, now)
       PROVE  FirstLifeOK'
  <2>1. h[1] \in GoalIds /\ status[h[1]] = "Unknown" /\ Call(t, "accept", h[1], "snap")
    BY <1>11 DEF AcceptGoal, IndInv, TypeOK, GoalReqs
  <2>2. /\ newHandles' = newHandles /\ executingHandles' = executingHandles
        /\ \A k \in GoalIds \ {h[1]} : status'[k] = status[k]
    BY <1>11, <2>1 DEF AcceptGoal, IndInv, TypeOK
  <2>3. /\ \A u \in Tasks \ {t} : goal'[u] = goal[u] /\ op'[u] = op[u]
        /\ goal'[t] = h[1] /\ op'[t] = "accept"
    BY <1>2, <2>1
  <2> QED BY <2>1, <2>2, <2>3, CallFirst
<1>12. ASSUME NEW t \in Tasks, NEW g \in GoalIds, NEW name, NEW next, Call(t, name, g, next),
              status[g] # "Vacant", status'[g] \notin {"Unknown", "Accepted"},
              newHandles' = newHandles, executingHandles' = executingHandles,
              \A k \in GoalIds \ {g} : status'[k] = status[k]
       PROVE  FirstLifeOK'
  <2>1. /\ \A u \in Tasks \ {t} : goal'[u] = goal[u] /\ op'[u] = op[u]
        /\ goal'[t] = g
    BY <1>2, <1>12
  <2> QED BY <1>12, <2>1, CallFirst
<1>13. ASSUME NEW t \in Tasks, NEW g \in GoalIds, StartExecutingGoal(t, g) \/ AbortGoal(t, g)
       PROVE  FirstLifeOK'
  <2>1. /\ newHandles' = newHandles /\ executingHandles' = executingHandles
        /\ status[g] # "Vacant" /\ status'[g] \notin {"Unknown", "Accepted"}
        /\ \A k \in GoalIds \ {g} : status'[k] = status[k]
    BY <1>13 DEF StartExecutingGoal, AbortGoal, Abortable, IndInv, TypeOK
  <2>2. Call(t, "start", g, "snap") \/ Call(t, "abort", g, "snap")
    BY <1>13 DEF StartExecutingGoal, AbortGoal
  <2> QED BY <1>12, <2>1, <2>2
<1>14. ASSUME NEW t \in Tasks, NEW g \in GoalIds, SendResultResponse(t, g) PROVE FirstLifeOK'
  <2>1. /\ newHandles' = newHandles /\ executingHandles' = executingHandles
        /\ status' = status /\ g \in executingHandles
        /\ \E next : Call(t, "finish", g, next)
    BY <1>14 DEF SendResultResponse
  <2>2. /\ \A u \in Tasks \ {t} : goal'[u] = goal[u] /\ op'[u] = op[u]
        /\ goal'[t] = g
    BY <1>2, <2>1
  <2>3. lives[g] = "first" => status[g] \notin {"Unknown", "Accepted"}
    BY <2>1 DEF FirstLifeOK
  <2>4. lives[g] # "none"
    BY <2>1 DEF FirstLifeOK
  <2>5. lives' = lives
    BY <2>1 DEF lives, Received
  <2>6. \A k \in GoalIds \ {g} : \A u \in Tasks : goal'[u] = k => goal[u] = k /\ op'[u] = op[u]
    BY <2>2
  <2> QED BY <2>1, <2>3, <2>4, <2>5, <2>6 DEF FirstLifeOK
<1>15. ASSUME NEW t \in Tasks, NEW h \in cancelHandles, NEW chosen \in SUBSET GoalIds,
              NEW kept \in BOOLEAN, RespondToCancelRequests(t, h, chosen, kept)
       PROVE  FirstLifeOK'
  <2>1. /\ newHandles' = newHandles /\ executingHandles' = executingHandles
        /\ status' = status /\ \E next : Call(t, "cancel", None, next)
    BY <1>15 DEF RespondToCancelRequests
  <2>2. /\ \A u \in Tasks \ {t} : goal'[u] = goal[u] /\ op'[u] = op[u]
        /\ goal'[t] = None
    BY <1>2, <2>1
  <2> QED BY <1>0, <2>1, <2>2, FrameFirst
<1>16. ASSUME NEW t \in Tasks, SnapshotStatuses(t) PROVE FirstLifeOK'
  <2>1. /\ newHandles' = newHandles /\ executingHandles' = executingHandles
        /\ goal' = goal /\ op' = op /\ status' = status
    BY <1>16 DEF SnapshotStatuses
  <2> QED BY <2>1, FrameFirst
<1>17. ASSUME NEW t \in Tasks, PublishStatuses(t) PROVE FirstLifeOK'
  <2>0. Return(t)
    BY <1>17 DEF PublishStatuses
  <2>1. /\ newHandles' = newHandles /\ status' = status
        /\ executingHandles' = IF GivesExecutingHandle(t)
                               THEN executingHandles \cup {goal[t]} ELSE executingHandles
    BY <1>17 DEF PublishStatuses
  <2>2. \A u \in Tasks : goal'[u] \notin GoalIds \/ (goal'[u] = goal[u] /\ op'[u] = op[u])
    BY <1>1, <2>0
  <2>3. lives' = lives
    BY <2>1 DEF lives, Received
  <2>4. \A k \in GoalIds : k \in executingHandles' =>
          k \in executingHandles \/ (k = goal[t] /\ op[t] = "start")
    BY <2>1 DEF GivesExecutingHandle
  <2>5. \A k \in GoalIds :
          lives[k] = "none" \/ (lives[k] = "first" /\ status[k] \in {"Unknown", "Accepted"}) =>
            k \notin executingHandles'
    BY <2>4 DEF FirstLifeOK
  <2> QED BY <2>1, <2>2, <2>3, <2>5 DEF FirstLifeOK
<1>18. ASSUME NEW t \in Tasks, NEW e \in EndStatuses, FinishGoal(t, e) PROVE FirstLifeOK'
  <2>1. \A g \in GoalIds : \/ status'[g] = status[g]
                           \/ status[g] # "Vacant" /\ status'[g] \notin {"Unknown", "Accepted"}
    <3>1. status' = status \/ (/\ status[goal[t]] \in Finishable
                               /\ status' = [status EXCEPT ![goal[t]] = e])
      <4> DEFINE g == goal[t]
      <4>1. status[g] \notin Finishable => status' = status
        BY <1>18 DEF FinishGoal
      <4>2. status[g] \in Finishable => status' = [status EXCEPT ![g] = e]
        BY <1>18 DEF FinishGoal
      <4> QED BY <4>1, <4>2
    <3>2. CASE status' = status
      BY <3>2
    <3>3. CASE status[goal[t]] \in Finishable /\ status' = [status EXCEPT ![goal[t]] = e]
      <4>1. \A g \in GoalIds : status'[g] = IF g = goal[t] THEN e ELSE status[g]
        BY <3>3 DEF IndInv, TypeOK
      <4>2. status[goal[t]] # "Vacant" /\ e \notin {"Unknown", "Accepted"}
        BY <3>3 DEF Finishable, EndStatuses
      <4> QED BY <4>1, <4>2
    <3> QED BY <3>1, <3>2, <3>3
  <2>2. newHandles' = newHandles /\ executingHandles' = executingHandles
    BY <1>18 DEF FinishGoal
  <2>4. Return(t) \/ (op' = op /\ goal' = goal)
    BY <1>18, Zenon DEF FinishGoal
  <2>3. \A u \in Tasks : goal'[u] \notin GoalIds \/ (goal'[u] = goal[u] /\ op'[u] = op[u])
    BY <1>1, <2>4
  <2> QED BY <2>1, <2>2, <2>3, FrameFirst
<1>19. ASSUME NEW t \in Tasks, NEW g \in GoalIds, CollectCanceling(t, g) \/ MarkCanceling(t, g)
       PROVE  FirstLifeOK'
  <2>1. /\ newHandles' = newHandles /\ executingHandles' = executingHandles
        /\ op' = op /\ goal' = goal
    BY <1>19 DEF CollectCanceling, MarkCanceling
  <2>2. \A k \in GoalIds : \/ status'[k] = status[k]
                           \/ status[k] # "Vacant" /\ status'[k] \notin {"Unknown", "Accepted"}
    BY <1>19 DEF CollectCanceling, MarkCanceling, IndInv, TypeOK
  <2> QED BY <2>1, <2>2, FrameFirst
<1>20. ASSUME NEW t \in Tasks, DropSendResult(t) PROVE FirstLifeOK'
  <2>1. /\ newHandles' = newHandles /\ executingHandles' = executingHandles
        /\ status' = status /\ Return(t)
    BY <1>20 DEF DropSendResult
  <2>2. \A u \in Tasks : goal'[u] \notin GoalIds \/ (goal'[u] = goal[u] /\ op'[u] = op[u])
    BY <1>1, <2>1
  <2> QED BY <2>1, <2>2, FrameFirst
<1>21. ASSUME NEW t \in Tasks, NEW r \in resultQ, ReceiveResultRequest(t, r) PROVE FirstLifeOK'
  <2>1. /\ newHandles' = newHandles /\ executingHandles' = executingHandles
        /\ goal' = goal /\ op' = op /\ status' = status
    BY <1>21 DEF ReceiveResultRequest
  <2> QED BY <2>1, FrameFirst
<1>22. CASE UNCHANGED vars
  BY <1>22, FrameFirst DEF vars
<1> QED
  BY <1>3, <1>4, <1>5, <1>6, <1>7, <1>8, <1>9, <1>10, <1>11, <1>13, <1>14, <1>15, <1>16, <1>17,
     <1>18, <1>19, <1>20, <1>21, <1>22
  DEF Next, ClientStep, ReceiveStep, StartCall, ContinueCall

\* No handle or call of send_result_response is about the first goal of an id before
\* start_executing_goal has run on it, whatever requests with the same id are waiting.
THEOREM FirstLife == Spec => [](RequestsOK /\ FirstLifeOK)
<1>1. Init => RequestsOK /\ FirstLifeOK
  <2> SUFFICES ASSUME Init PROVE RequestsOK /\ FirstLifeOK
    OBVIOUS
  <2>1. RequestsOK
    BY DEF Init, RequestsOK
  <2>2. \A g \in GoalIds : lives[g] = "none"
    BY DEF Init, lives, Received
  <2>3. FirstLifeOK
    BY <2>2, ConstantsAssumption DEF Init, FirstLifeOK
  <2> QED BY <2>1, <2>3
<1>2. IndInv /\ RequestsOK /\ FirstLifeOK /\ [Next]_vars => (RequestsOK /\ FirstLifeOK)'
  BY NextRequests, NextFirst
<1> QED BY <1>1, <1>2, Invariance, PTL DEF Spec

\* The first goal of an id succeeds only after start_executing_goal, which
\* send_result_response itself does not check.
THEOREM StartedBeforeSuccess == Spec => StartedFirst
<1>1. ASSUME IndInv, FirstLifeOK, [Next]_vars,
             NEW g \in GoalIds, lives[g] = "first", status[g] = "Accepted"
      PROVE  status'[g] # "Succeeded"
  <2>1. ASSUME NEW t \in Tasks, NEW e \in EndStatuses, FinishGoal(t, e) PROVE status'[g] = status[g]
    <3>1. goal[t] # g /\ goal[t] \in GoalIds
      BY <1>1, <2>1 DEF FinishGoal, IndInv, CallsOK, FirstLifeOK
    <3> QED BY <1>1, <2>1, <3>1 DEF FinishGoal, IndInv, TypeOK
  <2>2. ASSUME NEW r \in goalQ, ReceiveNewGoal(r) PROVE status'[g] # "Succeeded"
    BY <1>1, <2>2 DEF ReceiveNewGoal, IndInv, TypeOK
  <2>3. ASSUME GetNewGoal PROVE status'[g] # "Succeeded"
    BY <1>1, <2>3 DEF GetNewGoal
  <2>4. ASSUME NEW h \in newHandles, RejectGoal(h) PROVE status'[g] # "Succeeded"
    BY <1>1, <2>4 DEF RejectGoal, IndInv, TypeOK
  <2>5. ASSUME NEW t \in Tasks, NEW h \in newHandles, NEW now \in Times, AcceptGoal(t, h, now)
        PROVE  status'[g] # "Succeeded"
    BY <1>1, <2>5 DEF AcceptGoal, IndInv, TypeOK
  <2>6. ASSUME NEW t \in Tasks, NEW k \in GoalIds,
               StartExecutingGoal(t, k) \/ AbortGoal(t, k) \/ MarkCanceling(t, k)
        PROVE  status'[g] # "Succeeded"
    BY <1>1, <2>6 DEF StartExecutingGoal, AbortGoal, MarkCanceling, IndInv, TypeOK
  <2>7. CASE status' = status
    BY <1>1, <2>7
  <2> QED
    BY <1>1, <2>1, <2>2, <2>3, <2>4, <2>5, <2>6, <2>7
    DEF Next, vars, ClientStep, ReceiveStep, StartCall, ContinueCall, SendGoal, RequestResult,
        CancelGoal, PublishFeedback, ReceiveCancelRequest, SendResultResponse,
        RespondToCancelRequests, SnapshotStatuses, PublishStatuses, CollectCanceling,
        DropSendResult, ReceiveResultRequest
<1>2. IndInv /\ FirstLifeOK /\ [Next]_vars
        => [\A g \in GoalIds :
              lives[g] = "first" /\ status[g] = "Accepted" => status'[g] # "Succeeded"]_vars
  BY <1>1
<1> QED BY <1>2, Invariance, FirstLife, PTL DEF Spec, StartedFirst

-----------------------------------------------------------------------------
(* AsyncActionServer implements GoalLifecycle.                             *)

\* What GoalLifecycle is made of.
LEMMA LifecycleSteps ==
  ASSUME NEW g \in GoalIds
  PROVE  /\ Lifecycle!Receive(g) \/ Lifecycle!Accept(g) \/ Lifecycle!Reject(g)
              \/ Lifecycle!Execute(g) \/ Lifecycle!Cancel(g) => Lifecycle!Next
         /\ \A e \in EndStatuses : Lifecycle!Finish(g, e) => Lifecycle!Next
         /\ Lifecycle!SucceedUnstarted(g) => Lifecycle!Next
         /\ \A G \in SUBSET GoalIds : Lifecycle!Forget(G) => Lifecycle!Next
BY DEF Lifecycle!Next, Lifecycle!Ends, EndStatuses

\* Every step of the server is a step of GoalLifecycle or leaves its variables alone.
LEMMA NextLifecycle ==
  CancelExclusive /\ IndInv /\ SerialInv /\ RequestsOK /\ FirstLifeOK /\ [Next]_vars
    => [Lifecycle!Next]_<<status, reported, lives>>
<1> SUFFICES ASSUME CancelExclusive, IndInv, SerialInv, RequestsOK, FirstLifeOK, [Next]_vars
             PROVE  Lifecycle!Next \/ UNCHANGED <<status, reported, lives>>
  OBVIOUS
<1> USE DEF Lifecycle!Move
<1>0. newHandles' = newHandles => lives' = lives
  BY DEF lives, Received
<1>1. ASSUME NEW r \in goalQ, ReceiveNewGoal(r) PROVE Lifecycle!Next \/ UNCHANGED <<status, reported, lives>>
  <2>1. r[1] \in GoalIds
    BY DEF IndInv, TypeOK, GoalReqs
  <2>2. Lifecycle!Receive(r[1]) \/ UNCHANGED <<status, reported, lives>>
    <3>1. CASE status[r[1]] # "Vacant"
      BY <1>0, <1>1, <3>1 DEF ReceiveNewGoal
    <3>2. CASE status[r[1]] = "Vacant"
      <4>1. newHandles' = newHandles \cup {r}
        BY <1>1, <3>2 DEF ReceiveNewGoal
      <4>2. lives' = [lives EXCEPT ![r[1]] = IF @ = "none" THEN "first" ELSE "later"]
        BY <4>1, ReceiveLives
      <4> QED BY <1>1, <3>2, <4>2 DEF ReceiveNewGoal, Lifecycle!Receive
    <3> QED BY <3>1, <3>2
  <2> QED BY <2>1, <2>2, LifecycleSteps
<1>2. ASSUME GetNewGoal PROVE Lifecycle!Next
  <2> DEFINE flushed == {finished[i] : i \in DOMAIN finished}
  <2>1. finished \in Seq(GoalIds)
    BY DEF IndInv, TypeOK
  <2>2. flushed \in SUBSET GoalIds
    BY <2>1
  <2>3. Lifecycle!Forget(flushed)
    BY <1>0, <1>2 DEF GetNewGoal, Lifecycle!Forget, Lifecycle!Ends, SerialInv, FlushLooksDone, EndStatuses
  <2> QED BY <2>2, <2>3 DEF Lifecycle!Next
<1>3. ASSUME NEW h \in newHandles, RejectGoal(h) PROVE Lifecycle!Next
  <2>1. h[1] \in GoalIds
    BY DEF IndInv, TypeOK, GoalReqs
  <2>2. Lifecycle!Reject(h[1])
    BY <1>0, <1>3 DEF RejectGoal, Lifecycle!Reject
  <2> QED BY <2>1, <2>2, LifecycleSteps
<1>4. ASSUME NEW t \in Tasks, NEW h \in newHandles, NEW now \in Times, AcceptGoal(t, h, now)
      PROVE  Lifecycle!Next
  <2>1. h[1] \in GoalIds
    BY DEF IndInv, TypeOK, GoalReqs
  <2>2. Lifecycle!Accept(h[1])
    BY <1>0, <1>4 DEF AcceptGoal, Lifecycle!Accept
  <2> QED BY <2>1, <2>2, LifecycleSteps
<1>5. ASSUME NEW t \in Tasks, NEW g \in GoalIds, StartExecutingGoal(t, g) PROVE Lifecycle!Next
  <2>1. Lifecycle!Execute(g)
    BY <1>0, <1>5 DEF StartExecutingGoal, Lifecycle!Execute
  <2> QED BY <2>1, LifecycleSteps
<1>6. ASSUME NEW t \in Tasks, NEW g \in GoalIds, AbortGoal(t, g) PROVE Lifecycle!Next
  <2>1. status[g] \in Live /\ reported[g] = << >>
    BY <1>6, LiveGoal DEF AbortGoal, Abortable, Live
  <2>2. Lifecycle!Finish(g, "Aborted")
    BY <1>0, <1>6, <2>1 DEF AbortGoal, Lifecycle!Finish, Lifecycle!End, Lifecycle!Live, Live
  <2> QED BY <2>2, LifecycleSteps DEF EndStatuses
<1>7. ASSUME NEW t \in Tasks, NEW e \in EndStatuses, FinishGoal(t, e)
      PROVE  Lifecycle!Next \/ UNCHANGED <<status, reported, lives>>
  <2>0. lives' = lives
    BY <1>0, <1>7 DEF FinishGoal
  <2>1. CASE status[goal[t]] \notin Finishable
    BY <1>7, <2>0, <2>1 DEF FinishGoal
  <2>2. CASE status[goal[t]] \in Finishable
    <3>1. goal[t] \in GoalIds /\ status[goal[t]] \in Live
      BY <1>7, <2>2 DEF IndInv, CallsOK, FinishGoal, Finishable, Live
    <3>2. reported[goal[t]] = << >>
      BY <3>1, LiveGoal DEF Live
    <3>3. /\ status' = [status EXCEPT ![goal[t]] = e]
          /\ reported' = [reported EXCEPT ![goal[t]] = Append(@, e)] \/ UNCHANGED reported
      BY <1>7, <2>2 DEF FinishGoal
    <3>4. Append(reported[goal[t]], e) = <<e>>
      BY <3>2
    <3>5. CASE e = "Succeeded" /\ status[goal[t]] = "Accepted"
      <4>0. op[t] = "finish"
        BY <1>7 DEF FinishGoal, IndInv, CallsOK
      <4>1. lives[goal[t]] = "later"
        BY <3>1, <3>5, <4>0 DEF FirstLifeOK, lives
      <4>2. Lifecycle!SucceedUnstarted(goal[t])
        BY <2>0, <3>2, <3>3, <3>4, <3>5, <4>1 DEF Lifecycle!SucceedUnstarted, Lifecycle!End
      <4> QED BY <3>1, <4>2, LifecycleSteps
    <3>6. CASE ~(e = "Succeeded" /\ status[goal[t]] = "Accepted")
      <4>1. Lifecycle!Finish(goal[t], e)
        BY <2>0, <3>1, <3>2, <3>3, <3>4, <3>6 DEF Lifecycle!Finish, Lifecycle!End, Lifecycle!Live, Live
      <4> QED BY <3>1, <4>1, LifecycleSteps
    <3> QED BY <3>5, <3>6
  <2> QED BY <2>1, <2>2
<1>8. ASSUME NEW t \in Tasks, NEW g \in GoalIds, MarkCanceling(t, g) PROVE Lifecycle!Next
  <2>1. status[g] \in Live
    BY <1>8, CanceledLive DEF MarkCanceling
  <2>2. Lifecycle!Cancel(g)
    BY <1>0, <1>8, <2>1 DEF MarkCanceling, Lifecycle!Cancel, Lifecycle!Live, Live, IndInv, TypeOK
  <2> QED BY <2>2, LifecycleSteps
<1>9. CASE status' = status /\ reported' = reported /\ newHandles' = newHandles
  BY <1>0, <1>9
<1> QED
  BY <1>1, <1>2, <1>3, <1>4, <1>5, <1>6, <1>7, <1>8, <1>9
  DEF Next, vars, ClientStep, ReceiveStep, StartCall, ContinueCall, SendGoal, RequestResult,
      CancelGoal, PublishFeedback, ReceiveCancelRequest, SendResultResponse,
      RespondToCancelRequests, SnapshotStatuses, PublishStatuses, CollectCanceling,
      DropSendResult, ReceiveResultRequest

\* AsyncActionServer implements GoalLifecycle: the goal table goes through the status
\* changes of the protocol and a result is sent with the step that ends its goal; only
\* for an id that has had a goal before may a goal succeed that has not been started.
THEOREM Refinement == ASSUME CancelExclusive PROVE Spec => ImplementsLifecycle
<1>1. Init => Lifecycle!Init
  BY DEF Init, Lifecycle!Init, lives, Received
<1>2. IndInv /\ SerialInv /\ RequestsOK /\ FirstLifeOK /\ [Next]_vars
        => [Lifecycle!Next]_<<status, reported, lives>>
  BY NextLifecycle
<1> QED BY <1>1, <1>2, Invariance, SerialInvariance, FirstLife, PTL
        DEF Spec, ImplementsLifecycle, Lifecycle!Spec

-----------------------------------------------------------------------------
(* The status topic, when calls come one at a time and writes succeed.     *)

\* A list of statuses shows every goal of the table as the table has it.
Agrees(statuses) == \A g \in GoalIds : status[g] \notin {"Vacant", "Unknown"} => statuses[g] = status[g]

\* What is about to be published is right, and so is what was published unless a
\* change of the table is about to follow.
TopicOK ==
  /\ \A t \in Tasks : pc[t] = "publish" => Agrees(snap[t])
  /\ (\A t \in Tasks : pc[t] \in {"idle", "wait", "finish", "collect"}) => Agrees(statusTopic)

\* Every step keeps TopicOK.
LEMMA NextTopic ==
  ASSUME \A t, u \in Tasks : t = u, ~WritesFail, IndInv, TopicOK, [Next]_vars
  PROVE  TopicOK'
<1>1. CASE ClientStep \/ (\E g \in GoalIds : PublishFeedback(g)) \/ UNCHANGED vars
           \/ (\E c \in cancelQ : ReceiveCancelRequest(c))
  BY <1>1 DEF ClientStep, SendGoal, RequestResult, CancelGoal, PublishFeedback, vars,
              ReceiveCancelRequest, TopicOK, Agrees
<1>2. ASSUME \A g \in GoalIds : status'[g] = status[g] \/ status'[g] \in {"Vacant", "Unknown"},
             UNCHANGED <<pc, snap, statusTopic>>
      PROVE  TopicOK'
  BY <1>2 DEF TopicOK, Agrees
<1>3. ASSUME NEW r \in goalQ, ReceiveNewGoal(r) PROVE TopicOK'
  BY <1>2, <1>3 DEF ReceiveNewGoal, IndInv, TypeOK
<1>4. ASSUME GetNewGoal PROVE TopicOK'
  BY <1>2, <1>4 DEF GetNewGoal
<1>5. ASSUME NEW h \in newHandles, RejectGoal(h) PROVE TopicOK'
  BY <1>2, <1>5 DEF RejectGoal, IndInv, TypeOK
<1>6. ASSUME NEW t \in Tasks, pc'[t] \in {"snap", "cancel"} PROVE TopicOK'
  BY <1>6 DEF TopicOK
<1>7. ASSUME NEW t \in Tasks, pc'[t] \in {"idle", "wait", "finish", "collect"},
             pc[t] \in {"idle", "wait", "finish", "collect"}, UNCHANGED <<status, statusTopic>>
      PROVE  TopicOK'
  BY <1>7 DEF TopicOK, Agrees
<1>8. ASSUME NEW t \in Tasks, StartCall(t) PROVE TopicOK'
  <2>1. CASE pc'[t] = "snap"
    BY <1>6, <2>1
  <2>2. CASE pc'[t] # "snap"
    <3>1. /\ pc[t] = "idle" /\ pc'[t] \in {"wait", "finish", "collect"}
          /\ UNCHANGED <<status, statusTopic>>
      BY <1>8, <2>2 DEF StartCall, AcceptGoal, StartExecutingGoal, AbortGoal, SendResultResponse,
         RespondToCancelRequests, Call, IndInv, TypeOK
    <3> QED BY <1>7, <3>1
  <2> QED BY <2>1, <2>2
<1>9. ASSUME NEW t \in Tasks, SnapshotStatuses(t) PROVE TopicOK'
  <2>1. pc'[t] = "publish" /\ snap'[t] = status /\ status' = status
    BY <1>9 DEF SnapshotStatuses, IndInv, TypeOK
  <2> QED BY <2>1 DEF TopicOK, Agrees
<1>10. ASSUME NEW t \in Tasks, PublishStatuses(t) PROVE TopicOK'
  <2>1. pc[t] = "publish" /\ pc'[t] = "idle" /\ statusTopic' = snap[t] /\ status' = status
    BY <1>10 DEF PublishStatuses, WriteOutcomes, Return, Call, IndInv, TypeOK
  <2> QED BY <2>1 DEF TopicOK, Agrees
<1>11. ASSUME NEW t \in Tasks, NEW e \in EndStatuses, FinishGoal(t, e) PROVE TopicOK'
  <2>1. /\ pc[t] = "finish"
        /\ pc'[t] = "snap" \/ (pc'[t] = "idle" /\ UNCHANGED <<status, statusTopic>>)
    BY <1>11 DEF FinishGoal, Return, Call, IndInv, TypeOK
  <2> QED BY <1>6, <1>7, <2>1
<1>12. ASSUME NEW t \in Tasks, NEW g \in GoalIds, CollectCanceling(t, g) \/ MarkCanceling(t, g)
       PROVE  TopicOK'
  <2>1. \/ pc'[t] \in {"snap", "cancel"}
        \/ pc[t] = "collect" /\ pc'[t] = "collect" /\ UNCHANGED <<status, statusTopic>>
    BY <1>12 DEF CollectCanceling, MarkCanceling, IndInv, TypeOK
  <2> QED BY <1>6, <1>7, <2>1
<1>13. ASSUME NEW t \in Tasks, DropSendResult(t) \/ \E r \in resultQ : ReceiveResultRequest(t, r)
       PROVE  TopicOK'
  <2>1. /\ pc[t] = "wait" /\ pc'[t] \in {"idle", "wait", "finish"}
        /\ UNCHANGED <<status, statusTopic>>
    BY <1>13 DEF DropSendResult, ReceiveResultRequest, Return, Call, IndInv, TypeOK
  <2> QED BY <1>7, <2>1
<1> QED
  BY <1>1, <1>3, <1>4, <1>5, <1>8, <1>9, <1>10, <1>11, <1>12, <1>13 DEF Next, ReceiveStep, ContinueCall

\* When calls come one at a time and no write fails, the status topic shows the table
\* whenever no call is in progress (publish_statuses is called after every change).
THEOREM TopicInSync ==
  ASSUME \A t, u \in Tasks : t = u, ~WritesFail
  PROVE  Spec => []StatusTopicAgrees
<1>1. Init => TopicOK
  BY DEF Init, TopicOK, Agrees
<1>2. IndInv /\ TopicOK /\ [Next]_vars => TopicOK'
  BY NextTopic
<1>3. TopicOK => StatusTopicAgrees
  BY DEF TopicOK, Agrees, StatusTopicAgrees
<1> QED BY <1>1, <1>2, <1>3, Invariance, PTL DEF Spec

=============================================================================

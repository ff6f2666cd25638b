----------------------------- MODULE ActionServer -----------------------------
(***************************************************************************)
(* AsyncActionServer (src/action/server.rs): the goal table of a ROS 2     *)
(* action server, shared by every task of the application, together with   *)
(* the requests its clients can send (src/action/client.rs).               *)
(*                                                                         *)
(* Every region the code runs under one lock of a Mutex is one step; a     *)
(* call that takes a lock more than once, or that awaits, is a chain of    *)
(* steps of one task (pc), and the steps of different tasks interleave.    *)
(* A call that is one step needs no task.  A call that returns an error    *)
(* without having changed anything is a stuttering step and is not listed. *)
(***************************************************************************)
EXTENDS Integers, Sequences, FiniteSets

CONSTANTS
  GoalIds,          \* the UUIDs that clients use
  Tasks,            \* calls that can be in progress at the same time
  Times,            \* values of Time::now(); 0 is Time::ZERO
  None,             \* Option::None, and GoalId::ZERO in a cancel request
  MaxSends,         \* bound: send_goal requests per goal id
  MaxResultReqs,    \* bound: result requests per goal id
  MaxCancels,       \* bound: cancel requests
  MaxFeedback,      \* bound: feedback messages per goal id
  WritesFail,       \* may a DDS write return an error?
  KeepsHandles,     \* may the application answer a cancel request more than once?
  CancelExclusive   \* does the application keep answering a cancel request and
                    \* finishing a goal apart from each other, and cancel only
                    \* goals that the request is about?

ASSUME ConstantsAssumption ==
  /\ Times \subseteq Nat \ {0}
  /\ None \notin GoalIds
  /\ None \notin Nat
  /\ None \notin GoalIds \X Nat
  /\ MaxSends \in Nat /\ MaxResultReqs \in Nat
  /\ MaxCancels \in Nat /\ MaxFeedback \in Nat
  /\ WritesFail \in BOOLEAN /\ KeepsHandles \in BOOLEAN /\ CancelExclusive \in BOOLEAN

VARIABLES
  \* the fields of AsyncActionServer
  status,           \* goals: the status of each entry, or "Vacant"
  acceptedTime,     \* goals: accepted_time of each entry
  finished,         \* finished_goals
  resultRequests,   \* result_requests
  \* the requests the three services have not handed out yet
  goalQ, resultQ, cancelQ,
  sent, resultSent, cancelSent,
  \* the handles the application holds; they are Copy, so they are never lost
  newHandles, acceptedHandles, executingHandles, cancelHandles,
  \* the calls in progress
  pc, op, goal, req, todo, picked, snap,
  \* what clients can see
  told, results, reported, feedback, statusTopic

server   == <<status, acceptedTime, finished, resultRequests>>
requests == <<goalQ, resultQ, cancelQ, sent, resultSent, cancelSent>>
handles  == <<newHandles, acceptedHandles, executingHandles, cancelHandles>>
calls    == <<pc, op, goal, req, todo, picked, snap>>
visible  == <<told, results, reported, feedback, statusTopic>>
vars     == <<server, requests, handles, calls, visible>>

-----------------------------------------------------------------------------

EndStatuses == {"Succeeded", "Aborted", "Canceled"}
GoalStatuses == {"Unknown", "Accepted", "Executing", "Canceling"} \cup EndStatuses
EntryStates == GoalStatuses \cup {"Vacant"}

GoalReqs == GoalIds \X (1 .. MaxSends)
ResultReqs == GoalIds \X (1 .. MaxResultReqs)
CancelReqs == [n: 1 .. MaxCancels, goal: GoalIds \cup {None}, stamp: Times \cup {0}]
CancelHandle == [n: 1 .. MaxCancels, goals: SUBSET GoalIds]
Result == [req: ResultReqs, goal: GoalIds]

NothingPublished == [g \in GoalIds |-> "Vacant"]

\* The statuses on which each call goes on; on others it returns WrongGoalState.
\* The definitions whose names end in _Bug are what plausible mistakes in the
\* code would make of the definition below them; no run uses them as they are.
Feedbackable_Bug == {"Executing", "Canceling"}
Feedbackable == {"Executing"}

Abortable_Bug == {"Accepted", "Executing", "Aborted"}
Abortable == {"Accepted", "Executing"}

Finishable_Bug == {"Accepted", "Executing", "Canceling", "Aborted", "Succeeded", "Canceled"}
Finishable == {"Accepted", "Executing", "Canceling"}

Cancelable_Bug == GoalStatuses
Cancelable == {"Executing", "Accepted"}

\* The calls that put their goal on the finished list when they are done.
FinishingOps_Bug == {"finish", "abort", "cancel"}
FinishingOps == {"finish", "abort"}

\* A write that may fail: it succeeds, or (only if WritesFail) it does not.
WriteOutcomes == IF WritesFail THEN {TRUE, FALSE} ELSE {TRUE}

-----------------------------------------------------------------------------

Init ==
  /\ status = [g \in GoalIds |-> "Vacant"]
  /\ acceptedTime = [g \in GoalIds |-> None]
  /\ finished = << >>
  /\ resultRequests = [g \in GoalIds |-> None]
  /\ goalQ = {} /\ resultQ = {} /\ cancelQ = {}
  /\ sent = [g \in GoalIds |-> 0]
  /\ resultSent = [g \in GoalIds |-> 0]
  /\ cancelSent = 0
  /\ newHandles = {} /\ acceptedHandles = {}
  /\ executingHandles = {} /\ cancelHandles = {}
  /\ pc = [t \in Tasks |-> "idle"]
  /\ op = [t \in Tasks |-> "none"]
  /\ goal = [t \in Tasks |-> None]
  /\ req = [t \in Tasks |-> None]
  /\ todo = [t \in Tasks |-> {}]
  /\ picked = [t \in Tasks |-> {}]
  /\ snap = [t \in Tasks |-> NothingPublished]
  /\ told = {} /\ results = {}
  /\ reported = [g \in GoalIds |-> << >>]
  /\ feedback = [g \in GoalIds |-> 0]
  /\ statusTopic = NothingPublished

-----------------------------------------------------------------------------
(* The clients.                                                            *)

SendGoal(g) ==
  /\ sent[g] < MaxSends
  /\ sent' = [sent EXCEPT ![g] = @ + 1]
  /\ goalQ' = goalQ \cup {<<g, sent[g] + 1>>}
  /\ UNCHANGED <<resultQ, cancelQ, resultSent, cancelSent, server, handles, calls, visible>>

RequestResult(g) ==
  /\ sent[g] > 0
  /\ resultSent[g] < MaxResultReqs
  /\ resultSent' = [resultSent EXCEPT ![g] = @ + 1]
  /\ resultQ' = resultQ \cup {<<g, resultSent[g] + 1>>}
  /\ UNCHANGED <<goalQ, cancelQ, sent, cancelSent, server, handles, calls, visible>>

\* cancel_goal, cancel_all_goals_before and cancel_all_goals: a goal or None,
\* a time stamp or 0.
CancelGoal(g, stamp) ==
  /\ cancelSent < MaxCancels
  /\ cancelSent' = cancelSent + 1
  /\ cancelQ' = cancelQ \cup {[n |-> cancelSent + 1, goal |-> g, stamp |-> stamp]}
  /\ UNCHANGED <<goalQ, resultQ, sent, resultSent, server, handles, calls, visible>>

-----------------------------------------------------------------------------
(* Steps that several calls share.                                         *)

Call(t, name, g, next) ==
  /\ pc' = [pc EXCEPT ![t] = next]
  /\ op' = [op EXCEPT ![t] = name]
  /\ goal' = [goal EXCEPT ![t] = g]

\* The call ends and its locals are dropped.
Return(t) ==
  /\ Call(t, "none", None, "idle")
  /\ req' = [req EXCEPT ![t] = None]
  /\ todo' = [todo EXCEPT ![t] = {}]
  /\ picked' = [picked EXCEPT ![t] = {}]
  /\ snap' = [snap EXCEPT ![t] = NothingPublished]

\* publish_statuses, first half: the array is built under the lock.
SnapshotStatuses(t) ==
  /\ pc[t] = "snap"
  /\ snap' = [snap EXCEPT ![t] = status]
  /\ pc' = [pc EXCEPT ![t] = "publish"]
  /\ UNCHANGED <<server, requests, handles, op, goal, req, todo, picked, visible>>

\* accept_goal returns the handle only if its answer could be written.
GivesAcceptedHandle_Bug(t, answered) == op[t] = "accept"
GivesAcceptedHandle(t, answered) == op[t] = "accept" /\ answered

\* start_executing_goal returns the handle with which a result can be sent.
GivesExecutingHandle_Bug(t) == op[t] \in {"accept", "start"}
GivesExecutingHandle(t) == op[t] = "start"

\* publish_statuses, second half (its write errors are only logged), and what
\* each caller does after it: accept_goal answers the client, the other
\* calls return a handle, put the goal on the finished list or answer the
\* cancel request.
PublishStatuses(t) ==
  /\ pc[t] = "publish"
  /\ \E published \in WriteOutcomes, answered \in WriteOutcomes :
       /\ statusTopic' = IF published THEN snap[t] ELSE statusTopic
       /\ told' = IF op[t] = "accept" /\ answered THEN told \cup {goal[t]} ELSE told
       /\ acceptedHandles' = IF GivesAcceptedHandle(t, answered)
                             THEN acceptedHandles \cup {goal[t]} ELSE acceptedHandles
       /\ executingHandles' = IF GivesExecutingHandle(t)
                              THEN executingHandles \cup {goal[t]} ELSE executingHandles
       /\ finished' = IF op[t] \in FinishingOps
                      THEN Append(finished, goal[t]) ELSE finished
  /\ Return(t)
  /\ UNCHANGED <<status, acceptedTime, resultRequests, requests, newHandles,
                 cancelHandles, results, reported, feedback>>

-----------------------------------------------------------------------------
(* New goals.                                                              *)

\* receive_new_goal: a request for a goal id that is in the table is discarded.
ReceiveNewGoal(r) ==
  LET g == r[1] IN
  /\ r \in goalQ
  /\ goalQ' = goalQ \ {r}
  /\ \/ /\ status[g] = "Vacant"
        /\ status' = [status EXCEPT ![g] = "Unknown"]
        /\ acceptedTime' = [acceptedTime EXCEPT ![g] = None]
        /\ newHandles' = newHandles \cup {r}
        /\ reported' = [reported EXCEPT ![g] = << >>]
     \/ /\ status[g] # "Vacant"
        /\ UNCHANGED <<status, acceptedTime, newHandles, reported>>
  /\ UNCHANGED <<finished, resultRequests, resultQ, cancelQ, sent, resultSent, cancelSent,
                 acceptedHandles, executingHandles, cancelHandles, calls,
                 told, results, feedback, statusTopic>>

\* get_new_goal: its flush_finisehd_goals is the only place that empties the
\* finished list; the goal it then reads changes nothing.
GetNewGoal ==
  LET flushed == {finished[i] : i \in DOMAIN finished} IN
  /\ newHandles # {}
  /\ finished # << >>
  /\ status' = [g \in GoalIds |-> IF g \in flushed THEN "Vacant" ELSE status[g]]
  /\ acceptedTime' = [g \in GoalIds |-> IF g \in flushed THEN None ELSE acceptedTime[g]]
  /\ finished' = << >>
  /\ UNCHANGED <<resultRequests, requests, handles, calls, visible>>

AcceptGoal(t, h, now) ==
  LET g == h[1] IN
  /\ pc[t] = "idle" /\ h \in newHandles
  /\ status[g] = "Unknown"
  /\ status' = [status EXCEPT ![g] = "Accepted"]
  /\ acceptedTime' = [acceptedTime EXCEPT ![g] = now]
  /\ Call(t, "accept", g, "snap")
  /\ UNCHANGED <<finished, resultRequests, requests, handles, req, todo, picked, snap, visible>>

\* reject_goal: the entry is forgotten, whether or not the answer is written.
RejectGoal(h) ==
  LET g == h[1] IN
  /\ h \in newHandles
  /\ status[g] = "Unknown"
  /\ status' = [status EXCEPT ![g] = "Vacant"]
  /\ acceptedTime' = [acceptedTime EXCEPT ![g] = None]
  /\ UNCHANGED <<finished, resultRequests, requests, handles, calls, visible>>

-----------------------------------------------------------------------------
(* Execution.                                                              *)

StartExecutingGoal(t, g) ==
  /\ pc[t] = "idle" /\ g \in acceptedHandles
  /\ status[g] = "Accepted"
  /\ status' = [status EXCEPT ![g] = "Executing"]
  /\ Call(t, "start", g, "snap")
  /\ UNCHANGED <<acceptedTime, finished, resultRequests, requests, handles,
                 req, todo, picked, snap, visible>>

\* publish_feedback writes under the lock.
PublishFeedback(g) ==
  /\ g \in executingHandles
  /\ status[g] \in Feedbackable
  /\ feedback[g] < MaxFeedback
  /\ feedback' = [feedback EXCEPT ![g] = @ + 1]
  /\ UNCHANGED <<server, requests, handles, calls, told, results, reported,
                 statusTopic>>

\* The application answers cancel requests and finishes goals one at a time.
NoCancelInProgress ==
  CancelExclusive => cancelHandles = {} /\ \A t \in Tasks : pc[t] \notin {"collect", "cancel"}
NoFinishInProgress ==
  CancelExclusive => \A t \in Tasks : pc[t] \notin {"wait", "finish"}

\* send_result_response, first lock: has the request been buffered?
SendResultResponse(t, g) ==
  /\ pc[t] = "idle" /\ g \in executingHandles
  /\ NoCancelInProgress
  /\ Call(t, "finish", g, IF resultRequests[g] = None THEN "wait" ELSE "finish")
  /\ req' = [req EXCEPT ![t] = resultRequests[g]]
  /\ UNCHANGED <<server, requests, handles, todo, picked, snap, visible>>

\* send_result_response, its receive loop: requests for other goals are buffered.
IsMine_Bug(t, r) == TRUE
IsMine(t, r) == r[1] = goal[t]

Buffer_Bug(r) == resultRequests
Buffer(r) == [resultRequests EXCEPT ![r[1]] = r]

ReceiveResultRequest(t, r) ==
  /\ pc[t] = "wait" /\ r \in resultQ
  /\ resultQ' = resultQ \ {r}
  /\ \/ /\ IsMine(t, r)
        /\ req' = [req EXCEPT ![t] = r]
        /\ pc' = [pc EXCEPT ![t] = "finish"]
        /\ UNCHANGED resultRequests
     \/ /\ ~IsMine(t, r)
        /\ resultRequests' = Buffer(r)
        /\ UNCHANGED <<req, pc>>
  /\ UNCHANGED <<status, acceptedTime, finished, goalQ, cancelQ, sent, resultSent, cancelSent,
                 handles, op, goal, todo, picked, snap, visible>>

\* The application drops the future while it waits, as the examples do on a timeout.
DropSendResult(t) ==
  /\ pc[t] = "wait"
  /\ Return(t)
  /\ UNCHANGED <<server, requests, handles, visible>>

\* send_result_response, last lock: the status is set before the write, so a
\* failed write leaves an end status that is neither published nor flushed.
\* The caller's result_status is first used here, so it is chosen here.
FinishGoal(t, e) ==
  LET g == goal[t] IN
  /\ pc[t] = "finish"
  /\ \/ /\ status[g] \in Finishable
        /\ status' = [status EXCEPT ![g] = e]
        /\ \/ /\ results' = results \cup {[req |-> req[t], goal |-> g]}
              /\ reported' = [reported EXCEPT ![g] = Append(@, e)]
              /\ pc' = [pc EXCEPT ![t] = "snap"]
              /\ UNCHANGED <<op, goal, req, todo, picked, snap>>
           \/ /\ WritesFail
              /\ Return(t)
              /\ UNCHANGED <<results, reported>>
     \/ /\ status[g] \notin Finishable
        /\ Return(t)
        /\ UNCHANGED <<status, results, reported>>
  /\ UNCHANGED <<acceptedTime, finished, resultRequests, requests, handles,
                 told, feedback, statusTopic>>

AbortGoal_Bug(t, g) ==
  /\ pc[t] = "idle" /\ g \in acceptedHandles \cup executingHandles
  /\ status[g] \in Abortable
  /\ status' = [status EXCEPT ![g] = "Aborted"]
  /\ finished' = Append(finished, g)
  /\ UNCHANGED <<acceptedTime, resultRequests, requests, handles, calls, visible>>

\* abort_accepted_goal and abort_executing_goal.
AbortGoal(t, g) ==
  /\ pc[t] = "idle" /\ g \in acceptedHandles \cup executingHandles
  /\ NoCancelInProgress
  /\ status[g] \in Abortable
  /\ status' = [status EXCEPT ![g] = "Aborted"]
  /\ Call(t, "abort", g, "snap")
  /\ UNCHANGED <<acceptedTime, finished, resultRequests, requests, handles,
                 req, todo, picked, snap, visible>>

-----------------------------------------------------------------------------
(* Cancellation.                                                           *)

\* goal_filter of receive_cancel_request.
GoalFilter(c, g) ==
  \/ c.goal = None /\ c.stamp = 0
  \/ c.goal = g
  \/ c.stamp # 0 /\ acceptedTime[g] # None /\ acceptedTime[g] < c.stamp

ReceiveCancelRequest(c) ==
  /\ c \in cancelQ
  /\ NoFinishInProgress
  /\ cancelQ' = cancelQ \ {c}
  /\ cancelHandles' = cancelHandles \cup
       {[n |-> c.n, goals |-> {g \in GoalIds : status[g] \in Cancelable /\ GoalFilter(c, g)}]}
  /\ UNCHANGED <<server, goalQ, resultQ, sent, resultSent, cancelSent,
                 newHandles, acceptedHandles, executingHandles, calls, visible>>

\* respond_to_cancel_requests: the application picks the goals to cancel, in any
\* way, and keeps the handle, which the call only borrows, or drops it.
RespondToCancelRequests(t, h, chosen, kept) ==
  /\ pc[t] = "idle" /\ h \in cancelHandles
  /\ CancelExclusive => chosen \subseteq h.goals
  /\ kept => KeepsHandles
  /\ cancelHandles' = IF kept THEN cancelHandles ELSE cancelHandles \ {h}
  /\ Call(t, "cancel", None, IF chosen = {} THEN "snap" ELSE "collect")
  /\ todo' = [todo EXCEPT ![t] = chosen]
  /\ UNCHANGED <<server, requests, newHandles, acceptedHandles, executingHandles,
                 req, picked, snap, visible>>

\* Its filter_map, one lock per goal: only an accepted goal is kept.
CollectCanceling(t, g) ==
  LET kept == picked[t] \cup (IF acceptedTime[g] # None THEN {g} ELSE {})
      rest == todo[t] \ {g}
  IN
  /\ pc[t] = "collect" /\ g \in todo[t]
  /\ picked' = [picked EXCEPT ![t] = kept]
  /\ todo' = [todo EXCEPT ![t] = IF rest = {} THEN kept ELSE rest]
  /\ pc' = [pc EXCEPT ![t] = IF rest # {} THEN "collect"
                             ELSE IF kept # {} THEN "cancel" ELSE "snap"]
  /\ UNCHANGED <<server, requests, handles, op, goal, req, snap, visible>>

\* Its second loop, again one lock per goal: the status is overwritten whatever it is.
MarkCanceling(t, g) ==
  /\ pc[t] = "cancel" /\ g \in todo[t]
  /\ status' = [status EXCEPT ![g] = IF @ = "Vacant" THEN @ ELSE "Canceling"]
  /\ todo' = [todo EXCEPT ![t] = @ \ {g}]
  /\ pc' = [pc EXCEPT ![t] = IF todo[t] = {g} THEN "snap" ELSE "cancel"]
  /\ UNCHANGED <<acceptedTime, finished, resultRequests, requests, handles,
                 op, goal, req, picked, snap, visible>>

-----------------------------------------------------------------------------

ClientStep ==
  \/ \E g \in GoalIds : SendGoal(g) \/ RequestResult(g)
  \/ \E g \in GoalIds \cup {None}, stamp \in Times \cup {0} : CancelGoal(g, stamp)

ReceiveStep ==
  \/ \E r \in goalQ : ReceiveNewGoal(r)
  \/ GetNewGoal
  \/ \E h \in newHandles : RejectGoal(h)
  \/ \E g \in GoalIds : PublishFeedback(g)
  \/ \E c \in cancelQ : ReceiveCancelRequest(c)

StartCall(t) ==
  \/ \E h \in newHandles, now \in Times : AcceptGoal(t, h, now)
  \/ \E g \in GoalIds : StartExecutingGoal(t, g) \/ AbortGoal(t, g) \/ SendResultResponse(t, g)
  \/ \E h \in cancelHandles, chosen \in SUBSET GoalIds, kept \in BOOLEAN :
       RespondToCancelRequests(t, h, chosen, kept)

\* The steps of a call that do not wait for a client.
ContinueCall(t) ==
  \/ SnapshotStatuses(t)
  \/ PublishStatuses(t)
  \/ \E e \in EndStatuses : FinishGoal(t, e)
  \/ \E g \in GoalIds : CollectCanceling(t, g) \/ MarkCanceling(t, g)

Next ==
  \/ ClientStep
  \/ ReceiveStep
  \/ \E t \in Tasks : StartCall(t) \/ ContinueCall(t) \/ DropSendResult(t)
  \/ \E t \in Tasks, r \in resultQ : ReceiveResultRequest(t, r)

Spec == Init /\ [][Next]_vars

\* The executor keeps running a call that can go on and hands a waiting call
\* the request it waits for, and a client asks for the result of its goal.
SchedulerFairness ==
  /\ \A t \in Tasks : WF_vars(ContinueCall(t))
  /\ \A t \in Tasks : SF_vars(\E r \in resultQ : ReceiveResultRequest(t, r))
  /\ \A g \in GoalIds : WF_vars(RequestResult(g))

\* The application sends the results of its goals, answers cancel requests and drops
\* their handles, and gives up a call that waits for too long (the examples put a
\* timeout on send_result_response).
ApplicationFairness ==
  /\ \A g \in GoalIds : SF_vars(\E t \in Tasks : SendResultResponse(t, g))
  /\ \A t \in Tasks : WF_vars(DropSendResult(t))
  /\ SF_vars(\E t \in Tasks, h \in cancelHandles, chosen \in SUBSET GoalIds :
               RespondToCancelRequests(t, h, chosen, FALSE))

LiveSpec == Spec /\ SchedulerFairness /\ ApplicationFairness

-----------------------------------------------------------------------------
(* Properties.                                                             *)

\* Every variable of the server, its clients and its calls has its type.
TypeOK ==
  /\ status \in [GoalIds -> EntryStates]
  /\ acceptedTime \in [GoalIds -> Times \cup {None}]
  /\ finished \in Seq(GoalIds)
  /\ resultRequests \in [GoalIds -> ResultReqs \cup {None}]
  /\ goalQ \subseteq GoalReqs
  /\ resultQ \subseteq ResultReqs
  /\ cancelQ \subseteq CancelReqs
  /\ sent \in [GoalIds -> 0 .. MaxSends]
  /\ resultSent \in [GoalIds -> 0 .. MaxResultReqs]
  /\ cancelSent \in 0 .. MaxCancels
  /\ newHandles \subseteq GoalReqs
  /\ acceptedHandles \subseteq GoalIds
  /\ executingHandles \subseteq GoalIds
  /\ cancelHandles \subseteq CancelHandle
  /\ pc \in [Tasks -> {"idle", "snap", "publish", "wait", "finish", "collect", "cancel"}]
  /\ op \in [Tasks -> {"none", "accept", "start", "finish", "abort", "cancel"}]
  /\ goal \in [Tasks -> GoalIds \cup {None}]
  /\ req \in [Tasks -> ResultReqs \cup {None}]
  /\ todo \in [Tasks -> SUBSET GoalIds]
  /\ picked \in [Tasks -> SUBSET GoalIds]
  /\ snap \in [Tasks -> [GoalIds -> EntryStates]]
  /\ told \subseteq GoalIds
  /\ results \subseteq Result
  /\ reported \in [GoalIds -> Seq(EndStatuses)]
  /\ feedback \in [GoalIds -> 0 .. MaxFeedback]
  /\ statusTopic \in [GoalIds -> EntryStates]

\* A client that gets a result for a goal has been told before that the goal
\* was accepted (accept_goal answers before it returns the handle that
\* send_result_response, two handles later, needs).
AcceptedBeforeResult == \A x \in results : x.goal \in told

\* A result goes to a request for that very goal, although one task reads and
\* buffers the requests of all goals (send_result_response).
ResultAnswersItsRequest == \A x \in results : x.req[1] = x.goal

\* Once the result of a goal has been sent, no feedback is published for it,
\* whatever cancel requests, stale handles and other tasks do (publish_feedback).
FeedbackStopsAtResult ==
  [][\A g \in GoalIds : feedback'[g] # feedback[g] => reported[g] = << >>]_vars

\* flush_finisehd_goals finds every goal of the finished list in the table, once
\* and in an end status: what its debug_assert and its error message say.
FlushLooksDone ==
  /\ \A i \in DOMAIN finished : status[finished[i]] \in EndStatuses
  /\ \A i, j \in DOMAIN finished : finished[i] = finished[j] => i = j

\* As long as a goal stays in the table, its status is what the result said:
\* the table, the status topic and the client never learn a different end.
ResultIsFinalStatus ==
  \A g \in GoalIds : reported[g] # << >> =>
    /\ Len(reported[g]) = 1
    /\ status[g] \in {reported[g][1], "Vacant"}

\* The goals an id has had so far: newHandles keeps the handle of each of them.
Received(g) == {h \in newHandles : h[1] = g}
lives == [g \in GoalIds |-> IF Received(g) = {} THEN "none"
                            ELSE IF \A h, k \in Received(g) : h = k THEN "first" ELSE "later"]

\* The server implements GoalLifecycle: its entries only make the status changes
\* of the protocol, ends are final, and each life of a goal has at most one
\* result, sent with the very step that ends it.  The one step the protocol does
\* not have, success without a start, needs an id that has had a goal before.
Lifecycle == INSTANCE GoalLifecycle WITH
  Goals <- GoalIds, state <- status, outcome <- reported, life <- lives
ImplementsLifecycle == Lifecycle!Spec

\* "Accepted goal cannot succeed, it must be executing before success"
\* (src/action/server.rs:603) is true of the first goal of an id, also while more
\* requests with the id wait or have been discarded: send_result_response lets an
\* accepted goal succeed, but no handle to call it with is there before
\* start_executing_goal.  A later goal of the id may meet a handle of the first.
StartedFirst ==
  [][\A g \in GoalIds :
       lives[g] = "first" /\ status[g] = "Accepted" => status'[g] # "Succeeded"]_vars

\* With no call in progress, the last status array published shows the status
\* of every accepted goal (publish_statuses runs after every change).
StatusTopicAgrees ==
  (\A t \in Tasks : pc[t] = "idle") =>
    \A g \in GoalIds : status[g] \notin {"Vacant", "Unknown"} => statusTopic[g] = status[g]

\* A goal that has started to execute comes to an end: its result is sent to
\* the client that asked for it, or it is aborted, even if it is canceled or
\* the future of send_result_response is dropped on the way.
ExecutingGoalSettles ==
  \A g \in GoalIds :
    status[g] = "Executing" ~> (reported[g] # << >> \/ status[g] = "Aborted")

=============================================================================

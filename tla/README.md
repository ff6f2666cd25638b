# A verification project for ros2-client

ros2-client is a native Rust implementation of the ROS 2 client library, on top
of DDS (rustdds) or, behind a feature, of zenoh. This directory holds TLA+
modules that model its stateful parts, TLC configurations that check them on
small instances, and TLAPS proofs of what holds on every instance.

## 1. Inventory

| component | state | operations | talks to |
|---|---|---|---|
| `AsyncActionServer` (`action/server.rs`) | three mutexes: `goals`, `finished_goals`, `result_requests` | receive / get / accept / reject / start / feedback / result / abort / cancel | three service servers, two topics; handles given to application tasks |
| `ActionClient` (`action/client.rs`) | none of its own | send_goal, request_result, cancel_* | three service clients |
| `service::Client`, `Server` | `sequence_number_gen`; the readers' queues | send/receive request/response, sync and async | request and response topic |
| service mappings (`service/wrappers.rs`) | none | wrap, unwrap in Basic, Enhanced, Cyclone | |
| `Spinner` (`node.rs`) | match maps, `external_nodes`, `status_event_senders`, clock, parameters | one select loop | DDS status events, `MatchWait`, parameter services |
| `MatchWait` (`node.rs`) | its receiver | poll | the maps and channels of the Spinner |
| parameters (`node.rs`, `parameters.rs`) | `parameters`, `use_sim_time` | declare, set, undeclare, six services | `/parameter_events`, callbacks |
| `Context` (`context.rs`) | `local_nodes` | update_node, remove_node, broadcast | `ros_discovery_info` |
| zenoh `Context`, `Node` (`zenoh_backend/context.rs`, `node.rs`, `graph_cache.rs`) | node and entity counters, liveliness tokens, the `GraphCache` and its subscribers | create_*, drop, wait_for_*, counts | zenoh sessions, a liveliness callback |
| zenoh pub/sub (`zenoh_backend/pubsub.rs`) | `seq` of each publisher | publish, take | zenoh samples with an attachment |
| zenoh services (`zenoh_backend/service.rs`) | `seq` of a client, `pending` of a server | call, receive, respond | zenoh queries and replies |
| zenoh actions (`zenoh_backend/action.rs`) | none of their own | send_goal, get_result, cancel_*, receive and respond | three services, two topics |
| zenoh parameters (`zenoh_backend/parameters.rs`) | the store | six services, set_parameter | `/parameter_events` |
| names, times, qos, key expressions, type hashes, CDR | none | conversions | both backends |
| logging, msggen, interface types | none | output, code generation, data | |

What is hard in this code is that every lock is held for a few lines only, while
the calls it serves span several locks and several `await`s, and the handles
the application holds are `Copy` and never expire. The hazards are listed,
each at its line, in `PROJECT.json`. What makes each part correct:

* the action server: a goal only makes the status changes of the ROS 2 goal life
  cycle; ends are final; one result per goal, to a request for that goal, after
  the acceptance and with the status that the table keeps; no feedback after it;
  the published statuses agree with the table; every executing goal settles;
* services: a caller gets the answer to its own request, and gets one;
* discovery: a match is never missed although the channels are lossy, no
  receiver is forgotten, and the maps agree with DDS;
* the graph: a Context announces the nodes that are there, each with all its
  endpoints, and every Spinner ends up knowing them;
* parameters: only validated values are seen, the table, the set action and the
  listeners of `/parameter_events` agree once calls are over, and every request
  is answered;
* the zenoh graph: once the samples are in, a cache has what is reachable and
  nothing else, and a wait misses nothing;
* zenoh services, actions and parameters: a reply reaches the call it answers, no
  query is stranded, calls return without their timeout, and what a client is told
  of the parameters was true;
* conversions: what one end writes, the other end reads, and two endpoints that
  should meet have the same names.

## 2. The modules and the code

### ActionServer (with MCActionServer, GoalLifecycle)

`status` and `acceptedTime` are the entries of `goals` ("Vacant": no entry),
`finished` is `finished_goals`, `resultRequests` is `result_requests`. The
requests that the three services have not handed out yet are sets (DDS does not
order requests of different clients). Goal payloads, results and feedback
contents are left out; a request is a goal id and a number.

Every region that runs under one lock is one step. A method that takes one lock
is one action (`ReceiveNewGoal`, `GetNewGoal`, `RejectGoal`, `PublishFeedback`,
`ReceiveCancelRequest`). The others are calls of a task, with a program counter:

| method | steps |
|---|---|
| `accept_goal`, `start_executing_goal`, `abort_*` | change the entry; `SnapshotStatuses`; `PublishStatuses`, which includes what the method does after `publish_statuses` |
| `send_result_response` | `SendResultResponse` (looks into the buffer), `ReceiveResultRequest`* (the await loop), `FinishGoal`, then the two steps of `publish_statuses` and the finished list |
| `respond_to_cancel_requests` | `RespondToCancelRequests`, `CollectCanceling` per goal, `MarkCanceling` per goal, the two steps of `publish_statuses` |

`get_new_goal` takes the lock twice, once in `flush_finisehd_goals`; its second
region only reads, so it is one step with the first, and without a finished
goal it changes nothing. Calls that return an error change nothing and are
stuttering steps. DDS writes may fail where `WritesFail` says so.
`DropSendResult` is the application dropping the future on a timeout, as the
examples do (`examples/concurrent_action_server/main.rs:202`).

`respond_to_cancel_requests` borrows its `CancelHandle` and takes any goal ids; so the
application may name any goals and, where `KeepsHandles` says so, answer again.

`CancelExclusive` is an assumption on the application: from
`receive_cancel_request` until its answer has marked the goals, no task
finishes or aborts a goal, and an answer names goals of its handle. The documentation
does not ask for it; three of the properties need it (see `action_stale_cancel`).

`GoalLifecycle` is the abstract specification: the status changes of the protocol
(a goal that is alive can be canceled or aborted, but must be executing before it
succeeds), ends that are final, one result per life of a goal, sent with the step that
ends it. `ActionServer!Lifecycle` maps `status` and `reported` to it, and `lives`: whether
an id has had no goal yet, one, or more. The code does not keep to the protocol when a
client uses a goal id again: `send_result_response` also takes an Accepted goal to
Succeeded, and the executing handle of an earlier goal with that id is enough to call it.
`GoalLifecycle` has this step apart (`SucceedUnstarted`), for ids with more than one goal
only; for the first goal of each id it has the changes of the protocol and no other.

### ServiceRpc (with MCServiceRpc)

Clients, the callers that share them, one server and the two topics. The request
topic is a set (any order), each client's response reader is a queue that gets
every response. `IncrementSequenceNumber` and `LoadSequenceNumber` are the two
atomic operations on `sequence_number_gen`. `Mapping` selects the
`ServiceMapping`; a GUID is a pair of halves, because the Cyclone mapping puts a
GUID together from two of them. `Body` says which bytes the payload is decoded
from. Whether the header's bytes decode as a payload at all depends on the
message type; the model takes a type for which they do. A request may fail to be wrapped
or written (`FailRequest`), a response to be unwrapped (in `TakeResponse`, which has then
taken it), and the reader to give an error (`GiveUp`); the call ends with the error.

### Discovery (with MCDiscovery)

The Spinner's two discovery arms, `send_status_event` sender by sender, and any
number of `MatchWait` futures in other threads: pump, install the waker, check
the map, park, be polled again only when woken. Channels are bounded and lossy.
Receivers are dropped at any time between polls, the Spinner stops, and the last
of Node and Spinner drops the senders. A channel is the number of events in it.

### NodeGraph (with MCNodeGraph)

`localNodes` is `ContextInner.local_nodes`; every change of it writes the whole
of it to `ros_discovery_info` under the same lock (`Broadcast`), and the write may
fail, which the code only logs. A `Node` belongs to one task at a time and its
endpoint sets only grow, so they are a number and a method is one step:
`NewNode`, `NewNodeFails` (the `?`s in `Node::new`, after which `Drop` runs),
`AddEndpoint`, `MakeSpinner`, `MakeSpinnerFails` (the `?`s in `spinner()`, which
leave `suppress_node_info_updates` set), `StopSpinner`, `DropNode`. The endpoints of
the six parameter services are one. A Spinner begins with the last sample of
each writer (`History`: the topic is TransientLocal) and its reader keeps `Depth`
samples of each writer (KeepLast 1 in `builtin_topics.rs`); that the depth counts
for each writer, and that samples of one writer arrive in order, is an
assumption on rustdds.

### Parameters (with MCParameters)

The table, and the calls of `set_parameter` (the same code in `Node` and in
`Spinner`) and `undeclare_parameter` on it. A call looks at the table, runs the
validator, runs the set action, inserts, and publishes its event; the lock is
taken for the first and the fourth only, so these are five steps (`BeginSet`,
`Validate`, `Act`, `Insert`, `Notify`). `effect` is what the set action was last
given; for `use_sim_time` it is the flag that `time_now` reads. `listener` is what
somebody makes of the events. A set action that refuses is taken to have no
effect; events are taken to be written. `overlapped` is bookkeeping of the model:
the names that two calls have been about at the same time. The code promises
nothing for these (an `undeclare_parameter` between look and insert is undone, and
two events can be published in the wrong order), and the properties about the
agreement of table, action and listeners are about all others.

The requests that only read the table (get, get types, list, describe) and
`set_parameters_atomically`, which refuses, are operators in `ParameterReads`.

### ZenohGraph (with ZenohEntities, MCZenohGraph)

`ZenohEntities` gives, for each `create_*` method of the zenoh `Node`, the entities
it declares and in which order, each with the type hash of its data key and of its
token. In `ZenohGraph` a call declares them one after the other (`DeclareEntity`);
a zenoh declaration that fails ends the call with `?` and drops what it has made
(`CreateFails`), while a token that fails is only logged (`TokenResults`).
`live` is what exists, `linked` which sessions an observer reaches. Declaring and
dropping tokens, and losing or finding a connection, puts samples into `inbox`, one
queue for each session, in order within a session (external: zenoh). A sample is
about a set of keys, because zenoh gives no order to the tokens of one drop; the
callback takes one key at a time: `ApplyPut` and `ApplyDelete` change the map,
`Broadcast` announces, in two steps because the lock is not held between them.
`wait_for` is `Subscribe`, `Check`, `Receive`, and `DropWait` is its future being dropped.

### ZenohService, ZenohTopic

State and steps of the zenoh `Client`, `Server` and `RawServer`, and of publishers
and subscriptions; modules that extend them add the application. A call sends its
query to every server of the service; a server hands out a request and keeps its
query in `pending`, refuses what it cannot decode, and answers; the first reply ends the
call, as do a timeout and the drop of all its queries. A publisher numbers a
sample and then puts it, in two steps, of which each may fail (`PublishFails`): the
sample is then lost. The order of numbers and `put`s is there for the parameters.

### ZenohAction (with MCZenohAction)

Three services and two topics, with an `ActionClient` that threads share. The typed and
the raw server differ in who decodes (`raw`, chosen initially). The goal table
belongs to the application, which does what the tests of `action.rs` do.

### ZenohParameters (with MCZenohParameters)

The store, the six handlers that `spin` runs in their order, `set_parameter` of other
threads, and a `ParameterClient`. A handler answers under one lock; a change and its
event are two steps. A failed publication is only logged (`parameters.rs:167`), and
`PublishEvent` may lose its event. `seen` (the stores there were during a call) and
`untold` are bookkeeping of the model: a name is `untold` from an insert that finds
another thread with an older event about it in hand, or from a failed publication, until
the next insert of it that finds no such thread.

### Conversions (with MCConversions) and the operators

`Times`, `Names`, `KeyExprs`, `QosCodec`, `Framing`, `TypeHashes`, `DdsEndpoints`
and `ParameterReads` are operators without state. `Conversions` puts them together: a
behaviour asks one question of one of them, and the invariants compare the answer with a
reference definition. Integer widths are constants, so overflow and saturation are
close to zero; a name is the sequence of its slash-separated tokens, and what the
code asks of the characters of a token is a constant set; a message body is two
octets in the order of its endianness. The digits of a number are the constant
`Decimal`, which spells each number in a way of its own; the stable sort of referenced
types is `SortByName`, which puts each at the place given by how many come before it.
SHA-256 and the JSON text are taken as injective. A std `Duration` has `u64` seconds;
`as i64` and `as i32` wrap (`WrapLong`, `WrapSec`), and a RustDDS `Duration` (external) is
`i32` seconds and a fraction of `Ticks` parts, of which the greatest value is infinity.
Numbers in a token that do not fit their field are refused; a token for which
`Duration::new` panics (`Overflows`) has no result.

## 3. The runs

| run | what it asks | result |
|---|---|---|
| `action_concurrent` | two tasks, two goals, failing writes, cancel at any time: types, `AcceptedBeforeResult`, `ResultAnswersItsRequest`, `FeedbackStopsAtResult` | holds |
| `action_serialized` | under `CancelExclusive`, two tasks, a goal id used twice, failing writes: `FlushLooksDone`, `ResultIsFinalStatus`, `ImplementsLifecycle`, `StartedFirst` | holds |
| `action_live` | one call at a time, two goals, fairness: `ExecutingGoalSettles`, `StatusTopicAgrees` | holds |
| `action_stale_cancel` | `FlushLooksDone` without `CancelExclusive` | violated: a late cancel answer overwrites an end status |
| `service_calls` | Enhanced mapping, failing requests and responses: `ResponseIsMine`, `DistinctIds`, `CallAnswered`, types | holds |
| `discovery` | `NoLostWakeup`, `OpenReceiversKept`, `MapIsCurrent`, `MatchEndsWait` | holds |
| `node_graph` | namesakes, failing constructors and writes: `NoGhosts`, `EndpointsAnnounced`, `CaughtUp`, `DroppedForgotten` | holds |
| `parameters` | a task and the Spinner on one table: `OnlyValidated`, `ListenerAgrees`, `EffectAgrees`, `EventKindRight`, `UndeclaredStays`, `RequestsAnswered` | holds |
| `zenoh_graph` | nodes and entities come and go, calls fail half-way, a connection is lost: `CacheIsGraph`, `NoMissedEntity`, `WaitResolves` | holds |
| `zenoh_action` | two threads share an `ActionClient`, typed or raw server, malformed requests, failing encodings, timeouts: `ReplyIsMine`, `NotStranded`, `CallReturns` | holds |
| `zenoh_parameters` | two clients, `spin` and a thread of the application, failing publications: `RepliesTrue`, `EventsAgree`, `SpinAnswers` | holds |
| `conversions` | every input in the bounds: `TimesAgree`, `NamesAgree`, `EncodingsAgree` | holds |

The violated one states what a `debug_assert` of the code says; `findings` in
`PROJECT.json` quotes the line. `TypeOK` of `Discovery`, `Parameters`, `NodeGraph`,
`ZenohGraph` and `ZenohAction` is proved (section 4) and is not among the properties of a run.

Bounds. Two tasks are enough for every pair of calls to interleave, and two
goals for a request of one to be met by a task that works on the other; two
requests for one goal id give the goal a second life, in which handles and
requests of the first are stale. A cancel request names a goal or none, and a
time or none, so one or two of them reach each form. A channel of capacity
one is full after one event, which is all that distinguishes a full channel; three waits
are the fewest for which removing two closed senders in the wrong order loses an
open one. `action_concurrent` and `action_serialized` compare states without the
status topic and snapshots (`VIEW`), which no property of theirs mentions and no
step that matters to them reads, and up to a permutation of tasks and goals.
In `node_graph` two nodes share a name in one Context and a third, with the
Spinner, watches from another; two endpoints each are enough for one to be
announced late. In `parameters` one application task against the Spinner gives
every pair of calls, a request sets two parameters, and there are the built-in
parameter and one more, values of the right type and one of the wrong type.
In `zenoh_graph` one Context watches and waits, and the node of another makes and
drops a logger (which the wait is about) and the parts of an action client: three
entities are a node and a call that fails after its first entity, and one
loss lets a connection go and come back around each of them. In `zenoh_action` one
thread makes two calls and the other one, so that a call follows one that timed out
while a third is under way; the second thread also sends what cannot be decoded. In
`zenoh_parameters` one client reads and never gives up, the other sets two parameters,
one of them to NotSet, or sends a malformed request, or gives up, and a thread of the
application sets the other parameter in between. In `conversions` a second has three nanoseconds and seconds
have three bits, with times up to the double of that on both sides; texts have up to
four tokens from six that are well formed or break one rule each; profiles have
depths and durations at zero, one and beyond: past the `i32` seconds of DDS (13
nanoseconds) and past the `i64` nanoseconds (60); tokens have numbers at and past the
limits of their fields.
Deadlock is not checked: with every bound used up these systems rightly stop.

Fairness. `SchedulerFairness`: the executor keeps running a call that can go on,
and a call that waits for requests is handed one that keeps being there;
clients ask for the results of their goals, as the doc of
`send_result_response` says they should. `ApplicationFairness`: the application
sends results, answers cancel requests and gives up a wait after a timeout, as
the examples do. In `ServiceRpc` the server keeps
serving and waiting calls are polled. In `Discovery` the Spinner's task and woken
tasks run; nothing forces an event to happen. In `NodeGraph` and `Parameters` the
executor keeps running the Spinner's task, which takes what is there to take. In
`ZenohGraph` zenoh keeps calling the callback and the executor keeps polling the
wait. In `ZenohAction` the application polls every service, answers what it can,
finishes its goals and publishes; in `ZenohParameters` `spin` keeps polling. In both a
blocked call whose reply is there wakes up, and nothing is assumed of timeouts.

## 4. Proofs

`ActionServer_proofs` proves, for all sets of goals, tasks and times, all bounds,
failing writes or not, `CancelExclusive` or not:

* `TypeCorrectness`: `TypeOK`;
* `AcceptedFirst`: `AcceptedBeforeResult`;
* `RightRequest`: `ResultAnswersItsRequest`;
* `NoFeedbackAfterResult`: `FeedbackStopsAtResult`.

They rest on `ConstantsAssumption` and on one inductive invariant, `IndInv`. The
properties themselves are not inductive: a result is right because the request
a call holds is about its goal (`CallsOK`), which holds because requests are
buffered under their own goal (`BufferOK`); a result follows acceptance because
no handle and no call past `accept_goal` exists for a goal its client was not
told of (`ToldOK`); and feedback stops because a goal whose result was sent is
never again Executing in that life (`UnreportedOK`), also when a late cancel
answer overwrites its status. There is one lemma per action.

Under `CancelExclusive`, the assumption on the application that the run
`action_stale_cancel` shows to be needed, it also proves:

* `FlushIsRight`: `FlushLooksDone`;
* `ResultIsFinal`: `ResultIsFinalStatus`;
* `Refinement`: `ImplementsLifecycle`, that is `Spec => Lifecycle!Spec`. For the first goal of
  an id that is the life cycle of the protocol; `SucceedUnstarted` is for later ones.

`FlushLooksDone` says that what is on the finished list is at its end. It is not
inductive: between the step that ends a goal and the step that puts it on the list
something might still change the status. `SerialInv` adds that a goal a call is about to
put on the list is at its end and belongs to that call alone (`FinishingOK`), that no
result is awaited or sent while a cancel request is answered (`ExclusiveOK`), and
that the goals of a cancel answer therefore stay alive (`CancelOK`). The refinement maps
each action to a step of `GoalLifecycle` or to a stutter: receiving, accepting,
rejecting and starting a goal are the steps of these names, `FinishGoal` and `AbortGoal`
are its `Finish` (or, where `FirstLifeOK` does not exclude it, `SucceedUnstarted`),
`MarkCanceling` is its `Cancel`, of a goal that is alive, `GetNewGoal` is `Forget`, of
goals at their end, and everything else leaves `status`, `reported` and `lives` alone.

Whether `CancelExclusive` holds or not:

* `StartedBeforeSuccess`: `StartedFirst`. `send_result_response` does not look whether the
  goal was started, so it takes an invariant about handles, `FirstLifeOK`: of an id that has
  had no goal there is nothing, and of its first goal there is, before it is started, no
  executing handle and no call but that of `accept_goal`. That a goal is the first of its
  id is known because no request is handed out twice (`RequestsOK`).
* `TopicInSync`: `StatusTopicAgrees`, if there is one task and writes succeed. Both are
  assumed in the theorem, as in the run `action_live`: two overlapping calls may
  publish their snapshots in the wrong order, and a failed write is not repeated.
  `TopicOK` says that a snapshot about to be published is right.

`ServiceRpc_proofs` proves, for all clients, callers that share them and numbers of
calls:

* `TypeCorrectness`: `TypeOK`, in all three mappings; `HeadersOK` says that in those with
  a header there is one to decode;
* `AnswerIsMine`: `ResponseIsMine`, in the Enhanced mapping;
* `IdsAreDistinct`: `DistinctIds`, in the Enhanced mapping.

`Sent` is the set of request ids in use, in requests, at the server, in responses and
in waiting calls, each with the question it stands for. Every one is the number of a
sample that was written (`WrittenOK`), so the next sample has a new one, and no id stands
for two questions (`OneQuestion`). A response with the id a caller waits for is therefore
about the caller's question.

`Discovery_proofs` proves, for all sets of endpoints and waits and every capacity:

* `NoMissedMatch`: `NoLostWakeup`;
* `ReceiversKept`: `OpenReceiversKept`;
* `MapAgrees`: `MapIsCurrent`;
* `TypeCorrectness`: `TypeOK`, so `swap_remove` stays within the list.

`NoLostWakeup` needs `WakerOK`: a waker is installed only after the channel was
found empty, and from then on it is there or has been called; so if the channel is
full the wait has been woken already, and dropping the event does no harm.
`OpenReceiversKept` needs `ClosedOK`: the indices noted are increasing and none of
their senders has a receiver, so removing the last one first moves only an open
sender or none. `MapIsCurrent` needs `MapOK`, which says what the events on their
way will make of the map.

`NodeGraph_proofs` proves, for all Contexts, nodes and names, failing writes or
not:

* `GhostFree`: `NoGhosts`;
* `TypeCorrectness`: `TypeOK`;
* `AnnouncedInFull`: `EndpointsAnnounced`, for which `NodesOK` ties suppressed
  updates to a failed `spinner()`;
* `SpinnersCatchUp`: `CaughtUp`, for which `UnreadOK` says that the last sample in a
  reader is the last one written.

`Parameters_proofs` proves, for all names, values, validators and tasks:

* `TypeCorrectness`: `TypeOK`;
* `NothingUnvalidated`: `OnlyValidated`;
* `ListenerInSync`, `EffectInSync`: `ListenerAgrees`, `EffectAgrees`;
* `DeclaredOnly`, `KindRight`: the action properties `UndeclaredStays`,
  `EventKindRight`.

Its invariant says of every call that has its name for itself what the table,
the set action and the listener have seen of it at each step (`SyncOK`), and that
two calls about one name make it overlapped (`AloneOK`).

The second part of `Parameters_proofs` is about `Conversions` (parameters, their
services and all other traffic go through these algorithms; the two parts share no
state). It proves all three invariants of the run `conversions`:

* `TimesConverted`: `TimesAgree`, for every width of the integers, every clock of DDS
  that ticks at least twice a nanosecond, and all times whose sums fit in an `i64`;
  of `+` and `-` of a steady time, and of `now_with_utc`, it says what the code does, which is
  to exchange the signs (section 5);
* `NamesResolved`: `NamesAgree`, for every alphabet, texts of any length, any ids;
* `EncodingsKept`: `EncodingsAgree`, for all `usize` depths, std durations, bytes and lengths of
  gids. Over DDS it keeps a duration whose seconds fit an `i32`, to the nanosecond below,
  and of longer ones, which wrap, says only that they are not taken for infinite.

Their invariant, `AskedOK`, only says that a question has inputs of its kind; the work is
in the lemmas about the operators, which are about more inputs than a behaviour asks for.
The five that say most are theorems of their own: `ParsesExactly` (texts of any
length), `AllResolveAlike` and `AllEndpointsMatch` (names of any length in any nodes),
`KeysRoundTrip` (any entity) and `HashesDescribe` (any number of referenced types).

* Times: quotient and remainder are unique (`DivUnique`), so a time is its seconds and
  its nanoseconds, and what the wire holds is within its seconds (`WireRange`).
* Durations: for what fits, seconds and fraction are the ticks rounded down
  (`TicksAreFloor`); the fraction of a second, of either sign, is never the last tick
  (`FractionBelow`), so no number of nanoseconds becomes infinity (`NeverInfinite`).
* Names: a text parses exactly when its tokens are good, and is then spelt by them
  (`ParseIs`); so a name is the list `PathOf`, and what it means in a node is the list
  `Meaning`. Two names mean the same exactly when their DDS tokens are the same
  (`SameMeaning`), because only a relative name in the root namespace has an empty one.
* Endpoints: the path of a topic tells the action, the kind and the part
  (`PathInjective`), so no two of the eight endpoints share a topic, and one that matches
  decides the name (`ActionsMatch`); the twelve of the parameter services likewise.
* Keys: each number and kind is parsed from what it was written as (`DigitsBack`,
  `KindBack`), for digits that spell each number in a way of its own
  (`KeyExprsAssumption`).
* Type hashes: the sort is a permutation (`SortIsPermutation`), because the number of
  descriptions before one is its place (`RankBound`, `RankMonotone`); and two ascending
  lists with the same elements are the same (`AscendingEqual`). Induction is by least
  counterexample: `LeastNat` takes the least element of a set of numbers from the
  well-foundedness of the naturals, which needs no operator as a parameter.

`ZenohGraph_proofs` proves, for all Contexts, node names, requests, tasks and waits,
any number of failures and losses:

* `TypeCorrectness`: `TypeOK`;
* `CacheRight`: `CacheIsGraph`;
* `NothingMissed`: `NoMissedEntity`.

`CacheIsGraph` speaks of a moment when nothing is on its way, so its invariant says
what is on its way (`QueueOK`): the last sample about a key, or the cache if
there is none, tells whether an entity with that key is reachable. That is kept
only if no two entities have one key (`KeysOK`), which holds because the counters are
ahead of every id they gave (`IdsOK`), and because what a call has made is its own
(`CallsOK`). `NoMissedEntity` needs that a wait is subscribed from before it looks until
it ends (`WaitsOK`).

`ZenohAction_proofs` proves, for all goals, callers, shared Clients, bounds and
timeouts, for the typed and the raw server:

* `TypeCorrectness`: `TypeOK`;
* `ReplyToCaller`: `ReplyIsMine`;
* `NothingStranded`: `NotStranded`.

`send_response` finds a query by its id alone, so the replies are right only if an id is
the id of one query (`OneQuery`), which holds because every number in use was given
out by the counter of its client (`QueriesOK`); the replies a `get` has collected carry
the number of its call (`RepliesOK`), so a late reply to a call that timed out does not
reach the next.

`ZenohParameters_proofs` proves, for all names, values, threads, callers, requests and
numbers of changes:

* `EventsTellStore`: `EventsAgree`;
* `RepliesTellStore`: `RepliesTrue`.

`EventsAgree` speaks of a moment when no thread has an event to publish. Its invariant
says that of a name that is not `untold` at most one thread has an event, and that it tells
the store (`InHandOK`), and that if no thread has one the listener has heard the last
(`HeardOK`); an event that is lost makes its name `untold` until it is set again.
`RepliesTrue` needs the chain from the store to the reply: a call has seen the store as it is (`GetsOK`); what a handler collects is true of the store it reads
(lemma `AnswerTrue`), so it is true of one the call has seen; what is true stays true when
more is seen (lemma `TrueOfMore`); of a request to `set_parameters` a first part is done,
and each parameter of it was in a store the call has seen (`DoneOK`); and the query
that is answered is that of the call (`QueriesOK`, `OneQuery`), whose `get` takes no
second reply.

The inductive invariants were model-checked on the instances of the runs before they
were proved. The proofs rest on the named assumptions of their modules
(`ConstantsAssumption`; `ServiceAssumption`, `TopicAssumption`, `ActionAssumption`,
`ParametersAssumption` of the zenoh modules; `TimesAssumption`, `NamesAssumption`,
`KeyExprsAssumption`, `FramingAssumption`, `ConversionsAssumption` of the conversions)
and on what is said above of `CancelExclusive`, `Mapping`, one task and `WritesFail`.

Only model-checked: liveness (`ExecutingGoalSettles`, `CallAnswered`, `MatchEndsWait`,
`DroppedForgotten`, `RequestsAnswered`, `WaitResolves`, `CallReturns`, `SpinAnswers`),
because fairness is out of the prover's reach. Every other property of the passing runs is
also a theorem.

## 5. Not modelled

Not modelled: the code generator (`msggen`, text in, text out) and the interface types
(data). Partly modelled, because the rest is output or a library: logging; reading and
writing of DDS topics; SHA-256, JSON and CDR themselves. `ServiceRpc` has the Basic and
the Cyclone mapping, but no run uses them (see below). `PROJECT.json` has the reason
for each.

One disagreement between code and text has a run (`action_stale_cancel`) and is in
`findings`. The others that were met are listed here; where a property would meet one, the
property leaves it out, and its comment says so.

In the DDS backend:

* a goal succeeds that was accepted and not started, although "Accepted goal cannot
  succeed, it must be executing before success" (`src/src/action/server.rs:603`), when its id
  has had a goal before: the executing handle of that goal is `Copy` and holds the id only.
  This is `SucceedUnstarted`; `action_serialized` takes the step;
* a goal request whose id is in the table is discarded (`src/src/action/server.rs:362`) and
  its client gets no answer; a buffered result request of an earlier goal with the same
  id is answered with the result of a later one (line 591);
* a goal that is canceled before it executes has no handle with which its result
  could be sent, although "Once the goal is accepted, the server must eventually call
  `.send_result_response()` even if the goal is canceled" (`src/src/action/server.rs:375`);
* two `send_result_response` futures that wait at the same time buffer each other's
  request (`src/src/action/server.rs:591`) after each has looked into the buffer, and
  neither resolves, although both clients have asked (`src/src/action/server.rs:546`);
* callers of one `Client` discard each other's responses
  (`src/src/service/client.rs:188`), so that a future "does not complete" although
  its response has been received (line 167);
* `split_off` keeps the header and returns the body (`src/src/service/wrappers.rs:66`),
  where the comment at line 58 decodes the header and then the request; and the
  Cyclone client compares an id of which half is the server's GUID (line 214), so that
  no response matches;
* in the Basic and the Cyclone mapping two callers of one `Client` can wait for the same
  request id, because the counter is incremented and then loaded
  (`src/src/service/client.rs:222`), although "The returned `RmwRequestId` is a token to
  identify the correct response" (line 121). `DistinctIds` is about the Enhanced mapping;
* of built-in parameters such as `use_sim_time` the comment on `set_parameter` says "It thinks
  they are new on first set" (`src/src/node.rs:993`). `Node::new` declares `use_sim_time`, so
  `already_set` is true and its first event says changed. `EventKindRight` is what the code
  does: new exactly if the listener does not know the name, and the listener is taken to know
  the built-in one;
* "Parameter must be [declared] before setting" (`src/src/node.rs:986`), but an
  `undeclare_parameter` between the look and the insert of a `set_parameter` of the same
  name is undone. `UndeclaredStays` leaves out names that two calls were about at once;
* `spinner()` suppresses updates (`src/src/node.rs:801`) and ends that at line 866; a `?` in
  between leaves them suppressed, where line 634 says "temporarily suppress sending updates":
  no endpoint the node adds later is announced. `EndpointsAnnounced` leaves such a node out;
* cancel by time stamp selects `at < stamp` (`src/src/action/server.rs:722`), the policy
  quoted in `src/src/action/client.rs:139` says "at or before the timestamp";
* of two nodes with one name, the one that stays is not announced any more after
  the other is dropped;
* a relative name in the root namespace becomes `rt//name` (`src/src/names.rs:239`),
  and `NodeName` accepts `a__b` and `//`, which `Name::new` refuses: the parameter
  services of such a node cannot be made.

In the time types: `Duration` from negative nanoseconds takes the quotient plus one,
the comment says "sec = quotient - 1" (`src/src/builtin_interfaces.rs:214`); a `Time`
beyond the seconds of the wire keeps its remainder when it saturates, and borrows past
`i32::MIN` below; `+` and `-` of a steady `Time` and a `TimeDiff` have each other's sign
(`src/src/steady_time.rs:97`), so `now_with_utc` moves its first reading back by half of the
difference, where its comment says "We add half of the diff" (line 65);
`TimeDiff::from_nanos(i64::MIN)` and the sums of `ROSTime` and `ROSDuration` overflow.
`TimesAgree` is about what the wire can hold, without negative durations that have a
fraction, and about sums that do not overflow; of the steady clock it states the exchanged
signs, as the code has them.

In the QoS profiles: a duration of 2^31 seconds or more comes back from the DDS policies as
another one, and one of 2^63 nanoseconds or more has been cut to an `i64` before
(`src/src/qos.rs:153`); a depth beyond `i32` wraps. A token whose nanoseconds carry its
seconds past `u64::MAX` makes `decode_qos` panic (`src/src/zenoh_backend/qos_encoding.rs:99`),
although it returns a `Result`.

Two tasks that publish at the same time are nowhere ordered: the status arrays of the action
server, the parameter events of both backends and the samples of a zenoh publisher may come
in the other order than the changes they tell. `StatusTopicAgrees` is therefore about one
task, and `ListenerAgrees` and `EventsAgree` leave out names that were set by two at once.

In the zenoh backend: queryables use a concrete hash where
`src/src/zenoh_backend/type_hash.rs:9` says wildcard; `take_status` takes the oldest
and says "the latest" (`src/src/zenoh_backend/action.rs:164`); `spin_once` says "each
service's queue is drained" (`src/src/zenoh_backend/parameters.rs:175`) but a malformed
request ends the round of its service; a result request that a `RawActionServer`
cannot decode stays pending until the client's timeout; and a parameter that is set to
`NotSet` stays listed.

What could be added: what the Basic and Cyclone mappings still guarantee, as theorems of
`ServiceRpc` beside `TypeCorrectness`; and action properties on top of the invariants,
about what a step may never do to a reply, an identity or an event on its way.

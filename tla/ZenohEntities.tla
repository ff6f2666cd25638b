---------------------------- MODULE ZenohEntities ----------------------------
(***************************************************************************)
(* What the create_* methods of the zenoh Node declare                     *)
(* (src/zenoh_backend/node.rs): for each method the entities, in the order *)
(* of the code.  An entity has a key for its data and a liveliness token,  *)
(* each with a type hash of its own (src/zenoh_backend/type_hash.rs).      *)
(***************************************************************************)
EXTENDS Naturals, Sequences

CONSTANT KnownTypes     \* the types of which type_hash.rs has the hash

Wildcard == <<"*">>
Placeholder == <<"RIHS01_0">>
\* The REP-2016 hash of a type, taken as injective.
RealHash(type) == <<"RIHS01", type>>

SenderHash(type) == IF type \in KnownTypes THEN RealHash(type) ELSE Placeholder

-----------------------------------------------------------------------------
(* One entity.  A topic or service is a name and a type.                   *)

Entity(kind, topic, dataHash, tokenHash) ==
  [kind |-> kind, name |-> topic.name, type |-> topic.type, data |-> dataHash, token |-> tokenHash]

Publisher(topic, hash) == Entity("Publisher", topic, hash, hash)
\* The data key takes every hash, the token describes the subscription.
Subscription(topic) == Entity("Subscription", topic, Wildcard, SenderHash(topic.type))
Client(service) == Entity("ServiceClient", service, SenderHash(service.type), SenderHash(service.type))
ServerWithHash(service, hash) == Entity("ServiceServer", service, hash, hash)
Server(service) == ServerWithHash(service, SenderHash(service.type))
NodeEntity == [kind |-> "Node"]

-----------------------------------------------------------------------------
(* The names and types of the parts of an action, of the parameter         *)
(* services of a node, and of the global topics.                           *)

ActionPart(action, sub, type) == [name |-> <<action.name, "_action", sub>>, type |-> type]
SendGoal(action) == ActionPart(action, "send_goal", <<action.type, "_SendGoal">>)
GetResult(action) == ActionPart(action, "get_result", <<action.type, "_GetResult">>)
Feedback(action) == ActionPart(action, "feedback", <<action.type, "_FeedbackMessage">>)
\* These two have the same type for every action.
CancelGoal(action) == ActionPart(action, "cancel_goal", <<"action_msgs", "CancelGoal">>)
Status(action) == ActionPart(action, "status", <<"action_msgs", "GoalStatusArray">>)

ParamService(node, base) == [name |-> <<node, base>>, type |-> <<"rcl_interfaces", base>>]
ParameterEvents == [name |-> <<"parameter_events">>, type |-> <<"rcl_interfaces", "ParameterEvent">>]
Rosout == [name |-> <<"rosout">>, type |-> <<"rcl_interfaces", "Log">>]

-----------------------------------------------------------------------------
(* The methods that declare several entities.                              *)

ActionClientEntities(action) ==
  << Client(SendGoal(action)), Client(GetResult(action)), Subscription(Feedback(action)),
     Client(CancelGoal(action)), Subscription(Status(action)) >>

ActionServerEntities(action) ==
  << Server(SendGoal(action)), Server(GetResult(action)),
     Publisher(Feedback(action), SenderHash(Feedback(action).type)),
     Server(CancelGoal(action)), Publisher(Status(action), SenderHash(Status(action).type)) >>

\* The hashes are those of the caller, or SenderHash in create_raw_action_server.
RawActionServerEntities(action, hash) ==
  << ServerWithHash(SendGoal(action), hash[SendGoal(action).type]),
     ServerWithHash(GetResult(action), hash[GetResult(action).type]),
     Publisher(Feedback(action), hash[Feedback(action).type]),
     Server(CancelGoal(action)), Publisher(Status(action), SenderHash(Status(action).type)) >>

ParameterServerEntities(node) ==
  LET server(base) == Server(ParamService(node, base)) IN
  << server("get_parameters"), server("get_parameter_types"), server("set_parameters"),
     server("set_parameters_atomically"), server("list_parameters"),
     server("describe_parameters"),
     Publisher(ParameterEvents, SenderHash(ParameterEvents.type)) >>

ParameterClientEntities(node) ==
  LET client(base) == Client(ParamService(node, base)) IN
  << client("get_parameters"), client("get_parameter_types"), client("set_parameters"),
     client("list_parameters"), client("describe_parameters") >>

LoggerEntities == << Publisher(Rosout, SenderHash(Rosout.type)) >>
ReadRosoutEntities == << Subscription(Rosout) >>
=============================================================================

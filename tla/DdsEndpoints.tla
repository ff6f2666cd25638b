----------------------------- MODULE DdsEndpoints -----------------------------
(***************************************************************************)
(* What the create_* methods of the DDS Node make (src/node.rs,            *)
(* src/context.rs): for each method its readers and writers, in the order  *)
(* of the code, with the names of their topics and types (src/names.rs).   *)
(* A type name is <<package, prefix>> and the parts that are glued to one. *)
(***************************************************************************)
EXTENDS Names

DdsMsgType(type) == <<type.package, type.prefix>> \o type.parts \o <<"_">>
DdsRequestType(type) == <<type.package, type.prefix>> \o type.parts \o <<"_Request_">>
DdsResponseType(type) == <<type.package, type.prefix>> \o type.parts \o <<"_Response_">>

TypeName(package, prefix, parts) == [package |-> package, prefix |-> prefix, parts |-> parts]
MessageTypeName(package, name) == TypeName(package, "msg", <<name>>)
ServiceTypeName(package, name) == TypeName(package, "srv", <<name>>)
\* dds_action_topic and dds_action_service.
ActionPartType(action, part) == TypeName(action.package, "action", <<action.name, part>>)

-----------------------------------------------------------------------------
(* Topics, publishers, subscriptions.                                      *)

Topic(dds, type) == [name |-> dds, type |-> type]
CreateTopic(node, name, type) == Topic(ToDdsName(name, "rt", node, ""), DdsMsgType(type))
Writer(topic) == [role |-> "writer", topic |-> topic]
Reader(topic) == [role |-> "reader", topic |-> topic]

CreatePublisher(node, name, type) == << Writer(CreateTopic(node, name, type)) >>
CreateSubscription(node, name, type) == << Reader(CreateTopic(node, name, type)) >>
\* The raw ones make the same entities.
CreateRawPublisher(node, name, type) == CreatePublisher(node, name, type)
CreateRawSubscription(node, name, type) == CreateSubscription(node, name, type)

-----------------------------------------------------------------------------
(* Services: two topics each.                                              *)

RequestTopic(node, name, type) == Topic(ToDdsName(name, "rq", node, "Request"), DdsRequestType(type))
ReplyTopic(node, name, type) == Topic(ToDdsName(name, "rr", node, "Reply"), DdsResponseType(type))

CreateClient(node, name, type) ==
  << Writer(RequestTopic(node, name, type)), Reader(ReplyTopic(node, name, type)) >>
CreateServer(node, name, type) ==
  << Reader(RequestTopic(node, name, type)), Writer(ReplyTopic(node, name, type)) >>
CreateRawServer(node, name, type) == CreateServer(node, name, type)

\* The six servers of a Spinner with parameter services; << >> if the node's
\* own name is not a Name: the code panics there.
ParameterServices ==
  << <<"get_parameters", "GetParameters">>, <<"get_parameter_types", "GetParameterTypes">>,
     <<"set_parameters", "SetParameters">>,
     <<"set_parameters_atomically", "SetParametersAtomically">>,
     <<"list_parameters", "ListParameters">>, <<"describe_parameters", "DescribeParameters">> >>
ParameterServiceOf(fqn, i) == NameNew(fqn, <<ParameterServices[i][1]>>)[1]
ParameterServiceType(i) == ServiceTypeName("rcl_interfaces", ParameterServices[i][2])
InOrder(each) == each[1] \o each[2] \o each[3] \o each[4] \o each[5] \o each[6]
CreateParameterServers(node) ==
  LET fqn == FullyQualifiedName(node) IN
  IF NameParse(fqn) = << >> THEN << >>
  ELSE InOrder([i \in DOMAIN ParameterServices |->
         CreateServer(node, ParameterServiceOf(fqn, i), ParameterServiceType(i))])

-----------------------------------------------------------------------------
(* Actions: three services and two topics.                                 *)

ActionName(name, part) == Push(Push(name, "_action"), part)
CancelType == ServiceTypeName("action_msgs", "CancelGoal")
StatusType == MessageTypeName("action_msgs", "GoalStatusArray")

CreateActionClient(node, name, type) ==
  CreateClient(node, ActionName(name, "send_goal"), ActionPartType(type, "_SendGoal"))
  \o CreateClient(node, ActionName(name, "cancel_goal"), CancelType)
  \o CreateClient(node, ActionName(name, "get_result"), ActionPartType(type, "_GetResult"))
  \o CreateSubscription(node, ActionName(name, "feedback"), ActionPartType(type, "_FeedbackMessage"))
  \o CreateSubscription(node, ActionName(name, "status"), StatusType)

CreateActionServer_Bug(node, name, type) ==
  CreateServer(node, ActionName(name, "send_goal"), ActionPartType(type, "_SendGoal"))
  \o CreateServer(node, ActionName(name, "cancel_goal"), ActionPartType(type, "_CancelGoal"))
  \o CreateServer(node, ActionName(name, "get_result"), ActionPartType(type, "_GetResult"))
  \o CreatePublisher(node, ActionName(name, "feedback"), ActionPartType(type, "_FeedbackMessage"))
  \o CreatePublisher(node, ActionName(name, "status"), StatusType)
CreateActionServer(node, name, type) ==
  CreateServer(node, ActionName(name, "send_goal"), ActionPartType(type, "_SendGoal"))
  \o CreateServer(node, ActionName(name, "cancel_goal"), CancelType)
  \o CreateServer(node, ActionName(name, "get_result"), ActionPartType(type, "_GetResult"))
  \o CreatePublisher(node, ActionName(name, "feedback"), ActionPartType(type, "_FeedbackMessage"))
  \o CreatePublisher(node, ActionName(name, "status"), StatusType)

CreateRawActionServer(node, name, type) ==
  CreateRawServer(node, ActionName(name, "send_goal"), ActionPartType(type, "_SendGoal"))
  \o CreateServer(node, ActionName(name, "cancel_goal"), CancelType)
  \o CreateRawServer(node, ActionName(name, "get_result"), ActionPartType(type, "_GetResult"))
  \o CreateRawPublisher(node, ActionName(name, "feedback"), ActionPartType(type, "_FeedbackMessage"))
  \o CreatePublisher(node, ActionName(name, "status"), StatusType)

-----------------------------------------------------------------------------

\* The two sides match end to end: a reader for every writer and a writer for
\* every reader, on a topic of the same name and type, and no topic twice.
Opposite(e) == [e EXCEPT !.role = IF @ = "reader" THEN "writer" ELSE "reader"]
Match(client, server) ==
  /\ {Opposite(client[i]) : i \in DOMAIN client} = Range(server)
  /\ Len(client) = Len(server)
  /\ \A i, j \in DOMAIN client : client[i].topic.name = client[j].topic.name => i = j

\* Does the DDS name of a relative name have an empty token?
Doubled(name, node) == ~name.absolute /\ node.namespace = Root

\* An action client and an action server, typed or raw, match when their names
\* mean the same, in whatever nodes they are; the parameter servers of a node
\* match service clients of another that take the absolute names.  A relative
\* name in the root namespace matches only its like.
EndpointsMatch(a, nameA, b, nameB) ==
  LET type == [package |-> "pkg", name |-> "Move"]
      client == CreateActionClient(a, nameA, type)
      same == ResolveFqn(nameA, a) = ResolveFqn(nameB, b)
      alike == Doubled(nameA, a) = Doubled(nameB, b) IN
  /\ (same /\ alike) <=> Match(client, CreateActionServer(b, nameB, type))
  /\ CreateActionServer(b, nameB, type) = CreateRawActionServer(b, nameB, type)
  /\ Match(CreateRawSubscription(a, nameA, StatusType), CreatePublisher(b, nameB, StatusType))
       <=> (same /\ alike)
  /\ Match(InOrder([i \in DOMAIN ParameterServices |->
             CreateClient(a, ParameterServiceOf(FullyQualifiedName(b), i), ParameterServiceType(i))]),
           CreateParameterServers(b))
=============================================================================

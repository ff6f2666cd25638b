----------------------------- MODULE Conversions -----------------------------
(***************************************************************************)
(* The pure algorithms of the crate, put together: times, names and keys,  *)
(* QoS profiles, message framing and type hashes.  A behaviour hands one   *)
(* input to one of them; the invariants say what each must give.           *)
(***************************************************************************)
EXTENDS Times, KeyExprs, DdsEndpoints, QosCodec, ParameterReads, TypeHashes, ZenohEntities

CONSTANTS Nanos,        \* times and durations, in and out of the wire's range
          StampTicks,   \* DDS time stamps
          Tokens,       \* tokens of names, well formed or not
          MaxTokens,    \* slash-separated parts of a text at most
          Depths, Lengths,      \* history depths and durations of a profile
          Octets        \* bytes

\* Sums of two times stay within an i64.
ASSUME ConversionsAssumption ==
  /\ Nanos \subseteq Int /\ \A a, b \in Nanos : Abs(a) + Abs(b) <= LongMax
  /\ StampTicks \subseteq Nat /\ Depths \subseteq 0 .. UlongMax /\ Lengths \subseteq Durations
  /\ Octets \subseteq Nat

VARIABLE input

ParameterNames == {<<"a">>, <<"a", "b">>, <<"b">>}
Texts(n) == UNION {[1 .. k -> Tokens] : k \in 1 .. n}
Nodes == {NodeNameNew(p[1], <<p[2]>>)[1] : p \in
            {q \in Texts(3) \X Tokens : NodeNameNew(q[1], <<q[2]>>) # << >>}}
ValidNames == {NameParse(t)[1] : t \in {u \in Texts(3) : NameParse(u) # << >>}}

ConversionsInit == input = [kind |-> "none"]
Ask(question) == input' = question

AskTimes == \E a, b \in Nanos : Ask([kind |-> "times", a |-> a, b |-> b])
AskStamp == \E t \in StampTicks : Ask([kind |-> "stamp", ticks |-> t])

AskText == \E t \in Texts(MaxTokens) : Ask([kind |-> "text", text |-> t])
AskResolve == \E name \in ValidNames, node \in Nodes :
  Ask([kind |-> "resolve", name |-> name, node |-> node])
AskKey == \E node \in Nodes, n, e \in Numbers, k \in DOMAIN Code, fqn \in ValidNames :
  /\ fqn.absolute
  /\ NameParse(FullyQualifiedName(node)) # << >>
  /\ Ask([kind |-> "key", entity |-> k, fqn |-> Display(fqn),
          ids |-> [zid |-> "z", node |-> n, entity |-> e, enclave |-> Empty,
                   namespace |-> node.namespace, name |-> node.base]])
AskEndpoints == \E a, b \in Nodes, m, n \in {v \in ValidNames : Len(v.preceeding) <= 1} :
  /\ NameParse(FullyQualifiedName(a)) # << >> /\ NameParse(FullyQualifiedName(b)) # << >>
  /\ Ask([kind |-> "endpoints", a |-> a, b |-> b, m |-> m, n |-> n])
AskEntities == \E type \in {"Move", "Stay"} :
  Ask([kind |-> "entities", action |-> [name |-> "act", type |-> type], node |-> "node"])

AskQos == \E q \in Profiles(Depths, Lengths) : Ask([kind |-> "qos", qos |-> q])
AskToken ==
  LET field == {<< >>, <<1>>, <<2>>, <<3>>} IN
  \E rel, dur, hist, liv \in field, depth \in {<< >>, <<1>>, <<UlongMax + 1>>},
     s \in {<< >>, <<1>>, <<UlongMax>>, <<UlongMax + 1>>},
     n \in {<< >>, <<1>>, <<Giga>>, <<NanoMax + 1>>} :
    Ask([kind |-> "token",
         fields |-> [rel |-> rel, dur |-> dur, hist |-> hist, depth |-> depth, liv |-> liv,
                     deadline |-> <<s, n>>, lifespan |-> << << >>, << >> >>, lease |-> <<depth, n>>]])
AskValue == \E a, b \in Octets : Ask([kind |-> "value", value |-> <<a, b>>])
AskOctets == \E k \in 0 .. 6 : \E m \in [1 .. k -> Octets] : Ask([kind |-> "octets", message |-> m])
AskGid == \E g \in [1 .. GuidLength -> Octets] : Ask([kind |-> "gid", guid |-> g])
AskParameter == \E k \in Kinds, c \in {1, 2} :
  Ask([kind |-> "parameter", value |-> [kind |-> k, content |-> IF k = "NotSet" THEN 0 ELSE c]])

AskReads ==
  \E declared \in SUBSET ParameterNames :
  \E table \in [declared -> {NotSet, [kind |-> "Integer", content |-> 1]}] :
  \E names, prefixes \in {<< >>} \cup (ParameterNames \X ParameterNames) :
    Ask([kind |-> "reads", table |-> table, names |-> names, prefixes |-> prefixes])

\* Message descriptions with at most one field, and services over them.
Individuals(name) ==
  {Individual(name, fields) : fields \in
     {<< >>, <<Field("x", Scalar(2), "")>>, <<Field("x", Scalar(2), "1")>>,
      <<Field("x", Array(2, 1), "")>>, <<Field("x", NestedBoundedSequence(2, 1), "")>>}}
Services ==
  LET service == [name |-> 9, request |-> 3, response |-> 4, event |-> 5] IN
  {ServiceDescription(service, req, Individual(4, << >>), ev, refs) :
     req \in Individuals(3), ev \in Individuals(5),
     refs \in {<< >>} \cup {<<r>> : r \in Individuals(2)}}
Reordered(d) == {Description(d.top, Reverse(d.refs)), Description(d.top, Tail(d.refs) \o <<Head(d.refs)>>), d}
AskHash == \E a, c \in Services : \E b \in Reordered(c) : Ask([kind |-> "hash", a |-> a, b |-> b])

ConversionsNext ==
  /\ input.kind = "none"
  /\ \/ AskTimes \/ AskStamp \/ AskText \/ AskResolve \/ AskKey \/ AskEndpoints \/ AskEntities
     \/ AskQos \/ AskToken \/ AskValue \/ AskOctets \/ AskGid \/ AskParameter
     \/ AskReads \/ AskHash

ConversionsSpec == ConversionsInit /\ [][ConversionsNext]_input

-----------------------------------------------------------------------------

\* A time or duration the wire can hold is the same after it was sent (but for a negative
\* duration with a fraction), a DDS time stamp becomes the nanosecond it falls in, and
\* differences of times are ordered, added and subtracted as integers; a steady time and a
\* difference are added and subtracted with each other's sign, as the code has it
\* (builtin_interfaces.rs, ros_time.rs, steady_time.rs).
TimesAgree ==
  /\ input.kind = "times" => /\ TimeRoundTrips(input.a, input.b)
                             /\ DurationRoundTrips(input.a)
                             /\ DiffsAgree(input.a, input.b)
  /\ input.kind = "stamp" => StampIsFloor(input.ticks)

\* Two entities meet: the same name and type, opposite roles, and data keys of
\* which one takes the other's hash.
Meet(c, s) ==
  /\ c.name = s.name /\ c.type = s.type
  /\ <<c.kind, s.kind>> \in {<<"ServiceClient", "ServiceServer">>, <<"Subscription", "Publisher">>}
  /\ c.data = s.data \/ c.data = Wildcard
AllMeet(clients, servers) ==
  \A i \in DOMAIN clients : \E j \in DOMAIN servers : Meet(clients[i], servers[j])

\* The parser of names takes what the rules allow and nothing else; a name
\* means the same to both backends; a key tells what it was built from; and
\* what an action or parameter client declares meets what the server declares
\* (names.rs, keyexpr.rs, zenoh_backend/node.rs).
NamesAgree ==
  /\ input.kind = "text" => ParseIsExact(input.text)
  /\ input.kind = "resolve" => ResolvesAlike(input.name, input.node)
  /\ input.kind = "key" =>
       \A d \in Numbers : KeyRoundTrips(d, input.ids, input.entity, input.fqn)
  /\ input.kind = "endpoints" => EndpointsMatch(input.a, input.m, input.b, input.n)
  /\ input.kind = "entities" =>
       LET clients == ActionClientEntities(input.action) IN
       /\ AllMeet(clients, ActionServerEntities(input.action))
       /\ AllMeet(clients, RawActionServerEntities(input.action,
                             [t \in {clients[i].type : i \in DOMAIN clients} |-> SenderHash(t)]))
       /\ AllMeet(ParameterClientEntities(input.node), ParameterServerEntities(input.node))
       /\ AllMeet(ReadRosoutEntities, LoggerEntities)

\* What is encoded is decoded as it was: QoS profiles in tokens and in DDS
\* policies, framed messages between typed and raw endpoints, gids, parameter
\* values; and the hash of a type depends on the type alone (qos_encoding.rs,
\* qos.rs, cdr.rs, pubsub.rs, raw_server.rs, gid.rs, parameters.rs,
\* type_description.rs).
EncodingsAgree ==
  /\ input.kind = "qos" => QosRoundTrips(input.qos) /\ QosOverDds(input.qos)
  /\ input.kind = "token" => ForeignToken(input.fields)
  /\ input.kind = "value" => ValueArrives(input.value)
  /\ input.kind = "octets" => OctetsRead(input.message)
  /\ input.kind = "gid" => GidKeepsGuid(input.guid)
  /\ input.kind = "parameter" => ParameterArrives(input.value)
  /\ input.kind = "reads" => ReadsAgree(input.table, input.names, input.prefixes)
  /\ input.kind = "hash" => HashesAgree(input.a, input.b)
=============================================================================

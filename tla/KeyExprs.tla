------------------------------- MODULE KeyExprs -------------------------------
(***************************************************************************)
(* Zenoh key expressions (src/zenoh_backend/keyexpr.rs).  A key is the     *)
(* sequence of its slash-separated chunks.  A chunk is the sequence of its *)
(* %-separated tokens, so mangling a name makes one chunk of its tokens.   *)
(* No ROS name holds a %: NodeName and Name refuse it.                     *)
(***************************************************************************)
EXTENDS Names

CONSTANTS Numbers,      \* the domain, node and entity ids of the instance
          Decimal       \* the digits that spell each of them

ASSUME KeyExprsAssumption ==
  /\ Decimal \in [Numbers -> STRING \ {""}]
  /\ \A m, n \in Numbers : Decimal[m] = Decimal[n] => m = n

AdminSpace == <<"@ros2_lv">>
Code == [Node |-> "NN", Publisher |-> "MP", Subscription |-> "MS",
         ServiceServer |-> "SS", ServiceClient |-> "SC"]

Mangle(name) == IF name = Empty THEN Root ELSE name
Demangle(chunk) == chunk
Digits(n) == <<Decimal[n]>>
\* The number a chunk parses to, if any.
Parsed(chunk) == SetToSeq({n \in Numbers : Digits(n) = chunk})

\* All leading and trailing slashes are stripped.
StripSlashes(name) ==
  LET kept == {i \in DOMAIN name : name[i] # ""} IN
  IF kept = {} THEN Empty ELSE SubSeq(name, Min(kept), Max(kept))

TopicKey(domain, fqn, type, hash) ==
  LET name == StripSlashes(fqn) IN
  <<Digits(domain)>> \o [i \in DOMAIN name |-> <<name[i]>>] \o << <<type>>, <<hash>> >>

-----------------------------------------------------------------------------
(* Liveliness keys.  ids are the fields common to every token.             *)

NodeKey(domain, ids) ==
  << AdminSpace, Digits(domain), <<ids.zid>>, Digits(ids.node), Digits(ids.node), <<"NN">>,
     Mangle(ids.enclave), Mangle(ids.namespace), Mangle(<<ids.name>>) >>

EntityKey(domain, ids, kind, fqn, type, hash, qos) ==
  << AdminSpace, Digits(domain), <<ids.zid>>, Digits(ids.node), Digits(ids.entity), <<Code[kind]>>,
     Mangle(ids.enclave), Mangle(ids.namespace), Mangle(<<ids.name>>),
     Mangle(fqn), <<type>>, <<hash>>, <<qos>> >>

ParseKind(chunk) == SetToSeq({kind \in DOMAIN Code : <<Code[kind]>> = chunk})

ParseKey(key) ==
  IF Len(key) < 9 \/ key[1] # AdminSpace THEN << >>
  ELSE
    LET domain == Parsed(key[2])
        node == Parsed(key[4])
        entity == Parsed(key[5])
        kind == ParseKind(key[6])
        parsed(topic) ==
          << [domain |-> domain[1], zid |-> key[3], node |-> node[1], entity |-> entity[1],
              kind |-> kind[1], namespace |-> Demangle(key[8]), name |-> Demangle(key[9]),
              topic |-> topic] >> IN
    IF domain = << >> \/ node = << >> \/ entity = << >> \/ kind = << >> THEN << >>
    ELSE IF kind = <<"Node">> THEN parsed(<< >>)
    ELSE IF Len(key) < 13 THEN << >>
    ELSE parsed(<< Demangle(key[10]), key[11], key[12], key[13] >>)

-----------------------------------------------------------------------------
(* What must hold of the keys of an entity.                                *)

\* A liveliness key is read back as the entity it was built from; no key
\* holds an empty chunk, which zenoh refuses; a key cut short is refused.
KeyRoundTrips(domain, ids, kind, fqn) ==
  LET key == IF kind = "Node" THEN NodeKey(domain, ids)
             ELSE EntityKey(domain, ids, kind, fqn, "T", "H", "Q")
      data == TopicKey(domain, fqn, "T", "H")
      read == ParseKey(key) IN
  /\ read = << [domain |-> domain, zid |-> <<ids.zid>>, node |-> ids.node,
                entity |-> IF kind = "Node" THEN ids.node ELSE ids.entity,
                kind |-> kind, namespace |-> ids.namespace, name |-> <<ids.name>>,
                topic |-> IF kind = "Node" THEN << >>
                          ELSE << fqn, <<"T">>, <<"H">>, <<"Q">> >>] >>
  /\ \A i \in DOMAIN data : data[i] # Empty
  /\ \A i \in DOMAIN key : key[i] # Empty
  /\ ParseKey(Front(key)) = << >>
=============================================================================

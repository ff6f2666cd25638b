--------------------------- MODULE NodeGraph_proofs ---------------------------
(***************************************************************************)
(* Proofs about NodeGraph, for any number of Contexts and nodes, any names *)
(* they share, any depth of the readers, failing writes or not.            *)
(***************************************************************************)
EXTENDS NodeGraph, TLAPS

-----------------------------------------------------------------------------
(* The inductive invariant.                                                *)

\* A node that is live has endpoints, and its updates are suppressed only where
\* spinner() has failed.
NodesOK ==
  \A n \in Nodes :
    /\ node[n] = "live" => endpoints[n] >= 1
    /\ suppressed[n] => spinner[n] = "failed"

\* What was written last is what the Context has, unless the write failed.
WrittenOK ==
  \A c \in Contexts : ~failed[c] /\ written[c] # Nothing => written[c] = localNodes[c]

\* The last sample in a reader is the last one written, or it has been taken.
UnreadOK ==
  \A n \in Nodes, c \in Contexts :
    spinner[n] = "spinning" /\ written[c] # Nothing =>
      IF unread[n][c] = << >> THEN external[n][c] = written[c]
                              ELSE unread[n][c][Len(unread[n][c])] = written[c]

IndInv == TypeOK /\ NodesOK /\ WrittenOK /\ UnreadOK /\ NoGhosts /\ EndpointsAnnounced

USE DEF contextVars, nodeVars, spinVars

-----------------------------------------------------------------------------
(* Facts about the operators.                                              *)

\* A reader keeps what it was given last.
LEMMA KeptLast ==
  ASSUME NEW s \in Seq(Infos), NEW info \in Infos
  PROVE  LET k == Kept(Append(s, info)) IN
         k \in Seq(Infos) /\ k # << >> /\ k[Len(k)] = info
<1> DEFINE a == Append(s, info)
<1>1. a \in Seq(Infos) /\ Len(a) = Len(s) + 1 /\ a[Len(a)] = info /\ Len(s) \in Nat
  OBVIOUS
<1>2. CASE Len(a) > Depth
  <2>1. Kept(a) = Tail(a)
    BY <1>2 DEF Kept
  <2>2. Len(s) >= 1
    BY <1>1, <1>2, ConstantsAssumption
  <2> HIDE DEF a
  <2>3. Tail(a) \in Seq(Infos) /\ Len(Tail(a)) = Len(a) - 1
        /\ \A i \in 1 .. Len(a) - 1 : Tail(a)[i] = a[i + 1]
    BY <1>1, <2>2
  <2>4. Len(a) - 1 \in 1 .. Len(a) - 1 /\ (Len(a) - 1) + 1 = Len(a)
    BY <1>1, <2>2
  <2>5. Tail(a)[Len(Tail(a))] = info /\ Tail(a) # << >>
    BY <1>1, <2>3, <2>4
  <2> QED
    BY <2>1, <2>3, <2>5 DEF a
<1>3. CASE ~(Len(a) > Depth)
  BY <1>1, <1>3 DEF Kept
<1> QED
  BY <1>2, <1>3

\* A broadcast of info by c keeps the types, and what is written and unread in step
\* with it.
LEMMA BroadcastOK ==
  ASSUME IndInv, NEW c \in Contexts, NEW info \in Infos, Broadcast(c, info),
         external' = external, \A n \in Nodes : spinner'[n] = "spinning" => spinner[n] = "spinning"
  PROVE  /\ localNodes' \in [Contexts -> Infos]
         /\ localNodes'[c] = info
         /\ \A d \in Contexts \ {c} : localNodes'[d] = localNodes[d]
         /\ written' \in [Contexts -> Infos \cup {Nothing}]
         /\ failed' \in [Contexts -> BOOLEAN]
         /\ unread' \in [Nodes -> [Contexts -> Seq(Infos)]]
         /\ WrittenOK' /\ UnreadOK'
<1>1. localNodes' = [localNodes EXCEPT ![c] = info] /\ localNodes \in [Contexts -> Infos]
  BY DEF Broadcast, IndInv, TypeOK
<1>2. localNodes' \in [Contexts -> Infos] /\ localNodes'[c] = info
      /\ \A d \in Contexts \ {c} : localNodes'[d] = localNodes[d]
  BY <1>1
<1>3. CASE failed' = [failed EXCEPT ![c] = TRUE] /\ UNCHANGED <<written, unread>>
  <2>1. failed' \in [Contexts -> BOOLEAN] /\ failed'[c] /\ \A d \in Contexts \ {c} : failed'[d] = failed[d]
    BY <1>3 DEF IndInv, TypeOK
  <2>2. WrittenOK'
    BY <1>2, <1>3, <2>1 DEF IndInv, WrittenOK
  <2>3. UnreadOK'
    BY <1>3 DEF IndInv, UnreadOK
  <2> QED
    BY <1>2, <1>3, <2>1, <2>2, <2>3 DEF IndInv, TypeOK
<1>4. CASE /\ written' = [written EXCEPT ![c] = info]
           /\ failed' = [failed EXCEPT ![c] = FALSE]
           /\ unread' = [n \in Nodes |->
                IF spinner[n] = "spinning"
                THEN [unread[n] EXCEPT ![c] = Kept(Append(@, info))] ELSE unread[n]]
  <2>1. written' \in [Contexts -> Infos \cup {Nothing}] /\ failed' \in [Contexts -> BOOLEAN]
        /\ written'[c] = info
        /\ \A d \in Contexts \ {c} : written'[d] = written[d] /\ failed'[d] = failed[d]
    BY <1>4 DEF IndInv, TypeOK
  <2>2. WrittenOK'
    BY <1>2, <2>1 DEF IndInv, WrittenOK
  <2>3. ASSUME NEW n \in Nodes, NEW d \in Contexts
        PROVE  /\ unread'[n][d] \in Seq(Infos)
               /\ d # c \/ spinner[n] # "spinning" => unread'[n][d] = unread[n][d]
               /\ d = c /\ spinner[n] = "spinning" =>
                    unread'[n][d] # << >> /\ unread'[n][d][Len(unread'[n][d])] = info
    <3>1. unread[n] \in [Contexts -> Seq(Infos)]
      BY DEF IndInv, TypeOK
    <3>2. CASE spinner[n] = "spinning" /\ d = c
      <4>1. unread'[n][d] = Kept(Append(unread[n][c], info)) /\ unread[n][c] \in Seq(Infos)
        BY <1>4, <3>1, <3>2
      <4> QED
        BY <3>2, <4>1, KeptLast
    <3>3. CASE ~(spinner[n] = "spinning" /\ d = c)
      BY <1>4, <3>1, <3>3
    <3> QED
      BY <3>2, <3>3
  <2>4. unread' \in [Nodes -> [Contexts -> Seq(Infos)]]
    <3>1. \A n \in Nodes : unread'[n] \in [Contexts -> Seq(Infos)]
      <4> SUFFICES ASSUME NEW n \in Nodes PROVE unread'[n] \in [Contexts -> Seq(Infos)]
        OBVIOUS
      <4>1. unread'[n] = [d \in Contexts |-> unread'[n][d]]
        BY <1>4 DEF IndInv, TypeOK
      <4>2. \A d \in Contexts : unread'[n][d] \in Seq(Infos)
        BY <2>3
      <4> QED
        BY <4>1, <4>2
    <3> QED
      BY <1>4, <3>1
  <2>5. UnreadOK'
    <3> SUFFICES ASSUME NEW n \in Nodes, NEW d \in Contexts, spinner'[n] = "spinning", written'[d] # Nothing
                 PROVE  IF unread'[n][d] = << >> THEN external[n][d] = written'[d]
                                                 ELSE unread'[n][d][Len(unread'[n][d])] = written'[d]
      BY DEF UnreadOK
    <3>1. CASE d = c
      BY <2>1, <2>3, <3>1
    <3>2. CASE d # c
      BY <2>1, <2>3, <3>2 DEF IndInv, UnreadOK
    <3> QED
      BY <3>1, <3>2
  <2> QED
    BY <1>2, <2>1, <2>2, <2>4, <2>5
<1> QED
  BY <1>3, <1>4 DEF Broadcast

\* The types and the samples that a broadcast keeps in order.
GraphOK ==
  /\ localNodes \in [Contexts -> Infos]
  /\ written \in [Contexts -> Infos \cup {Nothing}]
  /\ failed \in [Contexts -> BOOLEAN]
  /\ unread \in [Nodes -> [Contexts -> Seq(Infos)]]
  /\ WrittenOK /\ UnreadOK

\* Every entry but that of n's name is as it was.
OthersKept(n) ==
  \A d \in Contexts, y \in Names :
    d # ContextOf[n] \/ y # NameOf[n] => localNodes'[d][y] = localNodes[d][y]

\* update_node changes the entry of one name.
LEMMA UpdateNodeOK ==
  ASSUME IndInv, NEW n \in Nodes, NEW k \in 1 .. MaxEndpoints, UpdateNode(n, k),
         external' = external, \A m \in Nodes : spinner'[m] = "spinning" => spinner[m] = "spinning"
  PROVE  /\ GraphOK' /\ OthersKept(n)
         /\ localNodes'[ContextOf[n]][NameOf[n]] = [node |-> n, upto |-> k]
<1> DEFINE c == ContextOf[n]  info == [localNodes[c] EXCEPT ![NameOf[n]] = [node |-> n, upto |-> k]]
<1>1. c \in Contexts /\ NameOf[n] \in Names /\ localNodes[c] \in Infos
  BY ConstantsAssumption DEF IndInv, TypeOK
<1>2. [node |-> n, upto |-> k] \in Entries
  BY DEF Entries
<1>3. info \in Infos /\ info[NameOf[n]] = [node |-> n, upto |-> k]
      /\ \A y \in Names : y # NameOf[n] => info[y] = localNodes[c][y]
  BY <1>1, <1>2 DEF Infos
<1>4. Broadcast(c, info)
  BY DEF UpdateNode
<1> HIDE DEF c, info
<1>5. GraphOK' /\ localNodes'[c] = info /\ \A d \in Contexts \ {c} : localNodes'[d] = localNodes[d]
  BY <1>1, <1>3, <1>4, BroadcastOK DEF GraphOK
<1> QED
  BY <1>3, <1>5 DEF OthersKept, c

\* remove_node too.
LEMMA RemoveNodeOK ==
  ASSUME IndInv, NEW n \in Nodes, RemoveNode(n),
         external' = external, \A m \in Nodes : spinner'[m] = "spinning" => spinner[m] = "spinning"
  PROVE  /\ GraphOK' /\ OthersKept(n)
         /\ localNodes'[ContextOf[n]][NameOf[n]] = NoEntry
<1> DEFINE c == ContextOf[n]  info == [localNodes[c] EXCEPT ![NameOf[n]] = NoEntry]
<1>1. c \in Contexts /\ NameOf[n] \in Names /\ localNodes[c] \in Infos
  BY ConstantsAssumption DEF IndInv, TypeOK
<1>2. info \in Infos /\ info[NameOf[n]] = NoEntry
      /\ \A y \in Names : y # NameOf[n] => info[y] = localNodes[c][y]
  BY <1>1 DEF Infos, Entries
<1>3. Broadcast(c, info)
  BY DEF RemoveNode
<1> HIDE DEF c, info
<1>4. GraphOK' /\ localNodes'[c] = info /\ \A d \in Contexts \ {c} : localNodes'[d] = localNodes[d]
  BY <1>1, <1>2, <1>3, BroadcastOK DEF GraphOK
<1> QED
  BY <1>2, <1>4 DEF OthersKept, c

\* After an update by n, which is live then, no entry is a ghost and every node that
\* has its name for itself is announced.
LEMMA AfterUpdate ==
  ASSUME IndInv, NEW n \in Nodes, OthersKept(n),
         localNodes'[ContextOf[n]][NameOf[n]] = [node |-> n, upto |-> endpoints'[n]],
         node'[n] = "live",
         \A m \in Nodes \ {n} : node'[m] = node[m] /\ endpoints'[m] = endpoints[m] /\ spinner'[m] = spinner[m]
  PROVE  NoGhosts' /\ EndpointsAnnounced'
<1>1. NoGhosts'
  <2> SUFFICES ASSUME NEW c \in Contexts, NEW x \in Names, localNodes'[c][x] # NoEntry
               PROVE  /\ node'[localNodes'[c][x].node] = "live"
                      /\ ContextOf[localNodes'[c][x].node] = c /\ NameOf[localNodes'[c][x].node] = x
    BY DEF NoGhosts
  <2>1. CASE c = ContextOf[n] /\ x = NameOf[n]
    BY <2>1
  <2>2. CASE ~(c = ContextOf[n] /\ x = NameOf[n])
    <3>1. localNodes'[c][x] = localNodes[c][x]
      BY <2>2 DEF OthersKept
    <3>2. localNodes[c][x] \in [node: Nodes, upto: 1 .. MaxEndpoints]
      BY <3>1 DEF IndInv, TypeOK, Infos, Entries
    <3>3. LET e == localNodes[c][x] IN node[e.node] = "live" /\ ContextOf[e.node] = c /\ NameOf[e.node] = x
      BY <3>1 DEF IndInv, NoGhosts
    <3> QED
      BY <2>2, <3>1, <3>2, <3>3
  <2> QED
    BY <2>1, <2>2
<1>2. EndpointsAnnounced'
  <2> SUFFICES ASSUME NEW m \in Nodes, node'[m] = "live", OnlyOneCalled(m)', spinner'[m] # "failed"
               PROVE  localNodes'[ContextOf[m]][NameOf[m]] = [node |-> m, upto |-> endpoints'[m]]
    BY DEF EndpointsAnnounced
  <2>1. CASE m = n
    BY <2>1
  <2>2. CASE m # n
    <3>1. ~(ContextOf[n] = ContextOf[m] /\ NameOf[n] = NameOf[m])
      BY <2>2 DEF OnlyOneCalled
    <3>2. localNodes'[ContextOf[m]][NameOf[m]] = localNodes[ContextOf[m]][NameOf[m]]
      BY <3>1, ConstantsAssumption DEF OthersKept
    <3>3. OnlyOneCalled(m)
      <4> SUFFICES ASSUME NEW l \in Nodes \ {m}, ContextOf[l] = ContextOf[m] /\ NameOf[l] = NameOf[m]
                   PROVE  node[l] = "new"
        BY DEF OnlyOneCalled
      <4>1. l # n /\ node'[l] = "new"
        BY <3>1 DEF OnlyOneCalled
      <4> QED
        BY <4>1
    <3> QED
      BY <2>2, <3>2, <3>3 DEF IndInv, EndpointsAnnounced
  <2> QED
    BY <2>1, <2>2
<1> QED
  BY <1>1, <1>2

\* After n has been removed, likewise.
LEMMA AfterRemove ==
  ASSUME IndInv, NEW n \in Nodes, OthersKept(n),
         localNodes'[ContextOf[n]][NameOf[n]] = NoEntry,
         node'[n] = "dropped", endpoints' = endpoints, spinner' = spinner,
         \A m \in Nodes \ {n} : node'[m] = node[m]
  PROVE  NoGhosts' /\ EndpointsAnnounced'
<1>1. NoGhosts'
  <2> SUFFICES ASSUME NEW c \in Contexts, NEW x \in Names, localNodes'[c][x] # NoEntry
               PROVE  /\ node'[localNodes'[c][x].node] = "live"
                      /\ ContextOf[localNodes'[c][x].node] = c /\ NameOf[localNodes'[c][x].node] = x
    BY DEF NoGhosts
  <2>1. ~(c = ContextOf[n] /\ x = NameOf[n])
    OBVIOUS
  <2>2. localNodes'[c][x] = localNodes[c][x]
    BY <2>1 DEF OthersKept
  <2>3. localNodes[c][x] \in [node: Nodes, upto: 1 .. MaxEndpoints]
    BY <2>2 DEF IndInv, TypeOK, Infos, Entries
  <2>4. LET e == localNodes[c][x] IN node[e.node] = "live" /\ ContextOf[e.node] = c /\ NameOf[e.node] = x
    BY <2>2 DEF IndInv, NoGhosts
  <2> QED
    BY <2>1, <2>2, <2>3, <2>4
<1>2. EndpointsAnnounced'
  <2> SUFFICES ASSUME NEW m \in Nodes, node'[m] = "live", OnlyOneCalled(m)', spinner'[m] # "failed"
               PROVE  localNodes'[ContextOf[m]][NameOf[m]] = [node |-> m, upto |-> endpoints'[m]]
    BY DEF EndpointsAnnounced
  <2>1. m # n /\ ~(ContextOf[n] = ContextOf[m] /\ NameOf[n] = NameOf[m])
    BY DEF OnlyOneCalled
  <2>2. localNodes'[ContextOf[m]][NameOf[m]] = localNodes[ContextOf[m]][NameOf[m]]
    BY <2>1, ConstantsAssumption DEF OthersKept
  <2>3. OnlyOneCalled(m)
    <3> SUFFICES ASSUME NEW l \in Nodes \ {m}, ContextOf[l] = ContextOf[m] /\ NameOf[l] = NameOf[m]
                 PROVE  node[l] = "new"
      BY DEF OnlyOneCalled
    <3>1. l # n /\ node'[l] = "new"
      BY <2>1 DEF OnlyOneCalled
    <3> QED
      BY <3>1
  <2> QED
    BY <2>1, <2>2, <2>3 DEF IndInv, EndpointsAnnounced
<1> QED
  BY <1>1, <1>2

-----------------------------------------------------------------------------
(* Every step preserves the invariant.                                     *)

\* Without any node the inductive invariant holds.
LEMMA InitIndInv == Init => IndInv
<1> SUFFICES ASSUME Init PROVE IndInv
  OBVIOUS
<1>1. Empty \in Infos
  BY DEF Empty, Infos, Entries
<1>2. TypeOK
  BY <1>1, ConstantsAssumption DEF Init, TypeOK
<1>3. NodesOK /\ WrittenOK /\ UnreadOK
  BY DEF Init, NodesOK, WrittenOK, UnreadOK
<1>4. NoGhosts /\ EndpointsAnnounced
  BY DEF Init, NoGhosts, EndpointsAnnounced, Empty
<1> QED
  BY <1>2, <1>3, <1>4 DEF IndInv

\* Creating a node preserves the inductive invariant.
LEMMA NewNodeIndInv ==
  ASSUME IndInv, NEW n \in Nodes, NewNode(n)
  PROVE  IndInv'
<1>1. GraphOK' /\ OthersKept(n)
      /\ localNodes'[ContextOf[n]][NameOf[n]] = [node |-> n, upto |-> 1]
  BY ConstantsAssumption, UpdateNodeOK DEF NewNode
<1>2. /\ node' \in [Nodes -> {"new", "live", "dropped"}] /\ endpoints' \in [Nodes -> 0 .. MaxEndpoints]
      /\ node'[n] = "live" /\ endpoints'[n] = 1
      /\ \A m \in Nodes \ {n} : node'[m] = node[m] /\ endpoints'[m] = endpoints[m]
      /\ UNCHANGED <<context, suppressed, spinVars>>
  BY ConstantsAssumption DEF NewNode, IndInv, TypeOK
<1>3. TypeOK'
  BY <1>1, <1>2 DEF IndInv, TypeOK, GraphOK
<1>4. NodesOK'
  <2>1. \A m \in Nodes : node'[m] = "live" => endpoints'[m] >= 1
    BY <1>2 DEF IndInv, NodesOK
  <2> QED
    BY <1>2, <2>1 DEF IndInv, NodesOK
<1>5. NoGhosts' /\ EndpointsAnnounced'
  BY <1>1, <1>2, AfterUpdate
<1> QED
  BY <1>1, <1>3, <1>4, <1>5 DEF IndInv, GraphOK

\* A node that cannot be created preserves the inductive invariant.
LEMMA NewNodeFailsIndInv ==
  ASSUME IndInv, NEW n \in Nodes, NewNodeFails(n)
  PROVE  IndInv'
<1>1. GraphOK' /\ OthersKept(n) /\ localNodes'[ContextOf[n]][NameOf[n]] = NoEntry
  BY RemoveNodeOK DEF NewNodeFails
<1>2. /\ node' \in [Nodes -> {"new", "live", "dropped"}] /\ node'[n] = "dropped"
      /\ \A m \in Nodes \ {n} : node'[m] = node[m]
      /\ UNCHANGED <<context, endpoints, suppressed, spinVars>>
  BY DEF NewNodeFails, IndInv, TypeOK
<1>3. TypeOK'
  BY <1>1, <1>2 DEF IndInv, TypeOK, GraphOK
<1>4. NodesOK'
  BY <1>2 DEF IndInv, NodesOK
<1>5. NoGhosts' /\ EndpointsAnnounced'
  BY <1>1, <1>2, AfterRemove
<1> QED
  BY <1>1, <1>3, <1>4, <1>5 DEF IndInv, GraphOK

\* A new endpoint preserves the inductive invariant.
LEMMA AddEndpointIndInv ==
  ASSUME IndInv, NEW n \in Nodes, AddEndpoint(n)
  PROVE  IndInv'
<1>1. /\ endpoints' \in [Nodes -> 0 .. MaxEndpoints] /\ endpoints'[n] \in 1 .. MaxEndpoints
      /\ \A m \in Nodes \ {n} : endpoints'[m] = endpoints[m]
      /\ node[n] = "live" /\ UNCHANGED <<context, node, suppressed, spinVars>>
  <2>1. endpoints \in [Nodes -> 0 .. MaxEndpoints] /\ MaxEndpoints \in Nat /\ endpoints[n] < MaxEndpoints
        /\ endpoints' = [endpoints EXCEPT ![n] = @ + 1]
    BY ConstantsAssumption DEF AddEndpoint, IndInv, TypeOK
  <2>2. endpoints[n] + 1 \in 1 .. MaxEndpoints /\ endpoints[n] + 1 \in 0 .. MaxEndpoints
    BY <2>1
  <2> QED
    BY <2>1, <2>2 DEF AddEndpoint
<1>2. NodesOK'
  <2>1. \A m \in Nodes : node[m] = "live" => endpoints'[m] >= 1
    BY <1>1, ConstantsAssumption DEF IndInv, NodesOK
  <2> QED
    BY <1>1, <2>1 DEF IndInv, NodesOK
<1>3. CASE suppressed[n]
  <2>1. UNCHANGED <<localNodes, written, failed, unread>>
    BY <1>3 DEF AddEndpoint
  <2>2. spinner[n] = "failed"
    BY <1>3 DEF IndInv, NodesOK
  <2>3. TypeOK' /\ WrittenOK' /\ UnreadOK' /\ NoGhosts'
    BY <1>1, <2>1 DEF IndInv, TypeOK, WrittenOK, UnreadOK, NoGhosts
  <2>4. EndpointsAnnounced'
    BY <1>1, <2>1, <2>2 DEF IndInv, EndpointsAnnounced, OnlyOneCalled
  <2> QED
    BY <1>2, <2>3, <2>4 DEF IndInv
<1>4. CASE ~suppressed[n]
  <2>1. UpdateNode(n, endpoints'[n])
    BY <1>4 DEF AddEndpoint
  <2>2. GraphOK' /\ OthersKept(n)
        /\ localNodes'[ContextOf[n]][NameOf[n]] = [node |-> n, upto |-> endpoints'[n]]
    BY <1>1, <2>1, UpdateNodeOK
  <2>3. TypeOK'
    BY <1>1, <2>2 DEF IndInv, TypeOK, GraphOK
  <2>4. NoGhosts' /\ EndpointsAnnounced'
    BY <1>1, <2>2, AfterUpdate
  <2> QED
    BY <1>2, <2>2, <2>3, <2>4 DEF IndInv, GraphOK
<1> QED
  BY <1>3, <1>4

\* spinner() preserves the inductive invariant.
LEMMA MakeSpinnerIndInv ==
  ASSUME IndInv, NEW n \in Nodes, MakeSpinner(n)
  PROVE  IndInv'
<1>1. PICK k \in {0, 1} : /\ endpoints[n] + k <= MaxEndpoints
                          /\ endpoints' = [endpoints EXCEPT ![n] = @ + k]
                          /\ UpdateNode(n, endpoints[n] + k)
  BY DEF MakeSpinner
<1>2. endpoints[n] \in 1 .. MaxEndpoints /\ MaxEndpoints \in Nat /\ endpoints \in [Nodes -> 0 .. MaxEndpoints]
  BY ConstantsAssumption DEF MakeSpinner, IndInv, TypeOK, NodesOK
<1>3. endpoints[n] + k \in 1 .. MaxEndpoints /\ endpoints[n] + k \in 0 .. MaxEndpoints
  BY <1>1, <1>2
<1>4. /\ endpoints' \in [Nodes -> 0 .. MaxEndpoints] /\ endpoints'[n] = endpoints[n] + k
      /\ \A m \in Nodes \ {n} : endpoints'[m] = endpoints[m]
  BY <1>1, <1>2, <1>3
<1>5. /\ spinner' \in [Nodes -> {"none", "failed", "made", "spinning", "over"}]
      /\ suppressed' \in [Nodes -> BOOLEAN] /\ spinner'[n] = "made" /\ suppressed'[n] = FALSE
      /\ \A m \in Nodes \ {n} : spinner'[m] = spinner[m] /\ suppressed'[m] = suppressed[m]
      /\ node[n] = "live" /\ UNCHANGED <<context, node, stop, external>>
  BY DEF MakeSpinner, IndInv, TypeOK
<1>6. \A m \in Nodes : spinner'[m] = "spinning" => spinner[m] = "spinning"
  BY <1>5
<1>7. GraphOK' /\ OthersKept(n)
      /\ localNodes'[ContextOf[n]][NameOf[n]] = [node |-> n, upto |-> endpoints[n] + k]
  BY <1>1, <1>3, <1>5, <1>6, UpdateNodeOK
<1>8. TypeOK'
  BY <1>4, <1>5, <1>7 DEF IndInv, TypeOK, GraphOK
<1>9. NodesOK'
  BY <1>3, <1>4, <1>5 DEF IndInv, NodesOK
<1>10. NoGhosts' /\ EndpointsAnnounced'
  BY <1>4, <1>5, <1>7, AfterUpdate
<1> QED
  BY <1>7, <1>8, <1>9, <1>10 DEF IndInv, GraphOK

\* A spinner() that fails preserves the inductive invariant.
LEMMA MakeSpinnerFailsIndInv ==
  ASSUME IndInv, NEW n \in Nodes, MakeSpinnerFails(n)
  PROVE  IndInv'
<1>1. PICK k \in {0, 1} : endpoints[n] + k <= MaxEndpoints /\ endpoints' = [endpoints EXCEPT ![n] = @ + k]
  BY DEF MakeSpinnerFails
<1>2. endpoints[n] \in 1 .. MaxEndpoints /\ MaxEndpoints \in Nat /\ endpoints \in [Nodes -> 0 .. MaxEndpoints]
  BY ConstantsAssumption DEF MakeSpinnerFails, IndInv, TypeOK, NodesOK
<1>3. endpoints[n] + k \in 1 .. MaxEndpoints /\ endpoints[n] + k \in 0 .. MaxEndpoints
  BY <1>1, <1>2
<1>4. /\ endpoints' \in [Nodes -> 0 .. MaxEndpoints] /\ endpoints'[n] = endpoints[n] + k
      /\ \A m \in Nodes \ {n} : endpoints'[m] = endpoints[m]
  BY <1>1, <1>2, <1>3
<1>5. /\ spinner' \in [Nodes -> {"none", "failed", "made", "spinning", "over"}]
      /\ suppressed' \in [Nodes -> BOOLEAN] /\ spinner'[n] = "failed"
      /\ \A m \in Nodes \ {n} : spinner'[m] = spinner[m] /\ suppressed'[m] = suppressed[m]
      /\ UNCHANGED <<contextVars, node, stop, unread, external>>
  BY DEF MakeSpinnerFails, IndInv, TypeOK
<1>6. TypeOK'
  BY <1>4, <1>5 DEF IndInv, TypeOK
<1>7. NodesOK'
  BY <1>3, <1>4, <1>5 DEF IndInv, NodesOK
<1>8. WrittenOK' /\ NoGhosts'
  BY <1>5 DEF IndInv, WrittenOK, NoGhosts
<1>9. UnreadOK'
  <2>1. \A m \in Nodes : spinner'[m] = "spinning" => spinner[m] = "spinning"
    BY <1>5
  <2> QED
    BY <1>5, <2>1 DEF IndInv, UnreadOK
<1>10. EndpointsAnnounced'
  BY <1>4, <1>5 DEF IndInv, EndpointsAnnounced, OnlyOneCalled
<1> QED
  BY <1>6, <1>7, <1>8, <1>9, <1>10 DEF IndInv

\* A stop signal preserves the inductive invariant.
LEMMA StopSpinnerIndInv ==
  ASSUME IndInv, NEW n \in Nodes, StopSpinner(n)
  PROVE  IndInv'
BY DEF IndInv, StopSpinner, TypeOK, NodesOK, WrittenOK, UnreadOK, NoGhosts, EndpointsAnnounced, OnlyOneCalled

\* Dropping a node preserves the inductive invariant.
LEMMA DropNodeIndInv ==
  ASSUME IndInv, NEW n \in Nodes, DropNode(n)
  PROVE  IndInv'
<1>1. GraphOK' /\ OthersKept(n) /\ localNodes'[ContextOf[n]][NameOf[n]] = NoEntry
  BY RemoveNodeOK DEF DropNode
<1>2. /\ node' \in [Nodes -> {"new", "live", "dropped"}] /\ node'[n] = "dropped"
      /\ stop' \in [Nodes -> BOOLEAN]
      /\ \A m \in Nodes \ {n} : node'[m] = node[m]
      /\ UNCHANGED <<context, endpoints, suppressed, spinner, external>>
  BY DEF DropNode, IndInv, TypeOK
<1>3. TypeOK'
  BY <1>1, <1>2 DEF IndInv, TypeOK, GraphOK
<1>4. NodesOK'
  BY <1>2 DEF IndInv, NodesOK
<1>5. NoGhosts' /\ EndpointsAnnounced'
  BY <1>1, <1>2, AfterRemove
<1> QED
  BY <1>1, <1>3, <1>4, <1>5 DEF IndInv, GraphOK

\* Dropping a Context preserves the inductive invariant: it has no live nodes.
LEMMA DropContextIndInv ==
  ASSUME IndInv, NEW c \in Contexts, DropContext(c)
  PROVE  IndInv'
<1>1. Empty \in Infos /\ \A x \in Names : Empty[x] = NoEntry
  BY DEF Empty, Infos, Entries
<1>2. context' \in [Contexts -> {"open", "dropped"}] /\ UNCHANGED <<nodeVars, spinVars>>
      /\ \A n \in Nodes : ContextOf[n] = c => node[n] # "live"
  BY DEF DropContext, IndInv, TypeOK
<1>3. GraphOK' /\ localNodes'[c] = Empty /\ \A d \in Contexts \ {c} : localNodes'[d] = localNodes[d]
  BY <1>1, <1>2, BroadcastOK DEF DropContext, GraphOK
<1>4. TypeOK'
  BY <1>2, <1>3 DEF IndInv, TypeOK, GraphOK
<1>5. NodesOK'
  BY <1>2 DEF IndInv, NodesOK
<1>6. NoGhosts'
  BY <1>1, <1>2, <1>3 DEF IndInv, NoGhosts
<1>7. EndpointsAnnounced'
  BY <1>2, <1>3, ConstantsAssumption DEF IndInv, EndpointsAnnounced, OnlyOneCalled
<1> QED
  BY <1>3, <1>4, <1>5, <1>6, <1>7 DEF IndInv, GraphOK

\* A Spinner that begins preserves the inductive invariant: it gets the last samples.
LEMMA SpinIndInv ==
  ASSUME IndInv, NEW n \in Nodes, Spin(n)
  PROVE  IndInv'
<1>1. \A c \in Contexts : History(c) \in Seq(Infos)
      /\ (written[c] # Nothing => History(c) # << >> /\ History(c)[Len(History(c))] = written[c])
  BY DEF History, IndInv, TypeOK
<1>2. /\ unread' \in [Nodes -> [Contexts -> Seq(Infos)]]
      /\ \A c \in Contexts : unread'[n][c] = History(c)
      /\ \A m \in Nodes \ {n} : unread'[m] = unread[m]
  BY <1>1 DEF Spin, IndInv, TypeOK
<1>3. /\ spinner' \in [Nodes -> {"none", "failed", "made", "spinning", "over"}]
      /\ spinner[n] = "made" /\ spinner'[n] = "spinning"
      /\ \A m \in Nodes \ {n} : spinner'[m] = spinner[m]
      /\ UNCHANGED <<contextVars, nodeVars, stop, external>>
  BY DEF Spin, IndInv, TypeOK
<1>4. TypeOK'
  BY <1>2, <1>3 DEF IndInv, TypeOK
<1>5. NodesOK' /\ WrittenOK' /\ NoGhosts'
  BY <1>3 DEF IndInv, NodesOK, WrittenOK, NoGhosts
<1>6. UnreadOK'
  <2> SUFFICES ASSUME NEW m \in Nodes, NEW c \in Contexts, spinner'[m] = "spinning", written[c] # Nothing
               PROVE  IF unread'[m][c] = << >> THEN external[m][c] = written[c]
                                               ELSE unread'[m][c][Len(unread'[m][c])] = written[c]
    BY <1>3 DEF UnreadOK
  <2>1. CASE m = n
    BY <1>1, <1>2, <2>1
  <2>2. CASE m # n
    BY <1>2, <1>3, <2>2 DEF IndInv, UnreadOK
  <2> QED
    BY <2>1, <2>2
<1>7. EndpointsAnnounced'
  BY <1>3 DEF IndInv, EndpointsAnnounced, OnlyOneCalled
<1> QED
  BY <1>4, <1>5, <1>6, <1>7 DEF IndInv

\* Taking a sample preserves the inductive invariant.
LEMMA ReceiveIndInv ==
  ASSUME IndInv, NEW n \in Nodes, NEW c \in Contexts, Receive(n, c)
  PROVE  IndInv'
<1> DEFINE q == unread[n][c]
<1>1. q \in Seq(Infos) /\ q # << >> /\ Head(q) \in Infos /\ Tail(q) \in Seq(Infos)
  BY DEF Receive, IndInv, TypeOK
<1>2. Tail(q) = << >> => q[Len(q)] = Head(q)
  BY <1>1
<1>3. Tail(q) # << >> => Tail(q)[Len(Tail(q))] = q[Len(q)]
  BY <1>1
<1>4. /\ external' = [external EXCEPT ![n][c] = Head(q)] /\ unread' = [unread EXCEPT ![n][c] = Tail(q)]
      /\ UNCHANGED <<contextVars, nodeVars, spinner, stop>> /\ spinner[n] = "spinning"
  BY DEF Receive, Received
<1> HIDE DEF q
<1>5. /\ external' \in [Nodes -> [Contexts -> Infos \cup {Nothing}]]
      /\ unread' \in [Nodes -> [Contexts -> Seq(Infos)]]
      /\ external'[n][c] = Head(q) /\ unread'[n][c] = Tail(q)
      /\ \A m \in Nodes, d \in Contexts :
           m # n \/ d # c => external'[m][d] = external[m][d] /\ unread'[m][d] = unread[m][d]
  BY <1>1, <1>4 DEF IndInv, TypeOK
<1>6. TypeOK'
  BY <1>4, <1>5 DEF IndInv, TypeOK
<1>7. NodesOK' /\ WrittenOK' /\ NoGhosts' /\ EndpointsAnnounced'
  BY <1>4 DEF IndInv, NodesOK, WrittenOK, NoGhosts, EndpointsAnnounced, OnlyOneCalled
<1>8. UnreadOK'
  <2> SUFFICES ASSUME NEW m \in Nodes, NEW d \in Contexts, spinner[m] = "spinning", written[d] # Nothing
               PROVE  IF unread'[m][d] = << >> THEN external'[m][d] = written[d]
                                               ELSE unread'[m][d][Len(unread'[m][d])] = written[d]
    BY <1>4 DEF UnreadOK
  <2>1. CASE m = n /\ d = c
    <3>1. q[Len(q)] = written[c]
      BY <1>1, <2>1 DEF IndInv, UnreadOK, q
    <3> QED
      BY <1>2, <1>3, <1>5, <2>1, <3>1
  <2>2. CASE ~(m = n /\ d = c)
    <3>1. external'[m][d] = external[m][d] /\ unread'[m][d] = unread[m][d]
      BY <1>5, <2>2
    <3>2. IF unread[m][d] = << >> THEN external[m][d] = written[d]
                                  ELSE unread[m][d][Len(unread[m][d])] = written[d]
      BY DEF IndInv, UnreadOK
    <3> QED
      BY <3>1, <3>2
  <2> QED
    BY <2>1, <2>2
<1> QED
  BY <1>6, <1>7, <1>8 DEF IndInv

\* The end of a Spinner preserves the inductive invariant.
LEMMA EndSpinIndInv ==
  ASSUME IndInv, NEW n \in Nodes, EndSpin(n)
  PROVE  IndInv'
<1>1. /\ spinner' \in [Nodes -> {"none", "failed", "made", "spinning", "over"}]
      /\ spinner'[n] = "over" /\ spinner[n] \in {"made", "spinning"}
      /\ \A m \in Nodes \ {n} : spinner'[m] = spinner[m] /\ unread'[m] = unread[m]
      /\ unread' \in [Nodes -> [Contexts -> Seq(Infos)]]
      /\ UNCHANGED <<contextVars, nodeVars, stop, external>>
  BY DEF EndSpin, IndInv, TypeOK
<1>2. TypeOK'
  BY <1>1 DEF IndInv, TypeOK
<1>3. WrittenOK' /\ NoGhosts'
  BY <1>1 DEF IndInv, WrittenOK, NoGhosts
<1>4. NodesOK'
  <2>1. ~suppressed[n]
    BY <1>1 DEF IndInv, NodesOK
  <2>2. \A m \in Nodes : suppressed[m] => spinner'[m] = "failed"
    BY <1>1, <2>1 DEF IndInv, NodesOK
  <2> QED
    BY <1>1, <2>2 DEF IndInv, NodesOK
<1>5. UnreadOK'
  <2> SUFFICES ASSUME NEW m \in Nodes, NEW c \in Contexts, spinner'[m] = "spinning", written'[c] # Nothing
               PROVE  IF unread'[m][c] = << >> THEN external'[m][c] = written'[c]
                      ELSE unread'[m][c][Len(unread'[m][c])] = written'[c]
    BY DEF UnreadOK
  <2>1. m # n /\ spinner[m] = "spinning" /\ unread'[m] = unread[m]
    BY <1>1
  <2>2. UNCHANGED <<written, external>>
    BY <1>1
  <2> QED BY <2>1, <2>2 DEF IndInv, UnreadOK
<1>6. EndpointsAnnounced'
  BY <1>1 DEF IndInv, EndpointsAnnounced, OnlyOneCalled
<1> QED
  BY <1>2, <1>3, <1>4, <1>5, <1>6 DEF IndInv

-----------------------------------------------------------------------------
(* The theorems.                                                           *)

\* The inductive invariant always holds.
THEOREM Invariance == Spec => []IndInv
<1>1. ASSUME IndInv, [Next]_vars PROVE IndInv'
  <2>1. CASE UNCHANGED vars
    BY <1>1, <2>1 DEF vars, IndInv, TypeOK, NodesOK, WrittenOK, UnreadOK, NoGhosts,
                      EndpointsAnnounced, OnlyOneCalled
  <2>2. CASE Next
    BY <1>1, <2>2, NewNodeIndInv, NewNodeFailsIndInv, AddEndpointIndInv, MakeSpinnerIndInv,
       MakeSpinnerFailsIndInv, StopSpinnerIndInv, DropNodeIndInv, DropContextIndInv,
       SpinIndInv, ReceiveIndInv, EndSpinIndInv
    DEF Next, NodeStep
  <2> QED
    BY <1>1, <2>1, <2>2
<1> QED
  BY InitIndInv, <1>1, PTL DEF Spec

\* However nodes are created, fail and are dropped, also under one name, no Context
\* announces one that is not there (Node::drop, ContextInner::remove_node).
THEOREM GhostFree == Spec => []NoGhosts
<1>1. IndInv => NoGhosts
  BY DEF IndInv
<1> QED
  BY Invariance, <1>1, PTL

\* A live node with a name of its own is announced with every endpoint, unless its
\* spinner() failed (Node::add_reader, Node::add_writer, Node::spinner).
THEOREM AnnouncedInFull == Spec => []EndpointsAnnounced
<1>1. IndInv => EndpointsAnnounced
  BY DEF IndInv
<1> QED
  BY Invariance, <1>1, PTL

\* For any depth of the readers, a Spinner that has read all there is knows the nodes
\* of every Context whose last write did not fail (Spinner::spin).
THEOREM SpinnersCatchUp == Spec => []CaughtUp
<1>1. IndInv => CaughtUp
  BY DEF IndInv, CaughtUp, UnreadOK, WrittenOK
<1> QED
  BY Invariance, <1>1, PTL

\* However nodes are created and dropped, the variables keep their types; in particular
\* what a Context announces and what a Spinner reads is one entry for each name at most
\* (ContextInner::update_node, Spinner::spin).
THEOREM TypeCorrectness == Spec => []TypeOK
<1>1. IndInv => TypeOK
  BY DEF IndInv
<1> QED
  BY Invariance, <1>1, PTL

=============================================================================

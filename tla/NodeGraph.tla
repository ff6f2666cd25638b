------------------------------- MODULE NodeGraph -------------------------------
(***************************************************************************)
(* The ROS graph of the DDS backend: what the nodes of a Context announce  *)
(* on ros_discovery_info (src/context.rs, src/node.rs) and what the        *)
(* Spinners of all nodes make of it.                                       *)
(*                                                                         *)
(* A Context keeps one entry per node name and writes all of them whenever *)
(* one changes, under its lock.  A Node belongs to one task at a time, so  *)
(* a method of it that changes the Context once is one step.  A node's     *)
(* endpoints are never removed from its sets, so they are a number; an     *)
(* entry says whose endpoints it lists and how many.                       *)
(***************************************************************************)
EXTENDS Integers, Sequences

CONSTANTS
  Contexts,     \* Contexts, each with its DomainParticipant
  Nodes,        \* Node objects that the applications create
  Names,        \* fully qualified names
  ContextOf,    \* the Context of a node
  NameOf,       \* its name
  NoEntry,      \* not a key of local_nodes
  Nothing,      \* nothing received, nothing written
  WritesFail,   \* may node_writer.publish fail?
  Spun,         \* nodes of which the application makes a Spinner
  Depth,        \* samples of one writer that a reader keeps: 1 in the code
  MaxEndpoints  \* bound: endpoints per node

ASSUME ConstantsAssumption ==
  /\ ContextOf \in [Nodes -> Contexts]
  /\ NameOf \in [Nodes -> Names]
  /\ WritesFail \in BOOLEAN
  /\ Spun \subseteq Nodes
  /\ Depth \in Nat \ {0}
  /\ MaxEndpoints \in Nat \ {0}
  /\ NoEntry \notin [node: Nodes, upto: 1 .. MaxEndpoints]
  /\ Nothing \notin [Names -> [node: Nodes, upto: 1 .. MaxEndpoints] \cup {NoEntry}]

VARIABLES
  context,      \* open or dropped
  localNodes,   \* ContextInner.local_nodes
  written,      \* the last sample of ros_discovery_info that each Context has written
  failed,       \* did the last write fail?
  node,         \* of a Node: new, live, dropped
  endpoints,    \* readers and writers created through it
  suppressed,   \* suppress_node_info_updates
  spinner,      \* its Spinner: none, failed, made, spinning, over
  stop,         \* a stop signal is in its channel
  unread,       \* samples in the Spinner's reader, for each Context that wrote them
  external      \* external_nodes

contextVars == <<context, localNodes, written, failed>>
nodeVars == <<node, endpoints, suppressed>>
spinVars == <<spinner, stop, external>>
vars == <<contextVars, nodeVars, spinVars, unread>>

Entries == [node: Nodes, upto: 1 .. MaxEndpoints] \cup {NoEntry}
Infos == [Names -> Entries]   \* ParticipantEntitiesInfo
Empty == [x \in Names |-> NoEntry]

Init ==
  /\ context = [c \in Contexts |-> "open"]
  /\ localNodes = [c \in Contexts |-> Empty]
  /\ written = [c \in Contexts |-> Nothing]
  /\ failed = [c \in Contexts |-> FALSE]
  /\ node = [n \in Nodes |-> "new"]
  /\ endpoints = [n \in Nodes |-> 0]
  /\ suppressed = [n \in Nodes |-> FALSE]
  /\ spinner = [n \in Nodes |-> "none"]
  /\ stop = [n \in Nodes |-> FALSE]
  /\ unread = [n \in Nodes |-> [c \in Contexts |-> << >>]]
  /\ external = [n \in Nodes |-> [c \in Contexts |-> Nothing]]

-----------------------------------------------------------------------------
(* ContextInner.                                                           *)

\* What a reader keeps of its samples: a new one may overwrite the oldest unread.
Kept(s) == IF Len(s) > Depth THEN Tail(s) ELSE s

\* broadcast_node_infos: the write reaches every Spinner's reader, or fails and is
\* only logged.
Broadcast(c, info) ==
  /\ localNodes' = [localNodes EXCEPT ![c] = info]
  /\ \/ /\ written' = [written EXCEPT ![c] = info]
        /\ failed' = [failed EXCEPT ![c] = FALSE]
        /\ unread' = [n \in Nodes |->
             IF spinner[n] = "spinning" THEN [unread[n] EXCEPT ![c] = Kept(Append(@, info))] ELSE unread[n]]
     \/ /\ WritesFail
        /\ failed' = [failed EXCEPT ![c] = TRUE]
        /\ UNCHANGED <<written, unread>>

\* update_node, with what generate_node_info says: the endpoints so far.
UpdateNode(n, upto) ==
  LET c == ContextOf[n] IN
  Broadcast(c, [localNodes[c] EXCEPT ![NameOf[n]] = [node |-> n, upto |-> upto]])

RemoveNode(n) ==
  LET c == ContextOf[n] IN Broadcast(c, [localNodes[c] EXCEPT ![NameOf[n]] = NoEntry])

\* The last of Context, Nodes and Spinners is dropped.
DropContext(c) ==
  /\ context[c] = "open"
  /\ \A n \in Nodes : ContextOf[n] = c => node[n] # "live" /\ spinner[n] \notin {"made", "spinning"}
  /\ context' = [context EXCEPT ![c] = "dropped"]
  /\ Broadcast(c, Empty)
  /\ UNCHANGED <<nodeVars, spinVars>>

-----------------------------------------------------------------------------
(* Node.                                                                   *)

\* Node::new, as far as the graph sees it: its first endpoints, which every entry
\* lists, and one update.
NewNode(n) ==
  /\ node[n] = "new" /\ context[ContextOf[n]] = "open"
  /\ node' = [node EXCEPT ![n] = "live"]
  /\ endpoints' = [endpoints EXCEPT ![n] = 1]
  /\ UpdateNode(n, 1)
  /\ UNCHANGED <<context, suppressed, spinVars>>

\* A publisher cannot be created or a parameter does not validate: the Node is
\* dropped, and its Drop runs, although it was never announced.
NewNodeFails(n) ==
  /\ node[n] = "new" /\ context[ContextOf[n]] = "open"
  /\ node' = [node EXCEPT ![n] = "dropped"]
  /\ RemoveNode(n)
  /\ UNCHANGED <<context, endpoints, suppressed, spinVars>>

\* add_reader, add_writer: announced unless updates are suppressed.
AddEndpoint_Bug(n) ==
  /\ node[n] = "live" /\ endpoints[n] < MaxEndpoints
  /\ endpoints' = [endpoints EXCEPT ![n] = @ + 1]
  /\ IF suppressed[n] THEN UNCHANGED <<localNodes, written, failed, unread>>
                      ELSE UpdateNode(n, endpoints[n])
  /\ UNCHANGED <<context, node, suppressed, spinVars>>
AddEndpoint(n) ==
  /\ node[n] = "live" /\ endpoints[n] < MaxEndpoints
  /\ endpoints' = [endpoints EXCEPT ![n] = @ + 1]
  /\ IF suppressed[n] THEN UNCHANGED <<localNodes, written, failed, unread>>
                      ELSE UpdateNode(n, endpoints'[n])
  /\ UNCHANGED <<context, node, suppressed, spinVars>>

\* spinner(): with or without the parameter services, whose endpoints are announced
\* together when the suppression of updates ends.
MakeSpinner(n) ==
  /\ node[n] = "live" /\ spinner[n] = "none" /\ n \in Spun
  /\ spinner' = [spinner EXCEPT ![n] = "made"]
  /\ \E k \in {0, 1} :
       /\ endpoints[n] + k <= MaxEndpoints
       /\ endpoints' = [endpoints EXCEPT ![n] = @ + k]
       /\ UpdateNode(n, endpoints[n] + k)
  /\ suppressed' = [suppressed EXCEPT ![n] = FALSE]
  /\ UNCHANGED <<context, node, stop, external>>

\* spinner() returns early on an error, in the middle of the suppression.
MakeSpinnerFails(n) ==
  /\ node[n] = "live" /\ spinner[n] = "none" /\ n \in Spun
  /\ spinner' = [spinner EXCEPT ![n] = "failed"]
  /\ \E k \in {0, 1} :
       /\ endpoints[n] + k <= MaxEndpoints
       /\ endpoints' = [endpoints EXCEPT ![n] = @ + k]
  /\ suppressed' = [suppressed EXCEPT ![n] = TRUE]
  /\ UNCHANGED <<contextVars, node, stop, unread, external>>

\* The signal goes to the Spinner if there is still one.
StopSpinner(n) ==
  /\ node[n] = "live" /\ spinner[n] \in {"made", "spinning"}
  /\ stop' = [stop EXCEPT ![n] = TRUE]
  /\ UNCHANGED <<contextVars, nodeVars, spinner, unread, external>>

\* Drop: the Spinner is told to stop and the node is removed.
DropNode_Bug(n) ==
  /\ node[n] = "live"
  /\ node' = [node EXCEPT ![n] = "dropped"]
  /\ stop' = [stop EXCEPT ![n] = @ \/ spinner[n] \in {"made", "spinning"}]
  /\ UNCHANGED <<contextVars, endpoints, suppressed, spinner, unread, external>>
DropNode(n) ==
  /\ node[n] = "live"
  /\ node' = [node EXCEPT ![n] = "dropped"]
  /\ stop' = [stop EXCEPT ![n] = @ \/ spinner[n] \in {"made", "spinning"}]
  /\ RemoveNode(n)
  /\ UNCHANGED <<context, endpoints, suppressed, spinner, external>>

-----------------------------------------------------------------------------
(* Spinner::spin.                                                          *)

\* The reader is created, and gets what each writer keeps: its last sample.
History(c) == IF written[c] = Nothing THEN << >> ELSE <<written[c]>>

Spin(n) ==
  /\ spinner[n] = "made"
  /\ spinner' = [spinner EXCEPT ![n] = "spinning"]
  /\ unread' = [unread EXCEPT ![n] = [c \in Contexts |-> History(c)]]
  /\ UNCHANGED <<contextVars, nodeVars, stop, external>>

\* One sample is taken and recorded; samples of one writer arrive in order.
Received_Bug(n, c, info) == IF external[n][c] = Nothing THEN info ELSE external[n][c]
Received(n, c, info) == info

Receive(n, c) ==
  /\ spinner[n] = "spinning" /\ unread[n][c] # << >>
  /\ external' = [external EXCEPT ![n][c] = Received(n, c, Head(unread[n][c]))]
  /\ unread' = [unread EXCEPT ![n][c] = Tail(@)]
  /\ UNCHANGED <<contextVars, nodeVars, spinner, stop>>

\* The loop ends on a signal; a Spinner that is not run any more may also be dropped,
\* and spin() returns at once if it cannot create its readers.
EndSpin(n) ==
  /\ spinner[n] = "made" \/ (spinner[n] = "spinning" /\ stop[n])
  /\ spinner' = [spinner EXCEPT ![n] = "over"]
  /\ unread' = [unread EXCEPT ![n] = [c \in Contexts |-> << >>]]
  /\ UNCHANGED <<contextVars, nodeVars, stop, external>>

-----------------------------------------------------------------------------

NodeStep(n) ==
  \/ NewNode(n) \/ NewNodeFails(n) \/ AddEndpoint(n)
  \/ MakeSpinner(n) \/ MakeSpinnerFails(n) \/ StopSpinner(n) \/ DropNode(n)

Next ==
  \/ \E n \in Nodes : NodeStep(n) \/ Spin(n) \/ EndSpin(n)
  \/ \E n \in Nodes, c \in Contexts : Receive(n, c)
  \/ \E c \in Contexts : DropContext(c)

Spec == Init /\ [][Next]_vars

\* The executor keeps running the task of a Spinner.
LiveSpec == Spec /\ \A n \in Nodes, c \in Contexts : WF_vars(Receive(n, c))

-----------------------------------------------------------------------------
(* Properties.                                                             *)

\* Every variable has its type; in particular no entry is without endpoints, and a
\* Spinner only gets samples that some Context has written.
TypeOK ==
  /\ context \in [Contexts -> {"open", "dropped"}]
  /\ localNodes \in [Contexts -> Infos]
  /\ written \in [Contexts -> Infos \cup {Nothing}]
  /\ failed \in [Contexts -> BOOLEAN]
  /\ node \in [Nodes -> {"new", "live", "dropped"}]
  /\ endpoints \in [Nodes -> 0 .. MaxEndpoints]
  /\ suppressed \in [Nodes -> BOOLEAN]
  /\ spinner \in [Nodes -> {"none", "failed", "made", "spinning", "over"}]
  /\ stop \in [Nodes -> BOOLEAN]
  /\ unread \in [Nodes -> [Contexts -> Seq(Infos)]]
  /\ external \in [Nodes -> [Contexts -> Infos \cup {Nothing}]]

\* No Context announces a node that is not there any more, even if nodes share a
\* name, fail to be created, or are dropped in any order.
NoGhosts ==
  \A c \in Contexts, x \in Names :
    localNodes[c][x] # NoEntry =>
      LET e == localNodes[c][x] IN node[e.node] = "live" /\ ContextOf[e.node] = c /\ NameOf[e.node] = x

OnlyOneCalled(n) ==
  \A m \in Nodes \ {n} : ContextOf[m] = ContextOf[n] /\ NameOf[m] = NameOf[n] => node[m] = "new"

\* "describing the current state of this Context": a live node is announced with
\* every endpoint it has, if it has its name for itself and spinner() has not
\* failed in the middle.
EndpointsAnnounced ==
  \A n \in Nodes :
    node[n] = "live" /\ OnlyOneCalled(n) /\ spinner[n] # "failed" =>
      localNodes[ContextOf[n]][NameOf[n]] = [node |-> n, upto |-> endpoints[n]]

\* A Spinner that has read all there is knows the nodes of every Context, however
\* late it began and whatever was overwritten unread, unless the last write failed.
CaughtUp ==
  \A n \in Nodes, c \in Contexts :
    spinner[n] = "spinning" /\ unread[n][c] = << >> /\ ~failed[c] /\ written[c] # Nothing =>
      external[n][c] = localNodes[c]

\* A node that has been dropped disappears from the view of every Spinner that keeps
\* running, unless the last write of its Context failed.
DroppedForgotten ==
  \A n, s \in Nodes :
    LET c == ContextOf[n]  x == NameOf[n] IN
    node[n] = "dropped" ~>
      \/ spinner[s] # "spinning" \/ failed[c] \/ external[s][c] = Nothing
      \/ external[s][c][x] = NoEntry \/ external[s][c][x].node # n

=============================================================================

------------------------------ MODULE Parameters ------------------------------
(***************************************************************************)
(* The parameters of a Node (src/node.rs): one table that tasks of the     *)
(* application change through the Node and remote clients through the      *)
(* Spinner, which runs in a task of its own with the same code.            *)
(*                                                                         *)
(* set_parameter takes the lock of the table twice, to look and to insert, *)
(* and between the two it runs the application's validator and set action; *)
(* the event follows after the second lock.  Each of these is a step.      *)
(* Requests that only read the table (get, get types, list, describe, and  *)
(* set atomically, which is refused) change nothing and are not listed.    *)
(***************************************************************************)
EXTENDS Integers, Sequences

CONSTANTS
  Names,        \* parameter names
  SimTime,      \* "use_sim_time", which every node has
  Values,       \* parameter values
  Booleans,     \* those of type Boolean
  False,        \* Boolean(false)
  Valid,        \* pairs of name and value that the application's validator accepts
  Undeclared,   \* no entry in the table
  Tasks,        \* application tasks that use the Node
  Spinner,      \* the task that serves remote requests
  MaxCalls,     \* bound: calls per application task
  MaxRequests   \* bound: set_parameters requests

ASSUME ConstantsAssumption ==
  /\ SimTime \in Names
  /\ False \in Booleans /\ Booleans \subseteq Values
  /\ Valid \subseteq (Names \ {SimTime}) \X Values
  /\ Undeclared \notin Values
  /\ Spinner \notin Tasks
  /\ MaxCalls \in Nat /\ MaxRequests \in Nat

Callers == Tasks \cup {Spinner}

VARIABLES
  allowUndeclared,  \* NodeOptions.allow_undeclared_parameters
  parameters,       \* the table
  effect,           \* what the last set action was run with: for SimTime, use_sim_time
  listener,         \* what a listener of /parameter_events makes of the events
  event,            \* the last event
  pc,               \* of a call: idle, validate, act, insert, notify, forget
  name, value,      \* its arguments
  alreadySet,       \* its already_set
  calls,            \* calls made by each application task
  requests,         \* set_parameters requests the Spinner has not taken
  sent,             \* how many there have been
  serving, rest,    \* does the Spinner serve one, and its parameters still to set
  overlapped        \* names that two calls have been about at the same time

call == <<pc, name, value, alreadySet>>
spin == <<requests, sent, serving, rest>>
vars == <<allowUndeclared, parameters, effect, listener, event, call, calls, spin, overlapped>>

Entries == Values \cup {Undeclared}
NoEvent == [kind |-> "none", name |-> SimTime]

\* Node::new: what is declared has been validated and its set action run; no event
\* tells of it.  SimTime is declared last, so it is always false.
Init ==
  /\ allowUndeclared \in BOOLEAN
  /\ parameters \in {p \in [Names -> Entries] :
       /\ p[SimTime] = False
       /\ \A n \in Names \ {SimTime} : p[n] = Undeclared \/ <<n, p[n]>> \in Valid}
  /\ effect = parameters
  /\ listener = parameters
  /\ event = NoEvent
  /\ pc = [c \in Callers |-> "idle"]
  /\ name = [c \in Callers |-> SimTime]
  /\ value = [c \in Callers |-> Undeclared]
  /\ alreadySet = [c \in Callers |-> FALSE]
  /\ calls = [c \in Tasks |-> 0]
  /\ requests = << >> /\ sent = 0
  /\ serving = FALSE /\ rest = << >>
  /\ overlapped = {}

-----------------------------------------------------------------------------
(* set_parameter, in Node and in Spinner.                                  *)

BusyWith(c, n) == pc[c] # "idle" /\ name[c] = n

\* A call about n begins.
Enters(c, n) ==
  /\ pc[c] = "idle"
  /\ name' = [name EXCEPT ![c] = n]
  /\ overlapped' = IF \E d \in Callers \ {c} : BusyWith(d, n)
                   THEN overlapped \cup {n} ELSE overlapped

\* Where a call goes on that returns an error.
AfterError_Bug == "dead"
AfterError == "idle"

Goto(c, l) == pc' = [pc EXCEPT ![c] = l]

\* A parameter that is not there may be set only if undeclared ones are allowed.
MaySet_Bug(n) == TRUE
MaySet(n) == allowUndeclared \/ parameters[n] # Undeclared

BeginSet(c, n, v) ==
  /\ Enters(c, n)
  /\ value' = [value EXCEPT ![c] = v]
  /\ alreadySet' = [alreadySet EXCEPT ![c] = parameters[n] # Undeclared]
  /\ Goto(c, IF MaySet(n) THEN "validate" ELSE AfterError)
  /\ UNCHANGED <<allowUndeclared, parameters, effect, listener, event>>

\* validate_parameter_on_set
Accepts_Bug(n, v) == n = SimTime \/ <<n, v>> \in Valid
Accepts(n, v) == IF n = SimTime THEN v \in Booleans ELSE <<n, v>> \in Valid

Validate(c) ==
  /\ pc[c] = "validate"
  /\ Goto(c, IF Accepts(name[c], value[c]) THEN "act" ELSE AfterError)
  /\ UNCHANGED <<allowUndeclared, parameters, effect, listener, event, name, value, alreadySet,
                 calls, spin, overlapped>>

\* execute_parameter_set_actions: the application's action may refuse the value.
Act_Bug(c) ==
  /\ pc[c] = "act"
  /\ effect' = [effect EXCEPT ![name[c]] = value[c]]
  /\ \/ Goto(c, "insert")
     \/ name[c] # SimTime /\ Goto(c, AfterError)
  /\ UNCHANGED <<allowUndeclared, parameters, listener, event, name, value, alreadySet,
                 calls, spin, overlapped>>
Act(c) ==
  /\ pc[c] = "act"
  /\ \/ /\ effect' = [effect EXCEPT ![name[c]] = value[c]]
        /\ Goto(c, "insert")
     \/ /\ name[c] # SimTime
        /\ Goto(c, AfterError)
        /\ UNCHANGED effect
  /\ UNCHANGED <<allowUndeclared, parameters, listener, event, name, value, alreadySet,
                 calls, spin, overlapped>>

Insert(c) ==
  /\ pc[c] = "insert"
  /\ parameters' = [parameters EXCEPT ![name[c]] = value[c]]
  /\ Goto(c, "notify")
  /\ UNCHANGED <<allowUndeclared, effect, listener, event, name, value, alreadySet,
                 calls, spin, overlapped>>

EventKind_Bug(c) == "changed"
EventKind(c) == IF alreadySet[c] THEN "changed" ELSE "new"

\* The event is published after the lock is released.
Notify(c) ==
  /\ pc[c] = "notify"
  /\ listener' = [listener EXCEPT ![name[c]] = value[c]]
  /\ event' = [kind |-> EventKind(c), name |-> name[c]]
  /\ Goto(c, "idle")
  /\ UNCHANGED <<allowUndeclared, parameters, effect, name, value, alreadySet,
                 calls, spin, overlapped>>

ContinueSet(c) == Validate(c) \/ Act(c) \/ Insert(c) \/ Notify(c)

-----------------------------------------------------------------------------
(* The application: Node::set_parameter and Node::undeclare_parameter.     *)

CountCall(t) ==
  /\ calls[t] < MaxCalls
  /\ calls' = [calls EXCEPT ![t] = @ + 1]

SetParameter(t, n, v) == CountCall(t) /\ BeginSet(t, n, v) /\ UNCHANGED spin

\* Only a parameter that was there is announced as deleted.
UndeclareParameter_Bug(t, n) ==
  /\ CountCall(t)
  /\ Enters(t, n)
  /\ parameters[n] # Undeclared
  /\ parameters' = [parameters EXCEPT ![n] = Undeclared]
  /\ UNCHANGED <<allowUndeclared, effect, listener, event, pc, value, alreadySet, spin>>
UndeclareParameter(t, n) ==
  /\ CountCall(t)
  /\ Enters(t, n)
  /\ parameters[n] # Undeclared
  /\ parameters' = [parameters EXCEPT ![n] = Undeclared]
  /\ Goto(t, "forget")
  /\ UNCHANGED <<allowUndeclared, effect, listener, event, value, alreadySet, spin>>

AnnounceDeleted(t) ==
  /\ pc[t] = "forget"
  /\ listener' = [listener EXCEPT ![name[t]] = Undeclared]
  /\ event' = [kind |-> "deleted", name |-> name[t]]
  /\ Goto(t, "idle")
  /\ UNCHANGED <<allowUndeclared, parameters, effect, name, value, alreadySet,
                 calls, spin, overlapped>>

-----------------------------------------------------------------------------
(* Remote clients and the set_parameters arm of Spinner::spin.             *)

RequestSet(ps) ==
  /\ sent < MaxRequests
  /\ sent' = sent + 1
  /\ requests' = Append(requests, ps)
  /\ UNCHANGED <<allowUndeclared, parameters, effect, listener, event, call, calls,
                 serving, rest, overlapped>>

TakeRequest ==
  /\ ~serving /\ requests # << >>
  /\ serving' = TRUE
  /\ rest' = Head(requests)
  /\ requests' = Tail(requests)
  /\ UNCHANGED <<allowUndeclared, parameters, effect, listener, event, call, calls,
                 sent, overlapped>>

SetNext ==
  /\ serving /\ rest # << >>
  /\ BeginSet(Spinner, Head(rest)[1], Head(rest)[2])
  /\ rest' = Tail(rest)
  /\ UNCHANGED <<calls, requests, sent, serving>>

\* The response, with one result for each parameter; errors are among them.
Respond ==
  /\ serving /\ rest = << >> /\ pc[Spinner] = "idle"
  /\ serving' = FALSE
  /\ UNCHANGED <<allowUndeclared, parameters, effect, listener, event, call, calls,
                 requests, sent, rest, overlapped>>

-----------------------------------------------------------------------------

SpinnerStep == TakeRequest \/ SetNext \/ Respond \/ ContinueSet(Spinner)

TaskStep(t) ==
  \/ \E n \in Names, v \in Values : SetParameter(t, n, v)
  \/ \E n \in Names : UndeclareParameter(t, n)
  \/ ContinueSet(t)
  \/ AnnounceDeleted(t)

ParameterLists == UNION {[1 .. k -> Names \X Values] : k \in 1 .. 2}

Next ==
  \/ \E ps \in ParameterLists : RequestSet(ps)
  \/ SpinnerStep
  \/ \E t \in Tasks : TaskStep(t)

Spec == Init /\ [][Next]_vars

\* The executor keeps running the Spinner's task.
LiveSpec == Spec /\ WF_vars(SpinnerStep)

-----------------------------------------------------------------------------
(* Properties.                                                             *)

\* Every variable has its type.
TypeOK ==
  /\ allowUndeclared \in BOOLEAN
  /\ parameters \in [Names -> Entries]
  /\ effect \in [Names -> Entries]
  /\ listener \in [Names -> Entries]
  /\ event \in [kind: {"none", "new", "changed", "deleted"}, name: Names]
  /\ pc \in [Callers -> {"idle", "validate", "act", "insert", "notify", "forget"}]
  /\ name \in [Callers -> Names]
  /\ value \in [Callers -> Entries]
  /\ alreadySet \in [Callers -> BOOLEAN]
  /\ calls \in [Tasks -> 0 .. MaxCalls]
  /\ requests \in Seq(Seq(Names \X Values))
  /\ sent \in 0 .. MaxRequests
  /\ serving \in BOOLEAN
  /\ rest \in Seq(Names \X Values)
  /\ overlapped \subseteq Names

\* However calls interleave, the table and the application only ever see values
\* that validate_parameter_on_set has passed; use_sim_time is a Boolean.
OnlyValidated ==
  \A n \in Names : \A v \in {parameters[n], effect[n], listener[n]} :
    v = Undeclared \/ (IF n = SimTime THEN v \in Booleans ELSE <<n, v>> \in Valid)

Quiet(n) == n \notin overlapped /\ \A c \in Callers : ~BusyWith(c, n)

\* As long as no two calls were about a parameter at the same time, who listens to
\* /parameter_events knows its value whenever no call is about it, although the
\* events are published outside the lock and other parameters are being changed.
ListenerAgrees == \A n \in Names : Quiet(n) => listener[n] = parameters[n]

\* Likewise, the last set action was run with the value in the table; for
\* use_sim_time: the flag that time_now reads is the value of the parameter.
EffectAgrees ==
  \A n \in Names : Quiet(n) /\ parameters[n] # Undeclared => effect[n] = parameters[n]

\* A parameter is announced as new exactly if the listener does not know it, and
\* as changed or deleted only if it does (set_parameter's already_set).  That includes
\* use_sim_time, which Node::new declares: its first event says changed, where the comment
\* on set_parameter (src/node.rs:993) has "It thinks they are new on first set".
EventKindRight ==
  [][\A n \in Names \ overlapped :
       listener'[n] # listener[n] => (event'.kind = "new" <=> listener[n] = Undeclared)]_vars

\* "Parameter must be declared before setting": where undeclared parameters are not
\* allowed, one that is undeclared stays so, for remote clients too.
UndeclaredStays ==
  [][~allowUndeclared => \A n \in Names \ overlapped :
       parameters[n] = Undeclared => parameters'[n] = Undeclared]_vars

\* The Spinner answers every set_parameters request, whatever is wrong with its
\* parameters and whatever the application does meanwhile.
RequestsAnswered == (requests # << >> \/ serving) ~> (requests = << >> /\ ~serving)

=============================================================================

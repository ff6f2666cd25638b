---------------------------- MODULE ParameterReads ----------------------------
(***************************************************************************)
(* What the Spinner of the DDS backend answers to the parameter requests   *)
(* that change nothing (src/node.rs): each answer is computed from the     *)
(* table under one lock.  A name is the sequence of its characters, as a   *)
(* request may ask for a prefix; a value is as in Framing.                 *)
(***************************************************************************)
EXTENDS Framing, SequencesExt

NotSet == [kind |-> "NotSet", content |-> 0]
Stored(table, name) == IF name \in DOMAIN table THEN table[name] ELSE NotSet

GetParameters(table, names) == [i \in DOMAIN names |-> ToRaw(Stored(table, names[i]))]
GetParameterTypes(table, names) == [i \in DOMAIN names |-> TypeCode[Stored(table, names[i]).kind]]

ListParameters(table, prefixes) ==
  {n \in DOMAIN table : prefixes = << >> \/ \E i \in DOMAIN prefixes : IsPrefix(prefixes[i], n)}

FromValue(name, value) == [name |-> name, type |-> TypeCode[value.kind], read_only |-> FALSE]
UnknownDescriptor(name) == [name |-> name, type |-> TypeCode["NotSet"], read_only |-> TRUE]
DescribeParameters(table, names) ==
  [i \in DOMAIN names |->
     IF names[i] \in DOMAIN table THEN FromValue(names[i], table[names[i]])
     ELSE UnknownDescriptor(names[i])]

\* Not implemented: every parameter is refused.
SetAtomically(names) == [i \in DOMAIN names |-> [successful |-> FALSE]]

-----------------------------------------------------------------------------

\* A client that puts the answers together gets one picture: the type answered
\* is that of the value answered and of the description, a name is listed
\* exactly when its description is not that of an unknown parameter, a prefix
\* only narrows the list, and every name asked for has its answer.
ReadsAgree(table, names, prefixes) ==
  LET values == GetParameters(table, names)
      types == GetParameterTypes(table, names)
      descriptions == DescribeParameters(table, names) IN
  /\ \A i \in DOMAIN names :
       /\ types[i] = values[i].ptype /\ types[i] = descriptions[i].type
       /\ FromRaw(values[i]) # NotSet => FromRaw(values[i]) = table[names[i]]
       /\ descriptions[i].read_only <=> names[i] \notin ListParameters(table, << >>)
  /\ ListParameters(table, prefixes) \subseteq ListParameters(table, << >>)
  /\ Len(SetAtomically(names)) = Len(names)
=============================================================================

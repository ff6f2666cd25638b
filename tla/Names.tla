-------------------------------- MODULE Names --------------------------------
(***************************************************************************)
(* Names of nodes, topics and services (src/names.rs) and how the zenoh    *)
(* node resolves them (src/zenoh_backend/node.rs).  A string is the        *)
(* sequence of its slash-separated tokens: "" is <<"">>, "/" is <<"", "">>,*)
(* "/a/b" is <<"", "a", "b">>.  What the code asks of a token's characters *)
(* is the constant sets below.  An Err is << >>, an Ok(v) is <<v>>.        *)
(***************************************************************************)
EXTENDS Naturals, Sequences, SequencesExt

CONSTANTS Words,        \* tokens of letters, digits and underscores only
          Starts,       \* tokens that start with a letter or an underscore
          Doubles       \* tokens that contain two underscores in a row

\* No token without a character passes, and the tokens the crate adds do.
ASSUME NamesAssumption ==
  /\ "" \notin Words /\ "" \notin Starts
  /\ {"_action", "feedback", "get_parameters", "get_parameter_types", "set_parameters",
      "set_parameters_atomically", "list_parameters", "describe_parameters"}
       \subseteq (Words \cap Starts) \ Doubles

Empty == <<"">>
Root == <<"", "">>
StartsWithSlash(text) == Len(text) > 1 /\ text[1] = ""
EndsWithSlash(text) == Len(text) > 1 /\ Last(text) = ""
OneToken(text) == Len(text) = 1

TokenOk(token) == token \in Words /\ token \in Starts /\ token \notin Doubles

-----------------------------------------------------------------------------
(* Node names: their tokens may hold two underscores, and their namespace  *)
(* two slashes.                                                            *)

NodeNameNew(namespace, base) ==
  IF /\ base # Empty /\ OneToken(base) /\ base[1] \in Words /\ base[1] \in Starts
     /\ StartsWithSlash(namespace)
     /\ \A i \in DOMAIN namespace : namespace[i] = "" \/ namespace[i] \in Words
     /\ EndsWithSlash(namespace) => namespace = Root
  THEN << [namespace |-> namespace, base |-> base[1]] >>
  ELSE << >>

FullyQualifiedName(node) ==
  IF EndsWithSlash(node.namespace) THEN <<"", node.base>> ELSE Append(node.namespace, node.base)

-----------------------------------------------------------------------------
(* Names of topics and services.                                           *)

NameNew(namespace, base) ==
  LET absolute == StartsWithSlash(namespace)
      relative == IF absolute THEN Tail(namespace) ELSE namespace
      tokens == IF relative = Empty THEN << >> ELSE relative IN
  IF /\ base # Empty /\ OneToken(base) /\ TokenOk(base[1])
     /\ \A i \in DOMAIN tokens : TokenOk(tokens[i])
  THEN << [base |-> base[1], preceeding |-> tokens, absolute |-> absolute] >>
  ELSE << >>

\* Split at the last slash.
NameParse(text) ==
  LET prefix == Front(text)
      base == <<Last(text)>> IN
  CASE OneToken(text) -> NameNew(Empty, text)
    [] ~OneToken(text) /\ base = Empty -> << >>
    [] ~OneToken(text) /\ base # Empty /\ prefix = Empty -> NameNew(Root, base)
    [] ~OneToken(text) /\ base # Empty /\ prefix # Empty ->
         IF EndsWithSlash(prefix) THEN << >> ELSE NameNew(prefix, base)

Display(name) == (IF name.absolute THEN Empty ELSE << >>) \o name.preceeding \o <<name.base>>

\* Unchecked.
Push(name, suffix) ==
  [name EXCEPT !.base = suffix, !.preceeding = Append(name.preceeding, name.base)]

\* The suffix is glued to the last token: it is kept apart here.
ToDdsName(name, kind, node, suffix) ==
  [path |-> <<kind>> \o (IF name.absolute THEN << >> ELSE Tail(node.namespace))
                     \o name.preceeding \o <<name.base>>,
   suffix |-> suffix]

-----------------------------------------------------------------------------
(* The zenoh node's resolution of a name, and the names it derives.        *)

ResolveFqn(name, node) ==
  IF name.absolute THEN Display(name)
  ELSE IF node.namespace = Root THEN Empty \o Display(name)
       ELSE node.namespace \o Display(name)

ActionSubName(fqn, sub) == NameNew(Append(fqn, "_action"), <<sub>>)
ParamServiceName(fqn, base) == NameNew(fqn, <<base>>)

-----------------------------------------------------------------------------
(* What must hold of a text, and of a name used by a node.                 *)

\* parse takes exactly the texts whose tokens are all well formed, after one
\* leading slash at most, and Display gives the text back.
ParseIsExact(text) ==
  LET tokens == IF StartsWithSlash(text) THEN Tail(text) ELSE text IN
  /\ NameParse(text) # << >> <=> Range(tokens) \subseteq (Words \cap Starts) \ Doubles
  /\ NameParse(text) # << >> => Display(NameParse(text)[1]) = text

\* A name is resolved to the same absolute name in both backends, and what is
\* derived from it (an action's parts, a node's parameter services) is a name
\* again.  Two exceptions are the code's: a relative name in the root
\* namespace has an empty token in its DDS name, and a node whose own name
\* breaks the rules of Name has no parameter services.
ResolvesAlike(name, node) ==
  LET fqn == ResolveFqn(name, node)
      dds == Tail(ToDdsName(name, "rt", node, "").path)
      nodeFqn == FullyQualifiedName(node) IN
  /\ (name.absolute \/ node.namespace # Root) => Empty \o dds = fqn
  /\ (~name.absolute /\ node.namespace = Root) => dds = fqn
  /\ NameParse(nodeFqn) # << >> =>
       /\ NameParse(fqn) # << >> /\ NameParse(fqn)[1].absolute
       /\ ActionSubName(fqn, "feedback") = << Push(Push(NameParse(fqn)[1], "_action"), "feedback") >>
  /\ ParamServiceName(nodeFqn, "get_parameters") # << >> <=> NameParse(nodeFqn) # << >>
=============================================================================

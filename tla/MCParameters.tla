---------------------------- MODULE MCParameters ----------------------------
(* Parameters on small instances.                                          *)
EXTENDS Parameters

CONSTANT speed

\* The validator of the application refuses text for its only parameter.
NoText == {<<speed, v>> : v \in Booleans}
=============================================================================

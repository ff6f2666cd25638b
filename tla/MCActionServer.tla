--------------------------- MODULE MCActionServer ---------------------------
(* ActionServer on small instances.                                        *)
EXTENDS ActionServer, TLC

TaskSymmetry == Permutations(Tasks)
Symmetry == Permutations(GoalIds) \cup TaskSymmetry

\* What no property of a run asks about, no step reads: the published status
\* arrays are left out of the state comparison.
ViewWithoutTopic == <<server, requests, handles, pc, op, goal, req, todo, picked,
                      told, results, reported, feedback>>
=============================================================================

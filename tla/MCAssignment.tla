----------------------------- MODULE MCAssignment -----------------------------
(***************************************************************************)
(* Small instances of AssignmentController.                                *)
(***************************************************************************)
EXTENDS AssignmentController

CONSTANTS web, api,        \* assignments
          edge,            \* cluster type
          dev,             \* deployment target
          argo,            \* template
          v1, v2,          \* versions
          good, bad        \* configs, the second against the schemas

EdgeType == [a \in Assignments |-> edge]
Targets  == [a \in Assignments |-> dev]

OneSpec == {[r \in RoleNames |-> argo]}

\* The versions are interchangeable: what holds when the target starts with v1
\* holds when it starts with v2, by renaming.
CurrentInit == Init /\ inputs[dev] = v1
CurrentSpec == CurrentInit /\ [][Next]_vars /\ Fairness
=============================================================================

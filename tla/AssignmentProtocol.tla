-------------------------- MODULE AssignmentProtocol --------------------------
(***************************************************************************)
(* What the assignment controller (controllers/assignment_controller.go)   *)
(* promises the GitOps repo controller, of one assignment and its package: *)
(* a package is written only while its assignment is not ready, so that a  *)
(* reader of packages who waits for all assignments need not watch updates *)
(* of packages.  A package may vanish at any time.  AssignmentController   *)
(* implements this specification; the environment of GitOpsRepoController  *)
(* has the same actions.                                                   *)
(***************************************************************************)
CONSTANTS Specs, None

VARIABLES
    gate,     \* "absent", or whether the assignment is "ready" or "notReady"
    package   \* spec of its package, or None

vars == <<gate, package>>

Init == gate = "ready" => package # None

\* The assignment is created, or its controller starts rebuilding the package.
StartRebuild == gate \in {"absent", "ready"} /\ gate' = "notReady" /\ UNCHANGED package

\* The worker may be late: the assignment that it writes for may be gone by then.
WritePackage == gate # "ready" /\ package' \in Specs /\ UNCHANGED gate

FinishRebuild == gate = "notReady" /\ gate' = "ready" /\ UNCHANGED package

DeleteGate == gate' = "absent" /\ UNCHANGED package

\* The garbage collector or a user deletes the package.
RemovePackage == package' = None /\ UNCHANGED gate

Next == StartRebuild \/ WritePackage \/ FinishRebuild \/ DeleteGate \/ RemovePackage

Spec == Init /\ [][Next]_vars
=============================================================================

----------------------------- MODULE MCGitOpsRepo -----------------------------
(***************************************************************************)
(* Small instances of GitOpsRepoController: one policy, one or two         *)
(* assignments to one cluster type, two package versions.                  *)
(***************************************************************************)
EXTENDS GitOpsRepoController

CONSTANTS policy, web, api, small, large, v1, v2, base1, base2, repo1, repo2

OneType == [a \in Assignments |-> small]
=============================================================================

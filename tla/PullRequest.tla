----------------------------- MODULE PullRequest ------------------------------
(***************************************************************************)
(* What a GitOps repository promises its callers (GithubRepo.CreatePR of   *)
(* scheduler/githubrepo.go, as gitopsrepo_controller.go uses it): a call   *)
(* that succeeds leaves a pull request with the content it was given; a    *)
(* call that fails may have withdrawn the pull request of an earlier call, *)
(* may have opened its own, or may have done nothing.  Between two calls   *)
(* nothing changes.  GithubRepo implements this specification call by      *)
(* call, GitOpsRepoController relies on it.                                *)
(***************************************************************************)
CONSTANTS Contents, None

VARIABLES
    pr,    \* content of the last pull request, or None when it was withdrawn
    call,  \* content that the call in progress was given, or None
    phase  \* "idle", "asked", or "done": the call has succeeded

vars == <<pr, call, phase>>

Init == pr = None /\ call = None /\ phase = "idle"

Ask(c) == phase = "idle" /\ phase' = "asked" /\ call' = c /\ UNCHANGED pr

Withdraw == phase = "asked" /\ pr' = None /\ UNCHANGED <<call, phase>>

Propose == phase = "asked" /\ pr' = call /\ UNCHANGED <<call, phase>>

Succeed == phase = "asked" /\ pr' = call /\ phase' = "done" /\ UNCHANGED call

\* The call fails, at once with its last effect or later.
Fail == phase = "asked" /\ pr' \in {pr, None, call} /\ phase' = "idle" /\ call' = None

\* The caller has taken note of the success.
Acknowledge == phase = "done" /\ phase' = "idle" /\ call' = None /\ UNCHANGED pr

Next ==
    \/ \E c \in Contents : Ask(c)
    \/ Withdraw \/ Propose \/ Succeed \/ Fail \/ Acknowledge

Spec == Init /\ [][Next]_vars

\* A successful call has left a pull request with its content.
SuccessIsTrue == phase = "done" => pr = call
=============================================================================

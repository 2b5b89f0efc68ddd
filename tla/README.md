# Formal model of kalypso-scheduler

TLA+ specifications of the Kalypso scheduler, a set of Kubernetes controllers
that turn platform abstractions (workloads, cluster types, scheduling policies,
templates, config) into pull requests to GitOps repositories. The model follows
the code under `controllers/`, `scheduler/` and `api/v1alpha1/`; TLC checks it on
small instances and TLAPS proves the central theorems for every instance.

## 1. The system

Flux delivers the objects of the control plane. Every controller is a
controller-runtime reconciler with one worker. It reads from informer caches,
writes to the API server, and is run again by watch events, by returned errors
and by `RequeueAfter`. All controllers live in one manager (`main.go`).

```
 Environment, BaseRepo, WorkloadRegistration ──► GitRepository + Kustomization (Flux)
 Workload ──► DeploymentTarget ─┐
 ClusterType ───────────────────┼─► SchedulingPolicy ──► Assignment ─┐
 Template, ConfigMap, ConfigSchema ──────────────────────────────────┼─► AssignmentPackage ─┐
                                                     GitHub issue ◄──┘                      │
 BaseRepo, ClusterType ─────────────────────────────────► GitOpsRepo ──► pull request ◄─────┘
```

| component | state it keeps | operations | interacts with |
|---|---|---|---|
| Scheduler (`scheduler/scheduler.go`) | none | select cluster types and targets, build the matrix | called by the scheduling policy controller |
| Scheduling policy controller | `Assignment` objects, Ready of the policy | reconcile: report, list three kinds, diff, delete, create, report | watches policies, assignments it owns, cluster types, targets |
| Assignment controller | `AssignmentPackage`, Ready, issue number and hash of the last error | reconcile: read six kinds of inputs, render, write the package, keep the issue | watches assignments, packages, templates, config maps, schemas, targets; GitHub |
| GitOps repo controller | Ready, ReadyToPR, content hash of the `GitOpsRepo`; a 3 s timer | gate on readiness, hash, debounce, pull request | watches policies, assignments, packages, cluster types; GitHub |
| Workload controller | `DeploymentTarget` objects, Ready of the workload | reconcile: list, delete, create or update | reads registrations; watches workloads and the targets it owns |
| Environment, BaseRepo and WorkloadRegistration controllers (`flux.go`) | a GitRepository and a Kustomization each; the namespace of an environment | create/update, delete on NotFound | watch only their own kind |
| GitHub client (`githubrepo.go`) | pull requests, branches, issues at GitHub | CreatePR, UpdateIssue | called by the GitOps repo and assignment controllers |
| Templater, config validator, config data merge | none | text rendering, schema validation, label matching and deep merge | called by the assignment controller |

**What is hard about it.** Reconcilers are level-triggered: correctness is that
whatever sequence of events, stale reads, refused writes and restarts occurs,
the last reconcile of an object sees what it needs to see. The dangers are

* several kinds read one after the other from caches that move independently;
* an event filter or a missing watch that drops the event which should have
  brought the controller back;
* loops of writes of which one fails, or takes effect although it reports an error;
* writes based on a copy that is outdated (names, resource versions, owner UIDs);
* a deadline in the work queue that belongs to an earlier state;
* side effects at GitHub between two status updates;
* deletion: background, foreground, while the manager is down.

`PROJECT.json` lists each at its line with the properties about it.

**What makes the components correct.**

| component | correct when |
|---|---|
| Scheduling policy | at rest, the assignments are exactly the matrix for what exists now and the policy is ready; reconciling again writes no assignment; deletions finish |
| Assignment | at rest, the package is rendered from what exists now, or the status says why it cannot be; one open issue per lasting error |
| GitOps repo | no change of the wanted content is overlooked, ReadyToPR leads to a pull request, Ready is true only of a pull request with the recorded content, nothing is proposed twice |
| GitHub client | after `CreatePR` one pull request is open and it shows the content asked for, whichever calls failed before; a promotion is labelled; a content that is wanted is proposed in the end |
| Config data, validator, templater | the merged data is what the precedence of the sources says, whatever order Go chooses; rendering ends |
| Workload | at rest, the targets listed for this environment are written as specified, and there are no others (which a target moved to another environment violates, §4); a deletion completes |
| Flux owners | at rest, the Flux resources are those of the spec; those of a deleted owner are gone; a Kustomization never lacks its GitRepository |

## 2. Modules

| module | models | correspondence |
|---|---|---|
| `Scheduler` | `scheduler/scheduler.go` | pure operators. A Kubernetes name is the sequence of its dash-separated segments, so that joining names is concatenation and may be ambiguous, as in the code |
| `SchedulingPolicyController` | `schedulingpolicy_controller.go` | extends `Scheduler`. One action per call of `Reconcile`: `Begin` (Get and status Rescheduling), `ListClusterTypes`, `ListTargets` (with `NewScheduler` and `Schedule`), `ListAssignments` (and the diff), `DeleteAssignment`, `CreateAssignment`, `Finish`, `ManageFailure` |
| `SchedulingPolicyProofs` | — | theorems about `SchedulingPolicyController` |
| `PullRequest` | what the GitOps repo controller relies on at GitHub | the contract of `CreatePR`: `Ask`, `Withdraw`, `Propose`, `Succeed`, `Fail`, `Acknowledge` |
| `GithubRepo` | `githubrepo.go` (`CreatePR`) | one action per call to GitHub: `GetBaseBranch`, `ReuseBranch`/`CreateBranch`, `PushCommit` (with `getTree`), `ListPullRequests`, `DeletePullRequest`, `CreatePullRequest`, `AddLabel`. Trees are sets of files; `NewTree` is `getTree`. Users edit the content and merge or close pull requests |
| `GithubRepoProofs` | — | theorems about `GithubRepo`; it implements `PullRequest` |
| `GitOpsRepoController` | `gitopsrepo_controller.go`, `CreatePR` as one step | `Begin`, `CheckReady`, `GetRepoContent`/`Decide`, then one of `MarkReadyToPR`, `UnmarkReadyToPR`, `Announce`–`CreatePR`–`RecordPR`. Policies, assignments and packages are its environment, which moves as `AssignmentProtocol` allows |
| `GitOpsRepoProofs` | — | theorems about `GitOpsRepoController`; it uses `PullRequest` |
| `AssignmentProtocol` | what the GitOps repo controller relies on upstream | an assignment is not ready while its package is written |
| `AssignmentController` | `assignment_controller.go`, `UpdateIssue` | one action per object read, `WritePackage`, `CloseIssue`, `ReportReady`, `UpdateIssue`, `ReportFailure`, `GitHubFails` |
| `AssignmentProofs` | — | theorems about `AssignmentController`; it implements `AssignmentProtocol` |
| `AssignmentRestProofs` | — | extends `AssignmentProofs`: assignments and issues at rest |
| `ConfigValues` | `mergeObjects`, `getObjectFromConfigValue` | values of config data and their merge; the recursive calls are parameters (`MergeObjectsBy(Merge, old, new)`), since nothing can be proved in a module that declares a recursive operator |
| `ConfigMerge` | `mergeObjects` | ties the knot: `MergeObjects` calls itself through `MergeObjectsBy`, and so does `Leaves`, the texts of a value with their paths |
| `Rendering` | `getConfigData`, `validateConfigData`, `config_validator.go`, the expansion loop of `templater.go` | extends `ConfigValues`. `ReadLabelled`, `ListAzure`, `ReadAzure`, `ValidateConfigData`, `ReplaceTemplateVariables`, `TemplateFails`. The merge and the texts of a value are constants (`Merged`, `TextsIn`), which `Rendering.cfg` sets to `MergeObjects` and `Leaves` |
| `RenderingProofs` | — | theorems about `Rendering` and the merge |
| `WorkloadController` | `workload_controller.go` | `Begin`, `ListTargets`, `DeleteTarget`, `WriteTarget`, `Panic` (a Flux owner label without a dash), `Finish`, `ManageFailure` |
| `WorkloadProofs` | — | theorems about `WorkloadController` |
| `FluxReferences` | `environment_controller.go`, `baserepo_controller.go`, `workloadregistration_controller.go`, `flux.go` | three workers, one per kind, running the same steps over disjoint owners |
| `FluxProofs` | — | theorems about `FluxReferences` |
| `MC…` | — | values of the constants for TLC |

**How the modules fit together.** Two controllers meet at two contracts, and each
contract is implemented on one side and used on the other:

```
 AssignmentController ──implements──► AssignmentProtocol ◄──environment of── GitOpsRepoController
 GithubRepo ──────────implements──► PullRequest ◄──────────uses────────── GitOpsRepoController
```

`FollowsProtocol` says, for every assignment, that the steps of
`AssignmentController` are steps of `AssignmentProtocol`; the environment of
`GitOpsRepoController` makes only such steps, too (`EnvironmentFollowsProtocol`).
`ImplementsPullRequest` says that `CreatePR`, call by call, is `PullRequest`;
`UsesPullRequest` that the controller, seen from any one repository, makes only
steps of `PullRequest`. `CreatePR` in `GitOpsRepoController` is thus not an
assumption about GitHub but the contract the client is shown to keep.

Each controller module has the same four parts: the API server (the truth), the
watch events that are still to be delivered, the informer caches, and the
controller (work queue, worker with its local variables, in `cur`). A step of
the worker ends at every call that another actor could get in front of. Where
two cached lists are read in one step a comment says why this loses nothing.

How Kubernetes is modelled, in every module:

* **Reads** come from a cache and never fail; they may be arbitrarily stale.
  `fresh` in the worker says whether its copy of the object still has the
  current resource version; a status update of an outdated copy is refused.
* **Writes** succeed, are refused (conflict, already exists, not found), fail
  without effect (`CallFails`), or take effect although the answer is lost
  (`ok = FALSE` in an action that writes).
* **Events** of one object that are undelivered are folded into one, which
  remembers whether the predicates of the watch would let it pass. Observing
  the events one by one is the same as the writer acting later.
* **Work queue**: a set, since requests are deduplicated. Returned errors put
  the request back; back-off delays are abstracted (any delay is allowed).
* **Garbage collector**: objects whose owner's UID is gone are orphans and are
  collected at some later time. An owner may also be deleted in the foreground:
  it stays, with a deletion timestamp, until its dependents are gone.
* **Restart**: caches are refilled, every existing object counts as created and
  everything in memory is lost.
* **Hashes** stand for what they are computed from: no collisions.
* The **periodic resync** of informers (ten hours by default) is left out, so
  "at rest" means until the next resync.

Definitions whose comment begins with "Mutant of" are not part of the model.
They are plausible bugs of the definition they name (an event that is filtered,
an error that is dropped, a guard that is missing); each property is checked to
fail when one of them replaces the real definition.

## 3. Runs

All runs say `CHECK_DEADLOCK FALSE`: a system that has settled, with its edits
and faults used up, rightly stops.

| run | instance | checks | shows |
|---|---|---|---|
| `SchedulingPolicy` | 1 policy, 2 cluster types, 1 target that moves, valid and malformed specs | `TypeOK`, `QuiescentConverged`, `IdempotentReconcile`, `EventuallyScheduled`, `ForegroundDeletionCompletes` | no update is lost for good; a settled policy is left alone; convergence and cleanup under fairness |
| `SchedulingPolicy_collide` | names with dashes, no edits | violates `EventuallyScheduled` | two assignments with one name: the policy fails forever |
| `GitOpsRepo` | 1 policy, 1 assignment, 1 cluster type, 2 versions, 2 repositories; base repo, restart, lost answers, retargeting | `TypeOK`, `ChangeNoticed`, `ReadyMeansPR`, `NoRepeatedPR`, `UsesPullRequest` | no watched change is overlooked; Ready=True is true; nothing is proposed twice; the contract of `CreatePR` is respected |
| `GitOpsRepo_stuck` | 3 edits, no faults | violates `ReadyToPRLeadsToPR` | the debounce timer is used up by an earlier deadline |
| `GithubRepo` | 3 contents (two targets, two cluster types, config map, env file or none, two promoted commits), 7 seconds, 2 edits, 2 faults | `TypeOK`, `PullRequestShowsContent`, `OnePullRequest`, `PromotionLabelled`, `RestingProposed`, `EventuallyProposed`, `ImplementsPullRequest` | failures between any two calls, and the retry, leave one pull request with the right files |
| `Rendering` | any three of nine config maps, three sets of schemas | `TypeOK`, `ConfigDataIsLayered`, `RenderingEnds` | the data is the same in every order of reading, wherever the code determines it |
| `Flux_mirror` | an environment and a base repo in its namespace, 2 specs (symmetric), lagging caches, restarts at any time | `TypeOK`, `RestingOwnerMirrored` | a resting owner is mirrored |
| `Flux_clean` | an environment and a registration, caches that show own writes | `DeletedOwnerCleaned`, `KustomizationHasRepo`, `EventuallyMirrored` | nothing is left behind |
| `Workload` | 1 workload, 1 target, 2 values of its data, 1 registration, 2 environments; owner labels with two segments, with one, none | `TypeOK`, `RestingTargetsWritten`, `RestingTargetsListed`, `EventuallyWritten`, `ForegroundDeletionCompletes` | what is listed for this environment is written, what is no longer named is gone; a deletion completes |
| `Workload_moved` | 1 edit, no faults | violates `RestingTargetsHere` | a target moved to another environment keeps its DeploymentTarget in the one it left |
| `Assignment_current` | 1 assignment, 1 template, 2 versions, config valid or not; delete, status conflict, GitHub failure, restart | `TypeOK`, `RestingIsUpToDate`, `FollowsProtocol`, `EventuallyUpToDate` | the package is rendered from what exists now, and written only while not ready |
| `Assignment_issues` | 2 assignments, config valid or not, no faults | `OwnIssue`, `FixedErrorClosesIssue`, `ErrorHasIssue` | the life of an issue |

**Bounds.** `MaxEdits` bounds what users do, `MaxFaults` failed calls, lost
answers and restarts, `MaxIssues` the issues at GitHub. Two edits and one fault
are enough for each hazard above: one edit to make work, one to invalidate what
the worker has read, one failure in between. Every object can be created, changed
and deleted, and the initial states range over all combinations of objects that
users may have created before the controller starts. In `SchedulingPolicy` two
cluster types give the loops of writes two turns, so that one may fail after the
other took effect; that policies do not disturb one another is left to the
theorems, which hold for any number of them. In `GithubRepo` two faults allow a
retry that fails, too, and `MaxSeconds` is large enough that every call can have
a branch of its own. In `Rendering` three config maps are the most whose order
matters at once: two that clash and one that comes between. In
`Assignment_current` target and template have two versions each, so that a package
may be out of date or, since a template is read once for each role, be made of both.
The versions are interchangeable, and `CurrentSpec` uses that: it starts with the
first version of the target. In `Flux_mirror`, where
caches lag on top, a constraint (`Budget`) allows two edits, or one edit and one
fault.

**Adversity.** In `GitOpsRepoController`, `GithubRepo`, `FluxReferences` and
`AssignmentController` the constant `Adversity` says which misfortunes occur. A
property is checked under every one it survives. Those it does not survive are
facts about the code:

| property | does not hold under | because |
|---|---|---|
| `ChangeNoticed` | `lag` | package updates are filtered out (`gitopsrepo_controller.go:363`), and the assignment's event may be handled before the package has reached its cache |
| `ChangeNoticed` | `relist` | the filter drops deletions of unknown final state |
| `ChangeNoticed` | `stale`, three edits | a ReadyToPR condition in a stale copy is taken for the new one, which is not set (`gitopsrepo_controller.go:134`) |
| `OnePullRequest` | `trailing` | the list of open pull requests is read once, one page of it |
| `RestingProposed` | `revert` | the pull request of the recorded content has been withdrawn by a failed call; when the content reverts nothing proposes it again |
| `RestingIsUpToDate` | `package` | `manageFailure` overwrites the error it was given, so it is not retried (`assignment_controller.go:242`) |
| `RestingIsUpToDate` | `types` | cluster types are not watched (§4) |
| `ErrorHasIssue`, `FixedErrorClosesIssue` | `status`, `restart` | the number of a new issue is lost with the status update that would record it: a duplicate follows, and the first issue is never closed |
| `ErrorHasIssue`, `FixedErrorClosesIssue` | `lookup` | a failed lookup is taken for absence (`githubrepo.go:446`) |
| `ErrorHasIssue`, `FixedErrorClosesIssue` | `delete` | an assignment that is deleted leaves its issue open; one of the same name starts without it |
| `DeletedOwnerCleaned` | `lag` | a cached NotFound is taken for absence (`flux.go:160`) |
| `DeletedOwnerCleaned` | `down` | deletions that happen while the manager is down are never seen; there are no finalizers |

Two properties say in their text what an adversity takes away. `ChangeNoticed`
under `base` lets the recorded hash differ in the base repo, which is hashed but
not watched (`gitopsrepo_controller.go:374`), and in nothing else. `ReadyMeansPR`
under `retarget` lets the pull request be in another repository, since the
repository is not part of the hash. `PromotionLabelled` is about branches made by
the call that succeeds: a retry within the same second finds the commit id in the
tree of the branch it reuses, and the label is never set
(`githubrepo.go:165`, `340`).

**Other facts the models show about the code.** Branches of failed calls and of
merged pull requests are never deleted. A file in the folder of a target that is
kept, but that the target no longer has, stays (`githubrepo.go:219-253`): a
target whose config becomes empty, or changes between env file and config map,
keeps the old file beside the new one. A list of config maps that fails gives no
data and no error (`assignment_controller.go:478`, 510): the package is rendered
without values and counts as ready. Config maps of Azure App Configuration are
merged in the order of the list, and keys of one length in the order of an
unstable sort, so a clash between them is decided by chance. Config data whose
values refer to each other is expanded for ever. A Flux owner label without a dash
makes `getWorkspaceLabel` panic (`workload_controller.go:201`): controller-runtime
recovers and retries, `manageFailure` is passed by, and the status of the workload
never says why it has no targets.

**Fairness.** Liveness is checked under `FairSpec`: informers deliver (weak
fairness), the garbage collector collects, a reconcile that has begun goes on,
and the work queue hands out every request in it. The queue is first in, first
out, which is why the last is strong fairness where several requests compete for
one worker. In `FluxReferences` it is enough that some worker goes on, whichever
it is. Users, faults and restarts are not fair; they are bounded. In
`AssignmentController` somebody creates the GitOpsRepo in the end: without one
the controller cannot close issues and retries for ever. In `GithubRepo` a failed
call is retried (the controller returns the error to the work queue); in
`Rendering` only that a step which can be made is made.

## 4. Disagreements between code and documents

* **Assignment names collide** (`scheduler/scheduler.go:140`). The README says
  that the scheduler creates an Assignment for each deployment target
  assignment. Names are joined with dashes that may occur in the parts; two
  triples with one name give one object, and the second Create fails for ever.
  It takes names with different numbers of dashes: otherwise the name identifies
  the assignment (`NamesIdentify`).
* **ReadyToPR without a pull request** (`gitopsrepo_controller.go:143`, 208).
  "create a pr in a timeout": when the content reverts and changes again within
  the timeout, the first deadline is the one the work queue keeps, and when it
  fires the new condition is too young. The next event or resync repairs it.
* **A moved target stays** (`workload_controller.go:84`). "Each deployment target
  defines a name, a reference to a rollout environment" (README). The loop that
  deletes means to spare only targets of this environment, but compares the
  namespace with the environment of the existing DeploymentTarget, which the
  controller wrote itself, and not with that of the workload's entry. A target
  moved to another environment is neither deleted here nor updated any more, while
  the workload reports Ready; policies here go on selecting it. The test does
  catch a DeploymentTarget whose own environment somebody edited by hand.
  `RestingTargetsListed` is the part that does hold: what the workload no longer
  names at all is deleted.

The following contradict a document or a comment, too, without a run of their own:

* **Cluster types are not watched** by the assignment controller
  (`assignment_controller.go:778`), although the project's constitution
  (`.specify/memory/constitution.md:111`) asks for watches on all dependent
  resources and `Reconcile` reads the cluster type. With adversity `types`,
  `RestingIsUpToDate` is violated: after a cluster type is edited, its assignments
  keep the status and the package that the old one gave.
* **The namespace of a deleted environment is not deleted.** A comment says
  "delete the namespace" and a message that this was done
  (`environment_controller.go:87`, 95), but between the two the namespace is only
  read. `FluxReferences` has no step that deletes it.

## 5. Proofs

Eight modules hold the theorems, checked by TLAPS from the named assumptions of
the module they extend (`ConstantsAssumption`: the bounds are naturals and names
of different kinds differ; `NoneAssumption`: the placeholder `None` is not one of
the values; `SourcesAssumption`: config maps are numbered in the order of their
names, and keys have parts and a length). Each proof has one case per action of the model, over an inductive
invariant that strengthens what it proves; TLC checked the invariants on small
instances before.

Some theorems have a hypothesis on the constants, named where it is used. Each
excludes exactly what the adversity table above says the property does not
survive, and nothing else: under every adversity that a hypothesis about
`Adversity` excludes, TLC finds the property violated.

| hypothesis | excludes |
|---|---|
| `NothingMissed` | `lag`, `stale`, `relist` of `GitOpsRepoController` |
| `NothingLost` | `delete`, `status`, `lookup`, `restart` of `AssignmentController`; it leaves `types`, `package` and `github` |
| `NoBlindSpot` | `types`, `package` of `AssignmentController`; it leaves `delete`, `status`, `lookup`, `github` and `restart` |
| `AreValues(V, depth)`, `Unfold(V)`, `ValuesIn(V)` of `RenderingProofs` | nothing the code can be given but what the paragraph on rendering names; they say what a value is, and that `Merged` and `TextsIn` satisfy their recursive definitions on values |
| `NamesDiffer` | two owners with the same `<namespace>-<name>`: they overwrite each other's Flux resources (`baserepo_controller.go:72`) |

| module | theorem | says |
|---|---|---|
| `SchedulingPolicyProofs` | `TypeCorrect` | `Spec => []TypeOK` |
| | `Convergence` | `Spec => []QuiescentConverged` |
| | `Idempotence` | `Spec => IdempotentReconcile` |
| | `OneOfEach` | a policy at rest has exactly one assignment of each selected target with each selected cluster type, and no other |
| | `NamesIdentify` | two assignments with one name are the same one if their workloads' names have equally many dashes, and so have their targets' |
| `GitOpsRepoProofs` | `TypeCorrect` | `Spec => []TypeOK` |
| | `ReadyIsTrue` | `Spec => []ReadyMeansPR` |
| | `NothingProposedTwice` | `Spec => NoRepeatedPR` |
| | `ControllerUsesPullRequest` | `Spec => UsesPullRequest` |
| | `EnvironmentFollowsProtocol` | the environment's assignments and packages follow `AssignmentProtocol` |
| | `ChangesNoticed` | `NothingMissed => (Spec => []ChangeNoticed)` |
| `GithubRepoProofs` | `TypeCorrect` | `Spec => []TypeOK` |
| | `PullRequestsShowContent` | `Spec => []PullRequestShowsContent` |
| | `OneProposal` | unless lists trail, `Spec => []OnePullRequest` |
| | `StaysProposed` | unless content reverts, `Spec => []RestingProposed` |
| | `ClientImplementsPullRequest` | `Spec => ImplementsPullRequest` |
| | `SuccessIsProposed` | a call that reports success has left a pull request with its content |
| | `PromotionsLabelled` | `Spec => []PromotionLabelled` |
| `AssignmentProofs` | `TypeCorrect` | `Spec => []TypeOK` |
| | `OwnIssues` | `Spec => []OwnIssue` |
| | `ControllerFollowsProtocol` | `Spec => FollowsProtocol` |
| `AssignmentRestProofs` | `RestsUpToDate` | `NoBlindSpot => (Spec => []RestingIsUpToDate)` |
| | `FixedErrorsCloseIssues` | `NothingLost => (Spec => []FixedErrorClosesIssue)` |
| | `ErrorsHaveIssues` | `NothingLost => (Spec => []ErrorHasIssue)` |
| `WorkloadProofs` | `TypeCorrect` | `Spec => []TypeOK` |
| | `TargetsWritten` | `Spec => []RestingTargetsWritten` |
| | `TargetsListed` | `Spec => []RestingTargetsListed`; the stronger `RestingTargetsHere` is false |
| | `NeverTakenOver` | a DeploymentTarget never changes its owner |
| `FluxProofs` | `TypeCorrect` | `Spec => []TypeOK` |
| | `OwnersMirrored` | `NamesDiffer => (Spec => []RestingOwnerMirrored)` |
| | `RepoOutlivesKustomization` | with `NamesDiffer` and without `lag`, `Spec => []KustomizationHasRepo` |
| | `DeletedCleaned` | with `NamesDiffer` and without adversity, `Spec => []DeletedOwnerCleaned` |
| `RenderingProofs` | `TypeCorrect` | `Spec => []TypeOK` |
| | `MergeLosesNothing` | merging two values, however deep, keeps all texts of the new one and those of the old one whose place is not taken, and adds none; the result is a value |
| | `DataIsLayered` | `Spec => []ConfigDataIsLayered` |
| | `ExpansionDescends` | on config data without cycles a pass over templates leaves only templates of lower rank |

**Scheduling policy.** They hold for any sets of policies, cluster types, targets, selectors and any
bounds on edits and faults; in particular names may collide.

`QuiescentConverged` speaks only of states in which nothing is going on, so it
says nothing of how they come about and is not inductive. The invariant `IInv`
adds, with `TypeInv` (types, and that the worker is idle exactly when it holds no
policy):

* **Coherent** — a cache that differs from the API server has an undelivered
  event: for policies and their deletion timestamps, cluster types, targets,
  assignments (whose event also names the owner that must be woken up).
* **InHandCurrent** — the local variables of the worker are right, or something
  on its way will make the policy be reconciled again: the list of cluster types
  equals the cache, the matrix is what the current spec asks for, what is still
  to be deleted and created is the difference between the matrix and the
  assignments.
* **Resting** implies **Converged** — the property itself, for a policy that the
  worker does not hold.

The proof has one case per action. User steps and collector steps break
coherence and leave an event; deliveries restore it and fill the queue; the
steps of the worker extend `InHandCurrent`; and `Finish`, whose loops are done,
turns it into `Converged` (`FinishConverges`). The lemma `SameView` says that
two views of the assignments which agree on a policy's own give the same
difference, `ConvergedStep` that a converged policy
has nothing to delete or create, from which `Idempotence` follows with
`InHandCurrent`. `QuiescentConverged` compares sets of specs; `OneOfEach` adds that
no two assignments have the same target and cluster type, which takes that an
assignment is under the name its spec has (`Named`).

**GitOps repo controller.** `Inv` adds to the types: `Fresh` — without an
undelivered event the cache shows the GitOpsRepo as it is, and the worker's copy
is the truth as long as an update of it would be accepted; `Announced` — from the
status update that precedes `CreatePR` to the one that follows, Ready is not True
and the content is not the recorded one. That update is what makes both
properties hold for a stale copy: it is refused. These theorems hold under every
adversity of the module.

`ChangesNoticed` speaks of rest only and needs two more parts. `Coherent`: a cache
without an undelivered event shows what the API server has, and when the dropped
event of a package is under way then its assignment is not ready, or its event is
under way, too; this is where `AssignmentProtocol` and the order of the two events
enter. `Noticing`: unless something will make Reconcile run again (`Stirring`),
the run in progress has what the namespace wants in hand and a copy of the
GitOpsRepo whose update will be accepted, or the status is right already. Of all
steps only `Begin` uses up a reason to run again, and it starts from the caches
(`CachesShow`); the others keep one (`StirringOther`, `StirringDelivery`) or end
with the request back in the queue.

**GitHub client.** `Inv` adds: `Pushed` — after the push, the branch and every
pull request open on it have the content of the call; `Cleaned` — what is open is
about to be deleted; `Made` — the pull request made is the last one and has not
been withdrawn; `Steady` — a call is made only for what is not recorded. The
lemmas about trees (`EntriesOnePerPath`, `NewTreeShows`) carry
`PullRequestsShowContent`: whatever tree a failed attempt left, `NewTree` of it
shows the content. The refinement maps the last pull request to `pr`, and every
step to a step of `PullRequest` or a stutter (`PromiseStep`).

`PromotionsLabelled` rests on an invariant of its own: `OwnBranch` — a branch that
the call has made stays, with the tree it was forked from, and nothing is open on
it before the call proposes it, so that cleaning up does not delete it; `Labelling`
— the label is due exactly for what is new against the tree of the fork.

**Assignment controller.** `Inv` adds: `Owned` — the number in a status, in the
cache and in the worker's copy is that of an issue made for the assignment;
`Reported` — while the worker is busy with an assignment, that assignment is not
ready. The second is why a package is written under the protocol, also by a worker
whose assignment was deleted and made again in the meantime.

`RestInv`, for `RestsUpToDate`: the three caches differ from the API server only
where an event is under way; and for every assignment about which nothing is under
way (`Quiet`), either the worker holds it and everything it has read so far is
what the caches show (`InHandCurrent`, one conjunct per point of the reconcile), or
its status and package are those of the cached inputs (`CacheUpToDate`). An edit of
an input between two reads is no exception: its delivery puts the assignment back
into the queue, and it is `Quiet` no longer. `FailureIn` and `OutcomeIn` say what
rendering gives for given inputs; `SameInputs` that they depend on the inputs of
the assignment alone.

`IssueInv`, for the two theorems about issues: `Filed` — the open issues of an
assignment are the one in its status, or none, and the message of the issue is
that of the status. It holds of the stored status while no worker holds the
assignment (`FiledAtRest`) and of the worker's copy while one does (`FiledInHand`).

**Workload.** `IInv` is the pattern of the scheduling policy: coherent caches;
`FreshSpec` — a copy that the API server would accept has the current spec;
`ListedOwned` — a listed target whose update would be accepted is the workload's; `InHandCurrent` —
what the two loops have left to do is all that is wrong with the targets, unless
the workload will be reconciled again; `QuietConverged`. There is no hypothesis on
names: only targets of the workload are listed, so that the target of another one
with the same name is not found and created, which the API server refuses. That is
`NeverTakenOver`; the reconcile fails and returns to the queue, so that the workload is never at
rest.

**Flux owners.** `MirrorInv`: coherent cached owners; `FreshOwner`;
`DeletionInHand` — a worker goes on deleting for an owner that was created again
only if that will be reconciled again; `Written` — what the worker of one kind has
written nobody else changes, which is where `NamesDiffer` is needed, since the three
workers run concurrently. It holds also with lagging caches. `CleanInv` adds, without lag,
`FluxCoherent` (the caches of Flux resources), and `Withdrawn` (the repository goes
after the Kustomization).

**Rendering.** The merge comes first. `AreValues(V, depth)` says that `V` is the set of
all texts, maps and lists of values, of whatever depth: maps have finitely many keys,
which are strings, and at least one; lists are not empty, and no two maps in one list
have the same `name`, which is a text. `Unfold(V)` says that `Merged` and `TextsIn`
satisfy the equations of `ConfigMerge`. What this leaves out behaves
otherwise in the code: an empty map or list of higher precedence replaces a text but has
no text itself; two maps of one name in a list are both merged with a third; a name that
is a map or a list is not comparable in Go.

`MergeLosesNothing` is proved by induction over `depth` of the new value, for every old
one: `ReplacedValue` (a text, or values of different kinds), `MergedMaps` (key by key),
`MergedLists` (item by item, itself an induction over the items, with `AddedItem` for
one of them and `MergedName`, that an item keeps its name). The lemmas about paths say
when two texts clash: behind one step as they do without it (`ClashBehind`), behind
different steps only where a map meets a list (`ClashApart`). Induction over data is
stated with sets (`CountingUp`, `DepthInduction`): a set that has each element whose
predecessors it has is the whole. Both follow from the well-foundedness of the naturals.

`DataIsLayered` adds the loops. Its invariant: `OrderInv` — what is still to be read
comes later in the order of reading than what has been read; `LayerInv` — the data of a key is what survives of
the contributions read so far, so that each `Merged` lays one more contribution over
them (`LayerKept`). It holds for any config maps, labels and keys whose values are in
`V`, and takes of the merge only `MergeLosesNothing` (`LayeredByMerge`).

`ExpansionDescends` is the safety half of `RenderingEnds`: the variant that makes the
recursion of `replaceTemplateVariables` end.

TLC checks the same law of the merge on the values of the pool and what two of them
merge to, and that these values are such as the theorem speaks of (`MergeAssumption` of
`MCRendering`).

Only model-checked is liveness (`EventuallyScheduled`, `ForegroundDeletionCompletes`,
`EventuallyProposed`, `EventuallyWritten`, `EventuallyMirrored`, `EventuallyUpToDate`,
`RenderingEnds`), since TLAPS does not reason about `ENABLED`. That `Leaves` and
`MergeObjects`, declared recursive, satisfy the equations that declare them is how
TLA+ defines them for TLC; the proofs take it as the hypothesis `Unfold`.

Every other property that a passing run checks is a theorem.

## 6. Not modelled

* Of rendering: the formats of config manifests (`getConfigManifests`), the fields
  of the template's data and the helper functions, the parts of JSON schema
  beyond required keys and their types. In `AssignmentController` a package is the
  tuple of the versions it was rendered from.
* Of the GitHub client: parsing of the repository URL, and pages of lists (an
  incomplete list is adversity `trailing`). The fork of a branch is the base at
  the moment it is read; that a merge conflicts is users' business.
* Failing lists: a list from a cache does not fail once the cache has synced. The
  error branches are exercised in `Rendering` only, where they are swallowed.
* The deletion timestamp of a GitOpsRepo.
* In `WorkloadController` the workspace of a resting target (registrations are
  not watched, so it may be out of date) and two workloads whose target names
  collide; in `FluxReferences` owners whose Flux names collide.
* In `FluxReferences` finalizers that Flux itself puts on its resources: a deleted
  GitRepository or Kustomization is gone at once. That an owner is made again while
  those of the old one are still terminating is out of the model.
* In `AssignmentController` a resting assignment whose target is gone: the
  scheduling policy controller removes such assignments.
* `api/v1alpha1` beyond the types above, generated code, wiring, YAML, scripts.

## 7. Plan

In order of importance; the scheduling policy controller came first because
everything downstream hangs on its assignments.

1. Done: every controller and the GitHub client as modules with their runs; the
   two contracts between them; rendering; a theorem for every property of a passing
   run but liveness; the matrix of assignments; the merge of config data at any depth.
2. Proofs: the helper functions of `templater.go` as operators, if the formats of
   packages are ever modelled.
3. Violation runs for the rows of the adversity table that contradict a document.

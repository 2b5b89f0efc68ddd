---------------------------- MODULE FluxReferences ----------------------------
(***************************************************************************)
(* The three controllers that mirror an object of the control plane into a *)
(* pair of Flux resources: Environment, BaseRepo and WorkloadRegistration  *)
(* (controllers/environment_controller.go, baserepo_controller.go,         *)
(* workloadregistration_controller.go and flux.go).  Each controller has   *)
(* one worker; the workers run concurrently.  The Flux resources live in   *)
(* the one namespace flux-system and nobody watches them: the client reads *)
(* them through an informer cache.                                         *)
(*                                                                         *)
(* A name is the sequence of its dash-separated segments.                  *)
(***************************************************************************)
EXTENDS Naturals, Sequences

CONSTANTS
    Owners,             \* the objects: [kind, namespace, name]
    Specs,              \* what an owner refers to: repository, branch, path, commit
    None,
    Adversity,          \* what the environment may do, see below
    MaxEdits, MaxFaults

Kinds == {"Environment", "BaseRepo", "WorkloadRegistration"}

(***************************************************************************)
(* "lag"    the cache of the Flux resources and of the namespaces may      *)
(*          trail the controller's own writes                              *)
(* "down"   the controller restarts while a deletion is unhandled          *)
(***************************************************************************)
Adversities == {"lag", "down"}

\* Environments are cluster-scoped.
ASSUME ConstantsAssumption ==
    /\ \A o \in Owners : o.kind \in Kinds /\ (o.kind = "Environment" => o.namespace = << >>)
    /\ None \notin Specs \cup Owners
    /\ Adversity \subseteq Adversities
    /\ MaxEdits \in Nat /\ MaxFaults \in Nat

\* An Environment lends its name to its Flux resources; the name of the others
\* is "%s-%s" of namespace and name.
FluxName(o) == IF o.kind = "Environment" THEN o.name ELSE o.namespace \o o.name

\* Where Flux applies what it fetches.
TargetNamespace(o) == IF o.kind = "Environment" THEN o.name ELSE o.namespace

FluxNames  == {FluxName(o) : o \in Owners}
Namespaces == {TargetNamespace(o) : o \in Owners}

VARIABLES
    \* API server
    spec,           \* spec of each owner, or None
    terminating,    \* owners with a deletion timestamp
    ready,          \* owners whose Ready condition is True
    repos,          \* GitRepository by name: the spec it was made from, or None
    kustomizations, \* Kustomization by name: [spec, target], or None
    namespaces,     \* the namespaces that exist
    \* undelivered watch events: "none", "status" or "spec"; objects newer than
    \* their cached copy
    ownerEvent, repoEvents, kustomizationEvents, namespaceEvents,
    \* informer caches
    cSpec, cTerminating, cRepos, cKustomizations, cNamespaces,
    \* controllers
    queue,          \* owners to reconcile
    cur,            \* the worker of each kind
    edits, faults

apiVars   == <<spec, terminating, ready, repos, kustomizations, namespaces>>
eventVars == <<ownerEvent, repoEvents, kustomizationEvents, namespaceEvents>>
cacheVars == <<cSpec, cTerminating, cRepos, cKustomizations, cNamespaces>>
vars == <<apiVars, eventVars, cacheVars, queue, cur, edits, faults>>

Kustomizations == [spec : Specs, target : Namespaces]

IdleWorker == [pc |-> "idle", owner |-> None, spec |-> None, fresh |-> FALSE]

Busy(k) == cur[k].pc # "idle"

TypeOK ==
    /\ spec \in [Owners -> Specs \cup {None}]
    /\ terminating \subseteq Owners /\ ready \subseteq Owners
    /\ repos \in [FluxNames -> Specs \cup {None}]
    /\ kustomizations \in [FluxNames -> Kustomizations \cup {None}]
    /\ namespaces \subseteq Namespaces
    /\ ownerEvent \in [Owners -> {"none", "status", "spec"}]
    /\ repoEvents \subseteq FluxNames /\ kustomizationEvents \subseteq FluxNames
    /\ namespaceEvents \subseteq Namespaces
    /\ cSpec \in [Owners -> Specs \cup {None}] /\ cTerminating \subseteq Owners
    /\ cRepos \in [FluxNames -> Specs \cup {None}]
    /\ cKustomizations \in [FluxNames -> Kustomizations \cup {None}]
    /\ cNamespaces \subseteq Namespaces
    /\ queue \subseteq Owners
    /\ cur \in [Kinds -> [pc : {"idle", "namespace", "repo", "kustomization", "report",
                                "deleteKustomization", "deleteRepo", "fail"},
                          owner : Owners \cup {None}, spec : Specs \cup {None}, fresh : BOOLEAN]]
    /\ \A k \in Kinds : Busy(k) => cur[k].owner \in Owners /\ cur[k].owner.kind = k
    /\ edits \in 0..MaxEdits /\ faults \in 0..MaxFaults

Init ==
    /\ spec \in [Owners -> Specs \cup {None}]
    /\ terminating = {} /\ cTerminating = {} /\ ready = {}
    /\ repos = [n \in FluxNames |-> None]
    /\ kustomizations = [n \in FluxNames |-> None]
    /\ namespaces = {o.namespace : o \in {x \in Owners : x.kind # "Environment"}}
    /\ ownerEvent = [o \in Owners |-> "none"]
    /\ repoEvents = {} /\ kustomizationEvents = {} /\ namespaceEvents = {}
    /\ cSpec = spec /\ cRepos = repos /\ cKustomizations = kustomizations
    /\ cNamespaces = namespaces
    /\ queue = {o \in Owners : spec[o] # None}
    /\ cur = [k \in Kinds |-> IdleWorker]
    /\ edits = 0 /\ faults = 0

(***************************************************************************)
(* Users create, change and delete owners.                                 *)
(***************************************************************************)
Edit == edits < MaxEdits /\ edits' = edits + 1

\* A write to owner o that outdates the copy its worker may hold.
TouchOwner(o) ==
    /\ ownerEvent' = [ownerEvent EXCEPT ![o] = "spec"]
    /\ cur' = [k \in Kinds |-> IF cur[k].owner = o THEN [cur[k] EXCEPT !.fresh = FALSE] ELSE cur[k]]
    /\ UNCHANGED <<repos, kustomizations, namespaces, repoEvents, kustomizationEvents,
                   namespaceEvents, cacheVars, queue, faults>>

ApplyOwner(o, s) ==
    /\ Edit
    /\ spec[o] # s
    /\ spec' = [spec EXCEPT ![o] = s]
    /\ ready' = IF spec[o] = None THEN ready \ {o} ELSE ready
    /\ TouchOwner(o)
    /\ UNCHANGED terminating

RemoveOwner(o) ==
    /\ spec[o] # None
    /\ spec' = [spec EXCEPT ![o] = None]
    /\ terminating' = terminating \ {o}
    /\ ready' = ready \ {o}
    /\ TouchOwner(o)

DeleteOwner(o) == Edit /\ o \notin terminating /\ RemoveOwner(o)

\* Deletion with foreground propagation: the garbage collector removes the owner, and
\* finds nothing else to do since nothing names the owner as such.
DeleteOwnerForeground(o) ==
    /\ Edit
    /\ spec[o] # None /\ o \notin terminating
    /\ terminating' = terminating \cup {o}
    /\ TouchOwner(o)
    /\ UNCHANGED <<spec, ready>>

CollectOwner(o) == o \in terminating /\ RemoveOwner(o) /\ UNCHANGED edits

(***************************************************************************)
(* Informers.  Owners are watched with GenerationChangedPredicate.         *)
(***************************************************************************)
\* Mutant of DeliverOwner: deletions are filtered out.
DeliverOwnerUnlessDeleted(o) ==
    /\ ownerEvent[o] # "none"
    /\ ownerEvent' = [ownerEvent EXCEPT ![o] = "none"]
    /\ cSpec' = [cSpec EXCEPT ![o] = spec[o]]
    /\ cTerminating' = IF o \in terminating THEN cTerminating \cup {o} ELSE cTerminating \ {o}
    /\ queue' = IF ownerEvent[o] = "spec" /\ spec[o] # None THEN queue \cup {o} ELSE queue
    /\ UNCHANGED <<apiVars, repoEvents, kustomizationEvents, namespaceEvents, cRepos,
                   cKustomizations, cNamespaces, cur, edits, faults>>

DeliverOwner(o) ==
    /\ ownerEvent[o] # "none"
    /\ ownerEvent' = [ownerEvent EXCEPT ![o] = "none"]
    /\ cSpec' = [cSpec EXCEPT ![o] = spec[o]]
    /\ cTerminating' = IF o \in terminating THEN cTerminating \cup {o} ELSE cTerminating \ {o}
    /\ queue' = IF ownerEvent[o] = "spec" THEN queue \cup {o} ELSE queue
    /\ UNCHANGED <<apiVars, repoEvents, kustomizationEvents, namespaceEvents, cRepos,
                   cKustomizations, cNamespaces, cur, edits, faults>>

DeliverRepo(n) ==
    /\ n \in repoEvents
    /\ repoEvents' = repoEvents \ {n}
    /\ cRepos' = [cRepos EXCEPT ![n] = repos[n]]
    /\ UNCHANGED <<apiVars, ownerEvent, kustomizationEvents, namespaceEvents, cSpec, cTerminating,
                   cKustomizations, cNamespaces, queue, cur, edits, faults>>

DeliverKustomization(n) ==
    /\ n \in kustomizationEvents
    /\ kustomizationEvents' = kustomizationEvents \ {n}
    /\ cKustomizations' = [cKustomizations EXCEPT ![n] = kustomizations[n]]
    /\ UNCHANGED <<apiVars, ownerEvent, repoEvents, namespaceEvents, cSpec, cTerminating, cRepos,
                   cNamespaces, queue, cur, edits, faults>>

DeliverNamespace(ns) ==
    /\ ns \in namespaceEvents
    /\ namespaceEvents' = namespaceEvents \ {ns}
    /\ cNamespaces' = cNamespaces \cup {ns}
    /\ UNCHANGED <<apiVars, ownerEvent, repoEvents, kustomizationEvents, cSpec, cTerminating, cRepos,
                   cKustomizations, queue, cur, edits, faults>>

(***************************************************************************)
(* Reconcile.                                                              *)
(***************************************************************************)

Fault == faults < MaxFaults /\ faults' = faults + 1

Answered(ok) == IF ok THEN UNCHANGED faults ELSE Fault

GoTo(k, pc) == cur' = [cur EXCEPT ![k].pc = pc]

\* Continue after a call that succeeded, take the error path after one that did not.
Continue(k, ok, pc) == GoTo(k, IF ok THEN pc ELSE "fail") /\ UNCHANGED queue

\* Mutant of Return: an error is not reported to the work queue.
ReturnSwallowing(k, error) == cur' = [cur EXCEPT ![k] = IdleWorker] /\ UNCHANGED queue

Return(k, error) ==
    /\ cur' = [cur EXCEPT ![k] = IdleWorker]
    /\ queue' = IF error THEN queue \cup {cur[k].owner} ELSE queue

\* The cache shows the controller's own writes at once, unless it may lag.
UpToDate(x, events) == x \notin events \/ "lag" \in Adversity

WorkerFrame == UNCHANGED <<spec, terminating, cacheVars, edits>>

\* The cache does not have the owner, or has it with a deletion timestamp.
Deleted(o) == cSpec[o] = None \/ o \in cTerminating

\* Mutant of Begin: a controller takes the objects of other kinds too.
BeginAnyKind(k, o) ==
    /\ ~Busy(k) /\ o \in queue
    /\ queue' = queue \ {o}
    /\ cur' = [cur EXCEPT ![k] =
                  [pc    |-> IF Deleted(o) THEN "deleteKustomization"
                             ELSE IF k = "Environment" THEN "namespace" ELSE "repo",
                   owner |-> o, spec |-> cSpec[o],
                   fresh |-> cSpec[o] # None /\ ownerEvent[o] = "none"]]
    /\ WorkerFrame
    /\ UNCHANGED <<ready, repos, kustomizations, namespaces, eventVars, faults>>

\* Mutant of Begin: the Kustomization is not deleted with the repository.
BeginDeletesRepoOnly(k, o) ==
    /\ ~Busy(k) /\ o.kind = k /\ o \in queue
    /\ queue' = queue \ {o}
    /\ cur' = [cur EXCEPT ![k] =
                  [pc    |-> IF Deleted(o) THEN "deleteRepo"
                             ELSE IF k = "Environment" THEN "namespace" ELSE "repo",
                   owner |-> o, spec |-> cSpec[o],
                   fresh |-> cSpec[o] # None /\ ownerEvent[o] = "none"]]
    /\ WorkerFrame
    /\ UNCHANGED <<ready, repos, kustomizations, namespaces, eventVars, faults>>

\* Get the owner.
Begin(k, o) ==
    /\ ~Busy(k) /\ o.kind = k /\ o \in queue
    /\ queue' = queue \ {o}
    /\ cur' = [cur EXCEPT ![k] =
                  [pc    |-> IF Deleted(o) THEN "deleteKustomization"
                             ELSE IF k = "Environment" THEN "namespace" ELSE "repo",
                   owner |-> o, spec |-> cSpec[o],
                   fresh |-> cSpec[o] # None /\ ownerEvent[o] = "none"]]
    /\ WorkerFrame
    /\ UNCHANGED <<ready, repos, kustomizations, namespaces, eventVars, faults>>

\* An environment gets its namespace unless the cache shows that it exists.
EnsureNamespace(k, ok) ==
    /\ cur[k].pc = "namespace"
    /\ LET ns == TargetNamespace(cur[k].owner)
       IN  /\ UpToDate(ns, namespaceEvents)
           /\ CASE ns \in cNamespaces -> ok /\ UNCHANGED <<namespaces, namespaceEvents, faults>>
                [] ns \notin cNamespaces /\ ns \in namespaces ->
                     ~ok /\ UNCHANGED <<namespaces, namespaceEvents, faults>>
                [] ns \notin cNamespaces /\ ns \notin namespaces ->
                     /\ namespaces' = namespaces \cup {ns}
                     /\ namespaceEvents' = namespaceEvents \cup {ns}
                     /\ Answered(ok)
    /\ Continue(k, ok, "repo")
    /\ WorkerFrame
    /\ UNCHANGED <<ready, repos, kustomizations, ownerEvent, repoEvents, kustomizationEvents>>

\* Get and then Update or Create.  An update needs the current object, a
\* creation an object that is not there.
Writable(n, objects, cached, events) ==
    IF cached[n] # None THEN n \notin events ELSE objects[n] = None

CreateFluxGitRepository(k, ok) ==
    /\ cur[k].pc = "repo"
    /\ LET n == FluxName(cur[k].owner)
       IN  /\ UpToDate(n, repoEvents)
           /\ IF Writable(n, repos, cRepos, repoEvents)
              THEN /\ repos' = [repos EXCEPT ![n] = cur[k].spec]
                   /\ repoEvents' = IF repos[n] # cur[k].spec THEN repoEvents \cup {n} ELSE repoEvents
                   /\ Answered(ok)
              ELSE ~ok /\ UNCHANGED <<repos, repoEvents, faults>>
    /\ Continue(k, ok, "kustomization")
    /\ WorkerFrame
    /\ UNCHANGED <<ready, kustomizations, namespaces, ownerEvent, kustomizationEvents,
                   namespaceEvents>>

CreateFluxKustomization(k, ok) ==
    /\ cur[k].pc = "kustomization"
    /\ LET n == FluxName(cur[k].owner)
           obj == [spec |-> cur[k].spec, target |-> TargetNamespace(cur[k].owner)]
       IN  /\ UpToDate(n, kustomizationEvents)
           /\ IF Writable(n, kustomizations, cKustomizations, kustomizationEvents)
              THEN /\ kustomizations' = [kustomizations EXCEPT ![n] = obj]
                   /\ kustomizationEvents' = IF kustomizations[n] # obj
                                             THEN kustomizationEvents \cup {n}
                                             ELSE kustomizationEvents
                   /\ Answered(ok)
              ELSE ~ok /\ UNCHANGED <<kustomizations, kustomizationEvents, faults>>
    /\ Continue(k, ok, "report")
    /\ WorkerFrame
    /\ UNCHANGED <<ready, repos, namespaces, ownerEvent, repoEvents, namespaceEvents>>

\* Status().Update of the owner: refused when the object has changed.
WriteStatus(o, isReady, fresh, ok) ==
    IF fresh
    THEN LET now == IF isReady THEN ready \cup {o} ELSE ready \ {o}
         IN  /\ ready' = now
             /\ ownerEvent' = [ownerEvent EXCEPT ![o] =
                                  IF @ = "none" /\ now # ready THEN "status" ELSE @]
             /\ Answered(ok)
    ELSE ~ok /\ UNCHANGED <<ready, ownerEvent, faults>>

\* Both Flux resources are written: report Ready.
Report(k, ok) ==
    /\ cur[k].pc = "report"
    /\ WriteStatus(cur[k].owner, TRUE, cur[k].fresh, ok)
    /\ Return(k, ~ok)
    /\ WorkerFrame
    /\ UNCHANGED <<repos, kustomizations, namespaces, repoEvents, kustomizationEvents,
                   namespaceEvents>>

\* Delete, unless the cache shows nothing to delete; an object that is gone is
\* an error then.
DeleteFluxKustomization(k, ok) ==
    /\ cur[k].pc = "deleteKustomization"
    /\ LET n == FluxName(cur[k].owner)
       IN  /\ UpToDate(n, kustomizationEvents)
           /\ CASE cKustomizations[n] = None ->
                     ok /\ UNCHANGED <<kustomizations, kustomizationEvents, faults>>
                [] cKustomizations[n] # None /\ kustomizations[n] = None ->
                     ~ok /\ UNCHANGED <<kustomizations, kustomizationEvents, faults>>
                [] cKustomizations[n] # None /\ kustomizations[n] # None ->
                     /\ kustomizations' = [kustomizations EXCEPT ![n] = None]
                     /\ kustomizationEvents' = kustomizationEvents \cup {n}
                     /\ Answered(ok)
    /\ Continue(k, ok, "deleteRepo")
    /\ WorkerFrame
    /\ UNCHANGED <<ready, repos, namespaces, ownerEvent, repoEvents, namespaceEvents>>

\* The last write of the deletion: the namespace of an environment is read, and
\* left alone.
DeleteFluxGitRepository(k, ok) ==
    /\ cur[k].pc = "deleteRepo"
    /\ LET n == FluxName(cur[k].owner)
       IN  /\ UpToDate(n, repoEvents)
           /\ CASE cRepos[n] = None -> ok /\ UNCHANGED <<repos, repoEvents, faults>>
                [] cRepos[n] # None /\ repos[n] = None ->
                     ~ok /\ UNCHANGED <<repos, repoEvents, faults>>
                [] cRepos[n] # None /\ repos[n] # None ->
                     /\ repos' = [repos EXCEPT ![n] = None]
                     /\ repoEvents' = repoEvents \cup {n}
                     /\ Answered(ok)
    /\ IF ok THEN Return(k, FALSE) ELSE Continue(k, FALSE, "fail")
    /\ WorkerFrame
    /\ UNCHANGED <<ready, kustomizations, namespaces, ownerEvent, kustomizationEvents,
                   namespaceEvents>>

\* Mutant of ManageFailure: the error is dropped once it is in the status.
ManageFailureAndForget(k) ==
    /\ cur[k].pc = "fail"
    /\ WriteStatus(cur[k].owner, FALSE, cur[k].fresh, TRUE)
    /\ Return(k, FALSE)
    /\ WorkerFrame
    /\ UNCHANGED <<repos, kustomizations, namespaces, repoEvents, kustomizationEvents,
                   namespaceEvents>>

\* manageFailure; the error is returned whatever becomes of the status update.
ManageFailure(k) ==
    /\ cur[k].pc = "fail"
    /\ \E ok \in BOOLEAN : WriteStatus(cur[k].owner, FALSE, cur[k].fresh, ok)
    /\ Return(k, TRUE)
    /\ WorkerFrame
    /\ UNCHANGED <<repos, kustomizations, namespaces, repoEvents, kustomizationEvents,
                   namespaceEvents>>

\* A call fails without effect.
CallFails(k) ==
    /\ Busy(k)
    /\ Fault
    /\ IF cur[k].pc \in {"report", "fail"} THEN Return(k, TRUE) ELSE Continue(k, FALSE, "fail")
    /\ WorkerFrame
    /\ UNCHANGED <<ready, repos, kustomizations, namespaces, eventVars>>

\* Some deleted owner may not have been seen to the end.
DeletionUnhandled ==
    \E o \in Owners : /\ spec[o] = None
                      /\ \/ o \in queue
                         \/ ownerEvent[o] = "spec"
                         \/ \E k \in Kinds : cur[k].owner = o

\* The manager restarts: only objects that exist are reported.
Restart ==
    /\ DeletionUnhandled => "down" \in Adversity
    /\ Fault
    /\ cSpec' = spec /\ cTerminating' = terminating /\ cRepos' = repos /\ cKustomizations' = kustomizations
    /\ cNamespaces' = namespaces
    /\ ownerEvent' = [o \in Owners |-> "none"]
    /\ repoEvents' = {} /\ kustomizationEvents' = {} /\ namespaceEvents' = {}
    /\ queue' = {o \in Owners : spec[o] # None}
    /\ cur' = [k \in Kinds |-> IdleWorker]
    /\ UNCHANGED <<apiVars, edits>>

-----------------------------------------------------------------------------
UserStep ==
    \/ \E o \in Owners, s \in Specs : ApplyOwner(o, s)
    \/ \E o \in Owners : DeleteOwner(o)
    \/ \E o \in Owners : DeleteOwnerForeground(o)

DeliveryStep ==
    \/ \E o \in Owners : DeliverOwner(o)
    \/ \E n \in FluxNames : DeliverRepo(n)
    \/ \E n \in FluxNames : DeliverKustomization(n)
    \/ \E ns \in Namespaces : DeliverNamespace(ns)

WorkerStep(k) ==
    \/ \E o \in Owners : Begin(k, o)
    \/ \E ok \in BOOLEAN : EnsureNamespace(k, ok)
    \/ \E ok \in BOOLEAN : CreateFluxGitRepository(k, ok)
    \/ \E ok \in BOOLEAN : CreateFluxKustomization(k, ok)
    \/ \E ok \in BOOLEAN : Report(k, ok)
    \/ \E ok \in BOOLEAN : DeleteFluxKustomization(k, ok)
    \/ \E ok \in BOOLEAN : DeleteFluxGitRepository(k, ok)
    \/ ManageFailure(k)
    \/ CallFails(k)

Next ==
    \/ UserStep
    \/ \E o \in Owners : CollectOwner(o)
    \/ DeliveryStep
    \/ \E k \in Kinds : WorkerStep(k)
    \/ Restart

Spec == Init /\ [][Next]_vars

\* The informers keep going, and so does some worker: which one does not matter.
FairSpec == Spec /\ WF_vars(DeliveryStep) /\ WF_vars(\E o \in Owners : WorkerStep(o.kind))

(***************************************************************************)
(* Properties.                                                             *)
(***************************************************************************)

\* Nothing will make its controller reconcile o.
Calm(o) ==
    /\ o \notin queue
    /\ ownerEvent[o] # "spec"
    /\ \A k \in Kinds : cur[k].owner # o

\* Its Flux resources are those of its spec.
Mirrored(o) ==
    /\ repos[FluxName(o)] = spec[o]
    /\ kustomizations[FluxName(o)] = [spec |-> spec[o], target |-> TargetNamespace(o)]

Alive(o) == spec[o] # None /\ o \notin terminating

Cleaned(o) == repos[FluxName(o)] = None /\ kustomizations[FluxName(o)] = None

\* An owner at rest is ready and mirrored, whatever calls were refused, failed or
\* took effect unnoticed, and however stale the cached Flux resources were.
RestingOwnerMirrored ==
    \A o \in Owners : Calm(o) /\ Alive(o) => o \in ready /\ Mirrored(o)

\* The Flux resources of a deleted owner are deleted: CreateFluxReferenceResources
\* and DeleteFluxReferenceResources leave nothing behind between them.
DeletedOwnerCleaned == \A o \in Owners : Calm(o) /\ ~Alive(o) => Cleaned(o)

\* Flux never fetches for a Kustomization whose GitRepository does not exist: the
\* repository is created before it and deleted after it.
KustomizationHasRepo ==
    \A n \in FluxNames : kustomizations[n] # None => repos[n] # None

\* Every owner ends up mirrored and ready, or gone together with its resources.
EventuallyMirrored ==
    <>[](\A o \in Owners : IF Alive(o) THEN o \in ready /\ Mirrored(o) ELSE Cleaned(o))
=============================================================================

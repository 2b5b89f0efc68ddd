-------------------------- MODULE WorkloadController --------------------------
(***************************************************************************)
(* The workload controller of one namespace                                *)
(* (controllers/workload_controller.go): it turns the targets listed in a  *)
(* Workload into DeploymentTarget objects, labelled with the workspace of  *)
(* the workload's registration.                                            *)
(*                                                                         *)
(* A name is the sequence of its dash-separated segments.  What a target   *)
(* carries besides its environment (labels, manifests, config schemas) is  *)
(* one value, its data.                                                    *)
(***************************************************************************)
EXTENDS Naturals, Sequences

CONSTANTS
    Workloads,        \* names of workloads
    TargetNames,      \* names of targets inside a workload
    Data,             \* what a target may carry
    FluxLabels,       \* values of the Flux owner label; << >> when there is none
    RegistrationNames,\* names of workload registrations
    Workspaces,       \* values of a registration's workspace
    Namespace,        \* the namespace, which is also the name of its environment
    Elsewhere,        \* another environment
    None,
    MaxEdits, MaxFaults

\* buildDeploymentTargetName
TargetName(w, t) == w \o t

DeploymentTargetNames == {TargetName(w, t) : w \in Workloads, t \in TargetNames}

\* A Workload lists at most one target of a name.
TargetDetails == [env : {Namespace, Elsewhere}, data : Data]
WorkloadSpecs ==
    [targets : [TargetNames -> TargetDetails \cup {None}], flux : FluxLabels]

\* A DeploymentTarget, with the workload label that also names its owner.
NoWorkspace == << >>
DeploymentTargets ==
    [workload : Workloads, env : {Namespace, Elsewhere}, data : Data,
     workspace : Workspaces \cup {NoWorkspace}]

ASSUME ConstantsAssumption ==
    /\ Namespace # Elsewhere
    /\ None \notin TargetDetails \cup WorkloadSpecs \cup DeploymentTargets \cup Workloads
    /\ MaxEdits \in Nat /\ MaxFaults \in Nat

VARIABLES
    \* API server
    workloads,     \* spec of each workload, or None
    terminating,   \* workloads with a deletion timestamp
    ready,         \* workloads whose Ready condition is True
    registrations, \* workspace of each registration, or None
    targets,       \* the DeploymentTargets by name, or None
    orphans,       \* those whose owner is gone
    \* undelivered watch events
    workloadEvent,      \* "none", "status" or "spec"
    registrationEvents, \* registrations newer than their cached copy
    ownerEvents,        \* for each DeploymentTarget, the owners its events name
    \* informer caches
    cWorkloads, cTerminating, cRegistrations, cTargets,
    dead,          \* workloads of which the cache holds an instance deleted since
    \* controller
    queue, cur, edits, faults

apiVars   == <<workloads, terminating, ready, registrations, targets, orphans>>
eventVars == <<workloadEvent, registrationEvents, ownerEvents>>
cacheVars == <<cWorkloads, cTerminating, cRegistrations, cTargets, dead>>
vars == <<apiVars, eventVars, cacheVars, queue, cur, edits, faults>>

OfWorkload(ts, w) == {n \in DeploymentTargetNames : ts[n] # None /\ ts[n].workload = w}

IdleWorker == [pc |-> "idle", workload |-> None, spec |-> None, fresh |-> FALSE, live |-> FALSE,
               listed |-> {}, stale |-> {}, toDelete |-> {}, toWrite |-> {}]

TypeOK ==
    /\ workloads \in [Workloads -> WorkloadSpecs \cup {None}]
    /\ terminating \subseteq Workloads /\ ready \subseteq Workloads
    /\ registrations \in [RegistrationNames -> Workspaces \cup {None}]
    /\ targets \in [DeploymentTargetNames -> DeploymentTargets \cup {None}]
    /\ orphans \subseteq DeploymentTargetNames
    /\ workloadEvent \in [Workloads -> {"none", "status", "spec"}]
    /\ registrationEvents \subseteq RegistrationNames
    /\ ownerEvents \in [DeploymentTargetNames -> SUBSET Workloads]
    /\ cWorkloads \in [Workloads -> WorkloadSpecs \cup {None}]
    /\ cRegistrations \in [RegistrationNames -> Workspaces \cup {None}]
    /\ cTargets \in [DeploymentTargetNames -> DeploymentTargets \cup {None}]
    /\ cTerminating \subseteq Workloads /\ dead \subseteq Workloads
    /\ queue \subseteq Workloads
    /\ cur \in [pc : {"idle", "list", "write", "fail"},
                workload : Workloads \cup {None}, spec : WorkloadSpecs \cup {None},
                fresh : BOOLEAN, live : BOOLEAN,
                listed : SUBSET DeploymentTargetNames, stale : SUBSET DeploymentTargetNames,
                toDelete : SUBSET DeploymentTargetNames, toWrite : SUBSET TargetNames]
    /\ edits \in 0..MaxEdits /\ faults \in 0..MaxFaults

Init ==
    /\ workloads \in [Workloads -> WorkloadSpecs \cup {None}]
    /\ terminating = {} /\ ready = {}
    /\ registrations \in [RegistrationNames -> Workspaces]
    /\ targets = [n \in DeploymentTargetNames |-> None]
    /\ orphans = {}
    /\ workloadEvent = [w \in Workloads |-> "none"]
    /\ registrationEvents = {}
    /\ ownerEvents = [n \in DeploymentTargetNames |-> {}]
    /\ cWorkloads = workloads /\ cRegistrations = registrations /\ cTargets = targets
    /\ cTerminating = {} /\ dead = {}
    /\ queue = {w \in Workloads : workloads[w] # None}
    /\ cur = IdleWorker
    /\ edits = 0 /\ faults = 0

(***************************************************************************)
(* Users and the garbage collector.                                        *)
(***************************************************************************)

Edit == edits < MaxEdits /\ edits' = edits + 1

\* A write to workload w that outdates the copy the worker may hold.
TouchWorkload(w, live) ==
    /\ workloadEvent' = [workloadEvent EXCEPT ![w] = "spec"]
    /\ cur' = IF cur.workload = w THEN [cur EXCEPT !.fresh = FALSE, !.live = @ /\ live] ELSE cur
    /\ UNCHANGED <<registrations, targets, registrationEvents, ownerEvents, cWorkloads,
                   cTerminating, cRegistrations, cTargets, queue, faults>>

ApplyWorkload(w, spec) ==
    /\ Edit
    /\ workloads[w] # spec
    /\ workloads' = [workloads EXCEPT ![w] = spec]
    /\ ready' = IF workloads[w] = None THEN ready \ {w} ELSE ready
    /\ TouchWorkload(w, TRUE)
    /\ UNCHANGED <<terminating, orphans, dead>>

\* The object goes away; its targets are left to the garbage collector.
RemoveWorkload(w) ==
    /\ workloads[w] # None
    /\ workloads' = [workloads EXCEPT ![w] = None]
    /\ terminating' = terminating \ {w}
    /\ ready' = ready \ {w}
    /\ orphans' = orphans \cup OfWorkload(targets, w)
    /\ dead' = dead \cup {w}
    /\ TouchWorkload(w, FALSE)

DeleteWorkload(w) == Edit /\ w \notin terminating /\ RemoveWorkload(w)

\* Deletion with foreground propagation: the targets go first.
DeleteWorkloadForeground(w) ==
    /\ Edit
    /\ workloads[w] # None /\ w \notin terminating
    /\ terminating' = terminating \cup {w}
    /\ TouchWorkload(w, TRUE)
    /\ UNCHANGED <<workloads, ready, orphans, dead>>

CollectWorkload(w) ==
    /\ w \in terminating
    /\ OfWorkload(targets, w) \subseteq orphans
    /\ RemoveWorkload(w)
    /\ UNCHANGED edits

EditRegistration(r, workspace) ==
    /\ Edit
    /\ registrations[r] # workspace
    /\ registrations' = [registrations EXCEPT ![r] = workspace]
    /\ registrationEvents' = registrationEvents \cup {r}
    /\ UNCHANGED <<workloads, terminating, ready, targets, orphans, workloadEvent, ownerEvents, cacheVars, queue,
                   cur, faults>>

\* A write to DeploymentTarget n.  Its event names its owner; a copy that the
\* worker has listed is outdated.
TouchTarget(n, owner) ==
    /\ ownerEvents' = [ownerEvents EXCEPT ![n] = @ \cup {owner}]
    /\ cur' = [cur EXCEPT !.stale = @ \cup ({n} \cap cur.listed)]

RemoveTarget(n) ==
    /\ targets[n] # None
    /\ targets' = [targets EXCEPT ![n] = None]
    /\ orphans' = orphans \ {n}
    /\ TouchTarget(n, targets[n].workload)

UserDeletesTarget(n) ==
    /\ Edit
    /\ RemoveTarget(n)
    /\ UNCHANGED <<workloads, terminating, ready, registrations, workloadEvent, registrationEvents, cacheVars,
                   queue, faults>>

\* A user changes a DeploymentTarget by hand.
UserEditsTarget(n, env, data) ==
    /\ Edit
    /\ targets[n] # None
    /\ targets' = [targets EXCEPT ![n].env = env, ![n].data = data]
    /\ targets' # targets
    /\ TouchTarget(n, targets[n].workload)
    /\ UNCHANGED <<workloads, terminating, ready, registrations, orphans, workloadEvent, registrationEvents,
                   cacheVars, queue, faults>>

CollectTarget(n) ==
    /\ targets[n] # None
    /\ n \in orphans \/ targets[n].workload \in terminating
    /\ RemoveTarget(n)
    /\ UNCHANGED <<workloads, terminating, ready, registrations, workloadEvent, registrationEvents, cacheVars,
                   queue, edits, faults>>

(***************************************************************************)
(* Watches.  Workloads and the DeploymentTargets they own are watched for  *)
(* creation, deletion, and changes of generation or labels.                *)
(***************************************************************************)

DeliverWorkload(w) ==
    /\ workloadEvent[w] # "none"
    /\ workloadEvent' = [workloadEvent EXCEPT ![w] = "none"]
    /\ cWorkloads' = [cWorkloads EXCEPT ![w] = workloads[w]]
    /\ cTerminating' = IF w \in terminating THEN cTerminating \cup {w} ELSE cTerminating \ {w}
    /\ dead' = dead \ {w}
    /\ queue' = IF workloadEvent[w] = "spec" THEN queue \cup {w} ELSE queue
    /\ UNCHANGED <<apiVars, registrationEvents, ownerEvents, cRegistrations, cTargets, cur, edits,
                   faults>>

\* Registrations are cached because Reconcile gets them, but not watched.
DeliverRegistration(r) ==
    /\ r \in registrationEvents
    /\ registrationEvents' = registrationEvents \ {r}
    /\ cRegistrations' = [cRegistrations EXCEPT ![r] = registrations[r]]
    /\ UNCHANGED <<apiVars, workloadEvent, ownerEvents, cWorkloads, cTerminating, cTargets, dead, queue, cur,
                   edits, faults>>

\* Mutant of DeliverTarget: DeploymentTargets are cached but not watched.
DeliverTargetUnwatched(n) ==
    /\ ownerEvents[n] # {}
    /\ ownerEvents' = [ownerEvents EXCEPT ![n] = {}]
    /\ cTargets' = [cTargets EXCEPT ![n] = targets[n]]
    /\ UNCHANGED <<apiVars, workloadEvent, registrationEvents, cWorkloads, cTerminating, cRegistrations, dead,
                   queue, cur, edits, faults>>

DeliverTarget(n) ==
    /\ ownerEvents[n] # {}
    /\ ownerEvents' = [ownerEvents EXCEPT ![n] = {}]
    /\ cTargets' = [cTargets EXCEPT ![n] = targets[n]]
    /\ queue' = queue \cup ownerEvents[n]
    /\ UNCHANGED <<apiVars, workloadEvent, registrationEvents, cWorkloads, cTerminating, cRegistrations, dead,
                   cur, edits, faults>>

(***************************************************************************)
(* Reconcile.                                                              *)
(***************************************************************************)

Fault == faults < MaxFaults /\ faults' = faults + 1

Answered(ok) == IF ok THEN UNCHANGED faults ELSE Fault

\* Mutant of Return: an error is not reported to the work queue.
ReturnSwallowing(w, error) == cur' = IdleWorker /\ UNCHANGED queue

Return(w, error) ==
    /\ cur' = IdleWorker
    /\ queue' = IF error THEN queue \cup {w} ELSE queue

WorkerFrame == UNCHANGED <<workloads, terminating, registrations, registrationEvents, cacheVars, edits>>

\* Mutant of WorkspaceKnown: that the registration is not found is ignored.
WorkspaceAssumed(flux, regs) ==
    flux = << >> \/ (Len(flux) > 1 /\ Tail(flux) \in RegistrationNames)

\* getWorkspaceLabel: the registration's name is the label without its first
\* segment.  For a label of one segment see Panic.
WorkspaceKnown(flux, regs) ==
    flux = << >> \/ (Len(flux) > 1 /\ Tail(flux) \in RegistrationNames /\ regs[Tail(flux)] # None)

WorkspaceOf(flux, regs) == IF flux = << >> THEN NoWorkspace ELSE regs[Tail(flux)]

\* Mutant of Begin: the deletion timestamp is not looked at.
BeginTerminating(w) ==
    /\ cur.pc = "idle" /\ w \in queue
    /\ queue' = queue \ {w}
    /\ cur' = IF cWorkloads[w] = None THEN cur
              ELSE [cur EXCEPT !.pc = "list", !.workload = w, !.spec = cWorkloads[w],
                               !.fresh = (workloadEvent[w] = "none"),
                               !.live = (w \notin dead)]
    /\ WorkerFrame
    /\ UNCHANGED <<ready, targets, orphans, workloadEvent, ownerEvents, faults>>

\* Get the workload, unless it is gone or being deleted.
Begin(w) ==
    /\ cur.pc = "idle" /\ w \in queue
    /\ queue' = queue \ {w}
    /\ cur' = IF cWorkloads[w] = None \/ w \in cTerminating THEN cur
              ELSE [cur EXCEPT !.pc = "list", !.workload = w, !.spec = cWorkloads[w],
                               !.fresh = (workloadEvent[w] = "none"),
                               !.live = (w \notin dead)]
    /\ WorkerFrame
    /\ UNCHANGED <<ready, targets, orphans, workloadEvent, ownerEvents, faults>>

\* The targets of the workload, whatever their environment, by the name of their
\* DeploymentTarget; and those to be written, which are the ones in this one.
NamedIn(spec, w) == {TargetName(w, t) : t \in {x \in TargetNames : spec.targets[x] # None}}

Here(spec) == {t \in TargetNames : spec.targets[t] # None /\ spec.targets[t].env = Namespace}

\* Mutant of ToDelete: targets that the workload no longer lists are kept.
ToDeleteElsewhere(listed) == {n \in listed : cTargets[n].env # Namespace}

\* The listed ones that the workload does not name, and those whose own field says
\* another environment.  The environment in the workload's entry is not looked at.
ToDelete(listed) ==
    {n \in listed : \/ n \notin NamedIn(cur.spec, cur.workload)
                    \/ cTargets[n].env # Namespace}

\* List the DeploymentTargets with the workload's label.
ListTargets ==
    /\ cur.pc = "list"
    /\ LET listed == OfWorkload(cTargets, cur.workload)
       IN  cur' = [cur EXCEPT !.pc = "write",
                              !.listed = listed,
                              !.stale = {n \in listed : ownerEvents[n] # {}},
                              !.toDelete = ToDelete(listed),
                              !.toWrite = Here(cur.spec)]
    /\ WorkerFrame
    /\ UNCHANGED <<ready, targets, orphans, workloadEvent, ownerEvents, queue, faults>>

\* One Delete of the loop, by name.
DeleteTarget(n, ok) ==
    /\ cur.pc = "write" /\ n \in cur.toDelete
    /\ IF targets[n] # None
       THEN /\ targets' = [targets EXCEPT ![n] = None]
            /\ orphans' = orphans \ {n}
            /\ ownerEvents' = [ownerEvents EXCEPT ![n] = @ \cup {targets[n].workload}]
            /\ Answered(ok)
       ELSE ~ok /\ UNCHANGED <<targets, orphans, ownerEvents, faults>>
    /\ cur' = IF ok THEN [cur EXCEPT !.toDelete = @ \ {n}, !.stale = @ \cup {n}]
                    ELSE [cur EXCEPT !.pc = "fail"]
    /\ WorkerFrame
    /\ UNCHANGED <<ready, workloadEvent, queue>>

\* The object written for target t.
DeploymentTarget(t) ==
    [workload |-> cur.workload, env |-> Namespace, data |-> cur.spec.targets[t].data,
     workspace |-> WorkspaceOf(cur.spec.flux, cRegistrations)]

\* A Flux owner label of one segment has no second part, and the first turn of the
\* loop that follows indexes it.
LabelPanics ==
    cur.pc = "write" /\ cur.toDelete = {} /\ cur.toWrite # {} /\ Len(cur.spec.flux) = 1

\* One turn of that loop: create the DeploymentTarget, or update the
\* listed copy, which is refused when that copy is outdated.
WriteTarget(t, ok) ==
    /\ cur.pc = "write" /\ cur.toDelete = {} /\ t \in cur.toWrite
    /\ ~LabelPanics
    /\ LET n == TargetName(cur.workload, t)
           known == WorkspaceKnown(cur.spec.flux, cRegistrations)
           writable == IF n \in cur.listed THEN n \notin cur.stale ELSE targets[n] = None
           obj == DeploymentTarget(t)
       IN  IF known /\ writable
           THEN /\ targets' = [targets EXCEPT ![n] = obj]
                /\ ownerEvents' = IF targets[n] = obj THEN ownerEvents
                                  ELSE [ownerEvents EXCEPT ![n] = @ \cup {cur.workload}]
                /\ orphans' = IF cur.live THEN orphans ELSE orphans \cup {n}
                /\ Answered(ok)
           ELSE ~ok /\ UNCHANGED <<targets, ownerEvents, orphans, faults>>
    /\ cur' = IF ok THEN [cur EXCEPT !.toWrite = @ \ {t}] ELSE [cur EXCEPT !.pc = "fail"]
    /\ WorkerFrame
    /\ UNCHANGED <<ready, workloadEvent, queue>>

\* Status().Update of the workload: refused when it has changed.
WriteStatus(isReady, ok) ==
    LET w == cur.workload
        now == IF isReady THEN ready \cup {w} ELSE ready \ {w}
    IN  IF cur.fresh
        THEN /\ ready' = now
             /\ workloadEvent' = [workloadEvent EXCEPT ![w] =
                                     IF @ = "none" /\ now # ready THEN "status" ELSE @]
             /\ Answered(ok)
        ELSE ~ok /\ UNCHANGED <<ready, workloadEvent, faults>>

LoopsDone == cur.toDelete = {} /\ cur.toWrite = {}

Finish(ok) ==
    /\ cur.pc = "write" /\ LoopsDone
    /\ WriteStatus(TRUE, ok)
    /\ Return(cur.workload, ~ok)
    /\ WorkerFrame
    /\ UNCHANGED <<targets, orphans, ownerEvents>>

\* manageFailure; the error is returned whatever becomes of the status update.
ManageFailure ==
    /\ cur.pc = "fail"
    /\ \E ok \in BOOLEAN : WriteStatus(FALSE, ok)
    /\ Return(cur.workload, TRUE)
    /\ WorkerFrame
    /\ UNCHANGED <<targets, orphans, ownerEvents>>

\* The panic passes manageFailure by: controller-runtime
\* recovers it as an error, so the workload is retried and its status left alone.
Panic ==
    /\ LabelPanics
    /\ Return(cur.workload, TRUE)
    /\ WorkerFrame
    /\ UNCHANGED <<ready, targets, orphans, workloadEvent, ownerEvents, faults>>

\* A call fails without effect.
CallFails ==
    /\ cur.pc \in {"write", "fail"}
    /\ ~LabelPanics
    /\ Fault
    /\ IF cur.pc = "write" /\ ~LoopsDone
       THEN cur' = [cur EXCEPT !.pc = "fail"] /\ UNCHANGED queue
       ELSE Return(cur.workload, TRUE)
    /\ WorkerFrame
    /\ UNCHANGED <<ready, targets, orphans, workloadEvent, ownerEvents>>

\* The caches are filled anew; every object counts as created.
Restart ==
    /\ Fault
    /\ cWorkloads' = workloads /\ cRegistrations' = registrations /\ cTargets' = targets
    /\ cTerminating' = terminating /\ dead' = {}
    /\ workloadEvent' = [w \in Workloads |-> "none"]
    /\ registrationEvents' = {}
    /\ ownerEvents' = [n \in DeploymentTargetNames |-> {}]
    /\ queue' = {w \in Workloads : workloads[w] # None \/ OfWorkload(targets, w) # {}}
    /\ cur' = IdleWorker
    /\ UNCHANGED <<apiVars, edits>>

-----------------------------------------------------------------------------
UserStep ==
    \/ \E w \in Workloads, s \in WorkloadSpecs : ApplyWorkload(w, s)
    \/ \E w \in Workloads : DeleteWorkload(w)
    \/ \E w \in Workloads : DeleteWorkloadForeground(w)
    \/ \E r \in RegistrationNames, x \in Workspaces \cup {None} : EditRegistration(r, x)
    \/ \E n \in DeploymentTargetNames : UserDeletesTarget(n)
    \/ \E n \in DeploymentTargetNames, e \in {Namespace, Elsewhere}, d \in Data :
          UserEditsTarget(n, e, d)

DeliveryStep ==
    \/ \E w \in Workloads : DeliverWorkload(w)
    \/ \E r \in RegistrationNames : DeliverRegistration(r)
    \/ \E n \in DeploymentTargetNames : DeliverTarget(n)

WorkerStep ==
    \/ \E w \in Workloads : Begin(w)
    \/ ListTargets
    \/ \E n \in DeploymentTargetNames, ok \in BOOLEAN : DeleteTarget(n, ok)
    \/ \E t \in TargetNames, ok \in BOOLEAN : WriteTarget(t, ok)
    \/ \E ok \in BOOLEAN : Finish(ok)
    \/ ManageFailure
    \/ Panic
    \/ CallFails

CollectorStep ==
    \/ \E n \in DeploymentTargetNames : CollectTarget(n)
    \/ \E w \in Workloads : CollectWorkload(w)

Next == UserStep \/ CollectorStep \/ DeliveryStep \/ WorkerStep \/ Restart

Spec == Init /\ [][Next]_vars

\* The informer of every kind, the garbage collector and the worker keep going.
FairSpec ==
    /\ Spec
    /\ WF_vars(\E w \in Workloads : DeliverWorkload(w))
    /\ WF_vars(\E r \in RegistrationNames : DeliverRegistration(r))
    /\ WF_vars(\E n \in DeploymentTargetNames : DeliverTarget(n))
    /\ WF_vars(CollectorStep)
    /\ WF_vars(WorkerStep)

(***************************************************************************)
(* Properties.                                                             *)
(***************************************************************************)

\* Nothing will make the controller reconcile w.
Calm(w) ==
    /\ w \notin queue /\ cur.workload # w
    /\ workloadEvent[w] # "spec"
    /\ \A n \in DeploymentTargetNames : w \notin ownerEvents[n]
    /\ orphans \cap OfWorkload(targets, w) = {}

Resting(w) == workloads[w] # None /\ w \notin terminating /\ Calm(w)

\* Every target a resting workload has in this environment exists as it is
\* specified, and the workload is ready: whatever was edited by hand, refused,
\* lost or read stale on the way.
RestingTargetsWritten ==
    \A w \in Workloads : Resting(w) =>
        /\ w \in ready
        /\ \A t \in Here(workloads[w]) :
              LET obj == targets[TargetName(w, t)]
              IN  obj # None /\ obj.workload = w /\ obj.env = Namespace
                      /\ obj.data = workloads[w].targets[t].data

\* A target that a workload no longer names, for whatever environment, leaves no
\* DeploymentTarget behind at rest, although the list it was looked for in may have
\* been stale and its deletion refused or cut off.
RestingTargetsListed ==
    \A w \in Workloads : Resting(w) => OfWorkload(targets, w) \subseteq NamedIn(workloads[w], w)

\* "Each deployment target defines a name, a reference to a rollout environment"
\* (README.md): a resting workload has DeploymentTargets in this environment for the
\* targets that refer to it, and for no others.
RestingTargetsHere ==
    \A w \in Workloads : Resting(w) =>
        OfWorkload(targets, w) \subseteq {TargetName(w, t) : t \in Here(workloads[w])}

\* Every workload whose registration exists ends up ready and with its targets;
\* those of deleted workloads are gone.
EventuallyWritten ==
    <>[](\A w \in Workloads :
            IF workloads[w] = None THEN OfWorkload(targets, w) = {}
            ELSE w \notin terminating /\ WorkspaceKnown(workloads[w].flux, registrations) =>
                    w \in ready /\ \A t \in Here(workloads[w]) : targets[TargetName(w, t)] # None)

\* A foreground deletion of a workload completes: the deletion of each of its targets
\* wakes Reconcile up, which must not make the target again.
ForegroundDeletionCompletes ==
    \A w \in Workloads : w \in terminating ~> w \notin terminating
=============================================================================

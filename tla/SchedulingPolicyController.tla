---------------------- MODULE SchedulingPolicyController ----------------------
(***************************************************************************)
(* The scheduling policy controller of one environment namespace           *)
(* (controllers/schedulingpolicy_controller.go) together with the parts of *)
(* Kubernetes it lives in: the API server, the informer caches it reads    *)
(* from, the work queue its watches feed, and the garbage collector.       *)
(*                                                                         *)
(* Reads (Get, List) are served by the informer cache and never fail; they *)
(* may be stale.  Writes go to the API server and may be refused, may fail *)
(* without effect, or may take effect although the answer is lost.  The    *)
(* events of one object that are still to be delivered are folded into     *)
(* one: an observer that delivers them one by one behaves like one whose   *)
(* environment wrote later.                                                *)
(***************************************************************************)
EXTENDS Scheduler, Naturals

CONSTANTS
    Policies,         \* names of scheduling policies
    ClusterTypeNames, \* names of cluster types
    TargetNames,      \* names of deployment targets
    WorkloadNames,    \* values of the workload label
    PolicySpecs,      \* specs a user may give a policy
    ClusterTypeSpecs, \* label sets a user may give a cluster type
    TargetSpecs,      \* [env, labels] of deployment targets
    Namespace,        \* the environment namespace being reconciled
    None,             \* absence of an object
    MaxEdits,         \* bound on the edits of users and other controllers
    MaxFaults         \* bound on failed calls and controller crashes

AssignmentSpecs ==
    [workload : WorkloadNames, target : TargetNames, clusterType : ClusterTypeNames]

AssignmentNames == {AssignmentName(s) : s \in AssignmentSpecs}

\* An Assignment object: its spec and its scheduling-policy label, which also
\* names its controller owner.
Assignments == [spec : AssignmentSpecs, policy : Policies]

ASSUME ConstantsAssumption ==
    /\ None \notin PolicySpecs \cup ClusterTypeSpecs \cup TargetSpecs
    /\ None \notin Policies
    /\ None \notin Assignments
    /\ MaxEdits \in Nat /\ MaxFaults \in Nat
    /\ \A t \in TargetSpecs : GetWorkload(t.labels) \in WorkloadNames

VARIABLES
    \* API server
    policies,      \* spec of each policy, or None
    terminating,   \* policies with a deletion timestamp
    reason,        \* reason of each policy's Ready condition
    clusterTypes,  \* labels of each cluster type, or None
    targets,       \* [env, labels] of each deployment target, or None
    assignments,   \* the assignments by name, or None
    orphans,       \* assignments whose owner reference holds a dead UID
    \* watch events written but not delivered yet
    policyEvent,   \* "none", "status" (generation unchanged) or "spec"
    typeEvents,    \* cluster types with an undelivered event
    targetEvents,  \* deployment targets with an undelivered event
    ownerEvents,   \* for each assignment, the owners named by its events
    \* informer caches
    cPolicies, cTerminating, cClusterTypes, cTargets, cAssignments,
    \* controller
    queue,         \* policies to reconcile: a queue without duplicates
    cur,           \* the one worker
    \* bounds
    edits, faults

apiVars   == <<policies, terminating, reason, clusterTypes, targets, assignments, orphans>>
eventVars == <<policyEvent, typeEvents, targetEvents, ownerEvents>>
cacheVars == <<cPolicies, cTerminating, cClusterTypes, cTargets, cAssignments>>
vars == <<apiVars, eventVars, cacheVars, queue, cur, edits, faults>>

\* The Ready condition is True exactly under the reason AssignmentsCreated.
Reasons == {"New", "Rescheduling", "AssignmentsCreated", "UpdateFailed"}

\* The objects that exist, as a partial function.
Present(f) == [x \in {y \in DOMAIN f : f[y] # None} |-> f[x]]

\* List with the field index on spec.environment.
InEnvironment(ts) ==
    LET present == Present(ts)
    IN  [d \in {x \in DOMAIN present : present[x].env = Namespace} |-> present[d]]

\* What a policy spec asks for, given cluster types and targets.
Desired(ps, cts, dts) == Schedule(ps, Present(cts), InEnvironment(dts))

\* List with the scheduling-policy label.
OfPolicy(as, p) == {a \in AssignmentNames : as[a] # None /\ as[a].policy = p}

SpecsOf(as, names) == {as[a].spec : a \in names}

IdleWorker ==
    [pc |-> "idle", policy |-> None, spec |-> None, fresh |-> FALSE, live |-> FALSE,
     types |-> [c \in ClusterTypeNames |-> None], desired |-> {},
     toDelete |-> {}, toCreate |-> {}]

\* A worker: where it is in Reconcile, the copy of the policy it has read and
\* whether that copy and its UID are still current, and the local variables.
Workers ==
    [pc : {"idle", "listTypes", "listTargets", "listAssignments", "write", "fail"},
     policy : Policies \cup {None},
     spec : PolicySpecs \cup {None},
     fresh : BOOLEAN,
     live : BOOLEAN,
     types : [ClusterTypeNames -> ClusterTypeSpecs \cup {None}],
     desired : SUBSET AssignmentSpecs,
     toDelete : SUBSET AssignmentNames,
     toCreate : SUBSET AssignmentSpecs]

TypeOK ==
    /\ policies \in [Policies -> PolicySpecs \cup {None}]
    /\ terminating \subseteq Policies
    /\ reason \in [Policies -> Reasons]
    /\ clusterTypes \in [ClusterTypeNames -> ClusterTypeSpecs \cup {None}]
    /\ targets \in [TargetNames -> TargetSpecs \cup {None}]
    /\ assignments \in [AssignmentNames -> Assignments \cup {None}]
    /\ orphans \subseteq AssignmentNames
    /\ policyEvent \in [Policies -> {"none", "status", "spec"}]
    /\ typeEvents \subseteq ClusterTypeNames
    /\ targetEvents \subseteq TargetNames
    /\ ownerEvents \in [AssignmentNames -> SUBSET Policies]
    /\ cPolicies \in [Policies -> PolicySpecs \cup {None}]
    /\ cTerminating \subseteq Policies
    /\ cClusterTypes \in [ClusterTypeNames -> ClusterTypeSpecs \cup {None}]
    /\ cTargets \in [TargetNames -> TargetSpecs \cup {None}]
    /\ cAssignments \in [AssignmentNames -> Assignments \cup {None}]
    /\ queue \subseteq Policies
    /\ cur \in Workers
    /\ edits \in 0..MaxEdits
    /\ faults \in 0..MaxFaults

\* The controller starts on a namespace whose objects users created before.
Init ==
    /\ policies \in [Policies -> PolicySpecs \cup {None}]
    /\ terminating = {}
    /\ reason = [p \in Policies |-> "New"]
    /\ clusterTypes \in [ClusterTypeNames -> ClusterTypeSpecs \cup {None}]
    /\ targets \in [TargetNames -> TargetSpecs \cup {None}]
    /\ assignments = [a \in AssignmentNames |-> None]
    /\ orphans = {}
    /\ policyEvent = [p \in Policies |-> "none"]
    /\ typeEvents = {} /\ targetEvents = {}
    /\ ownerEvents = [a \in AssignmentNames |-> {}]
    /\ cPolicies = policies /\ cTerminating = {}
    /\ cClusterTypes = clusterTypes /\ cTargets = targets
    /\ cAssignments = assignments
    /\ queue = {p \in Policies : policies[p] # None}
    /\ cur = IdleWorker
    /\ edits = 0 /\ faults = 0

(***************************************************************************)
(* Users and other controllers.                                            *)
(***************************************************************************)

Edit == edits < MaxEdits /\ edits' = edits + 1

\* A write to policy p that changes its generation, its UID or its existence.
\* The copy the worker may hold of p is outdated from then on.
TouchPolicy(p, live) ==
    /\ policyEvent' = [policyEvent EXCEPT ![p] = "spec"]
    /\ cur' = IF cur.policy = p
              THEN [cur EXCEPT !.fresh = FALSE, !.live = @ /\ live]
              ELSE cur

\* Create policy p, or update its spec.
ApplyPolicy(p, ps) ==
    /\ Edit
    /\ p \notin terminating
    /\ policies[p] # ps
    /\ policies' = [policies EXCEPT ![p] = ps]
    /\ reason' = IF policies[p] = None THEN [reason EXCEPT ![p] = "New"] ELSE reason
    /\ TouchPolicy(p, TRUE)
    /\ UNCHANGED <<terminating, clusterTypes, targets, assignments, orphans, typeEvents,
                   targetEvents, ownerEvents, cacheVars, queue, faults>>

\* The policy object goes away; its assignments wait for the garbage collector.
RemovePolicy(p) ==
    /\ policies' = [policies EXCEPT ![p] = None]
    /\ terminating' = terminating \ {p}
    /\ orphans' = orphans \cup OfPolicy(assignments, p)
    /\ TouchPolicy(p, FALSE)
    /\ UNCHANGED <<reason, clusterTypes, targets, assignments, typeEvents, targetEvents,
                   ownerEvents, cacheVars, queue, faults>>

\* Background deletion, the default.
DeletePolicy(p) == Edit /\ policies[p] # None /\ p \notin terminating /\ RemovePolicy(p)

\* Foreground deletion: the object stays, with a deletion timestamp, until the
\* garbage collector has removed its assignments.
DeletePolicyForeground(p) ==
    /\ Edit
    /\ policies[p] # None /\ p \notin terminating
    /\ terminating' = terminating \cup {p}
    /\ TouchPolicy(p, TRUE)
    /\ UNCHANGED <<policies, reason, clusterTypes, targets, assignments, orphans, typeEvents,
                   targetEvents, ownerEvents, cacheVars, queue, faults>>

EditClusterType(c, labels) ==
    /\ Edit
    /\ clusterTypes[c] # labels
    /\ clusterTypes' = [clusterTypes EXCEPT ![c] = labels]
    /\ typeEvents' = typeEvents \cup {c}
    /\ UNCHANGED <<policies, terminating, reason, targets, assignments, orphans, policyEvent,
                   targetEvents, ownerEvents, cacheVars, queue, cur, faults>>

EditTarget(d, t) ==
    /\ Edit
    /\ targets[d] # t
    /\ targets' = [targets EXCEPT ![d] = t]
    /\ targetEvents' = targetEvents \cup {d}
    /\ UNCHANGED <<policies, terminating, reason, clusterTypes, assignments, orphans, policyEvent,
                   typeEvents, ownerEvents, cacheVars, queue, cur, faults>>

\* The deletion of assignment a, by anyone.  Its event names its owner.
RemoveAssignment(a) ==
    /\ assignments' = [assignments EXCEPT ![a] = None]
    /\ orphans' = orphans \ {a}
    /\ ownerEvents' = [ownerEvents EXCEPT ![a] = @ \cup {assignments[a].policy}]

UserDeletesAssignment(a) ==
    /\ Edit
    /\ assignments[a] # None
    /\ RemoveAssignment(a)
    /\ UNCHANGED <<policies, terminating, reason, clusterTypes, targets, policyEvent, typeEvents,
                   targetEvents, cacheVars, queue, cur, faults>>

(***************************************************************************)
(* Garbage collector.                                                      *)
(***************************************************************************)

CollectAssignment(a) ==
    /\ assignments[a] # None
    /\ a \in orphans \/ assignments[a].policy \in terminating
    /\ RemoveAssignment(a)
    /\ UNCHANGED <<policies, terminating, reason, clusterTypes, targets, policyEvent, typeEvents,
                   targetEvents, cacheVars, queue, cur, edits, faults>>

CollectPolicy(p) ==
    /\ p \in terminating
    /\ OfPolicy(assignments, p) = {}
    /\ RemovePolicy(p)
    /\ UNCHANGED edits

(***************************************************************************)
(* Watches: the event updates the cache, then its handler fills the queue. *)
(***************************************************************************)

\* For(SchedulingPolicy) with GenerationChangedPredicate.
DeliverPolicy(p) ==
    /\ policyEvent[p] # "none"
    /\ policyEvent' = [policyEvent EXCEPT ![p] = "none"]
    /\ cPolicies' = [cPolicies EXCEPT ![p] = policies[p]]
    /\ cTerminating' = IF p \in terminating THEN cTerminating \cup {p} ELSE cTerminating \ {p}
    /\ queue' = IF policyEvent[p] = "spec" THEN queue \cup {p} ELSE queue
    /\ UNCHANGED <<apiVars, typeEvents, targetEvents, ownerEvents, cClusterTypes, cTargets,
                   cAssignments, cur, edits, faults>>

\* Every policy known to the cache, whatever object changed.
FindPolicies == {p \in Policies : cPolicies[p] # None}

DeliverClusterType(c) ==
    /\ c \in typeEvents
    /\ typeEvents' = typeEvents \ {c}
    /\ cClusterTypes' = [cClusterTypes EXCEPT ![c] = clusterTypes[c]]
    /\ queue' = queue \cup FindPolicies
    /\ UNCHANGED <<apiVars, policyEvent, targetEvents, ownerEvents, cPolicies, cTerminating,
                   cTargets, cAssignments, cur, edits, faults>>

DeliverTarget(d) ==
    /\ d \in targetEvents
    /\ targetEvents' = targetEvents \ {d}
    /\ cTargets' = [cTargets EXCEPT ![d] = targets[d]]
    /\ queue' = queue \cup FindPolicies
    /\ UNCHANGED <<apiVars, policyEvent, typeEvents, ownerEvents, cPolicies, cTerminating,
                   cClusterTypes, cAssignments, cur, edits, faults>>

\* Mutant of DeliverAssignment: assignments are cached but not watched.
DeliverAssignmentUnwatched(a) ==
    /\ ownerEvents[a] # {}
    /\ ownerEvents' = [ownerEvents EXCEPT ![a] = {}]
    /\ cAssignments' = [cAssignments EXCEPT ![a] = assignments[a]]
    /\ UNCHANGED <<apiVars, policyEvent, typeEvents, targetEvents, cPolicies, cTerminating,
                   cClusterTypes, cTargets, queue, cur, edits, faults>>

\* Owns(Assignment): creations and deletions request their owner.
DeliverAssignment(a) ==
    /\ ownerEvents[a] # {}
    /\ ownerEvents' = [ownerEvents EXCEPT ![a] = {}]
    /\ cAssignments' = [cAssignments EXCEPT ![a] = assignments[a]]
    /\ queue' = queue \cup ownerEvents[a]
    /\ UNCHANGED <<apiVars, policyEvent, typeEvents, targetEvents, cPolicies, cTerminating,
                   cClusterTypes, cTargets, cur, edits, faults>>

(***************************************************************************)
(* Reconcile.                                                              *)
(***************************************************************************)

Fault == faults < MaxFaults /\ faults' = faults + 1

\* Whether the caller of a write that took effect learns so.
Answered(ok) == IF ok THEN UNCHANGED faults ELSE Fault

\* Mutant of Return: an error is not reported to the work queue.
ReturnSwallowing(p, error) == cur' = IdleWorker /\ UNCHANGED queue

\* Reconcile returned.  An error puts the policy back into the queue.
Return(p, error) ==
    /\ cur' = IdleWorker
    /\ queue' = IF error THEN queue \cup {p} ELSE queue

\* Status().Update of p.  A write that changes nothing makes no event.
WriteStatus(p, r) ==
    /\ reason' = [reason EXCEPT ![p] = r]
    /\ policyEvent' = [policyEvent EXCEPT ![p] =
                          IF @ = "none" /\ reason[p] # r THEN "status" ELSE @]

\* Every action of the worker leaves these alone.
WorkerFrame ==
    UNCHANGED <<policies, terminating, clusterTypes, targets, typeEvents, targetEvents,
                cacheVars, edits>>

\* Dequeue p, Get it: gone or being deleted.
BeginGone(p) ==
    /\ cur.pc = "idle" /\ p \in queue
    /\ cPolicies[p] = None \/ p \in cTerminating
    /\ queue' = queue \ {p}
    /\ WorkerFrame
    /\ UNCHANGED <<reason, assignments, orphans, policyEvent, ownerEvents, cur, faults>>

\* Mutant of Begin: a deletion timestamp does not stop the reconcile.
BeginTerminating(p, ok) ==
    /\ cur.pc = "idle" /\ p \in queue
    /\ cPolicies[p] # None
    /\ policyEvent[p] = "none"
    /\ WriteStatus(p, "Rescheduling")
    /\ Answered(ok)
    /\ IF ok
       THEN /\ queue' = queue \ {p}
            /\ cur' = [IdleWorker EXCEPT !.pc = "listTypes", !.policy = p, !.spec = cPolicies[p],
                                         !.fresh = TRUE, !.live = TRUE]
       ELSE UNCHANGED <<queue, cur>>
    /\ WorkerFrame
    /\ UNCHANGED <<assignments, orphans, ownerEvents>>

\* Dequeue p, Get it, report that it is being rescheduled.  The update is
\* refused, and p stays queued, while the cached copy is not the current object.
Begin(p, ok) ==
    /\ cur.pc = "idle" /\ p \in queue
    /\ cPolicies[p] # None /\ p \notin cTerminating
    /\ policyEvent[p] = "none"
    /\ WriteStatus(p, "Rescheduling")
    /\ Answered(ok)
    /\ IF ok
       THEN /\ queue' = queue \ {p}
            /\ cur' = [IdleWorker EXCEPT !.pc = "listTypes", !.policy = p, !.spec = cPolicies[p],
                                         !.fresh = TRUE, !.live = TRUE]
       ELSE UNCHANGED <<queue, cur>>
    /\ WorkerFrame
    /\ UNCHANGED <<assignments, orphans, ownerEvents>>

ListClusterTypes ==
    /\ cur.pc = "listTypes"
    /\ cur' = [cur EXCEPT !.pc = "listTargets", !.types = cClusterTypes]
    /\ WorkerFrame
    /\ UNCHANGED <<reason, assignments, orphans, policyEvent, ownerEvents, queue, faults>>

\* List the targets, NewScheduler, Schedule.
ListTargets ==
    /\ cur.pc = "listTargets"
    /\ cur' = IF SchedulerOK(cur.spec)
              THEN [cur EXCEPT !.pc = "listAssignments",
                               !.types = IdleWorker.types,
                               !.desired = Desired(cur.spec, cur.types, cTargets)]
              ELSE [cur EXCEPT !.pc = "fail"]
    /\ WorkerFrame
    /\ UNCHANGED <<reason, assignments, orphans, policyEvent, ownerEvents, queue, faults>>

\* Mutant of Surplus: everything is deleted, to be created anew.
SurplusAll(as, p, desired) == OfPolicy(as, p)

\* The listed assignments to delete, and the assignments to create, by spec.
Surplus(as, p, desired) == {a \in OfPolicy(as, p) : as[a].spec \notin desired}
Missing(as, p, desired) == desired \ SpecsOf(as, OfPolicy(as, p))

ListAssignments ==
    /\ cur.pc = "listAssignments"
    /\ cur' = [cur EXCEPT !.pc = "write",
                          !.toDelete = Surplus(cAssignments, cur.policy, cur.desired),
                          !.toCreate = Missing(cAssignments, cur.policy, cur.desired)]
    /\ WorkerFrame
    /\ UNCHANGED <<reason, assignments, orphans, policyEvent, ownerEvents, queue, faults>>

\* One Delete of the loop, by name; an object that is gone is an error.
DeleteAssignment(a, ok) ==
    /\ cur.pc = "write" /\ a \in cur.toDelete
    /\ IF assignments[a] # None
       THEN /\ RemoveAssignment(a)
            /\ Answered(ok)
            /\ cur' = IF ok THEN [cur EXCEPT !.toDelete = @ \ {a}] ELSE [cur EXCEPT !.pc = "fail"]
       ELSE /\ ~ok
            /\ cur' = [cur EXCEPT !.pc = "fail"]
            /\ UNCHANGED <<assignments, orphans, ownerEvents, faults>>
    /\ WorkerFrame
    /\ UNCHANGED <<reason, policyEvent, queue>>

\* One Create of the loop that follows; a name that is taken is an error.
CreateAssignment(s, ok) ==
    /\ cur.pc = "write" /\ cur.toDelete = {} /\ s \in cur.toCreate
    /\ LET a == AssignmentName(s)
       IN  IF assignments[a] = None
           THEN /\ assignments' = [assignments EXCEPT ![a] = [spec |-> s, policy |-> cur.policy]]
                /\ orphans' = IF cur.live THEN orphans ELSE orphans \cup {a}
                /\ ownerEvents' = [ownerEvents EXCEPT ![a] = @ \cup {cur.policy}]
                /\ Answered(ok)
                /\ cur' = IF ok THEN [cur EXCEPT !.toCreate = @ \ {s}]
                                ELSE [cur EXCEPT !.pc = "fail"]
           ELSE /\ ~ok
                /\ cur' = [cur EXCEPT !.pc = "fail"]
                /\ UNCHANGED <<assignments, orphans, ownerEvents, faults>>
    /\ WorkerFrame
    /\ UNCHANGED <<reason, policyEvent, queue>>

LoopsDone == cur.toDelete = {} /\ cur.toCreate = {}

\* Both loops are done: report that the policy is ready.
Finish(ok) ==
    /\ cur.pc = "write" /\ LoopsDone
    /\ IF cur.fresh
       THEN /\ WriteStatus(cur.policy, "AssignmentsCreated")
            /\ Answered(ok)
       ELSE ~ok /\ UNCHANGED <<reason, policyEvent, faults>>
    /\ Return(cur.policy, ~ok)
    /\ WorkerFrame
    /\ UNCHANGED <<assignments, orphans, ownerEvents>>

\* The error path.
ManageFailure ==
    /\ cur.pc = "fail"
    /\ IF cur.fresh THEN WriteStatus(cur.policy, "UpdateFailed")
                    ELSE UNCHANGED <<reason, policyEvent>>
    /\ Return(cur.policy, TRUE)
    /\ WorkerFrame
    /\ UNCHANGED <<assignments, orphans, ownerEvents, faults>>

\* A write fails without effect: in a loop, or when reporting.
CallFails ==
    /\ cur.pc \in {"write", "fail"}
    /\ Fault
    /\ \/ /\ cur.pc = "write" /\ ~LoopsDone
          /\ cur' = [cur EXCEPT !.pc = "fail"]
          /\ UNCHANGED queue
       \/ /\ cur.pc = "write" => LoopsDone
          /\ Return(cur.policy, TRUE)
    /\ WorkerFrame
    /\ UNCHANGED <<reason, assignments, orphans, policyEvent, ownerEvents>>

\* The controller restarts: the informers list everything and report every
\* policy and every assignment as created.
Crash ==
    /\ Fault
    /\ cPolicies' = policies /\ cTerminating' = terminating
    /\ cClusterTypes' = clusterTypes /\ cTargets' = targets
    /\ cAssignments' = assignments
    /\ policyEvent' = [p \in Policies |-> "none"]
    /\ typeEvents' = {} /\ targetEvents' = {}
    /\ ownerEvents' = [a \in AssignmentNames |-> {}]
    /\ queue' = {p \in Policies : policies[p] # None \/ OfPolicy(assignments, p) # {}}
    /\ cur' = IdleWorker
    /\ UNCHANGED <<apiVars, edits>>

-----------------------------------------------------------------------------
UserStep ==
    \/ \E p \in Policies, ps \in PolicySpecs : ApplyPolicy(p, ps)
    \/ \E p \in Policies : DeletePolicy(p)
    \/ \E p \in Policies : DeletePolicyForeground(p)
    \/ \E c \in ClusterTypeNames, l \in ClusterTypeSpecs \cup {None} : EditClusterType(c, l)
    \/ \E d \in TargetNames, t \in TargetSpecs \cup {None} : EditTarget(d, t)
    \/ \E a \in AssignmentNames : UserDeletesAssignment(a)

CollectorStep ==
    \/ \E a \in AssignmentNames : CollectAssignment(a)
    \/ \E p \in Policies : CollectPolicy(p)

DeliveryStep ==
    \/ \E p \in Policies : DeliverPolicy(p)
    \/ \E c \in ClusterTypeNames : DeliverClusterType(c)
    \/ \E d \in TargetNames : DeliverTarget(d)
    \/ \E a \in AssignmentNames : DeliverAssignment(a)

\* A reconcile of p starts.
BeginStep(p) ==
    \/ BeginGone(p)
    \/ \E ok \in BOOLEAN : Begin(p, ok)

\* The reconcile in progress goes on.
WorkerStep ==
    \/ ListClusterTypes
    \/ ListTargets
    \/ ListAssignments
    \/ \E a \in AssignmentNames, ok \in BOOLEAN : DeleteAssignment(a, ok)
    \/ \E s \in AssignmentSpecs, ok \in BOOLEAN : CreateAssignment(s, ok)
    \/ \E ok \in BOOLEAN : Finish(ok)
    \/ ManageFailure
    \/ CallFails

Next ==
    \/ UserStep
    \/ CollectorStep
    \/ DeliveryStep
    \/ \E p \in Policies : BeginStep(p)
    \/ WorkerStep
    \/ Crash

Spec == Init /\ [][Next]_vars

\* Informers, garbage collector and worker keep going, and the work queue
\* hands out every policy in it (first in, first out).
Fairness ==
    /\ \A p \in Policies : WF_vars(DeliverPolicy(p))
    /\ WF_vars(\E c \in ClusterTypeNames : DeliverClusterType(c))
    /\ WF_vars(\E d \in TargetNames : DeliverTarget(d))
    /\ WF_vars(\E a \in AssignmentNames : DeliverAssignment(a))
    /\ WF_vars(CollectorStep)
    /\ WF_vars(WorkerStep)
    /\ \A p \in Policies : SF_vars(BeginStep(p))

FairSpec == Spec /\ Fairness

(***************************************************************************)
(* Properties.                                                             *)
(***************************************************************************)

\* Nothing that would make the controller reconcile p is on its way: no
\* undelivered event, no place in the queue, no assignment left to collect.
Calm(p) ==
    /\ p \notin queue
    /\ policyEvent[p] # "spec"
    /\ typeEvents = {} /\ targetEvents = {}
    /\ \A a \in AssignmentNames : p \notin ownerEvents[a]
    /\ orphans \cap OfPolicy(assignments, p) = {}
    /\ p \notin terminating

\* The assignments of p are the ones its spec asks for.
Scheduled(p) ==
    /\ SchedulerOK(policies[p])
    /\ SpecsOf(assignments, OfPolicy(assignments, p)) = Desired(policies[p], clusterTypes, targets)

\* Level-triggered correctness of SchedulingPolicyReconciler.Reconcile and its
\* watches: whenever no reconcile of p is running and none will be triggered,
\* p's assignments are exactly what its spec asks for given the cluster types
\* and targets that exist now, and p says it is ready.  No order of events,
\* stale reads, failed calls or crashes may lose an update for good.
QuiescentConverged ==
    \A p \in Policies :
        (policies[p] # None /\ Calm(p) /\ cur.policy # p)
            => Scheduled(p) /\ reason[p] = "AssignmentsCreated"

\* Reconcile is idempotent: when p's assignments are already right and nothing
\* else is going on, reconciling p writes and deletes no assignment.
IdempotentReconcile ==
    [][(cur.pc # "idle" /\ Calm(cur.policy) /\ Scheduled(cur.policy) /\ WorkerStep)
        => UNCHANGED assignments]_vars

\* Reconcile returns early for a policy that is being deleted, so that it does
\* not recreate the assignments a foreground deletion has to remove first: such
\* a deletion completes.
ForegroundDeletionCompletes ==
    \A p \in Policies : (p \in terminating) ~> (p \notin terminating)

\* Once users stop editing and faults stop, every existing policy whose selectors
\* are well formed gets and keeps the assignments it asks for and is ready, and the
\* assignments of policies that no longer exist are gone.
EventuallyScheduled ==
    <>[](\A p \in Policies :
            CASE policies[p] = None -> OfPolicy(assignments, p) = {}
              [] policies[p] # None /\ SchedulerOK(policies[p])
                    -> Scheduled(p) /\ reason[p] = "AssignmentsCreated"
              [] OTHER -> TRUE)
=============================================================================

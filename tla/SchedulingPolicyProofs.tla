------------------------ MODULE SchedulingPolicyProofs ------------------------
(***************************************************************************)
(* Proofs about SchedulingPolicyController: its types, that a policy at    *)
(* rest is converged, and that a reconcile with nothing to do writes       *)
(* nothing, for any policies, cluster types, targets, selectors and bounds.*)
(***************************************************************************)
EXTENDS SchedulingPolicyController, SequenceTheorems, TLAPS

(***************************************************************************)
(* Types.                                                                  *)
(***************************************************************************)

\* A worker is idle exactly when it has no policy in hand.
WorkerOK == cur.pc = "idle" <=> cur.policy = None

TypeInv == TypeOK /\ WorkerOK

\* Schedule only makes assignments of existing targets, types and workloads.
LEMMA DesiredType ==
    ASSUME NEW ps, NEW cts \in [ClusterTypeNames -> ClusterTypeSpecs \cup {None}],
           NEW dts \in [TargetNames -> TargetSpecs \cup {None}]
    PROVE  Desired(ps, cts, dts) \subseteq AssignmentSpecs
<1> DEFINE here == InEnvironment(dts)
           types == Present(cts)
<1>1. DOMAIN types \subseteq ClusterTypeNames
  BY DEF Present
<1>2. /\ DOMAIN here \subseteq TargetNames
      /\ \A d \in DOMAIN here : here[d] \in TargetSpecs
  BY DEF Present, InEnvironment
<1>3. \A d \in DOMAIN here : GetWorkload(here[d].labels) \in WorkloadNames
  BY <1>2, ConstantsAssumption
<1>4. SelectClusterTypes(ps, types) \subseteq ClusterTypeNames
  BY <1>1 DEF SelectClusterTypes
<1>5. SelectDeploymentTargets(ps, here) \subseteq DOMAIN here
  BY DEF SelectDeploymentTargets
<1>6. Schedule(ps, types, here) \subseteq AssignmentSpecs
  <2> SUFFICES ASSUME NEW d \in SelectDeploymentTargets(ps, here),
                      NEW c \in SelectClusterTypes(ps, types)
               PROVE  Assign(GetWorkload(here[d].labels), d, c) \in AssignmentSpecs
    BY DEF Schedule
  <2> QED
    BY <1>2, <1>3, <1>4, <1>5 DEF Assign, AssignmentSpecs
<1> QED
  BY <1>6 DEF Desired

\* Counting an edit or a fault keeps to the bound.
LEMMA EditType ==
    ASSUME TypeInv, Edit
    PROVE  edits' \in 0..MaxEdits
  BY ConstantsAssumption DEF TypeInv, TypeOK, Edit

LEMMA FaultType ==
    ASSUME TypeInv, Fault
    PROVE  faults' \in 0..MaxFaults
  BY ConstantsAssumption DEF TypeInv, TypeOK, Fault

LEMMA AnsweredType ==
    ASSUME TypeInv, NEW ok \in BOOLEAN, Answered(ok)
    PROVE  faults' \in 0..MaxFaults
  BY FaultType DEF TypeInv, TypeOK, Answered

\* A write to a policy changes nothing in the worker but two flags.
LEMMA TouchPolicyType ==
    ASSUME TypeInv, NEW p \in Policies, NEW live \in BOOLEAN, TouchPolicy(p, live)
    PROVE  /\ policyEvent' \in [Policies -> {"none", "status", "spec"}]
           /\ cur' \in Workers
           /\ cur'.pc = cur.pc /\ cur'.policy = cur.policy /\ cur'.spec = cur.spec
           /\ cur'.types = cur.types /\ cur'.desired = cur.desired
           /\ cur'.toDelete = cur.toDelete /\ cur'.toCreate = cur.toCreate
  BY DEF TypeInv, TypeOK, TouchPolicy, Workers

LEMMA RemoveAssignmentType ==
    ASSUME TypeInv, NEW a \in AssignmentNames, assignments[a] # None, RemoveAssignment(a)
    PROVE  /\ assignments' \in [AssignmentNames -> Assignments \cup {None}]
           /\ orphans' \subseteq AssignmentNames
           /\ ownerEvents' \in [AssignmentNames -> SUBSET Policies]
<1>1. assignments[a].policy \in Policies
  BY DEF TypeInv, TypeOK, Assignments
<1> QED
  BY <1>1 DEF TypeInv, TypeOK, RemoveAssignment

LEMMA WriteStatusType ==
    ASSUME TypeInv, NEW p \in Policies, NEW r \in Reasons, WriteStatus(p, r)
    PROVE  /\ reason' \in [Policies -> Reasons]
           /\ policyEvent' \in [Policies -> {"none", "status", "spec"}]
  BY DEF TypeInv, TypeOK, WriteStatus

LEMMA IdleWorkerType == IdleWorker \in Workers /\ IdleWorker.pc = "idle" /\ IdleWorker.policy = None
  BY DEF IdleWorker, Workers

LEMMA ReturnType ==
    ASSUME TypeInv, NEW p \in Policies, NEW error \in BOOLEAN, Return(p, error)
    PROVE  queue' \subseteq Policies /\ cur' \in Workers /\ WorkerOK'
  BY IdleWorkerType DEF TypeInv, TypeOK, Return, WorkerOK

LEMMA TypeInit == Init => TypeInv
  BY IdleWorkerType, ConstantsAssumption DEF Init, TypeInv, TypeOK, WorkerOK, Reasons

LEMMA RemovePolicyType ==
    ASSUME TypeInv, NEW p \in Policies, RemovePolicy(p), edits' \in 0..MaxEdits
    PROVE  TypeInv'
<1>1. TouchPolicy(p, FALSE)
  BY DEF RemovePolicy
<1>2. WorkerOK' /\ cur' \in Workers /\ policyEvent' \in [Policies -> {"none", "status", "spec"}]
  BY <1>1, TouchPolicyType DEF TypeInv, WorkerOK
<1> QED
  BY <1>2, ConstantsAssumption DEF TypeInv, TypeOK, RemovePolicy, OfPolicy, cacheVars

LEMMA UserStepType ==
    ASSUME TypeInv, UserStep
    PROVE  TypeInv'
<1>1. ASSUME NEW p \in Policies, NEW ps \in PolicySpecs, ApplyPolicy(p, ps)
      PROVE  TypeInv'
  <2>1. WorkerOK' /\ cur' \in Workers /\ policyEvent' \in [Policies -> {"none", "status", "spec"}]
    BY <1>1, TouchPolicyType DEF TypeInv, WorkerOK, ApplyPolicy
  <2>2. edits' \in 0..MaxEdits
    BY <1>1, EditType DEF ApplyPolicy
  <2> QED
    BY <1>1, <2>1, <2>2 DEF TypeInv, TypeOK, Reasons, ApplyPolicy, cacheVars
<1>2. ASSUME NEW p \in Policies, DeletePolicy(p)
      PROVE  TypeInv'
  BY <1>2, EditType, RemovePolicyType DEF DeletePolicy
<1>3. ASSUME NEW p \in Policies, DeletePolicyForeground(p)
      PROVE  TypeInv'
  <2>1. WorkerOK' /\ cur' \in Workers /\ policyEvent' \in [Policies -> {"none", "status", "spec"}]
    BY <1>3, TouchPolicyType DEF TypeInv, WorkerOK, DeletePolicyForeground
  <2>2. edits' \in 0..MaxEdits
    BY <1>3, EditType DEF DeletePolicyForeground
  <2> QED
    BY <1>3, <2>1, <2>2 DEF TypeInv, TypeOK, DeletePolicyForeground, cacheVars
<1>4. ASSUME NEW c \in ClusterTypeNames, NEW l \in ClusterTypeSpecs \cup {None},
             EditClusterType(c, l)
      PROVE  TypeInv'
  <2>1. edits' \in 0..MaxEdits
    BY <1>4, EditType DEF EditClusterType
  <2> QED
    BY <1>4, <2>1 DEF TypeInv, TypeOK, WorkerOK, EditClusterType, cacheVars
<1>5. ASSUME NEW d \in TargetNames, NEW t \in TargetSpecs \cup {None}, EditTarget(d, t)
      PROVE  TypeInv'
  <2>1. edits' \in 0..MaxEdits
    BY <1>5, EditType DEF EditTarget
  <2> QED
    BY <1>5, <2>1 DEF TypeInv, TypeOK, WorkerOK, EditTarget, cacheVars
<1>6. ASSUME NEW a \in AssignmentNames, UserDeletesAssignment(a)
      PROVE  TypeInv'
  <2>1. edits' \in 0..MaxEdits
    BY <1>6, EditType DEF UserDeletesAssignment
  <2> QED
    BY <1>6, <2>1, RemoveAssignmentType
    DEF TypeInv, TypeOK, WorkerOK, UserDeletesAssignment, cacheVars
<1> QED
  BY <1>1, <1>2, <1>3, <1>4, <1>5, <1>6 DEF UserStep

LEMMA CollectorStepType ==
    ASSUME TypeInv, CollectorStep
    PROVE  TypeInv'
<1>1. ASSUME NEW a \in AssignmentNames, CollectAssignment(a)
      PROVE  TypeInv'
  BY <1>1, RemoveAssignmentType DEF TypeInv, TypeOK, WorkerOK, CollectAssignment, cacheVars
<1>2. ASSUME NEW p \in Policies, CollectPolicy(p)
      PROVE  TypeInv'
  BY <1>2, RemovePolicyType DEF CollectPolicy, TypeInv, TypeOK
<1> QED
  BY <1>1, <1>2 DEF CollectorStep

LEMMA DeliveryStepType ==
    ASSUME TypeInv, DeliveryStep
    PROVE  TypeInv'
<1>1. ASSUME NEW p \in Policies, DeliverPolicy(p)
      PROVE  TypeInv'
  BY <1>1 DEF TypeInv, TypeOK, WorkerOK, DeliverPolicy, apiVars
<1>2. ASSUME NEW c \in ClusterTypeNames, DeliverClusterType(c)
      PROVE  TypeInv'
  BY <1>2 DEF TypeInv, TypeOK, WorkerOK, DeliverClusterType, FindPolicies, apiVars
<1>3. ASSUME NEW d \in TargetNames, DeliverTarget(d)
      PROVE  TypeInv'
  BY <1>3 DEF TypeInv, TypeOK, WorkerOK, DeliverTarget, FindPolicies, apiVars
<1>4. ASSUME NEW a \in AssignmentNames, DeliverAssignment(a)
      PROVE  TypeInv'
  BY <1>4 DEF TypeInv, TypeOK, WorkerOK, DeliverAssignment, apiVars
<1> QED
  BY <1>1, <1>2, <1>3, <1>4 DEF DeliveryStep

LEMMA BeginStepType ==
    ASSUME TypeInv, NEW p \in Policies, BeginStep(p)
    PROVE  TypeInv'
<1>1. CASE BeginGone(p)
  BY <1>1 DEF TypeInv, TypeOK, WorkerOK, BeginGone, WorkerFrame, cacheVars
<1>2. ASSUME NEW ok \in BOOLEAN, Begin(p, ok)
      PROVE  TypeInv'
  <2>1. reason' \in [Policies -> Reasons] /\ policyEvent' \in [Policies -> {"none", "status", "spec"}]
    BY <1>2, WriteStatusType DEF Begin, Reasons
  <2>2. faults' \in 0..MaxFaults
    BY <1>2, AnsweredType DEF Begin
  <2>3. queue' \subseteq Policies
    BY <1>2 DEF Begin, TypeInv, TypeOK
  <2>4. cur' \in Workers /\ WorkerOK'
    <3>1. CASE ok
      <4>1. cPolicies[p] \in PolicySpecs \cup {None}
        BY DEF TypeInv, TypeOK
      <4>2. /\ cur' \in Workers
            /\ cur'.pc = "listTypes" /\ cur'.policy = p
        <5>1. cur' = [IdleWorker EXCEPT !.pc = "listTypes", !.policy = p, !.spec = cPolicies[p],
                                        !.fresh = TRUE, !.live = TRUE]
          BY <1>2, <3>1 DEF Begin
        <5> QED
          BY <4>1, <5>1, IdleWorkerType DEF Workers
      <4> QED
        BY <4>2, ConstantsAssumption DEF WorkerOK
    <3>2. CASE ~ok
      BY <1>2, <3>2 DEF Begin, TypeInv, TypeOK, WorkerOK
    <3> QED
      BY <3>1, <3>2
  <2> QED
    BY <1>2, <2>1, <2>2, <2>3, <2>4 DEF TypeInv, TypeOK, Begin, WorkerFrame, cacheVars
<1> QED
  BY <1>1, <1>2 DEF BeginStep

LEMMA WorkerStepType ==
    ASSUME TypeInv, WorkerStep
    PROVE  TypeInv'
<1> USE DEF WorkerFrame, cacheVars
<1>0. cur.pc # "idle" => cur.policy \in Policies
  BY DEF TypeInv, TypeOK, WorkerOK, Workers
<1>1. CASE ListClusterTypes
  <2>1. cur' \in Workers /\ WorkerOK'
    BY <1>1 DEF TypeInv, TypeOK, WorkerOK, Workers, ListClusterTypes
  <2> QED
    BY <1>1, <2>1 DEF TypeInv, TypeOK, ListClusterTypes
<1>2. CASE ListTargets
  <2>1. Desired(cur.spec, cur.types, cTargets) \subseteq AssignmentSpecs
    BY DesiredType DEF TypeInv, TypeOK, Workers
  <2>2. IdleWorker.types \in [ClusterTypeNames -> ClusterTypeSpecs \cup {None}]
    BY DEF IdleWorker
  <2>3. cur' \in Workers /\ WorkerOK'
    BY <1>2, <2>1, <2>2 DEF TypeInv, TypeOK, WorkerOK, Workers, ListTargets
  <2> QED
    BY <1>2, <2>3 DEF TypeInv, TypeOK, ListTargets
<1>3. CASE ListAssignments
  <2>1. /\ Surplus(cAssignments, cur.policy, cur.desired) \subseteq AssignmentNames
        /\ Missing(cAssignments, cur.policy, cur.desired) \subseteq AssignmentSpecs
    BY DEF TypeInv, TypeOK, Workers, Surplus, Missing, OfPolicy
  <2>2. cur' \in Workers /\ WorkerOK'
    BY <1>3, <2>1 DEF TypeInv, TypeOK, WorkerOK, Workers, ListAssignments
  <2> QED
    BY <1>3, <2>2 DEF TypeInv, TypeOK, ListAssignments
<1>4. ASSUME NEW a \in AssignmentNames, NEW ok \in BOOLEAN, DeleteAssignment(a, ok)
      PROVE  TypeInv'
  <2>1. cur' \in Workers /\ WorkerOK'
    BY <1>4 DEF TypeInv, TypeOK, WorkerOK, Workers, DeleteAssignment
  <2>2. faults' \in 0..MaxFaults
    BY <1>4, AnsweredType DEF DeleteAssignment, TypeInv, TypeOK
  <2>3. /\ assignments' \in [AssignmentNames -> Assignments \cup {None}]
        /\ orphans' \subseteq AssignmentNames
        /\ ownerEvents' \in [AssignmentNames -> SUBSET Policies]
    BY <1>4, RemoveAssignmentType DEF DeleteAssignment, TypeInv, TypeOK
  <2> QED
    BY <1>4, <2>1, <2>2, <2>3 DEF TypeInv, TypeOK, DeleteAssignment
<1>5. ASSUME NEW s \in AssignmentSpecs, NEW ok \in BOOLEAN, CreateAssignment(s, ok)
      PROVE  TypeInv'
  <2>1. cur' \in Workers /\ WorkerOK'
    BY <1>5 DEF TypeInv, TypeOK, WorkerOK, Workers, CreateAssignment
  <2>2. faults' \in 0..MaxFaults
    BY <1>5, AnsweredType DEF CreateAssignment, TypeInv, TypeOK
  <2>3. AssignmentName(s) \in AssignmentNames /\ [spec |-> s, policy |-> cur.policy] \in Assignments
    BY <1>0, <1>5 DEF AssignmentNames, Assignments, CreateAssignment
  <2>4. /\ assignments' \in [AssignmentNames -> Assignments \cup {None}]
        /\ orphans' \subseteq AssignmentNames
        /\ ownerEvents' \in [AssignmentNames -> SUBSET Policies]
    BY <1>0, <1>5, <2>3 DEF CreateAssignment, TypeInv, TypeOK
  <2> QED
    BY <1>5, <2>1, <2>2, <2>4 DEF TypeInv, TypeOK, CreateAssignment
<1>6. ASSUME NEW ok \in BOOLEAN, Finish(ok)
      PROVE  TypeInv'
  <2>1. queue' \subseteq Policies /\ cur' \in Workers /\ WorkerOK'
    BY <1>0, <1>6, ReturnType DEF Finish
  <2>2. /\ reason' \in [Policies -> Reasons] /\ faults' \in 0..MaxFaults
        /\ policyEvent' \in [Policies -> {"none", "status", "spec"}]
    BY <1>0, <1>6, WriteStatusType, AnsweredType DEF Finish, Reasons, TypeInv, TypeOK
  <2> QED
    BY <1>6, <2>1, <2>2 DEF TypeInv, TypeOK, Finish
<1>7. CASE ManageFailure
  <2>1. queue' \subseteq Policies /\ cur' \in Workers /\ WorkerOK'
    BY <1>0, <1>7, ReturnType DEF ManageFailure
  <2>2. /\ reason' \in [Policies -> Reasons]
        /\ policyEvent' \in [Policies -> {"none", "status", "spec"}]
    BY <1>0, <1>7, WriteStatusType DEF ManageFailure, Reasons, TypeInv, TypeOK
  <2> QED
    BY <1>7, <2>1, <2>2 DEF TypeInv, TypeOK, ManageFailure
<1>8. CASE CallFails
  <2>1. queue' \subseteq Policies /\ cur' \in Workers /\ WorkerOK'
    <3>1. CASE cur' = [cur EXCEPT !.pc = "fail"] /\ UNCHANGED queue
      BY <1>8, <3>1 DEF TypeInv, TypeOK, WorkerOK, Workers, CallFails
    <3>2. CASE Return(cur.policy, TRUE)
      BY <1>0, <1>8, <3>2, ReturnType DEF CallFails
    <3> QED
      BY <1>8, <3>1, <3>2 DEF CallFails
  <2>2. faults' \in 0..MaxFaults
    BY <1>8, FaultType DEF CallFails
  <2> QED
    BY <1>8, <2>1, <2>2 DEF TypeInv, TypeOK, CallFails
<1> QED
  BY <1>1, <1>2, <1>3, <1>4, <1>5, <1>6, <1>7, <1>8 DEF WorkerStep

LEMMA TypeStep == TypeInv /\ [Next]_vars => TypeInv'
<1> SUFFICES ASSUME TypeInv, [Next]_vars
             PROVE  TypeInv'
  OBVIOUS
<1>1. CASE Crash
  <2>1. faults' \in 0..MaxFaults
    BY <1>1, FaultType DEF Crash
  <2> QED
    BY <1>1, <2>1, IdleWorkerType DEF TypeInv, TypeOK, WorkerOK, Crash, OfPolicy, apiVars
<1>2. CASE UNCHANGED vars
  BY <1>2 DEF TypeInv, TypeOK, WorkerOK, vars, apiVars, eventVars, cacheVars
<1> QED
  BY <1>1, <1>2, UserStepType, CollectorStepType, DeliveryStepType, BeginStepType, WorkerStepType
  DEF Next

\* The type invariant of the controller and its environment.
THEOREM TypeCorrect == Spec => []TypeOK
<1>1. Spec => []TypeInv
  BY TypeInit, TypeStep, PTL DEF Spec
<1>2. TypeInv => TypeOK
  BY DEF TypeInv
<1> QED
  BY <1>1, <1>2, PTL

(***************************************************************************)
(* Convergence.                                                            *)
(***************************************************************************)

Owned(as, p, a) == as[a] # None /\ as[a].policy = p

\* No event is on its way that names p as the owner of an assignment.
NoOwnerEvent(p) == \A a \in AssignmentNames : p \notin ownerEvents[a]

\* A cached object differs from the real one only while an event is undelivered
\* that will request the reconciles that depend on it.
PolicyCoherent ==
    \A p \in Policies : policyEvent[p] # "spec" =>
        cPolicies[p] = policies[p] /\ (p \in cTerminating <=> p \in terminating)

TypeCoherent ==
    \A c \in ClusterTypeNames : c \notin typeEvents => cClusterTypes[c] = clusterTypes[c]

TargetCoherent ==
    \A d \in TargetNames : d \notin targetEvents => cTargets[d] = targets[d]

AssignmentCoherent ==
    \A a \in AssignmentNames, p \in Policies :
        p \notin ownerEvents[a] /\ (Owned(assignments, p, a) \/ Owned(cAssignments, p, a))
            => assignments[a] = cAssignments[a]

Coherent == PolicyCoherent /\ TypeCoherent /\ TargetCoherent /\ AssignmentCoherent

\* What the worker has read and computed is what the caches still show.
InHand ==
    /\ cur.spec # None /\ cPolicies[cur.policy] = cur.spec
    /\ cur.pc = "listTargets" => cur.types = cClusterTypes
    /\ cur.pc \in {"listAssignments", "write"} =>
          /\ SchedulerOK(cur.spec)
          /\ cur.desired = Desired(cur.spec, cClusterTypes, cTargets)
    /\ cur.pc = "write" /\ NoOwnerEvent(cur.policy) =>
          /\ cur.toDelete = Surplus(cAssignments, cur.policy, cur.desired)
          /\ cur.toCreate = Missing(cAssignments, cur.policy, cur.desired)

\* It is so unless the policy in hand has been queued again.
InHandCurrent == cur.pc # "idle" /\ cur.policy \notin queue => InHand

\* QuiescentConverged for one policy.
Resting(p) == policies[p] # None /\ Calm(p) /\ cur.policy # p
Converged(p) == Scheduled(p) /\ reason[p] = "AssignmentsCreated"

IInv == Coherent /\ InHandCurrent /\ \A p \in Policies : Resting(p) => Converged(p)

LEMMA ConvergeInit == Init => IInv
<1> SUFFICES ASSUME Init PROVE IInv
  OBVIOUS
<1>1. Coherent
  BY DEF Init, Coherent, PolicyCoherent, TypeCoherent, TargetCoherent, AssignmentCoherent, Owned
<1>2. InHandCurrent
  BY DEF Init, IdleWorker, InHandCurrent
<1>3. \A p \in Policies : ~Resting(p)
  BY DEF Init, Resting, Calm
<1> QED
  BY <1>1, <1>2, <1>3 DEF IInv

\* The caches stay coherent: no informer loses a change.
LEMMA PolicyCoherentStep ==
    ASSUME TypeInv, PolicyCoherent, [Next]_vars
    PROVE  PolicyCoherent'
<1> USE DEF TypeInv, TypeOK, PolicyCoherent
<1>1. ASSUME NEW p \in Policies, NEW ps \in PolicySpecs, ApplyPolicy(p, ps)
      PROVE  PolicyCoherent'
  BY <1>1 DEF ApplyPolicy, TouchPolicy, cacheVars
<1>2. ASSUME NEW p \in Policies, RemovePolicy(p)
      PROVE  PolicyCoherent'
  BY <1>2 DEF RemovePolicy, TouchPolicy, cacheVars
<1>3. ASSUME NEW p \in Policies, DeletePolicyForeground(p)
      PROVE  PolicyCoherent'
  BY <1>3 DEF DeletePolicyForeground, TouchPolicy, cacheVars
<1>4. ASSUME NEW p \in Policies, DeliverPolicy(p)
      PROVE  PolicyCoherent'
  BY <1>4 DEF DeliverPolicy, apiVars
<1>5. ASSUME NEW p \in Policies, NEW r, WriteStatus(p, r),
             UNCHANGED <<policies, terminating, cPolicies, cTerminating>>
      PROVE  PolicyCoherent'
  BY <1>5 DEF WriteStatus
<1>6. CASE UNCHANGED <<policies, terminating, cPolicies, cTerminating, policyEvent>>
  BY <1>6
<1>7. CASE Crash
  BY <1>7 DEF Crash, apiVars
<1>8. CASE UserStep
  BY <1>1, <1>2, <1>3, <1>6, <1>8
  DEF UserStep, DeletePolicy, EditClusterType, EditTarget, UserDeletesAssignment, cacheVars
<1>9. CASE CollectorStep
  BY <1>2, <1>6, <1>9 DEF CollectorStep, CollectAssignment, CollectPolicy, cacheVars
<1>10. CASE DeliveryStep
  BY <1>4, <1>6, <1>10
  DEF DeliveryStep, DeliverClusterType, DeliverTarget, DeliverAssignment, apiVars
<1>11. ASSUME NEW p \in Policies, BeginStep(p)
       PROVE  PolicyCoherent'
  BY <1>5, <1>6, <1>11 DEF BeginStep, BeginGone, Begin, WorkerFrame, cacheVars
<1>12. CASE WorkerStep
  <2> USE DEF WorkerFrame, cacheVars
  <2>0. cur.pc # "idle" => cur.policy \in Policies
    BY DEF WorkerOK, Workers
  <2>1. CASE ManageFailure
    BY <1>5, <1>6, <2>0, <2>1 DEF ManageFailure
  <2>2. ASSUME NEW ok \in BOOLEAN, Finish(ok)
        PROVE  PolicyCoherent'
    BY <1>5, <1>6, <2>0, <2>2 DEF Finish
  <2> QED
    BY <1>6, <1>12, <2>1, <2>2
    DEF WorkerStep, ListClusterTypes, ListTargets, ListAssignments, DeleteAssignment,
        CreateAssignment, CallFails
<1>13. CASE UNCHANGED vars
  BY <1>6, <1>13 DEF vars, apiVars, eventVars, cacheVars
<1> QED
  BY <1>7, <1>8, <1>9, <1>10, <1>11, <1>12, <1>13 DEF Next

LEMMA TypeCoherentStep ==
    ASSUME TypeInv, TypeCoherent, [Next]_vars
    PROVE  TypeCoherent'
<1> USE DEF TypeInv, TypeOK, TypeCoherent
<1>1. ASSUME NEW c \in ClusterTypeNames, NEW l \in ClusterTypeSpecs \cup {None},
             EditClusterType(c, l)
      PROVE  TypeCoherent'
  BY <1>1 DEF EditClusterType, cacheVars
<1>2. ASSUME NEW c \in ClusterTypeNames, DeliverClusterType(c)
      PROVE  TypeCoherent'
  BY <1>2 DEF DeliverClusterType, apiVars
<1>3. CASE Crash
  BY <1>3 DEF Crash, apiVars
<1>4. CASE UNCHANGED <<clusterTypes, typeEvents, cClusterTypes>>
  BY <1>4
<1> QED
  <2> USE DEF vars, apiVars, eventVars, cacheVars
  <2>1. CASE UserStep
    BY <1>1, <1>4, <2>1
    DEF UserStep, ApplyPolicy, DeletePolicy, RemovePolicy, DeletePolicyForeground, EditTarget,
        UserDeletesAssignment
  <2>2. CASE CollectorStep
    BY <1>4, <2>2 DEF CollectorStep, CollectAssignment, CollectPolicy, RemovePolicy
  <2>3. CASE DeliveryStep
    BY <1>2, <1>4, <2>3 DEF DeliveryStep, DeliverPolicy, DeliverTarget, DeliverAssignment
  <2>4. CASE (\E p \in Policies : BeginStep(p)) \/ WorkerStep
    BY <1>4, <2>4
    DEF BeginStep, BeginGone, Begin, WorkerStep, WorkerFrame, ListClusterTypes, ListTargets,
        ListAssignments, DeleteAssignment, CreateAssignment, Finish, ManageFailure, CallFails
  <2> QED
    BY <1>3, <1>4, <2>1, <2>2, <2>3, <2>4 DEF Next

LEMMA TargetCoherentStep ==
    ASSUME TypeInv, TargetCoherent, [Next]_vars
    PROVE  TargetCoherent'
<1> USE DEF TypeInv, TypeOK, TargetCoherent
<1>1. ASSUME NEW d \in TargetNames, NEW t \in TargetSpecs \cup {None}, EditTarget(d, t)
      PROVE  TargetCoherent'
  BY <1>1 DEF EditTarget, cacheVars
<1>2. ASSUME NEW d \in TargetNames, DeliverTarget(d)
      PROVE  TargetCoherent'
  BY <1>2 DEF DeliverTarget, apiVars
<1>3. CASE Crash
  BY <1>3 DEF Crash, apiVars
<1>4. CASE UNCHANGED <<targets, targetEvents, cTargets>>
  BY <1>4
<1> QED
  <2> USE DEF vars, apiVars, eventVars, cacheVars
  <2>1. CASE UserStep
    BY <1>1, <1>4, <2>1
    DEF UserStep, ApplyPolicy, DeletePolicy, RemovePolicy, DeletePolicyForeground, EditClusterType,
        UserDeletesAssignment
  <2>2. CASE CollectorStep
    BY <1>4, <2>2 DEF CollectorStep, CollectAssignment, CollectPolicy, RemovePolicy
  <2>3. CASE DeliveryStep
    BY <1>2, <1>4, <2>3 DEF DeliveryStep, DeliverPolicy, DeliverClusterType, DeliverAssignment
  <2>4. CASE (\E p \in Policies : BeginStep(p)) \/ WorkerStep
    BY <1>4, <2>4
    DEF BeginStep, BeginGone, Begin, WorkerStep, WorkerFrame, ListClusterTypes, ListTargets,
        ListAssignments, DeleteAssignment, CreateAssignment, Finish, ManageFailure, CallFails
  <2> QED
    BY <1>3, <1>4, <2>1, <2>2, <2>3, <2>4 DEF Next

LEMMA AssignmentCoherentStep ==
    ASSUME TypeInv, AssignmentCoherent, [Next]_vars
    PROVE  AssignmentCoherent'
<1> USE DEF TypeInv, TypeOK, AssignmentCoherent, Owned
<1>1. ASSUME NEW a \in AssignmentNames, assignments[a] # None, RemoveAssignment(a),
             UNCHANGED cAssignments
      PROVE  AssignmentCoherent'
  BY <1>1 DEF RemoveAssignment
<1>2. ASSUME NEW s \in AssignmentSpecs, NEW ok \in BOOLEAN, CreateAssignment(s, ok)
      PROVE  AssignmentCoherent'
  <2> DEFINE a == AssignmentName(s)
  <2>1. a \in AssignmentNames
    BY DEF AssignmentNames
  <2>2. UNCHANGED cAssignments
    BY <1>2 DEF CreateAssignment, WorkerFrame, cacheVars
  <2>3. CASE assignments[a] = None
    <3>1. /\ assignments' = [assignments EXCEPT ![a] = [spec |-> s, policy |-> cur.policy]]
          /\ ownerEvents' = [ownerEvents EXCEPT ![a] = @ \cup {cur.policy}]
      BY <1>2, <2>3 DEF CreateAssignment
    <3> QED
      BY <2>1, <2>2, <2>3, <3>1
  <2>4. CASE assignments[a] # None
    BY <1>2, <2>2, <2>4 DEF CreateAssignment
  <2> QED
    BY <2>3, <2>4
<1>3. ASSUME NEW a \in AssignmentNames, DeliverAssignment(a)
      PROVE  AssignmentCoherent'
  BY <1>3 DEF DeliverAssignment, apiVars
<1>4. CASE Crash
  BY <1>4 DEF Crash, apiVars
<1>5. CASE UNCHANGED <<assignments, ownerEvents, cAssignments>>
  BY <1>5
<1> QED
  <2> USE DEF vars, apiVars, eventVars, cacheVars
  <2>1. CASE UserStep
    BY <1>1, <1>5, <2>1
    DEF UserStep, ApplyPolicy, DeletePolicy, RemovePolicy, DeletePolicyForeground, EditClusterType,
        EditTarget, UserDeletesAssignment
  <2>2. CASE CollectorStep
    BY <1>1, <1>5, <2>2 DEF CollectorStep, CollectAssignment, CollectPolicy, RemovePolicy
  <2>3. CASE DeliveryStep
    BY <1>3, <1>5, <2>3 DEF DeliveryStep, DeliverPolicy, DeliverClusterType, DeliverTarget
  <2>4. ASSUME NEW a \in AssignmentNames, NEW ok \in BOOLEAN, DeleteAssignment(a, ok)
        PROVE  AssignmentCoherent'
    BY <1>1, <1>5, <2>4 DEF DeleteAssignment, WorkerFrame
  <2>5. CASE (\E p \in Policies : BeginStep(p)) \/ WorkerStep
    BY <1>2, <1>5, <2>4, <2>5
    DEF BeginStep, BeginGone, Begin, WorkerStep, WorkerFrame, ListClusterTypes, ListTargets,
        ListAssignments, Finish, ManageFailure, CallFails
  <2> QED
    BY <1>4, <1>5, <2>1, <2>2, <2>3, <2>5 DEF Next

\* Two views of the assignments that agree on those of p ask for the same writes.
LEMMA SameView ==
    ASSUME NEW as, NEW bs, NEW p,
           \A a \in AssignmentNames : Owned(as, p, a) \/ Owned(bs, p, a) => as[a] = bs[a]
    PROVE  /\ OfPolicy(as, p) = OfPolicy(bs, p)
           /\ SpecsOf(as, OfPolicy(as, p)) = SpecsOf(bs, OfPolicy(bs, p))
           /\ \A desired : /\ Surplus(as, p, desired) = Surplus(bs, p, desired)
                           /\ Missing(as, p, desired) = Missing(bs, p, desired)
<1>1. OfPolicy(as, p) = OfPolicy(bs, p)
  BY DEF OfPolicy, Owned
<1>2. \A a \in OfPolicy(as, p) : as[a] = bs[a]
  BY DEF OfPolicy, Owned
<1>3. SpecsOf(as, OfPolicy(as, p)) = SpecsOf(bs, OfPolicy(bs, p))
  BY <1>1, <1>2 DEF SpecsOf
<1> QED
  BY <1>1, <1>2, <1>3 DEF Surplus, Missing

LEMMA OwnerEventsGrow ==
    ASSUME TypeInv, NEW a \in AssignmentNames, RemoveAssignment(a)
    PROVE  \A b \in AssignmentNames : ownerEvents[b] \subseteq ownerEvents'[b]
  BY DEF RemoveAssignment, TypeInv, TypeOK

\* While the worker is busy and its policy is not queued again, whatever the
\* environment does leaves the work in hand current.
LEMMA InHandKept ==
    ASSUME TypeInv, Coherent, InHand, cur.pc # "idle", cur.policy \notin queue',
           cur'.pc = cur.pc, cur'.policy = cur.policy, cur'.spec = cur.spec,
           cur'.types = cur.types, cur'.desired = cur.desired,
           cur'.toDelete = cur.toDelete, cur'.toCreate = cur.toCreate,
           \/ /\ UNCHANGED cacheVars
              /\ \A a \in AssignmentNames : ownerEvents[a] \subseteq ownerEvents'[a]
           \/ DeliveryStep
    PROVE  InHand'
<1>0. cur.policy \in Policies
  BY DEF TypeInv, TypeOK, WorkerOK, Workers
<1>1. CASE UNCHANGED cacheVars /\ \A a \in AssignmentNames : ownerEvents[a] \subseteq ownerEvents'[a]
  <2>1. NoOwnerEvent(cur.policy)' => NoOwnerEvent(cur.policy)
    BY <1>1 DEF NoOwnerEvent
  <2> QED
    BY <1>1, <2>1 DEF InHand, cacheVars
<1>2. ASSUME NEW p \in Policies, DeliverPolicy(p)
      PROVE  InHand'
  <2>1. cPolicies'[cur.policy] = cPolicies[cur.policy]
    BY <1>0, <1>2 DEF DeliverPolicy, Coherent, PolicyCoherent, TypeInv, TypeOK
  <2>2. UNCHANGED <<cClusterTypes, cTargets, cAssignments, ownerEvents>>
    BY <1>2 DEF DeliverPolicy
  <2> QED
    BY <2>1, <2>2 DEF InHand, NoOwnerEvent
<1>3. ASSUME NEW c \in ClusterTypeNames, DeliverClusterType(c)
      PROVE  FALSE
  BY <1>0, <1>3 DEF DeliverClusterType, FindPolicies, InHand
<1>4. ASSUME NEW d \in TargetNames, DeliverTarget(d)
      PROVE  FALSE
  BY <1>0, <1>4 DEF DeliverTarget, FindPolicies, InHand
<1>5. ASSUME NEW a \in AssignmentNames, DeliverAssignment(a)
      PROVE  InHand'
  <2>1. cur.policy \notin ownerEvents[a]
    BY <1>5 DEF DeliverAssignment
  <2>2. NoOwnerEvent(cur.policy)' => NoOwnerEvent(cur.policy)
    BY <1>5, <2>1 DEF DeliverAssignment, NoOwnerEvent, TypeInv, TypeOK
  <2>3. \A b \in AssignmentNames :
            Owned(cAssignments, cur.policy, b) \/ Owned(cAssignments', cur.policy, b)
                => cAssignments[b] = cAssignments'[b]
    BY <1>0, <1>5, <2>1
    DEF DeliverAssignment, Coherent, AssignmentCoherent, Owned, TypeInv, TypeOK
  <2>4. \A desired :
            /\ Surplus(cAssignments, cur.policy, desired) = Surplus(cAssignments', cur.policy, desired)
            /\ Missing(cAssignments, cur.policy, desired) = Missing(cAssignments', cur.policy, desired)
    BY <2>3, SameView
  <2>5. UNCHANGED <<cPolicies, cClusterTypes, cTargets>>
    BY <1>5 DEF DeliverAssignment
  <2> QED
    BY <2>2, <2>4, <2>5 DEF InHand
<1> QED
  BY <1>1, <1>2, <1>3, <1>4, <1>5 DEF DeliveryStep

LEMMA InHandStep ==
    ASSUME TypeInv, Coherent, InHandCurrent, [Next]_vars
    PROVE  InHandCurrent'
<1> SUFFICES ASSUME cur'.pc # "idle", cur'.policy \notin queue'
             PROVE  InHand'
  BY DEF InHandCurrent
<1> DEFINE SameWork ==
        /\ cur'.pc = cur.pc /\ cur'.policy = cur.policy /\ cur'.spec = cur.spec
        /\ cur'.types = cur.types /\ cur'.desired = cur.desired
        /\ cur'.toDelete = cur.toDelete /\ cur'.toCreate = cur.toCreate
<1>1. ASSUME SameWork, queue \subseteq queue',
             \/ /\ UNCHANGED cacheVars
                /\ \A a \in AssignmentNames : ownerEvents[a] \subseteq ownerEvents'[a]
             \/ DeliveryStep
      PROVE  InHand'
  <2>1. InHand /\ cur.pc # "idle" /\ cur.policy \notin queue'
    BY <1>1 DEF InHandCurrent
  <2> QED
    BY <1>1, <2>1, InHandKept
<1>2. CASE UserStep
  <2>1. SameWork
    BY <1>2, TouchPolicyType
    DEF UserStep, ApplyPolicy, DeletePolicy, RemovePolicy, DeletePolicyForeground, EditClusterType,
        EditTarget, UserDeletesAssignment
  <2>2. UNCHANGED <<cacheVars, queue>>
    BY <1>2
    DEF UserStep, ApplyPolicy, DeletePolicy, RemovePolicy, DeletePolicyForeground, EditClusterType,
        EditTarget, UserDeletesAssignment
  <2>3. UNCHANGED ownerEvents \/ \E a \in AssignmentNames : RemoveAssignment(a)
    BY <1>2
    DEF UserStep, ApplyPolicy, DeletePolicy, RemovePolicy, DeletePolicyForeground, EditClusterType,
        EditTarget, UserDeletesAssignment
  <2> QED
    BY <1>1, <2>1, <2>2, <2>3, OwnerEventsGrow
<1>3. CASE CollectorStep
  <2>1. SameWork
    BY <1>3, TouchPolicyType DEF CollectorStep, CollectAssignment, CollectPolicy, RemovePolicy
  <2>2. UNCHANGED <<cacheVars, queue>>
    BY <1>3 DEF CollectorStep, CollectAssignment, CollectPolicy, RemovePolicy
  <2>3. UNCHANGED ownerEvents \/ \E a \in AssignmentNames : RemoveAssignment(a)
    BY <1>3 DEF CollectorStep, CollectAssignment, CollectPolicy, RemovePolicy
  <2> QED
    BY <1>1, <2>1, <2>2, <2>3, OwnerEventsGrow
<1>4. CASE DeliveryStep
  <2>1. UNCHANGED cur /\ queue \subseteq queue'
    BY <1>4
    DEF DeliveryStep, DeliverPolicy, DeliverClusterType, DeliverTarget, DeliverAssignment
  <2> QED
    BY <1>1, <1>4, <2>1
<1>5. ASSUME NEW p \in Policies, BeginStep(p)
      PROVE  InHand'
  <2>1. PICK ok \in BOOLEAN : Begin(p, ok) /\ ok
    BY <1>5 DEF BeginStep, BeginGone, Begin
  <2>2. cur' = [IdleWorker EXCEPT !.pc = "listTypes", !.policy = p, !.spec = cPolicies[p],
                                  !.fresh = TRUE, !.live = TRUE]
    BY <2>1 DEF Begin
  <2>3. cur'.pc = "listTypes" /\ cur'.policy = p /\ cur'.spec = cPolicies[p]
    BY <2>2, IdleWorkerType DEF Workers
  <2> QED
    BY <2>1, <2>3 DEF Begin, WorkerFrame, cacheVars, InHand
<1>6. CASE WorkerStep
  <2> USE DEF WorkerFrame, cacheVars
  <2>0. /\ cur \in Workers
        /\ cur.pc # "idle" => cur.policy \in Policies
    BY DEF TypeInv, TypeOK, WorkerOK, Workers
  <2>1. CASE ListClusterTypes
    BY <2>0, <2>1 DEF ListClusterTypes, InHandCurrent, InHand, Workers
  <2>2. CASE ListTargets
    <3>1. InHand
      BY <2>0, <2>2 DEF ListTargets, InHandCurrent, Workers
    <3>2. CASE SchedulerOK(cur.spec)
      <4>1. cur' = [cur EXCEPT !.pc = "listAssignments", !.types = IdleWorker.types,
                               !.desired = Desired(cur.spec, cClusterTypes, cTargets)]
        BY <2>2, <3>1, <3>2 DEF ListTargets, InHand
      <4>2. /\ cur'.pc = "listAssignments" /\ cur'.policy = cur.policy /\ cur'.spec = cur.spec
            /\ cur'.desired = Desired(cur.spec, cClusterTypes, cTargets)
        BY <2>0, <4>1 DEF Workers
      <4> QED
        BY <2>2, <3>1, <3>2, <4>2 DEF ListTargets, InHand
    <3>3. CASE ~SchedulerOK(cur.spec)
      BY <2>0, <2>2, <3>1, <3>3 DEF ListTargets, InHand, Workers
    <3> QED
      BY <3>2, <3>3
  <2>3. CASE ListAssignments
    <3>1. InHand
      BY <2>0, <2>3 DEF ListAssignments, InHandCurrent, Workers
    <3> QED
      BY <2>0, <2>3, <3>1 DEF ListAssignments, InHand, Workers
  <2>4. ASSUME NEW a \in AssignmentNames, NEW ok \in BOOLEAN, DeleteAssignment(a, ok)
        PROVE  InHand'
    <3>1. InHand /\ cur.pc = "write"
      BY <2>0, <2>4 DEF DeleteAssignment, InHandCurrent, Workers
    <3>2. /\ cur'.policy = cur.policy /\ cur'.spec = cur.spec /\ cur'.desired = cur.desired
          /\ cur'.pc \in {"write", "fail"}
      BY <2>0, <2>4, <3>1 DEF DeleteAssignment, Workers
    <3>3. cur'.pc = "write" => assignments[a] # None /\ RemoveAssignment(a)
      BY <2>0, <2>4 DEF DeleteAssignment, Workers
    <3>4. cur'.pc = "write" => ~NoOwnerEvent(cur.policy)'
      <4> SUFFICES ASSUME cur'.pc = "write", NoOwnerEvent(cur.policy)'
                   PROVE  FALSE
        OBVIOUS
      <4>1. NoOwnerEvent(cur.policy)
        BY <3>2, <3>3 DEF NoOwnerEvent, RemoveAssignment, TypeInv, TypeOK
      <4>2. Owned(cAssignments, cur.policy, a)
        BY <2>4, <3>1, <4>1 DEF DeleteAssignment, InHand, Surplus, OfPolicy, Owned
      <4>3. assignments[a] = cAssignments[a]
        BY <2>0, <3>1, <4>1, <4>2 DEF Coherent, AssignmentCoherent, NoOwnerEvent
      <4>4. cur.policy \in ownerEvents'[a]
        BY <3>3, <4>2, <4>3 DEF RemoveAssignment, Owned, TypeInv, TypeOK
      <4> QED
        BY <3>2, <4>4 DEF NoOwnerEvent
    <3> QED
      BY <2>4, <3>1, <3>2, <3>4 DEF DeleteAssignment, InHand
  <2>5. ASSUME NEW s \in AssignmentSpecs, NEW ok \in BOOLEAN, CreateAssignment(s, ok)
        PROVE  InHand'
    <3>1. InHand /\ cur.pc = "write"
      BY <2>0, <2>5 DEF CreateAssignment, InHandCurrent, Workers
    <3>2. /\ cur'.policy = cur.policy /\ cur'.spec = cur.spec /\ cur'.desired = cur.desired
          /\ cur'.pc \in {"write", "fail"}
      BY <2>0, <2>5, <3>1 DEF CreateAssignment, Workers
    <3>3. cur'.pc = "write" =>
              ownerEvents' = [ownerEvents EXCEPT ![AssignmentName(s)] = @ \cup {cur.policy}]
      BY <2>0, <2>5 DEF CreateAssignment, Workers
    <3>4. cur'.pc = "write" => ~NoOwnerEvent(cur.policy)'
      <4>1. AssignmentName(s) \in AssignmentNames
        BY DEF AssignmentNames
      <4> QED
        BY <3>2, <3>3, <4>1 DEF NoOwnerEvent, TypeInv, TypeOK
    <3> QED
      BY <2>5, <3>1, <3>2, <3>4 DEF CreateAssignment, InHand
  <2>6. ~(\E ok \in BOOLEAN : Finish(ok)) /\ ~ManageFailure
    BY IdleWorkerType DEF Finish, ManageFailure, Return
  <2>7. CASE CallFails
    <3>1. cur' = [cur EXCEPT !.pc = "fail"] /\ UNCHANGED queue /\ cur.pc = "write"
      BY <2>7, IdleWorkerType DEF CallFails, Return
    <3>2. /\ cur'.policy = cur.policy /\ cur'.spec = cur.spec /\ cur'.pc = "fail"
      BY <2>0, <3>1 DEF Workers
    <3>3. InHand
      BY <3>1, <3>2 DEF InHandCurrent
    <3> QED
      BY <2>7, <3>2, <3>3 DEF CallFails, InHand
  <2> QED
    BY <1>6, <2>1, <2>2, <2>3, <2>4, <2>5, <2>6, <2>7 DEF WorkerStep
<1>7. CASE Crash
  BY <1>7, IdleWorkerType DEF Crash
<1>8. CASE UNCHANGED vars
  BY <1>1, <1>8 DEF vars, apiVars, eventVars
<1> QED
  BY <1>2, <1>3, <1>4, <1>5, <1>6, <1>7, <1>8 DEF Next

\* What p asks for and has is the same after a step that touches neither.
LEMMA ConvergedKept ==
    ASSUME NEW p \in Policies, Converged(p),
           policies'[p] = policies[p], reason'[p] = reason[p], UNCHANGED <<clusterTypes, targets>>,
           \A a \in AssignmentNames :
              Owned(assignments, p, a) \/ Owned(assignments', p, a)
                  => assignments[a] = assignments'[a]
    PROVE  Converged(p)'
<1>1. SpecsOf(assignments, OfPolicy(assignments, p))
          = SpecsOf(assignments', OfPolicy(assignments', p))
  BY SameView
<1> QED
  BY <1>1 DEF Converged, Scheduled

\* An assignment that goes away tells its owner.
LEMMA RemovalTold ==
    ASSUME TypeInv, NEW p \in Policies, NEW a \in AssignmentNames, assignments[a] # None,
           RemoveAssignment(a), NoOwnerEvent(p)'
    PROVE  /\ NoOwnerEvent(p)
           /\ OfPolicy(assignments', p) = OfPolicy(assignments, p)
           /\ orphans \cap OfPolicy(assignments, p) = orphans' \cap OfPolicy(assignments, p)
           /\ \A b \in AssignmentNames :
                 Owned(assignments, p, b) \/ Owned(assignments', p, b)
                     => assignments[b] = assignments'[b]
<1> USE DEF TypeInv, TypeOK
<1>1. NoOwnerEvent(p)
  BY OwnerEventsGrow DEF NoOwnerEvent
<1>2. ~Owned(assignments, p, a) /\ ~Owned(assignments', p, a)
  BY DEF RemoveAssignment, NoOwnerEvent, Owned
<1>3. \A b \in AssignmentNames \ {a} : assignments[b] = assignments'[b]
  BY DEF RemoveAssignment
<1>4. OfPolicy(assignments', p) = OfPolicy(assignments, p)
  BY <1>2, <1>3 DEF OfPolicy, Owned
<1>5. orphans \cap OfPolicy(assignments, p) = orphans' \cap OfPolicy(assignments, p)
  BY <1>2 DEF RemoveAssignment, OfPolicy, Owned
<1> QED
  BY <1>1, <1>2, <1>3, <1>4, <1>5

LEMMA RestAfterRemoval ==
    ASSUME TypeInv, NEW p \in Policies, Resting(p) => Converged(p), Resting(p)',
           NEW a \in AssignmentNames, assignments[a] # None, RemoveAssignment(a),
           UNCHANGED <<policies, terminating, clusterTypes, targets, reason, policyEvent,
                       typeEvents, targetEvents, queue>>,
           cur'.policy = cur.policy
    PROVE  Converged(p)'
<1>1. NoOwnerEvent(p)'
  BY DEF Resting, Calm, NoOwnerEvent
<1>2. Calm(p)
  BY <1>1, RemovalTold DEF Resting, Calm, NoOwnerEvent
<1>3. Converged(p)
  BY <1>2 DEF Resting
<1> QED
  BY <1>1, <1>3, RemovalTold, ConvergedKept

\* A write to another policy q leaves p at rest.
LEMMA RestAfterTouch ==
    ASSUME TypeInv, NEW p \in Policies, Resting(p) => Converged(p), Resting(p)',
           NEW q \in Policies, NEW live \in BOOLEAN, TouchPolicy(q, live),
           \A x \in Policies \ {q} :
              /\ policies'[x] = policies[x] /\ reason'[x] = reason[x]
              /\ x \in terminating' <=> x \in terminating,
           orphans \subseteq orphans',
           UNCHANGED <<clusterTypes, targets, assignments, typeEvents, targetEvents, ownerEvents,
                       queue>>
    PROVE  Converged(p)'
<1>1. p # q
  BY DEF Resting, Calm, TouchPolicy, TypeInv, TypeOK
<1>2. policyEvent'[p] = policyEvent[p]
  BY <1>1 DEF TouchPolicy, TypeInv, TypeOK
<1>3. Calm(p)
  BY <1>1, <1>2 DEF Resting, Calm
<1>4. Converged(p)
  BY <1>1, <1>3, TouchPolicyType DEF Resting
<1> QED
  BY <1>1, <1>4, ConvergedKept

\* A reconcile of p that ends well leaves p converged if nothing is on its way.
LEMMA FinishConverges ==
    ASSUME TypeInv, Coherent, InHandCurrent, NEW p \in Policies, p = cur.policy, Finish(TRUE),
           Resting(p)'
    PROVE  Converged(p)'
<1> USE DEF WorkerFrame, cacheVars
<1>1. /\ UNCHANGED <<policies, terminating, clusterTypes, targets, assignments, orphans,
                     typeEvents, targetEvents, ownerEvents, queue>>
      /\ WriteStatus(p, "AssignmentsCreated")
      /\ cur.pc = "write" /\ cur.toDelete = {} /\ cur.toCreate = {}
  BY DEF Finish, Return, LoopsDone
<1>2. reason'[p] = "AssignmentsCreated"
  BY <1>1 DEF WriteStatus, TypeInv, TypeOK
<1>3. policyEvent[p] # "spec" /\ typeEvents = {} /\ targetEvents = {} /\ NoOwnerEvent(p)
  BY <1>1 DEF WriteStatus, Resting, Calm, NoOwnerEvent, TypeInv, TypeOK
<1>4. InHand
  BY <1>1 DEF InHandCurrent, Resting, Calm
<1>5. cur.spec = policies[p]
  BY <1>3, <1>4 DEF InHand, Coherent, PolicyCoherent
<1>6. cClusterTypes = clusterTypes
  BY <1>3 DEF Coherent, TypeCoherent, TypeInv, TypeOK
<1>7. cTargets = targets
  BY <1>3 DEF Coherent, TargetCoherent, TypeInv, TypeOK
<1>8. /\ SchedulerOK(policies[p])
      /\ cur.desired = Desired(policies[p], clusterTypes, targets)
  BY <1>1, <1>4, <1>5, <1>6, <1>7 DEF InHand
<1>9. Surplus(cAssignments, p, cur.desired) = {} /\ Missing(cAssignments, p, cur.desired) = {}
  BY <1>1, <1>3, <1>4 DEF InHand
<1>10. SpecsOf(cAssignments, OfPolicy(cAssignments, p)) = cur.desired
  BY <1>9 DEF Surplus, Missing, SpecsOf
<1>11. SpecsOf(assignments, OfPolicy(assignments, p)) = cur.desired
  BY <1>3, <1>10, SameView DEF Coherent, AssignmentCoherent, NoOwnerEvent
<1> QED
  BY <1>1, <1>2, <1>8, <1>11 DEF Converged, Scheduled

LEMMA ConvergedStep ==
    ASSUME TypeInv, Coherent, InHandCurrent, [Next]_vars,
           NEW p \in Policies, Resting(p) => Converged(p), Resting(p)'
    PROVE  Converged(p)'
<1> USE DEF WorkerFrame
\* The worker writes the status of its own policy only.
<1>1. ASSUME Calm(p), cur.policy # p, reason'[p] = reason[p],
             UNCHANGED <<policies, clusterTypes, targets, assignments>>
      PROVE  Converged(p)'
  BY <1>1, ConvergedKept DEF Resting
<1>2. CASE UserStep
  <2>1. ASSUME NEW q \in Policies, NEW ps \in PolicySpecs, ApplyPolicy(q, ps)
        PROVE  Converged(p)'
    <3>1. \A x \in Policies \ {q} :
             /\ policies'[x] = policies[x] /\ reason'[x] = reason[x]
             /\ x \in terminating' <=> x \in terminating
      BY <2>1 DEF ApplyPolicy, TypeInv, TypeOK
    <3> QED
      BY <2>1, <3>1, RestAfterTouch DEF ApplyPolicy
  <2>2. ASSUME NEW q \in Policies, RemovePolicy(q)
        PROVE  Converged(p)'
    BY <2>2, RestAfterTouch DEF RemovePolicy, TypeInv, TypeOK
  <2>3. ASSUME NEW q \in Policies, DeletePolicyForeground(q)
        PROVE  Converged(p)'
    BY <2>3, RestAfterTouch DEF DeletePolicyForeground, TypeInv, TypeOK
  <2>4. ASSUME NEW c \in ClusterTypeNames, NEW l \in ClusterTypeSpecs \cup {None},
               EditClusterType(c, l)
        PROVE  FALSE
    BY <2>4 DEF EditClusterType, Resting, Calm
  <2>5. ASSUME NEW d \in TargetNames, NEW t \in TargetSpecs \cup {None}, EditTarget(d, t)
        PROVE  FALSE
    BY <2>5 DEF EditTarget, Resting, Calm
  <2>6. ASSUME NEW a \in AssignmentNames, UserDeletesAssignment(a)
        PROVE  Converged(p)'
    BY <2>6, RestAfterRemoval DEF UserDeletesAssignment
  <2> QED
    BY <1>2, <2>1, <2>2, <2>3, <2>4, <2>5, <2>6 DEF UserStep, DeletePolicy
<1>3. CASE CollectorStep
  <2>1. ASSUME NEW a \in AssignmentNames, CollectAssignment(a)
        PROVE  Converged(p)'
    BY <2>1, RestAfterRemoval DEF CollectAssignment
  <2>2. ASSUME NEW q \in Policies, CollectPolicy(q)
        PROVE  Converged(p)'
    BY <2>2, RestAfterTouch DEF CollectPolicy, RemovePolicy, TypeInv, TypeOK
  <2> QED
    BY <1>3, <2>1, <2>2 DEF CollectorStep
<1>4. CASE DeliveryStep
  <2>0. cPolicies[p] # None \/ policyEvent[p] = "spec"
    <3>1. policies[p] # None
      BY <1>4
      DEF DeliveryStep, DeliverPolicy, DeliverClusterType, DeliverTarget, DeliverAssignment, apiVars,
          Resting
    <3> QED
      BY <3>1 DEF Coherent, PolicyCoherent
  <2>1. ASSUME NEW q \in Policies, DeliverPolicy(q)
        PROVE  Converged(p)'
    <3>1. policyEvent[p] # "spec"
      BY <2>1 DEF DeliverPolicy, Resting, Calm, TypeInv, TypeOK
    <3> QED
      BY <1>1, <2>1, <3>1 DEF DeliverPolicy, Resting, Calm, apiVars
  <2>2. ASSUME NEW c \in ClusterTypeNames, DeliverClusterType(c)
        PROVE  FALSE
    BY <2>0, <2>2 DEF DeliverClusterType, FindPolicies, Resting, Calm
  <2>3. ASSUME NEW d \in TargetNames, DeliverTarget(d)
        PROVE  FALSE
    BY <2>0, <2>3 DEF DeliverTarget, FindPolicies, Resting, Calm
  <2>4. ASSUME NEW a \in AssignmentNames, DeliverAssignment(a)
        PROVE  Converged(p)'
    BY <1>1, <2>4 DEF DeliverAssignment, Resting, Calm, apiVars, TypeInv, TypeOK
  <2> QED
    BY <1>4, <2>1, <2>2, <2>3, <2>4 DEF DeliveryStep
<1>5. ASSUME NEW q \in Policies, BeginStep(q)
      PROVE  Converged(p)'
  <2>0. cur.policy = None
    BY <1>5 DEF BeginStep, BeginGone, Begin, TypeInv, WorkerOK
  <2>1. CASE BeginGone(q)
    <3>1. p # q
      BY <2>1 DEF BeginGone, Resting, Calm, Coherent, PolicyCoherent
    <3> QED
      BY <1>1, <2>0, <2>1, <3>1, ConstantsAssumption DEF BeginGone, Resting, Calm
  <2>2. ASSUME NEW ok \in BOOLEAN, Begin(q, ok)
        PROVE  Converged(p)'
    <3>1. p # q
      <4>1. CASE ok
        <5>1. cur' = [IdleWorker EXCEPT !.pc = "listTypes", !.policy = q, !.spec = cPolicies[q],
                                        !.fresh = TRUE, !.live = TRUE]
          BY <2>2, <4>1 DEF Begin
        <5>2. cur'.policy = q
          BY <5>1, IdleWorkerType DEF Workers
        <5> QED
          BY <5>2 DEF Resting
      <4>2. CASE ~ok
        BY <2>2, <4>2 DEF Begin, Resting, Calm
      <4> QED
        BY <4>1, <4>2
    <3>2. reason'[p] = reason[p] /\ policyEvent'[p] = policyEvent[p]
      BY <2>2, <3>1 DEF Begin, WriteStatus, TypeInv, TypeOK
    <3>3. p \notin queue
      BY <2>2, <3>1 DEF Begin, Resting, Calm
    <3>4. Calm(p)
      BY <2>2, <3>2, <3>3 DEF Begin, Resting, Calm
    <3> QED
      BY <1>1, <2>0, <2>2, <3>2, <3>4, ConstantsAssumption DEF Begin
  <2> QED
    BY <1>5, <2>1, <2>2 DEF BeginStep
<1>6. CASE WorkerStep
  <2>0. cur \in Workers /\ (cur.pc # "idle" => cur.policy \in Policies)
    BY DEF TypeInv, TypeOK, WorkerOK, Workers
  <2>1. CASE ListClusterTypes \/ ListTargets \/ ListAssignments
    <3>1. cur'.policy = cur.policy
      BY <2>0, <2>1 DEF ListClusterTypes, ListTargets, ListAssignments, Workers
    <3> QED
      BY <1>1, <2>1, <3>1 DEF ListClusterTypes, ListTargets, ListAssignments, Resting, Calm
  <2>2. ASSUME NEW a \in AssignmentNames, NEW ok \in BOOLEAN, DeleteAssignment(a, ok)
        PROVE  Converged(p)'
    <3>1. cur'.policy = cur.policy
      BY <2>0, <2>2 DEF DeleteAssignment, Workers
    <3>2. CASE assignments[a] # None
      BY <2>2, <3>1, <3>2, RestAfterRemoval DEF DeleteAssignment
    <3>3. CASE assignments[a] = None
      BY <1>1, <2>2, <3>1, <3>3 DEF DeleteAssignment, Resting, Calm
    <3> QED
      BY <3>2, <3>3
  <2>3. ASSUME NEW s \in AssignmentSpecs, NEW ok \in BOOLEAN, CreateAssignment(s, ok)
        PROVE  Converged(p)'
    <3> DEFINE a == AssignmentName(s)
    <3>0. a \in AssignmentNames
      BY DEF AssignmentNames
    <3>1. cur'.policy = cur.policy
      BY <2>0, <2>3 DEF CreateAssignment, Workers
    <3>2. cur.policy # p
      BY <3>1 DEF Resting
    <3>3. CASE assignments[a] # None
      BY <1>1, <2>3, <3>1, <3>3 DEF CreateAssignment, Resting, Calm
    <3>4. CASE assignments[a] = None
      <4>1. assignments' = [assignments EXCEPT ![a] = [spec |-> s, policy |-> cur.policy]]
        BY <2>3, <3>4 DEF CreateAssignment
      <4>2. \A b \in AssignmentNames :
               Owned(assignments, p, b) \/ Owned(assignments', p, b)
                   => assignments[b] = assignments'[b]
        BY <3>0, <3>2, <3>4, <4>1 DEF Owned, TypeInv, TypeOK
      <4>3. NoOwnerEvent(p) /\ orphans \subseteq orphans'
        BY <2>3, <3>0, <3>4
        DEF CreateAssignment, Resting, Calm, NoOwnerEvent, TypeInv, TypeOK
      <4>4. OfPolicy(assignments, p) = OfPolicy(assignments', p)
        BY <4>2, SameView
      <4>5. Calm(p)
        BY <2>3, <4>3, <4>4 DEF CreateAssignment, Resting, Calm, NoOwnerEvent
      <4> QED
        BY <2>3, <3>2, <4>2, <4>5, ConvergedKept DEF CreateAssignment, Resting
    <3> QED
      BY <3>3, <3>4
  \* The steps that end a reconcile.
  <2>4. ASSUME cur.policy # p, cur.policy \in Policies, NEW error \in BOOLEAN,
               Return(cur.policy, error),
               \/ \E r \in Reasons : WriteStatus(cur.policy, r)
               \/ UNCHANGED <<reason, policyEvent>>,
               UNCHANGED <<policies, terminating, clusterTypes, targets, assignments, orphans,
                           typeEvents, targetEvents, ownerEvents>>
        PROVE  Converged(p)'
    <3>1. reason'[p] = reason[p] /\ policyEvent'[p] = policyEvent[p]
      BY <2>4 DEF WriteStatus, TypeInv, TypeOK
    <3>2. Calm(p)
      BY <2>4, <3>1 DEF Return, Resting, Calm
    <3> QED
      BY <1>1, <2>4, <3>1, <3>2
  <2>5. ASSUME NEW ok \in BOOLEAN, Finish(ok)
        PROVE  Converged(p)'
    <3>1. CASE cur.policy = p /\ ok
      BY <2>5, <3>1, FinishConverges
    <3>2. CASE cur.policy = p /\ ~ok
      BY <2>5, <3>2 DEF Finish, Return, Resting, Calm
    <3>3. CASE cur.policy # p
      BY <2>0, <2>4, <2>5, <3>3 DEF Finish, Reasons
    <3> QED
      BY <3>1, <3>2, <3>3
  <2>6. CASE ManageFailure
    <3>1. cur.policy # p
      BY <2>6 DEF ManageFailure, Return, Resting, Calm
    <3> QED
      BY <2>0, <2>4, <2>6, <3>1 DEF ManageFailure, Reasons
  <2>7. CASE CallFails
    <3>1. CASE cur' = [cur EXCEPT !.pc = "fail"] /\ UNCHANGED queue
      <4>1. cur'.policy = cur.policy
        BY <2>0, <3>1 DEF Workers
      <4> QED
        BY <1>1, <2>7, <3>1, <4>1 DEF CallFails, Resting, Calm
    <3>2. CASE Return(cur.policy, TRUE)
      <4>1. cur.policy # p
        BY <3>2 DEF Return, Resting, Calm
      <4> QED
        BY <2>0, <2>4, <2>7, <3>2, <4>1 DEF CallFails
    <3> QED
      BY <2>7, <3>1, <3>2 DEF CallFails
  <2> QED
    BY <1>6, <2>1, <2>2, <2>3, <2>5, <2>6, <2>7 DEF WorkerStep
<1>7. CASE Crash
  BY <1>7 DEF Crash, apiVars, Resting, Calm
<1>8. CASE UNCHANGED vars
  BY <1>1, <1>8 DEF vars, apiVars, eventVars, Resting, Calm
<1> QED
  BY <1>2, <1>3, <1>4, <1>5, <1>6, <1>7, <1>8 DEF Next

LEMMA IInvStep == TypeInv /\ IInv /\ [Next]_vars => IInv'
<1> SUFFICES ASSUME TypeInv, IInv, [Next]_vars
             PROVE  IInv'
  OBVIOUS
<1>1. Coherent'
  BY PolicyCoherentStep, TypeCoherentStep, TargetCoherentStep, AssignmentCoherentStep
  DEF IInv, Coherent
<1>2. InHandCurrent'
  BY InHandStep DEF IInv
<1>3. \A p \in Policies : Resting(p)' => Converged(p)'
  BY ConvergedStep DEF IInv
<1> QED
  BY <1>1, <1>2, <1>3 DEF IInv

LEMMA InductiveInvariant == Spec => [](TypeInv /\ IInv)
<1>1. Init => TypeInv /\ IInv
  BY TypeInit, ConvergeInit
<1>2. TypeInv /\ IInv /\ [Next]_vars => (TypeInv /\ IInv)'
  BY TypeStep, IInvStep
<1> QED
  BY <1>1, <1>2, PTL DEF Spec

\* The reconciler is level-triggered: a policy that no reconcile is running for
\* and nothing will trigger one for has exactly the assignments that its spec asks
\* for now, and says it is ready, whatever was lost, refused or stale before.
THEOREM Convergence == Spec => []QuiescentConverged
<1>1. IInv => QuiescentConverged
  BY DEF IInv, QuiescentConverged, Resting, Converged
<1> QED
  BY <1>1, InductiveInvariant, PTL

\* A reconcile of a policy whose assignments are right writes none and deletes
\* none.
THEOREM Idempotence == Spec => IdempotentReconcile
<1>1. ASSUME TypeInv, IInv, cur.pc # "idle", Calm(cur.policy), Scheduled(cur.policy), WorkerStep
      PROVE  UNCHANGED assignments
  <2> DEFINE p == cur.policy
  <2>1. p \in Policies
    BY <1>1 DEF TypeInv, TypeOK, WorkerOK, Workers
  <2>2. InHand /\ NoOwnerEvent(p)
    BY <1>1 DEF IInv, InHandCurrent, Calm, NoOwnerEvent
  <2>3. cur.pc = "write" => cur.desired = SpecsOf(assignments, OfPolicy(assignments, p))
    <3>1. cur.spec = policies[p]
      BY <1>1, <2>1, <2>2 DEF InHand, IInv, Coherent, PolicyCoherent, Calm
    <3>2. cClusterTypes = clusterTypes /\ cTargets = targets
      BY <1>1 DEF IInv, Coherent, TypeCoherent, TargetCoherent, Calm, TypeInv, TypeOK
    <3> QED
      BY <1>1, <2>2, <3>1, <3>2 DEF InHand, Scheduled
  <2>4. cur.pc = "write" => cur.toDelete = {} /\ cur.toCreate = {}
    <3>1. /\ Surplus(cAssignments, p, cur.desired) = Surplus(assignments, p, cur.desired)
          /\ Missing(cAssignments, p, cur.desired) = Missing(assignments, p, cur.desired)
      <4>1. \A a \in AssignmentNames :
               Owned(cAssignments, p, a) \/ Owned(assignments, p, a)
                   => cAssignments[a] = assignments[a]
        BY <1>1, <2>1, <2>2 DEF IInv, Coherent, AssignmentCoherent, NoOwnerEvent
      <4> QED
        BY <4>1, SameView
    <3> QED
      BY <2>2, <2>3, <3>1 DEF InHand, Surplus, Missing, SpecsOf
  <2> QED
    BY <1>1, <2>4
    DEF WorkerStep, ListClusterTypes, ListTargets, ListAssignments, DeleteAssignment,
        CreateAssignment, Finish, ManageFailure, CallFails
<1>2. TypeInv /\ IInv /\ [Next]_vars
          => [(cur.pc # "idle" /\ Calm(cur.policy) /\ Scheduled(cur.policy) /\ WorkerStep)
                 => UNCHANGED assignments]_vars
  BY <1>1
<1> QED
  BY <1>2, InductiveInvariant, PTL DEF Spec, IdempotentReconcile

(***************************************************************************)
(* The matrix of assignments.                                              *)
(***************************************************************************)

\* An assignment is under the name that its spec has.
Named == \A a \in AssignmentNames : assignments[a] # None => a = AssignmentName(assignments[a].spec)

\* Exactly one assignment of p for each target and cluster type it selects; no other.
Matrix(p) ==
    LET own  == OfPolicy(assignments, p)
        here == InEnvironment(targets)
        ds   == SelectDeploymentTargets(policies[p], here)
        cs   == SelectClusterTypes(policies[p], Present(clusterTypes))
    IN  /\ \A a \in own : assignments[a].spec.target \in ds /\ assignments[a].spec.clusterType \in cs
        /\ \A d \in ds, c \in cs : \E a \in own :
              /\ assignments[a].spec = Assign(GetWorkload(here[d].labels), d, c)
              /\ \A b \in own : assignments[b].spec.target = d /\ assignments[b].spec.clusterType = c => b = a

LEMMA NamedStep == TypeInv /\ Named /\ [Next]_vars => Named'
<1> SUFFICES ASSUME TypeInv, Named, [Next]_vars PROVE Named'
  OBVIOUS
<1>0. assignments \in [AssignmentNames -> Assignments \cup {None}]
  BY DEF TypeInv, TypeOK
<1>1. ASSUME NEW a \in AssignmentNames, RemoveAssignment(a) PROVE Named'
  <2>1. assignments' = [assignments EXCEPT ![a] = None]
    BY <1>1 DEF RemoveAssignment
  <2> QED
    BY <1>0, <2>1 DEF Named
<1>2. ASSUME NEW s \in AssignmentSpecs, NEW ok \in BOOLEAN, CreateAssignment(s, ok) PROVE Named'
  <2>1. CASE assignments' = assignments
    BY <2>1 DEF Named
  <2>2. CASE assignments' = [assignments EXCEPT ![AssignmentName(s)] = [spec |-> s, policy |-> cur.policy]]
    BY <1>0, <2>2 DEF Named
  <2> QED
    BY <1>2, <2>1, <2>2 DEF CreateAssignment
<1>3. CASE assignments' = assignments
  BY <1>3 DEF Named
<1>4. CASE UserStep
  BY <1>1, <1>3, <1>4
  DEF UserStep, ApplyPolicy, DeletePolicy, DeletePolicyForeground, EditClusterType, EditTarget,
      UserDeletesAssignment, RemovePolicy, apiVars
<1>5. CASE CollectorStep
  BY <1>1, <1>3, <1>5 DEF CollectorStep, CollectAssignment, CollectPolicy, RemovePolicy
<1>6. CASE DeliveryStep
  BY <1>3, <1>6
  DEF DeliveryStep, DeliverPolicy, DeliverClusterType, DeliverTarget, DeliverAssignment, apiVars
<1>7. CASE \E q \in Policies : BeginStep(q)
  BY <1>3, <1>7 DEF BeginStep, BeginGone, Begin, WorkerFrame, apiVars
<1>8. CASE WorkerStep
  <2>1. ASSUME NEW a \in AssignmentNames, NEW ok \in BOOLEAN, DeleteAssignment(a, ok) PROVE Named'
    BY <1>1, <1>3, <2>1 DEF DeleteAssignment
  <2> QED
    BY <1>2, <1>3, <1>8, <2>1
    DEF WorkerStep, ListClusterTypes, ListTargets, ListAssignments, Finish, ManageFailure, CallFails
<1>9. CASE Crash
  BY <1>3, <1>9 DEF Crash, apiVars
<1> QED
  BY <1>3, <1>4, <1>5, <1>6, <1>7, <1>8, <1>9 DEF Next, vars, apiVars

\* The assignments of a policy at rest are the matrix that scheduler.go describes: one, and
\* no second one, of each selected target with each selected cluster type, although reconciles
\* fail half-way, read stale lists and are repeated.
THEOREM OneOfEach == Spec => [](\A p \in Policies : Resting(p) => Matrix(p))
<1>1. Init => Named
  BY DEF Init, Named
<1>2. ASSUME TypeInv, IInv, Named, NEW p \in Policies, Resting(p) PROVE Matrix(p)
  <2> DEFINE own  == OfPolicy(assignments, p)
             here == InEnvironment(targets)
             ds   == SelectDeploymentTargets(policies[p], here)
             cs   == SelectClusterTypes(policies[p], Present(clusterTypes))
  <2>1. SpecsOf(assignments, own)
        = {Assign(GetWorkload(here[d].labels), d, c) : d \in ds, c \in cs}
    BY <1>2 DEF IInv, Converged, Scheduled, Desired, Schedule
  <2> HIDE DEF here, ds, cs
  <2>2. ASSUME NEW a \in own
        PROVE  /\ assignments[a].spec.target \in ds /\ assignments[a].spec.clusterType \in cs
               /\ assignments[a].spec = Assign(GetWorkload(here[assignments[a].spec.target].labels),
                                               assignments[a].spec.target, assignments[a].spec.clusterType)
    <3>1. assignments[a].spec \in SpecsOf(assignments, own)
      BY DEF SpecsOf
    <3>2. PICK d \in ds, c \in cs : assignments[a].spec = Assign(GetWorkload(here[d].labels), d, c)
      BY <2>1, <3>1
    <3>3. assignments[a].spec.target = d /\ assignments[a].spec.clusterType = c
      BY <3>2 DEF Assign
    <3> QED
      BY <3>2, <3>3
  <2>3. ASSUME NEW d \in ds, NEW c \in cs
        PROVE  \E a \in own :
                  /\ assignments[a].spec = Assign(GetWorkload(here[d].labels), d, c)
                  /\ \A b \in own : assignments[b].spec.target = d /\ assignments[b].spec.clusterType = c => b = a
    <3>1. PICK a \in own : assignments[a].spec = Assign(GetWorkload(here[d].labels), d, c)
      BY <2>1 DEF SpecsOf
    <3>2. ASSUME NEW b \in own, assignments[b].spec.target = d, assignments[b].spec.clusterType = c PROVE b = a
      <4>1. assignments[b].spec = assignments[a].spec
        BY <2>2, <3>1, <3>2
      <4> QED
        BY <1>2, <4>1 DEF Named, OfPolicy
    <3> QED
      BY <3>1, <3>2
  <2> QED
    BY <2>2, <2>3 DEF Matrix, here, ds, cs
<1>3. Spec => []Named
  <2>1. TypeInv /\ IInv /\ Named /\ [Next]_vars => Named'
    BY NamedStep
  <2> QED
    BY <1>1, <2>1, InductiveInvariant, PTL DEF Spec
<1>4. TypeInv /\ IInv /\ Named => \A p \in Policies : Resting(p) => Matrix(p)
  BY <1>2
<1> QED
  BY <1>3, <1>4, InductiveInvariant, PTL

(***************************************************************************)
(* Names of assignments.                                                   *)
(***************************************************************************)
\* Two concatenations cut at the same places have the same parts.
LEMMA SameParts ==
    ASSUME NEW S, NEW u \in Seq(S), NEW v \in Seq(S), NEW x \in Seq(S), NEW y \in Seq(S),
           Len(u) = Len(v), u \o x = v \o y
    PROVE  u = v /\ x = y
<1>1. Len(u) \in Nat /\ Len(x) \in Nat /\ Len(y) \in Nat
  BY LenProperties
<1>2. Len(u \o x) = Len(u) + Len(x) /\ Len(v \o y) = Len(v) + Len(y)
  BY ConcatProperties
<1>3. Len(x) = Len(y)
  BY <1>1, <1>2
<1>4. \A i \in 1..(Len(u) + Len(x)) : (IF i <= Len(u) THEN u[i] ELSE x[i - Len(u)])
                                     = (IF i <= Len(u) THEN v[i] ELSE y[i - Len(u)])
  <2>1. \A i \in 1..(Len(u) + Len(x)) : (u \o x)[i] = IF i <= Len(u) THEN u[i] ELSE x[i - Len(u)]
    BY ConcatProperties
  <2>2. \A i \in 1..(Len(v) + Len(y)) : (v \o y)[i] = IF i <= Len(v) THEN v[i] ELSE y[i - Len(v)]
    BY ConcatProperties
  <2> QED
    BY <1>3, <2>1, <2>2
<1>5. ASSUME NEW i \in 1..Len(u) PROVE u[i] = v[i]
  <2>1. i \in 1..(Len(u) + Len(x)) /\ i <= Len(u)
    BY <1>1
  <2> QED
    BY <1>4, <2>1
<1>6. ASSUME NEW i \in 1..Len(x) PROVE x[i] = y[i]
  <2>1. /\ i + Len(u) \in 1..(Len(u) + Len(x)) /\ ~(i + Len(u) <= Len(u))
        /\ (i + Len(u)) - Len(u) = i
    BY <1>1
  <2> QED
    BY <1>4, <2>1
<1> QED
  BY <1>3, <1>5, <1>6, SeqEqual

LEMMA SameThreeParts ==
    ASSUME NEW S
    PROVE  \A u, v, x, y, w, z \in Seq(S) :
               Len(u) = Len(v) /\ Len(x) = Len(y) /\ (u \o x) \o w = (v \o y) \o z
               => u = v /\ x = y /\ w = z
<1>s. \A a, b, c, d \in Seq(S) : Len(a) = Len(b) /\ a \o c = b \o d => a = b /\ c = d
  BY SameParts, Zenon
<1> TAKE u, v, x, y, w, z \in Seq(S)
<1>0. HAVE Len(u) = Len(v) /\ Len(x) = Len(y) /\ (u \o x) \o w = (v \o y) \o z
<1>1. /\ u \o x \in Seq(S) /\ Len(u \o x) = Len(u) + Len(x)
      /\ v \o y \in Seq(S) /\ Len(v \o y) = Len(v) + Len(y)
  BY ConcatProperties
<1>2. PICK p \in Seq(S) : p = u \o x
  BY <1>1, Zenon
<1>3. PICK q \in Seq(S) : q = v \o y
  BY <1>1, Zenon
<1>4. Len(p) = Len(q)
  BY <1>0, <1>1, <1>2, <1>3
<1>5. p \o w = q \o z
  BY <1>0, <1>2, <1>3, Zenon
<1>6. p = q /\ w = z
  BY <1>s, <1>4, <1>5, Zenon
<1>7. u \o x = v \o y
  BY <1>2, <1>3, <1>6, Zenon
<1>8. u = v /\ x = y
  BY <1>s, <1>0, <1>7, Zenon
<1> QED
  BY <1>6, <1>8, Zenon

\* Two assignments with one name assign the same target of the same workload to the
\* same cluster type when their workloads' names have the same number of dashes and so
\* have their targets' (assign, scheduler.go:140, joins the three with dashes). The
\* collision of SchedulingPolicy_collide takes targets with different numbers.
THEOREM NamesIdentify ==
    ASSUME NEW Segments, WorkloadNames \cup TargetNames \cup ClusterTypeNames \subseteq Seq(Segments),
           NEW s \in AssignmentSpecs, NEW t \in AssignmentSpecs,
           Len(s.workload) = Len(t.workload), Len(s.target) = Len(t.target),
           AssignmentName(s) = AssignmentName(t)
    PROVE  s = t
<1>1. /\ s.workload \in Seq(Segments) /\ s.target \in Seq(Segments) /\ s.clusterType \in Seq(Segments)
      /\ t.workload \in Seq(Segments) /\ t.target \in Seq(Segments) /\ t.clusterType \in Seq(Segments)
  BY DEF AssignmentSpecs
<1>2. (s.workload \o s.target) \o s.clusterType = (t.workload \o t.target) \o t.clusterType
  BY DEF AssignmentName
<1>3. s.workload = t.workload /\ s.target = t.target /\ s.clusterType = t.clusterType
  <2>1. \A u, v, x, y, w, z \in Seq(Segments) :
            Len(u) = Len(v) /\ Len(x) = Len(y) /\ (u \o x) \o w = (v \o y) \o z
            => u = v /\ x = y /\ w = z
    BY SameThreeParts, Zenon
  <2>2. PICK u, v, x, y, w, z \in Seq(Segments) :
            /\ u = s.workload /\ x = s.target /\ w = s.clusterType
            /\ v = t.workload /\ y = t.target /\ z = t.clusterType
    BY <1>1, Zenon
  <2>3. Len(u) = Len(v) /\ Len(x) = Len(y)
    BY <2>2
  <2>4. (u \o x) \o w = (v \o y) \o z
    BY <1>2, <2>2, Zenon
  <2>5. \A c, d, e, f \in Seq(Segments) :
            Len(u) = Len(v) /\ Len(c) = Len(d) /\ (u \o c) \o e = (v \o d) \o f
            => u = v /\ c = d /\ e = f
    BY <2>1, Zenon
  <2>6. \A e, f \in Seq(Segments) :
            Len(u) = Len(v) /\ Len(x) = Len(y) /\ (u \o x) \o e = (v \o y) \o f
            => u = v /\ x = y /\ e = f
    BY <2>5, Zenon
  <2>7. u = v /\ x = y /\ w = z
    BY <2>3, <2>4, <2>6, Zenon
  <2> QED
    BY <2>2, <2>7, Zenon
<1> QED
  BY <1>3 DEF AssignmentSpecs
=============================================================================

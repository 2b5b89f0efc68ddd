--------------------------- MODULE WorkloadProofs ---------------------------
(***************************************************************************)
(* Proofs about WorkloadController: its types, that the targets of a       *)
(* resting workload are written and none it dropped is left, and that the  *)
(* controller never takes a DeploymentTarget over from another workload,   *)
(* for any workloads, targets and registrations, also when the names of    *)
(* their DeploymentTargets collide.                                        *)
(***************************************************************************)
EXTENDS WorkloadController, TLAPS

(***************************************************************************)
(* Types.                                                                  *)
(***************************************************************************)

Workers ==
    [pc : {"idle", "list", "write", "fail"},
     workload : Workloads \cup {None}, spec : WorkloadSpecs \cup {None},
     fresh : BOOLEAN, live : BOOLEAN,
     listed : SUBSET DeploymentTargetNames, stale : SUBSET DeploymentTargetNames,
     toDelete : SUBSET DeploymentTargetNames, toWrite : SUBSET TargetNames]

\* A worker is idle exactly when it has no workload in hand; what it has to
\* write are targets of that workload's specification.
WorkerOK ==
    /\ cur.pc = "idle" <=> cur.workload = None
    /\ cur.pc = "idle" => cur.toWrite = {}
    /\ cur.pc # "idle" => cur.spec \in WorkloadSpecs /\ cur.toWrite \subseteq Here(cur.spec)

TypeInv == TypeOK /\ WorkerOK

Busy == cur.pc # "idle" /\ cur.workload \in Workloads /\ cur.spec \in WorkloadSpecs

LEMMA WorkerFacts ==
    ASSUME TypeInv
    PROVE  cur \in Workers /\ (cur.pc # "idle" => Busy)
  BY DEF TypeInv, TypeOK, WorkerOK, Workers, Busy

\* Counting an edit or a fault keeps to the bound.
LEMMA EditType ==
    ASSUME TypeInv, Edit
    PROVE  edits' \in 0..MaxEdits
  BY ConstantsAssumption DEF TypeInv, TypeOK, Edit

LEMMA FaultType ==
    ASSUME TypeInv, Fault
    PROVE  faults' \in 0..MaxFaults
  BY ConstantsAssumption DEF TypeInv, TypeOK, Fault

LEMMA AnsweredType ==
    ASSUME TypeInv, NEW ok \in BOOLEAN, Answered(ok)
    PROVE  faults' \in 0..MaxFaults
  BY FaultType DEF TypeInv, TypeOK, Answered

LEMMA IdleWorkerType ==
    /\ IdleWorker \in Workers
    /\ IdleWorker.pc = "idle" /\ IdleWorker.workload = None /\ IdleWorker.toWrite = {}
  BY DEF IdleWorker, Workers

LEMMA NameType ==
    ASSUME NEW w \in Workloads, NEW t \in TargetNames
    PROVE  TargetName(w, t) \in DeploymentTargetNames
  BY DEF DeploymentTargetNames

\* A write to a workload changes nothing in the worker but two flags.
LEMMA TouchWorkloadType ==
    ASSUME TypeInv, NEW w \in Workloads, NEW live \in BOOLEAN, TouchWorkload(w, live)
    PROVE  /\ workloadEvent' \in [Workloads -> {"none", "status", "spec"}]
           /\ cur' \in Workers /\ WorkerOK'
           /\ cur'.pc = cur.pc /\ cur'.workload = cur.workload /\ cur'.spec = cur.spec
           /\ cur'.listed = cur.listed /\ cur'.stale = cur.stale
           /\ cur'.toDelete = cur.toDelete /\ cur'.toWrite = cur.toWrite
           /\ cur'.fresh => cur.fresh /\ cur.workload # w
<1>1. cur \in Workers
  BY WorkerFacts
<1>2. workloadEvent' \in [Workloads -> {"none", "status", "spec"}]
  BY DEF TouchWorkload, TypeInv, TypeOK
<1>3. /\ cur' \in Workers
      /\ cur'.pc = cur.pc /\ cur'.workload = cur.workload /\ cur'.spec = cur.spec
      /\ cur'.listed = cur.listed /\ cur'.stale = cur.stale
      /\ cur'.toDelete = cur.toDelete /\ cur'.toWrite = cur.toWrite
      /\ cur'.fresh => cur.fresh /\ cur.workload # w
  <2>1. CASE cur.workload = w
    <3>1. cur' = [cur EXCEPT !.fresh = FALSE, !.live = cur.live /\ live]
      BY <2>1 DEF TouchWorkload
    <3>2. (cur.live /\ live) \in BOOLEAN
      OBVIOUS
    <3> QED
      BY <1>1, <3>1, <3>2 DEF Workers
  <2>2. CASE cur.workload # w
    BY <1>1, <2>2 DEF TouchWorkload
  <2> QED
    BY <2>1, <2>2
<1>4. WorkerOK'
  BY <1>3 DEF WorkerOK, TypeInv
<1> QED
  BY <1>2, <1>3, <1>4

\* A write to a DeploymentTarget only marks the copy that the worker listed.
LEMMA TouchTargetType ==
    ASSUME TypeInv, NEW n \in DeploymentTargetNames, NEW w \in Workloads, TouchTarget(n, w)
    PROVE  /\ ownerEvents' \in [DeploymentTargetNames -> SUBSET Workloads]
           /\ w \in ownerEvents'[n]
           /\ \A m \in DeploymentTargetNames : ownerEvents[m] \subseteq ownerEvents'[m]
           /\ cur' \in Workers /\ WorkerOK'
           /\ cur'.pc = cur.pc /\ cur'.workload = cur.workload /\ cur'.spec = cur.spec
           /\ cur'.fresh = cur.fresh /\ cur'.listed = cur.listed
           /\ cur'.stale = cur.stale \cup ({n} \cap cur.listed)
           /\ cur'.toDelete = cur.toDelete /\ cur'.toWrite = cur.toWrite
<1>1. cur \in Workers
  BY WorkerFacts
<1>2. /\ ownerEvents' \in [DeploymentTargetNames -> SUBSET Workloads]
      /\ w \in ownerEvents'[n]
      /\ \A m \in DeploymentTargetNames : ownerEvents[m] \subseteq ownerEvents'[m]
  BY DEF TouchTarget, TypeInv, TypeOK
<1>3. /\ cur' \in Workers
      /\ cur'.pc = cur.pc /\ cur'.workload = cur.workload /\ cur'.spec = cur.spec
      /\ cur'.fresh = cur.fresh /\ cur'.listed = cur.listed
      /\ cur'.stale = cur.stale \cup ({n} \cap cur.listed)
      /\ cur'.toDelete = cur.toDelete /\ cur'.toWrite = cur.toWrite
  BY <1>1 DEF TouchTarget, Workers
<1>4. WorkerOK'
  BY <1>3 DEF WorkerOK, TypeInv
<1> QED
  BY <1>2, <1>3, <1>4

LEMMA RemoveTargetType ==
    ASSUME TypeInv, NEW n \in DeploymentTargetNames, RemoveTarget(n)
    PROVE  /\ targets' \in [DeploymentTargetNames -> DeploymentTargets \cup {None}]
           /\ orphans' \subseteq DeploymentTargetNames
           /\ ownerEvents' \in [DeploymentTargetNames -> SUBSET Workloads]
           /\ cur' \in Workers /\ WorkerOK'
<1>1. targets[n].workload \in Workloads
  BY DEF RemoveTarget, TypeInv, TypeOK, DeploymentTargets
<1> QED
  BY <1>1, TouchTargetType DEF RemoveTarget, TypeInv, TypeOK

LEMMA WriteStatusType ==
    ASSUME TypeInv, NEW isReady \in BOOLEAN, NEW ok \in BOOLEAN, WriteStatus(isReady, ok), Busy
    PROVE  /\ ready' \subseteq Workloads
           /\ workloadEvent' \in [Workloads -> {"none", "status", "spec"}]
           /\ faults' \in 0..MaxFaults
<1>1. CASE cur.fresh
  BY <1>1, AnsweredType DEF WriteStatus, Busy, TypeInv, TypeOK
<1>2. CASE ~cur.fresh
  BY <1>2 DEF WriteStatus, TypeInv, TypeOK
<1> QED
  BY <1>1, <1>2

LEMMA ReturnType ==
    ASSUME TypeInv, NEW w \in Workloads, NEW error \in BOOLEAN, Return(w, error)
    PROVE  queue' \subseteq Workloads /\ cur' \in Workers /\ WorkerOK'
  BY IdleWorkerType DEF TypeInv, TypeOK, Return, WorkerOK

\* What is written for a target to be written here is a DeploymentTarget.
LEMMA DeploymentTargetType ==
    ASSUME TypeInv, Busy, NEW t \in Here(cur.spec),
           WorkspaceKnown(cur.spec.flux, cRegistrations)
    PROVE  DeploymentTarget(t) \in DeploymentTargets
<1>1. cur.spec.targets[t].data \in Data
  BY DEF Here, Busy, WorkloadSpecs, TargetDetails
<1>2. WorkspaceOf(cur.spec.flux, cRegistrations) \in Workspaces \cup {NoWorkspace}
  BY DEF WorkspaceKnown, WorkspaceOf, TypeInv, TypeOK
<1> QED
  BY <1>1, <1>2 DEF DeploymentTarget, DeploymentTargets, Busy

LEMMA TypeInit == Init => TypeInv
<1> SUFFICES ASSUME Init PROVE TypeInv
  OBVIOUS
<1>1. WorkerOK
  BY IdleWorkerType DEF Init, WorkerOK
<1>2. cur \in Workers
  BY IdleWorkerType DEF Init
<1>3. registrations \in [RegistrationNames -> Workspaces \cup {None}]
  BY DEF Init
<1> QED
  BY <1>1, <1>2, <1>3, ConstantsAssumption DEF Init, TypeInv, TypeOK, Workers

LEMMA RemoveWorkloadType ==
    ASSUME TypeInv, NEW w \in Workloads, RemoveWorkload(w), edits' \in 0..MaxEdits
    PROVE  TypeInv'
<1>1. /\ WorkerOK' /\ cur' \in Workers
      /\ workloadEvent' \in [Workloads -> {"none", "status", "spec"}]
  BY TouchWorkloadType DEF RemoveWorkload
<1> QED
  BY <1>1 DEF TypeInv, TypeOK, Workers, RemoveWorkload, TouchWorkload, OfWorkload

LEMMA UserStepType ==
    ASSUME TypeInv, UserStep
    PROVE  TypeInv'
<1>1. ASSUME NEW w \in Workloads, NEW s \in WorkloadSpecs, ApplyWorkload(w, s)
      PROVE  TypeInv'
  <2>1. /\ WorkerOK' /\ cur' \in Workers
        /\ workloadEvent' \in [Workloads -> {"none", "status", "spec"}]
    BY <1>1, TouchWorkloadType DEF ApplyWorkload
  <2>2. edits' \in 0..MaxEdits
    BY <1>1, EditType DEF ApplyWorkload
  <2> QED
    BY <1>1, <2>1, <2>2 DEF TypeInv, TypeOK, Workers, ApplyWorkload, TouchWorkload
<1>2. ASSUME NEW w \in Workloads, DeleteWorkload(w)
      PROVE  TypeInv'
  BY <1>2, EditType, RemoveWorkloadType DEF DeleteWorkload
<1>3. ASSUME NEW w \in Workloads, DeleteWorkloadForeground(w)
      PROVE  TypeInv'
  <2>1. /\ WorkerOK' /\ cur' \in Workers
        /\ workloadEvent' \in [Workloads -> {"none", "status", "spec"}]
    BY <1>3, TouchWorkloadType DEF DeleteWorkloadForeground
  <2>2. edits' \in 0..MaxEdits
    BY <1>3, EditType DEF DeleteWorkloadForeground
  <2> QED
    BY <1>3, <2>1, <2>2 DEF TypeInv, TypeOK, Workers, DeleteWorkloadForeground, TouchWorkload
<1>4. ASSUME NEW r \in RegistrationNames, NEW x \in Workspaces \cup {None},
             EditRegistration(r, x)
      PROVE  TypeInv'
  <2>1. edits' \in 0..MaxEdits
    BY <1>4, EditType DEF EditRegistration
  <2> QED
    BY <1>4, <2>1 DEF TypeInv, TypeOK, WorkerOK, EditRegistration, cacheVars
<1>5. ASSUME NEW n \in DeploymentTargetNames, UserDeletesTarget(n)
      PROVE  TypeInv'
  <2>1. edits' \in 0..MaxEdits
    BY <1>5, EditType DEF UserDeletesTarget
  <2> QED
    BY <1>5, <2>1, RemoveTargetType DEF TypeInv, TypeOK, Workers, UserDeletesTarget, cacheVars
<1>6. ASSUME NEW n \in DeploymentTargetNames, NEW e \in {Namespace, Elsewhere}, NEW d \in Data,
             UserEditsTarget(n, e, d)
      PROVE  TypeInv'
  <2>1. edits' \in 0..MaxEdits
    BY <1>6, EditType DEF UserEditsTarget
  <2>2. targets[n] \in DeploymentTargets
    BY <1>6 DEF UserEditsTarget, TypeInv, TypeOK
  <2>3. targets[n].workload \in Workloads
    BY <2>2 DEF DeploymentTargets
  <2>4. targets' \in [DeploymentTargetNames -> DeploymentTargets \cup {None}]
    <3>1. targets' = [targets EXCEPT ![n] = [targets[n] EXCEPT !.env = e, !.data = d]]
      BY <1>6 DEF UserEditsTarget, TypeInv, TypeOK
    <3>2. [targets[n] EXCEPT !.env = e, !.data = d] \in DeploymentTargets
      BY <2>2 DEF DeploymentTargets
    <3> QED
      BY <3>1, <3>2 DEF TypeInv, TypeOK
  <2>5. /\ ownerEvents' \in [DeploymentTargetNames -> SUBSET Workloads]
        /\ cur' \in Workers /\ WorkerOK'
    BY <1>6, <2>3, TouchTargetType DEF UserEditsTarget
  <2> QED
    BY <1>6, <2>1, <2>4, <2>5 DEF TypeInv, TypeOK, Workers, UserEditsTarget, cacheVars
<1> QED
  BY <1>1, <1>2, <1>3, <1>4, <1>5, <1>6 DEF UserStep

LEMMA CollectorStepType ==
    ASSUME TypeInv, CollectorStep
    PROVE  TypeInv'
<1>1. ASSUME NEW n \in DeploymentTargetNames, CollectTarget(n)
      PROVE  TypeInv'
  BY <1>1, RemoveTargetType DEF TypeInv, TypeOK, Workers, CollectTarget, cacheVars
<1>2. ASSUME NEW w \in Workloads, CollectWorkload(w)
      PROVE  TypeInv'
  BY <1>2, RemoveWorkloadType DEF CollectWorkload, TypeInv, TypeOK
<1> QED
  BY <1>1, <1>2 DEF CollectorStep

LEMMA DeliveryStepType ==
    ASSUME TypeInv, DeliveryStep
    PROVE  TypeInv'
<1>1. ASSUME NEW w \in Workloads, DeliverWorkload(w)
      PROVE  TypeInv'
  BY <1>1 DEF TypeInv, TypeOK, WorkerOK, DeliverWorkload, apiVars
<1>2. ASSUME NEW r \in RegistrationNames, DeliverRegistration(r)
      PROVE  TypeInv'
  BY <1>2 DEF TypeInv, TypeOK, WorkerOK, DeliverRegistration, apiVars
<1>3. ASSUME NEW n \in DeploymentTargetNames, DeliverTarget(n)
      PROVE  TypeInv'
  BY <1>3 DEF TypeInv, TypeOK, WorkerOK, DeliverTarget, apiVars
<1> QED
  BY <1>1, <1>2, <1>3 DEF DeliveryStep

\* What Begin makes of the worker.
LEMMA BeginWorker ==
    ASSUME TypeInv, NEW w \in Workloads, Begin(w),
           cWorkloads[w] # None, w \notin cTerminating
    PROVE  /\ cur' \in Workers /\ WorkerOK'
           /\ cur'.pc = "list" /\ cur'.workload = w /\ cur'.spec = cWorkloads[w]
           /\ cur'.fresh => workloadEvent[w] = "none"
<1>1. cur' = [cur EXCEPT !.pc = "list", !.workload = w, !.spec = cWorkloads[w],
                         !.fresh = (workloadEvent[w] = "none"), !.live = (w \notin dead)]
  BY DEF Begin
<1>2. cur \in Workers /\ cur.toWrite = {}
  <2>1. cur.toWrite = {}
    BY DEF Begin, TypeInv, WorkerOK
  <2> QED
    BY <2>1, WorkerFacts
<1>3. cWorkloads[w] \in WorkloadSpecs
  BY DEF TypeInv, TypeOK
<1> QED
  BY <1>1, <1>2, <1>3, ConstantsAssumption DEF Workers, WorkerOK

\* What ListTargets makes of the worker.
LEMMA ListWorker ==
    ASSUME TypeInv, ListTargets
    PROVE  /\ cur' \in Workers /\ WorkerOK'
           /\ cur'.pc = "write" /\ cur'.workload = cur.workload /\ cur'.spec = cur.spec
           /\ cur'.fresh = cur.fresh
           /\ cur'.listed = OfWorkload(cTargets, cur.workload)
           /\ cur'.stale = {n \in cur'.listed : ownerEvents[n] # {}}
           /\ cur'.toDelete = ToDelete(cur'.listed)
           /\ cur'.toWrite = Here(cur.spec)
<1> DEFINE listed == OfWorkload(cTargets, cur.workload)
<1>1. cur \in Workers /\ cur.pc = "list" /\ Busy
  BY WorkerFacts DEF ListTargets
<1>2. cur' = [cur EXCEPT !.pc = "write", !.listed = listed,
                         !.stale = {n \in listed : ownerEvents[n] # {}},
                         !.toDelete = ToDelete(listed), !.toWrite = Here(cur.spec)]
  BY DEF ListTargets
<1>3. /\ listed \subseteq DeploymentTargetNames
      /\ {n \in listed : ownerEvents[n] # {}} \subseteq DeploymentTargetNames
      /\ ToDelete(listed) \subseteq DeploymentTargetNames
      /\ Here(cur.spec) \subseteq TargetNames
  BY DEF OfWorkload, ToDelete, Here
<1> QED
  BY <1>1, <1>2, <1>3, ConstantsAssumption DEF Workers, WorkerOK, Busy

\* What one turn of a loop makes of the worker.
LEMMA DeleteWorker ==
    ASSUME TypeInv, NEW n \in DeploymentTargetNames, NEW ok \in BOOLEAN, DeleteTarget(n, ok)
    PROVE  /\ cur' \in Workers /\ WorkerOK' /\ Busy
           /\ cur'.workload = cur.workload /\ cur'.spec = cur.spec /\ cur'.fresh = cur.fresh
           /\ cur'.pc = IF ok THEN "write" ELSE "fail"
           /\ ok => /\ cur'.listed = cur.listed /\ cur'.stale = cur.stale \cup {n}
                    /\ cur'.toDelete = cur.toDelete \ {n} /\ cur'.toWrite = cur.toWrite
<1>1. cur \in Workers /\ cur.pc = "write" /\ Busy
  BY WorkerFacts DEF DeleteTarget
<1>2. CASE ok
  <2>1. cur' = [cur EXCEPT !.toDelete = cur.toDelete \ {n}, !.stale = cur.stale \cup {n}]
    BY <1>2 DEF DeleteTarget
  <2> QED
    BY <1>1, <1>2, <2>1, ConstantsAssumption DEF Workers, WorkerOK, TypeInv
<1>3. CASE ~ok
  <2>1. cur' = [cur EXCEPT !.pc = "fail"]
    BY <1>3 DEF DeleteTarget
  <2> QED
    BY <1>1, <1>3, <2>1, ConstantsAssumption DEF Workers, WorkerOK, TypeInv
<1> QED
  BY <1>2, <1>3

LEMMA WriteWorker ==
    ASSUME TypeInv, NEW t \in TargetNames, NEW ok \in BOOLEAN, WriteTarget(t, ok)
    PROVE  /\ cur' \in Workers /\ WorkerOK' /\ Busy /\ t \in Here(cur.spec)
           /\ cur'.workload = cur.workload /\ cur'.spec = cur.spec /\ cur'.fresh = cur.fresh
           /\ cur'.pc = IF ok THEN "write" ELSE "fail"
           /\ ok => /\ cur'.listed = cur.listed /\ cur'.stale = cur.stale
                    /\ cur'.toDelete = cur.toDelete /\ cur'.toWrite = cur.toWrite \ {t}
<1>1. cur \in Workers /\ cur.pc = "write" /\ Busy /\ t \in cur.toWrite
  BY WorkerFacts DEF WriteTarget
<1>2. t \in Here(cur.spec)
  BY <1>1 DEF TypeInv, WorkerOK
<1>3. CASE ok
  <2>1. cur' = [cur EXCEPT !.toWrite = cur.toWrite \ {t}]
    BY <1>3 DEF WriteTarget
  <2> QED
    BY <1>1, <1>2, <1>3, <2>1, ConstantsAssumption DEF Workers, WorkerOK, TypeInv
<1>4. CASE ~ok
  <2>1. cur' = [cur EXCEPT !.pc = "fail"]
    BY <1>4 DEF WriteTarget
  <2> QED
    BY <1>1, <1>2, <1>4, <2>1, ConstantsAssumption DEF Workers, WorkerOK, TypeInv
<1> QED
  BY <1>3, <1>4

LEMMA WorkerStepType ==
    ASSUME TypeInv, WorkerStep
    PROVE  TypeInv'
<1> USE DEF WorkerFrame, cacheVars
<1>1. ASSUME NEW w \in Workloads, Begin(w)
      PROVE  TypeInv'
  <2>1. cur' \in Workers /\ WorkerOK'
    <3>1. CASE cWorkloads[w] = None \/ w \in cTerminating
      BY <1>1, <3>1, WorkerFacts DEF Begin, TypeInv, WorkerOK
    <3> QED
      BY <1>1, <3>1, BeginWorker
  <2> QED
    BY <1>1, <2>1 DEF Begin, TypeInv, TypeOK, Workers
<1>2. CASE ListTargets
  BY <1>2, ListWorker DEF ListTargets, TypeInv, TypeOK, Workers
<1>3. ASSUME NEW n \in DeploymentTargetNames, NEW ok \in BOOLEAN, DeleteTarget(n, ok)
      PROVE  TypeInv'
  <2>1. cur' \in Workers /\ WorkerOK'
    BY <1>3, DeleteWorker
  <2>2. /\ targets' \in [DeploymentTargetNames -> DeploymentTargets \cup {None}]
        /\ orphans' \subseteq DeploymentTargetNames
        /\ ownerEvents' \in [DeploymentTargetNames -> SUBSET Workloads]
        /\ faults' \in 0..MaxFaults
    <3>1. CASE targets[n] # None
      <4>1. targets[n].workload \in Workloads
        BY <3>1 DEF TypeInv, TypeOK, DeploymentTargets
      <4> QED
        BY <1>3, <3>1, <4>1, AnsweredType DEF DeleteTarget, TypeInv, TypeOK
    <3>2. CASE targets[n] = None
      BY <1>3, <3>2 DEF DeleteTarget, TypeInv, TypeOK
    <3> QED
      BY <3>1, <3>2
  <2> QED
    BY <1>3, <2>1, <2>2 DEF DeleteTarget, TypeInv, TypeOK, Workers
<1>4. ASSUME NEW t \in TargetNames, NEW ok \in BOOLEAN, WriteTarget(t, ok)
      PROVE  TypeInv'
  <2> DEFINE n == TargetName(cur.workload, t)
  <2>1. cur' \in Workers /\ WorkerOK' /\ Busy /\ t \in Here(cur.spec)
    BY <1>4, WriteWorker
  <2>2. n \in DeploymentTargetNames
    BY <2>1, NameType DEF Busy
  <2>3. /\ targets' \in [DeploymentTargetNames -> DeploymentTargets \cup {None}]
        /\ orphans' \subseteq DeploymentTargetNames
        /\ ownerEvents' \in [DeploymentTargetNames -> SUBSET Workloads]
        /\ faults' \in 0..MaxFaults
    <3>1. CASE /\ WorkspaceKnown(cur.spec.flux, cRegistrations)
               /\ IF n \in cur.listed THEN n \notin cur.stale ELSE targets[n] = None
      <4>1. /\ targets' = [targets EXCEPT ![n] = DeploymentTarget(t)]
            /\ ownerEvents' = IF targets[n] = DeploymentTarget(t) THEN ownerEvents
                              ELSE [ownerEvents EXCEPT ![n] = @ \cup {cur.workload}]
            /\ orphans' = IF cur.live THEN orphans ELSE orphans \cup {n}
            /\ Answered(ok)
        BY <1>4, <3>1 DEF WriteTarget
      <4>2. DeploymentTarget(t) \in DeploymentTargets
        BY <2>1, <3>1, DeploymentTargetType
      <4> QED
        BY <2>1, <2>2, <4>1, <4>2, AnsweredType DEF TypeInv, TypeOK, Busy
    <3>2. CASE ~ /\ WorkspaceKnown(cur.spec.flux, cRegistrations)
                 /\ IF n \in cur.listed THEN n \notin cur.stale ELSE targets[n] = None
      <4>1. UNCHANGED <<targets, ownerEvents, orphans, faults>>
        BY <1>4, <3>2 DEF WriteTarget
      <4> QED
        BY <4>1 DEF TypeInv, TypeOK
    <3> QED
      BY <3>1, <3>2
  <2> QED
    BY <1>4, <2>1, <2>3 DEF WriteTarget, TypeInv, TypeOK, Workers
<1>5. ASSUME NEW ok \in BOOLEAN, Finish(ok)
      PROVE  TypeInv'
  <2>0. Busy
    BY <1>5, WorkerFacts DEF Finish
  <2>1. queue' \subseteq Workloads /\ cur' \in Workers /\ WorkerOK'
    BY <1>5, <2>0, ReturnType DEF Finish, Busy
  <2>2. /\ ready' \subseteq Workloads /\ faults' \in 0..MaxFaults
        /\ workloadEvent' \in [Workloads -> {"none", "status", "spec"}]
    BY <1>5, <2>0, WriteStatusType DEF Finish
  <2> QED
    BY <1>5, <2>1, <2>2 DEF TypeInv, TypeOK, Workers, Finish
<1>6. CASE ManageFailure
  <2>0. Busy
    BY <1>6, WorkerFacts DEF ManageFailure
  <2>1. queue' \subseteq Workloads /\ cur' \in Workers /\ WorkerOK'
    BY <1>6, <2>0, ReturnType DEF ManageFailure, Busy
  <2>2. /\ ready' \subseteq Workloads /\ faults' \in 0..MaxFaults
        /\ workloadEvent' \in [Workloads -> {"none", "status", "spec"}]
    BY <1>6, <2>0, WriteStatusType DEF ManageFailure
  <2> QED
    BY <1>6, <2>1, <2>2 DEF TypeInv, TypeOK, Workers, ManageFailure
<1>7. CASE CallFails
  <2>0. Busy
    BY <1>7, WorkerFacts DEF CallFails
  <2>1. queue' \subseteq Workloads /\ cur' \in Workers /\ WorkerOK'
    <3>1. CASE cur' = [cur EXCEPT !.pc = "fail"] /\ UNCHANGED queue
      BY <1>7, <2>0, <3>1, WorkerFacts, ConstantsAssumption
      DEF TypeInv, TypeOK, WorkerOK, Workers, CallFails, Busy
    <3>2. CASE Return(cur.workload, TRUE)
      BY <2>0, <3>2, ReturnType DEF Busy
    <3> QED
      BY <1>7, <3>1, <3>2 DEF CallFails
  <2>2. faults' \in 0..MaxFaults
    BY <1>7, FaultType DEF CallFails
  <2> QED
    BY <1>7, <2>1, <2>2 DEF TypeInv, TypeOK, Workers, CallFails
<1>8. CASE Panic
  <2>0. Busy
    BY <1>8, WorkerFacts DEF Panic, LabelPanics
  <2>1. queue' \subseteq Workloads /\ cur' \in Workers /\ WorkerOK'
    BY <1>8, <2>0, ReturnType DEF Panic, Busy
  <2> QED
    BY <1>8, <2>1 DEF TypeInv, TypeOK, Workers, Panic
<1> QED
  BY <1>1, <1>2, <1>3, <1>4, <1>5, <1>6, <1>7, <1>8 DEF WorkerStep

LEMMA TypeStep == TypeInv /\ [Next]_vars => TypeInv'
<1> SUFFICES ASSUME TypeInv, [Next]_vars
             PROVE  TypeInv'
  OBVIOUS
<1>1. CASE Restart
  <2>1. faults' \in 0..MaxFaults
    BY <1>1, FaultType DEF Restart
  <2>2. cur' \in Workers /\ WorkerOK'
    BY <1>1, IdleWorkerType DEF Restart, WorkerOK
  <2> QED
    BY <1>1, <2>1, <2>2 DEF TypeInv, TypeOK, Workers, Restart, apiVars
<1>2. CASE UNCHANGED vars
  BY <1>2 DEF TypeInv, TypeOK, WorkerOK, vars, apiVars, eventVars, cacheVars
<1> QED
  BY <1>1, <1>2, UserStepType, CollectorStepType, DeliveryStepType, WorkerStepType DEF Next

\* The type invariant of the controller and its environment.
THEOREM TypeCorrect == Spec => []TypeOK
<1>1. Spec => []TypeInv
  BY TypeInit, TypeStep, PTL DEF Spec
<1>2. TypeInv => TypeOK
  BY DEF TypeInv
<1> QED
  BY <1>1, <1>2, PTL

(***************************************************************************)
(* Convergence.                                                            *)
(***************************************************************************)

Owned(ts, w, n) == ts[n] # None /\ ts[n].workload = w

\* No event is on its way that names w as the owner of a DeploymentTarget.
NoOwnerEvent(w) == \A n \in DeploymentTargetNames : w \notin ownerEvents[n]

\* A cached object differs from the real one only while an event is undelivered
\* that will request the reconciles that depend on it.
WorkloadCoherent ==
    \A w \in Workloads : workloadEvent[w] # "spec" =>
        cWorkloads[w] = workloads[w] /\ (w \in cTerminating <=> w \in terminating)

TargetCoherent ==
    \A n \in DeploymentTargetNames, w \in Workloads :
        w \notin ownerEvents[n] /\ (Owned(targets, w, n) \/ Owned(cTargets, w, n))
            => targets[n] = cTargets[n]

Coherent == WorkloadCoherent /\ TargetCoherent

\* A copy of the workload that the API server still accepts has its spec.
FreshSpec == cur.pc # "idle" /\ cur.fresh => cur.spec = workloads[cur.workload]

\* A listed copy that the API server still accepts is of a target of the workload.
ListedOwned ==
    cur.pc = "write" => \A n \in cur.listed \ cur.stale : Owned(targets, cur.workload, n)

\* Target t of w exists and is as spec says.
AsSpecified(ts, w, spec, t) ==
    LET n == TargetName(w, t)
    IN  Owned(ts, w, n) /\ ts[n].env = Namespace /\ ts[n].data = spec.targets[t].data

\* What the two loops have left to do is all that is wrong with the targets.
InHand ==
    /\ OfWorkload(targets, cur.workload) \ cur.toDelete \subseteq NamedIn(cur.spec, cur.workload)
    /\ \A t \in Here(cur.spec) \ cur.toWrite : AsSpecified(targets, cur.workload, cur.spec, t)

\* It is so unless something will have the workload reconciled again.
InHandCurrent ==
    cur.pc = "write" /\ cur.workload \notin queue /\ NoOwnerEvent(cur.workload) => InHand

\* A weaker condition than Resting: some of the targets may be orphans.
Quiet(w) ==
    /\ workloads[w] # None /\ w \notin terminating
    /\ w \notin queue /\ cur.workload # w
    /\ workloadEvent[w] # "spec" /\ NoOwnerEvent(w)

Converged(w) ==
    /\ w \in ready
    /\ \A t \in Here(workloads[w]) : AsSpecified(targets, w, workloads[w], t)
    /\ OfWorkload(targets, w) \subseteq NamedIn(workloads[w], w)

QuietConverged == \A w \in Workloads : Quiet(w) => Converged(w)

IInv == Coherent /\ FreshSpec /\ ListedOwned /\ InHandCurrent /\ QuietConverged

LEMMA IInvInit == Init => IInv
<1> SUFFICES ASSUME Init PROVE IInv
  OBVIOUS
<1>1. Coherent
  BY DEF Init, Coherent, WorkloadCoherent, TargetCoherent, Owned
<1>2. FreshSpec /\ ListedOwned /\ InHandCurrent
  BY IdleWorkerType DEF Init, FreshSpec, ListedOwned, InHandCurrent
<1>3. \A w \in Workloads : ~Quiet(w)
  BY DEF Init, Quiet
<1> QED
  BY <1>1, <1>2, <1>3 DEF IInv, QuietConverged

\* The ways in which the variables that the invariants speak of change.
WorkloadsKept == UNCHANGED <<workloads, terminating, workloadEvent, cWorkloads, cTerminating>>
TargetsKept == UNCHANGED <<targets, ownerEvents, cTargets>>

\* The caches stay coherent: no informer loses a change.
LEMMA WorkloadCoherentStep ==
    ASSUME TypeInv, WorkloadCoherent, [Next]_vars
    PROVE  WorkloadCoherent'
<1> USE DEF TypeInv, TypeOK, WorkloadCoherent
<1>1. CASE WorkloadsKept
  BY <1>1 DEF WorkloadsKept
<1>2. ASSUME NEW w \in Workloads, NEW s \in WorkloadSpecs, ApplyWorkload(w, s)
      PROVE  WorkloadCoherent'
  BY <1>2 DEF ApplyWorkload, TouchWorkload
<1>3. ASSUME NEW w \in Workloads, RemoveWorkload(w)
      PROVE  WorkloadCoherent'
  BY <1>3 DEF RemoveWorkload, TouchWorkload
<1>4. ASSUME NEW w \in Workloads, DeleteWorkloadForeground(w)
      PROVE  WorkloadCoherent'
  BY <1>4 DEF DeleteWorkloadForeground, TouchWorkload
<1>5. ASSUME NEW w \in Workloads, DeliverWorkload(w)
      PROVE  WorkloadCoherent'
  BY <1>5 DEF DeliverWorkload, apiVars
<1>6. ASSUME NEW isReady \in BOOLEAN, NEW ok \in BOOLEAN, WriteStatus(isReady, ok), Busy,
             UNCHANGED <<workloads, terminating, cWorkloads, cTerminating>>
      PROVE  WorkloadCoherent'
  BY <1>6 DEF WriteStatus, Busy
<1>7. CASE UserStep
  BY <1>1, <1>2, <1>3, <1>4, <1>7
  DEF UserStep, DeleteWorkload, EditRegistration, UserDeletesTarget, UserEditsTarget,
      WorkloadsKept, cacheVars
<1>8. CASE CollectorStep
  BY <1>1, <1>3, <1>8 DEF CollectorStep, CollectTarget, CollectWorkload, WorkloadsKept, cacheVars
<1>9. CASE DeliveryStep
  BY <1>1, <1>5, <1>9
  DEF DeliveryStep, DeliverRegistration, DeliverTarget, WorkloadsKept, apiVars
<1>10. CASE WorkerStep
  <2> USE DEF WorkerFrame, cacheVars
  <2>1. ASSUME NEW ok \in BOOLEAN, Finish(ok)
        PROVE  WorkloadCoherent'
    BY <1>6, <2>1, WorkerFacts DEF Finish
  <2>2. CASE ManageFailure
    BY <1>6, <2>2, WorkerFacts DEF ManageFailure
  <2> QED
    BY <1>1, <1>10, <2>1, <2>2
    DEF WorkerStep, Begin, ListTargets, DeleteTarget, WriteTarget, Panic, CallFails,
        WorkloadsKept
<1>11. CASE Restart
  BY <1>11 DEF Restart, apiVars
<1>12. CASE UNCHANGED vars
  BY <1>1, <1>12 DEF vars, apiVars, eventVars, cacheVars, WorkloadsKept
<1> QED
  BY <1>7, <1>8, <1>9, <1>10, <1>11, <1>12 DEF Next

\* A removal is announced to the owner that the target had.
LEMMA RemovalCoherent ==
    ASSUME TypeInv, TargetCoherent, NEW n \in DeploymentTargetNames, RemoveTarget(n),
           UNCHANGED cTargets
    PROVE  TargetCoherent'
<1>1. targets[n].workload \in Workloads
  BY DEF RemoveTarget, TypeInv, TypeOK, DeploymentTargets
<1> QED
  BY <1>1 DEF RemoveTarget, TouchTarget, TargetCoherent, Owned, TypeInv, TypeOK

\* A write of the worker goes to a name that is free or to a target of its workload.
LEMMA WriteKinds ==
    ASSUME TypeInv, ListedOwned, NEW t \in TargetNames, NEW ok \in BOOLEAN, WriteTarget(t, ok)
    PROVE  LET n == TargetName(cur.workload, t)
           IN  \/ UNCHANGED <<targets, ownerEvents>>
               \/ /\ targets' = [targets EXCEPT ![n] = DeploymentTarget(t)]
                  /\ DeploymentTarget(t) # None
                  /\ targets[n] = None \/ Owned(targets, cur.workload, n)
                  /\ \/ targets[n] = DeploymentTarget(t) /\ UNCHANGED ownerEvents
                     \/ ownerEvents' = [ownerEvents EXCEPT ![n] = @ \cup {cur.workload}]
<1> DEFINE n == TargetName(cur.workload, t)
           writable == IF n \in cur.listed THEN n \notin cur.stale ELSE targets[n] = None
<1>1. CASE WorkspaceKnown(cur.spec.flux, cRegistrations) /\ writable
  <2>1. /\ targets' = [targets EXCEPT ![n] = DeploymentTarget(t)]
        /\ ownerEvents' = IF targets[n] = DeploymentTarget(t) THEN ownerEvents
                          ELSE [ownerEvents EXCEPT ![n] = @ \cup {cur.workload}]
    BY <1>1 DEF WriteTarget
  <2>2. targets[n] = None \/ Owned(targets, cur.workload, n)
    BY <1>1 DEF WriteTarget, ListedOwned
  <2>3. DeploymentTarget(t) # None
    <3>1. Busy /\ t \in Here(cur.spec)
      BY WriteWorker
    <3> QED
      BY <1>1, <3>1, DeploymentTargetType, ConstantsAssumption
  <2> QED
    BY <2>1, <2>2, <2>3
<1>2. CASE ~(WorkspaceKnown(cur.spec.flux, cRegistrations) /\ writable)
  BY <1>2 DEF WriteTarget
<1> QED
  BY <1>1, <1>2

\* A deletion of the worker, of a target of whatever workload, or of none.
LEMMA DeleteKinds ==
    ASSUME TypeInv, NEW n \in DeploymentTargetNames, NEW ok \in BOOLEAN, DeleteTarget(n, ok)
    PROVE  \/ targets[n] = None /\ ~ok /\ UNCHANGED <<targets, ownerEvents>>
           \/ /\ targets[n] # None /\ targets[n].workload \in Workloads
              /\ targets' = [targets EXCEPT ![n] = None]
              /\ ownerEvents' = [ownerEvents EXCEPT ![n] = @ \cup {targets[n].workload}]
  BY DEF DeleteTarget, TypeInv, TypeOK, DeploymentTargets

LEMMA TargetCoherentStep ==
    ASSUME TypeInv, TargetCoherent, ListedOwned, [Next]_vars
    PROVE  TargetCoherent'
<1> USE DEF TypeInv, TypeOK, TargetCoherent, Owned
<1>1. CASE TargetsKept
  BY <1>1 DEF TargetsKept
<1>2. ASSUME NEW n \in DeploymentTargetNames, DeliverTarget(n)
      PROVE  TargetCoherent'
  BY <1>2 DEF DeliverTarget, apiVars
<1>3. ASSUME NEW n \in DeploymentTargetNames, NEW e \in {Namespace, Elsewhere}, NEW d \in Data,
             UserEditsTarget(n, e, d)
      PROVE  TargetCoherent'
  <2>1. /\ targets[n] \in DeploymentTargets /\ targets[n] # None
        /\ targets' = [targets EXCEPT ![n] = [targets[n] EXCEPT !.env = e, !.data = d]]
        /\ UNCHANGED cTargets
    BY <1>3 DEF UserEditsTarget, cacheVars
  <2>2. /\ targets[n].workload \in Workloads
        /\ [targets[n] EXCEPT !.env = e, !.data = d].workload = targets[n].workload
    BY <2>1 DEF DeploymentTargets
  <2>3. ownerEvents' = [ownerEvents EXCEPT ![n] = @ \cup {targets[n].workload}]
    BY <1>3 DEF UserEditsTarget, TouchTarget
  <2> QED
    BY <2>1, <2>2, <2>3
<1>4. CASE UserStep
  BY <1>1, <1>3, <1>4, RemovalCoherent
  DEF UserStep, ApplyWorkload, DeleteWorkload, RemoveWorkload, DeleteWorkloadForeground,
      TouchWorkload, EditRegistration, UserDeletesTarget, TargetsKept, cacheVars
<1>5. CASE CollectorStep
  BY <1>1, <1>5, RemovalCoherent
  DEF CollectorStep, CollectTarget, CollectWorkload, RemoveWorkload, TouchWorkload, TargetsKept,
      cacheVars
<1>6. CASE DeliveryStep
  BY <1>1, <1>2, <1>6
  DEF DeliveryStep, DeliverWorkload, DeliverRegistration, TargetsKept, apiVars
<1>7. CASE WorkerStep
  <2> USE DEF WorkerFrame, cacheVars
  <2>1. ASSUME NEW n \in DeploymentTargetNames, NEW ok \in BOOLEAN, DeleteTarget(n, ok)
        PROVE  TargetCoherent'
    <3>1. UNCHANGED cTargets
      BY <2>1 DEF DeleteTarget
    <3>2. CASE UNCHANGED <<targets, ownerEvents>>
      BY <3>1, <3>2
    <3>3. CASE /\ targets[n] # None /\ targets[n].workload \in Workloads
               /\ targets' = [targets EXCEPT ![n] = None]
               /\ ownerEvents' = [ownerEvents EXCEPT ![n] = @ \cup {targets[n].workload}]
      BY <3>1, <3>3
    <3> QED
      BY <2>1, <3>2, <3>3, DeleteKinds
  <2>2. ASSUME NEW t \in TargetNames, NEW ok \in BOOLEAN, WriteTarget(t, ok)
        PROVE  TargetCoherent'
    <3> DEFINE n == TargetName(cur.workload, t)
    <3>1. n \in DeploymentTargetNames /\ cur.workload \in Workloads
      BY <2>2, WorkerFacts, NameType DEF WriteTarget, Busy
    <3>2. DeploymentTarget(t).workload = cur.workload
      BY DEF DeploymentTarget
    <3>3. UNCHANGED cTargets
      BY <2>2 DEF WriteTarget
    <3> QED
      BY <2>2, <3>1, <3>2, <3>3, WriteKinds
  <2> QED
    BY <1>1, <1>7, <2>1, <2>2
    DEF WorkerStep, Begin, ListTargets, Finish, ManageFailure, Panic, CallFails, TargetsKept
<1>8. CASE Restart
  BY <1>8 DEF Restart, apiVars
<1>9. CASE UNCHANGED vars
  BY <1>1, <1>9 DEF vars, apiVars, eventVars, cacheVars, TargetsKept
<1> QED
  BY <1>4, <1>5, <1>6, <1>7, <1>8, <1>9 DEF Next

\* The steps of the environment leave the work in hand alone.
EnvironmentStep == UserStep \/ CollectorStep \/ DeliveryStep

WorkKept ==
    /\ cur'.pc = cur.pc /\ cur'.workload = cur.workload /\ cur'.spec = cur.spec
    /\ cur'.listed = cur.listed /\ cur.stale \subseteq cur'.stale
    /\ cur'.toDelete = cur.toDelete /\ cur'.toWrite = cur.toWrite
    /\ cur'.fresh => cur.fresh
    /\ queue \subseteq queue'

LEMMA EnvironmentWorker ==
    ASSUME TypeInv, EnvironmentStep
    PROVE  WorkKept
<1> USE DEF WorkKept
<1>1. ASSUME NEW w \in Workloads, NEW live \in BOOLEAN, TouchWorkload(w, live)
      PROVE  WorkKept
  BY <1>1, TouchWorkloadType DEF TouchWorkload
<1>2. ASSUME NEW n \in DeploymentTargetNames, targets[n] # None,
             TouchTarget(n, targets[n].workload), UNCHANGED queue
      PROVE  WorkKept
  <2>1. targets[n].workload \in Workloads
    BY <1>2 DEF TypeInv, TypeOK, DeploymentTargets
  <2> QED
    BY <1>2, <2>1, TouchTargetType
<1>3. ASSUME UNCHANGED cur, queue \subseteq queue'
      PROVE  WorkKept
  BY <1>3
<1>4. CASE UserStep
  <2>1. ASSUME NEW w \in Workloads,
               \/ \E s \in WorkloadSpecs : ApplyWorkload(w, s)
               \/ DeleteWorkload(w)
               \/ DeleteWorkloadForeground(w)
        PROVE  WorkKept
    <3>1. \E live \in BOOLEAN : TouchWorkload(w, live)
      BY <2>1 DEF ApplyWorkload, DeleteWorkload, RemoveWorkload, DeleteWorkloadForeground
    <3> QED
      BY <1>1, <3>1
  <2>2. ASSUME NEW n \in DeploymentTargetNames,
               \/ UserDeletesTarget(n)
               \/ \E e \in {Namespace, Elsewhere}, d \in Data : UserEditsTarget(n, e, d)
        PROVE  WorkKept
    <3>1. targets[n] # None /\ TouchTarget(n, targets[n].workload) /\ UNCHANGED queue
      BY <2>2 DEF UserDeletesTarget, UserEditsTarget, RemoveTarget
    <3> QED
      BY <1>2, <3>1
  <2>3. ASSUME NEW r \in RegistrationNames, NEW x \in Workspaces \cup {None},
               EditRegistration(r, x)
        PROVE  WorkKept
    BY <1>3, <2>3 DEF EditRegistration
  <2> QED
    BY <1>4, <2>1, <2>2, <2>3 DEF UserStep
<1>5. CASE CollectorStep
  <2>1. ASSUME NEW n \in DeploymentTargetNames, CollectTarget(n)
        PROVE  WorkKept
    <3>1. targets[n] # None /\ TouchTarget(n, targets[n].workload) /\ UNCHANGED queue
      BY <2>1 DEF CollectTarget, RemoveTarget
    <3> QED
      BY <1>2, <3>1
  <2>2. ASSUME NEW w \in Workloads, CollectWorkload(w)
        PROVE  WorkKept
    <3>1. TouchWorkload(w, FALSE)
      BY <2>2 DEF CollectWorkload, RemoveWorkload
    <3> QED
      BY <1>1, <3>1
  <2> QED
    BY <1>5, <2>1, <2>2 DEF CollectorStep
<1>6. CASE DeliveryStep
  BY <1>3, <1>6 DEF DeliveryStep, DeliverWorkload, DeliverRegistration, DeliverTarget
<1> QED
  BY <1>4, <1>5, <1>6 DEF EnvironmentStep

\* A reconcile in progress has the spec of its workload as long as its copy is fresh.
LEMMA FreshSpecStep ==
    ASSUME TypeInv, WorkloadCoherent, FreshSpec, [Next]_vars
    PROVE  FreshSpec'
<1> SUFFICES ASSUME cur'.pc # "idle", cur'.fresh
             PROVE  cur'.spec = workloads'[cur'.workload]
  BY DEF FreshSpec
<1>1. ASSUME cur'.pc = cur.pc, cur'.workload = cur.workload, cur'.spec = cur.spec,
             cur'.fresh => cur.fresh, workloads'[cur.workload] = workloads[cur.workload]
      PROVE  cur'.spec = workloads'[cur'.workload]
  BY <1>1 DEF FreshSpec
<1>2. ASSUME NEW w \in Workloads, NEW live \in BOOLEAN, TouchWorkload(w, live),
             \A x \in Workloads \ {w} : workloads'[x] = workloads[x]
      PROVE  cur'.spec = workloads'[cur'.workload]
  <2>1. cur.workload \in Workloads \ {w}
    BY <1>2, TouchWorkloadType, WorkerFacts DEF Busy
  <2> QED
    BY <1>1, <1>2, <2>1, TouchWorkloadType
<1>3. CASE EnvironmentStep
  <2>1. \/ \E w \in Workloads, live \in BOOLEAN :
              TouchWorkload(w, live) /\ \A x \in Workloads \ {w} : workloads'[x] = workloads[x]
        \/ UNCHANGED workloads
    BY <1>3
    DEF EnvironmentStep, UserStep, ApplyWorkload, DeleteWorkload, RemoveWorkload,
        DeleteWorkloadForeground, EditRegistration, UserDeletesTarget, UserEditsTarget,
        RemoveTarget, CollectorStep, CollectTarget, CollectWorkload, DeliveryStep, DeliverWorkload,
        DeliverRegistration, DeliverTarget, apiVars, TypeInv, TypeOK
  <2> QED
    BY <1>1, <1>2, <1>3, <2>1, EnvironmentWorker DEF WorkKept
<1>4. CASE WorkerStep
  <2> USE DEF WorkerFrame
  <2>1. ASSUME NEW w \in Workloads, Begin(w)
        PROVE  cur'.spec = workloads'[cur'.workload]
    <3>1. cWorkloads[w] # None /\ w \notin cTerminating
      BY <2>1 DEF Begin
    <3> QED
      BY <2>1, <3>1, BeginWorker DEF Begin, WorkloadCoherent
  <2>2. CASE ListTargets
    BY <1>1, <2>2, ListWorker DEF ListTargets, FreshSpec
  <2>3. ASSUME NEW n \in DeploymentTargetNames, NEW ok \in BOOLEAN, DeleteTarget(n, ok)
        PROVE  cur'.spec = workloads'[cur'.workload]
    BY <2>3, DeleteWorker DEF DeleteTarget, FreshSpec
  <2>4. ASSUME NEW t \in TargetNames, NEW ok \in BOOLEAN, WriteTarget(t, ok)
        PROVE  cur'.spec = workloads'[cur'.workload]
    BY <2>4, WriteWorker DEF WriteTarget, FreshSpec
  <2>5. ASSUME NEW ok \in BOOLEAN, Finish(ok)
        PROVE  FALSE
    BY <2>5, IdleWorkerType DEF Finish, Return
  <2>6. CASE ManageFailure
    BY <2>6, IdleWorkerType DEF ManageFailure, Return
  <2>7. CASE CallFails
    <3>1. cur' = [cur EXCEPT !.pc = "fail"]
      BY <2>7, IdleWorkerType DEF CallFails, Return
    <3> QED
      BY <2>7, <3>1, WorkerFacts DEF CallFails, FreshSpec, Workers
  <2>8. CASE Panic
    BY <2>8, IdleWorkerType DEF Panic, Return
  <2> QED
    BY <1>4, <2>1, <2>2, <2>3, <2>4, <2>5, <2>6, <2>7, <2>8 DEF WorkerStep
<1>5. CASE Restart
  BY <1>5, IdleWorkerType DEF Restart
<1>6. CASE UNCHANGED vars
  BY <1>6 DEF vars, apiVars, FreshSpec
<1> QED
  BY <1>3, <1>4, <1>5, <1>6 DEF Next, EnvironmentStep

\* Every change of a target of w is announced to w, and the announcement is not
\* lost before it is delivered.
SameFor(w) ==
    \A n \in DeploymentTargetNames :
        Owned(targets, w, n) \/ Owned(targets', w, n) => targets'[n] = targets[n]

LEMMA SameTargets ==
    ASSUME TypeInv, ListedOwned, [Next]_vars, NEW w \in Workloads, NoOwnerEvent(w)'
    PROVE  SameFor(w)
<1> USE DEF SameFor, Owned
<1>1. CASE UNCHANGED targets
  BY <1>1
<1>2. ASSUME NEW n \in DeploymentTargetNames, RemoveTarget(n)
      PROVE  SameFor(w)
  <2>1. targets[n].workload # w
    BY <1>2 DEF RemoveTarget, TouchTarget, NoOwnerEvent, TypeInv, TypeOK
  <2> QED
    BY <1>2, <2>1 DEF RemoveTarget, TypeInv, TypeOK
<1>3. ASSUME NEW n \in DeploymentTargetNames, NEW e \in {Namespace, Elsewhere}, NEW d \in Data,
             UserEditsTarget(n, e, d)
      PROVE  SameFor(w)
  <2>1. /\ targets[n] \in DeploymentTargets
        /\ targets' = [targets EXCEPT ![n] = [targets[n] EXCEPT !.env = e, !.data = d]]
    BY <1>3 DEF UserEditsTarget, TypeInv, TypeOK
  <2>2. [targets[n] EXCEPT !.env = e, !.data = d].workload = targets[n].workload
    BY <2>1 DEF DeploymentTargets
  <2>3. targets[n].workload # w
    BY <1>3 DEF UserEditsTarget, TouchTarget, NoOwnerEvent, TypeInv, TypeOK
  <2> QED
    BY <2>1, <2>2, <2>3 DEF TypeInv, TypeOK
<1>4. CASE UserStep
  BY <1>1, <1>2, <1>3, <1>4
  DEF UserStep, ApplyWorkload, DeleteWorkload, RemoveWorkload, DeleteWorkloadForeground,
      TouchWorkload, EditRegistration, UserDeletesTarget
<1>5. CASE CollectorStep
  BY <1>1, <1>2, <1>5
  DEF CollectorStep, CollectTarget, CollectWorkload, RemoveWorkload, TouchWorkload
<1>6. CASE WorkerStep
  <2>1. ASSUME NEW n \in DeploymentTargetNames, NEW ok \in BOOLEAN, DeleteTarget(n, ok)
        PROVE  SameFor(w)
    <3>1. CASE /\ targets[n] # None
               /\ targets' = [targets EXCEPT ![n] = None]
               /\ ownerEvents' = [ownerEvents EXCEPT ![n] = @ \cup {targets[n].workload}]
      BY <3>1 DEF NoOwnerEvent, TypeInv, TypeOK
    <3> QED
      BY <1>1, <2>1, <3>1, DeleteKinds
  <2>2. ASSUME NEW t \in TargetNames, NEW ok \in BOOLEAN, WriteTarget(t, ok)
        PROVE  SameFor(w)
    <3> DEFINE n == TargetName(cur.workload, t)
    <3>1. n \in DeploymentTargetNames /\ cur.workload \in Workloads
      BY <2>2, WorkerFacts, NameType DEF WriteTarget, Busy
    <3>2. DeploymentTarget(t).workload = cur.workload
      BY DEF DeploymentTarget
    <3>3. CASE /\ targets' = [targets EXCEPT ![n] = DeploymentTarget(t)]
               /\ targets[n] = DeploymentTarget(t)
      BY <3>1, <3>3 DEF TypeInv, TypeOK
    <3>4. CASE /\ targets' = [targets EXCEPT ![n] = DeploymentTarget(t)]
               /\ targets[n] = None \/ Owned(targets, cur.workload, n)
               /\ ownerEvents' = [ownerEvents EXCEPT ![n] = @ \cup {cur.workload}]
      <4>1. cur.workload # w
        BY <3>1, <3>4 DEF NoOwnerEvent, TypeInv, TypeOK
      <4> QED
        BY <3>1, <3>2, <3>4, <4>1 DEF TypeInv, TypeOK
    <3> QED
      BY <1>1, <2>2, <3>3, <3>4, WriteKinds
  <2> QED
    BY <1>1, <1>6, <2>1, <2>2
    DEF WorkerStep, WorkerFrame, Begin, ListTargets, Finish, ManageFailure, Panic, CallFails
<1>7. CASE DeliveryStep \/ Restart \/ UNCHANGED vars
  BY <1>1, <1>7
  DEF DeliveryStep, DeliverWorkload, DeliverRegistration, DeliverTarget, Restart, vars, apiVars
<1> QED
  BY <1>4, <1>5, <1>6, <1>7 DEF Next

\* An event on its way is either still there or has queued its workload.
LEMMA OwnerEventsKept ==
    ASSUME TypeInv, ListedOwned, [Next]_vars, ~Restart, NEW w \in Workloads,
           NoOwnerEvent(w)', w \notin queue'
    PROVE  NoOwnerEvent(w)
<1> SUFFICES ASSUME NEW n \in DeploymentTargetNames
             PROVE  w \notin ownerEvents[n]
  BY DEF NoOwnerEvent
<1>1. CASE ownerEvents[n] \subseteq ownerEvents'[n]
  BY <1>1 DEF NoOwnerEvent
<1>2. ASSUME NEW m \in DeploymentTargetNames, targets[m] # None, TouchTarget(m, targets[m].workload)
      PROVE  w \notin ownerEvents[n]
  <2>1. targets[m].workload \in Workloads
    BY <1>2 DEF TypeInv, TypeOK, DeploymentTargets
  <2> QED
    BY <1>1, <1>2, <2>1, TouchTargetType
<1>3. CASE UserStep
  BY <1>1, <1>2, <1>3
  DEF UserStep, ApplyWorkload, DeleteWorkload, RemoveWorkload, DeleteWorkloadForeground,
      TouchWorkload, EditRegistration, UserDeletesTarget, UserEditsTarget, RemoveTarget
<1>4. CASE CollectorStep
  BY <1>1, <1>2, <1>4
  DEF CollectorStep, CollectTarget, CollectWorkload, RemoveWorkload, TouchWorkload, RemoveTarget
<1>5. CASE DeliveryStep
  <2>1. ASSUME NEW m \in DeploymentTargetNames, DeliverTarget(m)
        PROVE  w \notin ownerEvents[n]
    <3>1. CASE m = n
      BY <2>1, <3>1 DEF DeliverTarget
    <3>2. CASE m # n
      BY <1>1, <2>1, <3>2 DEF DeliverTarget, TypeInv, TypeOK
    <3> QED
      BY <3>1, <3>2
  <2> QED
    BY <1>1, <1>5, <2>1 DEF DeliveryStep, DeliverWorkload, DeliverRegistration
<1>6. CASE WorkerStep
  <2>1. ASSUME NEW m \in DeploymentTargetNames, NEW ok \in BOOLEAN, DeleteTarget(m, ok)
        PROVE  w \notin ownerEvents[n]
    BY <1>1, <2>1, DeleteKinds DEF TypeInv, TypeOK
  <2>2. ASSUME NEW t \in TargetNames, NEW ok \in BOOLEAN, WriteTarget(t, ok)
        PROVE  w \notin ownerEvents[n]
    BY <1>1, <2>2, WriteKinds DEF TypeInv, TypeOK
  <2> QED
    BY <1>1, <1>6, <2>1, <2>2
    DEF WorkerStep, WorkerFrame, Begin, ListTargets, Finish, ManageFailure, Panic, CallFails
<1>7. CASE UNCHANGED vars
  BY <1>1, <1>7 DEF vars, eventVars
<1> QED
  BY <1>3, <1>4, <1>5, <1>6, <1>7 DEF Next

\* A listed copy is of a target of the workload in hand until it is marked stale.
LEMMA ListedOwnedStep ==
    ASSUME TypeInv, TargetCoherent, ListedOwned, [Next]_vars
    PROVE  ListedOwned'
<1> SUFFICES ASSUME cur'.pc = "write", NEW n \in cur'.listed \ cur'.stale
             PROVE  Owned(targets', cur'.workload, n)
  BY DEF ListedOwned
<1> USE DEF Owned
<1>1. ASSUME WorkKept, UNCHANGED targets
      PROVE  Owned(targets', cur'.workload, n)
  BY <1>1 DEF WorkKept, ListedOwned
<1>2. ASSUME NEW m \in DeploymentTargetNames, targets[m] # None,
             TouchTarget(m, targets[m].workload), WorkKept,
             \A x \in DeploymentTargetNames \ {m} : targets'[x] = targets[x]
      PROVE  Owned(targets', cur'.workload, n)
  <2>1. targets[m].workload \in Workloads
    BY <1>2 DEF TypeInv, TypeOK, DeploymentTargets
  <2>2. n # m /\ n \in cur.listed \ cur.stale /\ cur.pc = "write" /\ cur'.workload = cur.workload
    BY <1>2, <2>1, TouchTargetType
  <2>3. n \in DeploymentTargetNames
    BY <2>2, WorkerFacts DEF Workers
  <2> QED
    BY <1>2, <2>2, <2>3 DEF ListedOwned
<1>3. CASE EnvironmentStep
  <2>1. \/ UNCHANGED targets
        \/ \E m \in DeploymentTargetNames :
              /\ targets[m] # None /\ TouchTarget(m, targets[m].workload)
              /\ \A x \in DeploymentTargetNames \ {m} : targets'[x] = targets[x]
    BY <1>3
    DEF EnvironmentStep, UserStep, ApplyWorkload, DeleteWorkload, RemoveWorkload,
        DeleteWorkloadForeground, TouchWorkload, EditRegistration, UserDeletesTarget,
        UserEditsTarget, RemoveTarget, CollectorStep, CollectTarget, CollectWorkload, DeliveryStep,
        DeliverWorkload, DeliverRegistration, DeliverTarget, apiVars, TypeInv, TypeOK
  <2> QED
    BY <1>1, <1>2, <1>3, <2>1, EnvironmentWorker
<1>4. CASE WorkerStep
  <2> USE DEF WorkerFrame
  <2>1. ASSUME NEW w \in Workloads, Begin(w)
        PROVE  Owned(targets', cur'.workload, n)
    BY <2>1, BeginWorker DEF Begin
  <2>2. CASE ListTargets
    <3>1. /\ cur'.workload = cur.workload /\ UNCHANGED targets
          /\ n \in OfWorkload(cTargets, cur.workload) /\ ownerEvents[n] = {}
      BY <2>2, ListWorker DEF ListTargets
    <3>2. n \in DeploymentTargetNames /\ Owned(cTargets, cur.workload, n)
      BY <3>1 DEF OfWorkload
    <3>3. cur.workload \in Workloads
      BY <2>2, WorkerFacts DEF ListTargets, Busy
    <3>4. targets[n] = cTargets[n]
      BY <3>1, <3>2, <3>3 DEF TargetCoherent
    <3> QED
      BY <3>1, <3>2, <3>4
  <2>3. ASSUME NEW m \in DeploymentTargetNames, NEW ok \in BOOLEAN, DeleteTarget(m, ok)
        PROVE  Owned(targets', cur'.workload, n)
    <3>0. cur.pc = "write" /\ cur'.workload = cur.workload
      BY <2>3, DeleteWorker DEF DeleteTarget
    <3>1. n # m /\ n \in cur.listed \ cur.stale
      <4>1. CASE ok
        BY <2>3, <4>1, DeleteWorker
      <4>2. CASE ~ok
        BY <2>3, <4>2, DeleteWorker
      <4> QED
        BY <4>1, <4>2
    <3>2. n \in DeploymentTargetNames
      BY <3>1, WorkerFacts DEF Workers
    <3>3. targets'[n] = targets[n]
      BY <2>3, <3>1, <3>2, DeleteKinds DEF TypeInv, TypeOK
    <3> QED
      BY <3>0, <3>1, <3>3 DEF ListedOwned
  <2>4. ASSUME NEW t \in TargetNames, NEW ok \in BOOLEAN, WriteTarget(t, ok)
        PROVE  Owned(targets', cur'.workload, n)
    <3>1. n \in cur.listed \ cur.stale /\ cur.pc = "write" /\ cur'.workload = cur.workload
      BY <2>4, WriteWorker DEF WriteTarget
    <3>2. n \in DeploymentTargetNames
      BY <3>1, WorkerFacts DEF Workers
    <3>3. Owned(targets, cur.workload, n)
      BY <3>1 DEF ListedOwned
    <3>4. DeploymentTarget(t).workload = cur.workload
      BY DEF DeploymentTarget
    <3> QED
      BY <2>4, <3>1, <3>2, <3>3, <3>4, WriteKinds DEF TypeInv, TypeOK
  <2>5. CASE (\E ok \in BOOLEAN : Finish(ok)) \/ ManageFailure \/ Panic
    BY <2>5, IdleWorkerType DEF Finish, ManageFailure, Panic, Return
  <2>6. CASE CallFails
    <3>1. cur' = [cur EXCEPT !.pc = "fail"]
      BY <2>6, IdleWorkerType DEF CallFails, Return
    <3> QED
      BY <3>1, WorkerFacts DEF Workers
  <2> QED
    BY <1>4, <2>1, <2>2, <2>3, <2>4, <2>5, <2>6 DEF WorkerStep
<1>5. CASE Restart
  BY <1>5, IdleWorkerType DEF Restart
<1>6. CASE UNCHANGED vars
  BY <1>6 DEF vars, apiVars, ListedOwned
<1> QED
  BY <1>3, <1>4, <1>5, <1>6 DEF Next, EnvironmentStep

\* What the invariant says of a target of w is the same before and after a step
\* that changes no target of w.
LEMMA SameSpecified ==
    ASSUME NEW w \in Workloads, SameFor(w), NEW spec, NEW t \in TargetNames,
           AsSpecified(targets, w, spec, t)
    PROVE  AsSpecified(targets', w, spec, t)
  BY NameType DEF SameFor, AsSpecified, Owned

LEMMA SameOfWorkload ==
    ASSUME NEW w \in Workloads, SameFor(w)
    PROVE  OfWorkload(targets', w) = OfWorkload(targets, w)
  BY DEF SameFor, OfWorkload, Owned

\* A turn of the second loop that ends well has written the target.
LEMMA WriteDone ==
    ASSUME TypeInv, NEW t \in TargetNames, WriteTarget(t, TRUE)
    PROVE  /\ targets' = [targets EXCEPT ![TargetName(cur.workload, t)] = DeploymentTarget(t)]
           /\ DeploymentTarget(t) # None
<1>1. /\ WorkspaceKnown(cur.spec.flux, cRegistrations)
      /\ targets' = [targets EXCEPT ![TargetName(cur.workload, t)] = DeploymentTarget(t)]
  BY DEF WriteTarget
<1>2. Busy /\ t \in Here(cur.spec)
  BY WriteWorker
<1> QED
  BY <1>1, <1>2, DeploymentTargetType, ConstantsAssumption

\* A reconcile that nothing will repeat keeps a true view of what is left to do.
LEMMA InHandStep ==
    ASSUME TypeInv, TargetCoherent, ListedOwned, InHandCurrent, [Next]_vars
    PROVE  InHandCurrent'
<1> SUFFICES ASSUME NEW w \in Workloads, cur'.workload = w, cur'.pc = "write", w \notin queue',
                    NoOwnerEvent(w)'
             PROVE  InHand'
  <2>1. TypeInv'
    BY TypeStep
  <2>2. cur'.pc # "idle" => cur'.workload \in Workloads
    BY <2>1 DEF TypeInv, TypeOK, WorkerOK
  <2> QED
    BY <2>2 DEF InHandCurrent, NoOwnerEvent
<1>1. ASSUME cur.pc = "write", cur.workload = w, cur'.spec = cur.spec, queue \subseteq queue',
             ~Restart, cur'.toDelete = cur.toDelete, cur'.toWrite = cur.toWrite
      PROVE  InHand'
  <2>1. SameFor(w) /\ NoOwnerEvent(w)
    BY <1>1, SameTargets, OwnerEventsKept
  <2>2. InHand
    BY <1>1, <2>1 DEF InHandCurrent
  <2>3. \A t \in Here(cur.spec) \ cur.toWrite : AsSpecified(targets', w, cur.spec, t)
    BY <1>1, <2>1, <2>2, SameSpecified DEF InHand, Here
  <2>4. OfWorkload(targets', w) = OfWorkload(targets, w)
    BY <2>1, SameOfWorkload
  <2> QED
    BY <1>1, <2>2, <2>3, <2>4 DEF InHand
<1>2. CASE EnvironmentStep
  <2>1. ~Restart
    <3>1. SUFFICES ASSUME Restart PROVE FALSE
      OBVIOUS
    <3> QED
      BY <3>1, IdleWorkerType DEF Restart
  <2> QED
    BY <1>1, <1>2, <2>1, EnvironmentWorker DEF WorkKept
<1>3. CASE WorkerStep
  <2> USE DEF WorkerFrame
  <2>0. ~Restart
    <3>1. SUFFICES ASSUME Restart PROVE FALSE
      OBVIOUS
    <3> QED
      BY <3>1, IdleWorkerType DEF Restart
  <2>1. ASSUME NEW x \in Workloads, Begin(x)
        PROVE  InHand'
    BY <2>1, BeginWorker DEF Begin
  <2>2. CASE ListTargets
    <3>0. UNCHANGED targets
      BY <2>2 DEF ListTargets
    <3>1. /\ cur.workload = w /\ cur'.spec = cur.spec
          /\ cur'.toDelete = ToDelete(OfWorkload(cTargets, w)) /\ cur'.toWrite = Here(cur.spec)
      BY <2>2, ListWorker
    <3>2. NoOwnerEvent(w)
      BY <2>2, <3>1 DEF ListTargets, NoOwnerEvent
    <3>3. \A n \in OfWorkload(targets, w) : n \in OfWorkload(cTargets, w)
      BY <3>0, <3>2 DEF OfWorkload, NoOwnerEvent, TargetCoherent, Owned
    <3>4. OfWorkload(targets, w) \ ToDelete(OfWorkload(cTargets, w)) \subseteq NamedIn(cur.spec, w)
      BY <3>1, <3>3 DEF ToDelete
    <3> QED
      BY <3>0, <3>1, <3>4 DEF InHand
  <2>3. ASSUME NEW n \in DeploymentTargetNames, NEW ok \in BOOLEAN, DeleteTarget(n, ok)
        PROVE  InHand'
    <3>0. cur.pc = "write" /\ queue' = queue
      BY <2>3 DEF DeleteTarget
    <3>1. /\ cur.workload = w /\ cur'.spec = cur.spec
          /\ cur'.toDelete = cur.toDelete \ {n} /\ cur'.toWrite = cur.toWrite
      <4>1. CASE ok
        BY <2>3, <4>1, DeleteWorker
      <4>2. CASE ~ok
        BY <2>3, <4>2, DeleteWorker
      <4> QED
        BY <4>1, <4>2
    <3>2. targets'[n] = None
      <4>1. CASE targets[n] = None /\ UNCHANGED targets
        BY <4>1
      <4>2. CASE targets' = [targets EXCEPT ![n] = None]
        BY <4>2 DEF TypeInv, TypeOK
      <4> QED
        BY <2>3, <4>1, <4>2, DeleteKinds
    <3>3. SameFor(w) /\ NoOwnerEvent(w)
      BY <2>0, <3>0, <3>1, SameTargets, OwnerEventsKept
    <3>4. InHand
      BY <3>0, <3>1, <3>3 DEF InHandCurrent
    <3>5. OfWorkload(targets', w) \ cur'.toDelete \subseteq NamedIn(cur.spec, w)
      <4>1. OfWorkload(targets', w) = OfWorkload(targets, w)
        BY <3>0, <3>3, SameOfWorkload
      <4>2. n \notin OfWorkload(targets', w)
        BY <3>2 DEF OfWorkload
      <4> QED
        BY <3>1, <3>4, <4>1, <4>2 DEF InHand
    <3>6. \A t \in Here(cur.spec) \ cur.toWrite : AsSpecified(targets', w, cur.spec, t)
      BY <3>1, <3>3, <3>4, SameSpecified DEF InHand, Here
    <3> QED
      BY <3>1, <3>5, <3>6 DEF InHand
  <2>4. ASSUME NEW t \in TargetNames, NEW ok \in BOOLEAN, WriteTarget(t, ok)
        PROVE  InHand'
    <3> DEFINE n == TargetName(w, t)
    <3>0. cur.pc = "write" /\ queue' = queue /\ t \in Here(cur.spec)
      BY <2>4, WriteWorker DEF WriteTarget
    <3>1. /\ ok /\ cur.workload = w /\ cur'.spec = cur.spec
          /\ cur'.toDelete = cur.toDelete /\ cur'.toWrite = cur.toWrite \ {t}
      <4>1. CASE ok
        BY <2>4, <4>1, WriteWorker
      <4>2. CASE ~ok
        BY <2>4, <4>2, WriteWorker
      <4> QED
        BY <4>1, <4>2
    <3>2. SameFor(w) /\ NoOwnerEvent(w)
      BY <2>0, <3>0, <3>1, SameTargets, OwnerEventsKept
    <3>3. InHand
      BY <3>0, <3>1, <3>2 DEF InHandCurrent
    <3>4. targets' = [targets EXCEPT ![n] = DeploymentTarget(t)] /\ DeploymentTarget(t) # None
      BY <2>4, <3>1, WriteDone
    <3>5. AsSpecified(targets', w, cur.spec, t)
      <4>1. n \in DeploymentTargetNames
        BY <3>0, NameType
      <4>2. targets'[n] = DeploymentTarget(t)
        BY <3>4, <4>1 DEF TypeInv, TypeOK
      <4>3. /\ DeploymentTarget(t).workload = w /\ DeploymentTarget(t).env = Namespace
            /\ DeploymentTarget(t).data = cur.spec.targets[t].data
        BY <3>1 DEF DeploymentTarget
      <4> QED
        BY <3>4, <4>2, <4>3 DEF AsSpecified, Owned
    <3>6. \A x \in Here(cur.spec) \ cur'.toWrite : AsSpecified(targets', w, cur.spec, x)
      BY <3>0, <3>1, <3>2, <3>3, <3>5, SameSpecified DEF InHand, Here
    <3>7. OfWorkload(targets', w) = OfWorkload(targets, w)
      BY <3>0, <3>2, SameOfWorkload
    <3> QED
      BY <3>1, <3>3, <3>6, <3>7 DEF InHand
  <2>5. CASE (\E ok \in BOOLEAN : Finish(ok)) \/ ManageFailure \/ Panic
    BY <2>5, IdleWorkerType DEF Finish, ManageFailure, Panic, Return
  <2>6. CASE CallFails
    <3>1. cur' = [cur EXCEPT !.pc = "fail"]
      BY <2>6, IdleWorkerType DEF CallFails, Return
    <3> QED
      BY <3>1, WorkerFacts DEF Workers
  <2> QED
    BY <1>3, <2>1, <2>2, <2>3, <2>4, <2>5, <2>6 DEF WorkerStep
<1>4. CASE Restart
  BY <1>4, IdleWorkerType DEF Restart
<1>5. CASE UNCHANGED vars
  <2>1. cur' = cur /\ targets' = targets /\ queue' = queue /\ ownerEvents' = ownerEvents
    BY <1>5 DEF vars, apiVars, eventVars
  <2> QED
    BY <2>1 DEF InHandCurrent, InHand, NoOwnerEvent
<1> QED
  BY <1>2, <1>3, <1>4, <1>5 DEF Next, EnvironmentStep

\* Only a step of a reconcile of w, or of Restart, leaves w quiet that was not.
LEMMA QuietKept ==
    ASSUME TypeInv, WorkloadCoherent, ListedOwned, [Next]_vars, NEW w \in Workloads,
           Quiet(w)', cur.workload # w
    PROVE  Quiet(w) /\ workloads'[w] = workloads[w] /\ (w \in ready => w \in ready')
<1>0. workloads'[w] # None /\ w \notin terminating' /\ workloadEvent'[w] # "spec"
  BY DEF Quiet
<1>1. ~Restart
  BY DEF Quiet, Restart, apiVars
<1>2. w \notin queue' /\ NoOwnerEvent(w)'
  BY DEF Quiet
<1>3. NoOwnerEvent(w)
  BY <1>1, <1>2, OwnerEventsKept
<1>4. ASSUME w \notin queue,
             workloads'[w] = workloads[w], w \in terminating' <=> w \in terminating,
             workloadEvent'[w] = workloadEvent[w], w \in ready => w \in ready'
      PROVE  Quiet(w) /\ workloads'[w] = workloads[w] /\ (w \in ready => w \in ready')
  BY <1>0, <1>3, <1>4 DEF Quiet
<1>5. CASE UNCHANGED <<workloads, terminating, ready, workloadEvent>> /\ queue \subseteq queue'
  BY <1>2, <1>4, <1>5
<1>6. CASE UserStep
  <2>1. ASSUME NEW x \in Workloads, NEW s \in WorkloadSpecs, ApplyWorkload(x, s)
        PROVE  Quiet(w) /\ workloads'[w] = workloads[w] /\ (w \in ready => w \in ready')
    <3>1. x # w
      BY <1>0, <2>1 DEF ApplyWorkload, TouchWorkload, TypeInv, TypeOK
    <3> QED
      BY <1>2, <1>4, <2>1, <3>1 DEF ApplyWorkload, TouchWorkload, TypeInv, TypeOK
  <2>2. ASSUME NEW x \in Workloads, RemoveWorkload(x)
        PROVE  Quiet(w) /\ workloads'[w] = workloads[w] /\ (w \in ready => w \in ready')
    <3>1. x # w
      BY <1>0, <2>2 DEF RemoveWorkload, TouchWorkload, TypeInv, TypeOK
    <3> QED
      BY <1>2, <1>4, <2>2, <3>1 DEF RemoveWorkload, TouchWorkload, TypeInv, TypeOK
  <2>3. ASSUME NEW x \in Workloads, DeleteWorkloadForeground(x)
        PROVE  Quiet(w) /\ workloads'[w] = workloads[w] /\ (w \in ready => w \in ready')
    <3>1. x # w
      BY <1>0, <2>3 DEF DeleteWorkloadForeground, TouchWorkload, TypeInv, TypeOK
    <3> QED
      BY <1>2, <1>4, <2>3, <3>1 DEF DeleteWorkloadForeground, TouchWorkload, TypeInv, TypeOK
  <2> QED
    BY <1>5, <1>6, <2>1, <2>2, <2>3
    DEF UserStep, DeleteWorkload, EditRegistration, UserDeletesTarget, UserEditsTarget
<1>7. CASE CollectorStep
  <2>1. ASSUME NEW x \in Workloads, RemoveWorkload(x)
        PROVE  Quiet(w) /\ workloads'[w] = workloads[w] /\ (w \in ready => w \in ready')
    <3>1. x # w
      BY <1>0, <2>1 DEF RemoveWorkload, TouchWorkload, TypeInv, TypeOK
    <3> QED
      BY <1>2, <1>4, <2>1, <3>1 DEF RemoveWorkload, TouchWorkload, TypeInv, TypeOK
  <2> QED
    BY <1>5, <1>7, <2>1 DEF CollectorStep, CollectTarget, CollectWorkload
<1>8. CASE DeliveryStep
  <2>1. ASSUME NEW x \in Workloads, DeliverWorkload(x)
        PROVE  Quiet(w) /\ workloads'[w] = workloads[w] /\ (w \in ready => w \in ready')
    <3>1. workloadEvent[w] # "spec"
      BY <1>2, <2>1, <1>0 DEF DeliverWorkload, TypeInv, TypeOK
    <3>2. w \notin queue /\ UNCHANGED apiVars
      BY <1>2, <2>1 DEF DeliverWorkload
    <3> QED
      BY <1>0, <1>3, <3>1, <3>2 DEF Quiet, apiVars
  <2> QED
    BY <1>5, <1>8, <2>1 DEF DeliveryStep, DeliverRegistration, DeliverTarget, apiVars
<1>9. CASE WorkerStep
  <2> USE DEF WorkerFrame
  <2>1. ASSUME NEW x \in Workloads, Begin(x)
        PROVE  Quiet(w) /\ workloads'[w] = workloads[w] /\ (w \in ready => w \in ready')
    <3>1. x # w
      <4>1. SUFFICES ASSUME x = w PROVE FALSE
        OBVIOUS
      <4>2. CASE cWorkloads[w] = None \/ w \in cTerminating
        BY <1>0, <2>1, <4>1, <4>2 DEF Begin, WorkloadCoherent
      <4>3. CASE ~(cWorkloads[w] = None \/ w \in cTerminating)
        BY <2>1, <4>1, <4>3, BeginWorker DEF Quiet
      <4> QED
        BY <4>2, <4>3
    <3> QED
      BY <1>2, <1>4, <2>1, <3>1 DEF Begin
  <2>2. ASSUME NEW isReady \in BOOLEAN, NEW ok \in BOOLEAN, WriteStatus(isReady, ok), Busy,
               NEW error \in BOOLEAN, Return(cur.workload, error),
               UNCHANGED <<workloads, terminating>>
        PROVE  Quiet(w) /\ workloads'[w] = workloads[w] /\ (w \in ready => w \in ready')
    <3>1. workloadEvent'[w] = workloadEvent[w] /\ (w \in ready => w \in ready')
      BY <2>2 DEF WriteStatus, TypeInv, TypeOK
    <3>2. w \notin queue
      BY <1>2, <2>2 DEF Return
    <3> QED
      BY <1>4, <2>2, <3>1, <3>2
  <2>3. ASSUME NEW ok \in BOOLEAN, Finish(ok)
        PROVE  Quiet(w) /\ workloads'[w] = workloads[w] /\ (w \in ready => w \in ready')
    BY <2>2, <2>3, WorkerFacts DEF Finish
  <2>4. CASE ManageFailure
    BY <2>2, <2>4, WorkerFacts DEF ManageFailure
  <2>5. CASE CallFails \/ Panic
    BY <1>5, <2>5 DEF CallFails, Panic, Return
  <2> QED
    BY <1>5, <1>9, <2>1, <2>3, <2>4, <2>5 DEF WorkerStep, ListTargets, DeleteTarget, WriteTarget
<1>10. CASE UNCHANGED vars
  BY <1>5, <1>10 DEF vars, apiVars, eventVars
<1> QED
  BY <1>1, <1>6, <1>7, <1>8, <1>9, <1>10 DEF Next

\* A reconcile of w leaves w quiet only when it ends well.
LEMMA QuietFinish ==
    ASSUME TypeInv, [Next]_vars, NEW w \in Workloads, Quiet(w)', cur.workload = w
    PROVE  Finish(TRUE)
<1>0. w \notin queue' /\ cur'.workload # w
  BY DEF Quiet
<1>1. CASE EnvironmentStep
  BY <1>0, <1>1, EnvironmentWorker DEF WorkKept
<1>2. CASE Restart
  BY <1>2 DEF Quiet, Restart, apiVars
<1>3. CASE UNCHANGED vars
  BY <1>0, <1>3 DEF vars
<1>4. CASE WorkerStep
  <2>1. ASSUME NEW x \in Workloads, Begin(x)
        PROVE  FALSE
    BY <2>1, ConstantsAssumption DEF Begin, TypeInv, WorkerOK
  <2>2. CASE ListTargets
    BY <1>0, <2>2, ListWorker
  <2>3. ASSUME NEW n \in DeploymentTargetNames, NEW ok \in BOOLEAN, DeleteTarget(n, ok)
        PROVE  FALSE
    BY <1>0, <2>3, DeleteWorker
  <2>4. ASSUME NEW t \in TargetNames, NEW ok \in BOOLEAN, WriteTarget(t, ok)
        PROVE  FALSE
    BY <1>0, <2>4, WriteWorker
  <2>5. ASSUME NEW ok \in BOOLEAN, Finish(ok)
        PROVE  Finish(TRUE)
    <3>1. CASE ok
      BY <2>5, <3>1
    <3>2. CASE ~ok
      BY <1>0, <2>5, <3>2 DEF Finish, Return
    <3> QED
      BY <3>1, <3>2
  <2>6. CASE ManageFailure \/ Panic
    BY <1>0, <2>6 DEF ManageFailure, Panic, Return
  <2>7. CASE CallFails
    <3>1. CASE cur' = [cur EXCEPT !.pc = "fail"]
      BY <1>0, <3>1, WorkerFacts DEF Workers
    <3>2. CASE Return(cur.workload, TRUE)
      BY <1>0, <3>2 DEF Return
    <3> QED
      BY <2>7, <3>1, <3>2 DEF CallFails
  <2> QED
    BY <1>4, <2>1, <2>2, <2>3, <2>4, <2>5, <2>6, <2>7 DEF WorkerStep
<1> QED
  BY <1>1, <1>2, <1>3, <1>4 DEF Next, EnvironmentStep

\* A reconcile that ends well leaves its workload converged if nothing is on its way.
LEMMA FinishConverges ==
    ASSUME TypeInv, FreshSpec, InHandCurrent, NEW w \in Workloads, w = cur.workload,
           Finish(TRUE), Quiet(w)'
    PROVE  Converged(w)'
<1>1. /\ cur.pc = "write" /\ cur.toDelete = {} /\ cur.toWrite = {}
      /\ cur.fresh /\ ready' = ready \cup {w}
      /\ UNCHANGED <<workloads, targets, ownerEvents, queue>>
  BY DEF Finish, LoopsDone, WriteStatus, Return, WorkerFrame
<1>2. cur.spec = workloads[w]
  BY <1>1 DEF FreshSpec
<1>3. InHand
  BY <1>1 DEF InHandCurrent, Quiet, NoOwnerEvent
<1> QED
  BY <1>1, <1>2, <1>3 DEF InHand, Converged

LEMMA QuietConvergedStep ==
    ASSUME TypeInv, IInv, [Next]_vars
    PROVE  QuietConverged'
<1> SUFFICES ASSUME NEW w \in Workloads, Quiet(w)'
             PROVE  Converged(w)'
  BY DEF QuietConverged
<1>1. CASE cur.workload = w
  BY <1>1, QuietFinish, FinishConverges DEF IInv
<1>2. CASE cur.workload # w
  <2>1. Quiet(w) /\ workloads'[w] = workloads[w] /\ (w \in ready => w \in ready')
    BY <1>2, QuietKept DEF IInv, Coherent
  <2>2. Converged(w)
    BY <2>1 DEF IInv, QuietConverged
  <2>3. SameFor(w)
    BY SameTargets DEF IInv, Quiet
  <2>4. \A t \in Here(workloads[w]) : AsSpecified(targets', w, workloads[w], t)
    BY <2>2, <2>3, SameSpecified DEF Converged, Here
  <2>5. OfWorkload(targets', w) = OfWorkload(targets, w)
    BY <2>3, SameOfWorkload
  <2> QED
    BY <2>1, <2>2, <2>4, <2>5 DEF Converged
<1> QED
  BY <1>1, <1>2

LEMMA InductiveInvariant == Spec => [](TypeInv /\ IInv)
<1>1. Init => TypeInv /\ IInv
  BY TypeInit, IInvInit
<1>2. TypeInv /\ IInv /\ [Next]_vars => (TypeInv /\ IInv)'
  <2> SUFFICES ASSUME TypeInv, IInv, [Next]_vars
               PROVE  TypeInv' /\ IInv'
    OBVIOUS
  <2>1. Coherent'
    BY WorkloadCoherentStep, TargetCoherentStep DEF IInv, Coherent
  <2>2. FreshSpec' /\ ListedOwned' /\ InHandCurrent'
    BY FreshSpecStep, ListedOwnedStep, InHandStep DEF IInv, Coherent
  <2> QED
    BY <2>1, <2>2, TypeStep, QuietConvergedStep DEF IInv
<1> QED
  BY <1>1, <1>2, PTL DEF Spec

LEMMA RestingIsQuiet == \A w \in Workloads : Resting(w) => Quiet(w)
  BY DEF Resting, Calm, Quiet, NoOwnerEvent

\* The reconciler is level-triggered: a workload that no reconcile is running for
\* and nothing will trigger one for is ready and has every target it lists for this
\* environment as it specifies it, whatever was edited, refused, lost or stale before.
THEOREM TargetsWritten == Spec => []RestingTargetsWritten
<1>1. TypeInv /\ IInv => RestingTargetsWritten
  BY RestingIsQuiet DEF IInv, QuietConverged, Converged, AsSpecified, Owned, RestingTargetsWritten
<1> QED
  BY <1>1, InductiveInvariant, PTL

\* And no target is left that the workload no longer names.  One that it names for
\* another environment may be: see RestingTargetsHere.
THEOREM TargetsListed == Spec => []RestingTargetsListed
<1>1. TypeInv /\ IInv => RestingTargetsListed
  BY RestingIsQuiet DEF IInv, QuietConverged, Converged, RestingTargetsListed
<1> QED
  BY <1>1, InductiveInvariant, PTL

\* A DeploymentTarget stays with the workload it was made for until it is deleted:
\* an update is of a listed copy, and the API server refuses it when the name has
\* been taken by another workload in between.
OwnerKept ==
    [][\A n \in DeploymentTargetNames :
          targets[n] # None /\ targets'[n] # None => targets'[n].workload = targets[n].workload]_vars

\* Two workloads whose targets share a name never overwrite each other's.
THEOREM NeverTakenOver == Spec => OwnerKept
<1>1. ASSUME TypeInv, IInv, [Next]_vars, NEW n \in DeploymentTargetNames,
             targets[n] # None, targets'[n] # None
      PROVE  targets'[n].workload = targets[n].workload
  <2> USE DEF TypeInv, TypeOK
  <2>1. CASE UNCHANGED targets
    BY <2>1
  <2>2. ASSUME NEW m \in DeploymentTargetNames, targets' = [targets EXCEPT ![m] = None]
        PROVE  targets'[n].workload = targets[n].workload
    BY <1>1, <2>2
  <2>3. ASSUME NEW m \in DeploymentTargetNames, NEW e \in {Namespace, Elsewhere}, NEW d \in Data,
               UserEditsTarget(m, e, d)
        PROVE  targets'[n].workload = targets[n].workload
    <3>1. /\ targets[m] \in DeploymentTargets
          /\ targets' = [targets EXCEPT ![m] = [targets[m] EXCEPT !.env = e, !.data = d]]
      BY <1>1, <2>3 DEF UserEditsTarget
    <3>2. [targets[m] EXCEPT !.env = e, !.data = d].workload = targets[m].workload
      BY <3>1 DEF DeploymentTargets
    <3> QED
      BY <1>1, <3>1, <3>2
  <2>4. CASE EnvironmentStep
    BY <1>1, <2>1, <2>2, <2>3, <2>4
    DEF EnvironmentStep, UserStep, ApplyWorkload, DeleteWorkload, RemoveWorkload,
        DeleteWorkloadForeground, TouchWorkload, EditRegistration, UserDeletesTarget,
        RemoveTarget, CollectorStep, CollectTarget, CollectWorkload, DeliveryStep,
        DeliverWorkload, DeliverRegistration, DeliverTarget, apiVars
  <2>5. CASE WorkerStep
    <3>1. ASSUME NEW m \in DeploymentTargetNames, NEW ok \in BOOLEAN, DeleteTarget(m, ok)
          PROVE  targets'[n].workload = targets[n].workload
      BY <1>1, <2>1, <2>2, <3>1, DeleteKinds
    <3>2. ASSUME NEW t \in TargetNames, NEW ok \in BOOLEAN, WriteTarget(t, ok)
          PROVE  targets'[n].workload = targets[n].workload
      <4>1. DeploymentTarget(t).workload = cur.workload
        BY DEF DeploymentTarget
      <4>2. ListedOwned
        BY <1>1 DEF IInv
      <4> QED
        BY <1>1, <3>2, <4>1, <4>2, WriteKinds DEF Owned
    <3> QED
      BY <2>1, <2>5, <3>1, <3>2
      DEF WorkerStep, WorkerFrame, Begin, ListTargets, Finish, ManageFailure, Panic, CallFails
  <2>6. CASE Restart \/ UNCHANGED vars
    BY <2>1, <2>6 DEF Restart, vars, apiVars
  <2> QED
    BY <1>1, <2>4, <2>5, <2>6 DEF Next, EnvironmentStep
<1>2. TypeInv /\ IInv /\ [Next]_vars
          => [\A n \in DeploymentTargetNames :
                 targets[n] # None /\ targets'[n] # None
                     => targets'[n].workload = targets[n].workload]_vars
  BY <1>1
<1> QED
  BY <1>2, InductiveInvariant, PTL DEF Spec, OwnerKept
=============================================================================

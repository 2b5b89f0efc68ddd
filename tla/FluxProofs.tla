----------------------------- MODULE FluxProofs -----------------------------
(***************************************************************************)
(* Proofs about FluxReferences: its types, that an owner at rest is        *)
(* mirrored, that a deleted one is cleaned up after, and that Flux never   *)
(* has a Kustomization without its GitRepository, for any owners and       *)
(* specs.                                                                  *)
(***************************************************************************)
EXTENDS FluxReferences, TLAPS

(***************************************************************************)
(* Types.                                                                  *)
(***************************************************************************)

CreateSteps == {"namespace", "repo", "kustomization", "report"}
DeleteSteps == {"deleteKustomization", "deleteRepo"}

Workers ==
    [pc : CreateSteps \cup DeleteSteps \cup {"idle", "fail"},
     owner : Owners \cup {None}, spec : Specs \cup {None}, fresh : BOOLEAN]

\* A worker is idle exactly when it has no owner in hand, and it creates from the
\* spec of an owner that it found.
WorkerOK ==
    \A k \in Kinds :
        /\ cur[k].pc = "idle" <=> cur[k].owner = None
        /\ cur[k].pc \in CreateSteps => cur[k].spec \in Specs

TypeInv == TypeOK /\ WorkerOK

LEMMA WorkerFacts ==
    ASSUME TypeInv
    PROVE  /\ cur \in [Kinds -> Workers]
           /\ \A k \in Kinds : cur[k].pc # "idle" => cur[k].owner \in Owners /\ cur[k].owner.kind = k
  BY DEF TypeInv, TypeOK, Workers, CreateSteps, DeleteSteps, Busy

LEMMA IdleWorkerType ==
    /\ IdleWorker \in Workers
    /\ IdleWorker.pc = "idle" /\ IdleWorker.owner = None
  BY DEF IdleWorker, Workers

\* Counting an edit or a fault keeps to the bound.
LEMMA EditType ==
    ASSUME TypeInv, Edit
    PROVE  edits' \in 0..MaxEdits
  BY ConstantsAssumption DEF TypeInv, TypeOK, Edit

LEMMA FaultType ==
    ASSUME TypeInv, Fault
    PROVE  faults' \in 0..MaxFaults
  BY ConstantsAssumption DEF TypeInv, TypeOK, Fault

LEMMA AnsweredType ==
    ASSUME TypeInv, NEW ok \in BOOLEAN, Answered(ok)
    PROVE  faults' \in 0..MaxFaults
  BY FaultType DEF TypeInv, TypeOK, Answered

LEMMA NameTypes ==
    ASSUME NEW o \in Owners
    PROVE  FluxName(o) \in FluxNames /\ TargetNamespace(o) \in Namespaces
  BY DEF FluxNames, Namespaces

\* The workers are well-typed, and each is in hand of an owner of its kind.
WorkersOK ==
    /\ cur \in [Kinds -> Workers]
    /\ \A k \in Kinds : Busy(k) => cur[k].owner \in Owners /\ cur[k].owner.kind = k
    /\ WorkerOK

LEMMA WorkersFromType ==
    ASSUME TypeInv
    PROVE  WorkersOK
  BY WorkerFacts DEF WorkersOK, TypeInv, TypeOK

\* A write to an owner changes nothing in the workers but a flag.
LEMMA TouchOwnerType ==
    ASSUME TypeInv, NEW o \in Owners, TouchOwner(o)
    PROVE  /\ ownerEvent' \in [Owners -> {"none", "status", "spec"}]
           /\ WorkersOK'
           /\ \A k \in Kinds :
                 /\ cur'[k].pc = cur[k].pc /\ cur'[k].owner = cur[k].owner
                 /\ cur'[k].spec = cur[k].spec
                 /\ cur'[k].fresh => cur[k].fresh /\ cur[k].owner # o
<1>1. ownerEvent' \in [Owners -> {"none", "status", "spec"}]
  BY DEF TouchOwner, TypeInv, TypeOK
<1>2. ASSUME NEW k \in Kinds
      PROVE  /\ cur'[k] \in Workers
             /\ cur'[k].pc = cur[k].pc /\ cur'[k].owner = cur[k].owner
             /\ cur'[k].spec = cur[k].spec
             /\ cur'[k].fresh => cur[k].fresh /\ cur[k].owner # o
  <2>1. cur[k] \in Workers
    BY WorkerFacts
  <2>2. cur'[k] = IF cur[k].owner = o THEN [cur[k] EXCEPT !.fresh = FALSE] ELSE cur[k]
    BY DEF TouchOwner
  <2> QED
    BY <2>1, <2>2 DEF Workers
<1>3. cur' \in [Kinds -> Workers]
  <2>1. cur' = [k \in Kinds |-> cur'[k]]
    BY DEF TouchOwner
  <2> QED
    BY <1>2, <2>1
<1>4. WorkersOK'
  BY <1>2, <1>3, WorkersFromType DEF WorkersOK, WorkerOK, Busy
<1> QED
  BY <1>1, <1>2, <1>4

\* A worker that goes on to another step.
LEMMA GoToWorker ==
    ASSUME TypeInv, NEW k \in Kinds, NEW pc \in CreateSteps \cup DeleteSteps \cup {"fail"},
           GoTo(k, pc), cur[k].pc # "idle", pc \in CreateSteps => cur[k].spec \in Specs
    PROVE  /\ WorkersOK'
           /\ \A j \in Kinds \ {k} : cur'[j] = cur[j]
           /\ cur'[k].pc = pc /\ cur'[k].owner = cur[k].owner /\ cur'[k].spec = cur[k].spec
           /\ cur'[k].fresh = cur[k].fresh
<1>1. cur \in [Kinds -> Workers] /\ cur[k] \in Workers
  BY WorkerFacts
<1>2. cur' = [cur EXCEPT ![k] = [cur[k] EXCEPT !.pc = pc]]
  BY DEF GoTo
<1>3. /\ [cur[k] EXCEPT !.pc = pc] \in Workers
      /\ [cur[k] EXCEPT !.pc = pc].pc = pc
      /\ [cur[k] EXCEPT !.pc = pc].owner = cur[k].owner
      /\ [cur[k] EXCEPT !.pc = pc].spec = cur[k].spec
      /\ [cur[k] EXCEPT !.pc = pc].fresh = cur[k].fresh
  BY <1>1 DEF Workers
<1>4. /\ cur' \in [Kinds -> Workers]
      /\ \A j \in Kinds \ {k} : cur'[j] = cur[j]
      /\ cur'[k] = [cur[k] EXCEPT !.pc = pc]
  BY <1>1, <1>2, <1>3
<1>5. pc # "idle"
  BY DEF CreateSteps, DeleteSteps
<1>6. ASSUME NEW j \in Kinds
      PROVE  /\ cur'[j].pc # "idle" => cur'[j].owner \in Owners /\ cur'[j].owner.kind = j
             /\ cur'[j].pc = "idle" <=> cur'[j].owner = None
             /\ cur'[j].pc \in CreateSteps => cur'[j].spec \in Specs
  <2>1. CASE j = k
    <3>1. cur[k].owner \in Owners /\ cur[k].owner.kind = k
      BY WorkerFacts
    <3> QED
      BY <1>3, <1>4, <1>5, <2>1, <3>1, ConstantsAssumption
  <2>2. CASE j # k
    BY <1>4, <2>2, WorkersFromType DEF WorkersOK, WorkerOK, Busy
  <2> QED
    BY <2>1, <2>2
<1> QED
  BY <1>3, <1>4, <1>6 DEF WorkersOK, WorkerOK, Busy

\* A worker that returns.
LEMMA ReturnWorker ==
    ASSUME TypeInv, NEW k \in Kinds, NEW error \in BOOLEAN, Return(k, error), cur[k].pc # "idle"
    PROVE  /\ WorkersOK'
           /\ \A j \in Kinds \ {k} : cur'[j] = cur[j]
           /\ cur'[k].pc = "idle" /\ cur'[k].owner = None
           /\ queue' \subseteq Owners /\ queue \subseteq queue'
           /\ error => cur[k].owner \in queue'
<1>1. cur \in [Kinds -> Workers] /\ cur[k].owner \in Owners
  BY WorkerFacts
<1>2. /\ cur' \in [Kinds -> Workers]
      /\ \A j \in Kinds \ {k} : cur'[j] = cur[j]
      /\ cur'[k] = IdleWorker
  BY <1>1, IdleWorkerType DEF Return
<1>3. WorkersOK'
  BY <1>2, IdleWorkerType, WorkersFromType DEF WorkersOK, WorkerOK, Busy, CreateSteps
<1>4. queue' \subseteq Owners /\ queue \subseteq queue' /\ (error => cur[k].owner \in queue')
  BY <1>1 DEF Return, TypeInv, TypeOK
<1> QED
  BY <1>2, <1>3, <1>4, IdleWorkerType

\* A worker that takes an owner.
LEMMA BeginWorker ==
    ASSUME TypeInv, NEW k \in Kinds, NEW o \in Owners, Begin(k, o)
    PROVE  /\ WorkersOK'
           /\ \A j \in Kinds \ {k} : cur'[j] = cur[j]
           /\ cur[k].pc = "idle" /\ cur'[k].owner = o /\ o.kind = k
           /\ IF Deleted(o) THEN cur'[k].pc = "deleteKustomization"
              ELSE cur'[k].pc \in {"namespace", "repo"} /\ cur'[k].spec = cSpec[o]
           /\ cur'[k].fresh => ownerEvent[o] = "none"
<1> DEFINE pc == IF Deleted(o) THEN "deleteKustomization"
                 ELSE IF k = "Environment" THEN "namespace" ELSE "repo"
           fresh == cSpec[o] # None /\ ownerEvent[o] = "none"
           worker == [pc |-> pc, owner |-> o, spec |-> cSpec[o], fresh |-> fresh]
<1>1. cur \in [Kinds -> Workers] /\ cur[k].pc = "idle" /\ o.kind = k
  BY WorkerFacts DEF Begin, Busy
<1>2. cSpec[o] \in Specs \cup {None} /\ (~Deleted(o) => cSpec[o] \in Specs)
  BY DEF TypeInv, TypeOK, Deleted
<1>3. worker \in Workers
  <2>1. fresh \in BOOLEAN
    OBVIOUS
  <2>2. pc \in CreateSteps \cup DeleteSteps \cup {"idle", "fail"}
    BY DEF CreateSteps, DeleteSteps
  <2> HIDE DEF pc, fresh
  <2> QED
    BY <1>2, <2>1, <2>2 DEF Workers
<1>4. cur' = [cur EXCEPT ![k] = worker]
  BY DEF Begin
<1>5. /\ cur' \in [Kinds -> Workers]
      /\ \A j \in Kinds \ {k} : cur'[j] = cur[j]
      /\ cur'[k] = worker
  <2> HIDE DEF worker
  <2> QED
    BY <1>1, <1>3, <1>4
<1>6. /\ cur'[k].owner = o /\ cur'[k].spec = cSpec[o] /\ cur'[k].pc = pc
      /\ cur'[k].fresh = fresh
  BY <1>5
<1>7. pc # "idle" /\ o # None /\ (pc \in CreateSteps => cSpec[o] \in Specs)
  BY <1>2, ConstantsAssumption DEF CreateSteps
<1>8. WorkersOK'
  <2> HIDE DEF worker, pc, fresh
  <2> QED
    BY <1>1, <1>5, <1>6, <1>7, WorkersFromType DEF WorkersOK, WorkerOK, Busy
<1> QED
  BY <1>1, <1>5, <1>6, <1>8

LEMMA TypeInit == Init => TypeInv
<1> SUFFICES ASSUME Init PROVE TypeInv
  OBVIOUS
<1>1. \A k \in Kinds : cur[k] = IdleWorker
  BY DEF Init
<1>2. WorkerOK /\ \A k \in Kinds : Busy(k) => cur[k].owner \in Owners /\ cur[k].owner.kind = k
  BY <1>1, IdleWorkerType DEF WorkerOK, Busy, CreateSteps
<1>3. cur \in [Kinds -> Workers]
  BY IdleWorkerType DEF Init
<1>4. namespaces \subseteq Namespaces
  BY ConstantsAssumption DEF Init, Namespaces, TargetNamespace
<1> QED
  BY <1>2, <1>3, <1>4, ConstantsAssumption
  DEF Init, TypeInv, TypeOK, Workers, CreateSteps, DeleteSteps

\* All of TypeInv but the workers.
StoresOK ==
    /\ spec \in [Owners -> Specs \cup {None}]
    /\ terminating \subseteq Owners /\ ready \subseteq Owners
    /\ repos \in [FluxNames -> Specs \cup {None}]
    /\ kustomizations \in [FluxNames -> Kustomizations \cup {None}]
    /\ namespaces \subseteq Namespaces
    /\ ownerEvent \in [Owners -> {"none", "status", "spec"}]
    /\ repoEvents \subseteq FluxNames /\ kustomizationEvents \subseteq FluxNames
    /\ namespaceEvents \subseteq Namespaces
    /\ cSpec \in [Owners -> Specs \cup {None}] /\ cTerminating \subseteq Owners
    /\ cRepos \in [FluxNames -> Specs \cup {None}]
    /\ cKustomizations \in [FluxNames -> Kustomizations \cup {None}]
    /\ cNamespaces \subseteq Namespaces
    /\ queue \subseteq Owners
    /\ edits \in 0..MaxEdits /\ faults \in 0..MaxFaults

LEMMA TypeParts ==
    ASSUME TypeInv
    PROVE  StoresOK /\ WorkersOK
  BY WorkersFromType DEF TypeInv, TypeOK, StoresOK

LEMMA TypeJoin ==
    ASSUME StoresOK', WorkersOK'
    PROVE  TypeInv'
  BY DEF TypeInv, TypeOK, StoresOK, WorkersOK, Workers, CreateSteps, DeleteSteps

LEMMA UserStepType ==
    ASSUME TypeInv, UserStep \/ \E o \in Owners : CollectOwner(o)
    PROVE  TypeInv'
<1> USE DEF StoresOK
<1>0. StoresOK
  BY TypeParts
<1>1. ASSUME NEW o \in Owners, TouchOwner(o), spec' \in [Owners -> Specs \cup {None}],
             terminating' \subseteq Owners, ready' \subseteq Owners, edits' \in 0..MaxEdits
      PROVE  TypeInv'
  <2>1. StoresOK'
    BY <1>0, <1>1, TouchOwnerType DEF TouchOwner, cacheVars
  <2>2. WorkersOK'
    BY <1>1, TouchOwnerType
  <2> QED
    BY <2>1, <2>2, TypeJoin
<1>2. ASSUME NEW o \in Owners, NEW s \in Specs, ApplyOwner(o, s)
      PROVE  TypeInv'
  <2>1. edits' \in 0..MaxEdits
    BY <1>2, EditType DEF ApplyOwner
  <2>2. spec' \in [Owners -> Specs \cup {None}] /\ terminating' \subseteq Owners
    BY <1>0, <1>2 DEF ApplyOwner
  <2>3. TouchOwner(o) /\ ready' \subseteq Owners
    BY <1>0, <1>2 DEF ApplyOwner
  <2> QED
    BY <1>1, <2>1, <2>2, <2>3
<1>3. ASSUME NEW o \in Owners, RemoveOwner(o), edits' \in 0..MaxEdits
      PROVE  TypeInv'
  BY <1>0, <1>1, <1>3 DEF RemoveOwner
<1>4. ASSUME NEW o \in Owners, DeleteOwnerForeground(o)
      PROVE  TypeInv'
  <2>1. edits' \in 0..MaxEdits
    BY <1>4, EditType DEF DeleteOwnerForeground
  <2> QED
    BY <1>0, <1>1, <1>4, <2>1 DEF DeleteOwnerForeground
<1> QED
  BY <1>0, <1>2, <1>3, <1>4, EditType DEF UserStep, DeleteOwner, CollectOwner

LEMMA DeliveryStepType ==
    ASSUME TypeInv, DeliveryStep
    PROVE  TypeInv'
<1>0. StoresOK /\ WorkersOK
  BY TypeParts
<1>1. WorkersOK'
  <2>1. UNCHANGED cur
    BY DEF DeliveryStep, DeliverOwner, DeliverRepo, DeliverKustomization, DeliverNamespace
  <2> QED
    BY <1>0, <2>1 DEF WorkersOK, WorkerOK, Busy
<1>2. ASSUME NEW o \in Owners, DeliverOwner(o)
      PROVE  StoresOK'
  BY <1>0, <1>2 DEF StoresOK, DeliverOwner, apiVars
<1>3. ASSUME NEW n \in FluxNames, DeliverRepo(n)
      PROVE  StoresOK'
  BY <1>0, <1>3 DEF StoresOK, DeliverRepo, apiVars
<1>4. ASSUME NEW n \in FluxNames, DeliverKustomization(n)
      PROVE  StoresOK'
  BY <1>0, <1>4 DEF StoresOK, DeliverKustomization, apiVars
<1>5. ASSUME NEW ns \in Namespaces, DeliverNamespace(ns)
      PROVE  StoresOK'
  BY <1>0, <1>5 DEF StoresOK, DeliverNamespace, apiVars
<1> QED
  BY <1>1, <1>2, <1>3, <1>4, <1>5, TypeJoin DEF DeliveryStep

\* What a reconcile does after a call.
LEMMA ContinueWorker ==
    ASSUME TypeInv, NEW k \in Kinds, NEW ok \in BOOLEAN,
           NEW pc \in CreateSteps \cup DeleteSteps, Continue(k, ok, pc),
           cur[k].pc # "idle", pc \in CreateSteps => cur[k].pc \in CreateSteps
    PROVE  /\ WorkersOK'
           /\ \A j \in Kinds \ {k} : cur'[j] = cur[j]
           /\ cur'[k].pc = (IF ok THEN pc ELSE "fail")
           /\ cur'[k].owner = cur[k].owner /\ cur'[k].spec = cur[k].spec
           /\ cur'[k].fresh = cur[k].fresh
           /\ UNCHANGED queue
<1>1. cur[k].pc \in CreateSteps => cur[k].spec \in Specs
  BY DEF TypeInv, WorkerOK
<1>2. "fail" \notin CreateSteps
  BY DEF CreateSteps
<1>3. GoTo(k, IF ok THEN pc ELSE "fail") /\ UNCHANGED queue
  BY DEF Continue
<1> QED
  BY <1>1, <1>2, <1>3, GoToWorker

LEMMA WriteStatusType ==
    ASSUME TypeInv, NEW o \in Owners, NEW isReady \in BOOLEAN, NEW fresh \in BOOLEAN,
           NEW ok \in BOOLEAN, WriteStatus(o, isReady, fresh, ok)
    PROVE  /\ ready' \subseteq Owners
           /\ ownerEvent' \in [Owners -> {"none", "status", "spec"}]
           /\ faults' \in 0..MaxFaults
<1>1. CASE fresh
  BY <1>1, AnsweredType DEF WriteStatus, TypeInv, TypeOK
<1>2. CASE ~fresh
  BY <1>2 DEF WriteStatus, TypeInv, TypeOK
<1> QED
  BY <1>1, <1>2

\* A reconcile goes on, ends, or fails; the other workers do not move.
WorkersStep(k) ==
    /\ WorkersOK' /\ queue' \subseteq Owners
    /\ \A j \in Kinds \ {k} : cur'[j] = cur[j]

LEMMA WorkerStepWorkers ==
    ASSUME TypeInv, NEW k \in Kinds, WorkerStep(k)
    PROVE  WorkersStep(k)
<1> USE DEF WorkersStep
<1>0. queue \subseteq Owners
  BY DEF TypeInv, TypeOK
<1>1. ASSUME NEW o \in Owners, Begin(k, o)
      PROVE  WorkersStep(k)
  BY <1>0, <1>1, BeginWorker DEF Begin
<1>2. ASSUME NEW ok \in BOOLEAN, EnsureNamespace(k, ok)
      PROVE  WorkersStep(k)
  <2>1. Continue(k, ok, "repo") /\ cur[k].pc = "namespace"
    BY <1>2 DEF EnsureNamespace
  <2> QED
    BY <1>0, <2>1, ContinueWorker DEF CreateSteps
<1>3. ASSUME NEW ok \in BOOLEAN, CreateFluxGitRepository(k, ok)
      PROVE  WorkersStep(k)
  <2>1. Continue(k, ok, "kustomization") /\ cur[k].pc = "repo"
    BY <1>3 DEF CreateFluxGitRepository
  <2> QED
    BY <1>0, <2>1, ContinueWorker DEF CreateSteps
<1>4. ASSUME NEW ok \in BOOLEAN, CreateFluxKustomization(k, ok)
      PROVE  WorkersStep(k)
  <2>1. Continue(k, ok, "report") /\ cur[k].pc = "kustomization"
    BY <1>4 DEF CreateFluxKustomization
  <2> QED
    BY <1>0, <2>1, ContinueWorker DEF CreateSteps
<1>5. ASSUME NEW ok \in BOOLEAN, DeleteFluxKustomization(k, ok)
      PROVE  WorkersStep(k)
  <2>1. Continue(k, ok, "deleteRepo") /\ cur[k].pc = "deleteKustomization"
    BY <1>5 DEF DeleteFluxKustomization
  <2> QED
    BY <1>0, <2>1, ContinueWorker DEF CreateSteps, DeleteSteps
<1>6. ASSUME NEW ok \in BOOLEAN, DeleteFluxGitRepository(k, ok)
      PROVE  WorkersStep(k)
  <2>0. cur[k].pc = "deleteRepo"
    BY <1>6 DEF DeleteFluxGitRepository
  <2>1. CASE Return(k, FALSE)
    BY <2>0, <2>1, ReturnWorker
  <2>2. CASE GoTo(k, "fail") /\ UNCHANGED queue
    BY <1>0, <2>0, <2>2, GoToWorker DEF CreateSteps
  <2> QED
    BY <1>6, <2>1, <2>2 DEF DeleteFluxGitRepository, Continue
<1>7. ASSUME NEW error \in BOOLEAN, Return(k, error), cur[k].pc \in {"report", "fail"}
      PROVE  WorkersStep(k)
  BY <1>7, ReturnWorker
<1>8. ASSUME NEW ok \in BOOLEAN, Report(k, ok)
      PROVE  WorkersStep(k)
  BY <1>7, <1>8 DEF Report
<1>9. CASE ManageFailure(k)
  BY <1>7, <1>9 DEF ManageFailure
<1>10. CASE CallFails(k)
  <2>0. cur[k].pc # "idle"
    BY <1>10 DEF CallFails, Busy
  <2>1. CASE Return(k, TRUE)
    BY <2>0, <2>1, ReturnWorker
  <2>2. CASE GoTo(k, "fail") /\ UNCHANGED queue
    BY <1>0, <2>0, <2>2, GoToWorker DEF CreateSteps
  <2> QED
    BY <1>10, <2>1, <2>2 DEF CallFails, Continue
<1> QED
  BY <1>1, <1>2, <1>3, <1>4, <1>5, <1>6, <1>8, <1>9, <1>10 DEF WorkerStep

LEMMA WorkerStepType ==
    ASSUME TypeInv, NEW k \in Kinds, WorkerStep(k)
    PROVE  TypeInv'
<1> DEFINE o == cur[k].owner
           n == FluxName(o)
<1>0. StoresOK /\ queue' \subseteq Owners /\ WorkersOK'
  BY TypeParts, WorkerStepWorkers DEF WorkersStep
<1>1. cur[k] \in Workers /\ (cur[k].pc # "idle" => o \in Owners)
  BY WorkerFacts
<1>2. o \in Owners => n \in FluxNames /\ TargetNamespace(o) \in Namespaces
  BY NameTypes
<1> USE DEF StoresOK, WorkerFrame, cacheVars
<1>3. ASSUME NEW p \in Owners, Begin(k, p)
      PROVE  StoresOK'
  BY <1>0, <1>3 DEF Begin, eventVars
<1>4. ASSUME NEW ok \in BOOLEAN, EnsureNamespace(k, ok)
      PROVE  StoresOK'
  <2>1. TargetNamespace(o) \in Namespaces
    BY <1>1, <1>2, <1>4 DEF EnsureNamespace
  <2>2. /\ namespaces' \subseteq Namespaces /\ namespaceEvents' \subseteq Namespaces
        /\ faults' \in 0..MaxFaults
    BY <1>0, <1>4, <2>1, AnsweredType DEF EnsureNamespace
  <2> QED
    BY <1>0, <1>4, <2>2 DEF EnsureNamespace
<1>5. ASSUME NEW ok \in BOOLEAN, CreateFluxGitRepository(k, ok)
      PROVE  StoresOK'
  <2>1. n \in FluxNames /\ cur[k].spec \in Specs \cup {None}
    BY <1>1, <1>2, <1>5 DEF CreateFluxGitRepository, Workers
  <2>2. /\ repos' \in [FluxNames -> Specs \cup {None}] /\ repoEvents' \subseteq FluxNames
        /\ faults' \in 0..MaxFaults
    BY <1>0, <1>5, <2>1, AnsweredType DEF CreateFluxGitRepository
  <2> QED
    BY <1>0, <1>5, <2>2 DEF CreateFluxGitRepository
<1>6. ASSUME NEW ok \in BOOLEAN, CreateFluxKustomization(k, ok)
      PROVE  StoresOK'
  <2> DEFINE obj == [spec |-> cur[k].spec, target |-> TargetNamespace(o)]
  <2>1. n \in FluxNames /\ obj \in Kustomizations
    <3>1. cur[k].spec \in Specs
      BY <1>6 DEF CreateFluxKustomization, TypeInv, WorkerOK, CreateSteps
    <3>2. o \in Owners
      BY <1>1, <1>6 DEF CreateFluxKustomization
    <3> QED
      BY <1>2, <3>1, <3>2 DEF Kustomizations
  <2>2. /\ kustomizations' \in [FluxNames -> Kustomizations \cup {None}]
        /\ kustomizationEvents' \subseteq FluxNames
        /\ faults' \in 0..MaxFaults
    <3>1. CASE Writable(n, kustomizations, cKustomizations, kustomizationEvents)
      <4>1. /\ kustomizations' = [kustomizations EXCEPT ![n] = obj]
            /\ kustomizationEvents' = IF kustomizations[n] # obj
                                      THEN kustomizationEvents \cup {n} ELSE kustomizationEvents
            /\ Answered(ok)
        BY <1>6, <3>1 DEF CreateFluxKustomization
      <4> HIDE DEF obj, n
      <4> QED
        BY <1>0, <2>1, <4>1, AnsweredType
    <3>2. CASE ~Writable(n, kustomizations, cKustomizations, kustomizationEvents)
      BY <1>0, <1>6, <3>2 DEF CreateFluxKustomization
    <3> QED
      BY <3>1, <3>2
  <2> QED
    BY <1>0, <1>6, <2>2 DEF CreateFluxKustomization
<1>7. ASSUME NEW ok \in BOOLEAN, DeleteFluxKustomization(k, ok)
      PROVE  StoresOK'
  <2>1. n \in FluxNames
    BY <1>1, <1>2, <1>7 DEF DeleteFluxKustomization
  <2>2. /\ kustomizations' \in [FluxNames -> Kustomizations \cup {None}]
        /\ kustomizationEvents' \subseteq FluxNames
        /\ faults' \in 0..MaxFaults
    BY <1>0, <1>7, <2>1, AnsweredType DEF DeleteFluxKustomization
  <2> QED
    BY <1>0, <1>7, <2>2 DEF DeleteFluxKustomization
<1>8. ASSUME NEW ok \in BOOLEAN, DeleteFluxGitRepository(k, ok)
      PROVE  StoresOK'
  <2>1. n \in FluxNames
    BY <1>1, <1>2, <1>8 DEF DeleteFluxGitRepository
  <2>2. /\ repos' \in [FluxNames -> Specs \cup {None}] /\ repoEvents' \subseteq FluxNames
        /\ faults' \in 0..MaxFaults
    BY <1>0, <1>8, <2>1, AnsweredType DEF DeleteFluxGitRepository
  <2> QED
    BY <1>0, <1>8, <2>2 DEF DeleteFluxGitRepository
<1>9. ASSUME NEW isReady \in BOOLEAN, NEW ok \in BOOLEAN, cur[k].pc # "idle",
             WriteStatus(o, isReady, cur[k].fresh, ok), WorkerFrame,
             UNCHANGED <<repos, kustomizations, namespaces, repoEvents, kustomizationEvents,
                         namespaceEvents>>
      PROVE  StoresOK'
  <2>1. /\ ready' \subseteq Owners
        /\ ownerEvent' \in [Owners -> {"none", "status", "spec"}]
        /\ faults' \in 0..MaxFaults
    BY <1>1, <1>9, WriteStatusType DEF Workers
  <2> QED
    BY <1>0, <1>9, <2>1
<1>10. ASSUME NEW ok \in BOOLEAN, Report(k, ok)
       PROVE  StoresOK'
  BY <1>9, <1>10 DEF Report
<1>11. CASE ManageFailure(k)
  BY <1>9, <1>11, TypeJoin, <1>0 DEF ManageFailure
<1>12. CASE CallFails(k)
  <2>1. faults' \in 0..MaxFaults
    BY <1>12, FaultType DEF CallFails
  <2> QED
    BY <1>0, <1>12, <2>1, TypeJoin DEF CallFails, eventVars
<1> QED
  BY <1>0, <1>3, <1>4, <1>5, <1>6, <1>7, <1>8, <1>10, <1>11, <1>12, TypeJoin DEF WorkerStep

LEMMA TypeStep == TypeInv /\ [Next]_vars => TypeInv'
<1> SUFFICES ASSUME TypeInv, [Next]_vars
             PROVE  TypeInv'
  OBVIOUS
<1>0. StoresOK /\ WorkersOK
  BY TypeParts
<1>1. CASE Restart
  <2>1. faults' \in 0..MaxFaults
    BY <1>1, FaultType DEF Restart
  <2>2. WorkersOK'
    BY <1>1, IdleWorkerType DEF Restart, WorkersOK, WorkerOK, Busy, CreateSteps
  <2>3. StoresOK'
    BY <1>0, <1>1, <2>1 DEF StoresOK, Restart, apiVars
  <2> QED
    BY <2>2, <2>3, TypeJoin
<1>2. CASE UNCHANGED vars
  BY <1>2 DEF TypeInv, TypeOK, WorkerOK, Busy, vars, apiVars, eventVars, cacheVars
<1> QED
  BY <1>1, <1>2, UserStepType, DeliveryStepType, WorkerStepType DEF Next

\* The type invariant of the controllers and their environment.
THEOREM TypeCorrect == Spec => []TypeOK
<1>1. Spec => []TypeInv
  BY TypeInit, TypeStep, PTL DEF Spec
<1>2. TypeInv => TypeOK
  BY DEF TypeInv
<1> QED
  BY <1>1, <1>2, PTL

(***************************************************************************)
(* What a step of a worker does.                                           *)
(***************************************************************************)

\* The Flux resources that worker k may write.
InHandOf(k, n) == Busy(k) /\ n = FluxName(cur[k].owner)

\* It writes the Flux resources and the status of its own owner, and takes
\* only owners of its kind from the queue.
WorkerEffect(k) ==
    /\ UNCHANGED <<spec, terminating, cSpec, cTerminating>>
    /\ \A p \in Owners :
          /\ ownerEvent'[p] = "spec" <=> ownerEvent[p] = "spec"
          /\ p # cur[k].owner => (p \in ready' <=> p \in ready)
          /\ p \in queue => p \in queue' \/ Begin(k, p)
    /\ \A n \in FluxNames :
          ~InHandOf(k, n) => repos'[n] = repos[n] /\ kustomizations'[n] = kustomizations[n]

LEMMA StatusEffect ==
    ASSUME TypeInv, NEW o \in Owners, NEW isReady \in BOOLEAN, NEW fresh \in BOOLEAN,
           NEW ok \in BOOLEAN, WriteStatus(o, isReady, fresh, ok)
    PROVE  \A p \in Owners :
              /\ ownerEvent'[p] = "spec" <=> ownerEvent[p] = "spec"
              /\ p # o => (p \in ready' <=> p \in ready)
<1>1. CASE fresh
  BY <1>1 DEF WriteStatus, TypeInv, TypeOK
<1>2. CASE ~fresh
  BY <1>2 DEF WriteStatus
<1> QED
  BY <1>1, <1>2

LEMMA WorkerStepEffect ==
    ASSUME TypeInv, NEW k \in Kinds, WorkerStep(k)
    PROVE  WorkerEffect(k)
<1> USE DEF WorkerEffect, WorkerFrame, cacheVars
<1>0. /\ cur[k] \in Workers
      /\ Busy(k) => cur[k].owner \in Owners
  BY WorkerFacts DEF Busy
<1>1. ASSUME NEW o \in Owners, Begin(k, o)
      PROVE  WorkerEffect(k)
  BY <1>1 DEF Begin, eventVars
<1>2. ASSUME NEW ok \in BOOLEAN, EnsureNamespace(k, ok)
      PROVE  WorkerEffect(k)
  BY <1>2 DEF EnsureNamespace, Continue
<1>3. ASSUME NEW ok \in BOOLEAN, CreateFluxGitRepository(k, ok)
      PROVE  WorkerEffect(k)
  <2>1. \A n \in FluxNames : ~InHandOf(k, n) => repos'[n] = repos[n]
    BY <1>3 DEF CreateFluxGitRepository, InHandOf, Busy, TypeInv, TypeOK
  <2> QED
    BY <1>3, <2>1 DEF CreateFluxGitRepository, Continue
<1>4. ASSUME NEW ok \in BOOLEAN, CreateFluxKustomization(k, ok)
      PROVE  WorkerEffect(k)
  <2>1. \A n \in FluxNames : ~InHandOf(k, n) => kustomizations'[n] = kustomizations[n]
    BY <1>4 DEF CreateFluxKustomization, InHandOf, Busy, TypeInv, TypeOK
  <2> QED
    BY <1>4, <2>1 DEF CreateFluxKustomization, Continue
<1>5. ASSUME NEW ok \in BOOLEAN, DeleteFluxKustomization(k, ok)
      PROVE  WorkerEffect(k)
  <2>1. \A n \in FluxNames : ~InHandOf(k, n) => kustomizations'[n] = kustomizations[n]
    BY <1>5 DEF DeleteFluxKustomization, InHandOf, Busy, TypeInv, TypeOK
  <2> QED
    BY <1>5, <2>1 DEF DeleteFluxKustomization, Continue
<1>6. ASSUME NEW ok \in BOOLEAN, DeleteFluxGitRepository(k, ok)
      PROVE  WorkerEffect(k)
  <2>1. \A n \in FluxNames : ~InHandOf(k, n) => repos'[n] = repos[n]
    BY <1>6 DEF DeleteFluxGitRepository, InHandOf, Busy, TypeInv, TypeOK
  <2>2. queue' = queue
    BY <1>6 DEF DeleteFluxGitRepository, Continue, Return
  <2> QED
    BY <1>6, <2>1, <2>2 DEF DeleteFluxGitRepository
<1>7. ASSUME NEW isReady \in BOOLEAN, NEW ok \in BOOLEAN, NEW error \in BOOLEAN, Busy(k),
             WriteStatus(cur[k].owner, isReady, cur[k].fresh, ok), Return(k, error), WorkerFrame,
             UNCHANGED <<repos, kustomizations>>
      PROVE  WorkerEffect(k)
  <2>1. cur[k].fresh \in BOOLEAN
    BY <1>0 DEF Workers
  <2> QED
    BY <1>0, <1>7, <2>1, StatusEffect DEF Return
<1>8. ASSUME NEW ok \in BOOLEAN, Report(k, ok)
      PROVE  WorkerEffect(k)
  BY <1>7, <1>8 DEF Report, Busy
<1>9. CASE ManageFailure(k)
  BY <1>7, <1>9 DEF ManageFailure, Busy
<1>10. CASE CallFails(k)
  BY <1>10 DEF CallFails, Continue, Return, eventVars
<1> QED
  BY <1>1, <1>2, <1>3, <1>4, <1>5, <1>6, <1>8, <1>9, <1>10 DEF WorkerStep

\* It goes on to its next step, or to the error path.
Advance(k) ==
    LET n == FluxName(cur[k].owner)
    IN  /\ Busy(k)
        /\ cur'[k].owner = cur[k].owner /\ cur'[k].spec = cur[k].spec
        /\ cur'[k].fresh = cur[k].fresh
        /\ UNCHANGED queue
        /\ \/ cur'[k].pc = "fail"
           \/ cur[k].pc = "namespace" /\ cur'[k].pc = "repo"
           \/ /\ cur[k].pc = "repo" /\ cur'[k].pc = "kustomization"
              /\ repos'[n] = cur[k].spec
           \/ /\ cur[k].pc = "kustomization" /\ cur'[k].pc = "report"
              /\ repos' = repos
              /\ kustomizations'[n] =
                     [spec |-> cur[k].spec, target |-> TargetNamespace(cur[k].owner)]
           \/ DeleteFluxKustomization(k, TRUE) /\ cur'[k].pc = "deleteRepo"

\* It returns, and its owner is back in the queue unless all went well.
Leave(k) ==
    /\ Busy(k) /\ cur'[k].pc = "idle" /\ cur'[k].owner = None
    /\ \/ cur[k].owner \in queue'
       \/ Report(k, TRUE)
       \/ DeleteFluxGitRepository(k, TRUE)

LEMMA WorkerOutcome ==
    ASSUME TypeInv, NEW k \in Kinds, WorkerStep(k)
    PROVE  (\E o \in Owners : Begin(k, o)) \/ Advance(k) \/ Leave(k)
<1> USE DEF Busy
<1>0. Busy(k) => cur[k].owner \in Owners /\ FluxName(cur[k].owner) \in FluxNames
  BY WorkerFacts, NameTypes
<1>1. ASSUME NEW ok \in BOOLEAN, EnsureNamespace(k, ok)
      PROVE  Advance(k)
  <2>1. Continue(k, ok, "repo") /\ cur[k].pc = "namespace"
    BY <1>1 DEF EnsureNamespace
  <2> QED
    BY <2>1, ContinueWorker DEF CreateSteps, Advance
<1>2. ASSUME NEW ok \in BOOLEAN, CreateFluxGitRepository(k, ok)
      PROVE  Advance(k)
  <2>1. Continue(k, ok, "kustomization") /\ cur[k].pc = "repo"
    BY <1>2 DEF CreateFluxGitRepository
  <2>2. ok => repos'[FluxName(cur[k].owner)] = cur[k].spec
    BY <1>0, <1>2, <2>1 DEF CreateFluxGitRepository, TypeInv, TypeOK
  <2> QED
    BY <2>1, <2>2, ContinueWorker DEF CreateSteps, Advance
<1>3. ASSUME NEW ok \in BOOLEAN, CreateFluxKustomization(k, ok)
      PROVE  Advance(k)
  <2>1. Continue(k, ok, "report") /\ cur[k].pc = "kustomization" /\ repos' = repos
    BY <1>3 DEF CreateFluxKustomization
  <2>2. ok => kustomizations'[FluxName(cur[k].owner)] =
                 [spec |-> cur[k].spec, target |-> TargetNamespace(cur[k].owner)]
    BY <1>0, <1>3, <2>1 DEF CreateFluxKustomization, TypeInv, TypeOK
  <2> QED
    BY <2>1, <2>2, ContinueWorker DEF CreateSteps, Advance
<1>4. ASSUME NEW ok \in BOOLEAN, DeleteFluxKustomization(k, ok)
      PROVE  Advance(k)
  <2>1. Continue(k, ok, "deleteRepo") /\ cur[k].pc = "deleteKustomization"
    BY <1>4 DEF DeleteFluxKustomization
  <2>2. CASE ok
    BY <1>4, <2>1, <2>2, ContinueWorker DEF CreateSteps, DeleteSteps, Advance
  <2>3. CASE ~ok
    BY <2>1, <2>3, ContinueWorker DEF CreateSteps, DeleteSteps, Advance
  <2> QED
    BY <2>2, <2>3
<1>5. ASSUME GoTo(k, "fail"), UNCHANGED queue, Busy(k)
      PROVE  Advance(k)
  BY <1>5, GoToWorker DEF CreateSteps, Advance
<1>6. ASSUME NEW ok \in BOOLEAN, DeleteFluxGitRepository(k, ok)
      PROVE  Advance(k) \/ Leave(k)
  <2>1. cur[k].pc = "deleteRepo"
    BY <1>6 DEF DeleteFluxGitRepository
  <2>2. CASE ok
    <3>1. Return(k, FALSE) /\ DeleteFluxGitRepository(k, TRUE)
      BY <1>6, <2>2 DEF DeleteFluxGitRepository
    <3> QED
      BY <2>1, <3>1, ReturnWorker DEF Leave
  <2>3. CASE ~ok
    BY <1>5, <1>6, <2>1, <2>3 DEF DeleteFluxGitRepository, Continue
  <2> QED
    BY <2>2, <2>3
<1>7. ASSUME Return(k, TRUE), Busy(k)
      PROVE  Leave(k)
  BY <1>7, ReturnWorker DEF Leave
<1>8. ASSUME NEW ok \in BOOLEAN, Report(k, ok)
      PROVE  Leave(k)
  <2>1. Busy(k) /\ Return(k, ~ok)
    BY <1>8 DEF Report
  <2>2. CASE ok
    BY <1>8, <2>1, <2>2, ReturnWorker DEF Leave
  <2>3. CASE ~ok
    BY <1>7, <2>1, <2>3
  <2> QED
    BY <2>2, <2>3
<1>9. CASE ManageFailure(k)
  BY <1>7, <1>9 DEF ManageFailure
<1>10. CASE CallFails(k)
  BY <1>5, <1>7, <1>10 DEF CallFails, Continue
<1> QED
  BY <1>1, <1>2, <1>3, <1>4, <1>6, <1>8, <1>9, <1>10 DEF WorkerStep


(***************************************************************************)
(* Mirroring.                                                              *)
(***************************************************************************)

\* The owners of the Flux resources never share a name.
NamesDiffer == \A o \in Owners, p \in Owners : FluxName(o) = FluxName(p) => o = p

\* A cached owner differs from the real one only while an event is undelivered
\* that will request its reconcile.
OwnerCoherent ==
    \A o \in Owners : ownerEvent[o] # "spec" =>
        cSpec[o] = spec[o] /\ (o \in cTerminating <=> o \in terminating)

\* A copy of the owner that the API server still accepts is of a live owner.
FreshOwner ==
    \A k \in Kinds : cur[k].pc \in CreateSteps /\ cur[k].fresh =>
        Alive(cur[k].owner) /\ cur[k].spec = spec[cur[k].owner]

\* A deletion goes on for a live owner only if that will be reconciled again.
DeletionInHand ==
    \A k \in Kinds :
        /\ cur[k].pc \in DeleteSteps
        /\ cur[k].owner \notin queue /\ ownerEvent[cur[k].owner] # "spec"
        => ~Alive(cur[k].owner)

\* What a worker has written is still there: it is the only one to write it.
Written ==
    \A k \in Kinds, o \in Owners :
        cur[k].owner = o =>
            /\ cur[k].pc \in {"kustomization", "report"} => repos[FluxName(o)] = cur[k].spec
            /\ cur[k].pc = "report" =>
                  kustomizations[FluxName(o)] =
                      [spec |-> cur[k].spec, target |-> TargetNamespace(o)]

MirrorInv ==
    OwnerCoherent /\ FreshOwner /\ DeletionInHand /\ Written /\ RestingOwnerMirrored

\* Another worker keeps its owner, and the Flux resources of it.
LEMMA OtherWorker ==
    ASSUME TypeInv, NamesDiffer, NEW k \in Kinds, WorkerStep(k), NEW j \in Kinds, j # k, Busy(j),
           NEW p, p = cur[j].owner, NEW n, n = FluxName(p)
    PROVE  /\ p \in Owners /\ (p \in queue => p \in queue')
           /\ repos'[n] = repos[n] /\ kustomizations'[n] = kustomizations[n]
<1>1. p \in Owners /\ p.kind = j
  BY WorkerFacts DEF Busy
<1>2. ~Begin(k, p)
  BY <1>1 DEF Begin
<1>3. ~InHandOf(k, n)
  BY <1>1, WorkerFacts DEF InHandOf, Busy, NamesDiffer
<1>4. n \in FluxNames
  BY <1>1, NameTypes
<1> QED
  BY <1>1, <1>2, <1>3, <1>4, WorkerStepEffect DEF WorkerEffect

\* A step of a user or of the garbage collector writes one owner.
OwnerWritten(o) ==
    /\ TouchOwner(o)
    /\ ownerEvent'[o] = "spec"
    /\ \A p \in Owners \ {o} :
          /\ spec'[p] = spec[p]
          /\ p \in terminating' <=> p \in terminating
          /\ p \in ready' <=> p \in ready
          /\ ownerEvent'[p] = ownerEvent[p]

OwnerStep == UserStep \/ \E o \in Owners : CollectOwner(o)

LEMMA OwnerStepWrites ==
    ASSUME TypeInv, OwnerStep
    PROVE  \E o \in Owners : OwnerWritten(o)
<1>1. ASSUME NEW o \in Owners, NEW s \in Specs, ApplyOwner(o, s)
      PROVE  OwnerWritten(o)
  BY <1>1 DEF ApplyOwner, OwnerWritten, TouchOwner, TypeInv, TypeOK
<1>2. ASSUME NEW o \in Owners, RemoveOwner(o)
      PROVE  OwnerWritten(o)
  BY <1>2 DEF RemoveOwner, OwnerWritten, TouchOwner, TypeInv, TypeOK
<1>3. ASSUME NEW o \in Owners, DeleteOwnerForeground(o)
      PROVE  OwnerWritten(o)
  BY <1>3 DEF DeleteOwnerForeground, OwnerWritten, TouchOwner, TypeInv, TypeOK
<1> QED
  BY <1>1, <1>2, <1>3 DEF OwnerStep, UserStep, DeleteOwner, CollectOwner

\* A delivery informs the controllers of one owner, or changes nothing that
\* they decide on.
LEMMA DeliveryKinds ==
    ASSUME DeliveryStep
    PROVE  /\ UNCHANGED <<apiVars, cur>>
           /\ \/ \E o \in Owners : DeliverOwner(o)
              \/ UNCHANGED <<ownerEvent, cSpec, cTerminating, queue>>
  BY DEF DeliveryStep, DeliverOwner, DeliverRepo, DeliverKustomization, DeliverNamespace

LEMMA OwnerCoherentStep ==
    ASSUME TypeInv, OwnerCoherent, [Next]_vars
    PROVE  OwnerCoherent'
<1> USE DEF OwnerCoherent
<1>1. CASE OwnerStep
  <2>1. PICK o \in Owners : OwnerWritten(o)
    BY <1>1, OwnerStepWrites
  <2> QED
    BY <2>1 DEF OwnerWritten, TouchOwner, cacheVars
<1>2. ASSUME NEW o \in Owners, DeliverOwner(o)
      PROVE  OwnerCoherent'
  BY <1>2 DEF DeliverOwner, apiVars, TypeInv, TypeOK
<1>3. CASE DeliveryStep
  BY <1>2, <1>3, DeliveryKinds DEF apiVars
<1>4. ASSUME NEW k \in Kinds, WorkerStep(k)
      PROVE  OwnerCoherent'
  BY <1>4, WorkerStepEffect DEF WorkerEffect
<1>5. CASE Restart
  BY <1>5 DEF Restart, apiVars
<1>6. CASE UNCHANGED vars
  BY <1>6 DEF vars, apiVars, eventVars, cacheVars
<1> QED
  BY <1>1, <1>3, <1>4, <1>5, <1>6 DEF Next, OwnerStep

\* What Begin takes up is what the cache has of the owner.
LEMMA BeginCoherent ==
    ASSUME TypeInv, OwnerCoherent, NEW k \in Kinds, NEW o \in Owners, Begin(k, o)
    PROVE  /\ cur'[k].owner = o
           /\ ~(cur'[k].pc \in {"kustomization", "report", "deleteRepo", "idle"})
           /\ cur'[k].pc \in CreateSteps /\ cur'[k].fresh => Alive(o) /\ cur'[k].spec = spec[o]
           /\ cur'[k].pc \in DeleteSteps /\ ownerEvent[o] # "spec" => ~Alive(o)
<1>1. ownerEvent[o] # "spec" => cSpec[o] = spec[o] /\ (o \in cTerminating <=> o \in terminating)
  BY DEF OwnerCoherent
<1>2. CASE Deleted(o)
  <2>1. cur'[k].owner = o /\ cur'[k].pc = "deleteKustomization"
    BY <1>2, BeginWorker
  <2> QED
    BY <1>1, <1>2, <2>1 DEF CreateSteps, Deleted, Alive
<1>3. CASE ~Deleted(o)
  <2>1. /\ cur'[k].owner = o /\ cur'[k].pc \in {"namespace", "repo"} /\ cur'[k].spec = cSpec[o]
        /\ cur'[k].fresh => ownerEvent[o] = "none"
    BY <1>3, BeginWorker
  <2> QED
    BY <1>1, <1>3, <2>1 DEF DeleteSteps, Deleted, Alive
<1> QED
  BY <1>2, <1>3

LEMMA FreshOwnerStep ==
    ASSUME TypeInv, OwnerCoherent, FreshOwner, [Next]_vars
    PROVE  FreshOwner'
<1> SUFFICES ASSUME NEW j \in Kinds, cur'[j].pc \in CreateSteps, cur'[j].fresh,
                    NEW p, p = cur'[j].owner
             PROVE  Alive(p)' /\ cur'[j].spec = spec'[p]
  BY DEF FreshOwner, Alive
<1>0. cur[j].pc \in CreateSteps => cur[j].owner \in Owners
  BY WorkerFacts DEF CreateSteps
<1>1. ASSUME cur[j].pc \in CreateSteps, cur[j].fresh,
             cur'[j].owner = cur[j].owner, cur'[j].spec = cur[j].spec,
             spec'[cur[j].owner] = spec[cur[j].owner],
             cur[j].owner \in terminating' <=> cur[j].owner \in terminating
      PROVE  Alive(p)' /\ cur'[j].spec = spec'[p]
  BY <1>1 DEF FreshOwner, Alive
<1>2. CASE OwnerStep
  <2>1. PICK o \in Owners : OwnerWritten(o)
    BY <1>2, OwnerStepWrites
  <2>2. /\ cur'[j].pc = cur[j].pc /\ cur'[j].owner = cur[j].owner /\ cur'[j].spec = cur[j].spec
        /\ cur[j].fresh /\ cur[j].owner # o
    BY <2>1, TouchOwnerType DEF OwnerWritten
  <2> QED
    BY <1>0, <1>1, <2>1, <2>2 DEF OwnerWritten
<1>3. CASE DeliveryStep
  BY <1>1, <1>3, DeliveryKinds DEF apiVars
<1>4. ASSUME NEW k \in Kinds, WorkerStep(k)
      PROVE  Alive(p)' /\ cur'[j].spec = spec'[p]
  <2>1. UNCHANGED <<spec, terminating>>
    BY <1>4, WorkerStepEffect DEF WorkerEffect
  <2>2. CASE j # k
    BY <1>1, <1>4, <2>1, <2>2, WorkerStepWorkers DEF WorkersStep
  <2>3. ASSUME j = k, NEW o \in Owners, Begin(k, o)
        PROVE  Alive(p)' /\ cur'[j].spec = spec'[p]
    BY <2>1, <2>3, BeginCoherent DEF Alive
  <2>4. CASE j = k /\ Advance(k)
    BY <1>1, <2>1, <2>4 DEF Advance, CreateSteps
  <2>5. CASE j = k /\ Leave(k)
    BY <2>5 DEF Leave, CreateSteps
  <2> QED
    BY <1>4, <2>2, <2>3, <2>4, <2>5, WorkerOutcome
<1>5. CASE Restart
  BY <1>5, IdleWorkerType DEF Restart, CreateSteps
<1>6. CASE UNCHANGED vars
  BY <1>1, <1>6 DEF vars, apiVars
<1> QED
  BY <1>2, <1>3, <1>4, <1>5, <1>6 DEF Next, OwnerStep

LEMMA DeletionInHandStep ==
    ASSUME TypeInv, OwnerCoherent, DeletionInHand, NamesDiffer, [Next]_vars
    PROVE  DeletionInHand'
<1> SUFFICES ASSUME NEW j \in Kinds, cur'[j].pc \in DeleteSteps,
                    NEW p, p = cur'[j].owner, p \notin queue', ownerEvent'[p] # "spec"
             PROVE  ~Alive(p)'
  BY DEF DeletionInHand, Alive
<1>0. cur[j].pc \in DeleteSteps => cur[j].owner \in Owners
  BY WorkerFacts DEF DeleteSteps
<1>1. ASSUME cur[j].pc \in DeleteSteps, cur'[j].owner = cur[j].owner,
             cur[j].owner \notin queue, ownerEvent[cur[j].owner] # "spec",
             spec'[cur[j].owner] = spec[cur[j].owner],
             cur[j].owner \in terminating' <=> cur[j].owner \in terminating
      PROVE  ~Alive(p)'
  BY <1>1 DEF DeletionInHand, Alive
<1>2. CASE OwnerStep
  <2>1. PICK o \in Owners : OwnerWritten(o)
    BY <1>2, OwnerStepWrites
  <2>2. cur'[j].pc = cur[j].pc /\ cur'[j].owner = cur[j].owner
    BY <2>1, TouchOwnerType DEF OwnerWritten
  <2>3. cur[j].owner # o /\ queue' = queue
    BY <2>1, <2>2 DEF OwnerWritten, TouchOwner
  <2> QED
    BY <1>0, <1>1, <2>1, <2>2, <2>3 DEF OwnerWritten
<1>3. CASE DeliveryStep
  <2>1. ASSUME NEW o \in Owners, DeliverOwner(o)
        PROVE  ~Alive(p)'
    BY <1>0, <1>1, <2>1 DEF DeliverOwner, apiVars, TypeInv, TypeOK
  <2>2. CASE UNCHANGED <<ownerEvent, queue>>
    BY <1>1, <1>3, <2>2, DeliveryKinds DEF apiVars
  <2> QED
    BY <1>3, <2>1, <2>2, DeliveryKinds
<1>4. ASSUME NEW k \in Kinds, WorkerStep(k)
      PROVE  ~Alive(p)'
  <2>1. /\ UNCHANGED <<spec, terminating>>
        /\ \A q \in Owners : ownerEvent'[q] = "spec" <=> ownerEvent[q] = "spec"
    BY <1>4, WorkerStepEffect DEF WorkerEffect
  <2>2. CASE j # k
    <3>1. cur'[j] = cur[j]
      BY <1>4, <2>2, WorkerStepWorkers DEF WorkersStep
    <3>2. Busy(j)
      BY <3>1 DEF Busy, DeleteSteps
    <3>3. cur[j].owner \in queue => cur[j].owner \in queue'
      BY <1>4, <2>2, <3>2, OtherWorker
    <3> QED
      BY <1>0, <1>1, <2>1, <3>1, <3>3
  <2>3. ASSUME j = k, NEW o \in Owners, Begin(k, o)
        PROVE  ~Alive(p)'
    BY <2>1, <2>3, BeginCoherent DEF Alive
  <2>4. CASE j = k /\ Advance(k)
    <3>1. cur[j].pc \in DeleteSteps
      BY <2>4 DEF Advance, DeleteSteps, DeleteFluxKustomization
    <3> QED
      BY <1>0, <1>1, <2>1, <2>4, <3>1 DEF Advance
  <2>5. CASE j = k /\ Leave(k)
    BY <2>5 DEF Leave, DeleteSteps
  <2> QED
    BY <1>4, <2>2, <2>3, <2>4, <2>5, WorkerOutcome
<1>5. CASE Restart
  BY <1>5, IdleWorkerType DEF Restart, DeleteSteps
<1>6. CASE UNCHANGED vars
  BY <1>1, <1>6 DEF vars, apiVars, eventVars
<1> QED
  BY <1>2, <1>3, <1>4, <1>5, <1>6 DEF Next, OwnerStep

LEMMA WrittenStep ==
    ASSUME TypeInv, NamesDiffer, Written, [Next]_vars
    PROVE  Written'
<1> SUFFICES ASSUME NEW j \in Kinds, NEW p \in Owners, p = cur'[j].owner,
                    cur'[j].pc \in {"kustomization", "report"},
                    NEW n, n = FluxName(p), NEW s, s = cur'[j].spec
             PROVE  /\ repos'[n] = s
                    /\ cur'[j].pc = "report" =>
                          kustomizations'[n] = [spec |-> s, target |-> TargetNamespace(p)]
  BY DEF Written
<1>1. ASSUME cur'[j].pc = cur[j].pc, cur'[j].owner = cur[j].owner, cur'[j].spec = cur[j].spec,
             repos'[n] = repos[n], kustomizations'[n] = kustomizations[n]
      PROVE  /\ repos'[n] = s
             /\ cur'[j].pc = "report" =>
                   kustomizations'[n] = [spec |-> s, target |-> TargetNamespace(p)]
  BY <1>1 DEF Written
<1>2. CASE OwnerStep
  <2>1. PICK o \in Owners : OwnerWritten(o)
    BY <1>2, OwnerStepWrites
  <2> QED
    BY <1>1, <2>1, TouchOwnerType DEF OwnerWritten, TouchOwner
<1>3. CASE DeliveryStep
  BY <1>1, <1>3, DeliveryKinds DEF apiVars
<1>4. ASSUME NEW k \in Kinds, WorkerStep(k)
      PROVE  /\ repos'[n] = s
             /\ cur'[j].pc = "report" =>
                   kustomizations'[n] = [spec |-> s, target |-> TargetNamespace(p)]
  <2>1. CASE j # k
    <3>1. cur'[j] = cur[j]
      BY <1>4, <2>1, WorkerStepWorkers DEF WorkersStep
    <3> QED
      BY <1>1, <1>4, <2>1, <3>1, OtherWorker DEF Busy
  <2>2. ASSUME j = k, NEW o \in Owners, Begin(k, o)
        PROVE  FALSE
    BY <2>2, BeginWorker
  <2>3. CASE j = k /\ Advance(k)
    <3>1. p = cur[k].owner /\ s = cur[k].spec
      BY <2>3 DEF Advance
    <3>2. CASE cur'[k].pc = "kustomization"
      BY <2>3, <3>1, <3>2 DEF Advance
    <3>3. CASE cur'[k].pc = "report"
      <4>1. /\ cur[k].pc = "kustomization" /\ repos' = repos
            /\ kustomizations'[n] = [spec |-> s, target |-> TargetNamespace(p)]
        BY <2>3, <3>1, <3>3 DEF Advance
      <4> QED
        BY <3>1, <4>1 DEF Written
    <3> QED
      BY <2>3, <3>2, <3>3
  <2>4. CASE j = k /\ Leave(k)
    BY <2>4 DEF Leave
  <2> QED
    BY <1>4, <2>1, <2>2, <2>3, <2>4, WorkerOutcome
<1>5. CASE Restart
  BY <1>5, IdleWorkerType DEF Restart
<1>6. CASE UNCHANGED vars
  BY <1>1, <1>6 DEF vars, apiVars
<1> QED
  BY <1>2, <1>3, <1>4, <1>5, <1>6 DEF Next, OwnerStep

\* An owner that no reconcile is running for keeps its Flux resources.
LEMMA FluxKept ==
    ASSUME TypeInv, NamesDiffer, [Next]_vars, NEW o \in Owners, \A k \in Kinds : cur[k].owner # o
    PROVE  /\ repos'[FluxName(o)] = repos[FluxName(o)]
           /\ kustomizations'[FluxName(o)] = kustomizations[FluxName(o)]
<1>1. CASE OwnerStep
  <2>1. PICK p \in Owners : OwnerWritten(p)
    BY <1>1, OwnerStepWrites
  <2> QED
    BY <2>1 DEF OwnerWritten, TouchOwner
<1>2. CASE DeliveryStep
  BY <1>2, DeliveryKinds DEF apiVars
<1>3. ASSUME NEW k \in Kinds, WorkerStep(k)
      PROVE  /\ repos'[FluxName(o)] = repos[FluxName(o)]
             /\ kustomizations'[FluxName(o)] = kustomizations[FluxName(o)]
  <2>1. ~InHandOf(k, FluxName(o))
    BY WorkerFacts DEF InHandOf, Busy, NamesDiffer
  <2> QED
    BY <1>3, <2>1, NameTypes, WorkerStepEffect DEF WorkerEffect
<1>4. CASE Restart \/ UNCHANGED vars
  BY <1>4 DEF Restart, vars, apiVars
<1> QED
  BY <1>1, <1>2, <1>3, <1>4 DEF Next, OwnerStep

\* Only the end of its reconcile, or a restart, makes an owner calm that was not.
LEMMA CalmKept ==
    ASSUME TypeInv, [Next]_vars, ~Restart, NEW o \in Owners, Calm(o)',
           \A k \in Kinds : cur[k].owner # o
    PROVE  /\ Calm(o)
           /\ spec'[o] = spec[o] /\ (o \in terminating' <=> o \in terminating)
           /\ o \in ready => o \in ready'
<1>0. o \notin queue' /\ ownerEvent'[o] # "spec" /\ \A k \in Kinds : cur'[k].owner # o
  BY DEF Calm
<1>1. CASE OwnerStep
  <2>1. PICK p \in Owners : OwnerWritten(p)
    BY <1>1, OwnerStepWrites
  <2> QED
    BY <1>0, <2>1 DEF OwnerWritten, TouchOwner, Calm
<1>2. CASE DeliveryStep
  <2>1. ASSUME NEW p \in Owners, DeliverOwner(p)
        PROVE  o \notin queue /\ ownerEvent[o] # "spec"
    BY <1>0, <2>1 DEF DeliverOwner, TypeInv, TypeOK
  <2>2. CASE UNCHANGED <<ownerEvent, queue>>
    BY <1>0, <1>2, <2>2, DeliveryKinds DEF apiVars, Calm
  <2> QED
    BY <1>2, <2>1, <2>2, DeliveryKinds DEF apiVars, Calm
<1>3. ASSUME NEW k \in Kinds, WorkerStep(k)
      PROVE  /\ Calm(o)
             /\ spec'[o] = spec[o] /\ (o \in terminating' <=> o \in terminating)
             /\ o \in ready => o \in ready'
  <2>1. ~Begin(k, o)
    BY <1>0, BeginWorker
  <2> QED
    BY <1>0, <1>3, <2>1, WorkerStepEffect DEF WorkerEffect, Calm
<1>4. CASE UNCHANGED vars
  BY <1>0, <1>4 DEF vars, apiVars, eventVars, Calm
<1> QED
  BY <1>1, <1>2, <1>3, <1>4 DEF Next, OwnerStep

\* A reconcile leaves its owner calm only when it ends well.
LEMMA CalmEnds ==
    ASSUME TypeInv, [Next]_vars, ~Restart, NEW o \in Owners, Calm(o)',
           NEW j \in Kinds, cur[j].owner = o
    PROVE  Report(j, TRUE) \/ DeleteFluxGitRepository(j, TRUE)
<1>0. o \notin queue' /\ cur'[j].owner # o
  BY DEF Calm
<1>1. ~OwnerStep
  BY <1>0, OwnerStepWrites, TouchOwnerType DEF OwnerWritten
<1>2. ~DeliveryStep /\ cur' # cur
  BY <1>0, DeliveryKinds
<1>3. PICK k \in Kinds : WorkerStep(k)
  BY <1>1, <1>2 DEF Next, OwnerStep, vars
<1>4. k = j
  BY <1>0, <1>3, WorkerStepWorkers DEF WorkersStep
<1>5. ASSUME NEW p \in Owners
      PROVE  ~Begin(j, p)
  BY WorkerFacts, ConstantsAssumption DEF Begin, TypeInv, WorkerOK, Busy
<1> QED
  BY <1>0, <1>3, <1>4, <1>5, WorkerOutcome DEF Advance, Leave

LEMMA RestingOwnerStep ==
    ASSUME TypeInv, NamesDiffer, MirrorInv, [Next]_vars
    PROVE  RestingOwnerMirrored'
<1> SUFFICES ASSUME NEW o \in Owners, Calm(o)', Alive(o)'
             PROVE  o \in ready' /\ Mirrored(o)'
  BY DEF RestingOwnerMirrored
<1>1. ~Restart
  BY DEF Restart, Calm, Alive, apiVars
<1>2. CASE \A k \in Kinds : cur[k].owner # o
  <2>1. Calm(o) /\ Alive(o) /\ spec'[o] = spec[o] /\ (o \in ready => o \in ready')
    BY <1>1, <1>2, CalmKept DEF Alive
  <2>2. o \in ready /\ Mirrored(o)
    BY <2>1 DEF MirrorInv, RestingOwnerMirrored
  <2>3. /\ repos'[FluxName(o)] = repos[FluxName(o)]
        /\ kustomizations'[FluxName(o)] = kustomizations[FluxName(o)]
    BY <1>2, FluxKept
  <2> QED
    BY <2>1, <2>2, <2>3 DEF Mirrored
<1>3. ASSUME NEW k \in Kinds, cur[k].owner = o
      PROVE  o \in ready' /\ Mirrored(o)'
  <2>1. CASE Report(k, TRUE)
    <3>1. /\ cur[k].pc = "report" /\ cur[k].fresh /\ o \in ready'
          /\ UNCHANGED <<spec, repos, kustomizations>>
      BY <1>3, <2>1 DEF Report, WriteStatus, WorkerFrame
    <3>2. cur[k].spec = spec[o]
      BY <1>3, <3>1 DEF MirrorInv, FreshOwner, CreateSteps
    <3>3. /\ repos[FluxName(o)] = spec[o]
          /\ kustomizations[FluxName(o)] = [spec |-> spec[o], target |-> TargetNamespace(o)]
      BY <1>3, <3>1, <3>2 DEF MirrorInv, Written
    <3> QED
      BY <3>1, <3>3 DEF Mirrored
  <2>2. CASE DeleteFluxGitRepository(k, TRUE)
    <3>1. /\ cur[k].pc = "deleteRepo"
          /\ UNCHANGED <<spec, terminating, queue, ownerEvent>>
      BY <2>2 DEF DeleteFluxGitRepository, Return, WorkerFrame
    <3>2. ~Alive(o)
      BY <1>3, <3>1 DEF MirrorInv, DeletionInHand, DeleteSteps, Calm
    <3> QED
      BY <3>1, <3>2 DEF Alive
  <2> QED
    BY <1>1, <1>3, <2>1, <2>2, CalmEnds
<1> QED
  BY <1>2, <1>3

LEMMA MirrorInvInit == Init => MirrorInv
<1> SUFFICES ASSUME Init PROVE MirrorInv
  OBVIOUS
<1>1. \A k \in Kinds : cur[k].pc = "idle"
  BY IdleWorkerType DEF Init
<1>2. OwnerCoherent
  BY DEF Init, OwnerCoherent
<1>3. FreshOwner /\ DeletionInHand /\ Written
  BY <1>1 DEF FreshOwner, DeletionInHand, Written, CreateSteps, DeleteSteps
<1>4. RestingOwnerMirrored
  BY DEF Init, RestingOwnerMirrored, Calm, Alive
<1> QED
  BY <1>2, <1>3, <1>4 DEF MirrorInv

LEMMA MirrorInvariant == NamesDiffer => (Spec => [](TypeInv /\ MirrorInv))
<1> SUFFICES ASSUME NamesDiffer
             PROVE  Spec => [](TypeInv /\ MirrorInv)
  OBVIOUS
<1>1. Init => TypeInv /\ MirrorInv
  BY TypeInit, MirrorInvInit
<1>2. TypeInv /\ MirrorInv /\ [Next]_vars => (TypeInv /\ MirrorInv)'
  <2> SUFFICES ASSUME TypeInv, MirrorInv, [Next]_vars
               PROVE  TypeInv' /\ MirrorInv'
    OBVIOUS
  <2> QED
    BY TypeStep, OwnerCoherentStep, FreshOwnerStep, DeletionInHandStep, WrittenStep,
       RestingOwnerStep DEF MirrorInv
<1> QED
  BY <1>1, <1>2, PTL DEF Spec

\* The controllers are level-triggered: an owner that no reconcile is running for and
\* nothing will trigger one for is Ready, and its Flux resources are those of its spec,
\* whatever calls failed or took effect unnoticed, however stale the caches were, and
\* wherever the controllers restarted.  Two owners with one name would overwrite each
\* other's Flux resources: that the names differ is a hypothesis.
THEOREM OwnersMirrored == NamesDiffer => (Spec => []RestingOwnerMirrored)
<1> SUFFICES ASSUME NamesDiffer
             PROVE  Spec => []RestingOwnerMirrored
  OBVIOUS
<1>1. TypeInv /\ MirrorInv => RestingOwnerMirrored
  BY DEF MirrorInv
<1> QED
  BY <1>1, MirrorInvariant, PTL

(***************************************************************************)
(* Cleaning up, when the caches show the controllers' own writes.          *)
(***************************************************************************)

\* A cached Flux resource differs from the real one only while its event is
\* undelivered.
FluxCoherent ==
    \A n \in FluxNames :
        /\ n \notin repoEvents => cRepos[n] = repos[n]
        /\ n \notin kustomizationEvents => cKustomizations[n] = kustomizations[n]

\* The repository is deleted after the Kustomization.
Withdrawn ==
    \A k \in Kinds, o \in Owners :
        cur[k].owner = o /\ cur[k].pc = "deleteRepo" => kustomizations[FluxName(o)] = None

CleanInv == MirrorInv /\ FluxCoherent /\ Withdrawn /\ KustomizationHasRepo

LEMMA FluxCoherentStep ==
    ASSUME TypeInv, FluxCoherent, [Next]_vars
    PROVE  FluxCoherent'
<1> USE DEF FluxCoherent, TypeInv, TypeOK
<1>1. CASE OwnerStep
  <2>1. PICK o \in Owners : OwnerWritten(o)
    BY <1>1, OwnerStepWrites
  <2> QED
    BY <2>1 DEF OwnerWritten, TouchOwner, cacheVars
<1>2. CASE DeliveryStep
  BY <1>2
  DEF DeliveryStep, DeliverOwner, DeliverRepo, DeliverKustomization, DeliverNamespace, apiVars
<1>3. ASSUME NEW k \in Kinds, WorkerStep(k)
      PROVE  FluxCoherent'
  <2> USE DEF WorkerFrame, cacheVars
  <2>1. ASSUME NEW ok \in BOOLEAN, CreateFluxGitRepository(k, ok)
        PROVE  FluxCoherent'
    <3>1. \A n \in FluxNames : n \notin repoEvents' => n \notin repoEvents /\ repos'[n] = repos[n]
      BY <2>1 DEF CreateFluxGitRepository
    <3> QED
      BY <2>1, <3>1 DEF CreateFluxGitRepository
  <2>2. ASSUME NEW ok \in BOOLEAN, CreateFluxKustomization(k, ok)
        PROVE  FluxCoherent'
    <3>1. \A n \in FluxNames :
             n \notin kustomizationEvents' =>
                 n \notin kustomizationEvents /\ kustomizations'[n] = kustomizations[n]
      BY <2>2 DEF CreateFluxKustomization
    <3> QED
      BY <2>2, <3>1 DEF CreateFluxKustomization
  <2>3. ASSUME NEW ok \in BOOLEAN, DeleteFluxKustomization(k, ok)
        PROVE  FluxCoherent'
    BY <2>3 DEF DeleteFluxKustomization
  <2>4. ASSUME NEW ok \in BOOLEAN, DeleteFluxGitRepository(k, ok)
        PROVE  FluxCoherent'
    BY <2>4 DEF DeleteFluxGitRepository
  <2>5. CASE UNCHANGED <<repos, kustomizations, repoEvents, kustomizationEvents>> /\ WorkerFrame
    BY <2>5
  <2> QED
    BY <1>3, <2>1, <2>2, <2>3, <2>4, <2>5
    DEF WorkerStep, Begin, EnsureNamespace, Report, ManageFailure, CallFails, eventVars
<1>4. CASE Restart \/ UNCHANGED vars
  BY <1>4 DEF Restart, vars, apiVars, eventVars, cacheVars
<1> QED
  BY <1>1, <1>2, <1>3, <1>4 DEF Next, OwnerStep

\* With caches that show the controllers' own writes, what is deleted is gone.
LEMMA DeletedKustomization ==
    ASSUME TypeInv, FluxCoherent, "lag" \notin Adversity, NEW k \in Kinds, NEW o \in Owners,
           cur[k].owner = o, DeleteFluxKustomization(k, TRUE)
    PROVE  kustomizations'[FluxName(o)] = None
<1>1. FluxName(o) \notin kustomizationEvents
  BY DEF DeleteFluxKustomization, UpToDate
<1>2. cKustomizations[FluxName(o)] = kustomizations[FluxName(o)]
  BY <1>1, NameTypes DEF FluxCoherent
<1> QED
  BY <1>2, NameTypes DEF DeleteFluxKustomization, TypeInv, TypeOK

LEMMA DeletedRepo ==
    ASSUME TypeInv, FluxCoherent, "lag" \notin Adversity, NEW k \in Kinds, NEW o \in Owners,
           cur[k].owner = o, DeleteFluxGitRepository(k, TRUE)
    PROVE  repos'[FluxName(o)] = None
<1>1. FluxName(o) \notin repoEvents
  BY DEF DeleteFluxGitRepository, UpToDate
<1>2. cRepos[FluxName(o)] = repos[FluxName(o)]
  BY <1>1, NameTypes DEF FluxCoherent
<1> QED
  BY <1>2, NameTypes DEF DeleteFluxGitRepository, TypeInv, TypeOK

LEMMA WithdrawnStep ==
    ASSUME TypeInv, NamesDiffer, "lag" \notin Adversity, FluxCoherent, Withdrawn, [Next]_vars
    PROVE  Withdrawn'
<1> SUFFICES ASSUME NEW j \in Kinds, NEW o \in Owners, cur'[j].owner = o,
                    cur'[j].pc = "deleteRepo"
             PROVE  kustomizations'[FluxName(o)] = None
  BY DEF Withdrawn
<1>1. ASSUME cur[j].pc = "deleteRepo", cur[j].owner = o,
             kustomizations'[FluxName(o)] = kustomizations[FluxName(o)]
      PROVE  kustomizations'[FluxName(o)] = None
  BY <1>1 DEF Withdrawn
<1>2. CASE OwnerStep
  <2>1. PICK p \in Owners : OwnerWritten(p)
    BY <1>2, OwnerStepWrites
  <2> QED
    BY <1>1, <2>1, TouchOwnerType DEF OwnerWritten, TouchOwner
<1>3. CASE DeliveryStep
  BY <1>1, <1>3, DeliveryKinds DEF apiVars
<1>4. ASSUME NEW k \in Kinds, WorkerStep(k)
      PROVE  kustomizations'[FluxName(o)] = None
  <2>1. CASE j # k
    <3>1. cur'[j] = cur[j]
      BY <1>4, <2>1, WorkerStepWorkers DEF WorkersStep
    <3> QED
      BY <1>1, <1>4, <2>1, <3>1, OtherWorker DEF Busy
  <2>2. ASSUME j = k, NEW p \in Owners, Begin(k, p)
        PROVE  FALSE
    BY <2>2, BeginWorker
  <2>3. CASE j = k /\ Advance(k)
    BY <2>3, DeletedKustomization DEF Advance
  <2>4. CASE j = k /\ Leave(k)
    BY <2>4 DEF Leave
  <2> QED
    BY <1>4, <2>1, <2>2, <2>3, <2>4, WorkerOutcome
<1>5. CASE Restart
  BY <1>5, IdleWorkerType DEF Restart
<1>6. CASE UNCHANGED vars
  BY <1>1, <1>6 DEF vars, apiVars
<1> QED
  BY <1>2, <1>3, <1>4, <1>5, <1>6 DEF Next, OwnerStep

LEMMA KustomizationHasRepoStep ==
    ASSUME TypeInv, Written, Withdrawn, KustomizationHasRepo, [Next]_vars
    PROVE  KustomizationHasRepo'
<1> SUFFICES ASSUME NEW n \in FluxNames, kustomizations'[n] # None
             PROVE  repos'[n] # None
  BY DEF KustomizationHasRepo
<1>1. CASE repos'[n] = repos[n] /\ kustomizations'[n] = kustomizations[n]
  BY <1>1 DEF KustomizationHasRepo
<1>2. CASE OwnerStep
  <2>1. PICK p \in Owners : OwnerWritten(p)
    BY <1>2, OwnerStepWrites
  <2> QED
    BY <1>1, <2>1 DEF OwnerWritten, TouchOwner
<1>3. CASE DeliveryStep
  BY <1>1, <1>3, DeliveryKinds DEF apiVars
<1>4. ASSUME NEW k \in Kinds, WorkerStep(k)
      PROVE  repos'[n] # None
  <2>1. CASE ~InHandOf(k, n)
    BY <1>1, <1>4, <2>1, WorkerStepEffect DEF WorkerEffect
  <2>2. SUFFICES ASSUME Busy(k), NEW o \in Owners, cur[k].owner = o, n = FluxName(o)
                 PROVE  repos'[n] # None
    BY <2>1, WorkerFacts DEF InHandOf, Busy
  <2>3. CASE repos' = repos /\ (kustomizations'[n] # None => kustomizations[n] # None)
    BY <2>3 DEF KustomizationHasRepo
  <2>4. ASSUME NEW ok \in BOOLEAN, CreateFluxGitRepository(k, ok)
        PROVE  repos'[n] # None
    <3>1. cur[k].spec # None
      BY <2>4, ConstantsAssumption
      DEF CreateFluxGitRepository, TypeInv, WorkerOK, CreateSteps
    <3>2. CASE repos' = repos
      BY <2>3, <2>4, <3>2 DEF CreateFluxGitRepository
    <3>3. CASE repos' = [repos EXCEPT ![n] = cur[k].spec]
      BY <3>1, <3>3 DEF TypeInv, TypeOK
    <3> QED
      BY <2>2, <2>4, <3>2, <3>3 DEF CreateFluxGitRepository
  <2>5. ASSUME NEW ok \in BOOLEAN, CreateFluxKustomization(k, ok)
        PROVE  repos'[n] # None
    <3>1. cur[k].spec # None
      BY <2>5, ConstantsAssumption
      DEF CreateFluxKustomization, TypeInv, WorkerOK, CreateSteps
    <3>2. cur[k].pc = "kustomization" /\ repos' = repos
      BY <2>5 DEF CreateFluxKustomization
    <3> QED
      BY <2>2, <3>1, <3>2 DEF Written
  <2>6. ASSUME NEW ok \in BOOLEAN, DeleteFluxKustomization(k, ok)
        PROVE  repos'[n] # None
    BY <2>2, <2>3, <2>6 DEF DeleteFluxKustomization, TypeInv, TypeOK
  <2>7. ASSUME NEW ok \in BOOLEAN, DeleteFluxGitRepository(k, ok)
        PROVE  repos'[n] # None
    <3>1. cur[k].pc = "deleteRepo" /\ kustomizations' = kustomizations
      BY <2>7 DEF DeleteFluxGitRepository
    <3> QED
      BY <2>2, <3>1 DEF Withdrawn
  <2> QED
    BY <1>1, <1>4, <2>4, <2>5, <2>6, <2>7
    DEF WorkerStep, Begin, EnsureNamespace, Report, ManageFailure, CallFails
<1>5. CASE Restart \/ UNCHANGED vars
  BY <1>1, <1>5 DEF Restart, vars, apiVars
<1> QED
  BY <1>2, <1>3, <1>4, <1>5 DEF Next, OwnerStep

LEMMA CleanInvariant ==
    NamesDiffer /\ "lag" \notin Adversity => (Spec => [](TypeInv /\ CleanInv))
<1> SUFFICES ASSUME NamesDiffer, "lag" \notin Adversity
             PROVE  Spec => [](TypeInv /\ CleanInv)
  OBVIOUS
<1>1. Init => FluxCoherent /\ Withdrawn /\ KustomizationHasRepo
  BY IdleWorkerType DEF Init, FluxCoherent, Withdrawn, KustomizationHasRepo
<1>2. Init => TypeInv /\ CleanInv
  BY <1>1, TypeInit, MirrorInvInit DEF CleanInv
<1>3. TypeInv /\ CleanInv /\ [Next]_vars => (TypeInv /\ CleanInv)'
  <2> SUFFICES ASSUME TypeInv, CleanInv, [Next]_vars
               PROVE  TypeInv' /\ CleanInv'
    OBVIOUS
  <2>1. MirrorInv'
    BY OwnerCoherentStep, FreshOwnerStep, DeletionInHandStep, WrittenStep, RestingOwnerStep
    DEF CleanInv, MirrorInv
  <2>2. FluxCoherent' /\ Withdrawn' /\ KustomizationHasRepo'
    BY FluxCoherentStep, WithdrawnStep, KustomizationHasRepoStep DEF CleanInv, MirrorInv
  <2> QED
    BY <2>1, <2>2, TypeStep DEF CleanInv
<1> QED
  BY <1>2, <1>3, PTL DEF Spec

\* Flux never has a Kustomization to apply whose GitRepository does not exist: the
\* repository is written before and deleted after, also when a reconcile is cut off in
\* between.  It takes caches that show the controllers' own writes: with stale ones
\* the deletion of the Kustomization can be skipped as already done.
THEOREM RepoOutlivesKustomization ==
    NamesDiffer /\ "lag" \notin Adversity => (Spec => []KustomizationHasRepo)
<1> SUFFICES ASSUME NamesDiffer, "lag" \notin Adversity
             PROVE  Spec => []KustomizationHasRepo
  OBVIOUS
<1>1. TypeInv /\ CleanInv => KustomizationHasRepo
  BY DEF CleanInv
<1> QED
  BY <1>1, CleanInvariant, PTL

LEMMA DeletedOwnerStep ==
    ASSUME TypeInv, CleanInv, DeletedOwnerCleaned, NamesDiffer, Adversity = {}, [Next]_vars
    PROVE  DeletedOwnerCleaned'
<1> SUFFICES ASSUME NEW o \in Owners, Calm(o)', ~Alive(o)'
             PROVE  Cleaned(o)'
  BY DEF DeletedOwnerCleaned
<1>1. CASE Restart
  <2>1. ~DeletionUnhandled /\ UNCHANGED <<spec, terminating, repos, kustomizations>>
    BY <1>1 DEF Restart, apiVars
  <2>2. spec[o] = None
    BY <1>1, <2>1 DEF Restart, Calm
  <2>3. Calm(o) /\ ~Alive(o)
    BY <2>1, <2>2 DEF DeletionUnhandled, Calm, Alive
  <2> QED
    BY <2>1, <2>3 DEF DeletedOwnerCleaned, Cleaned
<1>2. CASE ~Restart /\ \A k \in Kinds : cur[k].owner # o
  <2>1. Calm(o) /\ ~Alive(o)
    BY <1>2, CalmKept DEF Alive
  <2> QED
    BY <1>2, <2>1, FluxKept DEF DeletedOwnerCleaned, Cleaned
<1>3. ASSUME ~Restart, NEW k \in Kinds, cur[k].owner = o
      PROVE  Cleaned(o)'
  <2>1. CASE Report(k, TRUE)
    <3>1. cur[k].pc = "report" /\ cur[k].fresh /\ UNCHANGED <<spec, terminating>>
      BY <2>1 DEF Report, WriteStatus, WorkerFrame
    <3>2. Alive(o)
      BY <1>3, <3>1 DEF CleanInv, MirrorInv, FreshOwner, CreateSteps
    <3> QED
      BY <3>1, <3>2 DEF Alive
  <2>2. CASE DeleteFluxGitRepository(k, TRUE)
    <3>1. cur[k].pc = "deleteRepo" /\ kustomizations' = kustomizations
      BY <2>2 DEF DeleteFluxGitRepository
    <3>2. kustomizations[FluxName(o)] = None
      BY <1>3, <3>1 DEF CleanInv, Withdrawn
    <3>3. repos'[FluxName(o)] = None
      BY <1>3, <2>2, DeletedRepo DEF CleanInv
    <3> QED
      BY <3>1, <3>2, <3>3 DEF Cleaned
  <2> QED
    BY <1>3, <2>1, <2>2, CalmEnds
<1> QED
  BY <1>1, <1>2, <1>3

\* A deleted owner that nothing is left to do for has left no Flux resource behind.
\* Two things can go wrong and are excluded: a deletion that happens while the
\* controllers are down is never seen, and a stale cache hides what is to be deleted.
THEOREM DeletedCleaned == NamesDiffer /\ Adversity = {} => (Spec => []DeletedOwnerCleaned)
<1> SUFFICES ASSUME NamesDiffer, Adversity = {}
             PROVE  Spec => []DeletedOwnerCleaned
  OBVIOUS
<1>1. Spec => [](TypeInv /\ CleanInv)
  BY CleanInvariant
<1>2. Init => DeletedOwnerCleaned
  BY NameTypes DEF Init, DeletedOwnerCleaned, Cleaned
<1>3. TypeInv /\ CleanInv /\ DeletedOwnerCleaned /\ [Next]_vars => DeletedOwnerCleaned'
  BY DeletedOwnerStep
<1> QED
  BY <1>1, <1>2, <1>3, PTL DEF Spec
=============================================================================

--------------------------- MODULE AssignmentProofs ---------------------------
(***************************************************************************)
(* Proofs about AssignmentController: its types, that an assignment's      *)
(* issue is its own, and that it follows AssignmentProtocol, for any       *)
(* assignments, templates and config and under every adversity.            *)
(***************************************************************************)
EXTENDS AssignmentController, SequenceTheorems, TLAPS

(***************************************************************************)
(* The inductive invariant.                                                *)
(***************************************************************************)
\* What the worker has read so far.
InHand ==
    /\ cur.pc # "idle" => cur.assignment \in Assignments
    /\ cur.pc \in {"target", "config", "templates", "package", "write"} => cur.type \in ClusterTypeSpecs
    /\ cur.pc \in {"config", "templates", "package", "write"} => cur.target \in Versions
    /\ cur.pc \in {"templates", "package", "write"} => cur.config \in ValidConfigs
    /\ cur.pc \in {"type", "target", "config", "templates"} => Len(cur.templates) < Len(Roles)
    /\ cur.pc \in {"package", "write"} => Len(cur.templates) = Len(Roles)
    /\ cur.pc \in {"fail", "failed"} => cur.message \in Messages

TypeInv == TypeOK /\ InHand

\* The issue of a status that a has, or had, was made for a.
Owns(s, a) == s.issue # 0 => s.issue \in DOMAIN issues /\ issues[s.issue].of = a

Owned ==
    /\ \A a \in Assignments : Owns(status[a], a) /\ Owns(cStatus[a], a)
    /\ cur.pc # "idle" => Owns(cur.status, cur.assignment)

\* The worker has reported that it rebuilds the package, and nobody else writes the status.
Reported == cur.pc # "idle" => status[cur.assignment].ready # "AssignmentPackageCreated"

Inv == TypeInv /\ Owned /\ Reported

(***************************************************************************)
(* Facts about the data.                                                   *)
(***************************************************************************)
LEMMA RoleFacts ==
    /\ Len(Roles) = 3 /\ DOMAIN Roles = 1..3
    /\ \A n \in 1..3 : Roles[n] \in RoleNames
    /\ \A r \in RoleNames : \E n \in 1..3 : Roles[n] = r
  BY DEF Roles, RoleNames

\* The specs of an input, by its kind.
LEMMA InputFacts ==
    /\ \A a \in Assignments : /\ ClusterTypeOf[a] \in Inputs
                              /\ InputSpecs(ClusterTypeOf[a]) = ClusterTypeSpecs \cup {None}
    /\ \A a \in Assignments : /\ TargetOf[a] \in Inputs
                              /\ InputSpecs(TargetOf[a]) = Versions \cup {None}
    /\ \A t \in TemplateNames : t \in Inputs /\ InputSpecs(t) = Versions \cup {None}
    /\ Config \in Inputs /\ InputSpecs(Config) = ConfigVersions
<1>1. \A a \in Assignments : ClusterTypeOf[a] \in ClusterTypeNames /\ TargetOf[a] \in TargetNames
  BY DEF ClusterTypeNames, TargetNames
<1> QED
  BY <1>1, NamesAssumption DEF Inputs, InputSpecs

LEMMA NewStatusType == NewStatus \in Statuses /\ NewStatus.issue = 0 /\ NewStatus.ready = "New"
  BY ConstantsAssumption DEF NewStatus, Statuses

LEMMA IdleType == IdleWorker \in Workers /\ IdleWorker.pc = "idle" /\ IdleWorker.templates = << >>
<1>1. << >> \in Seq(Versions)
  BY EmptySeq
<1> QED
  BY <1>1, NewStatusType DEF IdleWorker, Workers

\* An issue is edited: the others stay as they are.
LEMMA IssueEdited ==
    ASSUME issues \in Seq(Issues), NEW n \in DOMAIN issues, NEW e \in Issues,
           e.of = issues[n].of, issues' = [issues EXCEPT ![n] = e]
    PROVE  /\ issues' \in Seq(Issues) /\ Len(issues') = Len(issues) /\ DOMAIN issues' = DOMAIN issues
           /\ \A m \in DOMAIN issues : issues'[m].of = issues[m].of
<1>1. Len(issues) \in Nat /\ DOMAIN issues = 1..Len(issues) /\ issues \in [1..Len(issues) -> Issues]
  BY LenProperties
<1>2. issues' \in [1..Len(issues) -> Issues]
  BY <1>1
<1>3. issues' \in Seq(Issues)
  BY <1>1, <1>2, SeqDef
<1>4. Len(issues') \in Nat /\ DOMAIN issues' = 1..Len(issues')
  BY <1>3, LenProperties
<1>5. Len(issues') = Len(issues)
  BY <1>1, <1>2, <1>4
<1> QED
  BY <1>1, <1>2, <1>3, <1>5

LEMMA IssueMade ==
    ASSUME issues \in Seq(Issues), NEW e \in Issues, issues' = Append(issues, e)
    PROVE  /\ issues' \in Seq(Issues) /\ Len(issues') = Len(issues) + 1 /\ Len(issues) \in Nat
           /\ DOMAIN issues = 1..Len(issues) /\ DOMAIN issues' = 1..Len(issues')
           /\ \A m \in DOMAIN issues : issues'[m] = issues[m]
           /\ issues'[Len(issues')] = e
  BY AppendProperties, LenProperties

\* Issues that stay, or whose number grows, are owned as before.
LEMMA StillOwns ==
    ASSUME DOMAIN issues \subseteq DOMAIN issues',
           \A m \in DOMAIN issues : issues'[m].of = issues[m].of
    PROVE  \A s, a : Owns(s, a) => (s.issue # 0 => s.issue \in DOMAIN issues' /\ issues'[s.issue].of = a)
  BY DEF Owns

LEMMA EditType == ASSUME TypeOK, Edit PROVE edits' \in 0..MaxEdits
  BY ConstantsAssumption DEF TypeOK, Edit

LEMMA FaultType == ASSUME TypeOK, NEW kind, Fault(kind) PROVE faults' \in 0..MaxFaults
  BY ConstantsAssumption DEF TypeOK, Fault

\* A status update changes one status, or nothing.
LEMMA WriteStatusChange ==
    ASSUME TypeOK, NEW a \in Assignments, NEW s \in Statuses, NEW fresh, NEW ok \in BOOLEAN,
           WriteStatus(a, s, fresh, ok)
    PROVE  /\ status' \in [Assignments -> Statuses]
           /\ \A b \in Assignments : b # a => status'[b] = status[b]
           /\ status'[a] = IF ok THEN s ELSE status[a]
           /\ assignmentEvent' \in [Assignments -> {"none", "status", "spec"}]
           /\ faults' \in 0..MaxFaults
<1>1. CASE ok
  BY <1>1 DEF WriteStatus, TypeOK
<1>2. CASE ~ok
  BY <1>2, FaultType DEF WriteStatus, TypeOK
<1> QED
  BY <1>1, <1>2

\* The worker holds what it held, and knows only whether its copies are outdated.
SameWork ==
    /\ cur' \in Workers
    /\ cur'.pc = cur.pc /\ cur'.assignment = cur.assignment /\ cur'.status = cur.status
    /\ cur'.type = cur.type /\ cur'.target = cur.target /\ cur'.config = cur.config
    /\ cur'.templates = cur.templates /\ cur'.message = cur.message

LEMMA SameWorkFacts ==
    ASSUME TypeOK
    PROVE  /\ UNCHANGED cur => SameWork
           /\ \A b \in BOOLEAN : cur' = [cur EXCEPT !.fresh = FALSE, !.live = @ /\ b] => SameWork
           /\ cur' = [cur EXCEPT !.current = FALSE] => SameWork
<1>1. cur \in Workers
  BY DEF TypeOK
<1>2. ASSUME NEW b \in BOOLEAN, cur' = [cur EXCEPT !.fresh = FALSE, !.live = @ /\ b] PROVE SameWork
  <2>1. (cur.live /\ b) \in BOOLEAN
    OBVIOUS
  <2> QED
    BY <1>1, <1>2, <2>1 DEF SameWork, Workers
<1> QED
  BY <1>1, <1>2 DEF SameWork, Workers

\* Others create an assignment at most, whose status is new.
LEMMA SameWorkInv ==
    ASSUME Inv, SameWork, UNCHANGED issues,
           \A a \in Assignments : status'[a] \in {status[a], NewStatus},
           \A a \in Assignments : cStatus'[a] \in {cStatus[a], status[a]}
    PROVE  InHand' /\ Owned' /\ Reported'
<1>1. InHand'
  BY DEF Inv, TypeInv, InHand, SameWork
<1>2. \A s, a : Owns(s, a)' <=> Owns(s, a)
  BY DEF Owns
<1>3. Owned'
  <2>1. \A a \in Assignments : Owns(status'[a], a) /\ Owns(cStatus'[a], a)
    BY NewStatusType DEF Inv, Owned, Owns
  <2>2. cur'.pc # "idle" => Owns(cur'.status, cur'.assignment)
    BY DEF Inv, Owned, SameWork
  <2> QED
    BY <2>1, <2>2 DEF Owned, Owns
<1>4. Reported'
  BY NewStatusType DEF Inv, TypeInv, InHand, Reported, SameWork
<1> QED
  BY <1>1, <1>3, <1>4

LEMMA InvInit == Init => Inv
<1> SUFFICES ASSUME Init PROVE Inv
  OBVIOUS
<1>1. TypeOK
  <2>1. cur \in Workers /\ << >> \in Seq(Issues) /\ Len(<< >>) = 0
    BY IdleType, EmptySeq DEF Init
  <2>2. edits \in 0..MaxEdits /\ faults \in 0..MaxFaults /\ 0 <= MaxIssues
    BY ConstantsAssumption DEF Init
  <2> QED
    BY <2>1, <2>2, NewStatusType DEF Init, TypeOK
<1>2. cur.pc = "idle"
  BY IdleType DEF Init
<1>3. Owned
  BY <1>2, NewStatusType DEF Init, Owned, Owns
<1> QED
  BY <1>1, <1>2, <1>3 DEF Inv, TypeInv, InHand, Reported

(***************************************************************************)
(* Others.                                                                 *)
(***************************************************************************)
LEMMA TouchType ==
    ASSUME TypeOK, NEW a \in Assignments, NEW live \in BOOLEAN, TouchAssignment(a, live)
    PROVE  SameWork /\ assignmentEvent' \in [Assignments -> {"none", "status", "spec"}]
  BY SameWorkFacts DEF TouchAssignment, TypeOK

LEMMA RemoveAssignmentInv ==
    ASSUME Inv, NEW a \in Assignments, RemoveAssignment(a), edits' \in 0..MaxEdits
    PROVE  Inv'
<1>1. SameWork /\ assignmentEvent' \in [Assignments -> {"none", "status", "spec"}]
  BY TouchType DEF RemoveAssignment, Inv, TypeInv
<1>2. TypeOK'
  BY <1>1 DEF RemoveAssignment, OtherFrame, cacheVars, SameWork, Inv, TypeInv, TypeOK
<1> QED
  BY <1>1, <1>2, SameWorkInv DEF RemoveAssignment, OtherFrame, cacheVars, Inv, TypeInv

LEMMA RemovePackageInv ==
    ASSUME Inv, NEW a \in Assignments, RemovePackage(a), edits' \in 0..MaxEdits
    PROVE  Inv'
<1>1. SameWork
  BY SameWorkFacts DEF RemovePackage, Inv, TypeInv
<1>2. TypeOK'
  BY <1>1 DEF RemovePackage, OtherFrame, cacheVars, SameWork, Inv, TypeInv, TypeOK
<1> QED
  BY <1>1, <1>2, SameWorkInv DEF RemovePackage, OtherFrame, cacheVars, Inv, TypeInv

LEMMA OtherStepInv ==
    ASSUME Inv, UserStep \/ CreateGitOpsRepo \/ CollectorStep
    PROVE  Inv'
<1>t. TypeOK
  BY DEF Inv, TypeInv
<1>1. ASSUME NEW x \in Inputs, NEW v \in InputValues, EditInput(x, v) PROVE Inv'
  <2>1. SameWork
    BY <1>1, <1>t, SameWorkFacts DEF EditInput
  <2>2. DOMAIN inputs' = Inputs /\ \A y \in Inputs : inputs'[y] \in InputSpecs(y)
    BY <1>1 DEF EditInput, Inv, TypeInv, TypeOK
  <2>3. TypeOK'
    BY <1>1, <1>t, <2>1, <2>2, EditType DEF EditInput, OtherFrame, cacheVars, SameWork, TypeOK
  <2> QED
    BY <1>1, <2>1, <2>3, SameWorkInv DEF EditInput, OtherFrame, cacheVars, Inv, TypeInv
<1>2. ASSUME CreateGitOpsRepo PROVE Inv'
  <2>1. SameWork
    BY <1>2, <1>t, SameWorkFacts DEF CreateGitOpsRepo
  <2>2. TypeOK'
    BY <1>2, <1>t, <2>1 DEF CreateGitOpsRepo, OtherFrame, eventVars, cacheVars, TypeOK
  <2> QED
    BY <1>2, <2>1, <2>2, SameWorkInv DEF CreateGitOpsRepo, OtherFrame, cacheVars, Inv, TypeInv
<1>3. ASSUME NEW a \in Assignments, CreateAssignment(a) PROVE Inv'
  <2>1. SameWork /\ assignmentEvent' \in [Assignments -> {"none", "status", "spec"}]
    BY <1>3, <1>t, TouchType DEF CreateAssignment
  <2>2. TypeOK'
    BY <1>3, <1>t, <2>1, EditType, NewStatusType
       DEF CreateAssignment, OtherFrame, cacheVars, SameWork, TypeOK
  <2>3. \A b \in Assignments : status'[b] \in {status[b], NewStatus}
    BY <1>3, <1>t DEF CreateAssignment, TypeOK
  <2> QED
    BY <1>3, <2>1, <2>2, <2>3, SameWorkInv DEF CreateAssignment, OtherFrame, cacheVars, Inv, TypeInv
<1>4. ASSUME NEW a \in Assignments, DeleteAssignment(a) PROVE Inv'
  BY <1>4, <1>t, EditType, RemoveAssignmentInv DEF DeleteAssignment
<1>5. ASSUME NEW a \in Assignments, DeleteAssignmentForeground(a) PROVE Inv'
  <2>1. SameWork /\ assignmentEvent' \in [Assignments -> {"none", "status", "spec"}]
    BY <1>5, <1>t, TouchType DEF DeleteAssignmentForeground
  <2>2. TypeOK'
    BY <1>5, <1>t, <2>1, EditType DEF DeleteAssignmentForeground, OtherFrame, cacheVars, SameWork, TypeOK
  <2> QED
    BY <1>5, <2>1, <2>2, SameWorkInv DEF DeleteAssignmentForeground, OtherFrame, cacheVars, Inv, TypeInv
<1>6. ASSUME NEW a \in Assignments, UserDeletesPackage(a) PROVE Inv'
  BY <1>6, <1>t, EditType, RemovePackageInv DEF UserDeletesPackage
<1>7. ASSUME NEW a \in Assignments, CollectAssignment(a) PROVE Inv'
  BY <1>7, <1>t, RemoveAssignmentInv DEF CollectAssignment, TypeOK
<1>8. ASSUME NEW a \in Assignments, CollectPackage(a) PROVE Inv'
  BY <1>8, <1>t, RemovePackageInv DEF CollectPackage, TypeOK
<1> QED
  BY <1>1, <1>2, <1>3, <1>4, <1>5, <1>6, <1>7, <1>8 DEF UserStep, CollectorStep

LEMMA DeliveryStepInv ==
    ASSUME Inv, DeliveryStep
    PROVE  Inv'
<1>t. TypeOK
  BY DEF Inv, TypeInv
<1>1. SameWork
  BY <1>t, SameWorkFacts DEF DeliveryStep, DeliverAssignment, DeliverPackage, DeliverInput
<1>2. ASSUME NEW a \in Assignments, DeliverAssignment(a) PROVE Inv'
  <2>1. TypeOK'
    BY <1>2, <1>t DEF DeliverAssignment, apiVars, TypeOK
  <2>2. \A b \in Assignments : cStatus'[b] \in {cStatus[b], status[b]}
    BY <1>2, <1>t DEF DeliverAssignment, TypeOK
  <2> QED
    BY <1>1, <1>2, <2>1, <2>2, SameWorkInv DEF DeliverAssignment, apiVars, Inv, TypeInv
<1>3. ASSUME NEW a \in Assignments, DeliverPackage(a) PROVE Inv'
  <2>1. TypeOK'
    BY <1>3, <1>t DEF DeliverPackage, apiVars, TypeOK
  <2> QED
    BY <1>1, <1>3, <2>1, SameWorkInv DEF DeliverPackage, apiVars, Inv, TypeInv
<1>4. ASSUME NEW x \in Inputs, DeliverInput(x) PROVE Inv'
  <2>1. DOMAIN cInputs' = Inputs /\ \A y \in Inputs : cInputs'[y] \in InputSpecs(y)
    BY <1>4, <1>t DEF DeliverInput, TypeOK
  <2>2. queue' \subseteq Assignments
    BY <1>4, <1>t DEF DeliverInput, FindAssignments, Cached, TypeOK
  <2>3. TypeOK'
    BY <1>4, <1>t, <2>1, <2>2 DEF DeliverInput, apiVars, TypeOK
  <2> QED
    BY <1>1, <1>4, <2>3, SameWorkInv DEF DeliverInput, apiVars, Inv, TypeInv
<1> QED
  BY <1>2, <1>3, <1>4 DEF DeliveryStep

LEMMA RestartInv ==
    ASSUME Inv, Restart
    PROVE  Inv'
<1>t. TypeOK
  BY DEF Inv, TypeInv
<1>1. TypeOK' /\ cur'.pc = "idle"
  BY <1>t, FaultType, IdleType DEF Restart, apiVars, TypeOK
<1>2. Owned'
  BY <1>1 DEF Restart, apiVars, Inv, Owned, Owns
<1> QED
  BY <1>1, <1>2 DEF Inv, TypeInv, InHand, Reported

(***************************************************************************)
(* The worker reads.                                                       *)
(***************************************************************************)
\* The same assignment and the same status are in hand.
SameAssignment ==
    cur.pc # "idle" /\ cur'.pc # "idle" /\ cur'.assignment = cur.assignment /\ cur'.status = cur.status

LEMMA ReadStepInv ==
    ASSUME Inv, ReadOnly, cur' \in Workers, InHand', SameAssignment
    PROVE  Inv'
<1>1. TypeOK'
  BY DEF ReadOnly, WorkerFrame, NoPackageWrite, NoStatusWrite, cacheVars, Inv, TypeInv, TypeOK
<1>2. Owned' /\ Reported'
  BY DEF SameAssignment, ReadOnly, WorkerFrame, NoStatusWrite, cacheVars, Inv, Owned, Owns, Reported
<1> QED
  BY <1>1, <1>2 DEF Inv, TypeInv

LEMMA FailingFacts ==
    ASSUME TypeInv, cur.pc # "idle", NEW m \in Messages, cur' = Failing(m)
    PROVE  cur' \in Workers /\ InHand' /\ SameAssignment /\ cur'.pc = "fail"
<1>1. /\ cur' \in Workers /\ cur'.pc = "fail" /\ cur'.message = m /\ cur'.assignment = cur.assignment
      /\ cur'.status = cur.status
  BY DEF Failing, TypeInv, TypeOK, Workers
<1> QED
  BY <1>1 DEF SameAssignment, TypeInv, InHand

LEMMA ReadsInv ==
    ASSUME Inv, GetClusterType \/ GetDeploymentTarget \/ GetConfigData \/ GetManifests \/ GetPackage
    PROVE  Inv'
<1>t. TypeInv /\ TypeOK /\ cur \in Workers
  BY DEF Inv, TypeInv, TypeOK
<1>1. CASE GetClusterType
  <2> DEFINE v == cInputs[ClusterTypeOf[cur.assignment]]
  <2>1. cur.pc = "type" /\ cur.assignment \in Assignments /\ v \in ClusterTypeSpecs \cup {None} /\ ReadOnly
    BY <1>1, <1>t, InputFacts DEF GetClusterType, InHand, TypeInv, TypeOK
  <2>2. CASE v = None
    <3>1. cur' = Failing("no cluster type")
      BY <1>1, <2>2 DEF GetClusterType
    <3> QED
      BY <1>t, <2>1, <3>1, FailingFacts, ReadStepInv DEF Messages
  <2>3. CASE v # None
    <3>1. cur' = [cur EXCEPT !.pc = "target", !.type = v] /\ v \in ClusterTypeSpecs
      BY <1>1, <2>1, <2>3 DEF GetClusterType
    <3> HIDE DEF v
    <3>2. cur' \in Workers /\ InHand' /\ SameAssignment
      BY <1>t, <2>1, <3>1 DEF Workers, SameAssignment, InHand, TypeInv
    <3> QED
      BY <2>1, <3>2, ReadStepInv
  <2> QED
    BY <2>2, <2>3
<1>2. CASE GetDeploymentTarget
  <2> DEFINE v == cInputs[TargetOf[cur.assignment]]
  <2>1. cur.pc = "target" /\ cur.assignment \in Assignments /\ v \in Versions \cup {None} /\ ReadOnly
    BY <1>2, <1>t, InputFacts DEF GetDeploymentTarget, InHand, TypeInv, TypeOK
  <2>2. CASE v = None
    <3>1. cur' = Failing("no target")
      BY <1>2, <2>2 DEF GetDeploymentTarget
    <3> QED
      BY <1>t, <2>1, <3>1, FailingFacts, ReadStepInv DEF Messages
  <2>3. CASE v # None
    <3>1. cur' = [cur EXCEPT !.pc = "config", !.target = v] /\ v \in Versions
      BY <1>2, <2>1, <2>3 DEF GetDeploymentTarget
    <3> HIDE DEF v
    <3>2. cur' \in Workers /\ InHand' /\ SameAssignment
      BY <1>t, <2>1, <3>1 DEF Workers, SameAssignment, InHand, TypeInv
    <3> QED
      BY <2>1, <3>2, ReadStepInv
  <2> QED
    BY <2>2, <2>3
<1>3. CASE GetConfigData
  <2> DEFINE v == cInputs[Config]
  <2>1. cur.pc = "config" /\ cur.assignment \in Assignments /\ ReadOnly
    BY <1>3, <1>t DEF GetConfigData, InHand, TypeInv
  <2>2. CASE v \notin ValidConfigs
    <3>1. cur' = Failing("invalid config")
      BY <1>3, <2>2 DEF GetConfigData
    <3> QED
      BY <1>t, <2>1, <3>1, FailingFacts, ReadStepInv DEF Messages
  <2>3. CASE v \in ValidConfigs
    <3>1. cur' = [cur EXCEPT !.pc = "templates", !.config = v] /\ v \in ConfigVersions
      BY <1>3, <2>3, ConstantsAssumption DEF GetConfigData
    <3> HIDE DEF v
    <3>2. cur' \in Workers /\ InHand' /\ SameAssignment
      BY <1>t, <2>1, <2>3, <3>1 DEF Workers, SameAssignment, InHand, TypeInv
    <3> QED
      BY <2>1, <3>2, ReadStepInv
  <2> QED
    BY <2>2, <2>3
<1>4. CASE GetManifests
  <2> DEFINE n == Len(cur.templates) + 1
             v == cInputs[cur.type[Roles[n]]]
             pc == IF n = Len(Roles) THEN "package" ELSE "templates"
             more == Append(cur.templates, v)
  <2>1. cur.pc = "templates" /\ cur.assignment \in Assignments /\ ReadOnly
        /\ cur.templates \in Seq(Versions) /\ Len(cur.templates) \in Nat /\ n \in 1..3
    <3>1. /\ cur.pc = "templates" /\ cur.assignment \in Assignments /\ ReadOnly
          /\ cur.templates \in Seq(Versions) /\ Len(cur.templates) < Len(Roles)
      BY <1>4, <1>t DEF GetManifests, InHand, TypeInv, Workers
    <3> QED
      BY <3>1, RoleFacts, LenProperties
  <2>2. v \in Versions \cup {None}
    <3>1. cur.type \in [RoleNames -> TemplateNames] /\ Roles[n] \in RoleNames
      BY <1>t, <2>1, RoleFacts, ConstantsAssumption DEF InHand, TypeInv
    <3>2. cur.type[Roles[n]] \in TemplateNames
      BY <3>1
    <3> QED
      BY <1>t, <3>2, InputFacts DEF TypeOK
  <2>3. CASE v = None
    <3>1. cur' = Failing("no template")
      BY <1>4, <2>3 DEF GetManifests
    <3> QED
      BY <1>t, <2>1, <3>1, FailingFacts, ReadStepInv DEF Messages
  <2>4. CASE v # None
    <3>1. cur' = [cur EXCEPT !.pc = pc, !.templates = more]
      BY <1>4, <2>4 DEF GetManifests
    <3>2. more \in Seq(Versions) /\ Len(more) = n
      BY <2>1, <2>2, <2>4, AppendProperties
    <3>3. pc \in {"package", "templates"} /\ (pc = "package" => n = Len(Roles))
          /\ (pc = "templates" => n < Len(Roles))
      BY <2>1, RoleFacts
    <3> HIDE DEF v, n, pc, more
    <3>4. cur' \in Workers /\ InHand' /\ SameAssignment
      BY <1>t, <2>1, <3>1, <3>2, <3>3 DEF Workers, SameAssignment, InHand, TypeInv
    <3> QED
      BY <2>1, <3>4, ReadStepInv
  <2> QED
    BY <2>3, <2>4
<1>5. CASE GetPackage
  <2> DEFINE exists == cPackages[cur.assignment] # None
             current == cur.assignment \notin packageEvents
  <2>1. /\ cur.pc = "package" /\ ReadOnly
        /\ cur' = [cur EXCEPT !.pc = "write", !.exists = exists, !.current = current]
        /\ exists \in BOOLEAN /\ current \in BOOLEAN
    BY <1>5 DEF GetPackage
  <2> HIDE DEF exists, current
  <2>2. cur' \in Workers /\ InHand' /\ SameAssignment
    BY <1>t, <2>1 DEF Workers, SameAssignment, InHand, TypeInv
  <2> QED
    BY <2>1, <2>2, ReadStepInv
<1> QED
  BY <1>1, <1>2, <1>3, <1>4, <1>5

(***************************************************************************)
(* The worker writes.                                                      *)
(***************************************************************************)
\* A call of Reconcile is over.
LEMMA ReturnFacts ==
    ASSUME TypeInv, cur.pc # "idle", NEW again \in BOOLEAN, Return(again)
    PROVE  cur' \in Workers /\ cur'.pc = "idle" /\ queue' \subseteq Assignments
  BY IdleType DEF Return, TypeInv, TypeOK, InHand

\* Nothing is in hand any more, and all statuses are owned.
LEMMA OverInv ==
    ASSUME TypeOK', cur'.pc = "idle", \A a \in Assignments : Owns(status[a], a)' /\ Owns(cStatus[a], a)'
    PROVE  Inv'
  BY DEF Inv, TypeInv, InHand, Owned, Reported

LEMMA RenderedType ==
    ASSUME TypeInv, cur.pc = "write"
    PROVE  Rendered \in Packages
<1>1. /\ cur.templates \in Seq(Versions) /\ Len(cur.templates) = 3
      /\ cur.target \in Versions /\ cur.config \in ValidConfigs
  BY RoleFacts DEF TypeInv, TypeOK, InHand, Workers
<1>2. \A n \in 1..3 : cur.templates[n] \in Versions
  BY <1>1, ElementOfSeq
<1>3. ASSUME NEW r \in RoleNames
      PROVE  cur.templates[CHOOSE i \in DOMAIN Roles : Roles[i] = r] \in Versions
  <2>1. \E i \in DOMAIN Roles : Roles[i] = r
    BY RoleFacts
  <2>2. (CHOOSE i \in DOMAIN Roles : Roles[i] = r) \in 1..3
    BY <2>1, RoleFacts
  <2> QED
    BY <1>2, <2>2
<1> QED
  BY <1>1, <1>3 DEF Rendered, Packages

LEMMA WritePackageInv ==
    ASSUME Inv, NEW ok \in BOOLEAN, WritePackage(ok)
    PROVE  Inv'
<1>t. TypeInv /\ TypeOK /\ cur \in Workers
  BY DEF Inv, TypeInv, TypeOK
<1>1. cur.pc = "write" /\ cur.assignment \in Assignments /\ Rendered \in Packages
      /\ WorkerFrame /\ UNCHANGED <<status, assignmentEvent, issues, queue>>
  BY <1>t, RenderedType DEF WritePackage, InHand, TypeInv
<1>2. cur' \in Workers /\ InHand' /\ SameAssignment
  <2>1. CASE ok
    <3>1. cur' = [cur EXCEPT !.pc = "close", !.exists = FALSE, !.current = FALSE]
      BY <2>1 DEF WritePackage
    <3>2. /\ cur' \in Workers /\ cur'.pc = "close"
          /\ cur'.assignment = cur.assignment /\ cur'.status = cur.status
      BY <1>t, <3>1 DEF Workers
    <3> QED
      BY <1>1, <3>2 DEF SameAssignment, InHand
  <2>2. CASE ~ok
    <3>1. cur' = Failing("write failed")
      BY <2>2 DEF WritePackage
    <3> QED
      BY <1>1, <1>t, <3>1, FailingFacts DEF Messages
  <2> QED
    BY <2>1, <2>2
<1>3. /\ packages' \in [Assignments -> Packages \cup {None}] /\ orphans' \subseteq Assignments
      /\ packageEvents' \subseteq Assignments /\ faults' \in 0..MaxFaults
  <2>1. CASE ok
    BY <1>1, <1>t, <2>1 DEF WritePackage, TypeOK
  <2>2. CASE ~ok
    BY <1>1, <1>t, <2>2, FaultType DEF WritePackage, NoPackageWrite, TypeOK
  <2> QED
    BY <2>1, <2>2
<1>4. TypeOK'
  BY <1>1, <1>2, <1>3, <1>t DEF WorkerFrame, cacheVars, TypeOK
<1>5. Owned' /\ Reported'
  BY <1>1, <1>2 DEF SameAssignment, WorkerFrame, cacheVars, Inv, Owned, Owns, Reported
<1> QED
  BY <1>2, <1>4, <1>5 DEF Inv, TypeInv

\* Only the state or the message of an issue changes, or one is made.
LEMMA IssuesGrow ==
    ASSUME Inv, UNCHANGED <<status, cStatus>>,
           DOMAIN issues \subseteq DOMAIN issues',
           \A m \in DOMAIN issues : issues'[m].of = issues[m].of
    PROVE  /\ \A a \in Assignments : Owns(status[a], a)' /\ Owns(cStatus[a], a)'
           /\ cur.pc # "idle" => (cur.status.issue # 0 =>
                  cur.status.issue \in DOMAIN issues' /\ issues'[cur.status.issue].of = cur.assignment)
  BY StillOwns DEF Inv, Owned, Owns

LEMMA CloseIssueInv ==
    ASSUME Inv, NEW found \in BOOLEAN, CloseIssue(found)
    PROVE  Inv'
<1>t. TypeInv /\ TypeOK /\ cur \in Workers
  BY DEF Inv, TypeInv, TypeOK
<1>1. /\ cur.pc = "close" /\ cur.assignment \in Assignments /\ WorkerFrame /\ NoPackageWrite
      /\ UNCHANGED <<status, assignmentEvent>>
  BY <1>t DEF CloseIssue, InHand, TypeInv
<1>2. /\ issues' \in Seq(Issues) /\ Len(issues') <= MaxIssues /\ DOMAIN issues' = DOMAIN issues
      /\ \A m \in DOMAIN issues : issues'[m].of = issues[m].of
  <2>1. CASE UNCHANGED issues
    BY <1>t, <2>1 DEF TypeOK
  <2>2. CASE ~UNCHANGED issues
    <3> DEFINE n == cur.status.issue
               e == [issues[n] EXCEPT !.open = FALSE]
    <3>1. n # 0 /\ issues' = [issues EXCEPT ![n] = e]
      BY <2>2 DEF CloseIssue, Closed
    <3>2. n \in DOMAIN issues
      BY <1>1, <3>1 DEF Inv, Owned, Owns
    <3>3. issues[n] \in Issues
      BY <1>t, <3>2, ElementOfSeq, LenProperties DEF TypeOK
    <3>4. e \in Issues /\ e.of = issues[n].of
      BY <3>3 DEF Issues
    <3> HIDE DEF n, e
    <3> QED
      BY <1>t, <3>1, <3>2, <3>4, IssueEdited DEF TypeOK
  <2> QED
    BY <2>1, <2>2
<1>3. faults' \in 0..MaxFaults
  BY <1>t, FaultType DEF CloseIssue, TypeOK
<1>4. \A a \in Assignments : Owns(status[a], a)' /\ Owns(cStatus[a], a)'
  BY <1>1, <1>2, IssuesGrow DEF WorkerFrame, cacheVars
<1>5. CASE ~gitOpsRepo
  <2>1. cur' \in Workers /\ cur'.pc = "idle" /\ queue' \subseteq Assignments
    BY <1>1, <1>5, <1>t, ReturnFacts DEF CloseIssue
  <2>2. TypeOK'
    BY <1>1, <1>2, <1>3, <1>t, <2>1 DEF WorkerFrame, NoPackageWrite, cacheVars, TypeOK
  <2> QED
    BY <1>4, <2>1, <2>2, OverInv
<1>6. CASE gitOpsRepo
  <2>1. cur' = [cur EXCEPT !.pc = "ready", !.status = ReadyStatus] /\ UNCHANGED queue
    BY <1>6 DEF CloseIssue
  <2>2. ReadyStatus \in Statuses /\ ReadyStatus.issue = 0
    BY ConstantsAssumption DEF ReadyStatus, Statuses
  <2>3. /\ cur' \in Workers /\ cur'.pc = "ready" /\ cur'.assignment = cur.assignment
        /\ cur'.status = ReadyStatus
    BY <1>t, <2>1, <2>2 DEF Workers
  <2>4. TypeOK'
    BY <1>1, <1>2, <1>3, <1>t, <2>1, <2>3 DEF WorkerFrame, NoPackageWrite, cacheVars, TypeOK
  <2>5. Owned' /\ Reported' /\ InHand'
    BY <1>1, <1>4, <2>2, <2>3 DEF Owned, Owns, Inv, Reported, InHand
  <2> QED
    BY <2>4, <2>5 DEF Inv, TypeInv
<1> QED
  BY <1>5, <1>6

\* Reconcile ends with a status update; the status is the one in hand.
LEMMA ReportInv ==
    ASSUME Inv, NEW ok \in BOOLEAN, ReportReady(ok) \/ ReportFailure(ok)
    PROVE  Inv'
<1>t. TypeInv /\ TypeOK /\ cur \in Workers
  BY DEF Inv, TypeInv, TypeOK
<1> DEFINE a == cur.assignment
<1>1. /\ cur.pc # "idle" /\ a \in Assignments /\ cur.status \in Statuses /\ Return(~ok)
      /\ WriteStatus(a, cur.status, cur.fresh, ok)
      /\ WorkerFrame /\ NoPackageWrite /\ UNCHANGED issues
  BY <1>t DEF ReportReady, ReportFailure, InHand, TypeInv, Workers
<1>2. cur' \in Workers /\ cur'.pc = "idle" /\ queue' \subseteq Assignments
  BY <1>1, <1>t, ReturnFacts
<1>3. /\ status' \in [Assignments -> Statuses]
      /\ \A b \in Assignments : status'[b] = status[b] \/ (b = a /\ status'[b] = cur.status)
      /\ assignmentEvent' \in [Assignments -> {"none", "status", "spec"}]
      /\ faults' \in 0..MaxFaults
  BY <1>1, <1>t, WriteStatusChange
<1>4. TypeOK'
  BY <1>1, <1>2, <1>3, <1>t DEF WorkerFrame, NoPackageWrite, cacheVars, TypeOK
<1>5. \A b \in Assignments : Owns(status[b], b)' /\ Owns(cStatus[b], b)'
  BY <1>1, <1>3 DEF WorkerFrame, cacheVars, Inv, Owned, Owns
<1> QED
  BY <1>2, <1>4, <1>5, OverInv

LEMMA GitHubFailsInv ==
    ASSUME Inv, GitHubFails
    PROVE  Inv'
<1>t. TypeInv /\ TypeOK
  BY DEF Inv, TypeInv
<1>1. cur' \in Workers /\ cur'.pc = "idle" /\ queue' \subseteq Assignments
  BY <1>t, ReturnFacts DEF GitHubFails
<1>2. TypeOK'
  BY <1>1, <1>t, FaultType DEF GitHubFails, WorkerFrame, NoPackageWrite, cacheVars, TypeOK
<1>3. \A b \in Assignments : Owns(status[b], b)' /\ Owns(cStatus[b], b)'
  BY DEF GitHubFails, WorkerFrame, cacheVars, Inv, Owned, Owns
<1> QED
  BY <1>1, <1>2, <1>3, OverInv

LEMMA UpdateIssueInv ==
    ASSUME Inv, UpdateIssue
    PROVE  Inv'
<1> DEFINE a == cur.assignment
           n == cur.status.issue
           reported(no) == [cur EXCEPT !.pc = "failed",
                                       !.status = [ready |-> "UpdateFailed", issue |-> no,
                                                   message |-> cur.message]]
<1>t. TypeInv /\ TypeOK /\ cur \in Workers /\ issues \in Seq(Issues)
  BY DEF Inv, TypeInv, TypeOK
<1>1. /\ cur.pc = "fail" /\ a \in Assignments /\ cur.message \in Messages
      /\ WorkerFrame /\ NoPackageWrite /\ NoStatusWrite
  BY <1>t DEF UpdateIssue, InHand, TypeInv
<1>2. n \in 0..MaxIssues /\ (n # 0 => n \in DOMAIN issues /\ issues[n].of = a)
  BY <1>t, <1>1 DEF Inv, Owned, Owns, Workers, Statuses
<1>3. ASSUME NEW no \in 0..MaxIssues, cur' = reported(no), UNCHANGED queue,
             issues' \in Seq(Issues), Len(issues') <= MaxIssues,
             DOMAIN issues \subseteq DOMAIN issues',
             \A m \in DOMAIN issues : issues'[m].of = issues[m].of,
             no # 0 => no \in DOMAIN issues' /\ issues'[no].of = a
      PROVE  Inv'
  <2> DEFINE s == [ready |-> "UpdateFailed", issue |-> no, message |-> cur.message]
  <2>1. s \in Statuses /\ s.issue = no
    BY <1>1, <1>3 DEF Statuses
  <2>2. cur' = [cur EXCEPT !.pc = "failed", !.status = s]
    BY <1>3
  <2> HIDE DEF s
  <2>3. /\ cur' \in Workers /\ cur'.pc = "failed" /\ cur'.assignment = a
        /\ cur'.status = s /\ cur'.message = cur.message
    BY <1>t, <2>1, <2>2 DEF Workers
  <2>4. TypeOK'
    BY <1>1, <1>3, <1>t, <2>3 DEF WorkerFrame, NoPackageWrite, NoStatusWrite, cacheVars, TypeOK
  <2>5. \A b \in Assignments : Owns(status[b], b)' /\ Owns(cStatus[b], b)'
    BY <1>1, <1>3, IssuesGrow DEF WorkerFrame, NoStatusWrite, cacheVars
  <2>6. InHand' /\ Reported'
    BY <1>1, <2>3 DEF InHand, Inv, Reported, NoStatusWrite
  <2>7. Owned'
    BY <1>3, <2>1, <2>3, <2>5 DEF Owned, Owns
  <2> QED
    BY <2>4, <2>6, <2>7 DEF Inv, TypeInv
<1>4. CASE cur.message = cur.status.message
  <2>1. cur' = reported(n) /\ UNCHANGED <<issues, queue>>
    BY <1>4 DEF UpdateIssue
  <2> QED
    BY <1>2, <1>3, <1>t, <2>1 DEF TypeOK
<1>5. CASE cur.message # cur.status.message /\ ~gitOpsRepo
  <2>1. Return(TRUE) /\ UNCHANGED issues
    BY <1>5 DEF UpdateIssue
  <2>2. cur' \in Workers /\ cur'.pc = "idle" /\ queue' \subseteq Assignments
    BY <1>1, <1>t, <2>1, ReturnFacts
  <2>3. TypeOK'
    BY <1>1, <1>t, <2>1, <2>2 DEF WorkerFrame, NoPackageWrite, NoStatusWrite, cacheVars, TypeOK
  <2>4. \A b \in Assignments : Owns(status[b], b)' /\ Owns(cStatus[b], b)'
    BY <1>1, <2>1 DEF WorkerFrame, NoStatusWrite, cacheVars, Inv, Owned, Owns
  <2> QED
    BY <2>2, <2>3, <2>4, OverInv
<1>6. CASE cur.message # cur.status.message /\ gitOpsRepo /\ n = 0
  <2> DEFINE e == [of |-> a, message |-> cur.message, open |-> TRUE]
  <2>1. /\ Len(issues) < MaxIssues /\ issues' = Append(issues, e)
        /\ cur' = reported(NewIssueNumber) /\ UNCHANGED queue
    BY <1>6 DEF UpdateIssue
  <2>2. e \in Issues /\ e.of = a
    BY <1>1 DEF Issues
  <2> HIDE DEF e
  <2>3. /\ issues' \in Seq(Issues) /\ Len(issues') = Len(issues) + 1 /\ Len(issues) \in Nat
        /\ DOMAIN issues = 1..Len(issues) /\ DOMAIN issues' = 1..Len(issues')
        /\ \A m \in DOMAIN issues : issues'[m] = issues[m]
        /\ issues'[Len(issues')] = e
    BY <1>t, <2>1, <2>2, IssueMade
  <2>4. /\ NewIssueNumber \in 0..MaxIssues /\ Len(issues') <= MaxIssues
        /\ DOMAIN issues \subseteq DOMAIN issues'
        /\ NewIssueNumber \in DOMAIN issues' /\ issues'[NewIssueNumber].of = a
    BY <2>1, <2>2, <2>3, ConstantsAssumption DEF NewIssueNumber
  <2> HIDE DEF reported
  <2> QED
    BY <1>3, <2>1, <2>3, <2>4
<1>7. CASE cur.message # cur.status.message /\ gitOpsRepo /\ n # 0
  <2> DEFINE e == [issues[n] EXCEPT !.message = cur.message]
  <2>1. issues' = [issues EXCEPT ![n] = e] /\ cur' = reported(n) /\ UNCHANGED queue
    BY <1>7 DEF UpdateIssue
  <2>2. n \in DOMAIN issues /\ issues[n] \in Issues
    BY <1>2, <1>7, <1>t, ElementOfSeq, LenProperties
  <2>3. e \in Issues /\ e.of = issues[n].of
    BY <1>1, <2>2 DEF Issues
  <2> HIDE DEF e
  <2>4. /\ issues' \in Seq(Issues) /\ Len(issues') = Len(issues) /\ DOMAIN issues' = DOMAIN issues
        /\ \A m \in DOMAIN issues : issues'[m].of = issues[m].of
    BY <1>t, <2>1, <2>2, <2>3, IssueEdited
  <2>5. Len(issues') <= MaxIssues
    BY <1>t, <2>4 DEF TypeOK
  <2> HIDE DEF reported
  <2> QED
    BY <1>2, <1>3, <1>7, <2>1, <2>2, <2>4, <2>5
<1> QED
  BY <1>4, <1>5, <1>6, <1>7

(***************************************************************************)
(* The worker begins.                                                      *)
(***************************************************************************)
LEMMA BeginStepInv ==
    ASSUME Inv, NEW a \in Assignments, BeginStep(a)
    PROVE  Inv'
<1>t. TypeInv /\ TypeOK /\ cur \in Workers
  BY DEF Inv, TypeInv, TypeOK
<1>1. ASSUME BeginGone(a) PROVE Inv'
  <2>1. TypeOK'
    BY <1>1, <1>t DEF BeginGone, WorkerFrame, NoPackageWrite, NoStatusWrite, cacheVars, TypeOK
  <2>2. cur'.pc = "idle"
    BY <1>1 DEF BeginGone
  <2>3. \A b \in Assignments : Owns(status[b], b)' /\ Owns(cStatus[b], b)'
    BY <1>1 DEF BeginGone, WorkerFrame, NoStatusWrite, cacheVars, Inv, Owned, Owns
  <2> QED
    BY <2>1, <2>2, <2>3, OverInv
<1>2. ASSUME NEW ok \in BOOLEAN, Begin(a, ok) PROVE Inv'
  <2> DEFINE s == [cStatus[a] EXCEPT !.ready = "Rebuilding"]
  <2>1. /\ cur.pc = "idle" /\ WriteStatus(a, s, assignmentEvent[a] = "none", ok)
        /\ cur' = IF ok
                  THEN [IdleWorker EXCEPT !.pc = "type", !.assignment = a, !.status = s,
                                          !.fresh = TRUE, !.live = TRUE]
                  ELSE cur
        /\ queue' \subseteq Assignments
        /\ WorkerFrame /\ NoPackageWrite /\ UNCHANGED issues
    BY <1>2, <1>t DEF Begin, TypeOK
  <2>2. s \in Statuses /\ s.issue = cStatus[a].issue /\ s.ready = "Rebuilding"
    <3>1. cStatus[a] \in Statuses
      BY <1>t DEF TypeOK
    <3> QED
      BY <3>1 DEF Statuses
  <2>3. Owns(s, a)
    BY <2>2 DEF Inv, Owned, Owns
  <2> HIDE DEF s
  <2>4. /\ status' \in [Assignments -> Statuses]
        /\ \A b \in Assignments : b # a => status'[b] = status[b]
        /\ status'[a] = IF ok THEN s ELSE status[a]
        /\ assignmentEvent' \in [Assignments -> {"none", "status", "spec"}]
        /\ faults' \in 0..MaxFaults
    <3> DEFINE fresh == assignmentEvent[a] = "none"
    <3>1. WriteStatus(a, s, fresh, ok)
      BY <2>1
    <3> HIDE DEF fresh
    <3> QED
      BY <1>t, <2>2, <3>1, WriteStatusChange
  <2>5. /\ cur' \in Workers
        /\ ok => /\ cur'.pc = "type" /\ cur'.assignment = a /\ cur'.status = s
                 /\ cur'.templates = << >>
        /\ ~ok => cur' = cur
    <3>1. CASE ok
      BY <2>1, <2>2, <3>1, IdleType DEF Workers
    <3>2. CASE ~ok
      BY <1>t, <2>1, <3>2
    <3> QED
      BY <3>1, <3>2
  <2>6. TypeOK'
    BY <1>t, <2>1, <2>4, <2>5 DEF WorkerFrame, NoPackageWrite, cacheVars, TypeOK
  <2>7. \A b \in Assignments : Owns(status[b], b)' /\ Owns(cStatus[b], b)'
    BY <2>1, <2>3, <2>4 DEF WorkerFrame, cacheVars, Inv, Owned, Owns
  <2>8. CASE ok
    <3>1. InHand'
      BY <2>5, <2>8, RoleFacts DEF InHand
    <3>2. Owned'
      BY <2>1, <2>3, <2>5, <2>7, <2>8 DEF Owned, Owns
    <3>3. Reported'
      BY <2>2, <2>4, <2>5, <2>8 DEF Reported
    <3> QED
      BY <2>6, <3>1, <3>2, <3>3 DEF Inv, TypeInv
  <2>9. CASE ~ok
    BY <2>1, <2>5, <2>6, <2>7, <2>9, OverInv
  <2> QED
    BY <2>8, <2>9
<1> QED
  BY <1>1, <1>2 DEF BeginStep

LEMMA InvStep == Inv /\ [Next]_vars => Inv'
<1> SUFFICES ASSUME Inv, [Next]_vars PROVE Inv'
  OBVIOUS
<1>1. CASE WorkerStep
  <2>1. CASE GetClusterType \/ GetDeploymentTarget \/ GetConfigData \/ GetManifests \/ GetPackage
    BY <2>1, ReadsInv
  <2>2. CASE \E ok \in BOOLEAN : WritePackage(ok)
    BY <2>2, WritePackageInv
  <2>3. CASE \E found \in BOOLEAN : CloseIssue(found)
    BY <2>3, CloseIssueInv
  <2>4. CASE \E ok \in BOOLEAN : ReportReady(ok) \/ ReportFailure(ok)
    BY <2>4, ReportInv
  <2>5. CASE UpdateIssue
    BY <2>5, UpdateIssueInv
  <2>6. CASE GitHubFails
    BY <2>6, GitHubFailsInv
  <2> QED
    BY <1>1, <2>1, <2>2, <2>3, <2>4, <2>5, <2>6 DEF WorkerStep
<1>2. CASE UNCHANGED vars
  BY <1>2 DEF vars, apiVars, eventVars, cacheVars, Inv, TypeInv, TypeOK, InHand, Owned, Owns, Reported
<1> QED
  BY <1>1, <1>2, OtherStepInv, DeliveryStepInv, BeginStepInv, RestartInv DEF Next

LEMMA InvAlways == Spec => []Inv
  BY InvInit, InvStep, PTL DEF Spec

(***************************************************************************)
(* The theorems.                                                           *)
(***************************************************************************)
\* Every variable keeps its type; the issues in the statuses and the templates in the
\* worker's hands are ones that exist.
THEOREM TypeCorrect == Spec => []TypeOK
<1>1. Inv => TypeOK
  BY DEF Inv, TypeInv
<1> QED
  BY <1>1, InvAlways, PTL

\* updateGitHubIssue and deleteGitHubIssue never touch the issue of another assignment,
\* through stale caches, deletions, restarts and failed calls.
THEOREM OwnIssues == Spec => []OwnIssue
<1>1. Inv => OwnIssue
  BY DEF Inv, Owned, Owns, OwnIssue
<1> QED
  BY <1>1, InvAlways, PTL

(***************************************************************************)
(* The assignment and its package follow AssignmentProtocol.               *)
(***************************************************************************)
Gate(a) == IF assignment[a] = "absent" THEN "absent"
           ELSE IF status[a].ready = "AssignmentPackageCreated" THEN "ready" ELSE "notReady"

\* What may happen to a, in terms of its gate and its package.
LEMMA GateMoves ==
    ASSUME NEW a \in Assignments,
           \/ UNCHANGED <<Gate(a), packages[a]>>
           \/ Gate(a)' = "absent" /\ UNCHANGED packages[a]
           \/ packages[a]' = None /\ UNCHANGED Gate(a)
           \/ Gate(a) # "ready" /\ packages[a]' \in Packages /\ UNCHANGED Gate(a)
           \/ Gate(a) \in {"absent", "ready"} /\ Gate(a)' = "notReady" /\ UNCHANGED packages[a]
           \/ Gate(a) = "notReady" /\ Gate(a)' = "ready" /\ UNCHANGED packages[a]
    PROVE  [Protocol(a)!Next]_(Protocol(a)!vars)
  BY DEF Gate, Protocol!Next, Protocol!vars, Protocol!StartRebuild, Protocol!WritePackage,
         Protocol!FinishRebuild, Protocol!DeleteGate, Protocol!RemovePackage

\* Most steps leave assignments, statuses and packages alone.
LEMMA GateFrame ==
    ASSUME NEW a \in Assignments, UNCHANGED <<assignment, status, packages>>
    PROVE  [Protocol(a)!Next]_(Protocol(a)!vars)
  BY GateMoves DEF Gate

LEMMA ProtocolStep ==
    ASSUME Inv, [Next]_vars, NEW a \in Assignments
    PROVE  [Protocol(a)!Next]_(Protocol(a)!vars)
<1> DEFINE Refines == [Protocol(a)!Next]_(Protocol(a)!vars)
<1>t. TypeInv /\ TypeOK /\ cur \in Workers
  BY DEF Inv, TypeInv, TypeOK
<1>f. UNCHANGED <<assignment, status, packages>> => Refines
  BY GateFrame
<1>r. ASSUME NEW b \in Assignments, RemoveAssignment(b) PROVE Refines
  <2>1. UNCHANGED <<packages, status>> /\ assignment' = [assignment EXCEPT ![b] = "absent"]
    BY <1>r DEF RemoveAssignment
  <2>2. Gate(a)' = "absent" \/ UNCHANGED Gate(a)
    BY <1>t, <2>1 DEF Gate, TypeOK
  <2> QED
    BY <2>1, <2>2, GateMoves
<1>p. ASSUME NEW b \in Assignments, RemovePackage(b) PROVE Refines
  <2>1. UNCHANGED <<assignment, status>> /\ packages' = [packages EXCEPT ![b] = None]
    BY <1>p DEF RemovePackage
  <2>2. packages[a]' = None \/ UNCHANGED packages[a]
    BY <1>t, <2>1 DEF TypeOK
  <2>3. UNCHANGED Gate(a)
    BY <2>1 DEF Gate
  <2> QED
    BY <2>2, <2>3, GateMoves
<1>1. CASE UserStep
  <2>1. ASSUME NEW x \in Inputs, NEW v \in InputValues, EditInput(x, v) PROVE Refines
    BY <1>f, <2>1 DEF EditInput
  <2>2. ASSUME NEW b \in Assignments, CreateAssignment(b) PROVE Refines
    <3>1. /\ assignment[b] = "absent" /\ assignment' = [assignment EXCEPT ![b] = "present"]
          /\ status' = [status EXCEPT ![b] = NewStatus] /\ UNCHANGED packages
      BY <2>2 DEF CreateAssignment
    <3>2. UNCHANGED Gate(a) \/ (Gate(a) = "absent" /\ Gate(a)' = "notReady")
      BY <1>t, <3>1, NewStatusType DEF Gate, TypeOK
    <3> QED
      BY <3>1, <3>2, GateMoves
  <2>3. ASSUME NEW b \in Assignments, DeleteAssignment(b) PROVE Refines
    BY <1>r, <2>3 DEF DeleteAssignment
  <2>4. ASSUME NEW b \in Assignments, DeleteAssignmentForeground(b) PROVE Refines
    <3>1. /\ assignment[b] = "present" /\ assignment' = [assignment EXCEPT ![b] = "terminating"]
          /\ UNCHANGED <<packages, status>>
      BY <2>4 DEF DeleteAssignmentForeground
    <3>2. UNCHANGED Gate(a)
      BY <1>t, <3>1 DEF Gate, TypeOK
    <3> QED
      BY <3>1, <3>2, GateMoves
  <2>5. ASSUME NEW b \in Assignments, UserDeletesPackage(b) PROVE Refines
    BY <1>p, <2>5 DEF UserDeletesPackage
  <2> QED
    BY <1>1, <2>1, <2>2, <2>3, <2>4, <2>5 DEF UserStep
<1>2. CASE CreateGitOpsRepo
  BY <1>2, <1>f DEF CreateGitOpsRepo
<1>3. CASE CollectorStep
  BY <1>3, <1>p, <1>r DEF CollectorStep, CollectAssignment, CollectPackage
<1>4. CASE DeliveryStep
  BY <1>4, <1>f DEF DeliveryStep, DeliverAssignment, DeliverPackage, DeliverInput, apiVars
<1>5. ASSUME NEW b \in Assignments, BeginStep(b) PROVE Refines
  <2>1. CASE BeginGone(b)
    BY <1>f, <2>1 DEF BeginGone, WorkerFrame, NoPackageWrite, NoStatusWrite
  <2>2. ASSUME NEW ok \in BOOLEAN, Begin(b, ok) PROVE Refines
    <3> DEFINE s == [cStatus[b] EXCEPT !.ready = "Rebuilding"]
    <3>1. s.ready = "Rebuilding"
      BY <1>t DEF TypeOK, Statuses
    <3>2. UNCHANGED <<assignment, packages>> /\ (status' = status \/ status' = [status EXCEPT ![b] = s])
      BY <2>2 DEF Begin, WriteStatus, WorkerFrame, NoPackageWrite
    <3> HIDE DEF s
    <3>3. UNCHANGED Gate(a) \/ (Gate(a) = "ready" /\ Gate(a)' = "notReady")
      BY <1>t, <3>1, <3>2 DEF Gate, TypeOK
    <3> QED
      BY <3>2, <3>3, GateMoves
  <2> QED
    BY <1>5, <2>1, <2>2 DEF BeginStep
<1>6. CASE WorkerStep
  <2>1. CASE GetClusterType \/ GetDeploymentTarget \/ GetConfigData \/ GetManifests \/ GetPackage
    BY <1>f, <2>1 DEF GetClusterType, GetDeploymentTarget, GetConfigData, GetManifests, GetPackage,
          ReadOnly, WorkerFrame, NoPackageWrite, NoStatusWrite
  <2>2. ASSUME NEW ok \in BOOLEAN, WritePackage(ok) PROVE Refines
    <3> DEFINE b == cur.assignment
    <3>1. /\ cur.pc = "write" /\ b \in Assignments /\ Rendered \in Packages
          /\ UNCHANGED <<assignment, status>>
          /\ packages' = packages \/ packages' = [packages EXCEPT ![b] = Rendered]
      BY <1>t, <2>2, RenderedType DEF WritePackage, WorkerFrame, NoPackageWrite, InHand, TypeInv
    <3>2. Gate(b) # "ready"
      BY <3>1 DEF Gate, Inv, Reported
    <3>3. UNCHANGED packages[a] \/ (a = b /\ packages[a]' \in Packages)
      BY <1>t, <3>1 DEF TypeOK
    <3>4. UNCHANGED Gate(a)
      BY <3>1 DEF Gate
    <3> QED
      BY <3>2, <3>3, <3>4, GateMoves
  <2>3. ASSUME NEW found \in BOOLEAN, CloseIssue(found) PROVE Refines
    BY <1>f, <2>3 DEF CloseIssue, WorkerFrame, NoPackageWrite
  <2>4. ASSUME NEW ok \in BOOLEAN, ReportReady(ok) \/ ReportFailure(ok) PROVE Refines
    <3> DEFINE b == cur.assignment
    <3>1. /\ cur.pc # "idle" /\ b \in Assignments /\ UNCHANGED <<assignment, packages>>
          /\ status' = status \/ status' = [status EXCEPT ![b] = cur.status]
      BY <1>t, <2>4 DEF ReportReady, ReportFailure, WriteStatus, WorkerFrame, NoPackageWrite,
                        InHand, TypeInv
    <3>2. Gate(b) # "ready"
      BY <3>1 DEF Gate, Inv, Reported
    <3>3. UNCHANGED Gate(a) \/ (Gate(a) = "notReady" /\ Gate(a)' = "ready")
      BY <1>t, <3>1, <3>2 DEF Gate, TypeOK
    <3> QED
      BY <3>1, <3>3, GateMoves
  <2>5. CASE UpdateIssue
    BY <1>f, <2>5 DEF UpdateIssue, WorkerFrame, NoPackageWrite, NoStatusWrite
  <2>6. CASE GitHubFails
    BY <1>f, <2>6 DEF GitHubFails, WorkerFrame, NoPackageWrite
  <2> QED
    BY <1>6, <2>1, <2>2, <2>3, <2>4, <2>5, <2>6 DEF WorkerStep
<1>7. CASE Restart
  BY <1>7, <1>f DEF Restart, apiVars
<1>8. CASE UNCHANGED vars
  BY <1>8, <1>f DEF vars, apiVars
<1> QED
  BY <1>1, <1>2, <1>3, <1>4, <1>5, <1>6, <1>7, <1>8 DEF Next

\* No package is written while its assignment is ready: what GitOpsRepoController relies on
\* when it reads the packages without watching their updates.
THEOREM ControllerFollowsProtocol == Spec => FollowsProtocol
<1>1. Init => \A a \in Assignments : Protocol(a)!Init
  BY NewStatusType DEF Init, Protocol!Init
<1>2. ASSUME Inv, [Next]_vars
      PROVE  [\A a \in Assignments : [Protocol(a)!Next]_(Protocol(a)!vars)]_vars
  BY <1>2, ProtocolStep
<1> QED
  BY <1>1, <1>2, InvAlways, InvInit, InvStep, PTL DEF Spec, FollowsProtocol
=============================================================================

--------------------------- MODULE GitOpsRepoProofs ---------------------------
(***************************************************************************)
(* Proofs about GitOpsRepoController: its types, that Ready=True tells the *)
(* truth, that nothing is proposed twice, that it uses a repository as     *)
(* module PullRequest expects, that no change is overlooked, and that its  *)
(* environment moves as module AssignmentProtocol says, for any objects    *)
(* and bounds.                                                             *)
(***************************************************************************)
EXTENDS GitOpsRepoController, TLAPS

(***************************************************************************)
(* Types.                                                                  *)
(***************************************************************************)
\* A worker that is not idle has a repository in hand, and from "mark" on a content.
InHand ==
    /\ cur.pc # "idle" => cur.repo \in Repos
    /\ cur.pc \notin {"idle", "gates", "content"} => cur.content \in Contents

TypeInv == TypeOK /\ InHand

LEMMA EditType == ASSUME TypeInv, Edit PROVE edits' \in 0..MaxEdits
  BY ConstantsAssumption DEF TypeInv, TypeOK, Edit

LEMMA FaultType == ASSUME TypeInv, Fault PROVE faults' \in 0..MaxFaults
  BY ConstantsAssumption DEF TypeInv, TypeOK, Fault

LEMMA AnsweredType ==
    ASSUME TypeInv, NEW ok \in BOOLEAN, Answered(ok)
    PROVE  faults' \in 0..MaxFaults
  BY FaultType DEF TypeInv, TypeOK, Answered

LEMMA ContentType ==
    ASSUME NEW ts \in SUBSET ClusterTypes, NEW pkgs \in [Assignments -> Versions \cup {None}],
           NEW b \in BaseSpecs \cup {None}
    PROVE  Content(ts, pkgs, b) \in Contents
<1>1. \A a \in Assignments : TypeOf[a] \in ClusterTypes
  BY ConstantsAssumption
<1> QED
  BY <1>1 DEF Content, Contents

\* Older and newer statuses are statuses.
LEMMA StatusType ==
    ASSUME NEW s \in Statuses
    PROVE  /\ \A r \in {"New", "CreatingPR", "PRCreated", "UpdateFailed"} : [s EXCEPT !.ready = r] \in Statuses
           /\ \A t \in {"absent", "young", "old"} : [s EXCEPT !.toPR = t] \in Statuses
           /\ Older(s.toPR) \in {"absent", "young", "old"}
  BY DEF Statuses, Older

LEMMA NewStatusType == NewStatus \in Statuses
  BY DEF Statuses, NewStatus

LEMMA IdleWorkerType == IdleWorker \in Workers /\ IdleWorker.pc = "idle" /\ ~IdleWorker.fresh
  BY DEF IdleWorker, Workers, NewStatus, Statuses

LEMMA SetGateType ==
    ASSUME TypeInv, NEW g \in Gates, NEW value \in {"absent", "notReady", "ready"}, SetGate(g, value)
    PROVE  /\ gate' \in [Gates -> {"absent", "notReady", "ready"}]
           /\ gateEvent' \in [Gates -> {"none", "update", "exist"}]
  BY DEF TypeInv, TypeOK, SetGate, Fold

LEMMA WriteStatusType ==
    ASSUME TypeInv, NEW s \in Statuses, NEW ok \in BOOLEAN, WriteStatus(s, ok)
    PROVE  /\ status' \in Statuses
           /\ repoEvent' \in {"none", "update", "exist"}
           /\ faults' \in 0..MaxFaults
  BY AnsweredType DEF TypeInv, TypeOK, WriteStatus

LEMMA ReturnType ==
    ASSUME TypeInv, NEW error \in BOOLEAN, Return(error)
    PROVE  queued' \in BOOLEAN /\ cur' \in Workers /\ InHand' /\ cur'.pc = "idle" /\ ~cur'.fresh
  BY IdleWorkerType DEF TypeInv, TypeOK, Return, InHand

LEMMA TypeInit == Init => TypeInv
<1> SUFFICES ASSUME Init PROVE TypeInv
  OBVIOUS
<1>1. types \subseteq ClusterTypes
  BY ConstantsAssumption DEF Init
<1>2. gate \in [Gates -> {"absent", "notReady", "ready"}] /\ cGate \in [Gates -> {"absent", "notReady", "ready"}]
  BY DEF Init
<1>3. cur \in Workers /\ cur.pc = "idle"
  BY IdleWorkerType DEF Init
<1>4. status \in Statuses /\ cStatus \in Statuses
  BY NewStatusType DEF Init
<1>5. edits \in 0..MaxEdits /\ faults \in 0..MaxFaults
  BY ConstantsAssumption DEF Init
<1>6. InHand
  BY <1>3 DEF InHand
<1>7. /\ pr \in [Repos -> Contents \cup {None}]
      /\ gateEvent \in [Gates -> {"none", "update", "exist"}]
      /\ packageEvent \in [Assignments -> {"none", "update", "exist"}]
  BY DEF Init
<1> QED
  BY <1>1, <1>2, <1>3, <1>4, <1>5, <1>6, <1>7 DEF Init, TypeInv, TypeOK

(***************************************************************************)
(* Every step keeps the types.                                             *)
(***************************************************************************)
LEMMA OtherStepType ==
    ASSUME TypeInv, OtherStep
    PROVE  TypeInv'
<1>1. ASSUME NEW g \in Gates, StartRebuild(g) PROVE TypeInv'
  BY <1>1, EditType, SetGateType
     DEF StartRebuild, TypeInv, TypeOK, InHand, OtherFrame, cacheVars
<1>2. ASSUME NEW a \in Assignments, NEW v \in Versions, UpdatePackage(a, v) PROVE TypeInv'
  BY <1>2, EditType
     DEF UpdatePackage, TypeInv, TypeOK, InHand, OtherFrame, cacheVars, Fold
<1>3. ASSUME NEW g \in Gates, DeleteGate(g) PROVE TypeInv'
  BY <1>3, EditType, SetGateType
     DEF DeleteGate, TypeInv, TypeOK, InHand, OtherFrame, cacheVars
<1>4. ASSUME NEW c \in ClusterTypes, EditClusterType(c) PROVE TypeInv'
  BY <1>4, EditType
     DEF EditClusterType, TypeInv, TypeOK, InHand, OtherFrame, cacheVars
<1>5. ASSUME NEW b \in BaseSpecs \cup {None}, EditBaseRepo(b) PROVE TypeInv'
  BY <1>5, EditType
     DEF EditBaseRepo, TypeInv, TypeOK, InHand, OtherFrame, cacheVars
<1>6. ASSUME NEW r \in Repos \cup {None}, EditGitOpsRepo(r) PROVE TypeInv'
  <2>1. cur' \in Workers /\ InHand'
    BY <1>6 DEF EditGitOpsRepo, TypeInv, TypeOK, InHand, Workers
  <2> QED
    BY <1>6, <2>1, EditType, NewStatusType DEF EditGitOpsRepo, TypeInv, TypeOK, cacheVars
<1>7. ASSUME NEW a \in Assignments, DeletePackage(a) PROVE TypeInv'
  BY <1>7, EditType
     DEF DeletePackage, RemovePackage, TypeInv, TypeOK, InHand, OtherFrame, cacheVars
<1> QED
  BY <1>1, <1>2, <1>3, <1>4, <1>5, <1>6, <1>7 DEF OtherStep

LEMMA ProtocolStepType ==
    ASSUME TypeInv, ProtocolStep
    PROVE  TypeInv'
<1>1. ASSUME NEW a \in Assignments, NEW v \in Versions, CreatePackage(a, v) PROVE TypeInv'
  BY <1>1, EditType DEF CreatePackage, TypeInv, TypeOK, InHand, OtherFrame, cacheVars
<1>2. ASSUME NEW g \in Gates, FinishRebuild(g) PROVE TypeInv'
  BY <1>2, SetGateType DEF FinishRebuild, TypeInv, TypeOK, InHand, OtherFrame, cacheVars
<1>3. ASSUME NEW a \in Assignments, CollectPackage(a) PROVE TypeInv'
  BY <1>3 DEF CollectPackage, RemovePackage, TypeInv, TypeOK, InHand, OtherFrame, cacheVars
<1> QED
  BY <1>1, <1>2, <1>3 DEF ProtocolStep

LEMMA DeliveryStepType ==
    ASSUME TypeInv, DeliveryStep
    PROVE  TypeInv'
<1>1. ASSUME NEW g \in Gates, NEW unknown \in BOOLEAN, DeliverGate(g, unknown) PROVE TypeInv'
  BY <1>1 DEF DeliverGate, FindGitOpsRepo, TypeInv, TypeOK, InHand, apiVars
<1>2. ASSUME NEW a \in Assignments, NEW unknown \in BOOLEAN, DeliverPackage(a, unknown) PROVE TypeInv'
  BY <1>2 DEF DeliverPackage, FindGitOpsRepo, TypeInv, TypeOK, InHand, apiVars
<1>3. ASSUME NEW c \in ClusterTypes, NEW unknown \in BOOLEAN, DeliverClusterType(c, unknown)
      PROVE  TypeInv'
  BY <1>3 DEF DeliverClusterType, FindGitOpsRepo, TypeInv, TypeOK, InHand, apiVars
<1>4. ASSUME DeliverBaseRepo PROVE TypeInv'
  BY <1>4 DEF DeliverBaseRepo, TypeInv, TypeOK, InHand, apiVars
<1>5. ASSUME DeliverGitOpsRepo PROVE TypeInv'
  BY <1>5 DEF DeliverGitOpsRepo, TypeInv, TypeOK, InHand, apiVars
<1> QED
  BY <1>1, <1>2, <1>3, <1>4, <1>5 DEF DeliveryStep

LEMMA TimeStepType ==
    ASSUME TypeInv, TimeStep
    PROVE  TypeInv'
<1> DEFINE Aged == [cur EXCEPT !.status.toPR = Older(@)]
<1>1. Aged \in Workers /\ Aged.pc = cur.pc /\ Aged.repo = cur.repo /\ Aged.content = cur.content
  BY StatusType DEF TypeInv, TypeOK, Workers
<1>2. ASSUME ConditionAges PROVE TypeInv'
  <2>1. cur' = Aged /\ InHand'
    BY <1>1, <1>2 DEF ConditionAges, TypeInv, InHand
  <2>2. status' \in Statuses /\ cStatus' \in Statuses
    BY <1>2, StatusType DEF ConditionAges, TypeInv, TypeOK
  <2> QED
    BY <1>1, <1>2, <2>1, <2>2 DEF ConditionAges, TypeInv, TypeOK, eventVars
<1>3. ASSUME CachedConditionAges PROVE TypeInv'
  <2>1. cur' \in Workers /\ InHand'
    BY <1>1, <1>3 DEF CachedConditionAges, TypeInv, TypeOK, InHand
  <2>2. cStatus' \in Statuses
    BY <1>3, StatusType DEF CachedConditionAges, TypeInv, TypeOK
  <2> QED
    BY <1>3, <2>1, <2>2 DEF CachedConditionAges, TypeInv, TypeOK, apiVars, eventVars
<1>4. ASSUME TimerFires PROVE TypeInv'
  BY <1>4 DEF TimerFires, TypeInv, TypeOK, InHand, apiVars, eventVars, cacheVars
<1> QED
  BY <1>2, <1>3, <1>4 DEF TimeStep

\* The calls of Reconcile leave everything else alone.
LEMMA WorkerFrameType ==
    ASSUME TypeInv, WorkerFrame, UNCHANGED timer \/ timer' \in {"none", "covering", "early"},
           cur' \in Workers, InHand', queued' \in BOOLEAN, status' \in Statuses,
           repoEvent' \in {"none", "update", "exist"}, faults' \in 0..MaxFaults,
           pr' \in [Repos -> Contents \cup {None}]
    PROVE  TypeInv'
  BY DEF WorkerFrame, TypeInv, TypeOK, cacheVars

\* Reconcile writes a status and returns.
LEMMA WriteAndReturnType ==
    ASSUME TypeInv, WorkerFrame, UNCHANGED pr,
           UNCHANGED timer \/ timer' \in {"none", "covering", "early"},
           NEW s \in Statuses, NEW ok \in BOOLEAN, WriteStatus(s, ok),
           NEW error \in BOOLEAN, Return(error)
    PROVE  TypeInv'
  BY WriteStatusType, ReturnType, WorkerFrameType DEF TypeInv, TypeOK

LEMMA WorkerStepType ==
    ASSUME TypeInv, WorkerStep
    PROVE  TypeInv'
<1>s. cur \in Workers /\ cur.status \in Statuses
  BY DEF TypeInv, TypeOK, Workers
<1>1. ASSUME Begin PROVE TypeInv'
  <2>1. cur' \in Workers /\ InHand'
    BY <1>1 DEF Begin, TypeInv, TypeOK, InHand, Workers
  <2> QED
    BY <1>1, <2>1, WorkerFrameType DEF Begin, NoWrite, TypeInv, TypeOK
<1>2. ASSUME CheckReady PROVE TypeInv'
  <2>1. cur' \in Workers /\ InHand' /\ queued' \in BOOLEAN
    <3>1. CASE Return(FALSE)
      BY <3>1, ReturnType
    <3>2. CASE cur' = [cur EXCEPT !.pc = "content"] /\ UNCHANGED queued
      BY <1>2, <3>2 DEF CheckReady, TypeInv, TypeOK, InHand, Workers
    <3> QED
      BY <1>2, <3>1, <3>2 DEF CheckReady
  <2> QED
    BY <1>2, <2>1, WorkerFrameType DEF CheckReady, NoWrite, TypeInv, TypeOK
<1>3. ASSUME GetRepoContent PROVE TypeInv'
  <2> DEFINE content == Content(cTypes, cPackages, cBase)
  <2>1. content \in Contents
    BY ContentType DEF TypeInv, TypeOK
  <2>2. Decide(content) \in {"idle", "unmark", "announce", "mark"}
    BY <1>s DEF Decide, Statuses
  <2>3. cur' \in Workers /\ InHand' /\ queued' \in BOOLEAN
    <3>1. CASE Return(FALSE)
      BY <3>1, ReturnType
    <3>2. CASE cur' = [cur EXCEPT !.pc = Decide(content), !.content = content] /\ UNCHANGED queued
      BY <1>3, <2>1, <2>2, <3>2 DEF GetRepoContent, TypeInv, TypeOK, InHand, Workers
    <3> QED
      BY <1>3, <3>1, <3>2 DEF GetRepoContent
  <2> QED
    BY <1>3, <2>3, WorkerFrameType DEF GetRepoContent, NoWrite, TypeInv, TypeOK
<1>4. ASSUME NEW ok \in BOOLEAN, MarkReadyToPR(ok) PROVE TypeInv'
  BY <1>4, <1>s, StatusType, WriteAndReturnType DEF MarkReadyToPR, TypeInv, TypeOK
<1>5. ASSUME NEW ok \in BOOLEAN, UnmarkReadyToPR(ok) PROVE TypeInv'
  BY <1>5, <1>s, StatusType, WriteAndReturnType DEF UnmarkReadyToPR
<1>6. ASSUME NEW ok \in BOOLEAN, Announce(ok) PROVE TypeInv'
  <2> DEFINE s == [cur.status EXCEPT !.ready = "CreatingPR"]
  <2>1. s \in Statuses /\ WriteStatus(s, ok)
    BY <1>6, <1>s, StatusType DEF Announce
  <2>2. cur' \in Workers /\ InHand' /\ queued' \in BOOLEAN
    <3>1. CASE ok
      BY <1>6, <2>1, <3>1 DEF Announce, TypeInv, TypeOK, InHand, Workers
    <3>2. CASE ~ok
      BY <1>6, <3>2, ReturnType DEF Announce
    <3> QED
      BY <3>1, <3>2
  <2> QED
    BY <1>6, <2>1, <2>2, WriteStatusType, WorkerFrameType DEF Announce, TypeInv, TypeOK
<1>7. ASSUME NEW ok \in BOOLEAN, CreatePR(ok) PROVE TypeInv'
  <2>1. cur.repo \in Repos /\ cur.content \in Contents
    BY <1>7 DEF CreatePR, TypeInv, InHand
  <2>2. pr' \in [Repos -> Contents \cup {None}]
    BY <1>7, <2>1 DEF CreatePR, TypeInv, TypeOK
  <2>3. cur' \in Workers /\ InHand'
    BY <1>7, <2>1 DEF CreatePR, TypeInv, TypeOK, InHand, Workers
  <2>4. faults' \in 0..MaxFaults
    BY <1>7, FaultType DEF CreatePR, TypeInv, TypeOK
  <2> QED
    BY <1>7, <2>2, <2>3, <2>4, WorkerFrameType DEF CreatePR, TypeInv, TypeOK
<1>8. ASSUME NEW ok \in BOOLEAN, RecordPR(ok) PROVE TypeInv'
  <2>1. [ready |-> "PRCreated", toPR |-> "absent", hash |-> cur.content] \in Statuses
    BY <1>8 DEF RecordPR, TypeInv, InHand, Statuses
  <2> QED
    BY <1>8, <2>1, WriteAndReturnType DEF RecordPR
<1>9. ASSUME ManageFailure PROVE TypeInv'
  BY <1>9, <1>s, StatusType, WriteAndReturnType DEF ManageFailure
<1>10. ASSUME CallFails PROVE TypeInv'
  BY <1>10, FaultType, ReturnType, WorkerFrameType DEF CallFails, TypeInv, TypeOK
<1> QED
  BY <1>1, <1>2, <1>3, <1>4, <1>5, <1>6, <1>7, <1>8, <1>9, <1>10 DEF WorkerStep

LEMMA RestartType ==
    ASSUME TypeInv, Restart
    PROVE  TypeInv'
<1>1. cur' \in Workers /\ InHand'
  BY IdleWorkerType DEF Restart, InHand
<1> QED
  BY <1>1, FaultType DEF Restart, TypeInv, TypeOK, apiVars

LEMMA TypeStep ==
    ASSUME TypeInv, [Next]_vars
    PROVE  TypeInv'
<1>1. CASE UNCHANGED vars
  BY <1>1 DEF TypeInv, TypeOK, InHand, vars, apiVars, eventVars, cacheVars
<1> QED
  BY <1>1, OtherStepType, ProtocolStepType, DeliveryStepType, TimeStepType, WorkerStepType, RestartType
     DEF Next

\* The types hold in every reachable state.
THEOREM TypeCorrect == Spec => []TypeOK
<1>1. TypeInv => TypeOK
  BY DEF TypeInv
<1> QED
  BY <1>1, TypeInit, TypeStep, PTL DEF Spec

(***************************************************************************)
(* The inductive invariant.                                                *)
(***************************************************************************)
\* A cache without an undelivered event shows the GitOpsRepo as it is, and so does the
\* worker's copy as long as an update of it would not be refused.
Fresh ==
    /\ repoEvent = "none" => cRepo = repo /\ cStatus = status
    /\ cur.fresh => cur.repo = repo /\ cur.status = status

\* From the announcement to the last status update Ready is not True, and the content
\* is not the one whose hash is recorded.
Announced ==
    /\ cur.pc = "announce" => cur.content # cur.status.hash
    /\ cur.pc \in {"create", "record", "fail"} /\ repo # None => status.ready # "PRCreated"
    /\ cur.pc = "create" /\ repo # None => cur.content # status.hash
    /\ cur.pc = "record" => pr[cur.repo] = cur.content

Inv == TypeInv /\ Fresh /\ Announced /\ ReadyMeansPR

LEMMA InvInit == Init => Inv
  BY TypeInit DEF Init, Inv, Fresh, Announced, ReadyMeansPR, NewStatus, IdleWorker

\* Steps that leave the GitOpsRepo, the worker and the pull requests alone.
LEMMA InvFrame ==
    ASSUME Inv, UNCHANGED <<repo, status, pr, repoEvent, cRepo, cStatus, cur>>
    PROVE  Fresh' /\ Announced' /\ ReadyMeansPR'
  BY DEF Inv, Fresh, Announced, ReadyMeansPR

LEMMA OtherStepInv ==
    ASSUME Inv, OtherStep
    PROVE  Fresh' /\ Announced' /\ ReadyMeansPR'
<1>1. ASSUME NEW r \in Repos \cup {None}, EditGitOpsRepo(r)
      PROVE  Fresh' /\ Announced' /\ ReadyMeansPR'
  <2>1. cur' = [cur EXCEPT !.fresh = FALSE] /\ cur \in Workers /\ repo' = r /\ repo # r /\ pr' = pr
    BY <1>1 DEF EditGitOpsRepo, Inv, TypeInv, TypeOK
  <2>2. /\ cur'.pc = cur.pc /\ cur'.content = cur.content /\ cur'.status = cur.status
        /\ cur'.repo = cur.repo /\ ~cur'.fresh
    BY <2>1 DEF Workers
  <2>3. Fresh'
    BY <1>1, <2>2 DEF EditGitOpsRepo, Fresh
  <2>4. CASE None \in {r, repo}
    <3>1. status' = NewStatus /\ status'.ready = "New" /\ status'.hash = None
      BY <1>1, <2>4 DEF EditGitOpsRepo, NewStatus
    <3>2. cur.pc = "create" => cur.content \in Contents
      BY DEF Inv, TypeInv, InHand
    <3> QED
      BY <2>1, <2>2, <2>3, <3>1, <3>2, NoneAssumption DEF Inv, Announced, ReadyMeansPR
  <2>5. CASE None \notin {r, repo}
    <3>1. status' = status /\ "retarget" \in Adversity
      BY <1>1, <2>5 DEF EditGitOpsRepo
    <3> QED
      BY <2>1, <2>2, <2>3, <2>5, <3>1 DEF Inv, Announced, ReadyMeansPR
  <2> QED
    BY <2>4, <2>5
<1>2. ASSUME NEW g \in Gates, StartRebuild(g) \/ DeleteGate(g)
      PROVE  Fresh' /\ Announced' /\ ReadyMeansPR'
  BY <1>2, InvFrame DEF StartRebuild, DeleteGate, OtherFrame, cacheVars
<1>3. ASSUME NEW a \in Assignments, NEW v \in Versions, UpdatePackage(a, v)
      PROVE  Fresh' /\ Announced' /\ ReadyMeansPR'
  BY <1>3, InvFrame DEF UpdatePackage, OtherFrame, cacheVars
<1>4. ASSUME NEW c \in ClusterTypes, EditClusterType(c)
      PROVE  Fresh' /\ Announced' /\ ReadyMeansPR'
  BY <1>4, InvFrame DEF EditClusterType, OtherFrame, cacheVars
<1>5. ASSUME NEW b \in BaseSpecs \cup {None}, EditBaseRepo(b)
      PROVE  Fresh' /\ Announced' /\ ReadyMeansPR'
  BY <1>5, InvFrame DEF EditBaseRepo, OtherFrame, cacheVars
<1>6. ASSUME NEW a \in Assignments, DeletePackage(a)
      PROVE  Fresh' /\ Announced' /\ ReadyMeansPR'
  BY <1>6, InvFrame DEF DeletePackage, RemovePackage, OtherFrame, cacheVars
<1> QED
  BY <1>1, <1>2, <1>3, <1>4, <1>5, <1>6 DEF OtherStep

LEMMA ProtocolStepInv ==
    ASSUME Inv, ProtocolStep
    PROVE  Fresh' /\ Announced' /\ ReadyMeansPR'
  BY InvFrame DEF ProtocolStep, CreatePackage, FinishRebuild, CollectPackage,
        RemovePackage, OtherFrame, cacheVars

LEMMA DeliveryStepInv ==
    ASSUME Inv, DeliveryStep
    PROVE  Fresh' /\ Announced' /\ ReadyMeansPR'
<1>1. CASE DeliverGitOpsRepo
  BY <1>1 DEF DeliverGitOpsRepo, apiVars, Inv, Fresh, Announced, ReadyMeansPR
<1>2. CASE ~DeliverGitOpsRepo
  BY <1>2, InvFrame DEF DeliveryStep, DeliverGate, DeliverPackage, DeliverClusterType, DeliverBaseRepo,
                        apiVars
<1> QED
  BY <1>1, <1>2

\* Time changes the age of a condition, in the status and in its fresh copies alike.
LEMMA TimeStepInv ==
    ASSUME Inv, TimeStep
    PROVE  Fresh' /\ Announced' /\ ReadyMeansPR'
<1> DEFINE Aged == [cur EXCEPT !.status.toPR = Older(@)]
<1>1. /\ cur \in Workers /\ status \in Statuses /\ cStatus \in Statuses /\ cur.status \in Statuses
  BY DEF Inv, TypeInv, TypeOK, Workers
<1>2. /\ Aged.pc = cur.pc /\ Aged.repo = cur.repo /\ Aged.content = cur.content
      /\ Aged.fresh = cur.fresh /\ Aged.status = [cur.status EXCEPT !.toPR = Older(@)]
      /\ Aged.status.hash = cur.status.hash
  BY <1>1 DEF Workers, Statuses
<1>3. CASE ConditionAges
  <2>1. /\ status' = [status EXCEPT !.toPR = Older(@)] /\ cStatus' = [cStatus EXCEPT !.toPR = Older(@)]
        /\ cur' = Aged
    BY <1>3 DEF ConditionAges, Older
  <2>2. status'.ready = status.ready /\ status'.hash = status.hash
    BY <1>1, <2>1 DEF Statuses
  <2>3. UNCHANGED <<repo, pr, repoEvent, cRepo>>
    BY <1>3 DEF ConditionAges, eventVars
  <2> QED
    BY <1>2, <2>1, <2>2, <2>3 DEF Inv, Fresh, Announced, ReadyMeansPR
<1>4. CASE CachedConditionAges
  <2>1. UNCHANGED <<repo, status, pr, repoEvent, cRepo>> /\ repoEvent # "none"
    BY <1>4 DEF CachedConditionAges, apiVars, eventVars
  <2>2. cur' = cur \/ (cur' = Aged /\ ~cur.fresh)
    BY <1>4 DEF CachedConditionAges
  <2> QED
    BY <1>2, <2>1, <2>2 DEF Inv, Fresh, Announced, ReadyMeansPR
<1>5. CASE TimerFires
  BY <1>5, InvFrame DEF TimerFires, apiVars, eventVars, cacheVars
<1> QED
  BY <1>3, <1>4, <1>5 DEF TimeStep

\* A status update takes effect only if the worker's copy is fresh.
LEMMA WriteStatusFresh ==
    ASSUME Inv, NEW s \in Statuses, NEW ok \in BOOLEAN, WriteStatus(s, ok),
           UNCHANGED <<repo, cRepo, cStatus>>
    PROVE  /\ (repoEvent = "none")' => cRepo' = repo' /\ cStatus' = status'
           /\ (cur.fresh /\ status' = s) \/ (~cur.fresh /\ ~ok /\ status' = status)
  BY DEF Inv, Fresh, WriteStatus

\* Reconcile writes a status that is not Ready, or one that leaves Ready and the hash
\* alone, and returns.
LEMMA WriteAndReturnInv ==
    ASSUME Inv, UNCHANGED <<repo, cRepo, cStatus, pr>>,
           NEW s \in Statuses, NEW ok \in BOOLEAN, WriteStatus(s, ok),
           NEW error \in BOOLEAN, Return(error),
           \/ s.ready # "PRCreated"
           \/ s.ready = cur.status.ready /\ s.hash = cur.status.hash
           \/ cur.pc = "record" /\ s.hash = cur.content
    PROVE  Fresh' /\ Announced' /\ ReadyMeansPR'
<1>1. cur'.pc = "idle" /\ ~cur'.fresh
  BY ReturnType DEF Inv
<1>2. Fresh' /\ Announced'
  BY <1>1, WriteStatusFresh DEF Fresh, Announced
<1>3. ASSUME repo # None, s.ready = "PRCreated", status' = s, cur.fresh
      PROVE  pr[repo] = s.hash \/ \E r \in Repos : pr[r] = s.hash /\ "retarget" \in Adversity
  BY <1>3 DEF Inv, Fresh, Announced, ReadyMeansPR
<1>4. repo # None => repo \in Repos
  BY DEF Inv, TypeInv, TypeOK
<1>5. ReadyMeansPR'
  BY <1>3, <1>4, WriteStatusFresh DEF Inv, ReadyMeansPR
<1> QED
  BY <1>2, <1>5

LEMMA WorkerStepInv ==
    ASSUME Inv, WorkerStep
    PROVE  Fresh' /\ Announced' /\ ReadyMeansPR'
<1> USE DEF WorkerFrame, NoWrite, cacheVars
<1>s. cur \in Workers /\ cur.status \in Statuses
  BY DEF Inv, TypeInv, TypeOK, Workers
<1>i. ASSUME NEW error \in BOOLEAN, Return(error)
      PROVE  cur'.pc = "idle" /\ ~cur'.fresh
  BY <1>i, ReturnType DEF Inv
<1>1. CASE Begin
  <2>1. cur' = cur \/ (cur'.pc = "gates" /\ (cur'.fresh => cur'.repo = repo /\ cur'.status = status))
    BY <1>1, <1>s DEF Begin, Inv, Fresh, Workers
  <2> QED
    BY <1>1, <2>1 DEF Begin, Inv, Fresh, Announced, ReadyMeansPR
<1>2. CASE CheckReady
  <2>1. (cur'.pc = "idle" /\ ~cur'.fresh) \/ (cur'.pc = "content" /\ cur'.fresh = cur.fresh
                                            /\ cur'.repo = cur.repo /\ cur'.status = cur.status)
    BY <1>2, <1>s, <1>i DEF CheckReady, Workers
  <2> QED
    BY <1>2, <2>1 DEF CheckReady, Inv, Fresh, Announced, ReadyMeansPR
<1>3. CASE GetRepoContent
  <2> DEFINE content == Content(cTypes, cPackages, cBase)
  <2>1. Decide(content) \in {"idle", "unmark", "announce", "mark"}
        /\ (Decide(content) = "announce" => content # cur.status.hash)
    BY <1>s DEF Decide, Statuses
  <2>2. \/ cur'.pc = "idle" /\ ~cur'.fresh
        \/ /\ cur'.pc = Decide(content) /\ cur'.content = content /\ cur'.fresh = cur.fresh
           /\ cur'.repo = cur.repo /\ cur'.status = cur.status
    BY <1>3, <1>s, <1>i DEF GetRepoContent, Workers
  <2> QED
    BY <1>3, <2>1, <2>2 DEF GetRepoContent, Inv, Fresh, Announced, ReadyMeansPR
<1>4. ASSUME NEW ok \in BOOLEAN, MarkReadyToPR(ok) \/ UnmarkReadyToPR(ok)
      PROVE  Fresh' /\ Announced' /\ ReadyMeansPR'
  <2>1. PICK t \in {"young", "absent"} : WriteStatus([cur.status EXCEPT !.toPR = t], ok)
    BY <1>4 DEF MarkReadyToPR, UnmarkReadyToPR
  <2> DEFINE s == [cur.status EXCEPT !.toPR = t]
  <2>2. s \in Statuses /\ s.ready = cur.status.ready /\ s.hash = cur.status.hash
    BY <1>s DEF Statuses
  <2> HIDE DEF s
  <2> QED
    BY <1>4, <2>1, <2>2, WriteAndReturnInv DEF MarkReadyToPR, UnmarkReadyToPR, s
<1>5. ASSUME NEW ok \in BOOLEAN, Announce(ok) PROVE Fresh' /\ Announced' /\ ReadyMeansPR'
  <2> DEFINE s == [cur.status EXCEPT !.ready = "CreatingPR"]
  <2>1. s \in Statuses /\ s.ready = "CreatingPR" /\ s.hash = cur.status.hash
    BY <1>s DEF Statuses
  <2>2. WriteStatus(s, ok) /\ UNCHANGED <<repo, cRepo, cStatus, pr>> /\ cur.pc = "announce"
    BY <1>5 DEF Announce
  <2>3. CASE ~ok
    BY <1>5, <2>1, <2>2, <2>3, WriteAndReturnInv DEF Announce
  <2>4. CASE ok
    <3>1. cur' = [cur EXCEPT !.pc = "create", !.status = s]
      BY <1>5, <2>4 DEF Announce
    <3> HIDE DEF s
    <3>2. /\ cur'.pc = "create" /\ cur'.status = s /\ cur'.fresh = cur.fresh
          /\ cur'.repo = cur.repo /\ cur'.content = cur.content
      BY <1>s, <3>1 DEF Workers
    <3>3. status' = s /\ cur.fresh /\ ((repoEvent = "none")' => cRepo' = repo' /\ cStatus' = status')
      BY <2>1, <2>2, <2>4, WriteStatusFresh
    <3> QED
      BY <2>1, <2>2, <3>2, <3>3 DEF Inv, Fresh, Announced, ReadyMeansPR
  <2> QED
    BY <2>3, <2>4
<1>6. ASSUME NEW ok \in BOOLEAN, CreatePR(ok) PROVE Fresh' /\ Announced' /\ ReadyMeansPR'
  <2>1. cur.pc = "create" /\ cur.repo \in Repos /\ pr \in [Repos -> Contents \cup {None}]
    BY <1>6 DEF CreatePR, Inv, TypeInv, TypeOK, InHand
  <2>2. /\ cur'.pc = (IF ok THEN "record" ELSE "fail") /\ cur'.status = cur.status
        /\ cur'.fresh = cur.fresh /\ cur'.repo = cur.repo /\ cur'.content = cur.content
    BY <1>6, <1>s DEF CreatePR, Workers
  <2>3. ok => pr'[cur.repo] = cur.content
    BY <1>6, <2>1 DEF CreatePR
  <2> QED
    BY <1>6, <2>1, <2>2, <2>3 DEF CreatePR, Inv, Fresh, Announced, ReadyMeansPR
<1>7. ASSUME NEW ok \in BOOLEAN, RecordPR(ok) PROVE Fresh' /\ Announced' /\ ReadyMeansPR'
  <2> DEFINE s == [ready |-> "PRCreated", toPR |-> "absent", hash |-> cur.content]
  <2>1. s \in Statuses /\ s.hash = cur.content
    BY <1>7 DEF RecordPR, Inv, TypeInv, InHand, Statuses
  <2> QED
    BY <1>7, <2>1, WriteAndReturnInv DEF RecordPR
<1>8. CASE ManageFailure
  <2> DEFINE s == [cur.status EXCEPT !.ready = "UpdateFailed"]
  <2>1. s \in Statuses /\ s.ready # "PRCreated"
    BY <1>s DEF Statuses
  <2> QED
    BY <1>8, <2>1, WriteAndReturnInv DEF ManageFailure
<1>9. CASE CallFails
  BY <1>9, <1>i DEF CallFails, Inv, Fresh, Announced, ReadyMeansPR
<1> QED
  BY <1>1, <1>2, <1>3, <1>4, <1>5, <1>6, <1>7, <1>8, <1>9 DEF WorkerStep

LEMMA RestartInv ==
    ASSUME Inv, Restart
    PROVE  Fresh' /\ Announced' /\ ReadyMeansPR'
  BY IdleWorkerType DEF Restart, apiVars, Inv, Fresh, Announced, ReadyMeansPR

LEMMA InvStep ==
    ASSUME Inv, [Next]_vars
    PROVE  Inv'
<1>1. TypeInv'
  BY TypeStep DEF Inv
<1>2. ASSUME UNCHANGED vars
      PROVE  Fresh' /\ Announced' /\ ReadyMeansPR'
  BY <1>2, InvFrame DEF vars, apiVars, eventVars, cacheVars
<1>3. Fresh' /\ Announced' /\ ReadyMeansPR'
  BY <1>2, OtherStepInv, ProtocolStepInv, DeliveryStepInv, TimeStepInv, WorkerStepInv, RestartInv
     DEF Next
<1> QED
  BY <1>1, <1>3 DEF Inv

(***************************************************************************)
(* Theorems.                                                               *)
(***************************************************************************)
\* Ready=True tells the truth, whatever fails, restarts, is stale or is edited between
\* the two status updates around CreatePR.
THEOREM ReadyIsTrue == Spec => []ReadyMeansPR
<1>1. Inv => ReadyMeansPR
  BY DEF Inv
<1> QED
  BY <1>1, InvInit, InvStep, PTL DEF Spec

\* No pull request is opened for a content whose hash the status records already.
THEOREM NothingProposedTwice == Spec => NoRepeatedPR
<1>1. ASSUME Inv, [Next]_vars
      PROVE  [(\E ok \in BOOLEAN : CreatePR(ok)) /\ repo # None => cur.content # status.hash]_vars
  BY <1>1 DEF Inv, Announced, CreatePR
<1> QED
  BY <1>1, InvInit, InvStep, PTL DEF Spec, NoRepeatedPR

\* For each repository, the controller follows module PullRequest.
LEMMA UseInit == Init => \A r \in Repos : Use(r)!Init
  BY DEF Init, IdleWorker, Use!Init

\* A step that keeps the worker's place, repository and content, and the pull requests.
LEMMA UseFrame ==
    ASSUME NEW r \in Repos, UNCHANGED pr,
           cur' = cur \/ (cur'.pc = cur.pc /\ cur'.repo = cur.repo /\ cur'.content = cur.content)
    PROVE  UNCHANGED Use(r)!vars
  BY DEF Use!vars

LEMMA UseStep ==
    ASSUME Inv, [Next]_vars, NEW r \in Repos
    PROVE  [Use(r)!Next]_(Use(r)!vars)
<1> DEFINE Refines == Use(r)!Next \/ UNCHANGED Use(r)!vars
<1> SUFFICES Refines
  OBVIOUS
<1>s. cur \in Workers /\ pr \in [Repos -> Contents \cup {None}]
  BY DEF Inv, TypeInv, TypeOK
<1>i. ASSUME NEW error \in BOOLEAN, Return(error)
      PROVE  cur'.pc = "idle"
  BY <1>i, ReturnType DEF Inv
<1>1. ASSUME NEW ok \in BOOLEAN, Announce(ok)
      PROVE  Refines
  <2>1. CASE ok
    <3>1. /\ cur.pc = "announce" /\ cur'.pc = "create" /\ UNCHANGED pr
          /\ cur'.repo = cur.repo /\ cur'.content = cur.content
      BY <1>1, <1>s, <2>1 DEF Announce, Workers
    <3>2. cur.content \in Contents
      BY <3>1 DEF Inv, TypeInv, InHand
    <3> QED
      BY <3>1, <3>2 DEF Use!Next, Use!Ask, Use!vars
  <2>2. CASE ~ok
    BY <1>1, <1>i, <2>2 DEF Announce, Use!vars
  <2> QED
    BY <2>1, <2>2
<1>2. ASSUME NEW ok \in BOOLEAN, CreatePR(ok)
      PROVE  Refines
  <2>1. /\ cur.pc = "create" /\ cur'.pc = (IF ok THEN "record" ELSE "fail")
        /\ cur'.repo = cur.repo /\ cur'.content = cur.content
    BY <1>2, <1>s DEF CreatePR, Workers
  <2>2. cur.repo = r => pr'[r] \in IF ok THEN {cur.content} ELSE {cur.content, None, pr[r]}
    BY <1>2, <1>s DEF CreatePR
  <2>3. cur.repo # r => pr'[r] = pr[r]
    BY <1>2, <1>s DEF CreatePR
  <2> QED
    BY <2>1, <2>2, <2>3 DEF Use!Next, Use!Succeed, Use!Fail, Use!vars
<1>3. ASSUME cur.pc \in {"create", "record"}, cur'.pc = "idle", UNCHANGED pr
      PROVE  Refines
  BY <1>3 DEF Use!Next, Use!Fail, Use!Acknowledge, Use!vars
<1>4. ASSUME cur.pc \notin {"create", "record"}, cur'.pc \notin {"create", "record"}, UNCHANGED pr
      PROVE  Refines
  BY <1>4 DEF Use!vars
<1>5. ASSUME WorkerStep
      PROVE  Refines
  <2>1. CASE Begin
    BY <1>4, <1>s, <2>1 DEF Begin, NoWrite, Workers
  <2>2. CASE CheckReady
    BY <1>4, <1>i, <1>s, <2>2 DEF CheckReady, NoWrite, Workers
  <2>3. CASE GetRepoContent
    <3>1. Decide(Content(cTypes, cPackages, cBase)) \in {"idle", "unmark", "announce", "mark"}
      BY <1>s DEF Decide, Workers, Statuses
    <3> QED
      BY <1>4, <1>i, <1>s, <2>3, <3>1 DEF GetRepoContent, NoWrite, Workers
  <2>4. ASSUME NEW ok \in BOOLEAN, MarkReadyToPR(ok) \/ UnmarkReadyToPR(ok)
        PROVE  Refines
    BY <1>4, <1>i, <2>4 DEF MarkReadyToPR, UnmarkReadyToPR
  <2>5. ASSUME NEW ok \in BOOLEAN, RecordPR(ok)
        PROVE  Refines
    BY <1>3, <1>i, <2>5 DEF RecordPR
  <2>6. CASE ManageFailure
    BY <1>4, <1>i, <2>6 DEF ManageFailure
  <2>7. CASE CallFails
    BY <1>3, <1>4, <1>i, <2>7 DEF CallFails
  <2> QED
    BY <1>1, <1>2, <1>5, <2>1, <2>2, <2>3, <2>4, <2>5, <2>6, <2>7 DEF WorkerStep
<1>6. CASE Restart
  <2>1. cur'.pc = "idle" /\ UNCHANGED pr
    BY <1>6 DEF Restart, IdleWorker
  <2> QED
    BY <1>3, <1>4, <2>1
<1>7. CASE OtherStep
  <2>1. cur' = cur \/ cur' = [cur EXCEPT !.fresh = FALSE]
    BY <1>7 DEF OtherStep, StartRebuild, UpdatePackage, DeleteGate, DeletePackage, RemovePackage,
                EditClusterType, EditBaseRepo, EditGitOpsRepo
  <2>2. UNCHANGED pr
    BY <1>7 DEF OtherStep, StartRebuild, UpdatePackage, DeleteGate, DeletePackage, RemovePackage,
                EditClusterType, EditBaseRepo, EditGitOpsRepo, OtherFrame
  <2> QED
    BY <1>s, <2>1, <2>2, UseFrame DEF Workers
<1>8. CASE ProtocolStep \/ DeliveryStep
  BY <1>8, UseFrame DEF ProtocolStep, CreatePackage, FinishRebuild, CollectPackage,
        RemovePackage, OtherFrame,
        DeliveryStep, DeliverGate, DeliverPackage, DeliverClusterType, DeliverBaseRepo, DeliverGitOpsRepo
<1>9. CASE TimeStep
  <2>1. cur' = cur \/ cur' = [cur EXCEPT !.status.toPR = Older(@)]
    BY <1>9 DEF TimeStep, ConditionAges, CachedConditionAges, TimerFires
  <2>2. UNCHANGED pr
    BY <1>9 DEF TimeStep, ConditionAges, CachedConditionAges, TimerFires, apiVars
  <2> QED
    BY <1>s, <2>1, <2>2, UseFrame DEF Workers
<1>10. CASE UNCHANGED vars
  BY <1>10, UseFrame DEF vars
<1> QED
  BY <1>5, <1>6, <1>7, <1>8, <1>9, <1>10 DEF Next

\* One call at a time, trusted only when it has succeeded: with the theorem about
\* GithubRepo, the controller and the client meet at module PullRequest.
THEOREM ControllerUsesPullRequest == Spec => UsesPullRequest
<1>1. ASSUME Inv, [Next]_vars
      PROVE  [\A r \in Repos : [Use(r)!Next]_(Use(r)!vars)]_vars
  BY <1>1, UseStep
<1> QED
  BY <1>1, UseInit, InvInit, InvStep, PTL DEF Spec, UsesPullRequest

(***************************************************************************)
(* No change is overlooked.                                                *)
(***************************************************************************)
\* Under these three an event can be dropped, or come before what it announces:
\* ChangeNoticed fails then.
NothingMissed == Adversity \cap {"lag", "stale", "relist"} = {}

\* The content is what the namespace wants, up to an unwatched BaseRepo.
IsWanted(content) ==
    \E b \in BaseSpecs \cup {None} : /\ content = Content(types, packages, b)
                                     /\ ("base" \in Adversity \/ b = base)

\* A cache without an undelivered event shows what the API server has.  An update of a
\* package, whose event is dropped, is followed by that of its assignment.
Coherent ==
    /\ \A g \in Gates : /\ gateEvent[g] = "none" => cGate[g] = gate[g]
                        /\ gateEvent[g] = "update" => gate[g] # "absent"
    /\ \A a \in Assignments :
          /\ packageEvent[a] = "none" => cPackages[a] = packages[a]
          /\ packageEvent[a] = "update" =>
                packages[a] # None /\ (gate[a] = "ready" => gateEvent[a] # "none")
    /\ \A c \in ClusterTypes : c \notin typeEvents => (c \in cTypes <=> c \in types)
    /\ "base" \notin Adversity => cBase = base
    /\ repoEvent # "exist" => cRepo = repo

\* Reconcile will run again.
Stirring ==
    \/ queued \/ timer # "none" \/ typeEvents # {} \/ repoEvent = "exist"
    \/ \E g \in Gates : \/ gate[g] = "notReady" \/ gateEvent[g] = "exist"
                        \/ gateEvent[g] = "update" /\ gate[g] = "ready"
    \/ \E a \in Assignments : packageEvent[a] = "exist" \/ (gate[a] = "absent" /\ packages[a] # None)

\* Otherwise the run in progress, if there is one, has what the namespace wants in hand
\* and a copy of the GitOpsRepo that may be written; or there is nothing left to do.
Noticing == (repo # None /\ ~Stirring) =>
    /\ cur.pc = "idle" => status.toPR # "absent" \/ IsWanted(status.hash)
    /\ cur.pc # "idle" => cur.fresh
    /\ cur.pc \in {"unmark", "announce", "create", "record"} => IsWanted(cur.content)
    /\ cur.pc = "unmark" => cur.content = cur.status.hash

LEMMA NoticedInit == Init => Coherent /\ Noticing
  BY DEF Init, Coherent, Noticing, Stirring

\* Of the API server's objects the worker writes the GitOpsRepo alone.
LEMMA CoherentWorker ==
    ASSUME Inv, Coherent, WorkerStep
    PROVE  Coherent'
<1>1. WorkerFrame /\ (repoEvent' # "exist" => repoEvent # "exist")
  BY DEF WorkerStep, Begin, CheckReady, GetRepoContent, MarkReadyToPR, UnmarkReadyToPR, Announce, CreatePR,
         RecordPR, ManageFailure, CallFails, NoWrite, WriteStatus
<1> QED
  BY <1>1 DEF WorkerFrame, cacheVars, Coherent

LEMMA SetGateCoherent ==
    ASSUME Inv, Coherent, NEW g \in Gates, NEW value \in {"absent", "notReady", "ready"}, SetGate(g, value)
    PROVE  /\ \A h \in Gates : /\ gateEvent'[h] = "none" => cGate[h] = gate'[h]
                               /\ gateEvent'[h] = "update" => gate'[h] # "absent"
           /\ gateEvent'[g] # "none" /\ gate'[g] = value
           /\ \A h \in Gates : h # g => gate'[h] = gate[h] /\ gateEvent'[h] = gateEvent[h]
  BY DEF Inv, TypeInv, TypeOK, Coherent, SetGate, Fold

LEMMA CoherentOther ==
    ASSUME NothingMissed, Inv, Coherent, OtherStep \/ ProtocolStep
    PROVE  Coherent'
<1>g. Assignments \subseteq Gates
  BY DEF Gates
<1>1. ASSUME NEW g \in Gates, StartRebuild(g) \/ FinishRebuild(g) \/ DeleteGate(g)
      PROVE  Coherent'
  <2>1. PICK value \in {"absent", "notReady", "ready"} : SetGate(g, value)
    BY <1>1 DEF StartRebuild, FinishRebuild, DeleteGate
  <2>2. UNCHANGED <<packages, types, base, repo, packageEvent, typeEvents, baseEvent, repoEvent, cacheVars>>
    BY <1>1 DEF StartRebuild, FinishRebuild, DeleteGate, OtherFrame
  <2> QED
    BY <1>g, <2>1, <2>2, SetGateCoherent DEF Coherent, cacheVars
<1>2. ASSUME NEW a \in Assignments, NEW v \in Versions, CreatePackage(a, v) \/ UpdatePackage(a, v)
      PROVE  Coherent'
  <2>1. /\ gate[a] # "ready" /\ packages' = [packages EXCEPT ![a] = v]
        /\ \/ packageEvent' = [packageEvent EXCEPT ![a] = "exist"]
           \/ packageEvent' = [packageEvent EXCEPT ![a] = Fold(@, "update")]
    BY <1>2 DEF CreatePackage, UpdatePackage
  <2>2. UNCHANGED <<gate, types, base, repo, gateEvent, typeEvents, baseEvent, repoEvent, cacheVars>>
    BY <1>2 DEF CreatePackage, UpdatePackage, OtherFrame
  <2>3. packages'[a] # None /\ packageEvent'[a] # "none"
    BY <2>1, ConstantsAssumption DEF Inv, TypeInv, TypeOK, Fold
  <2>4. \A b \in Assignments : b # a => packages'[b] = packages[b] /\ packageEvent'[b] = packageEvent[b]
    BY <2>1 DEF Inv, TypeInv, TypeOK
  <2> QED
    BY <2>1, <2>2, <2>3, <2>4 DEF Coherent, cacheVars
<1>3. ASSUME NEW a \in Assignments, DeletePackage(a) \/ CollectPackage(a)
      PROVE  Coherent'
  <2>1. /\ packages' = [packages EXCEPT ![a] = None]
        /\ packageEvent' = [packageEvent EXCEPT ![a] = "exist"]
        /\ UNCHANGED <<gate, types, base, repo, gateEvent, typeEvents, baseEvent, repoEvent, cacheVars>>
    BY <1>3 DEF DeletePackage, CollectPackage, RemovePackage, OtherFrame
  <2>2. \A b \in Assignments : b # a => packages'[b] = packages[b] /\ packageEvent'[b] = packageEvent[b]
    BY <2>1 DEF Inv, TypeInv, TypeOK
  <2>3. packageEvent'[a] = "exist"
    BY <2>1 DEF Inv, TypeInv, TypeOK
  <2> QED
    BY <2>1, <2>2, <2>3 DEF Coherent, cacheVars
<1>4. ASSUME NEW c \in ClusterTypes, EditClusterType(c)
      PROVE  Coherent'
  BY <1>4 DEF EditClusterType, OtherFrame, cacheVars, Coherent
<1>5. ASSUME NEW b \in BaseSpecs \cup {None}, EditBaseRepo(b)
      PROVE  Coherent'
  BY <1>5 DEF EditBaseRepo, OtherFrame, cacheVars, Coherent
<1>6. ASSUME NEW r \in Repos \cup {None}, EditGitOpsRepo(r)
      PROVE  Coherent'
  BY <1>6 DEF EditGitOpsRepo, cacheVars, Coherent
<1> QED
  BY <1>1, <1>2, <1>3, <1>4, <1>5, <1>6 DEF OtherStep, ProtocolStep

\* Without lag an assignment's event is delivered after that of its package.
LEMMA CoherentDelivery ==
    ASSUME NothingMissed, Inv, Coherent, DeliveryStep
    PROVE  Coherent'
<1>g. Assignments \subseteq Gates /\ "lag" \notin Adversity
  BY DEF Gates, NothingMissed
<1>1. ASSUME NEW g \in Gates, NEW unknown \in BOOLEAN, DeliverGate(g, unknown)
      PROVE  Coherent'
  <2>1. /\ gateEvent' = [gateEvent EXCEPT ![g] = "none"] /\ cGate' = [cGate EXCEPT ![g] = gate[g]]
        /\ g \in Assignments => packageEvent[g] = "none"
        /\ UNCHANGED <<gate, packages, types, base, repo, packageEvent, typeEvents, repoEvent, cPackages,
                       cTypes, cBase, cRepo>>
    BY <1>g, <1>1 DEF DeliverGate, apiVars
  <2>2. /\ gateEvent'[g] = "none" /\ cGate'[g] = gate[g]
        /\ \A h \in Gates : h # g => gateEvent'[h] = gateEvent[h] /\ cGate'[h] = cGate[h]
    BY <2>1 DEF Inv, TypeInv, TypeOK
  <2> QED
    BY <1>g, <2>1, <2>2 DEF Coherent
<1>2. ASSUME NEW a \in Assignments, NEW unknown \in BOOLEAN, DeliverPackage(a, unknown)
      PROVE  Coherent'
  <2>1. /\ packageEvent' = [packageEvent EXCEPT ![a] = "none"]
        /\ cPackages' = [cPackages EXCEPT ![a] = packages[a]]
        /\ UNCHANGED <<gate, packages, types, base, repo, gateEvent, typeEvents, repoEvent, cGate, cTypes,
                       cBase, cRepo>>
    BY <1>2 DEF DeliverPackage, apiVars
  <2>2. /\ packageEvent'[a] = "none" /\ cPackages'[a] = packages[a]
        /\ \A b \in Assignments : b # a => packageEvent'[b] = packageEvent[b] /\ cPackages'[b] = cPackages[b]
    BY <2>1 DEF Inv, TypeInv, TypeOK
  <2> QED
    BY <2>1, <2>2 DEF Coherent
<1>3. ASSUME NEW c \in ClusterTypes, NEW unknown \in BOOLEAN, DeliverClusterType(c, unknown)
      PROVE  Coherent'
  BY <1>3 DEF DeliverClusterType, apiVars, Coherent
<1>4. CASE DeliverBaseRepo \/ DeliverGitOpsRepo
  BY <1>4 DEF DeliverBaseRepo, DeliverGitOpsRepo, apiVars, Coherent
<1> QED
  BY <1>1, <1>2, <1>3, <1>4 DEF DeliveryStep

LEMMA CoherentStep ==
    ASSUME NothingMissed, Inv, Coherent, [Next]_vars
    PROVE  Coherent'
<1>1. CASE TimeStep
  BY <1>1 DEF TimeStep, ConditionAges, CachedConditionAges, TimerFires, apiVars, eventVars, cacheVars, Coherent
<1>2. CASE Restart
  BY <1>2 DEF Restart, apiVars, Coherent
<1>3. CASE UNCHANGED vars
  BY <1>3 DEF vars, apiVars, eventVars, cacheVars, Coherent
<1> QED
  BY <1>1, <1>2, <1>3, CoherentWorker, CoherentOther, CoherentDelivery DEF Next

\* What the environment does leaves a reason to reconcile, or leaves another one, and
\* without a reason it leaves the wanted content alone.
LEMMA StirringOther ==
    ASSUME NothingMissed, Inv, Coherent, OtherStep \/ ProtocolStep
    PROVE  Stirring' \/ (~Stirring /\ UNCHANGED <<packages, types, repo, status, cur>>
                                   /\ ("base" \in Adversity \/ UNCHANGED base))
<1>g. Assignments \subseteq Gates
  BY DEF Gates
<1>1. ASSUME NEW g \in Gates, StartRebuild(g) \/ FinishRebuild(g) \/ DeleteGate(g)
      PROVE  Stirring'
  <2>1. PICK value \in {"absent", "notReady", "ready"} :
              /\ SetGate(g, value)
              /\ value = "absent" => gate[g] # "absent"
    BY <1>1 DEF StartRebuild, FinishRebuild, DeleteGate
  <2>2. gateEvent'[g] \in {"update", "exist"} /\ gate'[g] = value
        /\ (value = "absent" => gateEvent'[g] = "exist")
    BY <2>1 DEF SetGate, Fold, Inv, TypeInv, TypeOK
  <2> QED
    BY <2>2 DEF Stirring
<1>2. ASSUME NEW a \in Assignments, NEW v \in Versions, CreatePackage(a, v)
      PROVE  Stirring'
  <2>1. packageEvent'[a] = "exist"
    BY <1>2 DEF CreatePackage, Inv, TypeInv, TypeOK
  <2> QED
    BY <2>1 DEF Stirring
<1>3. ASSUME NEW a \in Assignments, NEW v \in Versions, UpdatePackage(a, v)
      PROVE  Stirring'
  <2>1. gate'[a] \in {"absent", "notReady"} /\ packages'[a] # None
    BY <1>3, <1>g, ConstantsAssumption DEF UpdatePackage, Inv, TypeInv, TypeOK
  <2> QED
    BY <1>g, <2>1 DEF Stirring
<1>4. ASSUME NEW a \in Assignments, DeletePackage(a) \/ CollectPackage(a)
      PROVE  Stirring'
  <2>1. packageEvent'[a] = "exist"
    BY <1>4 DEF DeletePackage, CollectPackage, RemovePackage, Inv, TypeInv, TypeOK
  <2> QED
    BY <2>1 DEF Stirring
<1>5. ASSUME NEW c \in ClusterTypes, EditClusterType(c)
      PROVE  Stirring'
  BY <1>5 DEF EditClusterType, Stirring
<1>6. ASSUME NEW b \in BaseSpecs \cup {None}, EditBaseRepo(b)
      PROVE  /\ UNCHANGED <<gate, packages, types, repo, status, gateEvent, packageEvent, typeEvents,
                            repoEvent, queued, timer, cur>>
             /\ "base" \in Adversity
  BY <1>6 DEF EditBaseRepo, OtherFrame
<1>7. ASSUME NEW r \in Repos \cup {None}, EditGitOpsRepo(r)
      PROVE  Stirring'
  BY <1>7 DEF EditGitOpsRepo, Stirring
<1> QED
  BY <1>1, <1>2, <1>3, <1>4, <1>5, <1>6, <1>7 DEF OtherStep, ProtocolStep, Stirring

\* A delivery puts the GitOpsRepo into the queue or leaves a reason to reconcile; only
\* that of the BaseRepo, or of an update of the status, does neither.
LEMMA StirringDelivery ==
    ASSUME NothingMissed, Inv, Coherent, repo # None, DeliveryStep
    PROVE  /\ Stirring' \/ ~Stirring
           /\ UNCHANGED <<packages, types, base, repo, status, cur>>
<1>g. Assignments \subseteq Gates /\ Adversity \cap {"lag", "relist"} = {}
  BY DEF Gates, NothingMissed
<1>q. ASSUME FindGitOpsRepo(TRUE), UNCHANGED repoEvent PROVE Stirring'
  <2>1. repoEvent = "exist" \/ cRepo # None
    BY DEF Coherent
  <2> QED
    BY <1>q, <2>1 DEF FindGitOpsRepo, Stirring
<1>1. ASSUME NEW g \in Gates, NEW unknown \in BOOLEAN, DeliverGate(g, unknown)
      PROVE  Stirring'
  <2>1. ~unknown /\ gateEvent[g] \in {"update", "exist"} /\ UNCHANGED <<gate, repoEvent>>
        /\ FindGitOpsRepo(gateEvent[g] = "exist" \/ gate[g] = "ready")
    BY <1>g, <1>1 DEF DeliverGate, Unknowable, apiVars, Inv, TypeInv, TypeOK, FindGitOpsRepo
  <2>2. CASE gateEvent[g] = "exist" \/ gate[g] = "ready"
    <3>1. FindGitOpsRepo(TRUE)
      BY <2>1, <2>2 DEF FindGitOpsRepo
    <3> QED
      BY <1>q, <2>1, <3>1
  <2>3. CASE gateEvent[g] = "update" /\ gate[g] # "ready"
    <3>1. gate'[g] = "notReady"
      BY <2>1, <2>3 DEF Coherent, Inv, TypeInv, TypeOK
    <3> QED
      BY <3>1 DEF Stirring
  <2> QED
    BY <2>1, <2>2, <2>3
<1>2. ASSUME NEW a \in Assignments, NEW unknown \in BOOLEAN, DeliverPackage(a, unknown)
      PROVE  Stirring'
  <2>1. /\ ~unknown /\ packageEvent[a] \in {"update", "exist"}
        /\ UNCHANGED <<gate, packages, gateEvent, repoEvent>> /\ FindGitOpsRepo(packageEvent[a] = "exist")
    BY <1>g, <1>2 DEF DeliverPackage, Unknowable, apiVars, Inv, TypeInv, TypeOK, FindGitOpsRepo
  <2>2. CASE packageEvent[a] = "exist"
    <3>1. FindGitOpsRepo(TRUE)
      BY <2>1, <2>2 DEF FindGitOpsRepo
    <3> QED
      BY <1>q, <2>1, <3>1
  <2>3. CASE packageEvent[a] = "update"
    <3>1. packages[a] # None /\ (gate[a] = "ready" => gateEvent[a] # "none")
      BY <2>3 DEF Coherent
    <3>2. gate[a] \in {"absent", "notReady", "ready"} /\ gateEvent[a] \in {"none", "update", "exist"}
      BY <1>g DEF Inv, TypeInv, TypeOK
    <3> QED
      BY <1>g, <2>1, <3>1, <3>2 DEF Stirring
  <2> QED
    BY <2>1, <2>2, <2>3
<1>3. ASSUME NEW c \in ClusterTypes, NEW unknown \in BOOLEAN, DeliverClusterType(c, unknown)
      PROVE  Stirring'
  <2>1. ~unknown /\ UNCHANGED repoEvent /\ FindGitOpsRepo(TRUE)
    BY <1>g, <1>3 DEF DeliverClusterType, Unknowable, FindGitOpsRepo
  <2> QED
    BY <1>q, <2>1
<1>4. CASE DeliverBaseRepo
  BY <1>4 DEF DeliverBaseRepo, apiVars, Stirring
<1>5. CASE DeliverGitOpsRepo
  BY <1>5 DEF DeliverGitOpsRepo, apiVars, Stirring
<1>6. UNCHANGED <<packages, types, base, repo, status, cur>>
  BY DEF DeliveryStep, DeliverGate, DeliverPackage, DeliverClusterType, DeliverBaseRepo, DeliverGitOpsRepo,
         apiVars
<1> QED
  BY <1>1, <1>2, <1>3, <1>4, <1>5, <1>6 DEF DeliveryStep

\* Without a reason to reconcile the caches show what the API server has.
LEMMA CachesShow ==
    ASSUME Inv, Coherent, ~Stirring
    PROVE  /\ \A g \in Gates : cGate[g] # "notReady"
           /\ IsWanted(Content(cTypes, cPackages, cBase))
<1>1. ASSUME NEW g \in Gates PROVE cGate[g] = gate[g] /\ gate[g] # "notReady"
  <2>1. gate[g] \in {"absent", "notReady", "ready"} /\ gateEvent[g] \in {"none", "update", "exist"}
    BY DEF Inv, TypeInv, TypeOK
  <2> QED
    BY <2>1 DEF Coherent, Stirring
<1>2. ASSUME NEW a \in Assignments PROVE cPackages[a] = packages[a]
  <2>1. a \in Gates /\ gate[a] \in {"absent", "notReady", "ready"}
        /\ gateEvent[a] \in {"none", "update", "exist"} /\ packageEvent[a] \in {"none", "update", "exist"}
    BY DEF Gates, Inv, TypeInv, TypeOK
  <2> QED
    BY <2>1 DEF Coherent, Stirring
<1>3. cPackages = packages
  BY <1>2 DEF Inv, TypeInv, TypeOK
<1>4. cTypes = types
  BY DEF Inv, TypeInv, TypeOK, Coherent, Stirring
<1>5. cBase \in BaseSpecs \cup {None} /\ ("base" \in Adversity \/ cBase = base)
  BY DEF Inv, TypeInv, TypeOK, Coherent
<1> QED
  BY <1>1, <1>3, <1>4, <1>5 DEF IsWanted

LEMMA NoticingTime ==
    ASSUME Inv, Noticing, TimeStep
    PROVE  Noticing'
<1>1. /\ cur \in Workers /\ cur.status \in Statuses /\ status \in Statuses
  BY DEF Inv, TypeInv, TypeOK, Workers
<1>2. CASE ConditionAges
  <2>1. /\ status' = [status EXCEPT !.toPR = "old"] /\ cur' = [cur EXCEPT !.status.toPR = Older(@)]
        /\ UNCHANGED <<gate, packages, types, base, repo, gateEvent, packageEvent, typeEvents, repoEvent,
                       queued, timer>>
    BY <1>2 DEF ConditionAges, eventVars
  <2>2. status'.toPR # "absent" /\ cur'.pc = cur.pc /\ cur'.fresh = cur.fresh
        /\ cur'.content = cur.content /\ cur'.status.hash = cur.status.hash
    BY <1>1, <2>1 DEF Workers, Statuses
  <2> QED
    BY <2>1, <2>2 DEF Noticing, Stirring, IsWanted
<1>3. CASE CachedConditionAges
  <2>1. /\ cur' = cur \/ cur' = [cur EXCEPT !.status.toPR = Older(@)]
        /\ UNCHANGED <<gate, packages, types, base, repo, status, gateEvent, packageEvent, typeEvents,
                       repoEvent, queued, timer>>
    BY <1>3 DEF CachedConditionAges, apiVars, eventVars
  <2>2. cur'.pc = cur.pc /\ cur'.fresh = cur.fresh
        /\ cur'.content = cur.content /\ cur'.status.hash = cur.status.hash
    BY <1>1, <2>1 DEF Workers, Statuses
  <2> QED
    BY <2>1, <2>2 DEF Noticing, Stirring, IsWanted
<1>4. CASE TimerFires
  BY <1>4 DEF TimerFires, Noticing, Stirring
<1> QED
  BY <1>2, <1>3, <1>4 DEF TimeStep

\* The only step that uses up a reason to reconcile is Begin, and it reads what the
\* caches show; a call that is refused or fails leaves the request in the queue.
LEMMA NoticingWorker ==
    ASSUME NothingMissed, Inv, Coherent, Noticing, WorkerStep, repo' # None, ~Stirring'
    PROVE  Noticing'
<1>s. cur \in Workers /\ cur.status \in Statuses
  BY DEF Inv, TypeInv, TypeOK, Workers
<1>f. UNCHANGED <<gate, packages, types, base, repo, gateEvent, packageEvent, typeEvents>>
  BY DEF WorkerStep, Begin, CheckReady, GetRepoContent, MarkReadyToPR, UnmarkReadyToPR, Announce, CreatePR,
         RecordPR, ManageFailure, CallFails, WorkerFrame
<1>w. \A content : IsWanted(content)' <=> IsWanted(content)
  BY <1>f DEF IsWanted
<1>e. ASSUME Return(TRUE) PROVE FALSE
  BY <1>e DEF Return, Stirring
<1>b. ASSUME UNCHANGED queued \/ Return(FALSE), repoEvent' = "exist" <=> repoEvent = "exist", UNCHANGED timer
      PROVE  ~Stirring
  BY <1>b, <1>f DEF Stirring, Return, Inv, TypeInv, TypeOK
<1>i. Return(FALSE) => cur'.pc = "idle"
  BY IdleWorkerType DEF Return
<1>1. CASE Begin
  <2>1. "stale" \notin Adversity /\ repoEvent = "none" /\ cRepo = repo /\ repo # None
    BY <1>1, <1>f DEF Begin, NothingMissed, Coherent
  <2>2. cur'.pc = "gates" /\ cur'.fresh
    BY <1>1, <1>s, <2>1 DEF Begin, Workers
  <2> QED
    BY <2>2 DEF Noticing
<1>2. CASE CheckReady
  <2>1. ~Stirring
    BY <1>2, <1>b DEF CheckReady, NoWrite
  <2>2. cur'.pc = "content" /\ cur'.fresh = cur.fresh /\ cur.pc = "gates"
    BY <1>2, <1>s, <2>1, CachesShow DEF CheckReady, Workers
  <2> QED
    BY <1>f, <2>1, <2>2 DEF Noticing
<1>3. CASE GetRepoContent
  <2> DEFINE content == Content(cTypes, cPackages, cBase)
  <2>1. ~Stirring /\ cur.pc = "content" /\ UNCHANGED status
    BY <1>3, <1>b DEF GetRepoContent, NoWrite
  <2>2. cur.fresh /\ cur.status = status
    BY <1>f, <2>1 DEF Noticing, Inv, Fresh
  <2>3. IsWanted(content)
    BY <2>1, CachesShow
  <2>4. CASE Decide(content) = "idle"
    <3>1. cur'.pc = "idle"
      BY <1>3, <1>i, <2>4 DEF GetRepoContent
    <3>2. status.toPR # "absent" \/ content = status.hash
      BY <1>s, <2>2, <2>4 DEF Decide, Statuses
    <3> QED
      BY <1>w, <2>1, <2>3, <3>1, <3>2 DEF Noticing
  <2>5. CASE Decide(content) # "idle"
    <3>1. cur'.pc = Decide(content) /\ cur'.content = content /\ cur'.fresh /\ cur'.status = cur.status
      BY <1>3, <1>s, <2>2, <2>5 DEF GetRepoContent, Workers
    <3>2. Decide(content) = "unmark" => content = cur.status.hash
      BY <1>s DEF Decide, Statuses
    <3> QED
      BY <1>w, <2>3, <2>5, <3>1, <3>2 DEF Noticing
  <2> QED
    BY <2>4, <2>5
<1>4. ASSUME NEW ok \in BOOLEAN, MarkReadyToPR(ok) PROVE FALSE
  BY <1>4, <1>e DEF MarkReadyToPR, Stirring
<1>u. ASSUME NEW s, NEW ok \in BOOLEAN, WriteStatus(s, ok)
      PROVE  (repoEvent' = "exist" <=> repoEvent = "exist") /\ (ok => cur.fresh /\ status' = s)
  BY <1>u DEF WriteStatus, Inv, TypeInv, TypeOK
<1>5. ASSUME NEW ok \in BOOLEAN, UnmarkReadyToPR(ok) PROVE Noticing'
  <2>1. ok /\ Return(FALSE) /\ cur.pc = "unmark" /\ WriteStatus([cur.status EXCEPT !.toPR = "absent"], ok)
        /\ UNCHANGED timer
    BY <1>5, <1>e DEF UnmarkReadyToPR
  <2>2. ~Stirring /\ status' = [cur.status EXCEPT !.toPR = "absent"]
    BY <1>b, <1>u, <2>1
  <2>3. IsWanted(status'.hash)
    BY <1>s, <1>f, <2>1, <2>2 DEF Noticing, Statuses
  <2> QED
    BY <1>i, <1>w, <2>1, <2>3 DEF Noticing
<1>6. ASSUME NEW ok \in BOOLEAN, Announce(ok) PROVE Noticing'
  <2>1. ok /\ cur.pc = "announce" /\ UNCHANGED <<queued, timer>>
        /\ WriteStatus([cur.status EXCEPT !.ready = "CreatingPR"], ok)
        /\ cur' = [cur EXCEPT !.pc = "create", !.status = [cur.status EXCEPT !.ready = "CreatingPR"]]
    BY <1>6, <1>e DEF Announce
  <2>2. ~Stirring
    BY <1>b, <1>u, <2>1
  <2>3. cur'.pc = "create" /\ cur'.fresh = cur.fresh /\ cur'.content = cur.content
    BY <1>s, <2>1 DEF Workers
  <2> QED
    BY <1>f, <1>w, <2>1, <2>2, <2>3 DEF Noticing
<1>7. ASSUME NEW ok \in BOOLEAN, CreatePR(ok) PROVE Noticing'
  <2>1. ~Stirring
    BY <1>7, <1>b DEF CreatePR
  <2>2. cur.pc = "create" /\ cur'.pc \in {"record", "fail"} /\ cur'.fresh = cur.fresh
        /\ cur'.content = cur.content
    BY <1>7, <1>s DEF CreatePR, Workers
  <2> QED
    BY <1>f, <1>w, <2>1, <2>2 DEF Noticing
<1>8. ASSUME NEW ok \in BOOLEAN, RecordPR(ok) PROVE Noticing'
  <2>1. ok /\ Return(FALSE) /\ cur.pc = "record" /\ UNCHANGED timer
        /\ WriteStatus([ready |-> "PRCreated", toPR |-> "absent", hash |-> cur.content], ok)
    BY <1>8, <1>e DEF RecordPR
  <2>2. ~Stirring /\ status' = [ready |-> "PRCreated", toPR |-> "absent", hash |-> cur.content]
    BY <1>b, <1>u, <2>1
  <2>3. status'.hash = cur.content
    BY <2>2
  <2> QED
    BY <1>f, <1>i, <1>w, <2>1, <2>2, <2>3 DEF Noticing
<1>9. CASE ManageFailure \/ CallFails
  BY <1>9, <1>e DEF ManageFailure, CallFails
<1> QED
  BY <1>1, <1>2, <1>3, <1>4, <1>5, <1>6, <1>7, <1>8, <1>9 DEF WorkerStep

LEMMA NoticingStep ==
    ASSUME NothingMissed, Inv, Coherent, Noticing, [Next]_vars
    PROVE  Noticing'
<1>1. CASE OtherStep \/ ProtocolStep
  <2>1. CASE Stirring'
    BY <2>1 DEF Noticing
  <2>2. CASE ~Stirring /\ UNCHANGED <<packages, types, repo, status, cur>>
                /\ ("base" \in Adversity \/ UNCHANGED base)
    BY <2>2 DEF Noticing, IsWanted
  <2> QED
    BY <1>1, <2>1, <2>2, StirringOther
<1>2. CASE DeliveryStep
  <2>1. UNCHANGED repo
    BY <1>2 DEF DeliveryStep, DeliverGate, DeliverPackage, DeliverClusterType, DeliverBaseRepo,
                DeliverGitOpsRepo, apiVars
  <2> QED
    BY <1>2, <2>1, StirringDelivery DEF Noticing, IsWanted
<1>3. CASE Restart
  BY <1>3 DEF Restart, apiVars, Noticing, Stirring
<1>4. CASE WorkerStep
  BY <1>4, NoticingWorker DEF Noticing
<1>5. CASE UNCHANGED vars
  BY <1>5 DEF vars, apiVars, eventVars, Noticing, Stirring, IsWanted
<1> QED
  BY <1>1, <1>2, <1>3, <1>4, <1>5, NoticingTime DEF Next

\* When the controller rests on a ready namespace, its status records what the namespace
\* wants or says that a pull request is due, whatever is edited, refused, lost or
\* restarted, unless an event is dropped or comes before the one it depends on.
THEOREM ChangesNoticed == NothingMissed => (Spec => []ChangeNoticed)
<1> SUFFICES ASSUME NothingMissed PROVE Spec => []ChangeNoticed
  OBVIOUS
<1>1. Init => Inv /\ Coherent /\ Noticing
  BY InvInit, NoticedInit
<1>2. Inv /\ Coherent /\ Noticing /\ [Next]_vars => (Inv /\ Coherent /\ Noticing)'
  BY InvStep, CoherentStep, NoticingStep
<1>3. Inv /\ Coherent /\ Noticing => ChangeNoticed
  <2> SUFFICES ASSUME Inv, Coherent, Noticing, repo # None, Quiet, AllReady
               PROVE  status.toPR # "absent" \/ IsWanted(status.hash)
    BY DEF ChangeNoticed, IsWanted
  <2>1. ~Stirring /\ cur.pc = "idle"
    BY DEF Quiet, AllReady, Stirring
  <2> QED
    BY <2>1 DEF Noticing
<1> QED
  BY <1>1, <1>2, <1>3, PTL DEF Spec

(***************************************************************************)
(* The environment.                                                        *)
(***************************************************************************)
\* An assignment and its package, as the controller's environment moves them.
Upstream(a) == INSTANCE AssignmentProtocol WITH
    Specs <- Versions, gate <- gate[a], package <- packages[a]

LEMMA UpstreamSetGate ==
    ASSUME TypeInv, NEW a \in Assignments, NEW g \in Gates, NEW value \in {"notReady", "ready", "absent"},
           SetGate(g, value), UNCHANGED packages,
           \/ value = "absent"
           \/ value = "ready" /\ gate[g] = "notReady"
           \/ value = "notReady" /\ gate[g] \in {"absent", "ready"}
    PROVE  [Upstream(a)!Next]_(Upstream(a)!vars)
<1>1. gate'[g] = value /\ (a # g => gate'[a] = gate[a]) /\ packages'[a] = packages[a]
  BY DEF TypeInv, TypeOK, SetGate, Gates
<1> QED
  BY <1>1 DEF Upstream!Next, Upstream!vars, Upstream!StartRebuild, Upstream!FinishRebuild,
              Upstream!DeleteGate

LEMMA UpstreamSetPackage ==
    ASSUME TypeInv, NEW a \in Assignments, NEW b \in Assignments, NEW v \in Versions \cup {None},
           packages' = [packages EXCEPT ![b] = v], v = None \/ gate[b] # "ready", UNCHANGED gate
    PROVE  [Upstream(a)!Next]_(Upstream(a)!vars)
<1>1. packages'[b] = v /\ (a # b => packages'[a] = packages[a]) /\ gate'[a] = gate[a]
  BY DEF TypeInv, TypeOK
<1> QED
  BY <1>1 DEF Upstream!Next, Upstream!vars, Upstream!WritePackage, Upstream!RemovePackage

LEMMA UpstreamStep ==
    ASSUME TypeInv, [Next]_vars, NEW a \in Assignments
    PROVE  [Upstream(a)!Next]_(Upstream(a)!vars)
<1> DEFINE Goal == [Upstream(a)!Next]_(Upstream(a)!vars)
<1>1. ASSUME NEW g \in Gates, StartRebuild(g) \/ FinishRebuild(g) \/ DeleteGate(g)
      PROVE  Goal
  BY <1>1, UpstreamSetGate DEF StartRebuild, FinishRebuild, DeleteGate
<1>2. ASSUME NEW b \in Assignments, NEW v \in Versions, CreatePackage(b, v) \/ UpdatePackage(b, v)
      PROVE  Goal
  BY <1>2, UpstreamSetPackage DEF CreatePackage, UpdatePackage
<1>3. ASSUME NEW b \in Assignments, DeletePackage(b) \/ CollectPackage(b)
      PROVE  Goal
  BY <1>3, UpstreamSetPackage DEF DeletePackage, CollectPackage, RemovePackage
<1>s. UNCHANGED <<gate, packages>> => Goal
  BY DEF Upstream!vars
<1>4. ASSUME NEW c \in ClusterTypes, EditClusterType(c) PROVE Goal
  BY <1>4, <1>s DEF EditClusterType
<1>5. ASSUME NEW b \in BaseSpecs \cup {None}, EditBaseRepo(b) PROVE Goal
  BY <1>5, <1>s DEF EditBaseRepo
<1>6. ASSUME NEW r \in Repos \cup {None}, EditGitOpsRepo(r) PROVE Goal
  BY <1>6, <1>s DEF EditGitOpsRepo
<1>7. CASE DeliveryStep
  BY <1>7, <1>s DEF DeliveryStep, DeliverGate, DeliverPackage, DeliverClusterType, DeliverBaseRepo,
                    DeliverGitOpsRepo, apiVars
<1>8. CASE TimeStep
  BY <1>8, <1>s DEF TimeStep, ConditionAges, CachedConditionAges, TimerFires, apiVars
<1>9. CASE WorkerStep
  BY <1>9, <1>s DEF WorkerStep, Begin, CheckReady, GetRepoContent, MarkReadyToPR, UnmarkReadyToPR, Announce,
                    CreatePR, RecordPR, ManageFailure, CallFails, WorkerFrame
<1>10. CASE Restart \/ UNCHANGED vars
  BY <1>10, <1>s DEF Restart, vars, apiVars
<1> QED
  BY <1>1, <1>2, <1>3, <1>4, <1>5, <1>6, <1>7, <1>8, <1>9, <1>10 DEF Next, OtherStep, ProtocolStep

\* The environment makes only steps that the assignment controller may make: what is
\* proved of this controller rests on AssignmentProtocol and on nothing else upstream.
THEOREM EnvironmentFollowsProtocol ==
    Spec => \A a \in Assignments : Upstream(a)!Init /\ [][Upstream(a)!Next]_(Upstream(a)!vars)
<1> SUFFICES ASSUME NEW a \in Assignments
             PROVE  Spec => Upstream(a)!Init /\ [][Upstream(a)!Next]_(Upstream(a)!vars)
  OBVIOUS
<1>1. Init => Upstream(a)!Init
  BY DEF Init, Upstream!Init
<1>2. TypeInv /\ [Next]_vars => [Upstream(a)!Next]_(Upstream(a)!vars)
  BY UpstreamStep
<1> QED
  BY <1>1, <1>2, TypeInit, TypeStep, PTL DEF Spec
=============================================================================

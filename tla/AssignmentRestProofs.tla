-------------------------- MODULE AssignmentRestProofs ------------------------
(***************************************************************************)
(* Proofs about AssignmentController at rest: that an assignment that      *)
(* nothing will reconcile is up to date, and that its errors and its       *)
(* issues on GitHub agree.  Both depend on what the environment may do:    *)
(* the theorems say what they exclude, and the runs and the README say     *)
(* how the rest breaks them.                                               *)
(***************************************************************************)
EXTENDS AssignmentProofs

(***************************************************************************)
(* What rendering gives for given inputs.                                  *)
(***************************************************************************)
FailureIn(in, a) ==
    LET type == in[ClusterTypeOf[a]]
    IN  IF type = None THEN "no cluster type"
        ELSE IF in[TargetOf[a]] = None THEN "no target"
        ELSE IF in[Config] \notin ValidConfigs THEN "invalid config"
        ELSE IF \E r \in RoleNames : in[type[r]] = None THEN "no template"
        ELSE None

OutcomeIn(in, a) ==
    [target |-> in[TargetOf[a]], config |-> in[Config],
     templates |-> [r \in RoleNames |-> in[in[ClusterTypeOf[a]][r]]]]

(***************************************************************************)
(* The inductive invariant of an assignment at rest.                       *)
(***************************************************************************)
\* A cache trails the API server only while an event is on its way.
InputsCoherent == \A x \in Inputs : x \notin inputEvents => cInputs[x] = inputs[x]

AssignmentsCoherent ==
    \A a \in Assignments : assignmentEvent[a] # "spec" => cAssignment[a] = assignment[a]

PackagesCoherent == \A a \in Assignments : a \notin packageEvents => cPackages[a] = packages[a]

\* Nothing will reconcile a again, but for a run in progress and for the input events to
\* come.  (An assignment whose target is gone is nobody's concern.)
Quiet(a) ==
    /\ assignment[a] = "present" /\ a \notin queue
    /\ assignmentEvent[a] # "spec" /\ a \notin packageEvents /\ a \notin orphans
    /\ cInputs[TargetOf[a]] # None

\* What the worker has in hand for a is what the caches hold.
InHandCurrent(a) ==
    /\ cur.pc \in {"target", "config", "templates", "package", "write"} =>
            cur.type = cInputs[ClusterTypeOf[a]]
    /\ cur.pc \in {"config", "templates", "package", "write"} => cur.target = cInputs[TargetOf[a]]
    /\ cur.pc \in {"templates", "package", "write"} => cur.config = cInputs[Config]
    /\ cur.pc \in {"templates", "package", "write"} =>
            \A n \in 1..Len(cur.templates) : cur.templates[n] = cInputs[cur.type[Roles[n]]]
    /\ cur.pc \in {"type", "target", "config"} => cur.templates = << >>
    /\ cur.pc = "write" => cur.exists = (packages[a] # None) /\ (cur.exists => cur.current)
    /\ cur.pc \in {"close", "ready"} => FailureIn(cInputs, a) = None /\ packages[a] = OutcomeIn(cInputs, a)
    /\ cur.pc = "ready" => cur.status = ReadyStatus
    /\ cur.pc = "fail" => cur.message = FailureIn(cInputs, a)
    /\ cur.pc = "failed" => /\ FailureIn(cInputs, a) # None
                            /\ cur.status.ready = "UpdateFailed" /\ cur.status.message = FailureIn(cInputs, a)

\* The status of a, and its package, are those of the inputs in the caches.
CacheUpToDate(a) ==
    IF FailureIn(cInputs, a) # None
    THEN status[a].ready = "UpdateFailed" /\ status[a].message = FailureIn(cInputs, a)
    ELSE status[a].ready = "AssignmentPackageCreated" /\ packages[a] = OutcomeIn(cInputs, a)

Working(a) == cur.pc # "idle" /\ cur.assignment = a

\* The run in progress will leave a up to date; without one, a is.
Resting == \A a \in Assignments :
    Quiet(a) => IF Working(a) THEN InHandCurrent(a) ELSE CacheUpToDate(a)

\* Cluster types do not change.
TypesStay == inputEvents \cap ClusterTypeNames = {}

RestInv == InputsCoherent /\ AssignmentsCoherent /\ PackagesCoherent /\ TypesStay /\ Resting

(***************************************************************************)
(* The inductive invariant of issues.                                      *)
(***************************************************************************)
\* Of the issues is, the open one of a is the one of status s, and tells its error.
Filed(is, s, a) ==
    /\ {n \in DOMAIN is : is[n].of = a /\ is[n].open} = IF s.issue = 0 THEN {} ELSE {s.issue}
    /\ s.issue # 0 => is[s.issue].message = s.message
    /\ s.issue = 0 <=> s.message = None
    /\ s.ready = "AssignmentPackageCreated" => s.issue = 0

StatusCoherent == \A a \in Assignments : assignmentEvent[a] = "none" => cStatus[a] = status[a]

\* Until the worker has dealt with the issue, the status is the one in its hand.
FiledInHand ==
    cur.pc # "idle" =>
        /\ cur.fresh /\ Filed(issues, cur.status, cur.assignment)
        /\ cur.pc \notin {"ready", "failed"} => status[cur.assignment] = cur.status

AllPresent == \A a \in Assignments : assignment[a] = "present"

FiledAtRest == \A a \in Assignments : Working(a) \/ Filed(issues, status[a], a)

IssueInv == AllPresent /\ StatusCoherent /\ FiledInHand /\ FiledAtRest

\* What the theorems about issues exclude.
NothingLost == Adversity \cap {"delete", "status", "lookup", "restart"} = {}

(***************************************************************************)
(* Issues.                                                                 *)
(***************************************************************************)
LEMMA IssueInit == Init => IssueInv
<1> SUFFICES ASSUME Init PROVE IssueInv
  OBVIOUS
<1>1. cur.pc = "idle"
  BY IdleType DEF Init
<1>2. ASSUME NEW a \in Assignments PROVE Filed(issues, status[a], a)
  <2>1. status[a] = NewStatus /\ NewStatus.issue = 0 /\ NewStatus.message = None /\ NewStatus.ready = "New"
    BY DEF Init, NewStatus
  <2>2. {n \in DOMAIN issues : issues[n].of = a /\ issues[n].open} = {}
    BY DEF Init
  <2> QED
    BY <2>1, <2>2 DEF Filed
<1> QED
  BY <1>1, <1>2 DEF Init, IssueInv, AllPresent, StatusCoherent, FiledInHand, FiledAtRest

\* What others do leaves issues and the statuses alone, and the worker's hand.
LEMMA IssueElsewhere ==
    ASSUME IssueInv, SameWork, UNCHANGED <<cur.fresh, assignment, status, issues>>, StatusCoherent'
    PROVE  IssueInv'
  BY DEF SameWork, IssueInv, AllPresent, FiledInHand, FiledAtRest, Working

LEMMA IssueOtherStep ==
    ASSUME NothingLost, TypeInv, IssueInv, UserStep \/ CreateGitOpsRepo \/ CollectorStep \/ DeliveryStep
    PROVE  IssueInv'
<1>t. TypeOK
  BY DEF TypeInv
<1>1. ASSUME UNCHANGED <<cur, assignment, status, issues, assignmentEvent, cStatus>> PROVE IssueInv'
  <2>1. SameWork
    BY <1>1, <1>t, SameWorkFacts
  <2> QED
    BY <1>1, <2>1, IssueElsewhere DEF IssueInv, StatusCoherent
<1>2. ASSUME NEW a \in Assignments, RemovePackage(a) PROVE IssueInv'
  <2>1. SameWork
    BY <1>2, <1>t, SameWorkFacts DEF RemovePackage
  <2>2. cur'.fresh = cur.fresh
    BY <1>2, <1>t DEF RemovePackage, TypeOK, Workers
  <2> QED
    BY <1>2, <2>1, <2>2, IssueElsewhere DEF RemovePackage, OtherFrame, cacheVars, IssueInv, StatusCoherent
<1>3. ASSUME NEW a \in Assignments, DeliverAssignment(a) PROVE IssueInv'
  <2>1. SameWork
    BY <1>3, <1>t, SameWorkFacts DEF DeliverAssignment
  <2>2. StatusCoherent'
    BY <1>3, <1>t DEF DeliverAssignment, apiVars, TypeOK, IssueInv, StatusCoherent
  <2> QED
    BY <1>3, <2>1, <2>2, IssueElsewhere DEF DeliverAssignment, apiVars
<1>4. CASE UserStep
  <2>1. ASSUME NEW x \in Inputs, NEW v \in InputValues, EditInput(x, v) PROVE IssueInv'
    BY <1>1, <2>1 DEF EditInput, OtherFrame, cacheVars
  <2>2. \A a \in Assignments : ~CreateAssignment(a)
    BY DEF CreateAssignment, IssueInv, AllPresent
  <2>3. \A a \in Assignments : ~DeleteAssignment(a) /\ ~DeleteAssignmentForeground(a)
    BY DEF DeleteAssignment, DeleteAssignmentForeground, NothingLost
  <2> QED
    BY <1>2, <1>4, <2>1, <2>2, <2>3 DEF UserStep, UserDeletesPackage
<1>5. CASE CreateGitOpsRepo
  BY <1>1, <1>5 DEF CreateGitOpsRepo, OtherFrame, eventVars, cacheVars
<1>6. CASE CollectorStep
  <2>1. \A a \in Assignments : ~CollectAssignment(a)
    BY DEF CollectAssignment, IssueInv, AllPresent
  <2> QED
    BY <1>2, <1>6, <2>1 DEF CollectorStep, CollectPackage
<1>7. CASE DeliveryStep
  BY <1>1, <1>3, <1>7 DEF DeliveryStep, DeliverPackage, DeliverInput, apiVars
<1> QED
  BY <1>4, <1>5, <1>6, <1>7

\* The worker goes on, with issues and statuses as they were.
LEMMA IssueSameHand ==
    ASSUME IssueInv, SameAssignment, cur'.fresh = cur.fresh, cur.pc \notin {"ready", "failed"},
           UNCHANGED <<assignment, assignmentEvent, status, cStatus, issues>>
    PROVE  IssueInv'
  BY DEF SameAssignment, IssueInv, AllPresent, StatusCoherent, FiledInHand, FiledAtRest, Working

\* Reconcile ends before it has dealt with the issue.
LEMMA IssueReturn ==
    ASSUME IssueInv, cur.pc \notin {"idle", "ready", "failed"}, cur'.pc = "idle",
           UNCHANGED <<assignment, assignmentEvent, status, cStatus, issues>>
    PROVE  IssueInv'
  BY DEF IssueInv, AllPresent, StatusCoherent, FiledInHand, FiledAtRest, Working

LEMMA ReadsHand ==
    ASSUME TypeInv, GetClusterType \/ GetDeploymentTarget \/ GetConfigData \/ GetManifests \/ GetPackage
    PROVE  /\ SameAssignment /\ cur'.fresh = cur.fresh /\ ReadOnly
           /\ cur.pc \in {"type", "target", "config", "templates", "package"}
<1>1. cur \in Workers
  BY DEF TypeInv, TypeOK
<1>2. CASE GetClusterType
  BY <1>1, <1>2 DEF GetClusterType, Failing, SameAssignment, Workers
<1>3. CASE GetDeploymentTarget
  BY <1>1, <1>3 DEF GetDeploymentTarget, Failing, SameAssignment, Workers
<1>4. CASE GetConfigData
  BY <1>1, <1>4 DEF GetConfigData, Failing, SameAssignment, Workers
<1>5. CASE GetManifests
  BY <1>1, <1>5 DEF GetManifests, Failing, SameAssignment, Workers
<1>6. CASE GetPackage
  BY <1>1, <1>6 DEF GetPackage, SameAssignment, Workers
<1> QED
  BY <1>2, <1>3, <1>4, <1>5, <1>6

LEMMA WritePackageHand ==
    ASSUME TypeInv, NEW ok \in BOOLEAN, WritePackage(ok)
    PROVE  /\ SameAssignment /\ cur'.fresh = cur.fresh /\ cur.pc = "write" /\ cur.assignment \in Assignments
           /\ WorkerFrame /\ UNCHANGED <<status, assignmentEvent, issues, queue>>
<1>1. cur \in Workers /\ cur.pc = "write" /\ cur.assignment \in Assignments
  BY DEF WritePackage, TypeInv, TypeOK, InHand
<1>2. \/ cur' = [cur EXCEPT !.pc = "close", !.exists = FALSE, !.current = FALSE]
      \/ cur' = Failing("write failed")
  BY DEF WritePackage
<1>3. SameAssignment /\ cur'.fresh = cur.fresh
  BY <1>1, <1>2 DEF Failing, SameAssignment, Workers
<1> QED
  BY <1>1, <1>3 DEF WritePackage

\* A status that is written is on its way to the cache.
LEMMA IssueWriteStatus ==
    ASSUME TypeOK, StatusCoherent, UNCHANGED cStatus, NEW a \in Assignments, NEW s \in Statuses,
           NEW fresh, NEW ok \in BOOLEAN, WriteStatus(a, s, fresh, ok)
    PROVE  StatusCoherent'
<1>1. CASE ok
  BY <1>1 DEF WriteStatus, TypeOK, StatusCoherent
<1>2. CASE ~ok
  BY <1>2 DEF WriteStatus, TypeOK, StatusCoherent
<1> QED
  BY <1>1, <1>2

\* Reconcile ends with the status in hand written: nothing makes the update fail.
LEMMA IssueReport ==
    ASSUME NothingLost, TypeInv, IssueInv, NEW ok \in BOOLEAN, ReportReady(ok) \/ ReportFailure(ok)
    PROVE  IssueInv'
<1> DEFINE a == cur.assignment
<1>t. TypeOK /\ cur \in Workers
  BY DEF TypeInv, TypeOK
<1>1. /\ cur.pc \in {"ready", "failed"} /\ a \in Assignments /\ cur.status \in Statuses
      /\ WriteStatus(a, cur.status, cur.fresh, ok) /\ WorkerFrame /\ UNCHANGED issues /\ Return(~ok)
  BY <1>t DEF ReportReady, ReportFailure, InHand, TypeInv, Workers
<1>2. cur.fresh /\ Filed(issues, cur.status, a)
  BY <1>1 DEF IssueInv, FiledInHand
<1>3. ok
  BY <1>1, <1>2 DEF WriteStatus, Fault, NothingLost
<1>4. cur'.pc = "idle"
  BY <1>1, IdleType DEF Return
<1>5. /\ \A b \in Assignments : b # a => status'[b] = status[b]
      /\ status'[a] = cur.status
  BY <1>1, <1>3, <1>t, WriteStatusChange
<1>6. StatusCoherent'
  BY <1>1, <1>t, IssueWriteStatus DEF WorkerFrame, cacheVars, IssueInv
<1>7. FiledAtRest'
  BY <1>1, <1>2, <1>5 DEF IssueInv, FiledAtRest, Working
<1> QED
  BY <1>1, <1>4, <1>6, <1>7 DEF WorkerFrame, IssueInv, AllPresent, FiledInHand

\* A status is written from a copy that is up to date only.
LEMMA IssueBegin ==
    ASSUME TypeInv, IssueInv, NEW a \in Assignments, BeginStep(a)
    PROVE  IssueInv'
<1>t. TypeOK /\ cur \in Workers
  BY DEF TypeInv, TypeOK
<1>1. CASE BeginGone(a)
  BY <1>1 DEF BeginGone, WorkerFrame, NoStatusWrite, cacheVars, IssueInv, AllPresent, StatusCoherent,
              FiledInHand, FiledAtRest, Working
<1>2. ASSUME NEW ok \in BOOLEAN, Begin(a, ok) PROVE IssueInv'
  <2> DEFINE s == [cStatus[a] EXCEPT !.ready = "Rebuilding"]
             fresh == assignmentEvent[a] = "none"
  <2>1. /\ cur.pc = "idle" /\ WriteStatus(a, s, fresh, ok) /\ WorkerFrame /\ UNCHANGED issues
        /\ cur' = IF ok
                  THEN [IdleWorker EXCEPT !.pc = "type", !.assignment = a, !.status = s,
                                          !.fresh = TRUE, !.live = TRUE]
                  ELSE cur
    BY <1>2 DEF Begin
  <2>2. /\ s \in Statuses /\ s.issue = cStatus[a].issue /\ s.message = cStatus[a].message
        /\ s.ready = "Rebuilding"
    <3>1. cStatus[a] \in Statuses
      BY <1>t DEF TypeOK
    <3> QED
      BY <3>1 DEF Statuses
  <2>3. ok => cStatus[a] = status[a]
    BY <2>1 DEF WriteStatus, IssueInv, StatusCoherent
  <2> HIDE DEF s, fresh
  <2>4. StatusCoherent'
    BY <1>t, <2>1, <2>2, IssueWriteStatus DEF WorkerFrame, cacheVars, IssueInv
  <2>5. /\ status'[a] = IF ok THEN s ELSE status[a]
        /\ \A b \in Assignments : b # a => status'[b] = status[b]
    BY <1>t, <2>1, <2>2, WriteStatusChange
  <2>6. ok => Filed(issues, s, a)
    BY <2>1, <2>2, <2>3 DEF IssueInv, FiledAtRest, Working, Filed
  <2>7. CASE ok
    <3>1. cur'.pc = "type" /\ cur'.assignment = a /\ cur'.status = s /\ cur'.fresh
      BY <2>1, <2>7, IdleType DEF Workers
    <3> QED
      BY <2>1, <2>4, <2>5, <2>6, <2>7, <3>1
         DEF WorkerFrame, IssueInv, AllPresent, FiledInHand, FiledAtRest, Working
  <2>8. CASE ~ok
    BY <2>1, <2>4, <2>5, <2>8
       DEF WorkerFrame, IssueInv, AllPresent, FiledInHand, FiledAtRest, Working
  <2> QED
    BY <2>7, <2>8
<1> QED
  BY <1>1, <1>2 DEF BeginStep

\* A step changes issues of a only: those of others are filed as before.
LEMMA OthersFiled ==
    ASSUME NEW a \in Assignments, NEW b \in Assignments, a # b, NEW s, Filed(issues, s, b),
           Owns(s, b),
           \A n \in DOMAIN issues : \/ n \in DOMAIN issues' /\ issues'[n] = issues[n]
                                    \/ n \in DOMAIN issues' /\ issues[n].of = a /\ issues'[n].of = a,
           \A n \in DOMAIN issues' : n \in DOMAIN issues \/ issues'[n].of = a
    PROVE  Filed(issues', s, b)
<1>1. {n \in DOMAIN issues' : issues'[n].of = b /\ issues'[n].open}
        = {n \in DOMAIN issues : issues[n].of = b /\ issues[n].open}
  OBVIOUS
<1>2. s.issue # 0 => issues'[s.issue] = issues[s.issue]
  BY DEF Owns
<1> QED
  BY <1>1, <1>2 DEF Filed

\* What is left after a step in which the worker, still at work on a, changes issues.
LEMMA IssueChanged ==
    ASSUME Inv, IssueInv, cur.pc \notin {"idle", "ready", "failed"}, cur'.pc \in {"ready", "failed"},
           cur'.assignment = cur.assignment, cur'.fresh = cur.fresh,
           UNCHANGED <<assignment, assignmentEvent, status, cStatus>>,
           Filed(issues', cur'.status, cur.assignment),
           \A n \in DOMAIN issues :
                \/ n \in DOMAIN issues' /\ issues'[n] = issues[n]
                \/ n \in DOMAIN issues' /\ issues[n].of = cur.assignment /\ issues'[n].of = cur.assignment,
           \A n \in DOMAIN issues' : n \in DOMAIN issues \/ issues'[n].of = cur.assignment
    PROVE  IssueInv'
<1>1. cur.assignment \in Assignments
  BY DEF Inv, TypeInv, InHand
<1>2. ASSUME NEW b \in Assignments, b # cur.assignment PROVE Filed(issues', status[b], b)
  <2>1. Filed(issues, status[b], b) /\ Owns(status[b], b)
    BY <1>2 DEF IssueInv, FiledAtRest, Working, Inv, Owned
  <2> QED
    BY <1>1, <1>2, <2>1, OthersFiled
<1>3. FiledAtRest'
  BY <1>2 DEF FiledAtRest, Working
<1> QED
  BY <1>3 DEF IssueInv, AllPresent, StatusCoherent, FiledInHand

LEMMA IssueClose ==
    ASSUME NothingLost, Inv, IssueInv, NEW found \in BOOLEAN, CloseIssue(found)
    PROVE  IssueInv'
<1> DEFINE a == cur.assignment
           n == cur.status.issue
<1>t. TypeInv /\ TypeOK /\ cur \in Workers /\ issues \in Seq(Issues)
  BY DEF Inv, TypeInv, TypeOK
<1>1. /\ cur.pc = "close" /\ a \in Assignments /\ WorkerFrame
      /\ UNCHANGED <<status, assignmentEvent>> /\ Filed(issues, cur.status, a)
  BY <1>t DEF CloseIssue, InHand, TypeInv, IssueInv, FiledInHand
<1>2. CASE ~gitOpsRepo
  BY <1>1, <1>2, IssueReturn, IdleType DEF CloseIssue, Return, WorkerFrame, cacheVars
<1>3. CASE gitOpsRepo
  <2>1. cur' = [cur EXCEPT !.pc = "ready", !.status = ReadyStatus]
    BY <1>3 DEF CloseIssue
  <2>2. /\ cur'.pc = "ready" /\ cur'.assignment = a /\ cur'.status = ReadyStatus
        /\ cur'.fresh = cur.fresh
    BY <1>t, <2>1 DEF Workers
  <2>3. ReadyStatus.issue = 0 /\ ReadyStatus.message = None
    BY DEF ReadyStatus
  <2>4. CASE ~found
    <3>1. UNCHANGED issues /\ n = 0
      BY <1>3, <2>4 DEF CloseIssue, Fault, NothingLost
    <3>2. Filed(issues', ReadyStatus, a)
      BY <1>1, <2>3, <3>1 DEF Filed
    <3> QED
      BY <1>1, <2>2, <3>1, <3>2, IssueChanged DEF WorkerFrame, cacheVars
  <2>5. CASE found
    <3> DEFINE e == [issues[n] EXCEPT !.open = FALSE]
    <3>1. n # 0 /\ issues' = [issues EXCEPT ![n] = e]
      BY <1>3, <2>5 DEF CloseIssue, Closed
    <3>2. n \in DOMAIN issues /\ issues[n].of = a
      BY <1>1, <3>1 DEF Inv, Owned, Owns
    <3>3. issues[n] \in Issues
      BY <1>t, <3>2, ElementOfSeq, LenProperties
    <3>4. e \in Issues /\ e.of = a /\ ~e.open
      BY <3>2, <3>3 DEF Issues
    <3> HIDE DEF e
    <3>5. DOMAIN issues' = DOMAIN issues /\ issues'[n] = e
          /\ \A m \in DOMAIN issues : m # n => issues'[m] = issues[m]
      BY <3>1, <3>2
    <3>6. {m \in DOMAIN issues' : issues'[m].of = a /\ issues'[m].open} = {}
      <4>1. \A m \in DOMAIN issues : issues[m].of = a /\ issues[m].open => m = n
        BY <1>1, <3>1 DEF Filed
      <4> QED
        BY <3>4, <3>5, <4>1
    <3>7. Filed(issues', ReadyStatus, a)
      BY <2>3, <3>6 DEF Filed
    <3> HIDE DEF n
    <3> QED
      BY <1>1, <2>2, <3>2, <3>4, <3>5, <3>7, IssueChanged DEF WorkerFrame, cacheVars
  <2> QED
    BY <2>4, <2>5
<1> QED
  BY <1>2, <1>3

LEMMA IssueUpdate ==
    ASSUME Inv, IssueInv, UpdateIssue
    PROVE  IssueInv'
<1> DEFINE a == cur.assignment
           n == cur.status.issue
           s(no) == [ready |-> "UpdateFailed", issue |-> no, message |-> cur.message]
           reported(no) == [cur EXCEPT !.pc = "failed", !.status = s(no)]
<1>t. TypeInv /\ TypeOK /\ cur \in Workers /\ issues \in Seq(Issues)
  BY DEF Inv, TypeInv, TypeOK
<1>1. /\ cur.pc = "fail" /\ a \in Assignments /\ cur.message \in Messages /\ cur.message # None
      /\ WorkerFrame /\ UNCHANGED <<status, assignmentEvent>> /\ Filed(issues, cur.status, a)
  BY <1>t, ConstantsAssumption
     DEF UpdateIssue, NoStatusWrite, InHand, TypeInv, IssueInv, FiledInHand
<1>2. n # 0 => n \in DOMAIN issues /\ issues[n].of = a
  BY <1>1 DEF Inv, Owned, Owns
<1>3. ASSUME NEW no, cur' = reported(no)
      PROVE  /\ cur'.pc = "failed" /\ cur'.assignment = a /\ cur'.status = s(no)
             /\ cur'.fresh = cur.fresh
  BY <1>3, <1>t DEF Workers
<1>4. CASE cur.message = cur.status.message
  <2>1. cur' = reported(n) /\ UNCHANGED issues
    BY <1>4 DEF UpdateIssue
  <2>2. Filed(issues', s(n), a)
    BY <1>1, <1>4, <2>1 DEF Filed
  <2> QED
    BY <1>1, <1>3, <2>1, <2>2, IssueChanged DEF WorkerFrame, cacheVars
<1>5. CASE cur.message # cur.status.message /\ ~gitOpsRepo
  BY <1>1, <1>5, IssueReturn, IdleType DEF UpdateIssue, Return, WorkerFrame, cacheVars
<1>6. CASE cur.message # cur.status.message /\ gitOpsRepo /\ n = 0
  <2> DEFINE e == [of |-> a, message |-> cur.message, open |-> TRUE]
             k == Len(issues) + 1
  <2>1. issues' = Append(issues, e) /\ cur' = reported(k)
    BY <1>6 DEF UpdateIssue, NewIssueNumber
  <2>2. e \in Issues /\ e.of = a /\ e.open /\ e.message = cur.message
    BY <1>1 DEF Issues
  <2> HIDE DEF e
  <2>3. /\ DOMAIN issues = 1..Len(issues) /\ Len(issues) \in Nat /\ DOMAIN issues' = 1..k
        /\ \A m \in DOMAIN issues : issues'[m] = issues[m]
        /\ issues'[k] = e
    BY <1>t, <2>1, <2>2, IssueMade
  <2>4. k # 0 /\ k \notin DOMAIN issues /\ DOMAIN issues' = DOMAIN issues \cup {k}
    BY <2>3
  <2> HIDE DEF k
  <2>5. {m \in DOMAIN issues' : issues'[m].of = a /\ issues'[m].open} = {k}
    <3>1. {m \in DOMAIN issues : issues[m].of = a /\ issues[m].open} = {}
      BY <1>1, <1>6 DEF Filed
    <3> QED
      BY <2>2, <2>3, <2>4, <3>1
  <2>6. Filed(issues', s(k), a)
    BY <1>1, <2>2, <2>3, <2>4, <2>5 DEF Filed
  <2> QED
    BY <1>1, <1>3, <2>1, <2>2, <2>3, <2>4, <2>6, IssueChanged DEF WorkerFrame, cacheVars
<1>7. CASE cur.message # cur.status.message /\ gitOpsRepo /\ n # 0
  <2> DEFINE e == [issues[n] EXCEPT !.message = cur.message]
  <2>1. issues' = [issues EXCEPT ![n] = e] /\ cur' = reported(n)
    BY <1>7 DEF UpdateIssue
  <2>2. n \in DOMAIN issues /\ issues[n] \in Issues /\ issues[n].of = a
    BY <1>2, <1>7, <1>t, ElementOfSeq, LenProperties
  <2>3. e.of = a /\ e.open = issues[n].open /\ e.message = cur.message
    BY <1>1, <2>2 DEF Issues
  <2> HIDE DEF e
  <2>4. DOMAIN issues' = DOMAIN issues /\ issues'[n] = e
        /\ \A m \in DOMAIN issues : m # n => issues'[m] = issues[m]
    BY <2>1, <2>2
  <2>5. {m \in DOMAIN issues' : issues'[m].of = a /\ issues'[m].open} = {n}
    <3>1. {m \in DOMAIN issues : issues[m].of = a /\ issues[m].open} = {n}
      BY <1>1, <1>7 DEF Filed
    <3> QED
      BY <2>2, <2>3, <2>4, <3>1
  <2>6. Filed(issues', s(n), a)
    BY <1>1, <1>7, <2>3, <2>4, <2>5 DEF Filed
  <2> QED
    BY <1>1, <1>3, <2>1, <2>2, <2>3, <2>4, <2>6, IssueChanged DEF WorkerFrame, cacheVars
<1> QED
  BY <1>4, <1>5, <1>6, <1>7

LEMMA IssueStep ==
    ASSUME NothingLost, Inv, IssueInv, [Next]_vars
    PROVE  IssueInv'
<1>t. TypeInv
  BY DEF Inv
<1>1. CASE UNCHANGED vars
  BY <1>1 DEF vars, apiVars, eventVars, cacheVars, IssueInv, AllPresent, StatusCoherent, FiledInHand,
              FiledAtRest, Working
<1>2. CASE Restart
  BY <1>2 DEF Restart, Fault, NothingLost
<1>3. CASE WorkerStep
  <2>1. CASE GetClusterType \/ GetDeploymentTarget \/ GetConfigData \/ GetManifests \/ GetPackage
    BY <1>t, <2>1, ReadsHand, IssueSameHand DEF ReadOnly, WorkerFrame, NoStatusWrite, cacheVars
  <2>2. CASE \E ok \in BOOLEAN : WritePackage(ok)
    BY <1>t, <2>2, WritePackageHand, IssueSameHand DEF WorkerFrame, cacheVars
  <2>3. CASE \E found \in BOOLEAN : CloseIssue(found)
    BY <2>3, IssueClose
  <2>4. CASE \E ok \in BOOLEAN : ReportReady(ok) \/ ReportFailure(ok)
    BY <1>t, <2>4, IssueReport
  <2>5. CASE UpdateIssue
    BY <2>5, IssueUpdate
  <2>6. CASE GitHubFails
    BY <2>6, IssueReturn, IdleType DEF GitHubFails, Return, WorkerFrame, cacheVars
  <2> QED
    BY <1>3, <2>1, <2>2, <2>3, <2>4, <2>5, <2>6 DEF WorkerStep
<1> QED
  BY <1>1, <1>2, <1>3, <1>t, IssueOtherStep, IssueBegin DEF Next

LEMMA IssueAlways == NothingLost => (Spec => []IssueInv)
<1> SUFFICES ASSUME NothingLost PROVE Spec => []IssueInv
  OBVIOUS
<1>1. IssueInv /\ Inv /\ [Next]_vars => IssueInv'
  BY IssueStep
<1> QED
  BY <1>1, IssueInit, InvAlways, PTL DEF Spec

\* When no status update, no reading of an issue and no run is lost and no assignment is
\* deleted, an assignment that is ready has no open issue: the one of its last error is closed,
\* although creating, editing and closing issues may fail.
THEOREM FixedErrorsCloseIssues == NothingLost => (Spec => []FixedErrorClosesIssue)
<1>1. IssueInv => FixedErrorClosesIssue
  BY DEF IssueInv, FiledAtRest, Filed, Working, Calm, IssuesOf, FixedErrorClosesIssue
<1> QED
  BY <1>1, IssueAlways, PTL

\* Under the same conditions an assignment whose config is invalid has exactly one open
\* issue, which tells this error, however often the error changed and GitHub refused.
THEOREM ErrorsHaveIssues == NothingLost => (Spec => []ErrorHasIssue)
<1>1. ASSUME IssueInv, TypeInv PROVE ErrorHasIssue
  <2> SUFFICES ASSUME NEW a \in Assignments, assignment[a] = "present", Calm(a),
                      status[a].message = "invalid config"
               PROVE  \E n \in DOMAIN issues : IssuesOf(a) = {n} /\ issues[n].message = "invalid config"
    BY DEF ErrorHasIssue
  <2>1. Filed(issues, status[a], a) /\ "invalid config" # None
    BY <1>1, ConstantsAssumption DEF IssueInv, FiledAtRest, Working, Calm, Messages
  <2>2. status[a].issue # 0 /\ IssuesOf(a) = {status[a].issue}
    BY <2>1 DEF Filed, IssuesOf
  <2>3. status[a].issue \in DOMAIN issues
    BY <2>2 DEF IssuesOf
  <2> QED
    BY <2>1, <2>2, <2>3 DEF Filed
<1>2. Inv => TypeInv
  BY DEF Inv
<1> QED
  BY <1>1, <1>2, IssueAlways, InvAlways, PTL

(***************************************************************************)
(* An assignment at rest is up to date.                                    *)
(***************************************************************************)
\* What the theorem excludes: nothing watches cluster types, and a package that could not
\* be written is not tried again.
NoBlindSpot == Adversity \cap {"types", "package"} = {}

\* What a package of a is made from.
InputsOf(a) == {ClusterTypeOf[a], TargetOf[a], Config} \cup TemplateNames

\* Only a cluster type that is there tells templates.
LEMMA FailureFacts ==
    ASSUME NEW a \in Assignments, NEW in, in[ClusterTypeOf[a]] \in ClusterTypeSpecs \cup {None}
    PROVE  FailureIn(in, a) = None <=>
                /\ in[ClusterTypeOf[a]] \in ClusterTypeSpecs /\ in[TargetOf[a]] # None
                /\ in[Config] \in ValidConfigs
                /\ \A r \in RoleNames : in[in[ClusterTypeOf[a]][r]] # None
  BY ConstantsAssumption DEF FailureIn, Messages

LEMMA TypesNameTemplates ==
    ASSUME NEW type \in ClusterTypeSpecs, NEW r \in RoleNames
    PROVE  type[r] \in TemplateNames
  BY ConstantsAssumption

LEMMA SameInputs ==
    ASSUME NEW a \in Assignments, NEW in, NEW new, \A x \in InputsOf(a) : new[x] = in[x],
           in[ClusterTypeOf[a]] \in ClusterTypeSpecs \cup {None}
    PROVE  /\ FailureIn(new, a) = FailureIn(in, a)
           /\ FailureIn(in, a) = None => OutcomeIn(new, a) = OutcomeIn(in, a)
<1>1. /\ new[ClusterTypeOf[a]] = in[ClusterTypeOf[a]] /\ new[TargetOf[a]] = in[TargetOf[a]]
      /\ new[Config] = in[Config] /\ \A t \in TemplateNames : new[t] = in[t]
  BY DEF InputsOf
<1>2. in[ClusterTypeOf[a]] # None => \A r \in RoleNames :
          new[in[ClusterTypeOf[a]][r]] = in[in[ClusterTypeOf[a]][r]]
  BY <1>1, TypesNameTemplates
<1>3. FailureIn(new, a) = FailureIn(in, a)
  <2> DEFINE type == in[ClusterTypeOf[a]]
  <2>1. type # None => ((\E r \in RoleNames : new[type[r]] = None) <=> (\E r \in RoleNames : in[type[r]] = None))
    BY <1>2
  <2> QED
    BY <1>1, <2>1 DEF FailureIn
<1>4. FailureIn(in, a) = None => in[ClusterTypeOf[a]] # None
  BY FailureFacts, ConstantsAssumption
<1> QED
  BY <1>1, <1>2, <1>3, <1>4 DEF OutcomeIn

LEMMA RestInit == Init => RestInv
<1> SUFFICES ASSUME Init PROVE RestInv
  OBVIOUS
<1>1. \A a \in Assignments : a \in queue
  BY DEF Init
<1> QED
  BY <1>1 DEF Init, RestInv, InputsCoherent, AssignmentsCoherent, PackagesCoherent, TypesStay, Resting, Quiet

\* An assignment is as quiet as before, and what it depends on is as it was.
Unmoved(a) ==
    /\ Quiet(a)
    /\ UNCHANGED <<status[a], packages[a]>>
    /\ Working(a) => UNCHANGED <<cur.exists, cur.current>>
    /\ \A x \in InputsOf(a) : cInputs'[x] = cInputs[x]

\* While the worker holds what it held, an assignment stays at rest.
LEMMA RestUnmoved ==
    ASSUME TypeInv, Resting, SameWork, NEW a \in Assignments, Unmoved(a)
    PROVE  IF Working(a)' THEN InHandCurrent(a)' ELSE CacheUpToDate(a)'
<1>1. cInputs[ClusterTypeOf[a]] \in ClusterTypeSpecs \cup {None}
  BY InputFacts DEF TypeInv, TypeOK
<1>2. /\ FailureIn(cInputs', a) = FailureIn(cInputs, a)
      /\ FailureIn(cInputs, a) = None => OutcomeIn(cInputs', a) = OutcomeIn(cInputs, a)
  BY <1>1, SameInputs DEF Unmoved
<1>3. /\ cInputs'[ClusterTypeOf[a]] = cInputs[ClusterTypeOf[a]] /\ cInputs'[TargetOf[a]] = cInputs[TargetOf[a]]
      /\ cInputs'[Config] = cInputs[Config] /\ \A t \in TemplateNames : cInputs'[t] = cInputs[t]
  BY DEF InputsOf, Unmoved
<1>4. Working(a)' <=> Working(a)
  BY DEF SameWork, Working
<1>5. CASE ~Working(a)
  <2>1. CacheUpToDate(a)
    BY <1>5 DEF Resting, Unmoved
  <2> QED
    BY <1>2, <1>4, <1>5, <2>1 DEF CacheUpToDate, Unmoved
<1>6. CASE Working(a)
  <2>1. InHandCurrent(a)
    BY <1>6 DEF Resting, Unmoved
  <2>2. ASSUME cur.pc \in {"templates", "package", "write"}, NEW n \in 1..Len(cur.templates)
        PROVE  cInputs'[cur.type[Roles[n]]] = cInputs[cur.type[Roles[n]]]
    <3>1. cur.type \in ClusterTypeSpecs /\ cur.templates \in Seq(Versions)
      BY <2>2 DEF TypeInv, TypeOK, InHand, Workers
    <3>2. n \in 1..3
      <4> DEFINE len == Len(cur.templates)
      <4>1. len \in Nat
        BY <3>1, LenProperties
      <4>2. len < 3 \/ len = 3
        BY <2>2, RoleFacts DEF TypeInv, InHand
      <4>3. n \in 1..len
        BY <2>2
      <4> HIDE DEF len
      <4> QED
        BY <4>1, <4>2, <4>3
    <3>3. cur.type[Roles[n]] \in TemplateNames
      BY <3>1, <3>2, RoleFacts, TypesNameTemplates
    <3> QED
      BY <1>3, <3>3
  <2> QED
    BY <1>2, <1>3, <1>4, <1>6, <2>1, <2>2 DEF InHandCurrent, SameWork, Unmoved
<1> QED
  BY <1>5, <1>6

LEMMA RestElsewhere ==
    ASSUME TypeInv, RestInv, SameWork, \A a \in Assignments : Quiet(a)' => Unmoved(a),
           (InputsCoherent /\ AssignmentsCoherent /\ PackagesCoherent /\ TypesStay)'
    PROVE  RestInv'
<1>1. \A a \in Assignments : Quiet(a)' => IF Working(a)' THEN InHandCurrent(a)' ELSE CacheUpToDate(a)'
  BY RestUnmoved DEF RestInv
<1> QED
  BY <1>1 DEF RestInv, Resting

LEMMA RestRemovePackage ==
    ASSUME TypeInv, RestInv, NEW b \in Assignments, RemovePackage(b)
    PROVE  RestInv'
<1>t. TypeOK /\ cur \in Workers
  BY DEF TypeInv, TypeOK
<1>1. SameWork
  BY <1>t, SameWorkFacts DEF RemovePackage
<1>2. ASSUME NEW a \in Assignments, Quiet(a)' PROVE Unmoved(a)
  <2>1. a # b
    BY <1>2 DEF RemovePackage, Quiet
  <2>2. packages'[a] = packages[a] /\ (Working(a) => UNCHANGED cur)
    BY <1>t, <2>1 DEF RemovePackage, Working, TypeOK
  <2> QED
    BY <1>2, <2>1, <2>2 DEF RemovePackage, OtherFrame, cacheVars, Quiet, Unmoved
<1>3. (InputsCoherent /\ AssignmentsCoherent /\ PackagesCoherent /\ TypesStay)'
  BY <1>t DEF RemovePackage, OtherFrame, cacheVars, RestInv, InputsCoherent, AssignmentsCoherent,
              PackagesCoherent, TypesStay, TypeOK
<1> QED
  BY <1>1, <1>2, <1>3, RestElsewhere

LEMMA RestRemoveAssignment ==
    ASSUME TypeInv, RestInv, NEW b \in Assignments, RemoveAssignment(b)
    PROVE  RestInv'
<1>t. TypeOK /\ cur \in Workers
  BY DEF TypeInv, TypeOK
<1>1. SameWork
  BY <1>t, TouchType DEF RemoveAssignment
<1>2. ASSUME NEW a \in Assignments, Quiet(a)' PROVE Unmoved(a)
  <2>1. a # b /\ assignment'[a] = assignment[a] /\ assignmentEvent'[a] = assignmentEvent[a]
    BY <1>2, <1>t DEF RemoveAssignment, TouchAssignment, Quiet, TypeOK
  <2>2. Working(a) => UNCHANGED cur
    BY <2>1 DEF RemoveAssignment, TouchAssignment, Working
  <2> QED
    BY <1>2, <2>1, <2>2 DEF RemoveAssignment, OtherFrame, cacheVars, Quiet, Unmoved
<1>3. (InputsCoherent /\ AssignmentsCoherent /\ PackagesCoherent /\ TypesStay)'
  BY <1>t DEF RemoveAssignment, TouchAssignment, OtherFrame, cacheVars, RestInv, InputsCoherent,
              AssignmentsCoherent, PackagesCoherent, TypesStay, TypeOK
<1> QED
  BY <1>1, <1>2, <1>3, RestElsewhere

LEMMA RestOtherStep ==
    ASSUME NoBlindSpot, TypeInv, RestInv, UserStep \/ CreateGitOpsRepo \/ CollectorStep
    PROVE  RestInv'
<1>t. TypeOK /\ cur \in Workers
  BY DEF TypeInv, TypeOK
<1>1. ASSUME NEW x \in Inputs, NEW v \in InputValues, EditInput(x, v) PROVE RestInv'
  <2>1. SameWork
    BY <1>1, <1>t, SameWorkFacts DEF EditInput
  <2>2. ASSUME NEW a \in Assignments, Quiet(a)' PROVE Unmoved(a)
    BY <1>1, <2>2 DEF EditInput, OtherFrame, cacheVars, Quiet, Unmoved
  <2>3. x \notin ClusterTypeNames
    BY <1>1 DEF EditInput, NoBlindSpot
  <2>4. (InputsCoherent /\ AssignmentsCoherent /\ PackagesCoherent /\ TypesStay)'
    BY <1>1, <1>t, <2>3 DEF EditInput, OtherFrame, cacheVars, RestInv, InputsCoherent,
              AssignmentsCoherent, PackagesCoherent, TypesStay, TypeOK
  <2> QED
    BY <2>1, <2>2, <2>4, RestElsewhere
<1>2. CASE CreateGitOpsRepo
  <2>1. SameWork
    BY <1>2, <1>t, SameWorkFacts DEF CreateGitOpsRepo
  <2>2. ASSUME NEW a \in Assignments, Quiet(a)' PROVE Unmoved(a)
    BY <1>2, <2>2 DEF CreateGitOpsRepo, OtherFrame, eventVars, cacheVars, Quiet, Unmoved
  <2>3. (InputsCoherent /\ AssignmentsCoherent /\ PackagesCoherent /\ TypesStay)'
    BY <1>2 DEF CreateGitOpsRepo, OtherFrame, eventVars, cacheVars, RestInv, InputsCoherent,
              AssignmentsCoherent, PackagesCoherent, TypesStay
  <2> QED
    BY <2>1, <2>2, <2>3, RestElsewhere
<1>3. ASSUME NEW b \in Assignments, CreateAssignment(b) \/ DeleteAssignmentForeground(b) PROVE RestInv'
  <2>1. SameWork
    BY <1>3, <1>t, TouchType DEF CreateAssignment, DeleteAssignmentForeground
  <2>2. ASSUME NEW a \in Assignments, Quiet(a)' PROVE Unmoved(a)
    <3>1. a # b /\ assignmentEvent'[a] = assignmentEvent[a]
      BY <1>3, <1>t, <2>2 DEF CreateAssignment, DeleteAssignmentForeground, TouchAssignment, Quiet, TypeOK
    <3>2. assignment'[a] = assignment[a] /\ status'[a] = status[a]
      BY <1>3, <1>t, <3>1 DEF CreateAssignment, DeleteAssignmentForeground, TypeOK
    <3>3. Working(a) => UNCHANGED cur
      BY <1>3, <3>1 DEF CreateAssignment, DeleteAssignmentForeground, TouchAssignment, Working
    <3> QED
      BY <1>3, <2>2, <3>1, <3>2, <3>3
         DEF CreateAssignment, DeleteAssignmentForeground, OtherFrame, cacheVars, Quiet, Unmoved
  <2>3. AssignmentsCoherent'
    BY <1>3, <1>t DEF CreateAssignment, DeleteAssignmentForeground, TouchAssignment, OtherFrame, cacheVars,
              RestInv, AssignmentsCoherent, TypeOK
  <2>4. (InputsCoherent /\ PackagesCoherent /\ TypesStay)'
    BY <1>3 DEF CreateAssignment, DeleteAssignmentForeground, OtherFrame, cacheVars, RestInv,
              InputsCoherent, PackagesCoherent, TypesStay
  <2> QED
    BY <2>1, <2>2, <2>3, <2>4, RestElsewhere
<1> QED
  BY <1>1, <1>2, <1>3, RestRemovePackage, RestRemoveAssignment
     DEF UserStep, CollectorStep, DeleteAssignment, UserDeletesPackage, CollectAssignment, CollectPackage

\* What an event says is in the cache, and who it concerns is in the queue.
LEMMA RestDeliveryStep ==
    ASSUME TypeInv, RestInv, DeliveryStep
    PROVE  RestInv'
<1>t. TypeOK /\ cur \in Workers
  BY DEF TypeInv, TypeOK
<1>1. SameWork
  BY <1>t, SameWorkFacts DEF DeliveryStep, DeliverAssignment, DeliverPackage, DeliverInput
<1>2. ASSUME NEW b \in Assignments, DeliverAssignment(b) PROVE RestInv'
  <2>1. ASSUME NEW a \in Assignments, Quiet(a)' PROVE Unmoved(a)
    <3>1. assignmentEvent[a] # "spec" /\ a \notin queue
      BY <1>2, <1>t, <2>1 DEF DeliverAssignment, Quiet, TypeOK
    <3> QED
      BY <1>2, <2>1, <3>1 DEF DeliverAssignment, apiVars, Quiet, Unmoved
  <2>2. AssignmentsCoherent'
    BY <1>2, <1>t DEF DeliverAssignment, apiVars, RestInv, AssignmentsCoherent, TypeOK
  <2>3. (InputsCoherent /\ PackagesCoherent /\ TypesStay)'
    BY <1>2 DEF DeliverAssignment, apiVars, RestInv, InputsCoherent, PackagesCoherent, TypesStay
  <2> QED
    BY <1>1, <2>1, <2>2, <2>3, RestElsewhere
<1>3. ASSUME NEW b \in Assignments, DeliverPackage(b) PROVE RestInv'
  <2>1. ASSUME NEW a \in Assignments, Quiet(a)' PROVE Unmoved(a)
    BY <1>3, <2>1 DEF DeliverPackage, apiVars, Quiet, Unmoved
  <2>2. PackagesCoherent'
    BY <1>3, <1>t DEF DeliverPackage, apiVars, RestInv, PackagesCoherent, TypeOK
  <2>3. (InputsCoherent /\ AssignmentsCoherent /\ TypesStay)'
    BY <1>3 DEF DeliverPackage, apiVars, RestInv, InputsCoherent, AssignmentsCoherent, TypesStay
  <2> QED
    BY <1>1, <2>1, <2>2, <2>3, RestElsewhere
<1>4. ASSUME NEW x \in Inputs, DeliverInput(x) PROVE RestInv'
  <2>1. \A y \in Inputs : cInputs'[y] = IF y = x THEN inputs[x] ELSE cInputs[y]
    BY <1>4, <1>t DEF DeliverInput, TypeOK
  <2>2. x \notin ClusterTypeNames
    BY <1>4 DEF DeliverInput, RestInv, TypesStay
  <2>3. ASSUME NEW a \in Assignments, Quiet(a)' PROVE Unmoved(a)
    <3>1. a \in Cached /\ a \notin FindAssignments(x)
      BY <1>4, <2>3 DEF DeliverInput, apiVars, Quiet, RestInv, AssignmentsCoherent, Cached
    <3>2. ClusterTypeOf[a] \in ClusterTypeNames /\ TargetOf[a] \in TargetNames
      BY DEF ClusterTypeNames, TargetNames
    <3>3. x \in TargetNames
      BY <2>2, <3>1 DEF FindAssignments
    <3>4. TargetOf[a] # x
      <4>1. TargetOf[a] = x => inputs[x] # None
        BY <2>1, <2>3 DEF Quiet
      <4> QED
        BY <2>2, <3>1, <3>3, <4>1 DEF FindAssignments
    <3>5. x \notin InputsOf(a) /\ InputsOf(a) \subseteq Inputs
      BY <3>2, <3>3, <3>4, NamesAssumption DEF InputsOf, Inputs
    <3>6. \A y \in InputsOf(a) : cInputs'[y] = cInputs[y]
      BY <2>1, <3>5
    <3> QED
      BY <1>4, <2>3, <3>6 DEF DeliverInput, apiVars, Quiet, Unmoved, InputsOf
  <2>4. (InputsCoherent /\ TypesStay)'
    BY <1>4, <2>1 DEF DeliverInput, apiVars, RestInv, InputsCoherent, TypesStay
  <2>5. (AssignmentsCoherent /\ PackagesCoherent)'
    BY <1>4 DEF DeliverInput, apiVars, RestInv, AssignmentsCoherent, PackagesCoherent
  <2> QED
    BY <1>1, <2>3, <2>4, <2>5, RestElsewhere
<1> QED
  BY <1>2, <1>3, <1>4 DEF DeliveryStep

LEMMA RestRestart ==
    ASSUME RestInv, Restart
    PROVE  RestInv'
<1>1. \A a \in Assignments : ~Quiet(a)'
  BY DEF Restart, apiVars, Quiet
<1> QED
  BY <1>1 DEF Restart, apiVars, RestInv, InputsCoherent, AssignmentsCoherent, PackagesCoherent,
              TypesStay, Resting

(***************************************************************************)
(* The worker, on assignment a.                                            *)
(***************************************************************************)
LEMMA RestWorker ==
    ASSUME TypeInv, RestInv, NEW a \in Assignments, cur.pc # "idle", cur.assignment = a, WorkerFrame,
           cur'.pc = "idle" \/ cur'.assignment = a,
           \A b \in Assignments : b # a => UNCHANGED <<status[b], packages[b]>>,
           \A b \in Assignments : assignmentEvent'[b] = "spec" <=> assignmentEvent[b] = "spec",
           queue \subseteq queue', packageEvents \subseteq packageEvents', orphans \subseteq orphans',
           PackagesCoherent',
           Quiet(a) /\ Quiet(a)' => IF cur'.pc = "idle" THEN CacheUpToDate(a)' ELSE InHandCurrent(a)'
    PROVE  RestInv'
<1>1. ASSUME NEW b \in Assignments, Quiet(b)'
      PROVE  IF Working(b)' THEN InHandCurrent(b)' ELSE CacheUpToDate(b)'
  <2>1. Quiet(b)
    BY <1>1 DEF WorkerFrame, cacheVars, Quiet
  <2>2. CASE b = a
    BY <1>1, <2>1, <2>2 DEF Working
  <2>3. CASE b # a
    <3>1. ~Working(b) /\ ~Working(b)'
      BY <2>3 DEF Working
    <3>2. CacheUpToDate(b)
      BY <2>1, <3>1 DEF RestInv, Resting
    <3> QED
      BY <2>3, <3>1, <3>2 DEF CacheUpToDate, WorkerFrame, cacheVars
  <2> QED
    BY <2>2, <2>3
<1> QED
  BY <1>1 DEF WorkerFrame, cacheVars, RestInv, InputsCoherent, AssignmentsCoherent, TypesStay, Resting

\* What is in hand is as InHandCurrent says, when a is quiet.
LEMMA Current ==
    ASSUME RestInv, NEW a \in Assignments, cur.pc # "idle", cur.assignment = a, Quiet(a)
    PROVE  InHandCurrent(a)
  BY DEF RestInv, Resting, Working

LEMMA RestRead ==
    ASSUME TypeInv, RestInv, NEW a \in Assignments, cur.pc # "idle", cur.assignment = a, ReadOnly,
           cur'.assignment = a, cur'.pc # "idle", Quiet(a) => InHandCurrent(a)'
    PROVE  RestInv'
<1>1. PackagesCoherent'
  BY DEF ReadOnly, WorkerFrame, NoPackageWrite, cacheVars, RestInv, PackagesCoherent
<1> QED
  BY <1>1, RestWorker DEF ReadOnly, NoPackageWrite, NoStatusWrite

LEMMA RestReads ==
    ASSUME TypeInv, RestInv, NEW a \in Assignments, cur.assignment = a,
           GetClusterType \/ GetDeploymentTarget \/ GetConfigData \/ GetManifests \/ GetPackage
    PROVE  RestInv'
<1>t. TypeOK /\ cur \in Workers
  BY DEF TypeInv, TypeOK
<1>1. /\ ReadOnly /\ cur.pc # "idle" /\ cur'.pc # "idle" /\ cur'.assignment = a
      /\ UNCHANGED <<cInputs, packages>>
  BY ReadsHand DEF SameAssignment, ReadOnly, WorkerFrame, NoPackageWrite, cacheVars
<1>2. /\ cInputs[ClusterTypeOf[a]] \in ClusterTypeSpecs \cup {None}
      /\ cInputs[TargetOf[a]] \in Versions \cup {None}
      /\ None \notin ClusterTypeSpecs \cup Versions
  BY <1>t, InputFacts, ConstantsAssumption DEF TypeOK
<1> SUFFICES ASSUME Quiet(a) PROVE InHandCurrent(a)'
  BY <1>1, RestRead
<1>3. InHandCurrent(a) /\ cInputs[TargetOf[a]] # None
  BY <1>1, Current DEF Quiet
\* A failure is the one that the caches tell, once all before it has been found.
<1>f. ASSUME NEW m, cur' = Failing(m), FailureIn(cInputs, a) = m
      PROVE  InHandCurrent(a)'
  <2>1. cur'.pc = "fail" /\ cur'.message = m
    BY <1>t, <1>f DEF Failing, Workers
  <2> QED
    BY <1>1, <1>f, <2>1 DEF InHandCurrent
<1>4. CASE GetClusterType
  <2> DEFINE v == cInputs[ClusterTypeOf[a]]
  <2>1. CASE v = None
    <3>1. cur' = Failing("no cluster type") /\ FailureIn(cInputs, a) = "no cluster type"
      BY <1>4, <2>1 DEF GetClusterType, FailureIn
    <3> QED
      BY <1>f, <3>1
  <2>2. CASE v # None
    <3>1. cur.pc = "type" /\ cur' = [cur EXCEPT !.pc = "target", !.type = v]
      BY <1>4, <2>2 DEF GetClusterType
    <3>2. cur'.pc = "target" /\ cur'.type = v /\ cur'.templates = cur.templates
      BY <1>t, <3>1 DEF Workers
    <3> QED
      BY <1>1, <1>3, <3>1, <3>2 DEF InHandCurrent
  <2> QED
    BY <2>1, <2>2
<1>5. CASE GetDeploymentTarget
  <2> DEFINE v == cInputs[TargetOf[a]]
  <2>1. cur.pc = "target" /\ cur' = [cur EXCEPT !.pc = "config", !.target = v]
    BY <1>3, <1>5 DEF GetDeploymentTarget
  <2>2. cur'.pc = "config" /\ cur'.type = cur.type /\ cur'.target = v /\ cur'.templates = cur.templates
    BY <1>t, <2>1 DEF Workers
  <2> QED
    BY <1>1, <1>3, <2>1, <2>2 DEF InHandCurrent
<1>6. CASE GetConfigData
  <2>1. cur.pc = "config" /\ cur.type = cInputs[ClusterTypeOf[a]] /\ cur.type # None
    BY <1>2, <1>3, <1>6 DEF GetConfigData, InHandCurrent, InHand, TypeInv
  <2>2. CASE cInputs[Config] \notin ValidConfigs
    <3>1. cur' = Failing("invalid config") /\ FailureIn(cInputs, a) = "invalid config"
      BY <1>3, <1>6, <2>1, <2>2 DEF GetConfigData, FailureIn
    <3> QED
      BY <1>f, <3>1
  <2>3. CASE cInputs[Config] \in ValidConfigs
    <3>1. cur' = [cur EXCEPT !.pc = "templates", !.config = cInputs[Config]]
      BY <1>6, <2>3 DEF GetConfigData
    <3>2. /\ cur'.pc = "templates" /\ cur'.type = cur.type /\ cur'.target = cur.target
          /\ cur'.config = cInputs[Config] /\ cur'.templates = cur.templates
      BY <1>t, <3>1 DEF Workers
    <3>3. cur.templates = << >> /\ Len(cur.templates) = 0
      BY <1>3, <2>1, <1>6, EmptySeq DEF GetConfigData, InHandCurrent
    <3>4. 1..Len(cur'.templates) = {}
      BY <3>2, <3>3
    <3> QED
      BY <1>1, <1>3, <1>6, <3>2, <3>4 DEF GetConfigData, InHandCurrent
  <2> QED
    BY <2>2, <2>3
<1>7. CASE GetManifests
  <2> DEFINE n == Len(cur.templates) + 1
             v == cInputs[cur.type[Roles[n]]]
             pc == IF n = Len(Roles) THEN "package" ELSE "templates"
             more == Append(cur.templates, v)
  <2>1. /\ cur.pc = "templates" /\ cur.templates \in Seq(Versions) /\ Len(cur.templates) < Len(Roles)
        /\ cur.type = cInputs[ClusterTypeOf[a]] /\ cur.type \in ClusterTypeSpecs /\ cur.type # None
        /\ cInputs[Config] \in ValidConfigs
    BY <1>t, <1>2, <1>3, <1>7 DEF GetManifests, InHandCurrent, InHand, TypeInv, Workers
  <2>2. Len(cur.templates) \in Nat /\ n \in 1..3 /\ Roles[n] \in RoleNames
    BY <2>1, RoleFacts, LenProperties
  <2>3. CASE v = None
    <3>1. cur' = Failing("no template")
      BY <1>7, <2>3 DEF GetManifests
    <3>2. FailureIn(cInputs, a) = "no template"
      BY <1>3, <2>1, <2>2, <2>3 DEF FailureIn
    <3> QED
      BY <1>f, <3>1, <3>2
  <2>4. CASE v # None
    <3>1. cur' = [cur EXCEPT !.pc = pc, !.templates = more] /\ pc \in {"package", "templates"}
      BY <1>7, <2>4 DEF GetManifests
    <3>2. v \in Versions
      BY <1>t, <2>1, <2>2, <2>4, TypesNameTemplates, InputFacts DEF TypeOK
    <3>3. Len(more) = n /\ more[n] = v /\ \A m \in 1..Len(cur.templates) : more[m] = cur.templates[m]
      BY <2>1, <3>2, AppendProperties
    <3>4. \A m \in 1..n : more[m] = cInputs[cur.type[Roles[m]]]
      <4>1. \A m \in 1..Len(cur.templates) : cur.templates[m] = cInputs[cur.type[Roles[m]]]
        BY <1>3, <2>1 DEF InHandCurrent
      <4>2. \A m \in 1..n : m \in 1..Len(cur.templates) \/ m = n
        BY <2>2
      <4> QED
        BY <3>3, <4>1, <4>2
    <3> HIDE DEF v, n, pc, more
    <3>5. /\ cur'.pc \in {"package", "templates"} /\ cur'.type = cur.type /\ cur'.target = cur.target
          /\ cur'.config = cur.config /\ cur'.templates = more
      BY <1>t, <3>1 DEF Workers
    <3> QED
      BY <1>1, <1>3, <2>1, <3>3, <3>4, <3>5 DEF InHandCurrent
  <2> QED
    BY <2>3, <2>4
<1>8. CASE GetPackage
  <2> DEFINE exists == cPackages[a] # None
             current == a \notin packageEvents
  <2>1. cur.pc = "package" /\ cur' = [cur EXCEPT !.pc = "write", !.exists = exists, !.current = current]
    BY <1>8 DEF GetPackage
  <2>2. current /\ exists = (packages[a] # None)
    BY DEF Quiet, RestInv, PackagesCoherent
  <2> HIDE DEF exists, current
  <2>3. /\ cur'.pc = "write" /\ cur'.type = cur.type /\ cur'.target = cur.target /\ cur'.config = cur.config
        /\ cur'.templates = cur.templates /\ cur'.exists = exists /\ cur'.current = current
    BY <1>t, <2>1 DEF Workers
  <2> QED
    BY <1>1, <1>3, <2>1, <2>2, <2>3 DEF InHandCurrent
<1> QED
  BY <1>4, <1>5, <1>6, <1>7, <1>8

\* What the worker has rendered is what rendering gives.
LEMMA RenderedOutcome ==
    ASSUME TypeInv, NEW a \in Assignments, cur.assignment = a, cur.pc = "write", InHandCurrent(a)
    PROVE  FailureIn(cInputs, a) = None /\ Rendered = OutcomeIn(cInputs, a)
<1>1. /\ cur.templates \in Seq(Versions) /\ Len(cur.templates) = 3
      /\ cur.type = cInputs[ClusterTypeOf[a]] /\ cur.type \in ClusterTypeSpecs
      /\ cur.target = cInputs[TargetOf[a]] /\ cur.target \in Versions
      /\ cur.config = cInputs[Config] /\ cur.config \in ValidConfigs
  BY RoleFacts DEF TypeInv, TypeOK, InHand, Workers, InHandCurrent
<1>2. \A n \in 1..3 : cur.templates[n] = cInputs[cur.type[Roles[n]]] /\ cur.templates[n] \in Versions
  BY <1>1, ElementOfSeq DEF InHandCurrent
<1>3. ASSUME NEW r \in RoleNames
      PROVE  /\ cur.templates[CHOOSE i \in DOMAIN Roles : Roles[i] = r] = cInputs[cur.type[r]]
             /\ cInputs[cur.type[r]] \in Versions
  <2> DEFINE i == CHOOSE i \in DOMAIN Roles : Roles[i] = r
  <2>1. i \in 1..3 /\ Roles[i] = r
    BY RoleFacts
  <2> HIDE DEF i
  <2>2. cur.templates[i] = cInputs[cur.type[r]] /\ cur.templates[i] \in Versions
    BY <1>2, <2>1
  <2> QED
    BY <2>2 DEF i
<1>4. FailureIn(cInputs, a) = None
  <2>1. \A r \in RoleNames : cInputs[cur.type[r]] # None
    BY <1>3, ConstantsAssumption
  <2>2. cInputs[TargetOf[a]] # None /\ cInputs[Config] \in ValidConfigs
    BY <1>1, ConstantsAssumption
  <2>3. cInputs[ClusterTypeOf[a]] \in ClusterTypeSpecs
    BY <1>1
  <2>4. \A r \in RoleNames : cInputs[cInputs[ClusterTypeOf[a]][r]] # None
    BY <1>1, <2>1
  <2> QED
    BY <2>2, <2>3, <2>4, FailureFacts
<1>5. [r \in RoleNames |-> cur.templates[CHOOSE i \in DOMAIN Roles : Roles[i] = r]]
        = [r \in RoleNames |-> cInputs[cur.type[r]]]
  <2> DEFINE written(r) == cur.templates[CHOOSE i \in DOMAIN Roles : Roles[i] = r]
             cached(r) == cInputs[cur.type[r]]
  <2>1. \A r \in RoleNames : written(r) = cached(r)
    BY <1>3
  <2> HIDE DEF written, cached
  <2>2. [r \in RoleNames |-> written(r)] = [r \in RoleNames |-> cached(r)]
    BY <2>1
  <2> QED
    BY <2>2 DEF written, cached
<1>6. OutcomeIn(cInputs, a) = [target |-> cur.target, config |-> cur.config,
                               templates |-> [r \in RoleNames |-> cInputs[cur.type[r]]]]
  BY <1>1, Zenon DEF OutcomeIn
<1> QED
  BY <1>4, <1>5, <1>6, Zenon DEF Rendered

\* A package that the worker could not write has an event on its way.
LEMMA RestWritePackage ==
    ASSUME NoBlindSpot, TypeInv, RestInv, NEW a \in Assignments, cur.assignment = a,
           NEW ok \in BOOLEAN, WritePackage(ok)
    PROVE  RestInv'
<1>t. TypeOK /\ cur \in Workers
  BY DEF TypeInv, TypeOK
<1>1. /\ cur.pc = "write" /\ cur'.pc # "idle" /\ cur'.assignment = a /\ WorkerFrame
      /\ UNCHANGED <<status, assignmentEvent, queue>>
  BY WritePackageHand DEF SameAssignment
<1>2. CASE ok
  <2>1. /\ packages' = [packages EXCEPT ![a] = Rendered]
        /\ packageEvents' = IF packages[a] = Rendered THEN packageEvents ELSE packageEvents \cup {a}
        /\ orphans \subseteq orphans'
        /\ cur' = [cur EXCEPT !.pc = "close", !.exists = FALSE, !.current = FALSE]
    BY <1>2 DEF WritePackage
  <2>2. packages'[a] = Rendered /\ \A b \in Assignments : b # a => packages'[b] = packages[b]
    BY <1>t, <2>1 DEF TypeOK
  <2>3. cur'.pc = "close"
    BY <1>t, <2>1 DEF Workers
  <2>4. PackagesCoherent'
    BY <1>1, <2>1, <2>2 DEF WorkerFrame, cacheVars, RestInv, PackagesCoherent
  <2>5. ASSUME Quiet(a) PROVE InHandCurrent(a)'
    <3>1. FailureIn(cInputs, a) = None /\ packages'[a] = OutcomeIn(cInputs, a)
      BY <1>1, <2>2, <2>5, Current, RenderedOutcome
    <3> QED
      BY <1>1, <2>3, <3>1 DEF InHandCurrent, WorkerFrame, cacheVars
  <2> QED
    BY <1>1, <2>1, <2>2, <2>4, <2>5, RestWorker
<1>3. CASE ~ok
  <2>1. NoPackageWrite /\ ~Writable
    BY <1>3 DEF WritePackage, Fault, NoBlindSpot
  <2>2. ~Quiet(a)
    BY <1>1, <2>1, Current DEF Writable, InHandCurrent
  <2>3. PackagesCoherent'
    BY <1>1, <2>1 DEF WorkerFrame, NoPackageWrite, cacheVars, RestInv, PackagesCoherent
  <2> QED
    BY <1>1, <2>1, <2>2, <2>3, RestWorker DEF NoPackageWrite
<1> QED
  BY <1>2, <1>3

LEMMA SpecEvents ==
    ASSUME TypeOK, NEW a \in Assignments, NEW s, NEW fresh, NEW ok \in BOOLEAN, WriteStatus(a, s, fresh, ok)
    PROVE  \A b \in Assignments : assignmentEvent'[b] = "spec" <=> assignmentEvent[b] = "spec"
<1>1. CASE ok
  BY <1>1 DEF WriteStatus, TypeOK
<1>2. CASE ~ok
  BY <1>2 DEF WriteStatus
<1> QED
  BY <1>1, <1>2

\* Reconcile returns, to be called again.
LEMMA RestAgain ==
    ASSUME TypeInv, RestInv, NEW a \in Assignments, cur.assignment = a, cur.pc # "idle",
           Return(TRUE), WorkerFrame, NoPackageWrite, UNCHANGED <<status, assignmentEvent>>
    PROVE  RestInv'
<1>1. cur'.pc = "idle" /\ a \in queue' /\ queue \subseteq queue'
  BY IdleType DEF Return
<1>2. ~Quiet(a)'
  BY <1>1 DEF Quiet
<1>3. PackagesCoherent'
  BY DEF WorkerFrame, NoPackageWrite, cacheVars, RestInv, PackagesCoherent
<1> QED
  BY <1>1, <1>2, <1>3, RestWorker DEF NoPackageWrite

\* The worker deals with the issue and goes on.
LEMMA RestGoesOn ==
    ASSUME TypeInv, RestInv, NEW a \in Assignments, cur.assignment = a, cur.pc # "idle",
           cur'.assignment = a, cur'.pc # "idle",
           UNCHANGED queue, WorkerFrame, NoPackageWrite, UNCHANGED <<status, assignmentEvent>>,
           Quiet(a) => InHandCurrent(a)'
    PROVE  RestInv'
<1>1. PackagesCoherent'
  BY DEF WorkerFrame, NoPackageWrite, cacheVars, RestInv, PackagesCoherent
<1> QED
  BY <1>1, RestWorker DEF NoPackageWrite

LEMMA RestIssueStep ==
    ASSUME TypeInv, RestInv, NEW a \in Assignments, cur.assignment = a,
           (\E found \in BOOLEAN : CloseIssue(found)) \/ UpdateIssue \/ GitHubFails
    PROVE  RestInv'
<1>t. TypeOK /\ cur \in Workers
  BY DEF TypeInv, TypeOK
<1>1. CASE GitHubFails
  BY <1>1, RestAgain DEF GitHubFails
<1>2. ASSUME NEW found \in BOOLEAN, CloseIssue(found) PROVE RestInv'
  <2>1. cur.pc = "close" /\ WorkerFrame /\ NoPackageWrite /\ UNCHANGED <<status, assignmentEvent>>
    BY <1>2 DEF CloseIssue
  <2>2. CASE ~gitOpsRepo
    BY <1>2, <2>1, <2>2, RestAgain DEF CloseIssue
  <2>3. CASE gitOpsRepo
    <3>1. cur' = [cur EXCEPT !.pc = "ready", !.status = ReadyStatus] /\ UNCHANGED queue
      BY <1>2, <2>3 DEF CloseIssue
    <3>2. cur'.pc = "ready" /\ cur'.assignment = a /\ cur'.status = ReadyStatus
      BY <1>t, <3>1 DEF Workers
    <3>3. ASSUME Quiet(a) PROVE InHandCurrent(a)'
      BY <2>1, <3>2, <3>3, Current DEF InHandCurrent, WorkerFrame, NoPackageWrite, cacheVars
    <3> QED
      BY <2>1, <3>1, <3>2, <3>3, RestGoesOn
  <2> QED
    BY <2>2, <2>3
<1>3. CASE UpdateIssue
  <2>1. /\ cur.pc = "fail" /\ WorkerFrame /\ NoPackageWrite /\ UNCHANGED <<status, assignmentEvent>>
        /\ cur.message # None
    BY <1>3, ConstantsAssumption DEF UpdateIssue, NoStatusWrite, TypeInv, InHand
  <2>2. CASE cur.message # cur.status.message /\ ~gitOpsRepo
    BY <1>3, <2>1, <2>2, RestAgain DEF UpdateIssue
  <2>3. CASE ~(cur.message # cur.status.message /\ ~gitOpsRepo)
    <3>1. UNCHANGED queue /\ \E no : cur' = [cur EXCEPT !.pc = "failed",
              !.status = [ready |-> "UpdateFailed", issue |-> no, message |-> cur.message]]
      <4>1. CASE cur.message = cur.status.message
        BY <1>3, <4>1 DEF UpdateIssue
      <4>2. CASE cur.message # cur.status.message /\ cur.status.issue = 0
        BY <1>3, <2>3, <4>2 DEF UpdateIssue
      <4>3. CASE cur.message # cur.status.message /\ cur.status.issue # 0
        BY <1>3, <2>3, <4>3 DEF UpdateIssue
      <4> QED
        BY <4>1, <4>2, <4>3
    <3>2. /\ cur'.pc = "failed" /\ cur'.assignment = a
          /\ cur'.status.ready = "UpdateFailed" /\ cur'.status.message = cur.message
      BY <1>t, <3>1 DEF Workers
    <3>3. ASSUME Quiet(a) PROVE InHandCurrent(a)'
      BY <2>1, <3>2, <3>3, Current DEF InHandCurrent, WorkerFrame, NoPackageWrite, cacheVars
    <3> QED
      BY <2>1, <3>1, <3>2, <3>3, RestGoesOn
  <2> QED
    BY <2>2, <2>3
<1> QED
  BY <1>1, <1>2, <1>3

\* The run ends with the status written, or is due again.
LEMMA RestReport ==
    ASSUME TypeInv, RestInv, NEW a \in Assignments, cur.assignment = a, NEW ok \in BOOLEAN,
           ReportReady(ok) \/ ReportFailure(ok)
    PROVE  RestInv'
<1>t. TypeOK /\ cur \in Workers
  BY DEF TypeInv, TypeOK
<1>1. /\ cur.pc \in {"ready", "failed"} /\ cur.status \in Statuses
      /\ WriteStatus(a, cur.status, cur.fresh, ok) /\ WorkerFrame /\ NoPackageWrite /\ Return(~ok)
  BY <1>t DEF ReportReady, ReportFailure, Workers
<1>2. CASE ~ok
  BY <1>1, <1>2, RestAgain DEF WriteStatus
<1>3. CASE ok
  <2>1. cur'.pc = "idle" /\ queue' = queue
    BY <1>1, <1>3, IdleType DEF Return
  <2>2. /\ \A b \in Assignments : b # a => status'[b] = status[b]
        /\ status'[a] = cur.status
    BY <1>1, <1>3, <1>t, WriteStatusChange
  <2>3. \A b \in Assignments : assignmentEvent'[b] = "spec" <=> assignmentEvent[b] = "spec"
    BY <1>1, <1>t, SpecEvents
  <2>4. PackagesCoherent'
    BY <1>1 DEF WorkerFrame, NoPackageWrite, cacheVars, RestInv, PackagesCoherent
  <2>5. ASSUME Quiet(a) PROVE CacheUpToDate(a)'
    <3>1. InHandCurrent(a)
      BY <1>1, <2>5, Current
    <3>2. CASE cur.pc = "ready"
      BY <1>1, <2>2, <3>1, <3>2
         DEF InHandCurrent, CacheUpToDate, ReadyStatus, WorkerFrame, NoPackageWrite, cacheVars
    <3>3. CASE cur.pc = "failed"
      BY <1>1, <2>2, <3>1, <3>3
         DEF InHandCurrent, CacheUpToDate, WorkerFrame, NoPackageWrite, cacheVars
    <3> QED
      BY <1>1, <3>2, <3>3
  <2> QED
    BY <1>1, <2>1, <2>2, <2>3, <2>4, <2>5, RestWorker DEF NoPackageWrite
<1> QED
  BY <1>2, <1>3

LEMMA RestBegin ==
    ASSUME TypeInv, RestInv, NEW a \in Assignments, BeginStep(a)
    PROVE  RestInv'
<1>t. TypeOK /\ cur \in Workers
  BY DEF TypeInv, TypeOK
<1>1. CASE BeginGone(a)
  <2>1. SameWork
    BY <1>1, <1>t, SameWorkFacts DEF BeginGone
  <2>2. ASSUME NEW b \in Assignments, Quiet(b)' PROVE Unmoved(b)
    <3>1. b # a
      BY <1>1, <2>2 DEF BeginGone, WorkerFrame, NoStatusWrite, Quiet, RestInv, AssignmentsCoherent
    <3> QED
      BY <1>1, <2>2, <3>1 DEF BeginGone, WorkerFrame, NoPackageWrite, NoStatusWrite, cacheVars, Quiet, Unmoved
  <2>3. (InputsCoherent /\ AssignmentsCoherent /\ PackagesCoherent /\ TypesStay)'
    BY <1>1 DEF BeginGone, WorkerFrame, NoPackageWrite, NoStatusWrite, cacheVars, RestInv,
                InputsCoherent, AssignmentsCoherent, PackagesCoherent, TypesStay
  <2> QED
    BY <2>1, <2>2, <2>3, RestElsewhere
<1>2. ASSUME NEW ok \in BOOLEAN, Begin(a, ok) PROVE RestInv'
  <2> DEFINE s == [cStatus[a] EXCEPT !.ready = "Rebuilding"]
             fresh == assignmentEvent[a] = "none"
  <2>1. /\ cur.pc = "idle" /\ WriteStatus(a, s, fresh, ok) /\ WorkerFrame /\ NoPackageWrite
        /\ cur' = IF ok
                  THEN [IdleWorker EXCEPT !.pc = "type", !.assignment = a, !.status = s,
                                          !.fresh = TRUE, !.live = TRUE]
                  ELSE cur
        /\ queue' = IF ok THEN queue \ {a} ELSE queue
    BY <1>2 DEF Begin
  <2>2. s \in Statuses
    <3>1. cStatus[a] \in Statuses
      BY <1>t DEF TypeOK
    <3> QED
      BY <3>1 DEF Statuses
  <2> HIDE DEF s, fresh
  <2>3. \A b \in Assignments : assignmentEvent'[b] = "spec" <=> assignmentEvent[b] = "spec"
    BY <1>t, <2>1, SpecEvents
  <2>4. /\ status'[a] = IF ok THEN s ELSE status[a]
        /\ \A b \in Assignments : b # a => status'[b] = status[b]
    BY <1>t, <2>1, <2>2, WriteStatusChange
  <2>5. (InputsCoherent /\ AssignmentsCoherent /\ PackagesCoherent /\ TypesStay)'
    BY <2>1, <2>3 DEF WorkerFrame, NoPackageWrite, cacheVars, RestInv, InputsCoherent,
                      AssignmentsCoherent, PackagesCoherent, TypesStay
  <2>6. CASE ~ok
    <3>1. SameWork
      BY <1>t, <2>1, <2>6, SameWorkFacts
    <3>2. ASSUME NEW b \in Assignments, Quiet(b)' PROVE Unmoved(b)
      BY <2>1, <2>3, <2>4, <2>6, <3>2 DEF WorkerFrame, NoPackageWrite, cacheVars, Quiet, Unmoved
    <3> QED
      BY <2>5, <3>1, <3>2, RestElsewhere
  <2>7. CASE ok
    <3>1. cur'.pc = "type" /\ cur'.assignment = a /\ cur'.templates = << >>
      BY <2>1, <2>7, IdleType DEF Workers
    <3>2. InHandCurrent(a)'
      BY <3>1 DEF InHandCurrent
    <3>3. ASSUME NEW b \in Assignments, b # a, Quiet(b)' PROVE CacheUpToDate(b)'
      <4>1. Quiet(b) /\ ~Working(b)
        BY <2>1, <2>3, <3>3 DEF WorkerFrame, NoPackageWrite, cacheVars, Quiet, Working
      <4>2. CacheUpToDate(b)
        BY <4>1 DEF RestInv, Resting
      <4> QED
        BY <2>1, <2>4, <3>3, <4>2 DEF WorkerFrame, NoPackageWrite, cacheVars, CacheUpToDate
    <3>4. Resting'
      BY <3>1, <3>2, <3>3 DEF Resting, Working
    <3> QED
      BY <2>5, <3>4 DEF RestInv
  <2> QED
    BY <2>6, <2>7
<1> QED
  BY <1>1, <1>2 DEF BeginStep

LEMMA RestStep ==
    ASSUME NoBlindSpot, TypeInv, RestInv, [Next]_vars
    PROVE  RestInv'
<1>1. CASE UNCHANGED vars
  BY <1>1 DEF vars, apiVars, eventVars, cacheVars, RestInv, InputsCoherent, AssignmentsCoherent,
              PackagesCoherent, TypesStay, Resting, Quiet, Working, InHandCurrent, CacheUpToDate
<1>2. CASE WorkerStep
  <2>1. cur.pc # "idle"
    BY <1>2 DEF WorkerStep, GetClusterType, GetDeploymentTarget, GetConfigData, GetManifests, GetPackage,
                WritePackage, CloseIssue, ReportReady, UpdateIssue, ReportFailure, GitHubFails
  <2>2. PICK a \in Assignments : cur.assignment = a
    BY <2>1 DEF TypeInv, InHand
  <2>3. CASE GetClusterType \/ GetDeploymentTarget \/ GetConfigData \/ GetManifests \/ GetPackage
    BY <2>2, <2>3, RestReads
  <2>4. CASE \E ok \in BOOLEAN : WritePackage(ok)
    BY <2>2, <2>4, RestWritePackage
  <2>5. CASE (\E found \in BOOLEAN : CloseIssue(found)) \/ UpdateIssue \/ GitHubFails
    BY <2>2, <2>5, RestIssueStep
  <2>6. CASE \E ok \in BOOLEAN : ReportReady(ok) \/ ReportFailure(ok)
    BY <2>2, <2>6, RestReport
  <2> QED
    BY <1>2, <2>3, <2>4, <2>5, <2>6 DEF WorkerStep
<1> QED
  BY <1>1, <1>2, RestOtherStep, RestDeliveryStep, RestBegin, RestRestart DEF Next

LEMMA RestAlways == NoBlindSpot => (Spec => []RestInv)
<1> SUFFICES ASSUME NoBlindSpot PROVE Spec => []RestInv
  OBVIOUS
<1>1. Inv => TypeInv
  BY DEF Inv
<1>2. RestInv /\ TypeInv /\ [Next]_vars => RestInv'
  BY RestStep
<1> QED
  BY <1>1, <1>2, RestInit, InvAlways, PTL DEF Spec

\* As long as cluster types stay and packages can be written, an assignment that nothing will
\* reconcile is up to date with everything it is made from, through edits at any moment,
\* deletions, stale copies, failed status updates, GitHub's failures and restarts.
THEOREM RestsUpToDate == NoBlindSpot => (Spec => []RestingIsUpToDate)
<1>1. ASSUME RestInv, TypeInv PROVE RestingIsUpToDate
  <2> SUFFICES ASSUME NEW a \in Assignments, assignment[a] = "present", Calm(a), inputs[TargetOf[a]] # None
               PROVE  IF Failure(a) # None
                      THEN status[a].ready = "UpdateFailed" /\ status[a].message = Failure(a)
                      ELSE status[a].ready = "AssignmentPackageCreated" /\ packages[a] = Outcome(a)
    BY DEF RestingIsUpToDate, UpToDate
  <2>1. \A x \in Inputs : cInputs[x] = inputs[x]
    BY <1>1 DEF Calm, RestInv, InputsCoherent
  <2>2. TargetOf[a] \in Inputs /\ InputsOf(a) \subseteq Inputs
    BY InputFacts DEF InputsOf
  <2>3. CacheUpToDate(a)
    BY <1>1, <2>1, <2>2 DEF Calm, Quiet, Working, RestInv, Resting
  <2>4. /\ FailureIn(cInputs, a) = FailureIn(inputs, a)
        /\ FailureIn(inputs, a) = None => OutcomeIn(cInputs, a) = OutcomeIn(inputs, a)
    <3>1. inputs[ClusterTypeOf[a]] \in ClusterTypeSpecs \cup {None}
      BY <1>1, InputFacts DEF TypeInv, TypeOK
    <3> QED
      BY <2>1, <2>2, <3>1, SameInputs
  <2>5. Failure(a) = FailureIn(inputs, a) /\ Outcome(a) = OutcomeIn(inputs, a)
    BY DEF Failure, FailureIn, Outcome, OutcomeIn
  <2> QED
    BY <2>3, <2>4, <2>5 DEF CacheUpToDate
<1>2. Inv => TypeInv
  BY DEF Inv
<1> QED
  BY <1>1, <1>2, RestAlways, InvAlways, PTL
=============================================================================

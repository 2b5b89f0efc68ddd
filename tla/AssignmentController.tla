------------------------- MODULE AssignmentController -------------------------
(***************************************************************************)
(* The assignment controller of one environment namespace                  *)
(* (controllers/assignment_controller.go): it renders the templates of an  *)
(* assignment's cluster type with the data of its deployment target and    *)
(* the platform config, keeps the result in an AssignmentPackage, and      *)
(* reports failures in a GitHub issue.                                     *)
(*                                                                         *)
(* Templates and config values are opaque versions: a rendered package is  *)
(* the tuple of the versions it was made from.  All ConfigMaps and         *)
(* ConfigSchemas of the namespace are one input, valid or not.  The hash   *)
(* of an error message stands for the message (no collisions).             *)
(***************************************************************************)
EXTENDS Naturals, Sequences, FiniteSets

CONSTANTS
    Assignments,       \* names of assignments
    ClusterTypeOf,     \* cluster type of each assignment
    TargetOf,          \* deployment target of each assignment
    TemplateNames,
    ClusterTypeSpecs,  \* which template each role of a cluster type takes
    Versions,          \* specs of deployment targets and templates
    ConfigVersions,    \* states of the config of the namespace
    ValidConfigs,      \* the ones that its schemas accept
    None,
    Adversity,         \* what the environment may do, see below
    MaxEdits, MaxFaults, MaxIssues

\* The templates of a cluster type, in the order they are rendered.
Roles == <<"reconciler", "namespaceService", "configType">>
RoleNames == {Roles[i] : i \in DOMAIN Roles}

(***************************************************************************)
(* "types"    cluster types change or go away                              *)
(* "delete"   assignments are deleted, and created again                   *)
(* "package"  writing a package fails                                      *)
(* "status"   updating the status of an assignment fails                   *)
(* "lookup"   reading an issue from GitHub fails                           *)
(* "github"   any other call to GitHub fails                               *)
(* "restart"  the controller restarts                                      *)
(***************************************************************************)
Adversities == {"types", "delete", "package", "status", "lookup", "github", "restart"}

ClusterTypeNames == {ClusterTypeOf[a] : a \in Assignments}
TargetNames == {TargetOf[a] : a \in Assignments}
Config == "config"

\* Everything a package is made from, one informer each.
Inputs == ClusterTypeNames \cup TargetNames \cup TemplateNames \cup {Config}

InputSpecs(x) ==
    IF x = Config THEN ConfigVersions
    ELSE IF x \in ClusterTypeNames THEN ClusterTypeSpecs \cup {None}
    ELSE Versions \cup {None}

InputValues == ConfigVersions \cup ClusterTypeSpecs \cup Versions \cup {None}

Packages ==
    [target : Versions, config : ValidConfigs, templates : [RoleNames -> Versions]]

\* The error messages of a failed reconcile.
Messages == {"no cluster type", "no target", "invalid config", "no template", "write failed"}

\* Inputs of different kinds have different names.
ASSUME NamesAssumption ==
    /\ ClusterTypeNames \cap TemplateNames = {}
    /\ Config \notin ClusterTypeNames \cup TargetNames \cup TemplateNames
    /\ (ClusterTypeNames \cup TemplateNames) \cap TargetNames = {}

ASSUME ConstantsAssumption ==
    /\ Adversity \subseteq Adversities
    /\ ClusterTypeSpecs \subseteq [RoleNames -> TemplateNames]
    /\ ValidConfigs \subseteq ConfigVersions
    /\ None \notin Versions \cup ConfigVersions \cup ClusterTypeSpecs \cup Packages \cup Messages
    /\ MaxEdits \in Nat /\ MaxFaults \in Nat /\ MaxIssues \in Nat

\* The Ready condition (True under AssignmentPackageCreated) and GitIssueStatus:
\* number 0 when there is no issue, the message whose hash is ContentHash.
Statuses ==
    [ready   : {"New", "Rebuilding", "AssignmentPackageCreated", "UpdateFailed"},
     issue   : 0..MaxIssues,
     message : Messages \cup {None}]

NewStatus == [ready |-> "New", issue |-> 0, message |-> None]

Issues == [of : Assignments, message : Messages, open : BOOLEAN]

VARIABLES
    \* API server
    assignment,       \* "absent", "present" or "terminating"
    status,           \* status of each assignment
    inputs,           \* spec of each input, or None
    packages,         \* the package of each assignment, or None
    orphans,          \* packages whose owner reference holds a dead UID
    gitOpsRepo,       \* the namespace has a GitOpsRepo
    \* GitHub
    issues,           \* the issues, by number
    \* undelivered watch events
    assignmentEvent,  \* "none", "status" or "spec" of each assignment
    inputEvents, packageEvents,
    \* informer caches
    cAssignment, cStatus, cInputs, cPackages,
    \* controller
    queue, cur,
    edits, faults

apiVars   == <<assignment, status, inputs, packages, orphans, gitOpsRepo>>
eventVars == <<assignmentEvent, inputEvents, packageEvents>>
cacheVars == <<cAssignment, cStatus, cInputs, cPackages>>
vars == <<apiVars, issues, eventVars, cacheVars, queue, cur, edits, faults>>

IdleWorker ==
    [pc |-> "idle", assignment |-> None, status |-> NewStatus, fresh |-> FALSE, live |-> FALSE,
     type |-> None, target |-> None, config |-> None, templates |-> << >>,
     exists |-> FALSE, current |-> FALSE, message |-> None]

Workers ==
    [pc : {"idle", "type", "target", "config", "templates", "package", "write", "close", "ready",
           "fail", "failed"},
     assignment : Assignments \cup {None}, status : Statuses, fresh : BOOLEAN, live : BOOLEAN,
     type : ClusterTypeSpecs \cup {None}, target : Versions \cup {None},
     config : ConfigVersions \cup {None}, templates : Seq(Versions),
     exists : BOOLEAN, current : BOOLEAN, message : Messages \cup {None}]

TypeOK ==
    /\ assignment \in [Assignments -> {"absent", "present", "terminating"}]
    /\ status \in [Assignments -> Statuses]
    /\ DOMAIN inputs = Inputs /\ \A x \in Inputs : inputs[x] \in InputSpecs(x)
    /\ packages \in [Assignments -> Packages \cup {None}]
    /\ orphans \subseteq Assignments
    /\ gitOpsRepo \in BOOLEAN
    /\ issues \in Seq(Issues) /\ Len(issues) <= MaxIssues
    /\ assignmentEvent \in [Assignments -> {"none", "status", "spec"}]
    /\ inputEvents \subseteq Inputs
    /\ packageEvents \subseteq Assignments
    /\ cAssignment \in [Assignments -> {"absent", "present", "terminating"}]
    /\ cStatus \in [Assignments -> Statuses]
    /\ DOMAIN cInputs = Inputs /\ \A x \in Inputs : cInputs[x] \in InputSpecs(x)
    /\ cPackages \in [Assignments -> Packages \cup {None}]
    /\ queue \subseteq Assignments
    /\ cur \in Workers
    /\ edits \in 0..MaxEdits
    /\ faults \in 0..MaxFaults

\* The controller starts after the scheduler has made the assignments.
Init ==
    /\ assignment = [a \in Assignments |-> "present"]
    /\ status = [a \in Assignments |-> NewStatus]
    /\ inputs \in [Inputs -> InputValues]
    /\ \A x \in Inputs : inputs[x] \in InputSpecs(x)
    /\ \A x \in ClusterTypeNames \cup TargetNames : inputs[x] # None
    /\ packages = [a \in Assignments |-> None]
    /\ orphans = {}
    /\ gitOpsRepo \in BOOLEAN
    /\ issues = << >>
    /\ assignmentEvent = [a \in Assignments |-> "none"]
    /\ inputEvents = {} /\ packageEvents = {}
    /\ cAssignment = assignment /\ cStatus = status
    /\ cInputs = inputs /\ cPackages = packages
    /\ queue = Assignments
    /\ cur = IdleWorker
    /\ edits = 0 /\ faults = 0

(***************************************************************************)
(* Users, the scheduling policy controller and the garbage collector.      *)
(***************************************************************************)

Edit == edits < MaxEdits /\ edits' = edits + 1

OtherFrame == UNCHANGED <<issues, cacheVars, queue, faults>>

\* A write to assignment a that outdates the copy the worker may hold.
TouchAssignment(a, live) ==
    /\ assignmentEvent' = [assignmentEvent EXCEPT ![a] = "spec"]
    /\ cur' = IF cur.assignment = a
              THEN [cur EXCEPT !.fresh = FALSE, !.live = @ /\ live]
              ELSE cur

EditInput(x, v) ==
    /\ Edit
    /\ v \in InputSpecs(x) /\ v # inputs[x]
    /\ x \in ClusterTypeNames => "types" \in Adversity
    /\ inputs' = [inputs EXCEPT ![x] = v]
    /\ inputEvents' = inputEvents \cup {x}
    /\ OtherFrame
    /\ UNCHANGED <<assignment, status, packages, orphans, gitOpsRepo, assignmentEvent,
                   packageEvents, cur>>

CreateGitOpsRepo ==
    /\ ~gitOpsRepo
    /\ gitOpsRepo' = TRUE
    /\ OtherFrame
    /\ UNCHANGED <<assignment, status, inputs, packages, orphans, eventVars, cur, edits>>

CreateAssignment(a) ==
    /\ Edit
    /\ assignment[a] = "absent"
    /\ assignment' = [assignment EXCEPT ![a] = "present"]
    /\ status' = [status EXCEPT ![a] = NewStatus]
    /\ TouchAssignment(a, TRUE)
    /\ OtherFrame
    /\ UNCHANGED <<inputs, packages, orphans, gitOpsRepo, inputEvents, packageEvents>>

\* The object goes away; its package waits for the garbage collector.
RemoveAssignment(a) ==
    /\ assignment' = [assignment EXCEPT ![a] = "absent"]
    /\ orphans' = IF packages[a] = None THEN orphans ELSE orphans \cup {a}
    /\ TouchAssignment(a, FALSE)
    /\ OtherFrame
    /\ UNCHANGED <<status, inputs, packages, gitOpsRepo, inputEvents, packageEvents>>

DeleteAssignment(a) ==
    /\ "delete" \in Adversity
    /\ Edit
    /\ assignment[a] = "present"
    /\ RemoveAssignment(a)

\* Deletion with foreground propagation: the package goes first.
DeleteAssignmentForeground(a) ==
    /\ "delete" \in Adversity
    /\ Edit
    /\ assignment[a] = "present"
    /\ assignment' = [assignment EXCEPT ![a] = "terminating"]
    /\ TouchAssignment(a, TRUE)
    /\ OtherFrame
    /\ UNCHANGED <<status, inputs, packages, orphans, gitOpsRepo, inputEvents, packageEvents>>

CollectAssignment(a) ==
    /\ assignment[a] = "terminating"
    /\ packages[a] = None \/ a \in orphans
    /\ RemoveAssignment(a)
    /\ UNCHANGED edits

\* A package goes away: collected, or deleted by a user.
RemovePackage(a) ==
    /\ packages[a] # None
    /\ packages' = [packages EXCEPT ![a] = None]
    /\ orphans' = orphans \ {a}
    /\ packageEvents' = packageEvents \cup {a}
    /\ cur' = IF cur.assignment = a THEN [cur EXCEPT !.current = FALSE] ELSE cur
    /\ OtherFrame
    /\ UNCHANGED <<assignment, status, inputs, gitOpsRepo, assignmentEvent, inputEvents>>

CollectPackage(a) ==
    /\ a \in orphans \/ assignment[a] = "terminating"
    /\ RemovePackage(a)
    /\ UNCHANGED edits

UserDeletesPackage(a) == Edit /\ RemovePackage(a)

(***************************************************************************)
(* Watches.                                                                *)
(***************************************************************************)

\* Assignments: creations, deletions and changes of the generation.
DeliverAssignment(a) ==
    /\ assignmentEvent[a] # "none"
    /\ assignmentEvent' = [assignmentEvent EXCEPT ![a] = "none"]
    /\ cAssignment' = [cAssignment EXCEPT ![a] = assignment[a]]
    /\ cStatus' = [cStatus EXCEPT ![a] = status[a]]
    /\ queue' = IF assignmentEvent[a] = "spec" THEN queue \cup {a} ELSE queue
    /\ UNCHANGED <<apiVars, issues, inputEvents, packageEvents, cInputs, cPackages, cur, edits,
                   faults>>

\* Packages, reported to their owner.
DeliverPackage(a) ==
    /\ a \in packageEvents
    /\ packageEvents' = packageEvents \ {a}
    /\ cPackages' = [cPackages EXCEPT ![a] = packages[a]]
    /\ queue' = queue \cup {a}
    /\ UNCHANGED <<apiVars, issues, assignmentEvent, inputEvents, cAssignment, cStatus, cInputs,
                   cur, edits, faults>>

Cached == {a \in Assignments : cAssignment[a] # "absent"}

\* Mutant of FindAssignments: a change of a target concerns nobody.
FindAssignmentsNotForTargets(x) ==
    IF x \in ClusterTypeNames \cup TargetNames THEN {} ELSE Cached

\* Templates and config concern every assignment of the namespace; a target
\* those that name it, unless it is gone; cluster types are not watched.
FindAssignments(x) ==
    IF x \in ClusterTypeNames THEN {}
    ELSE IF x \in TargetNames THEN {a \in Cached : TargetOf[a] = x /\ inputs[x] # None}
    ELSE Cached

DeliverInput(x) ==
    /\ x \in inputEvents
    /\ inputEvents' = inputEvents \ {x}
    /\ cInputs' = [cInputs EXCEPT ![x] = inputs[x]]
    /\ queue' = queue \cup FindAssignments(x)
    /\ UNCHANGED <<apiVars, issues, assignmentEvent, packageEvents, cAssignment, cStatus,
                   cPackages, cur, edits, faults>>

(***************************************************************************)
(* Reconcile.                                                              *)
(***************************************************************************)

\* A call of this kind fails without effect.
Fault(kind) == kind \in Adversity /\ faults < MaxFaults /\ faults' = faults + 1

\* Mutant of Return: neither errors nor RequeueAfter bring the request back.
ReturnForgetting(again) == cur' = IdleWorker /\ UNCHANGED queue

\* Reconcile returned; with an error or a RequeueAfter it is called again.
Return(again) ==
    /\ cur' = IdleWorker
    /\ queue' = IF again THEN queue \cup {cur.assignment} ELSE queue

WorkerFrame ==
    UNCHANGED <<assignment, inputs, gitOpsRepo, inputEvents, cacheVars, edits>>

NoPackageWrite == UNCHANGED <<packages, orphans, packageEvents>>
NoStatusWrite  == UNCHANGED <<status, assignmentEvent, faults>>
ReadOnly == WorkerFrame /\ NoPackageWrite /\ NoStatusWrite /\ UNCHANGED <<issues, queue>>

\* Status().Update of a, whose copy is current or not.
WriteStatus(a, s, fresh, ok) ==
    IF ok
    THEN /\ fresh
         /\ status' = [status EXCEPT ![a] = s]
         /\ assignmentEvent' = IF s # status[a] /\ assignmentEvent[a] = "none"
                               THEN [assignmentEvent EXCEPT ![a] = "status"]
                               ELSE assignmentEvent
         /\ UNCHANGED faults
    ELSE /\ UNCHANGED <<status, assignmentEvent>>
         /\ IF fresh THEN Fault("status") ELSE UNCHANGED faults

\* The assignment is gone, or is being deleted.
BeginGone(a) ==
    /\ cur.pc = "idle" /\ a \in queue
    /\ cAssignment[a] # "present"
    /\ queue' = queue \ {a}
    /\ WorkerFrame /\ NoPackageWrite /\ NoStatusWrite /\ UNCHANGED <<issues, cur>>

\* Mutant of Begin: a ready assignment is reported as it is.
BeginKeepingReady(a, ok) ==
    /\ cur.pc = "idle" /\ a \in queue
    /\ cAssignment[a] = "present"
    /\ WriteStatus(a, cStatus[a], assignmentEvent[a] = "none", ok)
    /\ cur' = IF ok
              THEN [IdleWorker EXCEPT !.pc = "type", !.assignment = a, !.status = cStatus[a],
                                      !.fresh = TRUE, !.live = TRUE]
              ELSE cur
    /\ queue' = IF ok THEN queue \ {a} ELSE queue
    /\ WorkerFrame /\ NoPackageWrite /\ UNCHANGED issues

\* Get the assignment and report that its package is being rebuilt.
Begin(a, ok) ==
    /\ cur.pc = "idle" /\ a \in queue
    /\ cAssignment[a] = "present"
    /\ LET s == [cStatus[a] EXCEPT !.ready = "Rebuilding"]
       IN  /\ WriteStatus(a, s, assignmentEvent[a] = "none", ok)
           /\ cur' = IF ok
                     THEN [IdleWorker EXCEPT !.pc = "type", !.assignment = a, !.status = s,
                                             !.fresh = TRUE, !.live = TRUE]
                     ELSE cur
    /\ queue' = IF ok THEN queue \ {a} ELSE queue
    /\ WorkerFrame /\ NoPackageWrite /\ UNCHANGED issues

Failing(message) == [cur EXCEPT !.pc = "fail", !.message = message]

GetClusterType ==
    /\ cur.pc = "type"
    /\ LET v == cInputs[ClusterTypeOf[cur.assignment]]
       IN  cur' = IF v = None THEN Failing("no cluster type")
                  ELSE [cur EXCEPT !.pc = "target", !.type = v]
    /\ ReadOnly

\* Mutant of GetDeploymentTarget: the error of Get is ignored.
GetDeploymentTargetUnchecked ==
    /\ cur.pc = "target"
    /\ cur' = [cur EXCEPT !.pc = "config", !.target = cInputs[TargetOf[cur.assignment]]]
    /\ ReadOnly

GetDeploymentTarget ==
    /\ cur.pc = "target"
    /\ LET v == cInputs[TargetOf[cur.assignment]]
       IN  cur' = IF v = None THEN Failing("no target")
                  ELSE [cur EXCEPT !.pc = "config", !.target = v]
    /\ ReadOnly

\* getConfigData and validateConfigData.
GetConfigData ==
    /\ cur.pc = "config"
    /\ cur' = IF cInputs[Config] \notin ValidConfigs THEN Failing("invalid config")
              ELSE [cur EXCEPT !.pc = "templates", !.config = cInputs[Config]]
    /\ ReadOnly

\* getReconcilerManifests, getNamespaceManifests and getConfigManifests.
GetManifests ==
    /\ cur.pc = "templates"
    /\ LET n == Len(cur.templates) + 1
           v == cInputs[cur.type[Roles[n]]]
       IN  cur' = IF v = None THEN Failing("no template")
                  ELSE [cur EXCEPT !.pc = IF n = Len(Roles) THEN "package" ELSE "templates",
                                   !.templates = Append(@, v)]
    /\ ReadOnly

GetPackage ==
    /\ cur.pc = "package"
    /\ LET a == cur.assignment
       IN  cur' = [cur EXCEPT !.pc = "write", !.exists = (cPackages[a] # None),
                              !.current = (a \notin packageEvents)]
    /\ ReadOnly

\* The package that the worker has rendered.
Rendered ==
    [target |-> cur.target, config |-> cur.config,
     templates |-> [r \in RoleNames |-> cur.templates[CHOOSE i \in DOMAIN Roles : Roles[i] = r]]]

\* An update needs the version that was read, a creation a name that is free.
Writable == IF cur.exists THEN cur.current ELSE packages[cur.assignment] = None

\* Create the package, owned by the assignment, or update it.
WritePackage(ok) ==
    /\ cur.pc = "write"
    /\ LET a == cur.assignment
       IN  IF ok
           THEN /\ Writable
                /\ packages' = [packages EXCEPT ![a] = Rendered]
                /\ orphans' = IF cur.exists \/ cur.live THEN orphans ELSE orphans \cup {a}
                /\ packageEvents' = IF packages[a] = Rendered THEN packageEvents
                                    ELSE packageEvents \cup {a}
                /\ cur' = [cur EXCEPT !.pc = "close", !.exists = FALSE, !.current = FALSE]
                /\ UNCHANGED faults
           ELSE /\ IF Writable THEN Fault("package") ELSE UNCHANGED faults
                /\ cur' = Failing("write failed")
                /\ NoPackageWrite
    /\ WorkerFrame /\ UNCHANGED <<status, assignmentEvent, issues, queue>>

\* Mutant of Closed: the issue is forgotten without being closed.
ClosedNothing(n) == issues

Closed(n) == [issues EXCEPT ![n].open = FALSE]

\* Mutant of ReadyStatus: the hash of the last message is kept.
ReadyStatusKeepingHash == [cur.status EXCEPT !.ready = "AssignmentPackageCreated", !.issue = 0]

ReadyStatus == [ready |-> "AssignmentPackageCreated", issue |-> 0, message |-> None]

\* deleteGitHubIssue: close the issue of the status, if GitHub returns it, and
\* forget it.  Without a GitOpsRepo this is an error.
CloseIssue(found) ==
    /\ cur.pc = "close"
    /\ IF ~gitOpsRepo
       THEN ~found /\ Return(TRUE) /\ UNCHANGED <<issues, faults>>
       ELSE /\ IF found
               THEN /\ cur.status.issue # 0
                    /\ issues' = Closed(cur.status.issue)
                    /\ UNCHANGED faults
               ELSE /\ UNCHANGED issues
                    /\ IF cur.status.issue # 0 THEN Fault("lookup") ELSE UNCHANGED faults
            /\ cur' = [cur EXCEPT !.pc = "ready", !.status = ReadyStatus]
            /\ UNCHANGED queue
    /\ WorkerFrame /\ NoPackageWrite /\ UNCHANGED <<status, assignmentEvent>>

ReportReady(ok) ==
    /\ cur.pc = "ready"
    /\ WriteStatus(cur.assignment, cur.status, cur.fresh, ok)
    /\ Return(~ok)
    /\ WorkerFrame /\ NoPackageWrite /\ UNCHANGED issues

\* Mutant of NewIssueNumber: off by one.
LastIssueNumber == Len(issues)

\* The number in GitHub's answer to the creation of an issue.
NewIssueNumber == Len(issues) + 1

\* manageFailure, first half: updateGitHubIssue creates the issue or edits the
\* one of the status, unless the message is the one that it was given before.
UpdateIssue ==
    /\ cur.pc = "fail"
    /\ LET n == cur.status.issue
           reported(no) == [cur EXCEPT !.pc = "failed",
                                       !.status = [ready |-> "UpdateFailed", issue |-> no,
                                                   message |-> cur.message]]
       IN  CASE cur.message = cur.status.message ->
                    cur' = reported(n) /\ UNCHANGED <<issues, queue>>
             [] cur.message # cur.status.message /\ ~gitOpsRepo ->
                    Return(TRUE) /\ UNCHANGED issues
             [] cur.message # cur.status.message /\ gitOpsRepo /\ n = 0 ->
                    /\ Len(issues) < MaxIssues
                    /\ issues' = Append(issues, [of |-> cur.assignment, message |-> cur.message,
                                                 open |-> TRUE])
                    /\ cur' = reported(NewIssueNumber) /\ UNCHANGED queue
             [] cur.message # cur.status.message /\ gitOpsRepo /\ n # 0 ->
                    /\ issues' = [issues EXCEPT ![n].message = cur.message]
                    /\ cur' = reported(n) /\ UNCHANGED queue
    /\ WorkerFrame /\ NoPackageWrite /\ NoStatusWrite

\* Second half: the status.  Once it is written no error is returned, since err
\* has been overwritten by the answer of updateGitHubIssue.
ReportFailure(ok) ==
    /\ cur.pc = "failed"
    /\ WriteStatus(cur.assignment, cur.status, cur.fresh, ok)
    /\ Return(~ok)
    /\ WorkerFrame /\ NoPackageWrite /\ UNCHANGED issues

\* GitHub refuses to create, edit or close the issue: RequeueAfter.
GitHubFails ==
    /\ cur.pc \in {"close", "fail"}
    /\ gitOpsRepo
    /\ cur.pc = "fail" => cur.message # cur.status.message
    /\ Fault("github")
    /\ Return(TRUE)
    /\ WorkerFrame /\ NoPackageWrite /\ UNCHANGED <<status, assignmentEvent, issues>>

\* The caches are filled anew; every object counts as created.
Restart ==
    /\ Fault("restart")
    /\ cAssignment' = assignment /\ cStatus' = status
    /\ cInputs' = inputs /\ cPackages' = packages
    /\ assignmentEvent' = [a \in Assignments |-> "none"]
    /\ inputEvents' = {} /\ packageEvents' = {}
    /\ queue' = {a \in Assignments : assignment[a] # "absent" \/ packages[a] # None}
    /\ cur' = IdleWorker
    /\ UNCHANGED <<apiVars, issues, edits>>

-----------------------------------------------------------------------------
UserStep ==
    \/ \E x \in Inputs, v \in InputValues : EditInput(x, v)
    \/ \E a \in Assignments : CreateAssignment(a)
    \/ \E a \in Assignments : DeleteAssignment(a)
    \/ \E a \in Assignments : DeleteAssignmentForeground(a)
    \/ \E a \in Assignments : UserDeletesPackage(a)

CollectorStep ==
    \/ \E a \in Assignments : CollectAssignment(a)
    \/ \E a \in Assignments : CollectPackage(a)

DeliveryStep ==
    \/ \E a \in Assignments : DeliverAssignment(a)
    \/ \E a \in Assignments : DeliverPackage(a)
    \/ \E x \in Inputs : DeliverInput(x)

BeginStep(a) ==
    \/ BeginGone(a)
    \/ \E ok \in BOOLEAN : Begin(a, ok)

WorkerStep ==
    \/ GetClusterType
    \/ GetDeploymentTarget
    \/ GetConfigData
    \/ GetManifests
    \/ GetPackage
    \/ \E ok \in BOOLEAN : WritePackage(ok)
    \/ \E found \in BOOLEAN : CloseIssue(found)
    \/ \E ok \in BOOLEAN : ReportReady(ok)
    \/ UpdateIssue
    \/ \E ok \in BOOLEAN : ReportFailure(ok)
    \/ GitHubFails

Next ==
    \/ UserStep
    \/ CreateGitOpsRepo
    \/ CollectorStep
    \/ DeliveryStep
    \/ \E a \in Assignments : BeginStep(a)
    \/ WorkerStep
    \/ Restart

Spec == Init /\ [][Next]_vars

\* Informers, garbage collector and worker keep going, the work queue hands out
\* every request, and somebody creates the GitOpsRepo in the end.
Fairness ==
    /\ \A a \in Assignments : WF_vars(DeliverAssignment(a))
    /\ WF_vars(\E a \in Assignments : DeliverPackage(a))
    /\ WF_vars(\E x \in Inputs : DeliverInput(x))
    /\ WF_vars(CollectorStep)
    /\ WF_vars(CreateGitOpsRepo)
    /\ WF_vars(WorkerStep)
    /\ \A a \in Assignments : SF_vars(BeginStep(a))

FairSpec == Spec /\ Fairness

(***************************************************************************)
(* Properties.                                                             *)
(***************************************************************************)

\* No reconcile of a is running and nothing will trigger one.
Calm(a) ==
    /\ a \notin queue
    /\ cur.assignment # a
    /\ assignmentEvent[a] # "spec"
    /\ a \notin packageEvents
    /\ inputEvents = {}
    /\ a \notin orphans

\* Why rendering a fails now, or None.
Failure(a) ==
    LET type == inputs[ClusterTypeOf[a]]
    IN  IF type = None THEN "no cluster type"
        ELSE IF inputs[TargetOf[a]] = None THEN "no target"
        ELSE IF inputs[Config] \notin ValidConfigs THEN "invalid config"
        ELSE IF \E r \in RoleNames : inputs[type[r]] = None THEN "no template"
        ELSE None

\* The package that rendering gives now, when it does not fail.
Outcome(a) ==
    [target |-> inputs[TargetOf[a]], config |-> inputs[Config],
     templates |-> [r \in RoleNames |-> inputs[inputs[ClusterTypeOf[a]][r]]]]

\* The status of a tells how rendering it ends now, and if it ends well the
\* package is what rendering gives.  (The scheduling policy controller removes
\* the assignments of a deployment target that is gone.)
UpToDate(a) ==
    inputs[TargetOf[a]] # None =>
        IF Failure(a) # None
        THEN status[a].ready = "UpdateFailed" /\ status[a].message = Failure(a)
        ELSE status[a].ready = "AssignmentPackageCreated" /\ packages[a] = Outcome(a)

\* Level-triggered correctness of AssignmentReconciler.Reconcile: an assignment
\* that nothing will reconcile is up to date with the templates, the config, the
\* target and the cluster type that exist now.
RestingIsUpToDate ==
    \A a \in Assignments : assignment[a] = "present" /\ Calm(a) => UpToDate(a)

IssuesOf(a) == {n \in DOMAIN issues : issues[n].of = a /\ issues[n].open}

\* Assignments do not touch each other's issues: the issue in the status of an
\* assignment is one that was created for it, and no two share one.
OwnIssue ==
    \A a \in Assignments : status[a].issue # 0 =>
        status[a].issue \in DOMAIN issues /\ issues[status[a].issue].of = a

\* "When the error is fixed, Kalypso automatically closes corresponding Issue"
\* (docs/design/confg-schema.md): a resting ready assignment has no open issue.
FixedErrorClosesIssue ==
    \A a \in Assignments :
        assignment[a] = "present" /\ Calm(a) /\ status[a].ready = "AssignmentPackageCreated"
            => IssuesOf(a) = {}

\* "All validation errors Kalypso reports as Issues" (docs/design/confg-schema.md):
\* a resting assignment whose config is invalid has one open issue, and its
\* message is the error.
ErrorHasIssue ==
    \A a \in Assignments :
        assignment[a] = "present" /\ Calm(a) /\ status[a].message = "invalid config"
            => \E n \in DOMAIN issues : IssuesOf(a) = {n} /\ issues[n].message = "invalid config"

\* What module GitOpsRepoController assumes of an assignment and its package.
Protocol(a) == INSTANCE AssignmentProtocol WITH
    Specs   <- Packages,
    gate    <- IF assignment[a] = "absent" THEN "absent"
               ELSE IF status[a].ready = "AssignmentPackageCreated" THEN "ready" ELSE "notReady",
    package <- packages[a]

\* A package is never written while its assignment is ready, not even by a worker that
\* began before the assignment was deleted and made again.
FollowsProtocol ==
    /\ \A a \in Assignments : Protocol(a)!Init
    /\ [][\A a \in Assignments : [Protocol(a)!Next]_(Protocol(a)!vars)]_vars

\* Once edits and faults stop, every assignment gets and stays up to date, and
\* packages of assignments that are gone are gone too.
EventuallyUpToDate ==
    <>[](\A a \in Assignments :
            IF assignment[a] = "present" THEN UpToDate(a) ELSE packages[a] = None)
=============================================================================

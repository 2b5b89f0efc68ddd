------------------------- MODULE GitOpsRepoController -------------------------
(***************************************************************************)
(* The GitOps repo controller of one environment namespace                 *)
(* (controllers/gitopsrepo_controller.go): it waits until every scheduling *)
(* policy and every assignment is ready, hashes what the namespace wants   *)
(* in the GitOps repository, holds back for prCreateTimeOut when the hash  *)
(* is new, and opens a pull request.                                       *)
(*                                                                         *)
(* The other controllers are its environment: assignments and packages     *)
(* change as module AssignmentProtocol says.                               *)
(* Every kind of object has an informer of its own, so that the caches of  *)
(* two kinds need not show the same instant.  A hash stands for the content*)
(* it is computed from (no collisions).                                    *)
(***************************************************************************)
EXTENDS Naturals, FiniteSets

CONSTANTS
    Policies, Assignments, \* names of the objects that gate a pull request
    ClusterTypes,          \* names of cluster types
    TypeOf,                \* cluster type of each assignment
    Versions,              \* specs of assignment packages
    BaseSpecs,             \* specs of the BaseRepo named main
    Repos,                 \* repositories a GitOpsRepo may point to
    None,
    Adversity,             \* what the environment may do, see below
    MaxEdits, MaxFaults    \* bounds on edits, on faults and restarts

Gates == Policies \cup Assignments

(***************************************************************************)
(* "lag"       a package reaches its cache after the readiness written     *)
(*             after it has reached its own                                *)
(* "stale"     Reconcile may read a GitOpsRepo that trails its own updates  *)
(* "base"      the BaseRepo changes                                        *)
(* "relist"    an informer learns of a deletion from a relist, so that its *)
(*             event says DeleteStateUnknown                               *)
(* "restart"   the controller restarts                                     *)
(* "lost"      a call takes effect although it reports an error            *)
(* "retarget"  a user changes the spec of the GitOpsRepo                   *)
(***************************************************************************)
Adversities == {"lag", "stale", "base", "relist", "restart", "lost", "retarget"}

ASSUME ConstantsAssumption ==
    /\ Adversity \subseteq Adversities
    /\ TypeOf \in [Assignments -> ClusterTypes]
    /\ Policies \cap Assignments = {}
    /\ None \notin Versions \cup BaseSpecs \cup Repos
    /\ MaxEdits \in Nat /\ MaxFaults \in Nat

VARIABLES
    \* API server
    gate,      \* each policy and assignment: absent, or the status of its Ready condition
    packages,  \* spec of the package of each assignment, or None
    types,     \* the cluster types that exist
    base,      \* spec of the BaseRepo, or None
    repo,      \* spec of the GitOpsRepo, or None
    status,    \* status of the GitOpsRepo
    \* GitHub
    pr,        \* content of the last pull request in each repository, or None
    \* undelivered watch events: "none", "update", or "exist" (created or deleted)
    gateEvent, packageEvent, typeEvents, baseEvent, repoEvent,
    \* informer caches
    cGate, cPackages, cTypes, cBase, cRepo, cStatus,
    \* controller
    queued,    \* the GitOpsRepo is in the work queue
    timer,     \* RequeueAfter of three seconds: "none", "covering" or "early"
    cur,       \* the worker
    edits, faults

apiVars   == <<gate, packages, types, base, repo, status>>
eventVars == <<gateEvent, packageEvent, typeEvents, baseEvent, repoEvent>>
cacheVars == <<cGate, cPackages, cTypes, cBase, cRepo, cStatus>>
vars == <<apiVars, pr, eventVars, cacheVars, queued, timer, cur, edits, faults>>

\* Mutant of Content: the base repo is left out.
ContentWithoutBase(ts, pkgs, b) ==
    [types    |-> ts \cup {TypeOf[a] : a \in {x \in Assignments : pkgs[x] # None}},
     packages |-> pkgs]

\* RepoContentType: cluster types with the packages assigned to them, and the
\* base repo.  A package brings its cluster type along.
Content(ts, pkgs, b) ==
    [types    |-> ts \cup {TypeOf[a] : a \in {x \in Assignments : pkgs[x] # None}},
     packages |-> pkgs,
     base     |-> b]

Contents ==
    [types    : SUBSET ClusterTypes,
     packages : [Assignments -> Versions \cup {None}],
     base     : BaseSpecs \cup {None}]

ASSUME NoneAssumption == None \notin Contents

\* What the namespace wants in the repository now.
Wanted == Content(types, packages, base)

\* The ReadyToPR condition is absent, set less than prCreateTimeOut ago, or
\* older.  ready is the reason of the Ready condition; True under PRCreated.
Statuses ==
    [ready : {"New", "CreatingPR", "PRCreated", "UpdateFailed"},
     toPR  : {"absent", "young", "old"},
     hash  : Contents \cup {None}]

NewStatus == [ready |-> "New", toPR |-> "absent", hash |-> None]

IdleWorker == [pc |-> "idle", repo |-> None, status |-> NewStatus, fresh |-> FALSE,
               content |-> None]

Workers ==
    [pc      : {"idle", "gates", "content", "mark", "unmark", "announce", "create", "record", "fail"},
     repo    : Repos \cup {None},
     status  : Statuses,
     fresh   : BOOLEAN,
     content : Contents \cup {None}]

TypeOK ==
    /\ gate \in [Gates -> {"absent", "notReady", "ready"}]
    /\ packages \in [Assignments -> Versions \cup {None}]
    /\ types \subseteq ClusterTypes
    /\ base \in BaseSpecs \cup {None}
    /\ repo \in Repos \cup {None}
    /\ status \in Statuses
    /\ pr \in [Repos -> Contents \cup {None}]
    /\ gateEvent \in [Gates -> {"none", "update", "exist"}]
    /\ packageEvent \in [Assignments -> {"none", "update", "exist"}]
    /\ typeEvents \subseteq ClusterTypes
    /\ baseEvent \in BOOLEAN
    /\ repoEvent \in {"none", "update", "exist"}
    /\ cGate \in [Gates -> {"absent", "notReady", "ready"}]
    /\ cPackages \in [Assignments -> Versions \cup {None}]
    /\ cTypes \subseteq ClusterTypes
    /\ cBase \in BaseSpecs \cup {None}
    /\ cRepo \in Repos \cup {None}
    /\ cStatus \in Statuses
    /\ queued \in BOOLEAN
    /\ timer \in {"none", "covering", "early"}
    /\ cur \in Workers
    /\ edits \in 0..MaxEdits
    /\ faults \in 0..MaxFaults

\* The controller starts on a namespace that the other controllers have prepared
\* or are preparing.
Init ==
    /\ gate \in [Gates -> {"notReady", "ready"}]
    /\ packages \in [Assignments -> Versions \cup {None}]
    /\ \A a \in Assignments : gate[a] = "ready" => packages[a] # None
    /\ types = {TypeOf[a] : a \in Assignments}
    /\ base \in BaseSpecs
    /\ repo \in Repos
    /\ status = NewStatus
    /\ pr = [r \in Repos |-> None]
    /\ gateEvent = [g \in Gates |-> "none"]
    /\ packageEvent = [a \in Assignments |-> "none"]
    /\ typeEvents = {} /\ baseEvent = FALSE /\ repoEvent = "none"
    /\ cGate = gate /\ cPackages = packages /\ cTypes = types
    /\ cBase = base /\ cRepo = repo /\ cStatus = status
    /\ queued = TRUE
    /\ timer = "none"
    /\ cur = IdleWorker
    /\ edits = 0 /\ faults = 0

(***************************************************************************)
(* Users and other controllers.                                            *)
(***************************************************************************)

Edit == edits < MaxEdits /\ edits' = edits + 1

\* An event folded into those that are still undelivered.
Fold(event, kind) == IF event = "exist" THEN "exist" ELSE kind

SetGate(g, value) ==
    /\ gate' = [gate EXCEPT ![g] = value]
    /\ gateEvent' = [gateEvent EXCEPT ![g] =
                        Fold(@, IF "absent" \in {value, gate[g]} THEN "exist" ELSE "update")]

OtherFrame == UNCHANGED <<status, pr, cacheVars, queued, timer, faults>>

\* A policy or an assignment is created, or its controller starts rebuilding it.
StartRebuild(g) ==
    /\ Edit
    /\ gate[g] \in {"absent", "ready"}
    /\ SetGate(g, "notReady")
    /\ OtherFrame
    /\ UNCHANGED <<packages, types, base, repo, packageEvent, typeEvents, baseEvent, repoEvent, cur>>

\* The assignment controller creates or updates the package while the assignment is
\* not ready.  A late worker does so for one that is gone; MaxEdits bounds how often.
\* An update that changes nothing is no event.
CreatePackage(a, v) ==
    /\ gate[a] # "ready" /\ packages[a] = None
    /\ IF gate[a] = "absent" THEN Edit ELSE UNCHANGED edits
    /\ packages' = [packages EXCEPT ![a] = v]
    /\ packageEvent' = [packageEvent EXCEPT ![a] = "exist"]
    /\ OtherFrame
    /\ UNCHANGED <<gate, types, base, repo, gateEvent, typeEvents, baseEvent, repoEvent, cur>>

UpdatePackage(a, v) ==
    /\ Edit
    /\ gate[a] # "ready" /\ packages[a] \notin {None, v}
    /\ packages' = [packages EXCEPT ![a] = v]
    /\ packageEvent' = [packageEvent EXCEPT ![a] = Fold(@, "update")]
    /\ OtherFrame
    /\ UNCHANGED <<gate, types, base, repo, gateEvent, typeEvents, baseEvent, repoEvent, cur>>

\* The package may have vanished again by then.
FinishRebuild(g) ==
    /\ gate[g] = "notReady"
    /\ SetGate(g, "ready")
    /\ OtherFrame
    /\ UNCHANGED <<packages, types, base, repo, packageEvent, typeEvents, baseEvent, repoEvent, cur,
                   edits>>

DeleteGate(g) ==
    /\ Edit
    /\ gate[g] # "absent"
    /\ SetGate(g, "absent")
    /\ OtherFrame
    /\ UNCHANGED <<packages, types, base, repo, packageEvent, typeEvents, baseEvent, repoEvent, cur>>

RemovePackage(a) ==
    /\ packages[a] # None
    /\ packages' = [packages EXCEPT ![a] = None]
    /\ packageEvent' = [packageEvent EXCEPT ![a] = "exist"]
    /\ OtherFrame
    /\ UNCHANGED <<gate, types, base, repo, gateEvent, typeEvents, baseEvent, repoEvent, cur>>

\* The garbage collector removes the package of a deleted assignment.
CollectPackage(a) == gate[a] = "absent" /\ RemovePackage(a) /\ UNCHANGED edits

\* A user removes it, or its owner was a deleted assignment of the same name.
DeletePackage(a) == Edit /\ RemovePackage(a)

EditClusterType(c) ==
    /\ Edit
    /\ types' = IF c \in types THEN types \ {c} ELSE types \cup {c}
    /\ typeEvents' = typeEvents \cup {c}
    /\ OtherFrame
    /\ UNCHANGED <<gate, packages, base, repo, gateEvent, packageEvent, baseEvent, repoEvent, cur>>

EditBaseRepo(b) ==
    /\ "base" \in Adversity
    /\ Edit
    /\ base # b
    /\ base' = b
    /\ baseEvent' = TRUE
    /\ OtherFrame
    /\ UNCHANGED <<gate, packages, types, repo, gateEvent, packageEvent, typeEvents, repoEvent, cur>>

\* The GitOpsRepo is created, deleted, or updated (r and repo differ from None).
EditGitOpsRepo(r) ==
    /\ Edit
    /\ repo # r
    /\ None \in {r, repo} \/ "retarget" \in Adversity
    /\ repo' = r
    /\ status' = IF None \in {r, repo} THEN NewStatus ELSE status
    /\ repoEvent' = "exist"
    /\ cur' = [cur EXCEPT !.fresh = FALSE]
    /\ UNCHANGED <<gate, packages, types, base, pr, gateEvent, packageEvent, typeEvents, baseEvent,
                   cacheVars, queued, timer, faults>>

(***************************************************************************)
(* Watches, with the event filter normalPredicate.                         *)
(***************************************************************************)

\* A deletion that an informer learns of by relisting has an unknown final state.
Unknowable(unknown, gone) == unknown => "relist" \in Adversity /\ gone

\* The requests of the handler findGitOpsRepo for an event the filter lets through.
FindGitOpsRepo(passes) == queued' = (queued \/ (passes /\ cRepo # None))

\* Mutant of DeliverGate: the event filter lets no update through.
DeliverGateUpdatesFiltered(g, unknown) ==
    /\ gateEvent[g] # "none"
    /\ Unknowable(unknown, gateEvent[g] = "exist" /\ gate[g] = "absent")
    /\ g \in Assignments => packageEvent[g] = "none" \/ "lag" \in Adversity
    /\ gateEvent' = [gateEvent EXCEPT ![g] = "none"]
    /\ cGate' = [cGate EXCEPT ![g] = gate[g]]
    /\ FindGitOpsRepo(~unknown /\ gateEvent[g] = "exist")
    /\ UNCHANGED <<apiVars, pr, packageEvent, typeEvents, baseEvent, repoEvent, cPackages, cTypes,
                   cBase, cRepo, cStatus, timer, cur, edits, faults>>

\* Policies and assignments: creations, deletions, and updates to a ready object.
DeliverGate(g, unknown) ==
    /\ gateEvent[g] # "none"
    /\ Unknowable(unknown, gateEvent[g] = "exist" /\ gate[g] = "absent")
    /\ g \in Assignments => packageEvent[g] = "none" \/ "lag" \in Adversity
    /\ gateEvent' = [gateEvent EXCEPT ![g] = "none"]
    /\ cGate' = [cGate EXCEPT ![g] = gate[g]]
    /\ FindGitOpsRepo(~unknown /\ (gateEvent[g] = "exist" \/ gate[g] = "ready"))
    /\ UNCHANGED <<apiVars, pr, packageEvent, typeEvents, baseEvent, repoEvent, cPackages, cTypes,
                   cBase, cRepo, cStatus, timer, cur, edits, faults>>

\* Packages: creations and deletions; updates are filtered out.
DeliverPackage(a, unknown) ==
    /\ packageEvent[a] # "none"
    /\ Unknowable(unknown, packageEvent[a] = "exist" /\ packages[a] = None)
    /\ packageEvent' = [packageEvent EXCEPT ![a] = "none"]
    /\ cPackages' = [cPackages EXCEPT ![a] = packages[a]]
    /\ FindGitOpsRepo(~unknown /\ packageEvent[a] = "exist")
    /\ UNCHANGED <<apiVars, pr, gateEvent, typeEvents, baseEvent, repoEvent, cGate, cTypes, cBase,
                   cRepo, cStatus, timer, cur, edits, faults>>

DeliverClusterType(c, unknown) ==
    /\ c \in typeEvents
    /\ Unknowable(unknown, c \notin types)
    /\ typeEvents' = typeEvents \ {c}
    /\ cTypes' = IF c \in types THEN cTypes \cup {c} ELSE cTypes \ {c}
    /\ FindGitOpsRepo(~unknown)
    /\ UNCHANGED <<apiVars, pr, gateEvent, packageEvent, baseEvent, repoEvent, cGate, cPackages,
                   cBase, cRepo, cStatus, timer, cur, edits, faults>>

\* BaseRepos are cached, since Reconcile lists them, but not watched.
DeliverBaseRepo ==
    /\ baseEvent
    /\ baseEvent' = FALSE
    /\ cBase' = base
    /\ UNCHANGED <<apiVars, pr, gateEvent, packageEvent, typeEvents, repoEvent, cGate, cPackages,
                   cTypes, cRepo, cStatus, queued, timer, cur, edits, faults>>

\* The GitOpsRepo itself: status updates leave the generation alone.
DeliverGitOpsRepo ==
    /\ repoEvent # "none"
    /\ repoEvent' = "none"
    /\ cRepo' = repo
    /\ cStatus' = status
    /\ queued' = (queued \/ repoEvent = "exist")
    /\ UNCHANGED <<apiVars, pr, gateEvent, packageEvent, typeEvents, baseEvent, cGate, cPackages,
                   cTypes, cBase, timer, cur, edits, faults>>

(***************************************************************************)
(* Time.  The work queue keeps one deadline per request, the earliest.  A  *)
(* deadline set together with the ReadyToPR condition "covers" it: when it *)
(* passes, the condition is old.  One that was set for an earlier instance *)
(* of the condition passes while the present one is still young.           *)
(***************************************************************************)

Older(age) == IF age = "young" THEN "old" ELSE age

\* prCreateTimeOut has passed since the condition was set; an older instance
\* that a cache or the worker may still hold is old by then.
ConditionAges ==
    /\ status.toPR = "young" /\ timer # "early"
    /\ status' = [status EXCEPT !.toPR = "old"]
    /\ cStatus' = [cStatus EXCEPT !.toPR = Older(@)]
    /\ cur' = [cur EXCEPT !.status.toPR = Older(@)]
    /\ UNCHANGED <<gate, packages, types, base, repo, pr, eventVars, cGate, cPackages, cTypes,
                   cBase, cRepo, queued, timer, edits, faults>>

\* The same for an instance that only the cache still shows.
CachedConditionAges ==
    /\ cStatus.toPR = "young" /\ repoEvent # "none"
    /\ status.toPR # "young" \/ timer = "early"
    /\ cStatus' = [cStatus EXCEPT !.toPR = "old"]
    /\ cur' = IF cur.fresh THEN cur ELSE [cur EXCEPT !.status.toPR = Older(@)]
    /\ UNCHANGED <<apiVars, pr, eventVars, cGate, cPackages, cTypes, cBase, cRepo, queued, timer,
                   edits, faults>>

TimerFires ==
    /\ timer # "none"
    /\ timer = "covering" => "young" \notin {status.toPR, cStatus.toPR}
    /\ timer' = "none"
    /\ queued' = TRUE
    /\ UNCHANGED <<apiVars, pr, eventVars, cacheVars, cur, edits, faults>>

(***************************************************************************)
(* Reconcile.                                                              *)
(***************************************************************************)

Fault == faults < MaxFaults /\ faults' = faults + 1

\* A call that takes effect is answered, or its answer is lost.
Answered(ok) == IF ok THEN UNCHANGED faults ELSE "lost" \in Adversity /\ Fault

\* Reconcile returned; an error puts the request back into the queue.
Return(error) == cur' = IdleWorker /\ queued' = (queued \/ error)

WorkerFrame ==
    UNCHANGED <<gate, packages, types, base, repo, gateEvent, packageEvent, typeEvents, baseEvent,
                cacheVars, edits>>

NoWrite == UNCHANGED <<status, repoEvent, pr, faults>>

\* Status().Update: refused when the object has changed since it was read.
WriteStatus(s, ok) ==
    IF cur.fresh
    THEN /\ status' = s
         /\ repoEvent' = IF repoEvent = "none" /\ status # s THEN "update" ELSE repoEvent
         /\ Answered(ok)
    ELSE ~ok /\ UNCHANGED <<status, repoEvent, faults>>

\* Get the GitOpsRepo.
Begin ==
    /\ cur.pc = "idle" /\ queued
    /\ repoEvent = "none" \/ "stale" \in Adversity
    /\ queued' = FALSE
    /\ cur' = IF cRepo = None THEN cur
              ELSE [cur EXCEPT !.pc = "gates", !.repo = cRepo, !.status = cStatus,
                               !.fresh = (repoEvent = "none")]
    /\ WorkerFrame /\ NoWrite /\ UNCHANGED timer

\* All policies and all assignments are ready, or nothing is done.  The two lists
\* are read in one step: that the first was read earlier is the same as its
\* informer delivering later.
CheckReady ==
    /\ cur.pc = "gates"
    /\ IF \E g \in Gates : cGate[g] = "notReady"
       THEN Return(FALSE)
       ELSE cur' = [cur EXCEPT !.pc = "content"] /\ UNCHANGED queued
    /\ WorkerFrame /\ NoWrite /\ UNCHANGED timer

\* Mutant of Decide: an old condition is acted on before the hashes are compared.
DecideByAge(content) ==
    CASE cur.status.toPR = "old"                                 -> "announce"
      [] content = cur.status.hash /\ cur.status.toPR = "young"  -> "unmark"
      [] content # cur.status.hash /\ cur.status.toPR = "absent" -> "mark"
      [] OTHER                                                   -> "idle"

\* getRepoContent, the hash, and the decision what to do about it.
Decide(content) ==
    CASE content = cur.status.hash /\ cur.status.toPR # "absent" -> "unmark"
      [] content = cur.status.hash /\ cur.status.toPR = "absent" -> "idle"
      [] content # cur.status.hash /\ cur.status.toPR = "old"    -> "announce"
      [] content # cur.status.hash /\ cur.status.toPR = "young"  -> "idle"
      [] content # cur.status.hash /\ cur.status.toPR = "absent" -> "mark"

GetRepoContent ==
    /\ cur.pc = "content"
    /\ LET content == Content(cTypes, cPackages, cBase)
       IN  IF Decide(content) = "idle"
           THEN Return(FALSE)
           ELSE cur' = [cur EXCEPT !.pc = Decide(content), !.content = content] /\ UNCHANGED queued
    /\ WorkerFrame /\ NoWrite /\ UNCHANGED timer

\* Set ReadyToPR and come back in prCreateTimeOut.
MarkReadyToPR(ok) ==
    /\ cur.pc = "mark"
    /\ WriteStatus([cur.status EXCEPT !.toPR = "young"], ok)
    /\ timer' = IF ~ok THEN timer ELSE IF timer = "none" THEN "covering" ELSE "early"
    /\ Return(~ok)
    /\ WorkerFrame /\ UNCHANGED pr

\* The content is what the last pull request brought: nothing to propose.
UnmarkReadyToPR(ok) ==
    /\ cur.pc = "unmark"
    /\ WriteStatus([cur.status EXCEPT !.toPR = "absent"], ok)
    /\ Return(~ok)
    /\ WorkerFrame /\ UNCHANGED <<pr, timer>>

\* Mutant of Announce: the pull request is created under the old status.
AnnounceNothing(ok) ==
    /\ cur.pc = "announce" /\ ok
    /\ cur' = [cur EXCEPT !.pc = "create"]
    /\ WorkerFrame /\ NoWrite /\ UNCHANGED <<queued, timer>>

\* Ready becomes False while the pull request is being created.
Announce(ok) ==
    /\ cur.pc = "announce"
    /\ LET s == [cur.status EXCEPT !.ready = "CreatingPR"]
       IN  /\ WriteStatus(s, ok)
           /\ IF ok THEN cur' = [cur EXCEPT !.pc = "create", !.status = s] /\ UNCHANGED queued
                    ELSE Return(TRUE)
    /\ WorkerFrame /\ UNCHANGED <<pr, timer>>

\* Mutant of CreatePR: an error is taken for a success.
CreatePRUnchecked(ok) ==
    /\ cur.pc = "create"
    /\ \E left \in IF ok THEN {cur.content} ELSE {cur.content, None, pr[cur.repo]} :
          pr' = [pr EXCEPT ![cur.repo] = left]
    /\ IF ok THEN UNCHANGED faults ELSE Fault
    /\ cur' = [cur EXCEPT !.pc = "record"]
    /\ WorkerFrame /\ UNCHANGED <<status, repoEvent, queued, timer>>

\* CreatePR of module GithubRepo, by what it promises in module PullRequest: when it
\* fails it may have withdrawn what was proposed before.
CreatePR(ok) ==
    /\ cur.pc = "create"
    /\ \E left \in IF ok THEN {cur.content} ELSE {cur.content, None, pr[cur.repo]} :
          pr' = [pr EXCEPT ![cur.repo] = left]
    /\ IF ok THEN UNCHANGED faults ELSE Fault
    /\ cur' = [cur EXCEPT !.pc = IF ok THEN "record" ELSE "fail"]
    /\ WorkerFrame /\ UNCHANGED <<status, repoEvent, queued, timer>>

\* Record the hash of what was proposed.
RecordPR(ok) ==
    /\ cur.pc = "record"
    /\ WriteStatus([ready |-> "PRCreated", toPR |-> "absent", hash |-> cur.content], ok)
    /\ Return(~ok)
    /\ WorkerFrame /\ UNCHANGED <<pr, timer>>

\* manageFailure; the error is returned whatever becomes of the status update.
ManageFailure ==
    /\ cur.pc = "fail"
    /\ \E ok \in BOOLEAN : WriteStatus([cur.status EXCEPT !.ready = "UpdateFailed"], ok)
    /\ Return(TRUE)
    /\ WorkerFrame /\ UNCHANGED <<pr, timer>>

\* A status update fails without effect.
CallFails ==
    /\ cur.pc \in {"mark", "unmark", "announce", "record", "fail"}
    /\ Fault
    /\ Return(TRUE)
    /\ WorkerFrame /\ UNCHANGED <<status, repoEvent, pr, timer>>

\* The caches are filled from the API server; every object counts as created.
Restart ==
    /\ "restart" \in Adversity
    /\ Fault
    /\ cGate' = gate /\ cPackages' = packages /\ cTypes' = types
    /\ cBase' = base /\ cRepo' = repo /\ cStatus' = status
    /\ gateEvent' = [g \in Gates |-> "none"]
    /\ packageEvent' = [a \in Assignments |-> "none"]
    /\ typeEvents' = {} /\ baseEvent' = FALSE /\ repoEvent' = "none"
    /\ queued' = (repo # None)
    /\ timer' = "none"
    /\ cur' = IdleWorker
    /\ UNCHANGED <<apiVars, pr, edits>>

-----------------------------------------------------------------------------
OtherStep ==
    \/ \E g \in Gates : StartRebuild(g)
    \/ \E a \in Assignments, v \in Versions : UpdatePackage(a, v)
    \/ \E g \in Gates : DeleteGate(g)
    \/ \E a \in Assignments : DeletePackage(a)
    \/ \E c \in ClusterTypes : EditClusterType(c)
    \/ \E b \in BaseSpecs \cup {None} : EditBaseRepo(b)
    \/ \E r \in Repos \cup {None} : EditGitOpsRepo(r)

\* What the other controllers and the garbage collector are bound to do.
ProtocolStep ==
    \/ \E a \in Assignments, v \in Versions : CreatePackage(a, v)
    \/ \E g \in Gates : FinishRebuild(g)
    \/ \E a \in Assignments : CollectPackage(a)

DeliveryStep ==
    \/ \E g \in Gates, unknown \in BOOLEAN : DeliverGate(g, unknown)
    \/ \E a \in Assignments, unknown \in BOOLEAN : DeliverPackage(a, unknown)
    \/ \E c \in ClusterTypes, unknown \in BOOLEAN : DeliverClusterType(c, unknown)
    \/ DeliverBaseRepo
    \/ DeliverGitOpsRepo

TimeStep == ConditionAges \/ CachedConditionAges \/ TimerFires

WorkerStep ==
    \/ Begin
    \/ CheckReady
    \/ GetRepoContent
    \/ \E ok \in BOOLEAN : MarkReadyToPR(ok)
    \/ \E ok \in BOOLEAN : UnmarkReadyToPR(ok)
    \/ \E ok \in BOOLEAN : Announce(ok)
    \/ \E ok \in BOOLEAN : CreatePR(ok)
    \/ \E ok \in BOOLEAN : RecordPR(ok)
    \/ ManageFailure
    \/ CallFails

Next == OtherStep \/ ProtocolStep \/ DeliveryStep \/ TimeStep \/ WorkerStep \/ Restart

Spec == Init /\ [][Next]_vars

(***************************************************************************)
(* Properties.                                                             *)
(***************************************************************************)

\* Nothing will make the controller reconcile: no undelivered event, no request
\* in the queue or waiting for a deadline, no package left to collect.
Quiet ==
    /\ ~queued /\ timer = "none" /\ cur.pc = "idle"
    /\ \A g \in Gates : gateEvent[g] = "none"
    /\ \A a \in Assignments : packageEvent[a] = "none"
    /\ typeEvents = {} /\ ~baseEvent /\ repoEvent = "none"
    /\ \A a \in Assignments : gate[a] = "absent" => packages[a] = None

AllReady == \A g \in Gates : gate[g] # "notReady"

\* No change is overlooked: when the controller rests on a ready namespace, its
\* status records the hash of what the namespace wants, or the ReadyToPR
\* condition says that a pull request is due.  Updates of packages are filtered out,
\* but the assignment controller follows AssignmentProtocol.  Only the BaseRepo may
\* have changed unnoticed.
ChangeNoticed ==
    (repo # None /\ Quiet /\ AllReady) =>
        \/ status.toPR # "absent"
        \/ \E b \in BaseSpecs \cup {None} : /\ status.hash = Content(types, packages, b)
                                           /\ ("base" \in Adversity \/ b = base)

\* Ready=True tells the truth: the pull request of the repository holds the content
\* whose hash the status records.  CreatePR sits between two status updates, either
\* of which may be refused, fail or be repeated.  After a user has changed the
\* repository, the pull request may be in another one.
ReadyMeansPR ==
    (repo # None /\ status.ready = "PRCreated") =>
        \E r \in Repos : pr[r] = status.hash /\ (r = repo \/ "retarget" \in Adversity)

\* Reconcile proposes nothing twice: no pull request is opened for a content
\* whose hash the status records already, however stale the cached status is:
\* the status update that precedes CreatePR is refused for a stale copy.
NoRepeatedPR ==
    [][(\E ok \in BOOLEAN : CreatePR(ok)) /\ repo # None => cur.content # status.hash]_vars

\* The controller uses every repository as module PullRequest expects: one call at a
\* time, and it trusts only a call that has succeeded.
Use(r) == INSTANCE PullRequest WITH
    pr    <- pr[r],
    call  <- IF cur.repo = r /\ cur.pc \in {"create", "record"} THEN cur.content ELSE None,
    phase <- CASE cur.repo = r /\ cur.pc = "create" -> "asked"
               [] cur.repo = r /\ cur.pc = "record" -> "done"
               [] OTHER -> "idle"

UsesPullRequest ==
    /\ \A r \in Repos : Use(r)!Init
    /\ [][\A r \in Repos : [Use(r)!Next]_(Use(r)!vars)]_vars

\* A change leads to a pull request in the end: the comment "create a pr in a
\* timeout" at the place where ReadyToPR is set.
ReadyToPRLeadsToPR == (repo # None /\ Quiet /\ AllReady) => status.toPR = "absent"
=============================================================================

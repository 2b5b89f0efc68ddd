------------------------------ MODULE Scheduler ------------------------------
(***************************************************************************)
(* The scheduling algorithm of scheduler/scheduler.go: which cluster types *)
(* and deployment targets a scheduling policy selects, and the matrix of   *)
(* assignments it derives from them.                                       *)
(*                                                                         *)
(* A Kubernetes name is the sequence of its dash-separated segments, so    *)
(* joining names with a dash is concatenation and two different ways of    *)
(* cutting a name into parts can give the same name, as they do in the     *)
(* code.  Labels are functions from keys to values.  A label selector is a *)
(* set of requirements [key, op, values]; matchLabels entries are "In"     *)
(* requirements with one value.                                            *)
(***************************************************************************)
EXTENDS Sequences

\* The absent label value: the Go zero value of a missing map entry.
EmptyLabel == << >>

LabelOf(labels, key) ==
    IF key \in DOMAIN labels THEN labels[key] ELSE EmptyLabel

GetWorkspace(labels) == LabelOf(labels, "workspace")

GetWorkload(labels) == LabelOf(labels, "workload")

(***************************************************************************)
(* Label selectors (k8s.io/apimachinery).                                  *)
(***************************************************************************)

\* The error cases of metav1.LabelSelectorAsSelector.
ValidRequirement(r) ==
    \/ r.op \in {"In", "NotIn"} /\ r.values # {}
    \/ r.op \in {"Exists", "DoesNotExist"} /\ r.values = {}

ValidSelector(sel) == \A r \in sel : ValidRequirement(r)

Satisfies(labels, r) ==
    CASE r.op = "In"           -> r.key \in DOMAIN labels /\ labels[r.key] \in r.values
      [] r.op = "NotIn"        -> r.key \in DOMAIN labels => labels[r.key] \notin r.values
      [] r.op = "Exists"       -> r.key \in DOMAIN labels
      [] r.op = "DoesNotExist" -> r.key \notin DOMAIN labels

\* labels.Selector.Matches; the empty selector matches everything.
Matches(sel, labels) == \A r \in sel : Satisfies(labels, r)

(***************************************************************************)
(* The scheduler.  ps is the spec of a scheduling policy:                  *)
(*   [workspace, targets, clusterTypes]                                    *)
(* with a workspace name (EmptyLabel when omitted) and two selectors.  The *)
(* cluster types are a partial function from names to labels, the targets  *)
(* one from names to [env, labels].                                        *)
(***************************************************************************)

\* NewScheduler fails when either selector is malformed.
SchedulerOK(ps) == ValidSelector(ps.clusterTypes) /\ ValidSelector(ps.targets)

IsClusterTypeCompliant(ps, labels) == Matches(ps.clusterTypes, labels)

IsDeploymentTargetCompliant(ps, labels) ==
    /\ ps.workspace # EmptyLabel => ps.workspace = GetWorkspace(labels)
    /\ Matches(ps.targets, labels)

SelectClusterTypes(ps, clusterTypes) ==
    {c \in DOMAIN clusterTypes : IsClusterTypeCompliant(ps, clusterTypes[c])}

SelectDeploymentTargets(ps, targets) ==
    {d \in DOMAIN targets : IsDeploymentTargetCompliant(ps, targets[d].labels)}

\* Mutant of Assign: workload and target are swapped.
AssignSwapped(workload, d, c) == [workload |-> d, target |-> workload, clusterType |-> c]

\* The spec of the assignment made by assign.
Assign(workload, d, c) == [workload |-> workload, target |-> d, clusterType |-> c]

\* The name given to it: "%s-%s-%s".
AssignmentName(spec) == spec.workload \o spec.target \o spec.clusterType

Schedule(ps, clusterTypes, targets) ==
    {Assign(GetWorkload(targets[d].labels), d, c) :
        d \in SelectDeploymentTargets(ps, targets),
        c \in SelectClusterTypes(ps, clusterTypes)}
=============================================================================

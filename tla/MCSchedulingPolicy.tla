-------------------------- MODULE MCSchedulingPolicy --------------------------
(***************************************************************************)
(* Small instances of SchedulingPolicyController.                          *)
(***************************************************************************)
EXTENDS SchedulingPolicyController

CONSTANT p1   \* a scheduling policy

app   == <<"app">>
Dev   == <<"dev">>
Small == <<"small">>
Team  == <<"team">>

Requires(key, value) == [key |-> key, op |-> "In", values |-> {value}]

\* A policy that selects every target and every cluster type; one restricted to
\* a workspace; one whose selector is malformed.
EverySpec   == [workspace |-> EmptyLabel, targets |-> {}, clusterTypes |-> {}]
TeamSpec    == [workspace |-> Team, targets |-> {}, clusterTypes |-> {}]
InvalidSpec == [workspace |-> EmptyLabel, targets |-> {},
                clusterTypes |-> {[key |-> "size", op |-> "In", values |-> {}]}]

Sized(size) == [size |-> size]

\* A target of workload app in this or another environment.
TargetIn(env, workspace) == [env |-> env, labels |-> [workload |-> app, workspace |-> workspace]]

OneType    == {<<"edge">>}
TwoTypes   == {<<"edge">>, <<"core">>}
OneTarget  == {<<"app", "test">>}
\* Two targets and two cluster types whose dash-joined names can coincide.
DashedTypes   == {<<"small">>, <<"edge", "small">>}
DashedTargets == {<<"app", "test">>, <<"app", "test", "edge">>}
Workloads  == {app}

SmallOnly      == {Sized(Small)}
HereOrElsewhere == {TargetIn(Dev, Team), TargetIn(<<"stage">>, Team)}
HereOnly       == {TargetIn(Dev, Team)}

TeamOrInvalid  == {TeamSpec, InvalidSpec}
EveryOnly      == {EverySpec}
=============================================================================

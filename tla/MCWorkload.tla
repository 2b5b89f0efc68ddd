------------------------------ MODULE MCWorkload ------------------------------
(***************************************************************************)
(* Small instances of WorkloadController.                                  *)
(***************************************************************************)
EXTENDS WorkloadController

CONSTANTS d1, d2   \* what a target may carry

OneWorkload == {<<"app">>}
OneTarget   == {<<"dev">>}
\* No Flux owner label, that of registration app in namespace east, and one that
\* Flux did not write.
Labels       == {<< >>, <<"east", "app">>, <<"app">>}
\* No Flux owner label on any workload.
NoLabels     == {<< >>}
Registration == {<<"app">>}
East         == <<"east">>
West         == <<"west">>
OneTeam      == {<<"team">>}
=============================================================================

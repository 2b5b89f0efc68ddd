--------------------------- MODULE MCFluxReferences ---------------------------
(***************************************************************************)
(* Small instances of FluxReferences.                                      *)
(***************************************************************************)
EXTENDS FluxReferences, TLC

CONSTANTS s1, s2   \* two specs

Dev  == [kind |-> "Environment", namespace |-> << >>, name |-> <<"dev">>]
Main == [kind |-> "BaseRepo", namespace |-> <<"dev">>, name |-> <<"main">>]
App  == [kind |-> "WorkloadRegistration", namespace |-> <<"kalypso">>, name |-> <<"app">>]

EnvironmentAndBase == {Dev, Main}
EnvironmentAndApp  == {Dev, App}

\* Two misfortunes in all: two edits, or one edit and one fault.
Budget == edits + faults <= 2

\* Specs are interchangeable.
SpecSymmetry == Permutations(Specs)
=============================================================================

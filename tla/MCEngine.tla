------------------------------ MODULE MCEngine ------------------------------
(* Instances of Engine for TLC. *)
EXTENDS Engine, TLC

CONSTANTS TypeA, TypeB

DistinctIds == [p \in Plugin |-> p]
OwnPorts == [p \in Plugin \ 1..NumInternal |-> 6000 + p]
None == {}
All == Plugin

\* As in the test application: plugin 1 produces TypeA and reads TypeB, plugin 2
\* does the opposite.  Here either may publish either type.
MCSubscriptions == [p \in Plugin |-> IF p = 1 THEN {TypeB} ELSE {TypeA}]
OwnFilters == {<<TypeA, TypeA>>, <<TypeB, TypeB>>}
=============================================================================

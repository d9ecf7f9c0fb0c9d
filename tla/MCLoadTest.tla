----------------------------- MODULE MCLoadTest -----------------------------
(* Instances of LoadTest for TLC. *)
EXTENDS LoadTest

DistinctIds == [p \in Plugin |-> p]
OwnFilters == {<<t, t>> : t \in EventType}
NoPorts == [p \in {} |-> 0]
None == {}
All == Plugin
=============================================================================

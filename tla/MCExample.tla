----------------------------- MODULE MCExample -----------------------------
(* Instances of Example for TLC. *)
EXTENDS Example

DistinctIds == [p \in Plugin |-> p]
PyPort == [p \in Plugin \ 1..NumInternal |-> 6000]
OwnFilters == {<<t, t>> : t \in EventType}
None == {}
=============================================================================

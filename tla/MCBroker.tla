------------------------------ MODULE MCBroker ------------------------------
(* Instances of Broker for TLC. *)
EXTENDS Broker, TLC

CONSTANTS p1, p2, A, AB

\* p1 reads both types, p2 only AB.  The filter of A is a prefix of that of AB.
PrefixReaders == p1 :> {A, AB} @@ p2 :> {AB}
PrefixFilters == {<<A, A>>, <<AB, AB>>, <<A, AB>>}
=============================================================================

------------------------------- MODULE MCApp -------------------------------
(* Instances of App for TLC. *)
EXTENDS App

\* Distinct ids, and the first two plugins with the same one.
DistinctIds == [p \in Plugin |-> p]
SharedIds == [p \in Plugin |-> IF p = 2 THEN 1 ELSE p]

\* External plugins on ports of their own; all on one port but the last, which
\* wants a port of the engine.
OwnPorts == [p \in External |-> 5999 + p - NumInternal]
ClashingPorts == [p \in External |-> IF p = NumPlugins THEN SubscribePort ELSE 6000]

\* Ports 5559, 5560 and 6000 are those of the example application.
BusyPorts == {5559, 5560, 6000}

All == Plugin
None == {}
=============================================================================

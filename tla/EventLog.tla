------------------------------ MODULE EventLog ------------------------------
(***************************************************************************)
(* What the publish-subscribe proxy promises its plugins: the events it    *)
(* takes form one log, and each plugin reads that log forwards, skipping   *)
(* what it did not subscribe to.  Events may be skipped (a full queue      *)
(* drops), but no plugin sees an event twice, or two events in the order   *)
(* opposite to the log's.                                                  *)
(***************************************************************************)
EXTENDS Naturals, Sequences

CONSTANTS
    Reader,         \* who receives events
    Event,          \* what can be published
    Wanted(_, _)    \* Wanted(r, e): reader r subscribed to event e

VARIABLES
    log,         \* events in the order the proxy took them
    delivered    \* delivered[r]: events reader r received, in order

vars == <<log, delivered>>

InLog(e) == \E i \in DOMAIN log : log[i] = e

\* Event i of the log comes after everything reader r has received.
AheadOf(r, i) ==
    \A j \in i..Len(log) : \A k \in DOMAIN delivered[r] : delivered[r][k] # log[j]

Init ==
    /\ log = <<>>
    /\ delivered = [r \in Reader |-> <<>>]

Take(e) ==
    /\ ~InLog(e)
    /\ log' = Append(log, e)
    /\ UNCHANGED delivered

Deliver(r) ==
    /\ \E i \in DOMAIN log :
          /\ Wanted(r, log[i])
          /\ AheadOf(r, i)
          /\ delivered' = [delivered EXCEPT ![r] = Append(@, log[i])]
    /\ UNCHANGED log

Next ==
    \/ \E e \in Event : Take(e)
    \/ \E r \in Reader : Deliver(r)

Spec == Init /\ [][Next]_vars
=============================================================================

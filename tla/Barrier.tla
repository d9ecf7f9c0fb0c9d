------------------------------ MODULE Barrier ------------------------------
(***************************************************************************)
(* What sync_plugins promises the plugins: a one-shot barrier.  Every      *)
(* party arrives once, and none is let through before all have arrived.    *)
(***************************************************************************)
CONSTANT Party

VARIABLES
    arrived,   \* parties that have reached the barrier
    released   \* parties let through

vars == <<arrived, released>>

Init ==
    /\ arrived = {}
    /\ released = {}

Arrive(p) ==
    /\ p \notin arrived
    /\ arrived' = arrived \cup {p}
    /\ UNCHANGED released

Release(p) ==
    /\ arrived = Party
    /\ p \notin released
    /\ released' = released \cup {p}
    /\ UNCHANGED arrived

Next == \E p \in Party : Arrive(p) \/ Release(p)

Spec == Init /\ [][Next]_vars

\* The barrier opens for everyone once everyone is there.
LiveSpec == Spec /\ \A p \in Party : WF_vars(Release(p))
=============================================================================

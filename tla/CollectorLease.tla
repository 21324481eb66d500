---------------------------- MODULE CollectorLease ----------------------------
(***************************************************************************)
(* What the subscription interface promises about collectors, with nothing *)
(* about sessions, locks or threads: a client holds a lease on an event    *)
(* from the moment its subscription is confirmed until it asks to end it,  *)
(* and an event's collector runs for as long as anybody holds a lease.     *)
(***************************************************************************)
CONSTANTS Clients, Events

VARIABLES
    held,       \* the leases, as pairs of a client and an event
    running     \* the events whose collector runs

vars == <<held, running>>

Holders(e) == {c \in Clients : <<c, e>> \in held}

Init == held = {} /\ running \in SUBSET Events

Grant(c, e) ==
    /\ e \in running
    /\ held' = held \cup {<<c, e>>}
    /\ UNCHANGED running

(* A client may end one lease or, by going away, all of its leases. *)
Release(c) ==
    /\ \E E \in SUBSET Events : held' = held \ ({c} \X E)
    /\ UNCHANGED running

(* A collector may be started for a lease that is granted at once. *)
Start(e) ==
    /\ running' = running \cup {e}
    /\ UNCHANGED held

StartAndGrant(c, e) ==
    /\ running' = running \cup {e}
    /\ held' = held \cup {<<c, e>>}

Stop(e) ==
    /\ Holders(e) = {}
    /\ running' = running \ {e}
    /\ UNCHANGED held

Next ==
    \/ \E c \in Clients : Release(c)
    \/ \E e \in Events : Start(e) \/ Stop(e)
    \/ \E c \in Clients, e \in Events : Grant(c, e) \/ StartAndGrant(c, e)

Spec == Init /\ [][Next]_vars
=============================================================================

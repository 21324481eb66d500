-------------------------- MODULE MCAuthCoordinator --------------------------
(***************************************************************************)
(* Small instances of AuthCoordinator.  A configuration picks its session  *)
(* objects, events and requests; the definitions below say who owns what.  *)
(***************************************************************************)
EXTENDS AuthCoordinator

CONSTANTS c1, c2, p1, e1, r1, r2, n1, n2

(* Every session object belongs to a process of its own. *)
OwnProcess == [x \in Providers \cup Clients |-> x]

OneService == [x \in Providers |-> "s"]
AllOfOneService == [x \in Events |-> "s"]

(* Everything is asked by p1 about e1. *)
AllOfP == [r \in Requests |-> [provider |-> p1, event |-> e1]]

(* Requests and notices have nothing in common but the tables they read: a  *)
(* run leaves out the behaviours that have both.                            *)
Alternatives ==
    \/ \A r \in Requests : task[r].pc = "new"
    \/ heard = {} /\ \A n \in Notifiers : notifier[n] = Idle

(* c1 allows when it is late, c2 denies. *)
BDenies == [c \in Clients |-> IF c = c2 THEN "DENY" ELSE "ALLOW"]
=============================================================================

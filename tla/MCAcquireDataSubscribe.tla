------------------------ MODULE MCAcquireDataSubscribe ------------------------
(***************************************************************************)
(* Small instances of AcquireDataSubscribe.  A configuration picks its     *)
(* clients, threads and events; the definitions below give each event its  *)
(* kind and each client its process.                                       *)
(***************************************************************************)
EXTENDS AcquireDataSubscribe, TLC

CONSTANTS c1, c2, s1, e1, e2, e3, f1, f2, t1, t2, t3

(* One collector in SecurityCollector, one here, and an event without EventCfg. *)
ScSgUnknown == [e \in Events |-> CASE e = e1 -> "sc" [] e = e2 -> "sg" [] OTHER -> "unknown"]

(* One collector in SecurityCollector, a sticky one and another one here. *)
ScStickySg == [e \in Events |-> CASE e = e1 -> "sc" [] e = e2 -> "sticky" [] OTHER -> "sg"]

AllOfE2 == [f \in Filters |-> e2]
NoEventOf == <<>>

OneProcess == [c \in Clients |-> "pid1"]
OneGroup == [c \in Clients |-> "auditGroup"]

ThreadSymmetry == Permutations(Threads)
=============================================================================

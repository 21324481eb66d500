-------------------------- MODULE MCCollectorService --------------------------
(***************************************************************************)
(* Small instances of CollectorService.                                    *)
(***************************************************************************)
EXTENDS CollectorService, TLC
CONSTANTS p1, p2, s1, s2, a1, e1, e2, e3
TwoKits == s1 :> p1 @@ s2 :> p2
BothE1 == [s \in Subscribers |-> e1]
=============================================================================

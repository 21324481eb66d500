------------------------------ MODULE MCAuthKit ------------------------------
(***************************************************************************)
(* Small instances of AuthKit.                                             *)
(***************************************************************************)
EXTENDS AuthKit, TLC
CONSTANTS c1, p1, e1, e2, d1, d2

(* Deletions are told apart by nothing. *)
AnyDeleter == Permutations(Deleters)
=============================================================================

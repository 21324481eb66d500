---------------------------- MODULE MCSubscribeKit ----------------------------
(***************************************************************************)
(* A small instance of SubscribeKit: one client; and the old kit with      *)
(* three subscribers of one event, two of them made from JavaScript, and   *)
(* one of another.                                                         *)
(***************************************************************************)
EXTENDS SubscribeKit
CONSTANTS c1, e1, e2, f1, u1, u2, u3, u4, r1, r2
OwnCallback == [u \in JsSubscribers |-> u]
ThreeE1 == [u \in Subscribers |-> IF u = u4 THEN e2 ELSE e1]

(* The two kits share nothing but the life of the service: an application  *)
(* uses one of them.                                                       *)
OneKit ==
    \/ \A c \in Clients : client[c] = "none" /\ call[c] = Idle
    \/ subscribers = {} /\ jsEntries = {} /\ ~recipientMade /\ call["sdk"] = Idle
=============================================================================

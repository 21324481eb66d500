----------------------------- MODULE AuthKitProofs -----------------------------
(***************************************************************************)
(* What is proved of AuthKit, for any clients, providers, events and       *)
(* threads that delete, any number of lives of the service and of retries: *)
(* handles are served again after its deaths, a deletion leaves no session *)
(* behind, and no callback comes after it.                                 *)
(***************************************************************************)
EXTENDS AuthKit, Integers, TLAPS

USE DEF service, fields, notices, history, status, request

Mid == {"create", "switch", "again"}
Begun == {"wait", "create", "switch"}
Stages == {"idle", "returned", "read", "clear", "mark", "destroy", "done", "freed"}
CallSet == [at : {"idle", "sent", "answered"}, op : {"none", "sub", "unsub"}, event : SUBSET Events, life : Nat]
RecSet == [at : {"idle", "wait"} \cup Mid, events : SUBSET Events, left : Int, life : Nat]

(* What the variables are. *)
ServiceOK ==
    /\ life \in 1 .. MaxLives /\ up \in BOOLEAN
    /\ sessions \subseteq Handles /\ eventIds \in [Handles -> SUBSET Events]
FieldsOK ==
    /\ state \in [Handles -> {"none", "creating", "live"}] /\ remote \in [Handles -> Nat]
    /\ recorded \in [Handles -> SUBSET Events]
    /\ push \in [Handles -> {"idle", "arrived", "running"}]
    /\ tsfn \subseteq Providers
    /\ promise \in [Providers -> {"none", "waiting", "resolve", "reject", "settled"}]
ThreadsOK ==
    /\ watching \subseteq Handles /\ obits \subseteq Recoveries
    /\ call \in [Handles -> CallSet] /\ rec \in [Recoveries -> RecSet]
    /\ del \in [Handles -> [Deleters -> [at : Stages, life : Nat]]]
TypeInv == ServiceOK /\ FieldsOK /\ ThreadsOK

R(h, l) == rec[<<h, l>>]
Lives == 1 .. MaxLives

(* Nothing is of a later life, and a service that is down has nothing.     *)
PastInv(h) ==
    /\ remote[h] <= life /\ call[h].life <= life
    /\ \A l \in Lives : R(h, l).life <= life /\ (<<h, l>> \in obits => l <= life /\ (up => l < life))
    /\ ~up => h \notin sessions /\ h \notin watching

(* What a handle may have before it is live, and how far a deletion is.    *)
Unborn(h) ==
    /\ recorded[h] = {} /\ call[h].at = "idle" /\ h \notin deleted /\ h \notin watching
    /\ \A l \in Lives : R(h, l).at = "idle" /\ <<h, l>> \notin obits
    /\ \A d \in Deleters : del[h][d].at = "idle"
DeletionOK(h, d) ==
    /\ h \in Clients => del[h][d].at \in {"idle", "clear", "mark", "destroy", "done"}
    /\ del[h][d].at \in {"returned", "read", "destroy", "done", "freed"} => h \in deleted
    /\ h \in Providers /\ del[h][d].at # "idle" => h \in deleted
StageInv(h) ==
    /\ state[h] # "live" => Unborn(h)
    /\ state[h] = "none" => h \notin sessions
    /\ \A d \in Deleters : DeletionOK(h, d)
    /\ h \in deleted \cap Clients => remote[h] = 0

(* A deletion that has cleared the callback keeps it clear; one that has   *)
(* released the thread-safe function leaves nothing in its queue.          *)
Quiet(h, d) ==
    /\ del[h][d].at \in {"mark", "destroy", "done", "freed"} => h \notin slot /\ push[h] # "running"
    /\ del[h][d].at = "freed" => h \notin tsfn /\ h \notin notice
QuietInv(h) == \A d \in Deleters : Quiet(h, d)

PromiseInv == \A p \in Providers \ forsaken : promise[p] = "waiting" => p \in pending

(* Somebody knows each session: the handle, a recovery that is to switch   *)
(* to it, or a deletion that is to destroy it.                             *)
Switching(h, l) == R(h, l).at = "switch" /\ R(h, l).life = life
Destroying(h, d) == del[h][d].at = "destroy" /\ del[h][d].life = life
KnownInv(h) ==
    h \in sessions \ raced /\ (h \in Clients \/ h \notin deleted) =>
        \/ remote[h] = life
        \/ \E l \in Lives : Switching(h, l)
        \/ \E d \in Deleters : Destroying(h, d)

(* Before the first death nothing recovers, and a provider's deletion      *)
(* finds its session.                                                      *)
FirstInv(h) ==
    life = 1 /\ up =>
        /\ h \notin raced
        /\ \A l \in Lives : R(h, l).at = "idle" /\ <<h, l>> \notin obits
        /\ h \in Providers \cap sessions =>
             /\ remote[h] = 1
             /\ \A d \in Deleters : /\ del[h][d].at \in {"clear", "destroy"} => del[h][d].life = 1
                                    /\ del[h][d].at \notin {"done", "freed"}

(* The events that a handle without a session error is to have, and those  *)
(* that recoveries have still to subscribe.                                *)
Due(h) == IF call[h].at = "answered" THEN Changed(recorded[h], h) ELSE recorded[h]
Coming(h) == {e \in Events : \E l \in Lives : R(h, l).at = "again" /\ R(h, l).life = life /\ e \in R(h, l).events}

Told(h) == \E l \in Lives : <<h, l>> \in obits
Attached(h) == up /\ remote[h] = life /\ Due(h) \subseteq eventIds[h] \cup Coming(h)
Restoring(h) ==
    /\ up => remote[h] # life
    /\ call[h].at # "answered" /\ (call[h].at = "sent" => ~Reached(call[h].life))
    /\ \E l \in Lives : R(h, l).at \in Begun
    /\ \A l \in Lives : R(h, l).at \in Begun => R(h, l).events = recorded[h]

Orderly(h) == state[h] = "live" /\ h \notin deleted \cup unseen \cup gaveUp \cup raced

(* A recovery at work has the running service, or is to hear of a death;   *)
(* one at most is to switch to a session; who has one has it alone.        *)
RecInv(h) ==
    /\ \A l \in Lives : R(h, l).at \in Mid => Reached(R(h, l).life) \/ <<h, R(h, l).life>> \in obits
    /\ \A l \in Lives : Switching(h, l) /\ up =>
         remote[h] # life /\ \A m \in Lives \ {l} : ~Switching(h, m)
    /\ call[h].at = "sent" /\ Reached(call[h].life) => remote[h] = life
ServedInv(h) == Orderly(h) => RecInv(h) /\ (Attached(h) \/ Told(h) \/ Restoring(h))

(* What was created, until the service dies or the deletion begins.        *)
HasSession(h) ==
    up /\ h \notin deleted /\ (remote[h] = life \/ \E l \in Lives : Switching(h, l)) => h \in sessions

HandleInv(h) ==
    /\ PastInv(h) /\ StageInv(h) /\ QuietInv(h) /\ KnownInv(h) /\ FirstInv(h) /\ HasSession(h) /\ ServedInv(h)
Inv == TypeInv /\ PromiseInv /\ \A h \in Handles : HandleInv(h)

-------------------------------------------------------------------------------
(* Typing, and what the steps do to the tables                             *)

LEMMA Names ==
    /\ Clients \cup Providers = Handles /\ Clients \cap Providers = {} /\ MaxLives \in Nat \ {0}
    /\ \A h \in Handles, l \in Lives : <<h, l>> \in Recoveries /\ <<h, l>>[1] = h /\ <<h, l>>[2] = l
    /\ \A r \in Recoveries : r[1] \in Handles /\ r[2] \in Lives /\ r = <<r[1], r[2]>>
  BY KitAssumption DEF Handles, Recoveries, Lives

DelOK == del \in [Handles -> [Deleters -> [at : Stages, life : Nat]]]
RecOK == rec \in [Recoveries -> RecSet]
CallOK == call \in [Handles -> CallSet]

(* A deletion, a recovery, or a call moves, and nothing else in its table. *)
DelMoves(h, d, at, l) ==
    /\ DelOK' /\ del'[h][d].at = at /\ del'[h][d].life = l
    /\ \A e \in Deleters \ {d} : del'[h][e] = del[h][e]
    /\ \A k \in Handles \ {h} : del'[k] = del[k]
RecMoves(r, at, S, l) ==
    /\ RecOK' /\ rec'[r].at = at /\ rec'[r].events = S /\ rec'[r].life = l
    /\ \A q \in Recoveries \ {r} : rec'[q] = rec[q]
CallMoves(c, at) ==
    /\ CallOK' /\ call'[c].at = at /\ \A k \in Handles \ {c} : call'[k] = call[k]

LEMMA DelSet ==
    ASSUME DelOK, NEW h \in Handles, NEW d \in Deleters, NEW x \in [at : Stages, life : Nat],
           del' = [del EXCEPT ![h][d] = x]
    PROVE  DelMoves(h, d, x.at, x.life)
<1>1. del' = [del EXCEPT ![h] = [del[h] EXCEPT ![d] = x]]
  BY DEF DelOK
<1>2. del[h] \in [Deleters -> [at : Stages, life : Nat]]
  BY DEF DelOK
<1>3. [del[h] EXCEPT ![d] = x] \in [Deleters -> [at : Stages, life : Nat]]
  BY <1>2
<1> QED
  BY <1>1, <1>2, <1>3 DEF DelMoves, DelOK

LEMMA ThenMoves ==
    ASSUME DelOK, NEW h \in Handles, NEW d \in Deleters, NEW at \in Stages, Then(h, d, at)
    PROVE  DelMoves(h, d, at, del[h][d].life)
<1> DEFINE x == [at |-> at, life |-> del[h][d].life]
<1>1. del[h][d] \in [at : Stages, life : Nat]
  BY DEF DelOK
<1>2. x \in [at : Stages, life : Nat] /\ [del[h][d] EXCEPT !.at = at] = x
  BY <1>1
<1>3. del' = [del EXCEPT ![h][d] = x]
  BY <1>2 DEF Then
<1>4. DelMoves(h, d, x.at, x.life)
  BY <1>2, <1>3, DelSet
<1> QED
  BY <1>4

LEMMA DelSteps ==
    ASSUME TypeInv, NEW h \in Handles, NEW d \in Deleters
    PROVE  /\ Release(h, d) => DelMoves(h, d, "clear", del[h][d].life)
           /\ ClearCallBack(h, d) => DelMoves(h, d, IF h \in Clients THEN "mark" ELSE "destroy", del[h][d].life)
           /\ MarkDeleted(h, d) => DelMoves(h, d, "destroy", remote[h])
           /\ DestroySession(h, d) => DelMoves(h, d, "done", del[h][d].life)
           /\ DeleteProvider(h, d) => DelMoves(h, d, IF h \in deleted THEN "returned" ELSE "read", del[h][d].life)
           /\ ReadSession(h, d) => DelMoves(h, d, "clear", remote[h])
           /\ NapiDestroyAuthProvider(h, d) => DelMoves(h, d, "freed", del[h][d].life)
<1>1. DelOK /\ remote[h] \in Nat
  BY DEF TypeInv, ThreadsOK, FieldsOK, DelOK
<1>2. Release(h, d) => DelMoves(h, d, "clear", del[h][d].life)
  BY <1>1, ThenMoves DEF Release, Stages
<1>3. ClearCallBack(h, d) => DelMoves(h, d, IF h \in Clients THEN "mark" ELSE "destroy", del[h][d].life)
  BY <1>1, ThenMoves DEF ClearCallBack, Stages
<1>4. MarkDeleted(h, d) => DelMoves(h, d, "destroy", remote[h])
  <2> DEFINE x == [at |-> "destroy", life |-> remote[h]]
  <2>1. x \in [at : Stages, life : Nat] /\ x.at = "destroy" /\ x.life = remote[h]
    BY <1>1 DEF Stages
  <2>2. MarkDeleted(h, d) => del' = [del EXCEPT ![h][d] = x]
    BY DEF MarkDeleted
  <2> HIDE DEF x
  <2>3. del' = [del EXCEPT ![h][d] = x] => DelMoves(h, d, x.at, x.life)
    BY <1>1, <2>1, DelSet
  <2> QED
    BY <2>1, <2>2, <2>3
<1>5. DestroySession(h, d) => DelMoves(h, d, "done", del[h][d].life)
  BY <1>1, ThenMoves DEF DestroySession, Stages
<1>6. DeleteProvider(h, d) => DelMoves(h, d, IF h \in deleted THEN "returned" ELSE "read", del[h][d].life)
  BY <1>1, ThenMoves DEF DeleteProvider, Stages
<1>7. ReadSession(h, d) => DelMoves(h, d, "clear", remote[h])
  <2>1. [at |-> "clear", life |-> remote[h]] \in [at : Stages, life : Nat]
    BY <1>1 DEF Stages
  <2> QED
    BY <1>1, <2>1, DelSet DEF ReadSession
<1>8. NapiDestroyAuthProvider(h, d) => DelMoves(h, d, "freed", del[h][d].life)
  BY <1>1, ThenMoves DEF NapiDestroyAuthProvider, Stages
<1> QED
  BY <1>2, <1>3, <1>4, <1>5, <1>6, <1>7, <1>8

LEMMA RecTo ==
    ASSUME RecOK, NEW r \in Recoveries, NEW x \in RecSet, rec' = [rec EXCEPT ![r] = x]
    PROVE  RecMoves(r, x.at, x.events, x.life)
  BY DEF RecMoves, RecOK

LEMMA FailMoves ==
    ASSUME RecOK, NEW r \in Recoveries, Fail(r)
    PROVE  RecMoves(r, "wait", rec[r].events, rec[r].life)
<1> DEFINE x == [rec[r] EXCEPT !.at = "wait", !.left = @ - 1]
<1>1. rec[r] \in RecSet
  BY DEF RecOK
<1>2. x \in RecSet /\ x.at = "wait" /\ x.events = rec[r].events /\ x.life = rec[r].life
  <2>1. rec[r].left - 1 \in Int
    BY <1>1 DEF RecSet
  <2> QED
    BY <1>1, <2>1 DEF RecSet
<1>3. rec' = [rec EXCEPT ![r] = x]
  BY <1>1 DEF Fail, RecOK, RecSet
<1>4. RecMoves(r, x.at, x.events, x.life)
  BY <1>2, <1>3, RecTo
<1> QED
  BY <1>2, <1>4

LEMMA RecSteps ==
    ASSUME TypeInv, NEW r \in Recoveries
    PROVE  /\ rec' = [rec EXCEPT ![r] = NoRec] => RecMoves(r, "idle", {}, 0)
           /\ \A at \in Mid : rec' = [rec EXCEPT ![r].at = at] => RecMoves(r, at, rec[r].events, rec[r].life)
           /\ rec' = [rec EXCEPT ![r].at = "create", ![r].life = life] => RecMoves(r, "create", rec[r].events, life)
           /\ HandleDeath(r[1], r[2]) => RecMoves(r, "wait", recorded[r[1]], 0)
           /\ \A e \in Events : Resubscribe(r, e) => RecMoves(r, "again", rec[r].events \ {e}, rec[r].life)
<1>1. RecOK /\ rec[r] \in RecSet /\ life \in Nat /\ r[1] \in Handles /\ recorded[r[1]] \subseteq Events
  BY Names DEF TypeInv, ThreadsOK, ServiceOK, FieldsOK, RecOK
<1>2. rec' = [rec EXCEPT ![r] = NoRec] => RecMoves(r, "idle", {}, 0)
  <2>1. NoRec \in RecSet /\ NoRec.at = "idle" /\ NoRec.events = {} /\ NoRec.life = 0
    BY DEF NoRec, RecSet
  <2> QED
    BY <1>1, <2>1, RecTo
<1>3. ASSUME NEW at \in Mid, rec' = [rec EXCEPT ![r].at = at]
      PROVE  RecMoves(r, at, rec[r].events, rec[r].life)
  <2> DEFINE x == [rec[r] EXCEPT !.at = at]
  <2>1. x \in RecSet /\ x.at = at /\ x.events = rec[r].events /\ x.life = rec[r].life
    BY <1>1 DEF RecSet
  <2>2. rec' = [rec EXCEPT ![r] = x]
    BY <1>1, <1>3
  <2>3. RecMoves(r, x.at, x.events, x.life)
    BY <1>1, <2>1, <2>2, RecTo
  <2> QED
    BY <2>1, <2>3
<1>4. rec' = [rec EXCEPT ![r].at = "create", ![r].life = life] => RecMoves(r, "create", rec[r].events, life)
  <2> SUFFICES ASSUME rec' = [rec EXCEPT ![r].at = "create", ![r].life = life]
               PROVE  RecMoves(r, "create", rec[r].events, life)
    OBVIOUS
  <2> DEFINE x == [rec[r] EXCEPT !.at = "create", !.life = life]
  <2>1. x \in RecSet /\ x.at = "create" /\ x.events = rec[r].events /\ x.life = life
    BY <1>1 DEF RecSet, Mid
  <2>2. rec' = [rec EXCEPT ![r] = x]
    BY <1>1 DEF RecOK, RecSet
  <2>3. RecMoves(r, x.at, x.events, x.life)
    BY <1>1, <2>1, <2>2, RecTo
  <2> QED
    BY <2>1, <2>3
<1>5. HandleDeath(r[1], r[2]) => RecMoves(r, "wait", recorded[r[1]], 0)
  <2> SUFFICES ASSUME HandleDeath(r[1], r[2]) PROVE RecMoves(r, "wait", recorded[r[1]], 0)
    OBVIOUS
  <2> DEFINE x == [at |-> "wait", events |-> recorded[r[1]], left |-> Retries, life |-> 0]
  <2>1. x \in RecSet
    BY <1>1, KitAssumption DEF RecSet
  <2>2. rec' = [rec EXCEPT ![r] = x]
    BY <1>1, Names DEF HandleDeath
  <2>3. RecMoves(r, x.at, x.events, x.life)
    BY <1>1, <2>1, <2>2, RecTo
  <2> QED
    BY <2>3
<1>6. ASSUME NEW e \in Events, Resubscribe(r, e)
      PROVE  RecMoves(r, "again", rec[r].events \ {e}, rec[r].life)
  <2> DEFINE x == [rec[r] EXCEPT !.events = @ \ {e}]
  <2>1. x \in RecSet /\ x.at = "again" /\ x.events = rec[r].events \ {e} /\ x.life = rec[r].life
    BY <1>1, <1>6 DEF RecSet, Resubscribe
  <2>2. rec' = [rec EXCEPT ![r] = x]
    BY <1>1, <1>6 DEF Resubscribe
  <2>3. RecMoves(r, x.at, x.events, x.life)
    BY <1>1, <2>1, <2>2, RecTo
  <2> QED
    BY <2>1, <2>3
<1> QED
  BY <1>2, <1>3, <1>4, <1>5, <1>6

LEMMA CallSteps ==
    ASSUME TypeInv, NEW c \in Clients
    PROVE  /\ \A op \in {"sub", "unsub"}, e \in Events : Use(c, op, e) =>
                CallMoves(c, "sent") /\ call'[c].life = remote[c]
           /\ Answered(c) => \/ CallMoves(c, "idle") /\ call'[c].life = 0 /\ UNCHANGED eventIds
                             \/ /\ CallMoves(c, "answered") /\ call'[c].life = call[c].life
                                /\ call'[c].op = call[c].op /\ call'[c].event = call[c].event
                                /\ Reached(call[c].life) /\ c \in sessions
                                /\ eventIds' = [eventIds EXCEPT ![c] = Changed(eventIds[c], c)]
           /\ Record(c) => CallMoves(c, "idle") /\ call'[c].life = 0
<1>1. call \in [Handles -> CallSet] /\ c \in Handles /\ call[c] \in CallSet /\ remote[c] \in Nat
  BY Names DEF TypeInv, ThreadsOK, FieldsOK
<1>2. NoCall \in CallSet /\ NoCall.at = "idle" /\ NoCall.life = 0
  BY DEF NoCall, CallSet
<1>3. ASSUME NEW x \in CallSet, call' = [call EXCEPT ![c] = x]
      PROVE  CallMoves(c, x.at) /\ call'[c] = x
  BY <1>1, <1>3 DEF CallMoves, CallOK
<1>4. ASSUME NEW op \in {"sub", "unsub"}, NEW e \in Events, Use(c, op, e)
      PROVE  CallMoves(c, "sent") /\ call'[c].life = remote[c]
  <2> DEFINE x == [at |-> "sent", op |-> op, event |-> {e}, life |-> remote[c]]
  <2>1. x \in CallSet
    BY <1>1 DEF CallSet
  <2>2. call' = [call EXCEPT ![c] = x]
    BY <1>4 DEF Use
  <2>3. CallMoves(c, x.at) /\ call'[c] = x
    BY <2>1, <2>2, <1>3
  <2> QED
    BY <2>3
<1>5. ASSUME Answered(c), Reached(call[c].life), c \in sessions
      PROVE  /\ CallMoves(c, "answered") /\ call'[c].life = call[c].life
             /\ call'[c].op = call[c].op /\ call'[c].event = call[c].event
             /\ eventIds' = [eventIds EXCEPT ![c] = Changed(eventIds[c], c)]
  <2> DEFINE x == [call[c] EXCEPT !.at = "answered"]
  <2>1. x \in CallSet /\ x.at = "answered" /\ x.life = call[c].life /\ x.op = call[c].op /\ x.event = call[c].event
    BY <1>1 DEF CallSet
  <2>2. call' = [call EXCEPT ![c] = x] /\ eventIds' = [eventIds EXCEPT ![c] = Changed(eventIds[c], c)]
    BY <1>1, <1>5 DEF Answered, Changed
  <2>3. CallMoves(c, x.at) /\ call'[c] = x
    BY <2>1, <2>2, <1>3
  <2> QED
    BY <2>1, <2>2, <2>3
<1>6. ASSUME Answered(c), ~(Reached(call[c].life) /\ c \in sessions)
      PROVE  CallMoves(c, "idle") /\ call'[c].life = 0 /\ UNCHANGED eventIds
  BY <1>2, <1>3, <1>6 DEF Answered
<1>7. Record(c) => CallMoves(c, "idle") /\ call'[c].life = 0
  BY <1>2, <1>3 DEF Record
<1> QED
  BY <1>4, <1>5, <1>6, <1>7

(* The clear of a session.                                                 *)
LEMMA Dropped ==
    ASSUME TypeInv, NEW h \in Handles, DropSession(h)
    PROVE  /\ sessions' = sessions \ {h} /\ eventIds' \in [Handles -> SUBSET Events]
           /\ \A k \in Handles \ {h} : eventIds'[k] = eventIds[k]
  BY DEF DropSession, TypeInv, ServiceOK

(* The steps of a recovery.                                                *)
Attempts(r) ==
    \/ r[1] \in deleted /\ RecMoves(r, "idle", {}, 0) /\ UNCHANGED <<watching, gaveUp>>
    \/ /\ r[1] \notin deleted /\ RecMoves(r, "idle", {}, 0) /\ UNCHANGED watching
       /\ gaveUp' = IF r[1] \in sessions THEN gaveUp ELSE gaveUp \cup {r[1]}
    \/ ~up /\ RecMoves(r, "wait", rec[r].events, rec[r].life) /\ UNCHANGED <<watching, gaveUp>>
    \/ /\ up /\ RecMoves(r, "create", rec[r].events, life) /\ r[1] \notin deleted /\ UNCHANGED gaveUp
       /\ watching' = IF r[1] \in Clients THEN watching \cup {r[1]} ELSE watching
Creates(r) ==
    \/ /\ Reached(rec[r].life) /\ r[1] \notin sessions
       /\ sessions' = sessions \cup {r[1]} /\ RecMoves(r, "switch", rec[r].events, rec[r].life)
    \/ /\ ~(Reached(rec[r].life) /\ r[1] \notin sessions)
       /\ UNCHANGED sessions /\ RecMoves(r, "wait", rec[r].events, rec[r].life)
Switches(r) ==
    \/ /\ r[1] \notin deleted /\ RecMoves(r, "again", rec[r].events, rec[r].life)
       /\ remote' = [remote EXCEPT ![r[1]] = rec[r].life]
       /\ raced' = IF remote[r[1]] > rec[r].life THEN raced \cup {r[1]} ELSE raced
       /\ UNCHANGED <<sessions, eventIds>>
    \/ /\ r[1] \in deleted \cap Clients /\ RecMoves(r, "idle", {}, 0)
       /\ IF Reached(rec[r].life) THEN DropSession(r[1]) ELSE UNCHANGED <<sessions, eventIds>>
       /\ UNCHANGED <<remote, raced>>
    \/ /\ r[1] \in deleted \cap Providers /\ RecMoves(r, "wait", rec[r].events, rec[r].life)
       /\ UNCHANGED <<sessions, eventIds, remote, raced>>

LEMMA RecoverySteps ==
    ASSUME TypeInv, NEW r \in Recoveries
    PROVE  /\ Attempt(r) => Attempts(r)
           /\ CreateAgain(r) => Creates(r)
           /\ SwitchSessionRemote(r) \/ RecoverSession(r) => Switches(r)
<1>1. RecOK
  BY DEF TypeInv, ThreadsOK, RecOK
<1>2. "create" \in Mid /\ "switch" \in Mid /\ "again" \in Mid
  BY DEF Mid
<1>3. Fail(r) => RecMoves(r, "wait", rec[r].events, rec[r].life)
  BY <1>1, FailMoves
<1>4. Attempt(r) => Attempts(r)
  BY <1>3, RecSteps DEF Attempt, Attempts
<1>5. CreateAgain(r) => Creates(r)
  BY <1>2, <1>3, RecSteps DEF CreateAgain, Creates
<1>6. Switched(r) => Switches(r)
  BY <1>2, RecSteps DEF Switched, Switches
<1>7. SwitchSessionRemote(r) => Switches(r)
  BY <1>6, RecSteps DEF SwitchSessionRemote, Switches
<1>8. RecoverSession(r) => Switches(r)
  BY <1>3, <1>6, RecSteps DEF RecoverSession, Switches
<1> QED
  BY <1>4, <1>5, <1>7, <1>8

LEMMA RecFrame ==
    ASSUME NEW r \in Recoveries, \A q \in Recoveries \ {r} : rec'[q] = rec[q]
    PROVE  /\ \A k \in Handles \ {r[1]}, l \in Lives : rec'[<<k, l>>] = rec[<<k, l>>]
           /\ \A l \in Lives \ {r[2]} : rec'[<<r[1], l>>] = rec[<<r[1], l>>]
           /\ r[1] \in Handles /\ r[2] \in Lives /\ r = <<r[1], r[2]>>
  BY Names

(* Numbers, and the fields of records.                                     *)
LEMMA Numbers ==
    ASSUME TypeInv, NEW k \in Handles
    PROVE  /\ life \in Nat /\ remote[k] \in Nat /\ call[k].life \in Nat
           /\ \A l \in Lives : R(k, l).life \in Nat /\ R(k, l).events \subseteq Events /\ l \in Nat
           /\ \A d \in Deleters : del[k][d].life \in Nat
  BY Names DEF TypeInv, ServiceOK, FieldsOK, ThreadsOK, CallSet, RecSet, R, Lives

-------------------------------------------------------------------------------
(* The steps keep the types.                                               *)

LEMMA Typed ==
    ASSUME TypeInv, [Next]_vars
    PROVE  TypeInv'
<1> USE DEF TypeInv, ServiceOK, FieldsOK, ThreadsOK
<1>1. ASSUME ServiceDies PROVE TypeInv'
  <2>1. obits' \subseteq Recoveries
    BY <1>1 DEF ServiceDies, Recoveries
  <2> QED
    BY <1>1, <2>1 DEF ServiceDies
<1>2. ASSUME ServiceStarts PROVE TypeInv'
  BY <1>2, Names DEF ServiceStarts
<1>3. ASSUME NEW h \in Handles, SetDeathRecipient(h) PROVE TypeInv'
  BY <1>3, Names DEF SetDeathRecipient, Reached
<1>4. ASSUME NEW c \in Clients, CreatClient(c) PROVE TypeInv'
  BY <1>4, Names DEF CreatClient, MakeSession
<1>5. ASSUME NEW c \in Clients, Answered(c) PROVE TypeInv'
  <2>1. Changed(eventIds[c], c) \subseteq Events
    BY <1>5, Names DEF Changed, CallSet
  <2>2. CallOK' /\ eventIds' \in [Handles -> SUBSET Events]
    <3>1. CallOK' /\ (UNCHANGED eventIds \/ eventIds' = [eventIds EXCEPT ![c] = Changed(eventIds[c], c)])
      BY <1>5, CallSteps DEF CallMoves
    <3> QED
      BY <2>1, <3>1 DEF ServiceOK
  <2> QED
    BY <1>5, <2>2 DEF Answered, CallOK
<1>6. ASSUME NEW c \in Clients, Record(c) PROVE TypeInv'
  <2>1. recorded' \in [Handles -> SUBSET Events]
    BY <1>6, Names DEF Record, Changed, CallSet
  <2>2. CallOK'
    BY <1>6, CallSteps DEF CallMoves
  <2> QED
    BY <1>6, <2>1, <2>2 DEF Record, CallOK
<1>7. ASSUME NEW p \in Providers, NapiCreateAuthProvider(p) PROVE TypeInv'
  BY <1>7, Names DEF NapiCreateAuthProvider, MakeSession, CreateProvider
<1>8. ASSUME NEW p \in Providers, OnClientStatusChangedTsfnCall(p)
      PROVE  TypeInv'
  BY <1>8, Names DEF OnClientStatusChangedTsfnCall
<1>9. ASSUME NEW p \in Providers, NapiRequestAuthResult(p) PROVE TypeInv'
  BY <1>9, Names DEF NapiRequestAuthResult, Promise
<1>10. ASSUME NEW p \in Providers, OnAuthResult(p) PROVE TypeInv'
  BY <1>10, Names DEF OnAuthResult, Promise, OnAuthResultCallback
<1>11. ASSUME NEW p \in Providers, OnAuthResultTsfnJsCall(p) PROVE TypeInv'
  BY <1>11, Names DEF OnAuthResultTsfnJsCall, Promise
<1>12. ASSUME NEW c \in Clients, NEW e \in Events, NEW op \in {"sub", "unsub"}, Use(c, op, e)
      PROVE  TypeInv'
  <2>1. CallOK'
    BY <1>12, CallSteps DEF CallMoves
  <2> QED
    BY <1>12, <2>1 DEF Use, CallOK
<1>13. ASSUME NEW h \in Handles, OnAuthEvent(h) PROVE TypeInv'
  BY <1>13, Names DEF OnAuthEvent
<1>14. ASSUME NEW h \in Handles, RunCallback(h) PROVE TypeInv'
  BY <1>14, Names DEF RunCallback
<1>15. ASSUME NEW h \in Handles, CallbackReturns(h) PROVE TypeInv'
  BY <1>15, Names DEF CallbackReturns, OnClientStatusChangedCallback
<1>16. ASSUME NEW h \in Handles, NEW d \in Deleters, ClearCallBack(h, d)
      PROVE  TypeInv'
  <2>1. DelOK'
    BY <1>16, Names, DelSteps DEF DelMoves
  <2> QED
    BY <1>16, <2>1, Names DEF ClearCallBack, DelOK
<1>17. ASSUME NEW c \in Clients, NEW d \in Deleters, Release(c, d)
      PROVE  TypeInv'
  <2>1. DelOK'
    BY <1>17, Names, DelSteps DEF DelMoves
  <2> QED
    BY <1>17, <2>1, Names DEF Release, DelOK
<1>18. ASSUME NEW c \in Clients, NEW d \in Deleters, MarkDeleted(c, d)
      PROVE  TypeInv'
  <2>1. DelOK'
    BY <1>18, Names, DelSteps DEF DelMoves
  <2> QED
    BY <1>18, <2>1, Names DEF MarkDeleted, DelOK
<1>19. ASSUME NEW c \in Clients, NEW d \in Deleters, DestroyRemoteObjects(c, d)
      PROVE  TypeInv'
  <2>1. DestroySession(c, d)
    BY <1>19 DEF DestroyRemoteObjects
  <2>2. DelOK' /\ sessions' \subseteq Handles /\ eventIds' \in [Handles -> SUBSET Events]
    BY <2>1, Names, DelSteps, Dropped DEF DelMoves, DestroySession
  <2> QED
    BY <1>19, <2>2, Names DEF DestroyRemoteObjects, DelOK
<1>20. ASSUME NEW p \in Providers, NEW d \in Deleters, DeleteProvider(p, d)
      PROVE  TypeInv'
  <2>1. DelOK'
    BY <1>20, Names, DelSteps DEF DelMoves
  <2> QED
    BY <1>20, <2>1, Names DEF DeleteProvider, DelOK
<1>21. ASSUME NEW p \in Providers, NEW d \in Deleters, ReadSession(p, d)
      PROVE  TypeInv'
  <2>1. DelOK'
    BY <1>21, Names, DelSteps DEF DelMoves
  <2> QED
    BY <1>21, <2>1, Names DEF ReadSession, DelOK
<1>22. ASSUME NEW p \in Providers, NEW d \in Deleters, DestroyProviderObjects(p, d)
      PROVE  TypeInv'
  <2>1. DestroySession(p, d)
    BY <1>22 DEF DestroyProviderObjects
  <2>2. DelOK' /\ sessions' \subseteq Handles /\ eventIds' \in [Handles -> SUBSET Events]
    BY <2>1, Names, DelSteps, Dropped DEF DelMoves, DestroySession
  <2> QED
    BY <1>22, <2>2, Names DEF DestroyProviderObjects, DelOK
<1>23. ASSUME NEW p \in Providers, NEW d \in Deleters, NapiDestroyAuthProvider(p, d)
      PROVE  TypeInv'
  <2>1. DelOK'
    BY <1>23, Names, DelSteps DEF DelMoves
  <2> QED
    BY <1>23, <2>1, Names DEF NapiDestroyAuthProvider, ReleaseTsfn, DelOK
<1>24. ASSUME NEW r \in Recoveries, HandleDeath(r[1], r[2]) PROVE TypeInv'
  <2>1. RecOK'
    BY <1>24, RecSteps DEF RecMoves
  <2> QED
    BY <1>24, <2>1, Names DEF HandleDeath, RecOK
<1>25. ASSUME NEW r \in Recoveries, Attempt(r) PROVE TypeInv'
  <2>1. RecOK' /\ watching' \subseteq Handles
    BY <1>25, RecoverySteps, Names DEF Attempts, RecMoves
  <2> QED
    BY <1>25, <2>1 DEF Attempt, RecOK
<1>26. ASSUME NEW r \in Recoveries, CreateAgain(r) PROVE TypeInv'
  <2>1. RecOK' /\ sessions' \subseteq Handles
    BY <1>26, RecoverySteps, Names DEF Creates, RecMoves
  <2> QED
    BY <1>26, <2>1 DEF CreateAgain, RecOK
<1>27. ASSUME NEW r \in Recoveries, SwitchSessionRemote(r) PROVE TypeInv'
  <2>1. Switches(r) /\ rec[r].life \in Nat
    BY <1>27, RecoverySteps DEF RecSet
  <2>2. RecOK' /\ sessions' \subseteq Handles /\ eventIds' \in [Handles -> SUBSET Events]
    BY <2>1, Names, Dropped DEF Switches, RecMoves
  <2>3. remote' \in [Handles -> Nat]
    BY <2>1, Names DEF Switches
  <2> QED
    BY <1>27, <2>2, <2>3 DEF SwitchSessionRemote, RecOK
<1>28. ASSUME NEW r \in Recoveries, RecoverSession(r) PROVE TypeInv'
  <2>1. Switches(r) /\ rec[r].life \in Nat
    BY <1>28, RecoverySteps DEF RecSet
  <2>2. RecOK' /\ sessions' \subseteq Handles /\ eventIds' \in [Handles -> SUBSET Events]
    BY <2>1, Names, Dropped DEF Switches, RecMoves
  <2>3. remote' \in [Handles -> Nat]
    BY <2>1, Names DEF Switches
  <2> QED
    BY <1>28, <2>2, <2>3 DEF RecoverSession, RecOK
<1>29. ASSUME NEW r \in Recoveries, Recovered(r) PROVE TypeInv'
  <2>1. RecOK'
    BY <1>29, RecSteps DEF Recovered, RecMoves
  <2> QED
    BY <1>29, <2>1 DEF Recovered, RecOK
<1>30. ASSUME NEW r \in Recoveries, NEW e \in Events, Resubscribe(r, e)
      PROVE  TypeInv'
  <2>1. RecOK'
    BY <1>30, RecSteps DEF RecMoves
  <2>2. eventIds' \in [Handles -> SUBSET Events]
    BY <1>30, Names DEF Resubscribe
  <2> QED
    BY <1>30, <2>1, <2>2 DEF Resubscribe, RecOK
<1>31. ASSUME UNCHANGED vars PROVE TypeInv'
  BY <1>31, Names DEF vars
<1> QED
  BY <1>1, <1>2, <1>3, <1>4, <1>5, <1>6, <1>7, <1>8, <1>9, <1>10, <1>11, <1>12, <1>13,
     <1>14, <1>15, <1>16, <1>17, <1>18, <1>19, <1>20, <1>21, <1>22, <1>23, <1>24, <1>25,
     <1>26, <1>27, <1>28, <1>29, <1>30, <1>31 DEF Next, Subscribe, Unsubscribe

-------------------------------------------------------------------------------
(* What a step changes of a handle                                         *)

(* Nothing.                                                                *)
Same(k) ==
    /\ UNCHANGED <<life, up>>
    /\ k \in sessions' <=> k \in sessions
    /\ eventIds'[k] = eventIds[k] /\ state'[k] = state[k] /\ remote'[k] = remote[k]
    /\ recorded'[k] = recorded[k] /\ push'[k] = push[k]
    /\ k \in deleted' <=> k \in deleted
    /\ k \in slot' <=> k \in slot
    /\ k \in watching' <=> k \in watching
    /\ k \in tsfn' <=> k \in tsfn
    /\ k \in notice' <=> k \in notice
    /\ k \in unseen' <=> k \in unseen
    /\ k \in gaveUp' <=> k \in gaveUp
    /\ k \in raced' <=> k \in raced
    /\ call'[k] = call[k] /\ del'[k] = del[k]
    /\ \A l \in Lives : R(k, l)' = R(k, l) /\ (<<k, l>> \in obits' <=> <<k, l>> \in obits)

(* Or it is a step of the service, or of this handle.                      *)
OfCalls(k) ==
    \/ k \in Clients /\ (CreatClient(k) \/ Answered(k) \/ Record(k))
    \/ k \in Clients /\ \E op \in {"sub", "unsub"}, e \in Events : Use(k, op, e)
    \/ k \in Providers /\ (NapiCreateAuthProvider(k) \/ OnClientStatusChangedTsfnCall(k))
    \/ OnAuthEvent(k) \/ RunCallback(k) \/ CallbackReturns(k) \/ SetDeathRecipient(k)
OfDeletion(k) ==
    \E d \in Deleters :
        \/ ClearCallBack(k, d)
        \/ k \in Clients /\ (Release(k, d) \/ MarkDeleted(k, d) \/ DestroyRemoteObjects(k, d))
        \/ k \in Providers /\ (\/ DeleteProvider(k, d) \/ ReadSession(k, d)
                               \/ DestroyProviderObjects(k, d) \/ NapiDestroyAuthProvider(k, d))
OfRecovery(k) ==
    \E r \in Recoveries :
        /\ r[1] = k
        /\ \/ HandleDeath(r[1], r[2]) \/ Attempt(r) \/ CreateAgain(r)
           \/ SwitchSessionRemote(r) \/ RecoverSession(r) \/ Recovered(r)
           \/ \E e \in Events : Resubscribe(r, e)
Own(k) == ServiceDies \/ ServiceStarts \/ OfCalls(k) \/ OfDeletion(k) \/ OfRecovery(k)

LEMMA Apart ==
    ASSUME TypeInv, NEW k \in Handles, [Next]_vars
    PROVE  Same(k) \/ Own(k)
<1> USE DEF TypeInv, ServiceOK, FieldsOK, ThreadsOK
<1>1. ASSUME ServiceDies PROVE Same(k) \/ Own(k)
  BY <1>1 DEF Own
<1>2. ASSUME ServiceStarts PROVE Same(k) \/ Own(k)
  BY <1>2 DEF Own
<1>3. ASSUME NEW h \in Handles, SetDeathRecipient(h) PROVE Same(k) \/ Own(k)
  <2>1. CASE k = h
    BY <1>3, Names, <2>1 DEF Own, OfCalls
  <2>2. CASE k # h
    BY <1>3, Names, <2>2 DEF SetDeathRecipient, Reached, Same, R
  <2> QED
    BY <2>1, <2>2
<1>4. ASSUME NEW c \in Clients, CreatClient(c) PROVE Same(k) \/ Own(k)
  <2>1. CASE k = c
    BY <1>4, Names, <2>1 DEF Own, OfCalls
  <2>2. CASE k # c
    BY <1>4, Names, <2>2 DEF CreatClient, MakeSession, Same, R
  <2> QED
    BY <2>1, <2>2
<1>5. ASSUME NEW c \in Clients, Answered(c) PROVE Same(k) \/ Own(k)
  <2>1. \/ CallMoves(c, "idle") /\ call'[c].life = 0 /\ UNCHANGED eventIds
        \/ /\ CallMoves(c, "answered") /\ call'[c].life = call[c].life
           /\ call'[c].op = call[c].op /\ call'[c].event = call[c].event
           /\ Reached(call[c].life) /\ c \in sessions
           /\ eventIds' = [eventIds EXCEPT ![c] = Changed(eventIds[c], c)]
    BY <1>5, CallSteps
  <2>2. CASE k = c
    BY <1>5, Names, <2>2 DEF Own, OfCalls
  <2>3. CASE k # c
    BY <1>5, <2>1, Names, <2>3 DEF Answered, CallMoves, Reached, Same, R
  <2> QED
    BY <2>2, <2>3
<1>6. ASSUME NEW c \in Clients, Record(c) PROVE Same(k) \/ Own(k)
  <2>1. CallMoves(c, "idle") /\ call'[c].life = 0
    BY <1>6, CallSteps
  <2>2. CASE k = c
    BY <1>6, Names, <2>2 DEF Own, OfCalls
  <2>3. CASE k # c
    BY <1>6, <2>1, Names, <2>3 DEF Record, CallMoves, Changed, Same, R
  <2> QED
    BY <2>2, <2>3
<1>7. ASSUME NEW p \in Providers, NapiCreateAuthProvider(p)
      PROVE  Same(k) \/ Own(k)
  <2>1. CASE k = p
    BY <1>7, Names, <2>1 DEF Own, OfCalls
  <2>2. CASE k # p
    BY <1>7, Names, <2>2 DEF NapiCreateAuthProvider, MakeSession, CreateProvider, Same, R
  <2> QED
    BY <2>1, <2>2
<1>8. ASSUME NEW p \in Providers, OnClientStatusChangedTsfnCall(p)
      PROVE  Same(k) \/ Own(k)
  <2>1. CASE k = p
    BY <1>8, Names, <2>1 DEF Own, OfCalls
  <2>2. CASE k # p
    BY <1>8, Names, <2>2 DEF OnClientStatusChangedTsfnCall, Same, R
  <2> QED
    BY <2>1, <2>2
<1>9. ASSUME NEW p \in Providers, NapiRequestAuthResult(p)
      PROVE  Same(k) \/ Own(k)
  BY <1>9 DEF NapiRequestAuthResult, Same, R
<1>10. ASSUME NEW p \in Providers, OnAuthResult(p) PROVE Same(k) \/ Own(k)
  BY <1>10 DEF OnAuthResult, Same, R
<1>11. ASSUME NEW p \in Providers, OnAuthResultTsfnJsCall(p)
      PROVE  Same(k) \/ Own(k)
  BY <1>11 DEF OnAuthResultTsfnJsCall, Same, R
<1>12. ASSUME NEW c \in Clients, NEW e \in Events, NEW op \in {"sub", "unsub"}, Use(c, op, e)
      PROVE  Same(k) \/ Own(k)
  <2>1. CallMoves(c, "sent") /\ call'[c].life = remote[c]
    BY <1>12, CallSteps
  <2>2. CASE k = c
    BY <1>12, Names, <2>2 DEF Own, OfCalls
  <2>3. CASE k # c
    BY <1>12, <2>1, Names, <2>3 DEF Use, CallMoves, Same, R
  <2> QED
    BY <2>2, <2>3
<1>13. ASSUME NEW h \in Handles, OnAuthEvent(h) PROVE Same(k) \/ Own(k)
  <2>1. CASE k = h
    BY <1>13, Names, <2>1 DEF Own, OfCalls
  <2>2. CASE k # h
    BY <1>13, Names, <2>2 DEF OnAuthEvent, Same, R
  <2> QED
    BY <2>1, <2>2
<1>14. ASSUME NEW h \in Handles, RunCallback(h) PROVE Same(k) \/ Own(k)
  <2>1. CASE k = h
    BY <1>14, Names, <2>1 DEF Own, OfCalls
  <2>2. CASE k # h
    BY <1>14, Names, <2>2 DEF RunCallback, Same, R
  <2> QED
    BY <2>1, <2>2
<1>15. ASSUME NEW h \in Handles, CallbackReturns(h) PROVE Same(k) \/ Own(k)
  <2>1. CASE k = h
    BY <1>15, Names, <2>1 DEF Own, OfCalls
  <2>2. CASE k # h
    BY <1>15, Names, <2>2 DEF CallbackReturns, OnClientStatusChangedCallback, Same, R
  <2> QED
    BY <2>1, <2>2
<1>16. ASSUME NEW h \in Handles, NEW d \in Deleters, ClearCallBack(h, d)
      PROVE  Same(k) \/ Own(k)
  <2>1. DelMoves(h, d, IF h \in Clients THEN "mark" ELSE "destroy", del[h][d].life)
    BY <1>16, Names, DelSteps
  <2>2. CASE k = h
    BY <1>16, Names, <2>2 DEF Own, OfDeletion
  <2>3. CASE k # h
    BY <1>16, <2>1, Names, <2>3 DEF DelMoves, ClearCallBack, Stage, Same, R
  <2> QED
    BY <2>2, <2>3
<1>17. ASSUME NEW c \in Clients, NEW d \in Deleters, Release(c, d)
      PROVE  Same(k) \/ Own(k)
  <2>1. DelMoves(c, d, "clear", del[c][d].life)
    BY <1>17, Names, DelSteps
  <2>2. CASE k = c
    BY <1>17, Names, <2>2 DEF Own, OfDeletion
  <2>3. CASE k # c
    BY <1>17, <2>1, Names, <2>3 DEF DelMoves, Release, Stage, Same, R
  <2> QED
    BY <2>2, <2>3
<1>18. ASSUME NEW c \in Clients, NEW d \in Deleters, MarkDeleted(c, d)
      PROVE  Same(k) \/ Own(k)
  <2>1. DelMoves(c, d, "destroy", remote[c])
    BY <1>18, Names, DelSteps
  <2>2. CASE k = c
    BY <1>18, Names, <2>2 DEF Own, OfDeletion
  <2>3. CASE k # c
    BY <1>18, <2>1, Names, <2>3 DEF DelMoves, MarkDeleted, Stage, Same, R
  <2> QED
    BY <2>2, <2>3
<1>19. ASSUME NEW c \in Clients, NEW d \in Deleters, DestroyRemoteObjects(c, d)
      PROVE  Same(k) \/ Own(k)
  <2>1. DestroySession(c, d) /\ c \in Handles
    BY <1>19, Names DEF DestroyRemoteObjects
  <2>2. DelMoves(c, d, "done", del[c][d].life)
    BY <2>1, DelSteps
  <2>3. /\ sessions' = IF Reached(del[c][d].life) THEN sessions \ {c} ELSE sessions
        /\ \A g \in Handles \ {c} : eventIds'[g] = eventIds[g]
        /\ ~Reached(del[c][d].life) => UNCHANGED eventIds
    BY <2>1, Dropped DEF DestroySession
  <2>4. CASE k = c
    BY <1>19, Names, <2>4 DEF Own, OfDeletion
  <2>5. CASE k # c
    BY <1>19, <2>1, <2>2, <2>3, Names, <2>5 DEF DestroyRemoteObjects, DelMoves, Stage,
       DestroySession, Reached, Same, R
  <2> QED
    BY <2>4, <2>5
<1>20. ASSUME NEW p \in Providers, NEW d \in Deleters, DeleteProvider(p, d)
      PROVE  Same(k) \/ Own(k)
  <2>1. DelMoves(p, d, IF p \in deleted THEN "returned" ELSE "read", del[p][d].life)
    BY <1>20, Names, DelSteps
  <2>2. CASE k = p
    BY <1>20, Names, <2>2 DEF Own, OfDeletion
  <2>3. CASE k # p
    BY <1>20, <2>1, Names, <2>3 DEF DelMoves, DeleteProvider, Stage, Same, R
  <2> QED
    BY <2>2, <2>3
<1>21. ASSUME NEW p \in Providers, NEW d \in Deleters, ReadSession(p, d)
      PROVE  Same(k) \/ Own(k)
  <2>1. DelMoves(p, d, "clear", remote[p])
    BY <1>21, Names, DelSteps
  <2>2. CASE k = p
    BY <1>21, Names, <2>2 DEF Own, OfDeletion
  <2>3. CASE k # p
    BY <1>21, <2>1, Names, <2>3 DEF DelMoves, ReadSession, Stage, Same, R
  <2> QED
    BY <2>2, <2>3
<1>22. ASSUME NEW p \in Providers, NEW d \in Deleters, DestroyProviderObjects(p, d)
      PROVE  Same(k) \/ Own(k)
  <2>1. DestroySession(p, d) /\ p \in Handles
    BY <1>22, Names DEF DestroyProviderObjects
  <2>2. DelMoves(p, d, "done", del[p][d].life)
    BY <2>1, DelSteps
  <2>3. /\ sessions' = IF Reached(del[p][d].life) THEN sessions \ {p} ELSE sessions
        /\ \A g \in Handles \ {p} : eventIds'[g] = eventIds[g]
        /\ ~Reached(del[p][d].life) => UNCHANGED eventIds
    BY <2>1, Dropped DEF DestroySession
  <2>4. CASE k = p
    BY <1>22, Names, <2>4 DEF Own, OfDeletion
  <2>5. CASE k # p
    BY <1>22, <2>1, <2>2, <2>3, Names, <2>5 DEF DestroyProviderObjects, DelMoves, Stage,
       DestroySession, Reached, Same, R
  <2> QED
    BY <2>4, <2>5
<1>23. ASSUME NEW p \in Providers, NEW d \in Deleters, NapiDestroyAuthProvider(p, d)
      PROVE  Same(k) \/ Own(k)
  <2>1. DelMoves(p, d, "freed", del[p][d].life)
    BY <1>23, Names, DelSteps
  <2>2. CASE k = p
    BY <1>23, Names, <2>2 DEF Own, OfDeletion
  <2>3. CASE k # p
    BY <1>23, <2>1, Names, <2>3 DEF DelMoves, NapiDestroyAuthProvider, Stage, ReleaseTsfn,
       Same, R
  <2> QED
    BY <2>2, <2>3
<1>24. ASSUME NEW r \in Recoveries, HandleDeath(r[1], r[2])
      PROVE  Same(k) \/ Own(k)
  <2>1. RecMoves(r, "wait", recorded[r[1]], 0)
    BY <1>24, RecSteps
  <2>2. /\ \A g \in Handles \ {r[1]}, l \in Lives : rec'[<<g, l>>] = rec[<<g, l>>]
        /\ \A l \in Lives \ {r[2]} : rec'[<<r[1], l>>] = rec[<<r[1], l>>]
        /\ r[1] \in Handles /\ r[2] \in Lives /\ r = <<r[1], r[2]>>
    BY <1>24, <2>1, RecFrame DEF RecMoves
  <2>3. CASE k = r[1]
    BY <1>24, Names, <2>3 DEF Own, OfRecovery
  <2>4. CASE k # r[1]
    BY <1>24, <2>1, <2>2, Names, <2>4 DEF HandleDeath, RecMoves, Same, R
  <2> QED
    BY <2>3, <2>4
<1>25. ASSUME NEW r \in Recoveries, Attempt(r) PROVE Same(k) \/ Own(k)
  <2>1. Attempts(r)
    BY <1>25, RecoverySteps
  <2>2. /\ \A g \in Handles \ {r[1]}, l \in Lives : rec'[<<g, l>>] = rec[<<g, l>>]
        /\ \A l \in Lives \ {r[2]} : rec'[<<r[1], l>>] = rec[<<r[1], l>>]
        /\ r[1] \in Handles /\ r[2] \in Lives /\ r = <<r[1], r[2]>>
    BY <1>25, <2>1, RecFrame DEF Attempts, RecMoves
  <2>3. CASE k = r[1]
    BY <1>25, Names, <2>3 DEF Own, OfRecovery
  <2>4. CASE k # r[1]
    BY <1>25, <2>1, <2>2, Names, <2>4 DEF Attempt, Attempts, RecMoves, Same, R
  <2> QED
    BY <2>3, <2>4
<1>26. ASSUME NEW r \in Recoveries, CreateAgain(r) PROVE Same(k) \/ Own(k)
  <2>1. Creates(r)
    BY <1>26, RecoverySteps
  <2>2. /\ \A g \in Handles \ {r[1]}, l \in Lives : rec'[<<g, l>>] = rec[<<g, l>>]
        /\ \A l \in Lives \ {r[2]} : rec'[<<r[1], l>>] = rec[<<r[1], l>>]
        /\ r[1] \in Handles /\ r[2] \in Lives /\ r = <<r[1], r[2]>>
    BY <1>26, <2>1, RecFrame DEF Creates, RecMoves
  <2>3. CASE k = r[1]
    BY <1>26, Names, <2>3 DEF Own, OfRecovery
  <2>4. CASE k # r[1]
    BY <1>26, <2>1, <2>2, Names, <2>4 DEF CreateAgain, Creates, RecMoves, Reached, Same, R
  <2> QED
    BY <2>3, <2>4
<1>27. ASSUME NEW r \in Recoveries, SwitchSessionRemote(r)
      PROVE  Same(k) \/ Own(k)
  <2>1. Switches(r) /\ r[1] \in Handles
    BY <1>27, RecoverySteps, Names
  <2>2. \A g \in Handles \ {r[1]} : eventIds'[g] = eventIds[g]
    BY <2>1, Dropped DEF Switches
  <2>3. /\ \A g \in Handles \ {r[1]}, l \in Lives : rec'[<<g, l>>] = rec[<<g, l>>]
        /\ \A l \in Lives \ {r[2]} : rec'[<<r[1], l>>] = rec[<<r[1], l>>]
        /\ r[1] \in Handles /\ r[2] \in Lives /\ r = <<r[1], r[2]>>
    BY <1>27, <2>1, RecFrame DEF Switches, RecMoves
  <2>4. CASE k = r[1]
    BY <1>27, Names, <2>4 DEF Own, OfRecovery
  <2>5. CASE k # r[1]
    BY <1>27, <2>1, <2>2, <2>3, Names, <2>5 DEF SwitchSessionRemote, Switches, DropSession,
       RecMoves, Reached, Same, R
  <2> QED
    BY <2>4, <2>5
<1>28. ASSUME NEW r \in Recoveries, RecoverSession(r)
      PROVE  Same(k) \/ Own(k)
  <2>1. Switches(r) /\ r[1] \in Handles
    BY <1>28, RecoverySteps, Names
  <2>2. \A g \in Handles \ {r[1]} : eventIds'[g] = eventIds[g]
    BY <2>1, Dropped DEF Switches
  <2>3. /\ \A g \in Handles \ {r[1]}, l \in Lives : rec'[<<g, l>>] = rec[<<g, l>>]
        /\ \A l \in Lives \ {r[2]} : rec'[<<r[1], l>>] = rec[<<r[1], l>>]
        /\ r[1] \in Handles /\ r[2] \in Lives /\ r = <<r[1], r[2]>>
    BY <1>28, <2>1, RecFrame DEF Switches, RecMoves
  <2>4. CASE k = r[1]
    BY <1>28, Names, <2>4 DEF Own, OfRecovery
  <2>5. CASE k # r[1]
    BY <1>28, <2>1, <2>2, <2>3, Names, <2>5 DEF RecoverSession, Switches, DropSession,
       RecMoves, Reached, Same, R
  <2> QED
    BY <2>4, <2>5
<1>29. ASSUME NEW r \in Recoveries, Recovered(r) PROVE Same(k) \/ Own(k)
  <2>1. RecMoves(r, "idle", {}, 0)
    BY <1>29, RecSteps DEF Recovered
  <2>2. /\ \A g \in Handles \ {r[1]}, l \in Lives : rec'[<<g, l>>] = rec[<<g, l>>]
        /\ \A l \in Lives \ {r[2]} : rec'[<<r[1], l>>] = rec[<<r[1], l>>]
        /\ r[1] \in Handles /\ r[2] \in Lives /\ r = <<r[1], r[2]>>
    BY <1>29, <2>1, RecFrame DEF RecMoves
  <2>3. CASE k = r[1]
    BY <1>29, Names, <2>3 DEF Own, OfRecovery
  <2>4. CASE k # r[1]
    BY <1>29, <2>1, <2>2, Names, <2>4 DEF Recovered, RecMoves, Same, R
  <2> QED
    BY <2>3, <2>4
<1>30. ASSUME NEW r \in Recoveries, NEW e \in Events, Resubscribe(r, e)
      PROVE  Same(k) \/ Own(k)
  <2>1. RecMoves(r, "again", rec[r].events \ {e}, rec[r].life)
    BY <1>30, RecSteps
  <2>2. /\ \A g \in Handles \ {r[1]}, l \in Lives : rec'[<<g, l>>] = rec[<<g, l>>]
        /\ \A l \in Lives \ {r[2]} : rec'[<<r[1], l>>] = rec[<<r[1], l>>]
        /\ r[1] \in Handles /\ r[2] \in Lives /\ r = <<r[1], r[2]>>
    BY <1>30, <2>1, RecFrame DEF RecMoves
  <2>3. CASE k = r[1]
    BY <1>30, Names, <2>3 DEF Own, OfRecovery
  <2>4. CASE k # r[1]
    BY <1>30, <2>1, <2>2, Names, <2>4 DEF Resubscribe, RecMoves, Reached, Same, R
  <2> QED
    BY <2>3, <2>4
<1>31. ASSUME UNCHANGED vars PROVE Same(k) \/ Own(k)
  BY <1>31 DEF vars, Same, R
<1> QED
  BY <1>1, <1>2, <1>3, <1>4, <1>5, <1>6, <1>7, <1>8, <1>9, <1>10, <1>11, <1>12, <1>13,
     <1>14, <1>15, <1>16, <1>17, <1>18, <1>19, <1>20, <1>21, <1>22, <1>23, <1>24, <1>25,
     <1>26, <1>27, <1>28, <1>29, <1>30, <1>31 DEF Next, Subscribe, Unsubscribe

LEMMA SameInv ==
    ASSUME TypeInv, NEW k \in Handles, Same(k), HandleInv(k)
    PROVE  HandleInv(k)'
<1> USE DEF Same, R
<1>1. PastInv(k)'
  BY DEF HandleInv, PastInv, Lives
<1>2. StageInv(k)'
  BY DEF HandleInv, StageInv, Unborn, DeletionOK, Lives
<1>3. QuietInv(k)'
  BY DEF HandleInv, QuietInv, Quiet
<1>4. KnownInv(k)'
  BY DEF HandleInv, KnownInv, Switching, Destroying, Lives
<1>5. FirstInv(k)'
  BY DEF HandleInv, FirstInv, Lives
<1>6. HasSession(k)'
  BY DEF HandleInv, HasSession, Switching, Lives
<1>7. ServedInv(k)'
  <2>1. SUFFICES ASSUME Orderly(k) PROVE RecInv(k)' /\ (Attached(k)' \/ Told(k)' \/ Restoring(k)')
    BY DEF ServedInv, Orderly
  <2>2. RecInv(k)'
    <3>1. RecInv(k) /\ (Orderly(k)' <=> Orderly(k))
      BY <2>1 DEF HandleInv, ServedInv, Orderly
    <3>2. \A l \in Lives : R(k, l)'.at \in Mid => Reached(R(k, l).life)' \/ <<k, R(k, l)'.life>> \in obits'
      <4> SUFFICES ASSUME NEW l \in Lives, R(k, l)'.at \in Mid
                   PROVE  Reached(R(k, l).life)' \/ <<k, R(k, l)'.life>> \in obits'
        OBVIOUS
      <4>1. R(k, l)' = R(k, l)
        OBVIOUS
      <4>2. Reached(R(k, l).life) \/ <<k, R(k, l).life>> \in obits
        BY <3>1, <4>1 DEF RecInv
      <4>3. R(k, l).life \in Lives \/ Reached(R(k, l).life)
        BY <4>2 DEF Reached, TypeInv, ServiceOK, ThreadsOK, Recoveries, Lives
      <4> QED
        BY <4>1, <4>2, <4>3 DEF Reached
    <3>3. \A l \in Lives : (Switching(k, l)' <=> Switching(k, l))
      BY DEF Switching
    <3>4. (call[k].at = "sent" /\ Reached(call[k].life) => remote[k] = life)'
      BY <3>1 DEF RecInv, Reached
    <3>5. (\A l \in Lives : Switching(k, l) /\ up =>
             remote[k] # life /\ \A m \in Lives \ {l} : ~Switching(k, m))'
      BY <3>1, <3>3 DEF RecInv
    <3> QED
      BY <3>2, <3>4, <3>5 DEF RecInv
  <2>3. Attached(k) => Attached(k)'
    <3>1. Coming(k)' = Coming(k)
      BY DEF Coming, Lives
    <3>2. Due(k)' = Due(k)
      BY DEF Due, Changed
    <3> QED
      BY <3>1, <3>2 DEF Attached
  <2>4. Told(k) => Told(k)'
    BY DEF Told, Lives
  <2>5. Restoring(k) => Restoring(k)'
    BY DEF Restoring, Reached, Begun, Lives
  <2> QED
    BY <2>1, <2>2, <2>3, <2>4, <2>5 DEF HandleInv, ServedInv
<1> QED
  BY <1>1, <1>2, <1>3, <1>4, <1>5, <1>6, <1>7 DEF HandleInv

(* What the steps of recovery k, l do.                                     *)
Goes(k, l, at, S, li) ==
    /\ R(k, l)'.at = at /\ R(k, l)'.events = S /\ R(k, l)'.life = li
    /\ \A m \in Lives \ {l} : R(k, m)' = R(k, m)
Stays(k) ==
    /\ UNCHANGED <<life, up, call, del, deleted, tsfn, notice, push, slot>>
    /\ state'[k] = state[k] /\ recorded'[k] = recorded[k] /\ (k \in unseen' <=> k \in unseen)
DiesHandled(k, l) ==
    /\ <<k, l>> \in obits /\ \A m \in Lives : <<k, m>> \in obits' <=> <<k, m>> \in obits /\ m # l
    /\ Goes(k, l, "wait", recorded[k], 0)
    /\ remote'[k] = IF k \in Clients THEN 0 ELSE remote[k]
    /\ raced' = IF InMidStep(k, l) THEN raced \cup {k} ELSE raced
    /\ UNCHANGED <<sessions, eventIds, watching, gaveUp>>
Attempted(k, l) ==
    /\ R(k, l).at = "wait" /\ UNCHANGED <<sessions, eventIds, remote, obits, raced>>
    /\ \/ k \in deleted /\ Goes(k, l, "idle", {}, 0) /\ UNCHANGED <<watching, gaveUp>>
       \/ /\ k \notin deleted /\ Goes(k, l, "idle", {}, 0) /\ UNCHANGED watching
          /\ gaveUp' = IF k \in sessions THEN gaveUp ELSE gaveUp \cup {k}
       \/ ~up /\ Goes(k, l, "wait", R(k, l).events, R(k, l).life) /\ UNCHANGED <<watching, gaveUp>>
       \/ /\ up /\ Goes(k, l, "create", R(k, l).events, life) /\ k \notin deleted /\ UNCHANGED gaveUp
          /\ watching' = IF k \in Clients THEN watching \cup {k} ELSE watching
Created(k, l) ==
    /\ R(k, l).at = "create" /\ UNCHANGED <<eventIds, remote, obits, raced, watching, gaveUp>>
    /\ \/ /\ Reached(R(k, l).life) /\ k \notin sessions /\ sessions' = sessions \cup {k}
          /\ Goes(k, l, "switch", R(k, l).events, R(k, l).life)
       \/ /\ ~(Reached(R(k, l).life) /\ k \notin sessions) /\ UNCHANGED sessions
          /\ Goes(k, l, "wait", R(k, l).events, R(k, l).life)
Took(k, l) ==
    /\ R(k, l).at = "switch" /\ UNCHANGED <<obits, watching, gaveUp>>
    /\ \/ /\ k \notin deleted /\ Goes(k, l, "again", R(k, l).events, R(k, l).life)
          /\ remote'[k] = R(k, l).life /\ UNCHANGED <<sessions, eventIds>>
          /\ raced' = IF remote[k] > R(k, l).life THEN raced \cup {k} ELSE raced
       \/ /\ k \in deleted \cap Clients /\ Goes(k, l, "idle", {}, 0) /\ UNCHANGED <<remote, raced>>
          /\ sessions' = IF Reached(R(k, l).life) THEN sessions \ {k} ELSE sessions
       \/ /\ k \in deleted \cap Providers /\ Goes(k, l, "wait", R(k, l).events, R(k, l).life)
          /\ UNCHANGED <<sessions, eventIds, remote, raced>>
Ended(k, l) ==
    /\ R(k, l).at = "again" /\ UNCHANGED <<sessions, remote, obits, raced, watching, gaveUp>>
    /\ \/ R(k, l).events = {} /\ Goes(k, l, "idle", {}, 0) /\ UNCHANGED eventIds
       \/ \E e \in R(k, l).events :
            /\ Goes(k, l, "again", R(k, l).events \ {e}, R(k, l).life)
            /\ eventIds'[k] = IF Reached(R(k, l).life) /\ k \in sessions THEN eventIds[k] \cup {e} ELSE eventIds[k]
RecoveryStep(k, l) ==
    Stays(k) /\ (DiesHandled(k, l) \/ Attempted(k, l) \/ Created(k, l) \/ Took(k, l) \/ Ended(k, l))

LEMMA RecoveryMoves ==
    ASSUME TypeInv, NEW k \in Handles, OfRecovery(k)
    PROVE  \E l \in Lives : RecoveryStep(k, l)
<1>1. PICK r \in Recoveries : 
        /\ r[1] = k
        /\ \/ HandleDeath(r[1], r[2]) \/ Attempt(r) \/ CreateAgain(r)
           \/ SwitchSessionRemote(r) \/ RecoverSession(r) \/ Recovered(r)
           \/ \E e \in Events : Resubscribe(r, e)
  BY DEF OfRecovery
<1>2. PICK l \in Lives : l = r[2] /\ r = <<k, l>>
  BY <1>1, Names
<1>3. \A m \in Lives : <<k, m>> \in Recoveries /\ (m # l => <<k, m>> # r)
  BY <1>2, Names
<1>4. ASSUME NEW at, NEW S, NEW li, RecMoves(r, at, S, li) PROVE Goes(k, l, at, S, li)
  BY <1>2, <1>3, <1>4 DEF RecMoves, Goes, R
<1>5. rec[r] = R(k, l)
  BY <1>2 DEF R
<1> USE DEF TypeInv, FieldsOK
<1>6. HandleDeath(r[1], r[2]) => Stays(k) /\ DiesHandled(k, l)
  <2> SUFFICES ASSUME HandleDeath(r[1], r[2]) PROVE Stays(k) /\ DiesHandled(k, l)
    OBVIOUS
  <2>1. Goes(k, l, "wait", recorded[k], 0)
    BY <1>1, <1>4, RecSteps
  <2> QED
    BY <2>1, <1>1, <1>2, Names DEF HandleDeath, DiesHandled, Stays
<1>7. Attempt(r) => Stays(k) /\ Attempted(k, l)
  BY <1>1, <1>4, <1>5, RecoverySteps DEF Attempt, Attempts, Attempted, Stays
<1>8. CreateAgain(r) => Stays(k) /\ Created(k, l)
  BY <1>1, <1>4, <1>5, RecoverySteps DEF CreateAgain, Creates, Created, Stays
<1>9. SwitchSessionRemote(r) \/ RecoverSession(r) => Stays(k) /\ Took(k, l)
  <2>1. SwitchSessionRemote(r) \/ RecoverSession(r) => Switches(r)
    BY RecoverySteps
  <2> QED
    BY <2>1, <1>1, <1>4, <1>5 DEF SwitchSessionRemote, RecoverSession, Switches,
       DropSession, Took, Stays
<1>10. Recovered(r) => Stays(k) /\ Ended(k, l)
  BY <1>1, <1>4, <1>5, RecSteps DEF Recovered, Ended, Stays
<1>11. ASSUME NEW e \in Events, Resubscribe(r, e) PROVE Stays(k) /\ Ended(k, l)
  <2>1. Goes(k, l, "again", rec[r].events \ {e}, rec[r].life)
    BY <1>4, <1>11, RecSteps
  <2>2. eventIds'[k] = IF Reached(rec[r].life) /\ k \in sessions THEN eventIds[k] \cup {e} ELSE eventIds[k]
    BY <1>1, <1>11 DEF Resubscribe, ServiceOK
  <2> QED
    BY <2>1, <2>2, <1>1, <1>5, <1>11 DEF Resubscribe, Ended, Stays
<1> QED
  BY <1>1, <1>2, <1>6, <1>7, <1>8, <1>9, <1>10, <1>11 DEF RecoveryStep

-------------------------------------------------------------------------------
(* What a step of its own does to the invariant of a handle                *)

(* Nothing of a later life.                                                *)
LEMMA PastHolds ==
    ASSUME TypeInv, NEW k \in Handles, PastInv(k), Own(k)
    PROVE  PastInv(k)'
<1> USE DEF TypeInv, ServiceOK, FieldsOK, ThreadsOK
<1>1. ASSUME ServiceDies PROVE PastInv(k)'
  BY <1>1, Names, Numbers DEF ServiceDies, PastInv, R, Lives
<1>2. ASSUME ServiceStarts PROVE PastInv(k)'
  <2>1. life' = life + 1 /\ remote[k] <= life /\ call[k].life <= life
    BY <1>2, Names, Numbers DEF ServiceStarts, PastInv, R, Lives
  <2>2. \A l \in Lives : R(k, l)'.life <= life
    BY <1>2, Names, Numbers DEF ServiceStarts, PastInv, R, Lives
  <2>3. \A l \in Lives : <<k, l>> \in obits' => l <= life
    BY <1>2, Names, Numbers DEF ServiceStarts, PastInv, R, Lives
  <2> QED
    BY <2>1, <2>2, <2>3, <1>2, Names, Numbers DEF ServiceStarts, PastInv, R, Lives
<1>3. ASSUME SetDeathRecipient(k) PROVE PastInv(k)'
  BY <1>3, Names, Numbers DEF SetDeathRecipient, Reached, PastInv, R, Lives
<1>4. ASSUME k \in Clients, CreatClient(k) PROVE PastInv(k)'
  BY <1>4, Names, Numbers DEF CreatClient, MakeSession, PastInv, R, Lives
<1>5. ASSUME k \in Clients, Answered(k) PROVE PastInv(k)'
  <2>1. \/ CallMoves(k, "idle") /\ call'[k].life = 0 /\ UNCHANGED eventIds
        \/ /\ CallMoves(k, "answered") /\ call'[k].life = call[k].life
           /\ call'[k].op = call[k].op /\ call'[k].event = call[k].event
           /\ Reached(call[k].life) /\ k \in sessions
           /\ eventIds' = [eventIds EXCEPT ![k] = Changed(eventIds[k], k)]
    BY <1>5, CallSteps
  <2> QED
    BY <1>5, <2>1, Names, Numbers DEF Answered, CallMoves, Reached, PastInv, R, Lives
<1>6. ASSUME k \in Clients, Record(k) PROVE PastInv(k)'
  <2>1. CallMoves(k, "idle") /\ call'[k].life = 0
    BY <1>6, CallSteps
  <2> QED
    BY <1>6, <2>1, Names, Numbers DEF Record, CallMoves, Changed, PastInv, R, Lives
<1>7. ASSUME k \in Providers, NapiCreateAuthProvider(k) PROVE PastInv(k)'
  BY <1>7, Names, Numbers DEF NapiCreateAuthProvider, MakeSession, CreateProvider, PastInv,
     R, Lives
<1>8. ASSUME k \in Providers, OnClientStatusChangedTsfnCall(k) PROVE PastInv(k)'
  BY <1>8, Names, Numbers DEF OnClientStatusChangedTsfnCall, PastInv, R, Lives
<1>9. ASSUME k \in Clients, NEW e \in Events, NEW op \in {"sub", "unsub"}, Use(k, op, e)
      PROVE  PastInv(k)'
  <2>1. CallMoves(k, "sent") /\ call'[k].life = remote[k]
    BY <1>9, CallSteps
  <2> QED
    BY <1>9, <2>1, Names, Numbers DEF Use, CallMoves, PastInv, R, Lives
<1>10. ASSUME OnAuthEvent(k) PROVE PastInv(k)'
  BY <1>10, Names, Numbers DEF OnAuthEvent, PastInv, R, Lives
<1>11. ASSUME RunCallback(k) PROVE PastInv(k)'
  BY <1>11, Names, Numbers DEF RunCallback, PastInv, R, Lives
<1>12. ASSUME CallbackReturns(k) PROVE PastInv(k)'
  BY <1>12, Names, Numbers DEF CallbackReturns, OnClientStatusChangedCallback, PastInv, R,
     Lives
<1>13. ASSUME NEW d \in Deleters, ClearCallBack(k, d) PROVE PastInv(k)'
  <2>1. DelMoves(k, d, IF k \in Clients THEN "mark" ELSE "destroy", del[k][d].life)
    BY <1>13, Names, DelSteps
  <2> QED
    BY <1>13, <2>1, Names, Numbers DEF DelMoves, ClearCallBack, Stage, PastInv, R, Lives
<1>14. ASSUME k \in Clients, NEW d \in Deleters, Release(k, d) PROVE PastInv(k)'
  <2>1. DelMoves(k, d, "clear", del[k][d].life)
    BY <1>14, Names, DelSteps
  <2> QED
    BY <1>14, <2>1, Names, Numbers DEF DelMoves, Release, Stage, PastInv, R, Lives
<1>15. ASSUME k \in Clients, NEW d \in Deleters, MarkDeleted(k, d) PROVE PastInv(k)'
  <2>1. DelMoves(k, d, "destroy", remote[k])
    BY <1>15, Names, DelSteps
  <2> QED
    BY <1>15, <2>1, Names, Numbers DEF DelMoves, MarkDeleted, Stage, PastInv, R, Lives
<1>16. ASSUME k \in Clients, NEW d \in Deleters, DestroyRemoteObjects(k, d)
       PROVE  PastInv(k)'
  <2>1. DestroySession(k, d) /\ k \in Handles /\ del[k][d].at = "destroy"
    BY <1>16, Names DEF DestroyRemoteObjects, DestroySession, Stage
  <2>2. DelMoves(k, d, "done", del[k][d].life)
    BY <2>1, DelSteps
  <2>3. /\ sessions' = IF Reached(del[k][d].life) THEN sessions \ {k} ELSE sessions
        /\ \A g \in Handles \ {k} : eventIds'[g] = eventIds[g]
        /\ ~Reached(del[k][d].life) => UNCHANGED eventIds
    BY <2>1, Dropped DEF DestroySession
  <2> QED
    BY <1>16, <2>1, <2>2, <2>3, Names, Numbers DEF DestroyRemoteObjects, DelMoves, Reached,
       PastInv, R, Lives
<1>17. ASSUME k \in Providers, NEW d \in Deleters, DeleteProvider(k, d) PROVE PastInv(k)'
  <2>1. DelMoves(k, d, IF k \in deleted THEN "returned" ELSE "read", del[k][d].life)
    BY <1>17, Names, DelSteps
  <2> QED
    BY <1>17, <2>1, Names, Numbers DEF DelMoves, DeleteProvider, Stage, PastInv, R, Lives
<1>18. ASSUME k \in Providers, NEW d \in Deleters, ReadSession(k, d) PROVE PastInv(k)'
  <2>1. DelMoves(k, d, "clear", remote[k])
    BY <1>18, Names, DelSteps
  <2> QED
    BY <1>18, <2>1, Names, Numbers DEF DelMoves, ReadSession, Stage, PastInv, R, Lives
<1>19. ASSUME k \in Providers, NEW d \in Deleters, DestroyProviderObjects(k, d)
       PROVE  PastInv(k)'
  <2>1. DestroySession(k, d) /\ k \in Handles /\ del[k][d].at = "destroy"
    BY <1>19, Names DEF DestroyProviderObjects, DestroySession, Stage
  <2>2. DelMoves(k, d, "done", del[k][d].life)
    BY <2>1, DelSteps
  <2>3. /\ sessions' = IF Reached(del[k][d].life) THEN sessions \ {k} ELSE sessions
        /\ \A g \in Handles \ {k} : eventIds'[g] = eventIds[g]
        /\ ~Reached(del[k][d].life) => UNCHANGED eventIds
    BY <2>1, Dropped DEF DestroySession
  <2> QED
    BY <1>19, <2>1, <2>2, <2>3, Names, Numbers DEF DestroyProviderObjects, DelMoves,
       Reached, PastInv, R, Lives
<1>20. ASSUME k \in Providers, NEW d \in Deleters, NapiDestroyAuthProvider(k, d)
       PROVE  PastInv(k)'
  <2>1. DelMoves(k, d, "freed", del[k][d].life)
    BY <1>20, Names, DelSteps
  <2> QED
    BY <1>20, <2>1, Names, Numbers DEF DelMoves, NapiDestroyAuthProvider, Stage,
       ReleaseTsfn, PastInv, R, Lives
<1>21. ASSUME NEW l \in Lives, Stays(k), DiesHandled(k, l) PROVE PastInv(k)'
  <2>1. R(k, l)'.life \in {0, R(k, l).life, life} /\ \A m \in Lives \ {l} : R(k, m)' = R(k, m)
    BY <1>21 DEF DiesHandled, Goes
  <2>2. UNCHANGED <<life, up, call>> /\ remote'[k] \in {0, remote[k], R(k, l).life}
    BY <1>21 DEF DiesHandled, Stays
  <2>3. \A m \in Lives : R(k, m)'.life <= life
    <3>1. life \in Nat /\ \A m \in Lives : R(k, m).life <= life
      BY Numbers DEF PastInv
    <3>2. R(k, l)'.life <= life
      BY <2>1, <3>1 DEF R
    <3> QED
      BY <2>1, <3>1, <3>2 DEF R
  <2>4. remote'[k] <= life
    BY <2>2, Numbers DEF PastInv, R
  <2>5. \A m \in Lives : <<k, m>> \in obits' => <<k, m>> \in obits
    BY <1>21 DEF DiesHandled
  <2>6. ~up => k \notin sessions' /\ k \notin watching'
    BY <1>21 DEF DiesHandled, Reached, PastInv
  <2> QED
    BY <2>2, <2>3, <2>4, <2>5, <2>6 DEF PastInv
<1>22. ASSUME NEW l \in Lives, Stays(k), Attempted(k, l) PROVE PastInv(k)'
  <2>1. R(k, l)'.life \in {0, R(k, l).life, life} /\ \A m \in Lives \ {l} : R(k, m)' = R(k, m)
    BY <1>22 DEF Attempted, Goes
  <2>2. UNCHANGED <<life, up, call>> /\ remote'[k] \in {0, remote[k], R(k, l).life}
    BY <1>22 DEF Attempted, Stays
  <2>3. \A m \in Lives : R(k, m)'.life <= life
    <3>1. life \in Nat /\ \A m \in Lives : R(k, m).life <= life
      BY Numbers DEF PastInv
    <3>2. R(k, l)'.life <= life
      BY <2>1, <3>1 DEF R
    <3> QED
      BY <2>1, <3>1, <3>2 DEF R
  <2>4. remote'[k] <= life
    BY <2>2, Numbers DEF PastInv, R
  <2>5. \A m \in Lives : <<k, m>> \in obits' => <<k, m>> \in obits
    BY <1>22 DEF Attempted
  <2>6. ~up => k \notin sessions' /\ k \notin watching'
    BY <1>22 DEF Attempted, Reached, PastInv
  <2> QED
    BY <2>2, <2>3, <2>4, <2>5, <2>6 DEF PastInv
<1>23. ASSUME NEW l \in Lives, Stays(k), Created(k, l) PROVE PastInv(k)'
  <2>1. R(k, l)'.life \in {0, R(k, l).life, life} /\ \A m \in Lives \ {l} : R(k, m)' = R(k, m)
    BY <1>23 DEF Created, Goes
  <2>2. UNCHANGED <<life, up, call>> /\ remote'[k] \in {0, remote[k], R(k, l).life}
    BY <1>23 DEF Created, Stays
  <2>3. \A m \in Lives : R(k, m)'.life <= life
    <3>1. life \in Nat /\ \A m \in Lives : R(k, m).life <= life
      BY Numbers DEF PastInv
    <3>2. R(k, l)'.life <= life
      BY <2>1, <3>1 DEF R
    <3> QED
      BY <2>1, <3>1, <3>2 DEF R
  <2>4. remote'[k] <= life
    BY <2>2, Numbers DEF PastInv, R
  <2>5. \A m \in Lives : <<k, m>> \in obits' => <<k, m>> \in obits
    BY <1>23 DEF Created
  <2>6. ~up => k \notin sessions' /\ k \notin watching'
    BY <1>23 DEF Created, Reached, PastInv
  <2> QED
    BY <2>2, <2>3, <2>4, <2>5, <2>6 DEF PastInv
<1>24. ASSUME NEW l \in Lives, Stays(k), Took(k, l) PROVE PastInv(k)'
  <2>1. R(k, l)'.life \in {0, R(k, l).life, life} /\ \A m \in Lives \ {l} : R(k, m)' = R(k, m)
    BY <1>24 DEF Took, Goes
  <2>2. UNCHANGED <<life, up, call>> /\ remote'[k] \in {0, remote[k], R(k, l).life}
    BY <1>24 DEF Took, Stays
  <2>3. \A m \in Lives : R(k, m)'.life <= life
    <3>1. life \in Nat /\ \A m \in Lives : R(k, m).life <= life
      BY Numbers DEF PastInv
    <3>2. R(k, l)'.life <= life
      BY <2>1, <3>1 DEF R
    <3> QED
      BY <2>1, <3>1, <3>2 DEF R
  <2>4. remote'[k] <= life
    BY <2>2, Numbers DEF PastInv, R
  <2>5. \A m \in Lives : <<k, m>> \in obits' => <<k, m>> \in obits
    BY <1>24 DEF Took
  <2>6. ~up => k \notin sessions' /\ k \notin watching'
    BY <1>24 DEF Took, Reached, PastInv
  <2> QED
    BY <2>2, <2>3, <2>4, <2>5, <2>6 DEF PastInv
<1>25. ASSUME NEW l \in Lives, Stays(k), Ended(k, l) PROVE PastInv(k)'
  <2>1. R(k, l)'.life \in {0, R(k, l).life, life} /\ \A m \in Lives \ {l} : R(k, m)' = R(k, m)
    BY <1>25 DEF Ended, Goes
  <2>2. UNCHANGED <<life, up, call>> /\ remote'[k] \in {0, remote[k], R(k, l).life}
    BY <1>25 DEF Ended, Stays
  <2>3. \A m \in Lives : R(k, m)'.life <= life
    <3>1. life \in Nat /\ \A m \in Lives : R(k, m).life <= life
      BY Numbers DEF PastInv
    <3>2. R(k, l)'.life <= life
      BY <2>1, <3>1 DEF R
    <3> QED
      BY <2>1, <3>1, <3>2 DEF R
  <2>4. remote'[k] <= life
    BY <2>2, Numbers DEF PastInv, R
  <2>5. \A m \in Lives : <<k, m>> \in obits' => <<k, m>> \in obits
    BY <1>25 DEF Ended
  <2>6. ~up => k \notin sessions' /\ k \notin watching'
    BY <1>25 DEF Ended, Reached, PastInv
  <2> QED
    BY <2>2, <2>3, <2>4, <2>5, <2>6 DEF PastInv
<1>26. OfCalls(k) => PastInv(k)'
  BY <1>3, <1>4, <1>5, <1>6, <1>7, <1>8, <1>9, <1>10, <1>11, <1>12 DEF OfCalls
<1>27. OfDeletion(k) => PastInv(k)'
  BY <1>13, <1>14, <1>15, <1>16, <1>17, <1>18, <1>19, <1>20 DEF OfDeletion
<1>28. OfRecovery(k) => PastInv(k)'
  BY RecoveryMoves, <1>21, <1>22, <1>23, <1>24, <1>25 DEF RecoveryStep
<1> QED
  BY <1>1, <1>2, <1>26, <1>27, <1>28 DEF Own

(* What a handle may have, and when.                                       *)
LEMMA StageHolds ==
    ASSUME TypeInv, NEW k \in Handles, StageInv(k), Own(k)
    PROVE  StageInv(k)'
<1> USE DEF TypeInv, ServiceOK, FieldsOK, ThreadsOK
<1>1. ASSUME ServiceDies PROVE StageInv(k)'
  BY <1>1, Names DEF ServiceDies, StageInv, Unborn, DeletionOK, R, Lives
<1>2. ASSUME ServiceStarts PROVE StageInv(k)'
  BY <1>2, Names DEF ServiceStarts, StageInv, Unborn, DeletionOK, R, Lives
<1>3. ASSUME SetDeathRecipient(k) PROVE StageInv(k)'
  BY <1>3, Names DEF SetDeathRecipient, Reached, StageInv, Unborn, DeletionOK, R, Lives
<1>4. ASSUME k \in Clients, CreatClient(k) PROVE StageInv(k)'
  BY <1>4, Names DEF CreatClient, MakeSession, StageInv, Unborn, DeletionOK, R, Lives
<1>5. ASSUME k \in Clients, Answered(k) PROVE StageInv(k)'
  <2>1. \/ CallMoves(k, "idle") /\ call'[k].life = 0 /\ UNCHANGED eventIds
        \/ /\ CallMoves(k, "answered") /\ call'[k].life = call[k].life
           /\ call'[k].op = call[k].op /\ call'[k].event = call[k].event
           /\ Reached(call[k].life) /\ k \in sessions
           /\ eventIds' = [eventIds EXCEPT ![k] = Changed(eventIds[k], k)]
    BY <1>5, CallSteps
  <2> QED
    BY <1>5, <2>1, Names DEF Answered, CallMoves, Reached, StageInv, Unborn, DeletionOK, R,
       Lives
<1>6. ASSUME k \in Clients, Record(k) PROVE StageInv(k)'
  <2>1. CallMoves(k, "idle") /\ call'[k].life = 0
    BY <1>6, CallSteps
  <2> QED
    BY <1>6, <2>1, Names DEF Record, CallMoves, Changed, StageInv, Unborn, DeletionOK, R,
       Lives
<1>7. ASSUME k \in Providers, NapiCreateAuthProvider(k) PROVE StageInv(k)'
  BY <1>7, Names DEF NapiCreateAuthProvider, MakeSession, CreateProvider, StageInv, Unborn,
     DeletionOK, R, Lives
<1>8. ASSUME k \in Providers, OnClientStatusChangedTsfnCall(k) PROVE StageInv(k)'
  BY <1>8, Names DEF OnClientStatusChangedTsfnCall, StageInv, Unborn, DeletionOK, R, Lives
<1>9. ASSUME k \in Clients, NEW e \in Events, NEW op \in {"sub", "unsub"}, Use(k, op, e)
      PROVE  StageInv(k)'
  <2>1. CallMoves(k, "sent") /\ call'[k].life = remote[k]
    BY <1>9, CallSteps
  <2> QED
    BY <1>9, <2>1, Names DEF Use, CallMoves, StageInv, Unborn, DeletionOK, R, Lives
<1>10. ASSUME OnAuthEvent(k) PROVE StageInv(k)'
  BY <1>10, Names DEF OnAuthEvent, StageInv, Unborn, DeletionOK, R, Lives
<1>11. ASSUME RunCallback(k) PROVE StageInv(k)'
  BY <1>11, Names DEF RunCallback, StageInv, Unborn, DeletionOK, R, Lives
<1>12. ASSUME CallbackReturns(k) PROVE StageInv(k)'
  BY <1>12, Names DEF CallbackReturns, OnClientStatusChangedCallback, StageInv, Unborn,
     DeletionOK, R, Lives
<1>13. ASSUME NEW d \in Deleters, ClearCallBack(k, d) PROVE StageInv(k)'
  <2>1. DelMoves(k, d, IF k \in Clients THEN "mark" ELSE "destroy", del[k][d].life)
    BY <1>13, Names, DelSteps
  <2>2. state[k] = "live"
    BY <1>13, <2>1, Names DEF DelMoves, ClearCallBack, Stage, StageInv, Unborn, DeletionOK,
       R, Lives
  <2>3. DeletionOK(k, d)'
    BY <1>13, <2>1, Names DEF DelMoves, ClearCallBack, Stage, StageInv, Unborn, DeletionOK,
       R, Lives
  <2>4. \A e \in Deleters \ {d} : DeletionOK(k, e)'
    BY <1>13, <2>1, Names DEF DelMoves, ClearCallBack, Stage, StageInv, Unborn, DeletionOK,
       R, Lives
  <2> QED
    BY <2>2, <2>3, <2>4, <1>13, <2>1, Names DEF DelMoves, ClearCallBack, Stage, StageInv,
       Unborn, DeletionOK, R, Lives
<1>14. ASSUME k \in Clients, NEW d \in Deleters, Release(k, d) PROVE StageInv(k)'
  <2>1. DelMoves(k, d, "clear", del[k][d].life)
    BY <1>14, Names, DelSteps
  <2>2. state[k] = "live"
    BY <1>14, <2>1, Names DEF DelMoves, Release, Stage, StageInv, Unborn, DeletionOK, R,
       Lives
  <2>3. DeletionOK(k, d)'
    BY <1>14, <2>1, Names DEF DelMoves, Release, Stage, StageInv, Unborn, DeletionOK, R,
       Lives
  <2>4. \A e \in Deleters \ {d} : DeletionOK(k, e)'
    BY <1>14, <2>1, Names DEF DelMoves, Release, Stage, StageInv, Unborn, DeletionOK, R,
       Lives
  <2> QED
    BY <2>2, <2>3, <2>4, <1>14, <2>1, Names DEF DelMoves, Release, Stage, StageInv, Unborn,
       DeletionOK, R, Lives
<1>15. ASSUME k \in Clients, NEW d \in Deleters, MarkDeleted(k, d) PROVE StageInv(k)'
  <2>1. DelMoves(k, d, "destroy", remote[k])
    BY <1>15, Names, DelSteps
  <2> QED
    BY <1>15, <2>1, Names DEF DelMoves, MarkDeleted, Stage, StageInv, Unborn, DeletionOK,
       R, Lives
<1>16. ASSUME k \in Clients, NEW d \in Deleters, DestroyRemoteObjects(k, d)
       PROVE  StageInv(k)'
  <2>1. DestroySession(k, d) /\ k \in Handles /\ del[k][d].at = "destroy"
    BY <1>16, Names DEF DestroyRemoteObjects, DestroySession, Stage
  <2>2. DelMoves(k, d, "done", del[k][d].life)
    BY <2>1, DelSteps
  <2>3. /\ sessions' = IF Reached(del[k][d].life) THEN sessions \ {k} ELSE sessions
        /\ \A g \in Handles \ {k} : eventIds'[g] = eventIds[g]
        /\ ~Reached(del[k][d].life) => UNCHANGED eventIds
    BY <2>1, Dropped DEF DestroySession
  <2>4. state[k] = "live"
    BY <1>16, <2>1, <2>2, <2>3, Names DEF DestroyRemoteObjects, DelMoves, Reached,
       StageInv, Unborn, DeletionOK, R, Lives
  <2>5. DeletionOK(k, d)'
    BY <1>16, <2>1, <2>2, <2>3, Names DEF DestroyRemoteObjects, DelMoves, Reached,
       StageInv, Unborn, DeletionOK, R, Lives
  <2>6. \A e \in Deleters \ {d} : DeletionOK(k, e)'
    BY <1>16, <2>1, <2>2, <2>3, Names DEF DestroyRemoteObjects, DelMoves, Reached,
       StageInv, Unborn, DeletionOK, R, Lives
  <2> QED
    BY <2>4, <2>5, <2>6, <1>16, <2>1, <2>2, <2>3, Names DEF DestroyRemoteObjects, DelMoves,
       Reached, StageInv, Unborn, DeletionOK, R, Lives
<1>17. ASSUME k \in Providers, NEW d \in Deleters, DeleteProvider(k, d) PROVE StageInv(k)'
  <2>1. DelMoves(k, d, IF k \in deleted THEN "returned" ELSE "read", del[k][d].life)
    BY <1>17, Names, DelSteps
  <2> QED
    BY <1>17, <2>1, Names DEF DelMoves, DeleteProvider, Stage, StageInv, Unborn,
       DeletionOK, R, Lives
<1>18. ASSUME k \in Providers, NEW d \in Deleters, ReadSession(k, d) PROVE StageInv(k)'
  <2>1. DelMoves(k, d, "clear", remote[k])
    BY <1>18, Names, DelSteps
  <2> QED
    BY <1>18, <2>1, Names DEF DelMoves, ReadSession, Stage, StageInv, Unborn, DeletionOK,
       R, Lives
<1>19. ASSUME k \in Providers, NEW d \in Deleters, DestroyProviderObjects(k, d)
       PROVE  StageInv(k)'
  <2>1. DestroySession(k, d) /\ k \in Handles /\ del[k][d].at = "destroy"
    BY <1>19, Names DEF DestroyProviderObjects, DestroySession, Stage
  <2>2. DelMoves(k, d, "done", del[k][d].life)
    BY <2>1, DelSteps
  <2>3. /\ sessions' = IF Reached(del[k][d].life) THEN sessions \ {k} ELSE sessions
        /\ \A g \in Handles \ {k} : eventIds'[g] = eventIds[g]
        /\ ~Reached(del[k][d].life) => UNCHANGED eventIds
    BY <2>1, Dropped DEF DestroySession
  <2> QED
    BY <1>19, <2>1, <2>2, <2>3, Names DEF DestroyProviderObjects, DelMoves, Reached,
       StageInv, Unborn, DeletionOK, R, Lives
<1>20. ASSUME k \in Providers, NEW d \in Deleters, NapiDestroyAuthProvider(k, d)
       PROVE  StageInv(k)'
  <2>1. DelMoves(k, d, "freed", del[k][d].life)
    BY <1>20, Names, DelSteps
  <2>2. state[k] = "live"
    BY <1>20, <2>1, Names DEF DelMoves, NapiDestroyAuthProvider, Stage, ReleaseTsfn,
       StageInv, Unborn, DeletionOK, R, Lives
  <2>3. DeletionOK(k, d)'
    BY <1>20, <2>1, Names DEF DelMoves, NapiDestroyAuthProvider, Stage, ReleaseTsfn,
       StageInv, Unborn, DeletionOK, R, Lives
  <2>4. \A e \in Deleters \ {d} : DeletionOK(k, e)'
    BY <1>20, <2>1, Names DEF DelMoves, NapiDestroyAuthProvider, Stage, ReleaseTsfn,
       StageInv, Unborn, DeletionOK, R, Lives
  <2> QED
    BY <2>2, <2>3, <2>4, <1>20, <2>1, Names DEF DelMoves, NapiDestroyAuthProvider, Stage,
       ReleaseTsfn, StageInv, Unborn, DeletionOK, R, Lives
<1>21. ASSUME NEW l \in Lives, Stays(k), DiesHandled(k, l) PROVE StageInv(k)'
  BY <1>21, Names DEF DiesHandled, Stays, Goes, StageInv, Unborn, DeletionOK, R, Lives
<1>22. ASSUME NEW l \in Lives, Stays(k), Attempted(k, l) PROVE StageInv(k)'
  BY <1>22, Names DEF Attempted, Stays, Goes, StageInv, Unborn, DeletionOK, R, Lives
<1>23. ASSUME NEW l \in Lives, Stays(k), Created(k, l) PROVE StageInv(k)'
  BY <1>23, Names DEF Created, Stays, Goes, StageInv, Unborn, DeletionOK, R, Lives
<1>24. ASSUME NEW l \in Lives, Stays(k), Took(k, l) PROVE StageInv(k)'
  BY <1>24, Names DEF Took, Stays, Goes, StageInv, Unborn, DeletionOK, R, Lives
<1>25. ASSUME NEW l \in Lives, Stays(k), Ended(k, l) PROVE StageInv(k)'
  BY <1>25, Names DEF Ended, Stays, Goes, StageInv, Unborn, DeletionOK, R, Lives
<1>26. OfCalls(k) => StageInv(k)'
  BY <1>3, <1>4, <1>5, <1>6, <1>7, <1>8, <1>9, <1>10, <1>11, <1>12 DEF OfCalls
<1>27. OfDeletion(k) => StageInv(k)'
  BY <1>13, <1>14, <1>15, <1>16, <1>17, <1>18, <1>19, <1>20 DEF OfDeletion
<1>28. OfRecovery(k) => StageInv(k)'
  BY RecoveryMoves, <1>21, <1>22, <1>23, <1>24, <1>25 DEF RecoveryStep
<1> QED
  BY <1>1, <1>2, <1>26, <1>27, <1>28 DEF Own

(* A cleared callback stays clear, and is left by who ran it.              *)
LEMMA QuietHolds ==
    ASSUME TypeInv, NEW k \in Handles, StageInv(k), QuietInv(k), Own(k)
    PROVE  QuietInv(k)'
<1> USE DEF TypeInv, ServiceOK, FieldsOK, ThreadsOK
<1>1. ASSUME ServiceDies PROVE QuietInv(k)'
  BY <1>1, Names DEF ServiceDies, QuietInv, Quiet, StageInv, Unborn, DeletionOK
<1>2. ASSUME ServiceStarts PROVE QuietInv(k)'
  BY <1>2, Names DEF ServiceStarts, QuietInv, Quiet, StageInv, Unborn, DeletionOK
<1>3. ASSUME SetDeathRecipient(k) PROVE QuietInv(k)'
  BY <1>3, Names DEF SetDeathRecipient, Reached, QuietInv, Quiet, StageInv, Unborn,
     DeletionOK
<1>4. ASSUME k \in Clients, CreatClient(k) PROVE QuietInv(k)'
  BY <1>4, Names DEF CreatClient, MakeSession, QuietInv, Quiet, StageInv, Unborn, DeletionOK
<1>5. ASSUME k \in Clients, Answered(k) PROVE QuietInv(k)'
  <2>1. \/ CallMoves(k, "idle") /\ call'[k].life = 0 /\ UNCHANGED eventIds
        \/ /\ CallMoves(k, "answered") /\ call'[k].life = call[k].life
           /\ call'[k].op = call[k].op /\ call'[k].event = call[k].event
           /\ Reached(call[k].life) /\ k \in sessions
           /\ eventIds' = [eventIds EXCEPT ![k] = Changed(eventIds[k], k)]
    BY <1>5, CallSteps
  <2> QED
    BY <1>5, <2>1, Names DEF Answered, CallMoves, Reached, QuietInv, Quiet, StageInv,
       Unborn, DeletionOK
<1>6. ASSUME k \in Clients, Record(k) PROVE QuietInv(k)'
  <2>1. CallMoves(k, "idle") /\ call'[k].life = 0
    BY <1>6, CallSteps
  <2> QED
    BY <1>6, <2>1, Names DEF Record, CallMoves, Changed, QuietInv, Quiet, StageInv, Unborn,
       DeletionOK
<1>7. ASSUME k \in Providers, NapiCreateAuthProvider(k) PROVE QuietInv(k)'
  BY <1>7, Names DEF NapiCreateAuthProvider, MakeSession, CreateProvider, QuietInv, Quiet,
     StageInv, Unborn, DeletionOK
<1>8. ASSUME k \in Providers, OnClientStatusChangedTsfnCall(k) PROVE QuietInv(k)'
  BY <1>8, Names DEF OnClientStatusChangedTsfnCall, QuietInv, Quiet, StageInv, Unborn,
     DeletionOK
<1>9. ASSUME k \in Clients, NEW e \in Events, NEW op \in {"sub", "unsub"}, Use(k, op, e)
      PROVE  QuietInv(k)'
  <2>1. CallMoves(k, "sent") /\ call'[k].life = remote[k]
    BY <1>9, CallSteps
  <2> QED
    BY <1>9, <2>1, Names DEF Use, CallMoves, QuietInv, Quiet, StageInv, Unborn, DeletionOK
<1>10. ASSUME OnAuthEvent(k) PROVE QuietInv(k)'
  BY <1>10, Names DEF OnAuthEvent, QuietInv, Quiet, StageInv, Unborn, DeletionOK
<1>11. ASSUME RunCallback(k) PROVE QuietInv(k)'
  BY <1>11, Names DEF RunCallback, QuietInv, Quiet, StageInv, Unborn, DeletionOK
<1>12. ASSUME CallbackReturns(k) PROVE QuietInv(k)'
  BY <1>12, Names DEF CallbackReturns, OnClientStatusChangedCallback, QuietInv, Quiet,
     StageInv, Unborn, DeletionOK
<1>13. ASSUME NEW d \in Deleters, ClearCallBack(k, d) PROVE QuietInv(k)'
  <2>1. DelMoves(k, d, IF k \in Clients THEN "mark" ELSE "destroy", del[k][d].life)
    BY <1>13, Names, DelSteps
  <2>2. Quiet(k, d)'
    BY <1>13, <2>1, Names DEF DelMoves, ClearCallBack, Stage, QuietInv, Quiet, StageInv,
       Unborn, DeletionOK
  <2>3. \A e \in Deleters \ {d} : Quiet(k, e)'
    BY <1>13, <2>1, Names DEF DelMoves, ClearCallBack, Stage, QuietInv, Quiet, StageInv,
       Unborn, DeletionOK
  <2> QED
    BY <2>2, <2>3, <1>13, <2>1, Names DEF DelMoves, ClearCallBack, Stage, QuietInv, Quiet,
       StageInv, Unborn, DeletionOK
<1>14. ASSUME k \in Clients, NEW d \in Deleters, Release(k, d) PROVE QuietInv(k)'
  <2>1. DelMoves(k, d, "clear", del[k][d].life)
    BY <1>14, Names, DelSteps
  <2>2. Quiet(k, d)'
    BY <1>14, <2>1, Names DEF DelMoves, Release, Stage, QuietInv, Quiet, StageInv, Unborn,
       DeletionOK
  <2>3. \A e \in Deleters \ {d} : Quiet(k, e)'
    BY <1>14, <2>1, Names DEF DelMoves, Release, Stage, QuietInv, Quiet, StageInv, Unborn,
       DeletionOK
  <2> QED
    BY <2>2, <2>3, <1>14, <2>1, Names DEF DelMoves, Release, Stage, QuietInv, Quiet,
       StageInv, Unborn, DeletionOK
<1>15. ASSUME k \in Clients, NEW d \in Deleters, MarkDeleted(k, d) PROVE QuietInv(k)'
  <2>1. DelMoves(k, d, "destroy", remote[k])
    BY <1>15, Names, DelSteps
  <2> QED
    BY <1>15, <2>1, Names DEF DelMoves, MarkDeleted, Stage, QuietInv, Quiet, StageInv,
       Unborn, DeletionOK
<1>16. ASSUME k \in Clients, NEW d \in Deleters, DestroyRemoteObjects(k, d)
       PROVE  QuietInv(k)'
  <2>1. DestroySession(k, d) /\ k \in Handles /\ del[k][d].at = "destroy"
    BY <1>16, Names DEF DestroyRemoteObjects, DestroySession, Stage
  <2>2. DelMoves(k, d, "done", del[k][d].life)
    BY <2>1, DelSteps
  <2>3. /\ sessions' = IF Reached(del[k][d].life) THEN sessions \ {k} ELSE sessions
        /\ \A g \in Handles \ {k} : eventIds'[g] = eventIds[g]
        /\ ~Reached(del[k][d].life) => UNCHANGED eventIds
    BY <2>1, Dropped DEF DestroySession
  <2>4. Quiet(k, d)'
    BY <1>16, <2>1, <2>2, <2>3, Names DEF DestroyRemoteObjects, DelMoves, Reached,
       QuietInv, Quiet, StageInv, Unborn, DeletionOK
  <2>5. \A e \in Deleters \ {d} : Quiet(k, e)'
    BY <1>16, <2>1, <2>2, <2>3, Names DEF DestroyRemoteObjects, DelMoves, Reached,
       QuietInv, Quiet, StageInv, Unborn, DeletionOK
  <2> QED
    BY <2>4, <2>5, <1>16, <2>1, <2>2, <2>3, Names DEF DestroyRemoteObjects, DelMoves,
       Reached, QuietInv, Quiet, StageInv, Unborn, DeletionOK
<1>17. ASSUME k \in Providers, NEW d \in Deleters, DeleteProvider(k, d) PROVE QuietInv(k)'
  <2>1. DelMoves(k, d, IF k \in deleted THEN "returned" ELSE "read", del[k][d].life)
    BY <1>17, Names, DelSteps
  <2>2. Quiet(k, d)'
    BY <1>17, <2>1, Names DEF DelMoves, DeleteProvider, Stage, QuietInv, Quiet, StageInv,
       Unborn, DeletionOK
  <2>3. \A e \in Deleters \ {d} : Quiet(k, e)'
    BY <1>17, <2>1, Names DEF DelMoves, DeleteProvider, Stage, QuietInv, Quiet, StageInv,
       Unborn, DeletionOK
  <2> QED
    BY <2>2, <2>3, <1>17, <2>1, Names DEF DelMoves, DeleteProvider, Stage, QuietInv, Quiet,
       StageInv, Unborn, DeletionOK
<1>18. ASSUME k \in Providers, NEW d \in Deleters, ReadSession(k, d) PROVE QuietInv(k)'
  <2>1. DelMoves(k, d, "clear", remote[k])
    BY <1>18, Names, DelSteps
  <2> QED
    BY <1>18, <2>1, Names DEF DelMoves, ReadSession, Stage, QuietInv, Quiet, StageInv,
       Unborn, DeletionOK
<1>19. ASSUME k \in Providers, NEW d \in Deleters, DestroyProviderObjects(k, d)
       PROVE  QuietInv(k)'
  <2>1. DestroySession(k, d) /\ k \in Handles /\ del[k][d].at = "destroy"
    BY <1>19, Names DEF DestroyProviderObjects, DestroySession, Stage
  <2>2. DelMoves(k, d, "done", del[k][d].life)
    BY <2>1, DelSteps
  <2>3. /\ sessions' = IF Reached(del[k][d].life) THEN sessions \ {k} ELSE sessions
        /\ \A g \in Handles \ {k} : eventIds'[g] = eventIds[g]
        /\ ~Reached(del[k][d].life) => UNCHANGED eventIds
    BY <2>1, Dropped DEF DestroySession
  <2>4. Quiet(k, d)'
    BY <1>19, <2>1, <2>2, <2>3, Names DEF DestroyProviderObjects, DelMoves, Reached,
       QuietInv, Quiet, StageInv, Unborn, DeletionOK
  <2>5. \A e \in Deleters \ {d} : Quiet(k, e)'
    BY <1>19, <2>1, <2>2, <2>3, Names DEF DestroyProviderObjects, DelMoves, Reached,
       QuietInv, Quiet, StageInv, Unborn, DeletionOK
  <2> QED
    BY <2>4, <2>5, <1>19, <2>1, <2>2, <2>3, Names DEF DestroyProviderObjects, DelMoves,
       Reached, QuietInv, Quiet, StageInv, Unborn, DeletionOK
<1>20. ASSUME k \in Providers, NEW d \in Deleters, NapiDestroyAuthProvider(k, d)
       PROVE  QuietInv(k)'
  <2>1. DelMoves(k, d, "freed", del[k][d].life)
    BY <1>20, Names, DelSteps
  <2>2. Quiet(k, d)'
    BY <1>20, <2>1, Names DEF DelMoves, NapiDestroyAuthProvider, Stage, ReleaseTsfn,
       QuietInv, Quiet, StageInv, Unborn, DeletionOK
  <2>3. \A e \in Deleters \ {d} : Quiet(k, e)'
    BY <1>20, <2>1, Names DEF DelMoves, NapiDestroyAuthProvider, Stage, ReleaseTsfn,
       QuietInv, Quiet, StageInv, Unborn, DeletionOK
  <2> QED
    BY <2>2, <2>3, <1>20, <2>1, Names DEF DelMoves, NapiDestroyAuthProvider, Stage,
       ReleaseTsfn, QuietInv, Quiet, StageInv, Unborn, DeletionOK
<1>21. ASSUME NEW l \in Lives, Stays(k), DiesHandled(k, l) PROVE QuietInv(k)'
  BY <1>21, Names DEF DiesHandled, Stays, Goes, QuietInv, Quiet, StageInv, Unborn,
     DeletionOK
<1>22. ASSUME NEW l \in Lives, Stays(k), Attempted(k, l) PROVE QuietInv(k)'
  BY <1>22, Names DEF Attempted, Stays, Goes, QuietInv, Quiet, StageInv, Unborn, DeletionOK
<1>23. ASSUME NEW l \in Lives, Stays(k), Created(k, l) PROVE QuietInv(k)'
  BY <1>23, Names DEF Created, Stays, Goes, QuietInv, Quiet, StageInv, Unborn, DeletionOK
<1>24. ASSUME NEW l \in Lives, Stays(k), Took(k, l) PROVE QuietInv(k)'
  BY <1>24, Names DEF Took, Stays, Goes, QuietInv, Quiet, StageInv, Unborn, DeletionOK
<1>25. ASSUME NEW l \in Lives, Stays(k), Ended(k, l) PROVE QuietInv(k)'
  BY <1>25, Names DEF Ended, Stays, Goes, QuietInv, Quiet, StageInv, Unborn, DeletionOK
<1>26. OfCalls(k) => QuietInv(k)'
  BY <1>3, <1>4, <1>5, <1>6, <1>7, <1>8, <1>9, <1>10, <1>11, <1>12 DEF OfCalls
<1>27. OfDeletion(k) => QuietInv(k)'
  BY <1>13, <1>14, <1>15, <1>16, <1>17, <1>18, <1>19, <1>20 DEF OfDeletion
<1>28. OfRecovery(k) => QuietInv(k)'
  BY RecoveryMoves, <1>21, <1>22, <1>23, <1>24, <1>25 DEF RecoveryStep
<1> QED
  BY <1>1, <1>2, <1>26, <1>27, <1>28 DEF Own

(* Who has a session in the service, and who knows of it.                  *)
LEMMA SessionHolds ==
    ASSUME TypeInv, NEW k \in Handles, PastInv(k), StageInv(k), HasSession(k), Own(k)
    PROVE  HasSession(k)'
<1> USE DEF TypeInv, ServiceOK, FieldsOK, ThreadsOK
<1>1. ASSUME ServiceDies PROVE HasSession(k)'
  BY <1>1, Names, Numbers DEF ServiceDies, HasSession, Switching, R, Lives, PastInv,
     StageInv, DeletionOK
<1>2. ASSUME ServiceStarts PROVE HasSession(k)'
  <2>1. remote'[k] # life' /\ \A l \in Lives : R(k, l).life # life'
    <3>1. life' = life + 1 /\ life \in Nat /\ remote[k] \in Nat /\ remote[k] <= life /\ remote'[k] = remote[k]
      BY <1>2, Numbers DEF ServiceStarts, PastInv
    <3>2. \A l \in Lives : R(k, l).life \in Nat /\ R(k, l).life <= life
      BY Numbers DEF PastInv
    <3> QED
      BY <3>1, <3>2
  <2>2. \A l \in Lives : ~Switching(k, l)'
    BY <1>2, <2>1 DEF ServiceStarts, Switching, R
  <2> QED
    BY <2>1, <2>2 DEF HasSession
<1>3. ASSUME SetDeathRecipient(k) PROVE HasSession(k)'
  BY <1>3, Names, Numbers DEF SetDeathRecipient, Reached, HasSession, Switching, R, Lives,
     PastInv, StageInv, DeletionOK
<1>4. ASSUME k \in Clients, CreatClient(k) PROVE HasSession(k)'
  BY <1>4, Names, Numbers DEF CreatClient, MakeSession, HasSession, Switching, R, Lives,
     PastInv, StageInv, DeletionOK
<1>5. ASSUME k \in Clients, Answered(k) PROVE HasSession(k)'
  <2>1. \/ CallMoves(k, "idle") /\ call'[k].life = 0 /\ UNCHANGED eventIds
        \/ /\ CallMoves(k, "answered") /\ call'[k].life = call[k].life
           /\ call'[k].op = call[k].op /\ call'[k].event = call[k].event
           /\ Reached(call[k].life) /\ k \in sessions
           /\ eventIds' = [eventIds EXCEPT ![k] = Changed(eventIds[k], k)]
    BY <1>5, CallSteps
  <2> QED
    BY <1>5, <2>1, Names, Numbers DEF Answered, CallMoves, Reached, HasSession, Switching,
       R, Lives, PastInv, StageInv, DeletionOK
<1>6. ASSUME k \in Clients, Record(k) PROVE HasSession(k)'
  <2>1. CallMoves(k, "idle") /\ call'[k].life = 0
    BY <1>6, CallSteps
  <2> QED
    BY <1>6, <2>1, Names, Numbers DEF Record, CallMoves, Changed, HasSession, Switching, R,
       Lives, PastInv, StageInv, DeletionOK
<1>7. ASSUME k \in Providers, NapiCreateAuthProvider(k) PROVE HasSession(k)'
  BY <1>7, Names, Numbers DEF NapiCreateAuthProvider, MakeSession, CreateProvider,
     HasSession, Switching, R, Lives, PastInv, StageInv, DeletionOK
<1>8. ASSUME k \in Providers, OnClientStatusChangedTsfnCall(k) PROVE HasSession(k)'
  BY <1>8, Names, Numbers DEF OnClientStatusChangedTsfnCall, HasSession, Switching, R,
     Lives, PastInv, StageInv, DeletionOK
<1>9. ASSUME k \in Clients, NEW e \in Events, NEW op \in {"sub", "unsub"}, Use(k, op, e)
      PROVE  HasSession(k)'
  <2>1. CallMoves(k, "sent") /\ call'[k].life = remote[k]
    BY <1>9, CallSteps
  <2> QED
    BY <1>9, <2>1, Names, Numbers DEF Use, CallMoves, HasSession, Switching, R, Lives,
       PastInv, StageInv, DeletionOK
<1>10. ASSUME OnAuthEvent(k) PROVE HasSession(k)'
  BY <1>10, Names, Numbers DEF OnAuthEvent, HasSession, Switching, R, Lives, PastInv,
     StageInv, DeletionOK
<1>11. ASSUME RunCallback(k) PROVE HasSession(k)'
  BY <1>11, Names, Numbers DEF RunCallback, HasSession, Switching, R, Lives, PastInv,
     StageInv, DeletionOK
<1>12. ASSUME CallbackReturns(k) PROVE HasSession(k)'
  BY <1>12, Names, Numbers DEF CallbackReturns, OnClientStatusChangedCallback, HasSession,
     Switching, R, Lives, PastInv, StageInv, DeletionOK
<1>13. ASSUME NEW d \in Deleters, ClearCallBack(k, d) PROVE HasSession(k)'
  <2>1. DelMoves(k, d, IF k \in Clients THEN "mark" ELSE "destroy", del[k][d].life)
    BY <1>13, Names, DelSteps
  <2> QED
    BY <1>13, <2>1, Names, Numbers DEF DelMoves, ClearCallBack, Stage, HasSession,
       Switching, R, Lives, PastInv, StageInv, DeletionOK
<1>14. ASSUME k \in Clients, NEW d \in Deleters, Release(k, d) PROVE HasSession(k)'
  <2>1. DelMoves(k, d, "clear", del[k][d].life)
    BY <1>14, Names, DelSteps
  <2> QED
    BY <1>14, <2>1, Names, Numbers DEF DelMoves, Release, Stage, HasSession, Switching, R,
       Lives, PastInv, StageInv, DeletionOK
<1>15. ASSUME k \in Clients, NEW d \in Deleters, MarkDeleted(k, d) PROVE HasSession(k)'
  <2>1. DelMoves(k, d, "destroy", remote[k])
    BY <1>15, Names, DelSteps
  <2> QED
    BY <1>15, <2>1, Names, Numbers DEF DelMoves, MarkDeleted, Stage, HasSession, Switching,
       R, Lives, PastInv, StageInv, DeletionOK
<1>16. ASSUME k \in Clients, NEW d \in Deleters, DestroyRemoteObjects(k, d)
       PROVE  HasSession(k)'
  <2>1. DestroySession(k, d) /\ k \in Handles /\ del[k][d].at = "destroy"
    BY <1>16, Names DEF DestroyRemoteObjects, DestroySession, Stage
  <2>2. DelMoves(k, d, "done", del[k][d].life)
    BY <2>1, DelSteps
  <2>3. /\ sessions' = IF Reached(del[k][d].life) THEN sessions \ {k} ELSE sessions
        /\ \A g \in Handles \ {k} : eventIds'[g] = eventIds[g]
        /\ ~Reached(del[k][d].life) => UNCHANGED eventIds
    BY <2>1, Dropped DEF DestroySession
  <2> QED
    BY <1>16, <2>1, <2>2, <2>3, Names, Numbers DEF DestroyRemoteObjects, DelMoves, Reached,
       HasSession, Switching, R, Lives, PastInv, StageInv, DeletionOK
<1>17. ASSUME k \in Providers, NEW d \in Deleters, DeleteProvider(k, d) PROVE HasSession(k)'
  <2>1. DelMoves(k, d, IF k \in deleted THEN "returned" ELSE "read", del[k][d].life)
    BY <1>17, Names, DelSteps
  <2> QED
    BY <1>17, <2>1, Names, Numbers DEF DelMoves, DeleteProvider, Stage, HasSession,
       Switching, R, Lives, PastInv, StageInv, DeletionOK
<1>18. ASSUME k \in Providers, NEW d \in Deleters, ReadSession(k, d) PROVE HasSession(k)'
  <2>1. DelMoves(k, d, "clear", remote[k])
    BY <1>18, Names, DelSteps
  <2> QED
    BY <1>18, <2>1, Names, Numbers DEF DelMoves, ReadSession, Stage, HasSession, Switching,
       R, Lives, PastInv, StageInv, DeletionOK
<1>19. ASSUME k \in Providers, NEW d \in Deleters, DestroyProviderObjects(k, d)
      PROVE  HasSession(k)'
  <2>1. DestroySession(k, d) /\ k \in Handles /\ del[k][d].at = "destroy"
    BY <1>19, Names DEF DestroyProviderObjects, DestroySession, Stage
  <2>2. DelMoves(k, d, "done", del[k][d].life)
    BY <2>1, DelSteps
  <2>3. /\ sessions' = IF Reached(del[k][d].life) THEN sessions \ {k} ELSE sessions
        /\ \A g \in Handles \ {k} : eventIds'[g] = eventIds[g]
        /\ ~Reached(del[k][d].life) => UNCHANGED eventIds
    BY <2>1, Dropped DEF DestroySession
  <2> QED
    BY <1>19, <2>1, <2>2, <2>3, Names, Numbers DEF DestroyProviderObjects, DelMoves,
       Reached, HasSession, Switching, R, Lives, PastInv, StageInv, DeletionOK
<1>20. ASSUME k \in Providers, NEW d \in Deleters, NapiDestroyAuthProvider(k, d)
      PROVE  HasSession(k)'
  <2>1. DelMoves(k, d, "freed", del[k][d].life)
    BY <1>20, Names, DelSteps
  <2> QED
    BY <1>20, <2>1, Names, Numbers DEF DelMoves, NapiDestroyAuthProvider, Stage,
       ReleaseTsfn, HasSession, Switching, R, Lives, PastInv, StageInv, DeletionOK
<1>21. ASSUME NEW l \in Lives, Stays(k), DiesHandled(k, l) PROVE HasSession(k)'
  <2>1. UNCHANGED <<life, up, deleted>> /\ life # 0
    BY <1>21 DEF Stays
  <2>2. \A m \in Lives : Switching(k, m)' => Switching(k, m) \/ k \in sessions'
    BY <1>21, <2>1 DEF DiesHandled, Goes, Switching, R
  <2>3. remote'[k] = life => remote[k] = life \/ k \in deleted \/ \E m \in Lives : Switching(k, m)
    BY <1>21, <2>1 DEF DiesHandled, Switching
  <2>4. k \in sessions => k \in sessions' \/ k \in deleted
    BY <1>21 DEF DiesHandled
  <2> QED
    BY <2>1, <2>2, <2>3, <2>4 DEF HasSession
<1>22. ASSUME NEW l \in Lives, Stays(k), Attempted(k, l) PROVE HasSession(k)'
  <2>1. UNCHANGED <<life, up, deleted>> /\ life # 0
    BY <1>22 DEF Stays
  <2>2. \A m \in Lives : Switching(k, m)' => Switching(k, m) \/ k \in sessions'
    BY <1>22, <2>1 DEF Attempted, Goes, Switching, R
  <2>3. remote'[k] = life => remote[k] = life \/ k \in deleted \/ \E m \in Lives : Switching(k, m)
    BY <1>22, <2>1 DEF Attempted, Switching
  <2>4. k \in sessions => k \in sessions' \/ k \in deleted
    BY <1>22 DEF Attempted
  <2> QED
    BY <2>1, <2>2, <2>3, <2>4 DEF HasSession
<1>23. ASSUME NEW l \in Lives, Stays(k), Created(k, l) PROVE HasSession(k)'
  <2>1. UNCHANGED <<life, up, deleted>> /\ life # 0
    BY <1>23 DEF Stays
  <2>2. \A m \in Lives : Switching(k, m)' => Switching(k, m) \/ k \in sessions'
    BY <1>23, <2>1 DEF Created, Goes, Switching, R
  <2>3. remote'[k] = life => remote[k] = life \/ k \in deleted \/ \E m \in Lives : Switching(k, m)
    BY <1>23, <2>1 DEF Created, Switching
  <2>4. k \in sessions => k \in sessions' \/ k \in deleted
    BY <1>23 DEF Created
  <2> QED
    BY <2>1, <2>2, <2>3, <2>4 DEF HasSession
<1>24. ASSUME NEW l \in Lives, Stays(k), Took(k, l) PROVE HasSession(k)'
  <2>1. UNCHANGED <<life, up, deleted>> /\ life # 0
    BY <1>24 DEF Stays
  <2>2. \A m \in Lives : Switching(k, m)' => Switching(k, m) \/ k \in sessions'
    BY <1>24, <2>1 DEF Took, Goes, Switching, R
  <2>3. remote'[k] = life => remote[k] = life \/ k \in deleted \/ \E m \in Lives : Switching(k, m)
    BY <1>24, <2>1 DEF Took, Switching
  <2>4. k \in sessions => k \in sessions' \/ k \in deleted
    BY <1>24 DEF Took
  <2> QED
    BY <2>1, <2>2, <2>3, <2>4 DEF HasSession
<1>25. ASSUME NEW l \in Lives, Stays(k), Ended(k, l) PROVE HasSession(k)'
  <2>1. UNCHANGED <<life, up, deleted, sessions, remote>>
    BY <1>25 DEF Stays, Ended
  <2>2. R(k, l).at = "again" /\ R(k, l)'.at \in {"idle", "again"}
    BY <1>25 DEF Ended, Goes
  <2>3. \A m \in Lives \ {l} : R(k, m)' = R(k, m)
    BY <1>25 DEF Ended, Goes
  <2>4. \A m \in Lives : Switching(k, m)' => Switching(k, m)
    BY <2>1, <2>2, <2>3 DEF Switching
  <2> QED
    BY <2>1, <2>4 DEF HasSession
<1>26. OfCalls(k) => HasSession(k)'
  BY <1>3, <1>4, <1>5, <1>6, <1>7, <1>8, <1>9, <1>10, <1>11, <1>12 DEF OfCalls
<1>27. OfDeletion(k) => HasSession(k)'
  BY <1>13, <1>14, <1>15, <1>16, <1>17, <1>18, <1>19, <1>20 DEF OfDeletion
<1>28. OfRecovery(k) => HasSession(k)'
  BY RecoveryMoves, <1>21, <1>22, <1>23, <1>24, <1>25 DEF RecoveryStep
<1> QED
  BY <1>1, <1>2, <1>26, <1>27, <1>28 DEF Own

LEMMA KnownHolds ==
    ASSUME TypeInv, NEW k \in Handles, PastInv(k), StageInv(k), KnownInv(k), Own(k)
    PROVE  KnownInv(k)'
<1> USE DEF TypeInv, ServiceOK, FieldsOK, ThreadsOK
<1>1. ASSUME ServiceDies PROVE KnownInv(k)'
  BY <1>1, Names, Numbers DEF ServiceDies, KnownInv, Switching, Destroying, R, Lives,
     PastInv, StageInv, DeletionOK
<1>2. ASSUME ServiceStarts PROVE KnownInv(k)'
  BY <1>2, Names, Numbers DEF ServiceStarts, KnownInv, Switching, Destroying, R, Lives,
     PastInv, StageInv, DeletionOK
<1>3. ASSUME SetDeathRecipient(k) PROVE KnownInv(k)'
  BY <1>3, Names, Numbers DEF SetDeathRecipient, Reached, KnownInv, Switching, Destroying,
     R, Lives, PastInv, StageInv, DeletionOK
<1>4. ASSUME k \in Clients, CreatClient(k) PROVE KnownInv(k)'
  BY <1>4, Names, Numbers DEF CreatClient, MakeSession, KnownInv, Switching, Destroying, R,
     Lives, PastInv, StageInv, DeletionOK
<1>5. ASSUME k \in Clients, Answered(k) PROVE KnownInv(k)'
  <2>1. \/ CallMoves(k, "idle") /\ call'[k].life = 0 /\ UNCHANGED eventIds
        \/ /\ CallMoves(k, "answered") /\ call'[k].life = call[k].life
           /\ call'[k].op = call[k].op /\ call'[k].event = call[k].event
           /\ Reached(call[k].life) /\ k \in sessions
           /\ eventIds' = [eventIds EXCEPT ![k] = Changed(eventIds[k], k)]
    BY <1>5, CallSteps
  <2> QED
    BY <1>5, <2>1, Names, Numbers DEF Answered, CallMoves, Reached, KnownInv, Switching,
       Destroying, R, Lives, PastInv, StageInv, DeletionOK
<1>6. ASSUME k \in Clients, Record(k) PROVE KnownInv(k)'
  <2>1. CallMoves(k, "idle") /\ call'[k].life = 0
    BY <1>6, CallSteps
  <2> QED
    BY <1>6, <2>1, Names, Numbers DEF Record, CallMoves, Changed, KnownInv, Switching,
       Destroying, R, Lives, PastInv, StageInv, DeletionOK
<1>7. ASSUME k \in Providers, NapiCreateAuthProvider(k) PROVE KnownInv(k)'
  BY <1>7, Names, Numbers DEF NapiCreateAuthProvider, MakeSession, CreateProvider,
     KnownInv, Switching, Destroying, R, Lives, PastInv, StageInv, DeletionOK
<1>8. ASSUME k \in Providers, OnClientStatusChangedTsfnCall(k) PROVE KnownInv(k)'
  BY <1>8, Names, Numbers DEF OnClientStatusChangedTsfnCall, KnownInv, Switching,
     Destroying, R, Lives, PastInv, StageInv, DeletionOK
<1>9. ASSUME k \in Clients, NEW e \in Events, NEW op \in {"sub", "unsub"}, Use(k, op, e)
      PROVE  KnownInv(k)'
  <2>1. CallMoves(k, "sent") /\ call'[k].life = remote[k]
    BY <1>9, CallSteps
  <2> QED
    BY <1>9, <2>1, Names, Numbers DEF Use, CallMoves, KnownInv, Switching, Destroying, R,
       Lives, PastInv, StageInv, DeletionOK
<1>10. ASSUME OnAuthEvent(k) PROVE KnownInv(k)'
  BY <1>10, Names, Numbers DEF OnAuthEvent, KnownInv, Switching, Destroying, R, Lives,
     PastInv, StageInv, DeletionOK
<1>11. ASSUME RunCallback(k) PROVE KnownInv(k)'
  BY <1>11, Names, Numbers DEF RunCallback, KnownInv, Switching, Destroying, R, Lives,
     PastInv, StageInv, DeletionOK
<1>12. ASSUME CallbackReturns(k) PROVE KnownInv(k)'
  BY <1>12, Names, Numbers DEF CallbackReturns, OnClientStatusChangedCallback, KnownInv,
     Switching, Destroying, R, Lives, PastInv, StageInv, DeletionOK
<1>13. ASSUME NEW d \in Deleters, ClearCallBack(k, d) PROVE KnownInv(k)'
  <2>1. DelMoves(k, d, IF k \in Clients THEN "mark" ELSE "destroy", del[k][d].life)
    BY <1>13, Names, DelSteps
  <2>2. \A e \in Deleters : Destroying(k, e) => Destroying(k, e)' \/ k \notin sessions'
    BY <1>13, <2>1, Numbers DEF DelMoves, Destroying, PastInv, ClearCallBack, Stage
  <2>3. remote[k] = life => remote'[k] = life \/ \E e \in Deleters : Destroying(k, e)'
    BY <1>13, <2>1, Names DEF DelMoves, Destroying, ClearCallBack, Stage
  <2>4. \A l \in Lives : Switching(k, l)' <=> Switching(k, l)
    BY <1>13 DEF Switching, R, ClearCallBack, Stage
  <2>5. (k \in sessions' => k \in sessions) /\ UNCHANGED <<life, raced>>
    BY <1>13, <2>1 DEF ClearCallBack, Stage
  <2>6. k \in deleted => k \in deleted'
    BY <1>13 DEF ClearCallBack, Stage
  <2> QED
    BY <2>2, <2>3, <2>4, <2>5, <2>6 DEF KnownInv
<1>14. ASSUME k \in Clients, NEW d \in Deleters, Release(k, d) PROVE KnownInv(k)'
  <2>1. DelMoves(k, d, "clear", del[k][d].life)
    BY <1>14, Names, DelSteps
  <2>2. \A e \in Deleters : Destroying(k, e) => Destroying(k, e)' \/ k \notin sessions'
    BY <1>14, <2>1, Numbers DEF DelMoves, Destroying, PastInv, Release, Stage
  <2>3. remote[k] = life => remote'[k] = life \/ \E e \in Deleters : Destroying(k, e)'
    BY <1>14, <2>1, Names DEF DelMoves, Destroying, Release, Stage
  <2>4. \A l \in Lives : Switching(k, l)' <=> Switching(k, l)
    BY <1>14 DEF Switching, R, Release, Stage
  <2>5. (k \in sessions' => k \in sessions) /\ UNCHANGED <<life, raced>>
    BY <1>14, <2>1 DEF Release, Stage
  <2>6. k \in deleted => k \in deleted'
    BY <1>14 DEF Release, Stage
  <2> QED
    BY <2>2, <2>3, <2>4, <2>5, <2>6 DEF KnownInv
<1>15. ASSUME k \in Clients, NEW d \in Deleters, MarkDeleted(k, d) PROVE KnownInv(k)'
  <2>1. DelMoves(k, d, "destroy", remote[k])
    BY <1>15, Names, DelSteps
  <2>2. \A e \in Deleters : Destroying(k, e) => Destroying(k, e)' \/ k \notin sessions'
    BY <1>15, <2>1, Numbers DEF DelMoves, Destroying, PastInv, MarkDeleted, Stage
  <2>3. remote[k] = life => remote'[k] = life \/ \E e \in Deleters : Destroying(k, e)'
    BY <1>15, <2>1, Names DEF DelMoves, Destroying, MarkDeleted, Stage
  <2>4. \A l \in Lives : Switching(k, l)' <=> Switching(k, l)
    BY <1>15 DEF Switching, R, MarkDeleted, Stage
  <2>5. (k \in sessions' => k \in sessions) /\ UNCHANGED <<life, raced>>
    BY <1>15, <2>1 DEF MarkDeleted, Stage
  <2>6. k \in deleted => k \in deleted'
    BY <1>15 DEF MarkDeleted, Stage
  <2> QED
    BY <2>2, <2>3, <2>4, <2>5, <2>6 DEF KnownInv
<1>16. ASSUME k \in Clients, NEW d \in Deleters, DestroyRemoteObjects(k, d)
       PROVE  KnownInv(k)'
  <2>1. DestroySession(k, d) /\ k \in Handles /\ del[k][d].at = "destroy"
    BY <1>16, Names DEF DestroyRemoteObjects, DestroySession, Stage
  <2>2. DelMoves(k, d, "done", del[k][d].life)
    BY <2>1, DelSteps
  <2>3. /\ sessions' = IF Reached(del[k][d].life) THEN sessions \ {k} ELSE sessions
        /\ \A g \in Handles \ {k} : eventIds'[g] = eventIds[g]
        /\ ~Reached(del[k][d].life) => UNCHANGED eventIds
    BY <2>1, Dropped DEF DestroySession
  <2>4. \A e \in Deleters : Destroying(k, e) => Destroying(k, e)' \/ k \notin sessions'
    BY <1>16, <2>1, <2>2, <2>3, Numbers DEF DelMoves, Destroying, PastInv,
       DestroyRemoteObjects, Reached
  <2>5. remote[k] = life => remote'[k] = life \/ \E e \in Deleters : Destroying(k, e)'
    BY <1>16, <2>1, <2>2, <2>3, Names DEF DelMoves, Destroying, DestroyRemoteObjects,
       Reached
  <2>6. \A l \in Lives : Switching(k, l)' <=> Switching(k, l)
    BY <1>16 DEF Switching, R, DestroyRemoteObjects, Reached
  <2>7. (k \in sessions' => k \in sessions) /\ UNCHANGED <<life, raced>>
    BY <1>16, <2>1, <2>2, <2>3 DEF DestroyRemoteObjects, Reached
  <2>8. k \in deleted => k \in deleted'
    BY <1>16 DEF DestroyRemoteObjects, Reached
  <2> QED
    BY <2>4, <2>5, <2>6, <2>7, <2>8 DEF KnownInv
<1>17. ASSUME k \in Providers, NEW d \in Deleters, DeleteProvider(k, d) PROVE KnownInv(k)'
  <2>1. DelMoves(k, d, IF k \in deleted THEN "returned" ELSE "read", del[k][d].life)
    BY <1>17, Names, DelSteps
  <2> QED
    BY <1>17, <2>1, Names, Numbers DEF DelMoves, DeleteProvider, Stage, KnownInv,
       Switching, Destroying, R, Lives, PastInv, StageInv, DeletionOK
<1>18. ASSUME k \in Providers, NEW d \in Deleters, ReadSession(k, d) PROVE KnownInv(k)'
  <2>1. DelMoves(k, d, "clear", remote[k])
    BY <1>18, Names, DelSteps
  <2> QED
    BY <1>18, <2>1, Names, Numbers DEF DelMoves, ReadSession, Stage, KnownInv, Switching,
       Destroying, R, Lives, PastInv, StageInv, DeletionOK
<1>19. ASSUME k \in Providers, NEW d \in Deleters, DestroyProviderObjects(k, d)
       PROVE  KnownInv(k)'
  <2>1. DestroySession(k, d) /\ k \in Handles /\ del[k][d].at = "destroy"
    BY <1>19, Names DEF DestroyProviderObjects, DestroySession, Stage
  <2>2. DelMoves(k, d, "done", del[k][d].life)
    BY <2>1, DelSteps
  <2>3. /\ sessions' = IF Reached(del[k][d].life) THEN sessions \ {k} ELSE sessions
        /\ \A g \in Handles \ {k} : eventIds'[g] = eventIds[g]
        /\ ~Reached(del[k][d].life) => UNCHANGED eventIds
    BY <2>1, Dropped DEF DestroySession
  <2> QED
    BY <1>19, <2>1, <2>2, <2>3, Names, Numbers DEF DestroyProviderObjects, DelMoves,
       Reached, KnownInv, Switching, Destroying, R, Lives, PastInv, StageInv, DeletionOK
<1>20. ASSUME k \in Providers, NEW d \in Deleters, NapiDestroyAuthProvider(k, d)
       PROVE  KnownInv(k)'
  <2>1. DelMoves(k, d, "freed", del[k][d].life)
    BY <1>20, Names, DelSteps
  <2> QED
    BY <1>20, <2>1, Names, Numbers DEF DelMoves, NapiDestroyAuthProvider, Stage,
       ReleaseTsfn, KnownInv, Switching, Destroying, R, Lives, PastInv, StageInv, DeletionOK
<1>21. ASSUME NEW l \in Lives, Stays(k), DiesHandled(k, l) PROVE KnownInv(k)'
  <2>1. UNCHANGED <<life, del, deleted>> /\ (k \in raced => k \in raced') /\ life # 0
    BY <1>21 DEF DiesHandled, Stays
  <2>2. \A m \in Lives : Switching(k, m) =>
          Switching(k, m)' \/ k \in raced' \/ remote'[k] = life \/ k \notin sessions' \/ k \in deleted \cap Providers
    BY <1>21, <2>1 DEF DiesHandled, Goes, Switching, R, Lives, Reached, PastInv, InMidStep
  <2>3. remote[k] = life => remote'[k] = life \/ k \in raced' \/ k \notin sessions'
    BY <1>21, Numbers DEF DiesHandled, PastInv, StageInv, R, Lives, InMidStep
  <2>4. k \in sessions' => k \in sessions \/ \E m \in Lives : Switching(k, m)'
    BY <1>21, <2>1 DEF DiesHandled, Goes, Switching, Reached, R
  <2>5. \A d \in Deleters : Destroying(k, d)' <=> Destroying(k, d)
    BY <2>1 DEF Destroying
  <2> QED
    BY <2>1, <2>2, <2>3, <2>4, <2>5, Names DEF KnownInv
<1>22. ASSUME NEW l \in Lives, Stays(k), Attempted(k, l) PROVE KnownInv(k)'
  <2>1. UNCHANGED <<life, del, deleted>> /\ (k \in raced => k \in raced') /\ life # 0
    BY <1>22 DEF Attempted, Stays
  <2>2. \A m \in Lives : Switching(k, m) =>
          Switching(k, m)' \/ k \in raced' \/ remote'[k] = life \/ k \notin sessions' \/ k \in deleted \cap Providers
    BY <1>22, <2>1 DEF Attempted, Goes, Switching, R, Lives, Reached, PastInv
  <2>3. remote[k] = life => remote'[k] = life \/ k \in raced' \/ k \notin sessions'
    BY <1>22, Numbers DEF Attempted, PastInv, StageInv, R, Lives
  <2>4. k \in sessions' => k \in sessions \/ \E m \in Lives : Switching(k, m)'
    BY <1>22, <2>1 DEF Attempted, Goes, Switching, Reached, R
  <2>5. \A d \in Deleters : Destroying(k, d)' <=> Destroying(k, d)
    BY <2>1 DEF Destroying
  <2> QED
    BY <2>1, <2>2, <2>3, <2>4, <2>5, Names DEF KnownInv
<1>23. ASSUME NEW l \in Lives, Stays(k), Created(k, l) PROVE KnownInv(k)'
  <2>1. UNCHANGED <<life, del, deleted>> /\ (k \in raced => k \in raced') /\ life # 0
    BY <1>23 DEF Created, Stays
  <2>2. \A m \in Lives : Switching(k, m) =>
          Switching(k, m)' \/ k \in raced' \/ remote'[k] = life \/ k \notin sessions' \/ k \in deleted \cap Providers
    BY <1>23, <2>1 DEF Created, Goes, Switching, R, Lives, Reached, PastInv
  <2>3. remote[k] = life => remote'[k] = life \/ k \in raced' \/ k \notin sessions'
    BY <1>23, Numbers DEF Created, PastInv, StageInv, R, Lives
  <2>4. k \in sessions' => k \in sessions \/ \E m \in Lives : Switching(k, m)'
    BY <1>23, <2>1 DEF Created, Goes, Switching, Reached, R
  <2>5. \A d \in Deleters : Destroying(k, d)' <=> Destroying(k, d)
    BY <2>1 DEF Destroying
  <2> QED
    BY <2>1, <2>2, <2>3, <2>4, <2>5, Names DEF KnownInv
<1>24. ASSUME NEW l \in Lives, Stays(k), Took(k, l) PROVE KnownInv(k)'
  <2>1. UNCHANGED <<life, del, deleted>> /\ (k \in raced => k \in raced') /\ life # 0
    BY <1>24 DEF Took, Stays
  <2>2. \A m \in Lives : Switching(k, m) =>
          Switching(k, m)' \/ k \in raced' \/ remote'[k] = life \/ k \notin sessions' \/ k \in deleted \cap Providers
    BY <1>24, <2>1 DEF Took, Goes, Switching, R, Lives, Reached, PastInv
  <2>3. remote[k] = life => remote'[k] = life \/ k \in raced' \/ k \notin sessions'
    <3>1. R(k, l).life <= life /\ R(k, l).life \in Nat /\ life \in Nat
      BY Numbers DEF PastInv
    <3>2. \A x, y \in Nat : x <= y /\ ~(y > x) => x = y
      OBVIOUS
    <3>3. ~(life > R(k, l).life) => R(k, l).life = life
      BY <3>1, <3>2
    <3>4. remote'[k] = remote[k] \/ (remote'[k] = R(k, l).life /\ (remote[k] > R(k, l).life => k \in raced'))
      BY <1>24 DEF Took
    <3> QED
      BY <3>3, <3>4
  <2>4. k \in sessions' => k \in sessions \/ \E m \in Lives : Switching(k, m)'
    BY <1>24, <2>1 DEF Took, Goes, Switching, Reached, R
  <2>5. \A d \in Deleters : Destroying(k, d)' <=> Destroying(k, d)
    BY <2>1 DEF Destroying
  <2> QED
    BY <2>1, <2>2, <2>3, <2>4, <2>5, Names DEF KnownInv
<1>25. ASSUME NEW l \in Lives, Stays(k), Ended(k, l) PROVE KnownInv(k)'
  <2>1. UNCHANGED <<life, del, deleted>> /\ (k \in raced => k \in raced') /\ life # 0
    BY <1>25 DEF Ended, Stays
  <2>2. \A m \in Lives : Switching(k, m) =>
          Switching(k, m)' \/ k \in raced' \/ remote'[k] = life \/ k \notin sessions' \/ k \in deleted \cap Providers
    BY <1>25, <2>1 DEF Ended, Goes, Switching, R, Lives, Reached, PastInv
  <2>3. remote[k] = life => remote'[k] = life \/ k \in raced' \/ k \notin sessions'
    BY <1>25, Numbers DEF Ended, PastInv, StageInv, R, Lives
  <2>4. k \in sessions' => k \in sessions \/ \E m \in Lives : Switching(k, m)'
    BY <1>25, <2>1 DEF Ended, Goes, Switching, Reached, R
  <2>5. \A d \in Deleters : Destroying(k, d)' <=> Destroying(k, d)
    BY <2>1 DEF Destroying
  <2> QED
    BY <2>1, <2>2, <2>3, <2>4, <2>5, Names DEF KnownInv
<1>26. OfCalls(k) => KnownInv(k)'
  BY <1>3, <1>4, <1>5, <1>6, <1>7, <1>8, <1>9, <1>10, <1>11, <1>12 DEF OfCalls
<1>27. OfDeletion(k) => KnownInv(k)'
  BY <1>13, <1>14, <1>15, <1>16, <1>17, <1>18, <1>19, <1>20 DEF OfDeletion
<1>28. OfRecovery(k) => KnownInv(k)'
  BY RecoveryMoves, <1>21, <1>22, <1>23, <1>24, <1>25 DEF RecoveryStep
<1> QED
  BY <1>1, <1>2, <1>26, <1>27, <1>28 DEF Own

(* Before the first death.                                                 *)
LEMMA FirstHolds ==
    ASSUME TypeInv, NEW k \in Handles, PastInv(k), StageInv(k), FirstInv(k), Own(k)
    PROVE  FirstInv(k)'
<1> USE DEF TypeInv, ServiceOK, FieldsOK, ThreadsOK
<1>1. ASSUME ServiceDies PROVE FirstInv(k)'
  BY <1>1, Names, Numbers DEF ServiceDies, FirstInv, R, Lives, PastInv, StageInv, Unborn,
     DeletionOK
<1>2. ASSUME ServiceStarts PROVE FirstInv(k)'
  BY <1>2, Names, Numbers DEF ServiceStarts, FirstInv, R, Lives, PastInv, StageInv, Unborn,
     DeletionOK
<1>3. ASSUME SetDeathRecipient(k) PROVE FirstInv(k)'
  BY <1>3, Names, Numbers DEF SetDeathRecipient, Reached, FirstInv, R, Lives, PastInv,
     StageInv, Unborn, DeletionOK
<1>4. ASSUME k \in Clients, CreatClient(k) PROVE FirstInv(k)'
  BY <1>4, Names, Numbers DEF CreatClient, MakeSession, FirstInv, R, Lives, PastInv,
     StageInv, Unborn, DeletionOK
<1>5. ASSUME k \in Clients, Answered(k) PROVE FirstInv(k)'
  <2>1. \/ CallMoves(k, "idle") /\ call'[k].life = 0 /\ UNCHANGED eventIds
        \/ /\ CallMoves(k, "answered") /\ call'[k].life = call[k].life
           /\ call'[k].op = call[k].op /\ call'[k].event = call[k].event
           /\ Reached(call[k].life) /\ k \in sessions
           /\ eventIds' = [eventIds EXCEPT ![k] = Changed(eventIds[k], k)]
    BY <1>5, CallSteps
  <2> QED
    BY <1>5, <2>1, Names, Numbers DEF Answered, CallMoves, Reached, FirstInv, R, Lives,
       PastInv, StageInv, Unborn, DeletionOK
<1>6. ASSUME k \in Clients, Record(k) PROVE FirstInv(k)'
  <2>1. CallMoves(k, "idle") /\ call'[k].life = 0
    BY <1>6, CallSteps
  <2> QED
    BY <1>6, <2>1, Names, Numbers DEF Record, CallMoves, Changed, FirstInv, R, Lives,
       PastInv, StageInv, Unborn, DeletionOK
<1>7. ASSUME k \in Providers, NapiCreateAuthProvider(k) PROVE FirstInv(k)'
  BY <1>7, Names, Numbers DEF NapiCreateAuthProvider, MakeSession, CreateProvider,
     FirstInv, R, Lives, PastInv, StageInv, Unborn, DeletionOK
<1>8. ASSUME k \in Providers, OnClientStatusChangedTsfnCall(k) PROVE FirstInv(k)'
  BY <1>8, Names, Numbers DEF OnClientStatusChangedTsfnCall, FirstInv, R, Lives, PastInv,
     StageInv, Unborn, DeletionOK
<1>9. ASSUME k \in Clients, NEW e \in Events, NEW op \in {"sub", "unsub"}, Use(k, op, e)
      PROVE  FirstInv(k)'
  <2>1. CallMoves(k, "sent") /\ call'[k].life = remote[k]
    BY <1>9, CallSteps
  <2> QED
    BY <1>9, <2>1, Names, Numbers DEF Use, CallMoves, FirstInv, R, Lives, PastInv,
       StageInv, Unborn, DeletionOK
<1>10. ASSUME OnAuthEvent(k) PROVE FirstInv(k)'
  BY <1>10, Names, Numbers DEF OnAuthEvent, FirstInv, R, Lives, PastInv, StageInv, Unborn,
     DeletionOK
<1>11. ASSUME RunCallback(k) PROVE FirstInv(k)'
  BY <1>11, Names, Numbers DEF RunCallback, FirstInv, R, Lives, PastInv, StageInv, Unborn,
     DeletionOK
<1>12. ASSUME CallbackReturns(k) PROVE FirstInv(k)'
  BY <1>12, Names, Numbers DEF CallbackReturns, OnClientStatusChangedCallback, FirstInv, R,
     Lives, PastInv, StageInv, Unborn, DeletionOK
<1>13. ASSUME NEW d \in Deleters, ClearCallBack(k, d) PROVE FirstInv(k)'
  <2>1. DelMoves(k, d, IF k \in Clients THEN "mark" ELSE "destroy", del[k][d].life)
    BY <1>13, Names, DelSteps
  <2>2. \A e \in Deleters :
            /\ del'[k][e].life = del[k][e].life
            /\ (del'[k][e].at \in {"clear", "destroy"} => del[k][e].at \in {"clear", "destroy"})
            /\ (del'[k][e].at \in {"done", "freed"} => del[k][e].at \in {"done", "freed"})
    BY <1>13, <2>1, Names DEF DelMoves, ClearCallBack, Stage
  <2> QED
    BY <1>13, <2>2, Names DEF ClearCallBack, Stage, FirstInv, R, Lives
<1>14. ASSUME k \in Clients, NEW d \in Deleters, Release(k, d) PROVE FirstInv(k)'
  <2>1. DelMoves(k, d, "clear", del[k][d].life)
    BY <1>14, Names, DelSteps
  <2> QED
    BY <1>14, <2>1, Names, Numbers DEF DelMoves, Release, Stage, FirstInv, R, Lives,
       PastInv, StageInv, Unborn, DeletionOK
<1>15. ASSUME k \in Clients, NEW d \in Deleters, MarkDeleted(k, d) PROVE FirstInv(k)'
  <2>1. DelMoves(k, d, "destroy", remote[k])
    BY <1>15, Names, DelSteps
  <2> QED
    BY <1>15, <2>1, Names, Numbers DEF DelMoves, MarkDeleted, Stage, FirstInv, R, Lives,
       PastInv, StageInv, Unborn, DeletionOK
<1>16. ASSUME k \in Clients, NEW d \in Deleters, DestroyRemoteObjects(k, d)
       PROVE  FirstInv(k)'
  <2>1. DestroySession(k, d) /\ k \in Handles /\ del[k][d].at = "destroy"
    BY <1>16, Names DEF DestroyRemoteObjects, DestroySession, Stage
  <2>2. DelMoves(k, d, "done", del[k][d].life)
    BY <2>1, DelSteps
  <2>3. /\ sessions' = IF Reached(del[k][d].life) THEN sessions \ {k} ELSE sessions
        /\ \A g \in Handles \ {k} : eventIds'[g] = eventIds[g]
        /\ ~Reached(del[k][d].life) => UNCHANGED eventIds
    BY <2>1, Dropped DEF DestroySession
  <2> QED
    BY <1>16, <2>1, <2>2, <2>3, Names, Numbers DEF DestroyRemoteObjects, DelMoves, Reached,
       FirstInv, R, Lives, PastInv, StageInv, Unborn, DeletionOK
<1>17. ASSUME k \in Providers, NEW d \in Deleters, DeleteProvider(k, d) PROVE FirstInv(k)'
  <2>1. DelMoves(k, d, IF k \in deleted THEN "returned" ELSE "read", del[k][d].life)
    BY <1>17, Names, DelSteps
  <2>2. \A e \in Deleters :
            /\ del'[k][e].life = del[k][e].life
            /\ (del'[k][e].at \in {"clear", "destroy"} => del[k][e].at \in {"clear", "destroy"})
            /\ (del'[k][e].at \in {"done", "freed"} => del[k][e].at \in {"done", "freed"})
    BY <1>17, <2>1, Names DEF DelMoves, DeleteProvider, Stage
  <2> QED
    BY <1>17, <2>2, Names DEF DeleteProvider, Stage, FirstInv, R, Lives
<1>18. ASSUME k \in Providers, NEW d \in Deleters, ReadSession(k, d) PROVE FirstInv(k)'
  <2>1. DelMoves(k, d, "clear", remote[k])
    BY <1>18, Names, DelSteps
  <2> QED
    BY <1>18, <2>1, Names, Numbers DEF DelMoves, ReadSession, Stage, FirstInv, R, Lives,
       PastInv, StageInv, Unborn, DeletionOK
<1>19. ASSUME k \in Providers, NEW d \in Deleters, DestroyProviderObjects(k, d)
       PROVE  FirstInv(k)'
  <2>1. DestroySession(k, d) /\ k \in Handles /\ del[k][d].at = "destroy"
    BY <1>19, Names DEF DestroyProviderObjects, DestroySession, Stage
  <2>2. DelMoves(k, d, "done", del[k][d].life)
    BY <2>1, DelSteps
  <2>3. /\ sessions' = IF Reached(del[k][d].life) THEN sessions \ {k} ELSE sessions
        /\ \A g \in Handles \ {k} : eventIds'[g] = eventIds[g]
        /\ ~Reached(del[k][d].life) => UNCHANGED eventIds
    BY <2>1, Dropped DEF DestroySession
  <2> QED
    BY <1>19, <2>1, <2>2, <2>3, Names, Numbers DEF DestroyProviderObjects, DelMoves,
       Reached, FirstInv, R, Lives, PastInv, StageInv, Unborn, DeletionOK
<1>20. ASSUME k \in Providers, NEW d \in Deleters, NapiDestroyAuthProvider(k, d)
       PROVE  FirstInv(k)'
  <2>1. DelMoves(k, d, "freed", del[k][d].life)
    BY <1>20, Names, DelSteps
  <2> QED
    BY <1>20, <2>1, Names, Numbers DEF DelMoves, NapiDestroyAuthProvider, Stage,
       ReleaseTsfn, FirstInv, R, Lives, PastInv, StageInv, Unborn, DeletionOK
<1>21. ASSUME NEW l \in Lives, Stays(k), DiesHandled(k, l) PROVE FirstInv(k)'
  BY <1>21, Names, Numbers DEF DiesHandled, Stays, Goes, FirstInv, R, Lives, PastInv,
     StageInv, Unborn, DeletionOK
<1>22. ASSUME NEW l \in Lives, Stays(k), Attempted(k, l) PROVE FirstInv(k)'
  BY <1>22, Names, Numbers DEF Attempted, Stays, Goes, FirstInv, R, Lives, PastInv,
     StageInv, Unborn, DeletionOK
<1>23. ASSUME NEW l \in Lives, Stays(k), Created(k, l) PROVE FirstInv(k)'
  BY <1>23, Names, Numbers DEF Created, Stays, Goes, FirstInv, R, Lives, PastInv, StageInv,
     Unborn, DeletionOK
<1>24. ASSUME NEW l \in Lives, Stays(k), Took(k, l) PROVE FirstInv(k)'
  BY <1>24, Names, Numbers DEF Took, Stays, Goes, FirstInv, R, Lives, PastInv, StageInv,
     Unborn, DeletionOK
<1>25. ASSUME NEW l \in Lives, Stays(k), Ended(k, l) PROVE FirstInv(k)'
  BY <1>25, Names, Numbers DEF Ended, Stays, Goes, FirstInv, R, Lives, PastInv, StageInv,
     Unborn, DeletionOK
<1>26. OfCalls(k) => FirstInv(k)'
  BY <1>3, <1>4, <1>5, <1>6, <1>7, <1>8, <1>9, <1>10, <1>11, <1>12 DEF OfCalls
<1>27. OfDeletion(k) => FirstInv(k)'
  BY <1>13, <1>14, <1>15, <1>16, <1>17, <1>18, <1>19, <1>20 DEF OfDeletion
<1>28. OfRecovery(k) => FirstInv(k)'
  BY RecoveryMoves, <1>21, <1>22, <1>23, <1>24, <1>25 DEF RecoveryStep
<1> QED
  BY <1>1, <1>2, <1>26, <1>27, <1>28 DEF Own

-------------------------------------------------------------------------------
(* Whether a handle is served: it is, it will hear of a death, or it is    *)
(* being restored.                                                         *)

(* The steps that are about something else.                                *)
Elsewhere(k) ==
    /\ UNCHANGED <<life, up, sessions, eventIds, remote, obits, unseen, gaveUp, raced, rec>>
    /\ UNCHANGED <<state, recorded, call, deleted>>

LEMMA SameServed ==
    ASSUME NEW k \in Handles, ServedInv(k), Elsewhere(k)
    PROVE  ServedInv(k)'
<1> USE DEF Elsewhere, R
<1>1. RecInv(k) => RecInv(k)'
  BY DEF RecInv, Switching, Reached
<1>2. Attached(k) => Attached(k)'
  BY DEF Attached, Due, Coming, Changed
<1>3. Told(k) => Told(k)'
  BY DEF Told
<1>4. Restoring(k) => Restoring(k)'
  BY DEF Restoring, Reached
<1>5. Orderly(k)' => Orderly(k)
  BY DEF Orderly
<1> QED
  BY <1>1, <1>2, <1>3, <1>4, <1>5 DEF ServedInv

LEMMA ServedHolds ==
    ASSUME TypeInv, NEW k \in Handles, PastInv(k), StageInv(k), KnownInv(k), HasSession(k), ServedInv(k), Own(k)
    PROVE  ServedInv(k)'
<1> USE DEF TypeInv, ServiceOK, FieldsOK, ThreadsOK
<1>1. ASSUME ServiceDies PROVE ServedInv(k)'
  <2> SUFFICES ASSUME Orderly(k)' PROVE RecInv(k)' /\ Told(k)'
    BY DEF ServedInv
  <2>1. Orderly(k) /\ k \in watching /\ life \in Lives
    BY <1>1 DEF ServiceDies, Orderly, Lives
  <2>2. RecInv(k)
    BY <2>1 DEF ServedInv
  <2>3. <<k, life>> \in obits' /\ obits \subseteq obits' /\ ~up' /\ UNCHANGED <<rec, life>>
    BY <1>1, <2>1 DEF ServiceDies
  <2>4. Told(k)'
    BY <2>1, <2>3 DEF Told
  <2> QED
    BY <2>2, <2>3, <2>4 DEF RecInv, Reached, R
<1>2. ASSUME ServiceStarts PROVE ServedInv(k)'
  <2> SUFFICES ASSUME Orderly(k)' PROVE RecInv(k)' /\ (Told(k)' \/ Restoring(k)')
    BY DEF ServedInv
  <2>1. Orderly(k) /\ RecInv(k) /\ (Told(k) \/ Restoring(k))
    BY <1>2 DEF ServiceStarts, Orderly, ServedInv, Attached
  <2>2. /\ life' = life + 1 /\ ~up
        /\ UNCHANGED <<obits, rec, remote, call, recorded>>
    BY <1>2 DEF ServiceStarts
  <2>3. remote[k] # life' /\ call[k].life # life'
    BY <2>2, Numbers DEF PastInv
  <2>4. \A l \in Lives : R(k, l).life # life'
    <3>1. \A l \in Lives : R(k, l).life \in Nat /\ life \in Nat /\ R(k, l).life <= life
      BY Numbers DEF PastInv
    <3> QED
      BY <2>2, <3>1
  <2>5. RecInv(k)'
    BY <2>1, <2>2, <2>3, <2>4 DEF RecInv, Reached, Switching, R
  <2>6. Told(k) => Told(k)'
    BY <2>2 DEF Told
  <2>7. Restoring(k) => Restoring(k)'
    BY <2>2, <2>3 DEF Restoring, Reached, R
  <2> QED
    BY <2>1, <2>5, <2>6, <2>7
<1>3. ASSUME SetDeathRecipient(k) PROVE ServedInv(k)'
  <2> SUFFICES ASSUME Orderly(k)' PROVE RecInv(k)' /\ Attached(k)'
    BY DEF ServedInv
  <2>1. /\ up' /\ remote'[k] = life'
        /\ UNCHANGED <<call, rec, recorded>>
    BY <1>3 DEF SetDeathRecipient, Orderly, Reached
  <2>2. recorded[k] = {} /\ call[k].at = "idle" /\ \A l \in Lives : R(k, l).at = "idle"
    BY <1>3 DEF SetDeathRecipient, StageInv, Unborn
  <2> QED
    BY <2>1, <2>2 DEF RecInv, Attached, Due, Switching, Mid, R
<1>4. ASSUME k \in Clients, CreatClient(k) PROVE ServedInv(k)'
  BY <1>4, Names DEF ServedInv, Orderly, CreatClient, MakeSession
<1>5. ASSUME k \in Clients, Answered(k) PROVE ServedInv(k)'
  <2> SUFFICES ASSUME Orderly(k)' PROVE RecInv(k)' /\ (Attached(k)' \/ Told(k)' \/ Restoring(k)')
    BY DEF ServedInv
  <2>1. \/ CallMoves(k, "idle") /\ call'[k].life = 0 /\ UNCHANGED eventIds
        \/ /\ CallMoves(k, "answered") /\ call'[k].life = call[k].life
           /\ call'[k].op = call[k].op /\ call'[k].event = call[k].event
           /\ Reached(call[k].life) /\ k \in sessions
           /\ eventIds' = [eventIds EXCEPT ![k] = Changed(eventIds[k], k)]
    BY <1>5, CallSteps
  <2>2. call[k].at = "sent" /\ UNCHANGED <<life, up, remote, recorded, rec, obits>>
    BY <1>5 DEF Answered
  <2>3. Orderly(k) /\ RecInv(k) /\ (Attached(k) \/ Told(k) \/ Restoring(k))
    BY <1>5 DEF Answered, Orderly, ServedInv
  <2>4. RecInv(k)'
    <3>1. call'[k].at # "sent"
      BY <2>1 DEF CallMoves
    <3> QED
      BY <2>2, <2>3, <3>1 DEF RecInv, Switching, Reached, R
  <2>5. Told(k) => Told(k)'
    BY <2>2 DEF Told
  <2>6. Coming(k)' = Coming(k)
    BY <2>2 DEF Coming, R
  <2>7. Attached(k) => Attached(k)'
    <3>1. CASE call'[k].at = "idle" /\ UNCHANGED eventIds
      BY <2>2, <2>6, <3>1 DEF Attached, Due
    <3>2. CASE /\ call'[k].at = "answered" /\ call'[k].op = call[k].op /\ call'[k].event = call[k].event
               /\ eventIds' = [eventIds EXCEPT ![k] = Changed(eventIds[k], k)]
      BY <2>2, <2>6, <3>2 DEF Attached, Due, Changed
    <3> QED
      BY <2>1, <3>1, <3>2 DEF CallMoves
  <2>8. Restoring(k) => Restoring(k)'
    <3>1. Restoring(k) => call'[k].at = "idle"
      BY <2>1, <2>2 DEF Restoring, CallMoves
    <3> QED
      BY <2>2, <3>1 DEF Restoring, R
  <2> QED
    BY <2>3, <2>4, <2>5, <2>7, <2>8
<1>6. ASSUME k \in Clients, Record(k) PROVE ServedInv(k)'
  <2> SUFFICES ASSUME Orderly(k)' PROVE RecInv(k)' /\ (Attached(k)' \/ Told(k)' \/ Restoring(k)')
    BY DEF ServedInv
  <2>1. CallMoves(k, "idle") /\ call'[k].life = 0
    BY <1>6, CallSteps
  <2>2. /\ call[k].at = "answered" /\ UNCHANGED <<life, up, remote, rec, obits, eventIds>>
        /\ recorded'[k] = Changed(recorded[k], k)
    BY <1>6 DEF Record
  <2>3. Orderly(k) /\ RecInv(k) /\ (Attached(k) \/ Told(k) \/ Restoring(k))
    BY <1>6 DEF Record, Orderly, ServedInv
  <2>4. call'[k].at = "idle"
    BY <2>1 DEF CallMoves
  <2>5. RecInv(k)'
    BY <2>2, <2>3, <2>4 DEF RecInv, Switching, Reached, R
  <2>6. Told(k) => Told(k)'
    BY <2>2 DEF Told
  <2>7. Coming(k)' = Coming(k) /\ Due(k)' = Due(k)
    BY <2>2, <2>4 DEF Coming, Due, R
  <2>8. Attached(k) => Attached(k)'
    BY <2>2, <2>7 DEF Attached
  <2> QED
    BY <2>2, <2>3, <2>5, <2>6, <2>8 DEF Restoring
<1>7. ASSUME k \in Providers, NapiCreateAuthProvider(k) PROVE ServedInv(k)'
  BY <1>7, Names DEF ServedInv, Orderly, NapiCreateAuthProvider, MakeSession, CreateProvider
<1>8. ASSUME k \in Providers, OnClientStatusChangedTsfnCall(k) PROVE ServedInv(k)'
  <2>1. Elsewhere(k)
    BY <1>8 DEF Elsewhere, OnClientStatusChangedTsfnCall
  <2> QED
    BY <2>1, SameServed
<1>9. ASSUME k \in Clients, NEW e \in Events, NEW op \in {"sub", "unsub"}, Use(k, op, e)
      PROVE  ServedInv(k)'
  <2> SUFFICES ASSUME Orderly(k)' PROVE RecInv(k)' /\ (Attached(k)' \/ Told(k)' \/ Restoring(k)')
    BY DEF ServedInv
  <2>1. CallMoves(k, "sent") /\ call'[k].life = remote[k]
    BY <1>9, CallSteps
  <2>2. /\ call[k].at = "idle" /\ UNCHANGED <<life, up, remote, recorded, rec, obits, eventIds>>
        /\ call'[k].at = "sent" /\ call'[k].life = remote[k]
    BY <1>9, <2>1 DEF Use, CallMoves
  <2>3. Orderly(k) /\ RecInv(k) /\ (Attached(k) \/ Told(k) \/ Restoring(k))
    BY <1>9 DEF Use, Orderly, ServedInv
  <2>4. RecInv(k)'
    BY <2>2, <2>3 DEF RecInv, Switching, Reached, R
  <2>5. Told(k) => Told(k)'
    BY <2>2 DEF Told
  <2>6. Coming(k)' = Coming(k) /\ Due(k)' = Due(k)
    BY <2>2 DEF Coming, Due, R
  <2>7. Attached(k) => Attached(k)'
    BY <2>2, <2>6 DEF Attached
  <2>8. Restoring(k) => Restoring(k)'
    BY <2>2 DEF Restoring, Reached, R
  <2> QED
    BY <2>3, <2>4, <2>5, <2>7, <2>8
<1>10. ASSUME OnAuthEvent(k) PROVE ServedInv(k)'
  <2>1. Elsewhere(k)
    BY <1>10 DEF Elsewhere, OnAuthEvent
  <2> QED
    BY <2>1, SameServed
<1>11. ASSUME RunCallback(k) PROVE ServedInv(k)'
  <2>1. Elsewhere(k)
    BY <1>11 DEF Elsewhere, RunCallback
  <2> QED
    BY <2>1, SameServed
<1>12. ASSUME CallbackReturns(k) PROVE ServedInv(k)'
  <2>1. Elsewhere(k)
    BY <1>12 DEF Elsewhere, CallbackReturns, OnClientStatusChangedCallback
  <2> QED
    BY <2>1, SameServed
<1>13. ASSUME NEW d \in Deleters, ClearCallBack(k, d) PROVE ServedInv(k)'
  <2>1. DelMoves(k, d, IF k \in Clients THEN "mark" ELSE "destroy", del[k][d].life)
    BY <1>13, Names, DelSteps
  <2>2. Elsewhere(k)
    BY <1>13, <2>1 DEF Elsewhere, DelMoves, ClearCallBack, Stage
  <2> QED
    BY <2>2, SameServed
<1>14. ASSUME k \in Clients, NEW d \in Deleters, Release(k, d) PROVE ServedInv(k)'
  <2>1. DelMoves(k, d, "clear", del[k][d].life)
    BY <1>14, Names, DelSteps
  <2>2. Elsewhere(k)
    BY <1>14, <2>1 DEF Elsewhere, DelMoves, Release, Stage
  <2> QED
    BY <2>2, SameServed
<1>15. ASSUME k \in Clients, NEW d \in Deleters, MarkDeleted(k, d) PROVE ServedInv(k)'
  BY <1>15, Names DEF ServedInv, Orderly, MarkDeleted, Stage
<1>16. ASSUME k \in Clients, NEW d \in Deleters, DestroyRemoteObjects(k, d)
       PROVE  ServedInv(k)'
  <2>1. DestroySession(k, d) /\ k \in Handles /\ del[k][d].at = "destroy"
    BY <1>16, Names DEF DestroyRemoteObjects, DestroySession, Stage
  <2> QED
    BY <1>16, <2>1 DEF ServedInv, Orderly, StageInv, DeletionOK, DestroyRemoteObjects
<1>17. ASSUME k \in Providers, NEW d \in Deleters, DeleteProvider(k, d) PROVE ServedInv(k)'
  BY <1>17, Names DEF ServedInv, Orderly, DeleteProvider, Then, Stage
<1>18. ASSUME k \in Providers, NEW d \in Deleters, ReadSession(k, d) PROVE ServedInv(k)'
  <2>1. DelMoves(k, d, "clear", remote[k])
    BY <1>18, Names, DelSteps
  <2>2. Elsewhere(k)
    BY <1>18, <2>1 DEF Elsewhere, DelMoves, ReadSession, Stage
  <2> QED
    BY <2>2, SameServed
<1>19. ASSUME k \in Providers, NEW d \in Deleters, DestroyProviderObjects(k, d)
       PROVE  ServedInv(k)'
  <2>1. DestroySession(k, d) /\ k \in Handles /\ del[k][d].at = "destroy"
    BY <1>19, Names DEF DestroyProviderObjects, DestroySession, Stage
  <2> QED
    BY <1>19, <2>1 DEF ServedInv, Orderly, StageInv, DeletionOK, DestroyProviderObjects
<1>20. ASSUME k \in Providers, NEW d \in Deleters, NapiDestroyAuthProvider(k, d)
      PROVE  ServedInv(k)'
  <2>1. DelMoves(k, d, "freed", del[k][d].life)
    BY <1>20, Names, DelSteps
  <2>2. Elsewhere(k)
    BY <1>20, <2>1 DEF Elsewhere, DelMoves, NapiDestroyAuthProvider, Stage, ReleaseTsfn
  <2> QED
    BY <2>2, SameServed
<1>21. ASSUME NEW l \in Lives, Stays(k), DiesHandled(k, l) PROVE ServedInv(k)'
  <2> SUFFICES ASSUME Orderly(k)' PROVE RecInv(k)' /\ Restoring(k)'
    BY DEF ServedInv
  <2>1. /\ UNCHANGED <<life, up, call>> /\ recorded'[k] = recorded[k]
        /\ k \notin raced' /\ remote'[k] \in {0, remote[k]} /\ life # 0
    BY <1>21 DEF Stays, DiesHandled, Orderly
  <2>2. Orderly(k) /\ RecInv(k)
    BY <1>21 DEF Stays, DiesHandled, Orderly, ServedInv
  <2>3. /\ call[k].at # "answered" /\ ~(remote[k] > l)
        /\ \A m \in Lives : R(k, m).at \notin Mid /\ (R(k, m).at = "wait" => R(k, m).events = recorded[k])
    BY <1>21, <2>1 DEF DiesHandled, InMidStep, Mid, R, Lives
  <2>4. up => remote[k] # life
    <3>1. l \in Nat /\ life \in Nat /\ remote[k] \in Nat /\ (up => l < life)
      BY <1>21, Numbers DEF DiesHandled, PastInv
    <3> QED
      BY <2>3, <3>1
  <2>5. R(k, l)'.at = "wait" /\ R(k, l)'.events = recorded[k] /\ \A m \in Lives \ {l} : R(k, m)' = R(k, m)
    BY <1>21 DEF DiesHandled, Goes
  <2>6. \A m \in Lives : R(k, m)'.at \notin Mid /\ (R(k, m)'.at = "wait" => R(k, m)'.events = recorded[k])
    BY <2>3, <2>5 DEF Mid, R
  <2>7. RecInv(k)'
    BY <2>1, <2>2, <2>4, <2>6 DEF RecInv, Switching, Mid, Reached, R
  <2>8. Restoring(k)'
    BY <2>1, <2>2, <2>3, <2>4, <2>5, <2>6 DEF Restoring, RecInv, Reached, Begun, Mid, R
  <2> QED
    BY <2>7, <2>8
<1>22. ASSUME NEW l \in Lives, Stays(k), Attempted(k, l) PROVE ServedInv(k)'
  <2> SUFFICES ASSUME Orderly(k)' PROVE RecInv(k)' /\ (Attached(k)' \/ Told(k)' \/ Restoring(k)')
    BY DEF ServedInv
  <2>1. UNCHANGED <<life, up, call, obits>> /\ recorded'[k] = recorded[k]
    BY <1>22 DEF Stays, Attempted
  <2>2. Orderly(k) /\ RecInv(k) /\ (Attached(k) \/ Told(k) \/ Restoring(k))
    BY <1>22 DEF Stays, Attempted, Orderly, ServedInv
  <2>3. Told(k) => Told(k)'
    BY <2>1 DEF Told
  <2>4. \A m \in Lives \ {l} : R(k, m)' = R(k, m)
    BY <1>22 DEF Attempted, Goes
  <2>5. /\ UNCHANGED <<remote, eventIds>> /\ R(k, l).at = "wait"
        /\ \/ R(k, l)'.at = "idle" /\ k \in sessions
           \/ /\ R(k, l)'.at = "wait" \/ (R(k, l)'.at = "create" /\ up /\ R(k, l)'.life = life)
              /\ R(k, l)'.events = R(k, l).events
    BY <1>22, <2>2 DEF Attempted, Goes, Orderly
  <2>6. RecInv(k)'
    <3>1. \A m \in Lives : Switching(k, m)' => Switching(k, m)
      BY <2>1, <2>4, <2>5 DEF Switching, R
    <3>2. \A m \in Lives : R(k, m)'.at \in Mid => R(k, m)' = R(k, m) \/ (up /\ R(k, m)'.life = life)
      BY <2>4, <2>5 DEF Mid, R
    <3> QED
      BY <2>1, <2>2, <2>5, <3>1, <3>2 DEF RecInv, Reached, R
  <2>7. Attached(k) => Attached(k)'
    <3>1. \A m \in Lives : R(k, m)'.at = "again" <=> R(k, m).at = "again"
      BY <2>4, <2>5 DEF R
    <3>2. \A m \in Lives : R(k, m).at = "again" => R(k, m)' = R(k, m)
      BY <2>4, <2>5 DEF R
    <3>3. Coming(k)' = Coming(k)
      BY <2>1, <3>1, <3>2 DEF Coming, R
    <3> QED
      BY <2>1, <2>5, <3>3 DEF Attached, Due, Changed
  <2>8. Restoring(k) => Restoring(k)'
    <3> SUFFICES ASSUME Restoring(k) PROVE Restoring(k)'
      OBVIOUS
    <3>1. \A m \in Lives : R(k, m)'.at \in Begun => R(k, m)'.events = recorded[k]
      BY <2>4, <2>5 DEF Restoring, Begun, R
    <3>2. CASE R(k, l)'.at = "idle" /\ k \in sessions
      <4>1. up /\ remote[k] # life /\ k \notin raced /\ k \notin deleted
        BY <2>2, <3>2 DEF Restoring, PastInv, Orderly
      <4>2. \A d \in Deleters : ~Destroying(k, d)
        BY <4>1 DEF StageInv, DeletionOK, Destroying
      <4>3. PICK m \in Lives : Switching(k, m)
        BY <3>2, <4>1, <4>2 DEF KnownInv
      <4>4. m # l /\ R(k, m)'.at \in Begun
        BY <2>4, <2>5, <4>3 DEF Switching, Begun, R
      <4> QED
        BY <2>1, <2>5, <3>1, <4>4 DEF Restoring, Reached, R
    <3>3. CASE R(k, l)'.at \in Begun
      BY <2>1, <2>5, <3>1, <3>3 DEF Restoring, Reached, R
    <3> QED
      BY <2>5, <3>2, <3>3 DEF Begun
  <2> QED
    BY <2>2, <2>3, <2>6, <2>7, <2>8
<1>23. ASSUME NEW l \in Lives, Stays(k), Created(k, l) PROVE ServedInv(k)'
  <2> SUFFICES ASSUME Orderly(k)' PROVE RecInv(k)' /\ (Attached(k)' \/ Told(k)' \/ Restoring(k)')
    BY DEF ServedInv
  <2>1. UNCHANGED <<life, up, call, obits>> /\ recorded'[k] = recorded[k]
    BY <1>23 DEF Stays, Created
  <2>2. Orderly(k) /\ RecInv(k) /\ (Attached(k) \/ Told(k) \/ Restoring(k))
    BY <1>23 DEF Stays, Created, Orderly, ServedInv
  <2>3. Told(k) => Told(k)'
    BY <2>1 DEF Told
  <2>4. \A m \in Lives \ {l} : R(k, m)' = R(k, m)
    BY <1>23 DEF Created, Goes
  <2>5. /\ UNCHANGED <<remote, eventIds>> /\ R(k, l).at = "create"
        /\ R(k, l)'.life = R(k, l).life /\ R(k, l)'.events = R(k, l).events
        /\ \/ R(k, l)'.at = "wait"
           \/ R(k, l)'.at = "switch" /\ Reached(R(k, l).life) /\ k \notin sessions
    BY <1>23 DEF Created, Goes
  <2>6. CASE R(k, l)'.at = "wait"
    <3>1. \A m \in Lives : Switching(k, m)' <=> Switching(k, m)
      BY <2>1, <2>4, <2>5, <2>6 DEF Switching, R
    <3>2. RecInv(k)'
      BY <2>1, <2>2, <2>4, <2>5, <2>6, <3>1 DEF RecInv, Reached, Mid, R
    <3>3. Coming(k)' = Coming(k)
      <4>1. \A m \in Lives : (R(k, m)'.at = "again" <=> R(k, m).at = "again")
                              /\ (R(k, m).at = "again" => R(k, m)' = R(k, m))
        BY <2>4, <2>5, <2>6
      <4> QED
        BY <2>1, <4>1 DEF Coming, R
    <3>4. Attached(k) => Attached(k)'
      BY <2>1, <2>5, <3>3 DEF Attached, Due, Changed
    <3>5. Restoring(k) => Restoring(k)'
      <4>1. \A m \in Lives : (R(k, m)'.at \in Begun <=> R(k, m).at \in Begun)
                              /\ R(k, m)'.events = R(k, m).events
        BY <2>4, <2>5, <2>6 DEF Begun
      <4> QED
        BY <2>1, <2>5, <4>1 DEF Restoring, Reached, R
    <3> QED
      BY <2>2, <2>3, <3>2, <3>4, <3>5
  <2>7. CASE R(k, l)'.at = "switch" /\ Reached(R(k, l).life) /\ k \notin sessions
    <3>1. remote[k] # life /\ up /\ \A m \in Lives : ~Switching(k, m)
      BY <2>2, <2>7 DEF HasSession, Orderly, Reached
    <3>2. \A m \in Lives \ {l} : ~Switching(k, m)'
      BY <2>1, <2>4, <3>1 DEF Switching, R
    <3>3. RecInv(k)'
      BY <2>1, <2>2, <2>4, <2>5, <2>7, <3>1, <3>2 DEF RecInv, Reached, Mid, R
    <3>4. Restoring(k) => Restoring(k)'
      <4>1. \A m \in Lives : (R(k, m)'.at \in Begun <=> R(k, m).at \in Begun)
                              /\ R(k, m)'.events = R(k, m).events
        BY <2>4, <2>5, <2>7 DEF Begun
      <4> QED
        BY <2>1, <2>5, <4>1 DEF Restoring, Reached, R
    <3> QED
      BY <2>2, <2>3, <3>1, <3>3, <3>4 DEF Attached
  <2> QED
    BY <2>5, <2>6, <2>7
<1>24. ASSUME NEW l \in Lives, Stays(k), Took(k, l) PROVE ServedInv(k)'
  <2> SUFFICES ASSUME Orderly(k)' PROVE RecInv(k)' /\ (Attached(k)' \/ Told(k)' \/ Restoring(k)')
    BY DEF ServedInv
  <2>1. UNCHANGED <<life, up, call, obits>> /\ recorded'[k] = recorded[k]
    BY <1>24 DEF Stays, Took
  <2>2. Orderly(k) /\ RecInv(k) /\ (Attached(k) \/ Told(k) \/ Restoring(k))
    BY <1>24 DEF Stays, Took, Orderly, ServedInv
  <2>3. Told(k) => Told(k)'
    BY <2>1 DEF Told
  <2>4. \A m \in Lives \ {l} : R(k, m)' = R(k, m)
    BY <1>24 DEF Took, Goes
  <2>5. /\ UNCHANGED eventIds /\ remote'[k] = R(k, l).life /\ ~(remote[k] > R(k, l).life)
        /\ R(k, l).at = "switch" /\ R(k, l)'.at = "again"
        /\ R(k, l)'.life = R(k, l).life /\ R(k, l)'.events = R(k, l).events
    BY <1>24, <2>2 DEF Took, Goes, Orderly
  <2>6. remote[k] = life => R(k, l).life = life
    <3>1. R(k, l).life <= life /\ R(k, l).life \in Nat /\ life \in Nat
      BY Numbers DEF PastInv
    <3>2. \A x, y \in Nat : x <= y /\ ~(y > x) => x = y
      OBVIOUS
    <3>3. ~(life > R(k, l).life) => R(k, l).life = life
      BY <3>1, <3>2
    <3> QED
      BY <2>5, <3>3
  <2>7. up => remote[k] # life
    BY <2>2, <2>5, <2>6 DEF RecInv, Switching
  <2>8. RecInv(k)'
    <3>1. \A m \in Lives : R(k, m)'.life = R(k, m).life /\ (R(k, m)'.at \in Mid => R(k, m).at \in Mid)
      BY <2>4, <2>5 DEF Mid, R
    <3>2. (\A m \in Lives : R(k, m).at \in Mid => Reached(R(k, m).life) \/ <<k, R(k, m).life>> \in obits)'
      BY <2>1, <2>2, <3>1 DEF RecInv, Reached, R
    <3>3. \A m \in Lives : Switching(k, m)' => m # l /\ Switching(k, m)
      BY <2>1, <2>4, <2>5 DEF Switching, R
    <3>4. \A m \in Lives : Switching(k, m)' /\ up => R(k, l).life # life
      BY <2>2, <2>5, <3>3 DEF RecInv, Switching
    <3>5. (\A m \in Lives : Switching(k, m) /\ up =>
             remote[k] # life /\ \A n \in Lives \ {m} : ~Switching(k, n))'
      BY <2>1, <2>2, <2>5, <3>3, <3>4 DEF RecInv
    <3>6. (call[k].at = "sent" /\ Reached(call[k].life) => remote[k] = life)'
      BY <2>1, <2>2, <2>7 DEF RecInv, Reached
    <3> QED
      BY <3>2, <3>5, <3>6 DEF RecInv
  <2>9. Restoring(k) => Attached(k)' \/ Told(k)'
    <3> SUFFICES ASSUME Restoring(k) PROVE Attached(k)' \/ Told(k)'
      OBVIOUS
    <3>1. R(k, l).events = recorded[k] /\ call[k].at # "answered"
      BY <2>5 DEF Restoring, Begun
    <3>2. CASE Reached(R(k, l).life)
      <4>1. Due(k)' = recorded[k]
        BY <2>1, <3>1 DEF Due
      <4>2. recorded[k] \subseteq Coming(k)'
        <5>1. recorded[k] \subseteq Events
          BY DEF TypeInv, FieldsOK
        <5> QED
          BY <2>1, <2>5, <3>1, <3>2, <5>1 DEF Coming, Reached, R
      <4> QED
        BY <2>1, <2>5, <3>2, <4>1, <4>2 DEF Attached, Reached
    <3>3. CASE <<k, R(k, l).life>> \in obits
      <4>1. R(k, l).life \in Lives
        BY <3>3 DEF TypeInv, ThreadsOK, Recoveries, Lives
      <4> QED
        BY <2>1, <3>3, <4>1 DEF Told
    <3> QED
      BY <2>2, <2>5, <3>2, <3>3 DEF RecInv, Mid
  <2> QED
    BY <2>2, <2>3, <2>7, <2>8, <2>9 DEF Attached
<1>25. ASSUME NEW l \in Lives, Stays(k), Ended(k, l) PROVE ServedInv(k)'
  <2> SUFFICES ASSUME Orderly(k)' PROVE RecInv(k)' /\ (Attached(k)' \/ Told(k)' \/ Restoring(k)')
    BY DEF ServedInv
  <2>1. UNCHANGED <<life, up, call, obits>> /\ recorded'[k] = recorded[k]
    BY <1>25 DEF Stays, Ended
  <2>2. Orderly(k) /\ RecInv(k) /\ (Attached(k) \/ Told(k) \/ Restoring(k))
    BY <1>25 DEF Stays, Ended, Orderly, ServedInv
  <2>3. Told(k) => Told(k)'
    BY <2>1 DEF Told
  <2>4. \A m \in Lives \ {l} : R(k, m)' = R(k, m)
    BY <1>25 DEF Ended, Goes
  <2>5. UNCHANGED remote /\ R(k, l).at = "again" /\ (R(k, l)'.at = "again" => R(k, l)'.life = R(k, l).life)
        /\ R(k, l)'.at \in {"again", "idle"}
    BY <1>25 DEF Ended, Goes
  <2>6. RecInv(k)'
    <3>1. \A m \in Lives : R(k, m)'.at \in Mid => R(k, m)'.life = R(k, m).life /\ R(k, m).at \in Mid
      BY <2>4, <2>5 DEF Mid, R
    <3>2. \A m \in Lives : Switching(k, m)' <=> Switching(k, m)
      BY <2>1, <2>4, <2>5 DEF Switching, R
    <3> QED
      BY <2>1, <2>2, <2>5, <3>1, <3>2 DEF RecInv, Reached, R
  <2>7. Attached(k) => Attached(k)'
    <3> SUFFICES ASSUME Attached(k) PROVE eventIds[k] \cup Coming(k) \subseteq eventIds'[k] \cup Coming(k)'
      BY <2>1, <2>5 DEF Attached, Due, Changed
    <3>1. k \in sessions /\ up
      BY <2>2 DEF HasSession, Attached, Orderly
    <3>2. eventIds[k] \subseteq eventIds'[k]
      BY <1>25 DEF Ended
    <3>3. \A m \in Lives \ {l} : R(k, m)' = R(k, m)
      BY <2>4
    <3>4. \A e \in R(k, l).events :
            R(k, l).life = life =>
              e \in eventIds'[k] \/ (R(k, l)'.at = "again" /\ R(k, l)'.life = life /\ e \in R(k, l)'.events)
      BY <1>25, <3>1 DEF Ended, Goes, Reached
    <3>5. ASSUME NEW e \in Coming(k) PROVE e \in eventIds'[k] \cup Coming(k)'
      <4>1. PICK m \in Lives : R(k, m).at = "again" /\ R(k, m).life = life /\ e \in R(k, m).events
        BY <3>5 DEF Coming
      <4>2. e \in Events
        BY <3>5 DEF Coming
      <4>3. e \in eventIds'[k] \/ (R(k, m)'.at = "again" /\ R(k, m)'.life = life /\ e \in R(k, m)'.events)
        BY <2>4, <3>4, <4>1 DEF R
      <4> QED
        BY <2>1, <4>2, <4>3 DEF Coming, R
    <3> QED
      BY <3>2, <3>5
  <2>8. Restoring(k) => Restoring(k)'
    <3>1. \A m \in Lives : R(k, m)'.at \in Begun => m # l
      BY <2>5 DEF Begun, R
    <3>2. \A m \in Lives : R(k, m).at \in Begun => R(k, m)' = R(k, m)
      BY <2>4, <2>5 DEF Begun
    <3>3. Restoring(k) => \E m \in Lives : R(k, m)'.at \in Begun
      BY <3>2 DEF Restoring
    <3>4. Restoring(k) => \A m \in Lives : R(k, m)'.at \in Begun => R(k, m)'.events = recorded[k]
      BY <2>4, <3>1 DEF Restoring
    <3> QED
      BY <2>1, <2>5, <3>3, <3>4 DEF Restoring, Reached, R
  <2> QED
    BY <2>2, <2>3, <2>6, <2>7, <2>8
<1>26. OfCalls(k) => ServedInv(k)'
  BY <1>3, <1>4, <1>5, <1>6, <1>7, <1>8, <1>9, <1>10, <1>11, <1>12 DEF OfCalls
<1>27. OfDeletion(k) => ServedInv(k)'
  BY <1>13, <1>14, <1>15, <1>16, <1>17, <1>18, <1>19, <1>20 DEF OfDeletion
<1>28. OfRecovery(k) => ServedInv(k)'
  BY RecoveryMoves, <1>21, <1>22, <1>23, <1>24, <1>25 DEF RecoveryStep
<1> QED
  BY <1>1, <1>2, <1>26, <1>27, <1>28 DEF Own

(* A promise that waits has its request.                                   *)
LEMMA PromiseHolds ==
    ASSUME TypeInv, PromiseInv, [Next]_vars
    PROVE  PromiseInv'
<1> USE DEF TypeInv, ServiceOK, FieldsOK, ThreadsOK
<1>1. ASSUME ServiceDies PROVE PromiseInv'
  BY <1>1, Names DEF ServiceDies, PromiseInv
<1>2. ASSUME ServiceStarts PROVE PromiseInv'
  BY <1>2, Names DEF ServiceStarts, PromiseInv
<1>3. ASSUME NEW h \in Handles, SetDeathRecipient(h) PROVE PromiseInv'
  BY <1>3, Names DEF SetDeathRecipient, Reached, PromiseInv
<1>4. ASSUME NEW c \in Clients, CreatClient(c) PROVE PromiseInv'
  BY <1>4, Names DEF CreatClient, MakeSession, PromiseInv
<1>5. ASSUME NEW c \in Clients, Answered(c) PROVE PromiseInv'
  <2>1. \/ CallMoves(c, "idle") /\ call'[c].life = 0 /\ UNCHANGED eventIds
        \/ /\ CallMoves(c, "answered") /\ call'[c].life = call[c].life
           /\ call'[c].op = call[c].op /\ call'[c].event = call[c].event
           /\ Reached(call[c].life) /\ c \in sessions
           /\ eventIds' = [eventIds EXCEPT ![c] = Changed(eventIds[c], c)]
    BY <1>5, CallSteps
  <2> QED
    BY <1>5, <2>1, Names DEF Answered, CallMoves, Reached, PromiseInv
<1>6. ASSUME NEW c \in Clients, Record(c) PROVE PromiseInv'
  <2>1. CallMoves(c, "idle") /\ call'[c].life = 0
    BY <1>6, CallSteps
  <2> QED
    BY <1>6, <2>1, Names DEF Record, CallMoves, Changed, PromiseInv
<1>7. ASSUME NEW p \in Providers, NapiCreateAuthProvider(p)
      PROVE  PromiseInv'
  BY <1>7, Names DEF NapiCreateAuthProvider, MakeSession, CreateProvider, PromiseInv
<1>8. ASSUME NEW p \in Providers, OnClientStatusChangedTsfnCall(p)
      PROVE  PromiseInv'
  BY <1>8, Names DEF OnClientStatusChangedTsfnCall, PromiseInv
<1>9. ASSUME NEW p \in Providers, NapiRequestAuthResult(p) PROVE PromiseInv'
  BY <1>9, Names DEF NapiRequestAuthResult, Promise, PromiseInv
<1>10. ASSUME NEW p \in Providers, OnAuthResult(p) PROVE PromiseInv'
  BY <1>10, Names DEF OnAuthResult, Promise, OnAuthResultCallback, PromiseInv
<1>11. ASSUME NEW p \in Providers, OnAuthResultTsfnJsCall(p)
      PROVE  PromiseInv'
  BY <1>11, Names DEF OnAuthResultTsfnJsCall, Promise, PromiseInv
<1>12. ASSUME NEW c \in Clients, NEW e \in Events, NEW op \in {"sub", "unsub"}, Use(c, op, e)
      PROVE  PromiseInv'
  <2>1. CallMoves(c, "sent") /\ call'[c].life = remote[c]
    BY <1>12, CallSteps
  <2> QED
    BY <1>12, <2>1, Names DEF Use, CallMoves, PromiseInv
<1>13. ASSUME NEW h \in Handles, OnAuthEvent(h) PROVE PromiseInv'
  BY <1>13, Names DEF OnAuthEvent, PromiseInv
<1>14. ASSUME NEW h \in Handles, RunCallback(h) PROVE PromiseInv'
  BY <1>14, Names DEF RunCallback, PromiseInv
<1>15. ASSUME NEW h \in Handles, CallbackReturns(h) PROVE PromiseInv'
  BY <1>15, Names DEF CallbackReturns, OnClientStatusChangedCallback, PromiseInv
<1>16. ASSUME NEW h \in Handles, NEW d \in Deleters, ClearCallBack(h, d)
      PROVE  PromiseInv'
  <2>1. DelMoves(h, d, IF h \in Clients THEN "mark" ELSE "destroy", del[h][d].life)
    BY <1>16, Names, DelSteps
  <2> QED
    BY <1>16, <2>1, Names DEF DelMoves, ClearCallBack, Stage, PromiseInv
<1>17. ASSUME NEW c \in Clients, NEW d \in Deleters, Release(c, d)
      PROVE  PromiseInv'
  <2>1. DelMoves(c, d, "clear", del[c][d].life)
    BY <1>17, Names, DelSteps
  <2> QED
    BY <1>17, <2>1, Names DEF DelMoves, Release, Stage, PromiseInv
<1>18. ASSUME NEW c \in Clients, NEW d \in Deleters, MarkDeleted(c, d)
      PROVE  PromiseInv'
  <2>1. DelMoves(c, d, "destroy", remote[c])
    BY <1>18, Names, DelSteps
  <2> QED
    BY <1>18, <2>1, Names DEF DelMoves, MarkDeleted, Stage, PromiseInv
<1>19. ASSUME NEW c \in Clients, NEW d \in Deleters, DestroyRemoteObjects(c, d)
      PROVE  PromiseInv'
  <2>1. DestroySession(c, d) /\ c \in Handles /\ del[c][d].at = "destroy"
    BY <1>19, Names DEF DestroyRemoteObjects, DestroySession, Stage
  <2>2. DelMoves(c, d, "done", del[c][d].life)
    BY <2>1, DelSteps
  <2>3. /\ sessions' = IF Reached(del[c][d].life) THEN sessions \ {c} ELSE sessions
        /\ \A g \in Handles \ {c} : eventIds'[g] = eventIds[g]
        /\ ~Reached(del[c][d].life) => UNCHANGED eventIds
    BY <2>1, Dropped DEF DestroySession
  <2> QED
    BY <1>19, <2>1, <2>2, <2>3, Names DEF DestroyRemoteObjects, DelMoves, Reached,
       PromiseInv
<1>20. ASSUME NEW p \in Providers, NEW d \in Deleters, DeleteProvider(p, d)
      PROVE  PromiseInv'
  <2>1. DelMoves(p, d, IF p \in deleted THEN "returned" ELSE "read", del[p][d].life)
    BY <1>20, Names, DelSteps
  <2> QED
    BY <1>20, <2>1, Names DEF DelMoves, DeleteProvider, Stage, PromiseInv
<1>21. ASSUME NEW p \in Providers, NEW d \in Deleters, ReadSession(p, d)
      PROVE  PromiseInv'
  <2>1. DelMoves(p, d, "clear", remote[p])
    BY <1>21, Names, DelSteps
  <2> QED
    BY <1>21, <2>1, Names DEF DelMoves, ReadSession, Stage, PromiseInv
<1>22. ASSUME NEW p \in Providers, NEW d \in Deleters, DestroyProviderObjects(p, d)
      PROVE  PromiseInv'
  <2>1. DestroySession(p, d) /\ p \in Handles /\ del[p][d].at = "destroy"
    BY <1>22, Names DEF DestroyProviderObjects, DestroySession, Stage
  <2>2. DelMoves(p, d, "done", del[p][d].life)
    BY <2>1, DelSteps
  <2>3. /\ sessions' = IF Reached(del[p][d].life) THEN sessions \ {p} ELSE sessions
        /\ \A g \in Handles \ {p} : eventIds'[g] = eventIds[g]
        /\ ~Reached(del[p][d].life) => UNCHANGED eventIds
    BY <2>1, Dropped DEF DestroySession
  <2> QED
    BY <1>22, <2>1, <2>2, <2>3, Names DEF DestroyProviderObjects, DelMoves, Reached,
       PromiseInv
<1>23. ASSUME NEW p \in Providers, NEW d \in Deleters, NapiDestroyAuthProvider(p, d)
      PROVE  PromiseInv'
  <2>1. DelMoves(p, d, "freed", del[p][d].life)
    BY <1>23, Names, DelSteps
  <2> QED
    BY <1>23, <2>1, Names DEF DelMoves, NapiDestroyAuthProvider, Stage, ReleaseTsfn,
       PromiseInv
<1>24. ASSUME NEW r \in Recoveries, HandleDeath(r[1], r[2])
      PROVE  PromiseInv'
  <2>1. RecMoves(r, "wait", recorded[r[1]], 0)
    BY <1>24, RecSteps
  <2>2. /\ \A g \in Handles \ {r[1]}, l \in Lives : rec'[<<g, l>>] = rec[<<g, l>>]
        /\ \A l \in Lives \ {r[2]} : rec'[<<r[1], l>>] = rec[<<r[1], l>>]
        /\ r[1] \in Handles /\ r[2] \in Lives /\ r = <<r[1], r[2]>>
    BY <1>24, <2>1, RecFrame DEF RecMoves
  <2> QED
    BY <1>24, <2>1, <2>2, Names DEF HandleDeath, RecMoves, PromiseInv
<1>25. ASSUME NEW r \in Recoveries, Attempt(r) PROVE PromiseInv'
  <2>1. Attempts(r)
    BY <1>25, RecoverySteps
  <2>2. /\ \A g \in Handles \ {r[1]}, l \in Lives : rec'[<<g, l>>] = rec[<<g, l>>]
        /\ \A l \in Lives \ {r[2]} : rec'[<<r[1], l>>] = rec[<<r[1], l>>]
        /\ r[1] \in Handles /\ r[2] \in Lives /\ r = <<r[1], r[2]>>
    BY <1>25, <2>1, RecFrame DEF Attempts, RecMoves
  <2> QED
    BY <1>25, <2>1, <2>2, Names DEF Attempt, Attempts, RecMoves, PromiseInv
<1>26. ASSUME NEW r \in Recoveries, CreateAgain(r) PROVE PromiseInv'
  <2>1. Creates(r)
    BY <1>26, RecoverySteps
  <2>2. /\ \A g \in Handles \ {r[1]}, l \in Lives : rec'[<<g, l>>] = rec[<<g, l>>]
        /\ \A l \in Lives \ {r[2]} : rec'[<<r[1], l>>] = rec[<<r[1], l>>]
        /\ r[1] \in Handles /\ r[2] \in Lives /\ r = <<r[1], r[2]>>
    BY <1>26, <2>1, RecFrame DEF Creates, RecMoves
  <2> QED
    BY <1>26, <2>1, <2>2, Names DEF CreateAgain, Creates, RecMoves, Reached, PromiseInv
<1>27. ASSUME NEW r \in Recoveries, SwitchSessionRemote(r) PROVE PromiseInv'
  <2>1. Switches(r) /\ r[1] \in Handles
    BY <1>27, RecoverySteps, Names
  <2>2. \A g \in Handles \ {r[1]} : eventIds'[g] = eventIds[g]
    BY <2>1, Dropped DEF Switches
  <2>3. /\ \A g \in Handles \ {r[1]}, l \in Lives : rec'[<<g, l>>] = rec[<<g, l>>]
        /\ \A l \in Lives \ {r[2]} : rec'[<<r[1], l>>] = rec[<<r[1], l>>]
        /\ r[1] \in Handles /\ r[2] \in Lives /\ r = <<r[1], r[2]>>
    BY <1>27, <2>1, RecFrame DEF Switches, RecMoves
  <2> QED
    BY <1>27, <2>1, <2>2, <2>3, Names DEF SwitchSessionRemote, Switches, DropSession,
       RecMoves, Reached, PromiseInv
<1>28. ASSUME NEW r \in Recoveries, RecoverSession(r) PROVE PromiseInv'
  <2>1. Switches(r) /\ r[1] \in Handles
    BY <1>28, RecoverySteps, Names
  <2>2. \A g \in Handles \ {r[1]} : eventIds'[g] = eventIds[g]
    BY <2>1, Dropped DEF Switches
  <2>3. /\ \A g \in Handles \ {r[1]}, l \in Lives : rec'[<<g, l>>] = rec[<<g, l>>]
        /\ \A l \in Lives \ {r[2]} : rec'[<<r[1], l>>] = rec[<<r[1], l>>]
        /\ r[1] \in Handles /\ r[2] \in Lives /\ r = <<r[1], r[2]>>
    BY <1>28, <2>1, RecFrame DEF Switches, RecMoves
  <2> QED
    BY <1>28, <2>1, <2>2, <2>3, Names DEF RecoverSession, Switches, DropSession, RecMoves,
       Reached, PromiseInv
<1>29. ASSUME NEW r \in Recoveries, Recovered(r) PROVE PromiseInv'
  <2>1. RecMoves(r, "idle", {}, 0)
    BY <1>29, RecSteps DEF Recovered
  <2>2. /\ \A g \in Handles \ {r[1]}, l \in Lives : rec'[<<g, l>>] = rec[<<g, l>>]
        /\ \A l \in Lives \ {r[2]} : rec'[<<r[1], l>>] = rec[<<r[1], l>>]
        /\ r[1] \in Handles /\ r[2] \in Lives /\ r = <<r[1], r[2]>>
    BY <1>29, <2>1, RecFrame DEF RecMoves
  <2> QED
    BY <1>29, <2>1, <2>2, Names DEF Recovered, RecMoves, PromiseInv
<1>30. ASSUME NEW r \in Recoveries, NEW e \in Events, Resubscribe(r, e)
      PROVE  PromiseInv'
  <2>1. RecMoves(r, "again", rec[r].events \ {e}, rec[r].life)
    BY <1>30, RecSteps
  <2>2. /\ \A g \in Handles \ {r[1]}, l \in Lives : rec'[<<g, l>>] = rec[<<g, l>>]
        /\ \A l \in Lives \ {r[2]} : rec'[<<r[1], l>>] = rec[<<r[1], l>>]
        /\ r[1] \in Handles /\ r[2] \in Lives /\ r = <<r[1], r[2]>>
    BY <1>30, <2>1, RecFrame DEF RecMoves
  <2> QED
    BY <1>30, <2>1, <2>2, Names DEF Resubscribe, RecMoves, Reached, PromiseInv
<1>31. ASSUME UNCHANGED vars PROVE PromiseInv'
  BY <1>31, Names DEF vars, PromiseInv
<1> QED
  BY <1>1, <1>2, <1>3, <1>4, <1>5, <1>6, <1>7, <1>8, <1>9, <1>10, <1>11, <1>12, <1>13,
     <1>14, <1>15, <1>16, <1>17, <1>18, <1>19, <1>20, <1>21, <1>22, <1>23, <1>24, <1>25,
     <1>26, <1>27, <1>28, <1>29, <1>30, <1>31 DEF Next, Subscribe, Unsubscribe

-------------------------------------------------------------------------------
(* The theorems                                                            *)

LEMMA InitInv == Init => Inv
<1> SUFFICES ASSUME Init PROVE Inv
  OBVIOUS
<1> USE DEF Init, R
<1>1. TypeInv
  BY Names DEF TypeInv, ServiceOK, FieldsOK, ThreadsOK, CallSet, RecSet, Mid, Stages,
     NoCall, NoRec
<1>2. PromiseInv
  BY DEF PromiseInv
<1>3. ASSUME NEW k \in Handles PROVE HandleInv(k)
  <2>1. \A l \in Lives : <<k, l>> \in Recoveries /\ R(k, l) = NoRec
    BY Names
  <2>2. state[k] = "none" /\ remote[k] = 0 /\ call[k] = NoCall /\ recorded[k] = {} /\ eventIds[k] = {}
    OBVIOUS
  <2>3. \A d \in Deleters : del[k][d].at = "idle"
    OBVIOUS
  <2>4. \A l \in Lives : R(k, l).at = "idle" /\ R(k, l).life = 0 /\ <<k, l>> \notin obits
    BY <2>1 DEF NoRec
  <2>5. call[k].at = "idle" /\ call[k].life = 0 /\ life = 1 /\ up
    BY <2>2 DEF NoCall
  <2>6. PastInv(k) /\ StageInv(k)
    <3>1. PastInv(k)
      <4>1. remote[k] <= life /\ call[k].life <= life
        BY <2>2, <2>5
      <4>2. \A l \in Lives : <<k, l>> \notin obits
        BY <2>4
      <4>3. ASSUME NEW l \in Lives PROVE R(k, l).life <= life
        <5>1. R(k, l).life = 0
          BY <2>4
        <5> HIDE DEF R, Init
        <5> QED
          BY <2>5, <5>1
      <4> QED
        BY <2>5, <4>1, <4>2, <4>3 DEF PastInv
    <3>2. StageInv(k)
      BY <2>4, <2>2, <2>3, <2>5 DEF StageInv, Unborn, DeletionOK
    <3> QED
      BY <3>1, <3>2
  <2>7. QuietInv(k)
    BY <2>3 DEF QuietInv, Quiet
  <2>8. KnownInv(k) /\ HasSession(k)
    <3>1. \A l \in Lives : ~Switching(k, l)
      BY <2>4 DEF Switching
    <3>2. k \notin sessions /\ remote[k] # life
      BY <2>2, <2>5
    <3> QED
      BY <3>1, <3>2 DEF KnownInv, HasSession
  <2>9. FirstInv(k)
    BY <2>4, <2>5 DEF FirstInv
  <2>10. ServedInv(k)
    BY <2>2 DEF ServedInv, Orderly
  <2> QED
    BY <2>6, <2>7, <2>8, <2>9, <2>10 DEF HandleInv
<1> QED
  BY <1>1, <1>2, <1>3 DEF Inv

LEMMA InvStep == Inv /\ [Next]_vars => Inv'
<1> SUFFICES ASSUME Inv, [Next]_vars PROVE Inv'
  OBVIOUS
<1>1. TypeInv /\ PromiseInv
  BY DEF Inv
<1>2. TypeInv' /\ PromiseInv'
  BY <1>1, Typed, PromiseHolds
<1>3. ASSUME NEW k \in Handles PROVE HandleInv(k)'
  <2>1. HandleInv(k)
    BY DEF Inv
  <2>2. CASE Same(k)
    BY <1>1, <2>1, <2>2, SameInv
  <2>3. CASE Own(k)
    <3> USE <1>1, <2>1, <2>3 DEF HandleInv
    <3>1. PastInv(k)'
      BY PastHolds
    <3>2. StageInv(k)'
      BY StageHolds
    <3>3. QuietInv(k)'
      BY QuietHolds
    <3>4. KnownInv(k)'
      BY KnownHolds
    <3>5. FirstInv(k)'
      BY FirstHolds
    <3>6. HasSession(k)'
      BY SessionHolds
    <3>7. ServedInv(k)'
      BY ServedHolds
    <3> QED
      BY <3>1, <3>2, <3>3, <3>4, <3>5, <3>6, <3>7
  <2> QED
    BY <1>1, <2>2, <2>3, Apart
<1> QED
  BY <1>2, <1>3 DEF Inv

LEMMA Invariant == Spec => []Inv
<1>1. Init => Inv
  BY InitInv
<1>2. Inv /\ [Next]_vars => Inv'
  BY InvStep
<1> QED
  BY <1>1, <1>2, PTL DEF Spec

(* A handle that heard of every death of the service, whose recoveries did *)
(* not give up or get in each other's way, has its session and all it      *)
(* subscribed to once nothing is under way, however many deaths and tries  *)
(* there were: HandleDeath copies what is recorded, CreateAgain makes the  *)
(* session that SwitchSessionRemote takes, and Resubscribe repeats the     *)
(* copy.  And a promise waits for a request that is there.                 *)
THEOREM HandlesServed == Spec => []KitServed
<1>1. Inv => KitServed
  <2> SUFFICES ASSUME Inv PROVE KitServed
    OBVIOUS
  <2>1. ASSUME NEW h \in Handles, state[h] = "live", h \notin deleted, AtRest(h), up,
               h \notin unseen \union gaveUp \union raced
        PROVE  h \in sessions /\ remote[h] = life /\ recorded[h] \subseteq eventIds[h]
    <3>1. HandleInv(h) /\ Orderly(h)
      BY <2>1 DEF Inv, Orderly
    <3>2. call[h].at = "idle" /\ ~Told(h) /\ \A l \in Lives : R(h, l).at = "idle"
      <4>1. \A l \in Lives : rec[<<h, l>>] = NoRec /\ <<h, l>> \notin obits
        BY <2>1 DEF AtRest, Lives
      <4>2. NoRec.at = "idle"
        BY DEF NoRec
      <4>3. ~Told(h) /\ call[h].at = "idle"
        BY <2>1, <4>1 DEF AtRest, Told
      <4> QED
        BY <4>1, <4>2, <4>3 DEF R
    <3>3. Attached(h)
      BY <3>1, <3>2 DEF HandleInv, ServedInv, Restoring, Begun
    <3>4. h \in sessions
      BY <2>1, <3>1, <3>3 DEF HandleInv, HasSession, Attached
    <3>5. Due(h) = recorded[h] /\ Coming(h) = {}
      BY <3>2 DEF Due, Coming
    <3> QED
      BY <3>3, <3>4, <3>5 DEF Attached
  <2>2. \A p \in Providers \ forsaken : promise[p] = "waiting" => p \in pending
    BY DEF Inv, PromiseInv
  <2> QED
    BY <2>1, <2>2 DEF KitServed
<1> QED
  BY <1>1, Invariant, PTL

(* A deleted client has no session left in the service when all is at      *)
(* rest, and before the first death neither has a provider: MarkDeleted    *)
(* hands the session over to the deletion that destroys it, and            *)
(* SwitchSessionRemote destroys one that was made too late.                *)
THEOREM NothingLeftBehind == Spec => []DeletedGone
<1>1. Inv => DeletedGone
  <2> SUFFICES ASSUME Inv, NEW h \in Handles, h \in Clients \ raced \/ life = 1, AtRest(h),
                      NEW d \in Deleters, Deleted(h, d),
                      \A e \in Deleters : del[h][e].at \in {"idle", "returned", "done", "freed"},
                      h \in sessions
               PROVE  FALSE
    BY DEF DeletedGone
  <2>1. HandleInv(h) /\ TypeInv
    BY DEF Inv
  <2>2. up /\ life # 0 /\ h \in deleted /\ \A l \in Lives : R(h, l).at = "idle"
    BY <2>1 DEF HandleInv, PastInv, StageInv, DeletionOK, Deleted, AtRest, NoRec, R, Lives,
       TypeInv, ServiceOK
  <2>3. \A e \in Deleters : ~Destroying(h, e)
    BY DEF Destroying
  <2>4. CASE h \in Clients \ raced
    BY <2>1, <2>2, <2>3, <2>4 DEF HandleInv, KnownInv, StageInv, Switching
  <2>5. CASE h \in Providers /\ life = 1
    BY <2>1, <2>2, <2>5 DEF HandleInv, FirstInv, Deleted
  <2>6. life = 1 => h \notin raced
    BY <2>1, <2>2 DEF HandleInv, FirstInv
  <2> QED
    BY <2>4, <2>5, <2>6, Names
<1> QED
  BY <1>1, Invariant, PTL

(* Once a deletion has returned no callback of the user's runs or will:    *)
(* ClearCallBack waited for the one that ran, and left none to run; and    *)
(* the thread-safe function is released with what was in its queue.        *)
THEOREM SilentAfterDeletion == Spec => []QuietAfterDelete
<1>1. Inv => QuietAfterDelete
  BY DEF Inv, HandleInv, QuietInv, Quiet, QuietAfterDelete, Deleted, Stage
<1> QED
  BY <1>1, Invariant, PTL
=============================================================================

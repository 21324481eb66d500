-------------------------- MODULE SubscribeKitProofs --------------------------
(***************************************************************************)
(* What is proved of SubscribeKit, for any clients, events, filters,       *)
(* subscribers and slots for recovery tasks, and any number of deaths and  *)
(* calls: no recovery takes away a session that another has made, and,     *)
(* in whatever order a kit handles the answers of the service, its death   *)
(* and its next life, both kits and the bindings agree with the service    *)
(* once they have recovered.                                               *)
(***************************************************************************)
EXTENDS SubscribeKit, TLAPS

USE DEF service, kit, link

Items == Events \union Filters
ClientSteps == {"inserted", "made", "asked", "dropped", "destroyed"}
SdkSteps == {"checked", "asked", "off"}
Args == {None} \union Items \union Subscribers \union SUBSET Subscribers
CallSet == {Idle} \union [at : ClientSteps \union SdkSteps, arg : Args, life : Nat]
TaskSet == [id : Ids, at : {"wait", "create", "inserted", "again"}, left : Nat,
            snap : SUBSET (Items \union Subscribers), life : Nat]

(* What the variables are. *)
ServiceOK ==
    /\ up \in BOOLEAN /\ life \in Nat /\ strained \subseteq Ids
    /\ session \in [Ids -> {None} \union SUBSET Items]
KitOK ==
    /\ alive \in BOOLEAN /\ client \in [Clients -> {"none", "live", "released"}]
    /\ recorded \in [Clients -> SUBSET Items]
    /\ subscribers \subseteq Subscribers /\ jsEntries \subseteq JsSubscribers
WorkOK ==
    /\ watching \subseteq Ids /\ obits \subseteq Ids
    /\ call \in [Ids -> CallSet] /\ task \in [Tasks -> {NoTask} \union TaskSet]
    /\ recipientMade \in BOOLEAN
ArgOK ==
    /\ call["sdk"].at \in {"idle"} \union SdkSteps
    /\ call["sdk"].at \in {"checked", "asked"} => call["sdk"].arg \in Subscribers
    /\ call["sdk"].at = "off" => call["sdk"].arg \subseteq Subscribers
    /\ \A c \in Clients : /\ call[c].at \in {"idle"} \union ClientSteps
                          /\ call[c].at \in {"asked", "dropped"} => call[c].arg \in Items
TypeInv == ServiceOK /\ KitOK /\ WorkOK /\ ArgOK

Of(id, s) == task[s].id = id
Working(id) == \E s \in Tasks : Of(id, s)

(* What a client has while it is being created, and after its release.     *)
Unused(c) == c \notin watching \union obits /\ recorded[c] = {} /\ ~Working(c)
StageInv(c) ==
    /\ alive =>
         /\ client[c] # "live" => Unused(c)
         /\ call[c].at \in {"asked", "dropped"} => client[c] = "live"
         /\ call[c].at \in {"inserted", "made"} => client[c] = "none"
         /\ call[c].at = "destroyed" => client[c] = "released"
    /\ call[c].at \in {"inserted", "destroyed"} => up
    /\ ~alive => call[c].at \in {"idle", "inserted"}
AloneInv ==
    /\ alive => died = {}
    /\ ~alive => watching \union obits = {} /\ \A s \in Tasks : task[s] = NoTask \/ task[s].at = "inserted"

(* A CreatClient between its two steps, of the application or of a task    *)
(* that recovers: it has the session, and will find its slot free.         *)
Inserting(c, s) == task[s].id = c /\ task[s].at = "inserted" /\ Reached(task[s].life)
SlotInv(c) ==
    /\ At(c, "inserted") => c \notin callBacks /\ \A s \in Tasks : ~Inserting(c, s)
    /\ \A s \in Tasks : Inserting(c, s) => c \notin callBacks /\ \A r \in Tasks : Inserting(c, r) => r = s
    /\ alive /\ (At(c, "inserted") \/ \E s \in Tasks : Inserting(c, s)) => session[c] # None
    /\ alive /\ c \in callBacks /\ client[c] # "released" => session[c] # None
    /\ \A s \in Tasks : Of(c, s) /\ task[s].at = "inserted" => task[s].life <= life /\ (task[s].life = life => up)

KeepInv == AloneInv /\ \A c \in Clients : StageInv(c) /\ SlotInv(c)

-------------------------------------------------------------------------------
(* Nothing is left in a service that is down.                              *)
ToldInv ==
    ~up => watching = {} /\ callBacks = {} /\ \A id \in Ids : session[id] = None

Alone(id) ==
    /\ id \in obits => ~Working(id) /\ id \notin watching
    /\ \A s, r \in Tasks : Of(id, s) /\ Of(id, r) => s = r

(* What the session of a client is to have: what is recorded, but what is  *)
(* being dropped; a task has the rest of it.                               *)
Due(c) == IF At(c, "dropped") THEN recorded[c] \ {call[c].arg} ELSE recorded[c]
Has(c, x) == session[c] # None /\ x \in session[c]
Restoring(c, s) ==
    /\ task[s].at \in {"wait", "create"} => session[c] = None /\ c \notin callBacks
    /\ task[s].at = "wait" => c \notin watching
    /\ task[s].at # "wait" => Reached(task[s].life)
    /\ task[s].at = "inserted" => c \notin callBacks
    /\ task[s].at \in {"inserted", "again"} => session[c] # None
    /\ \A x \in Due(c) : Has(c, x) \/ x \in task[s].snap
ClientInv(c) ==
    alive /\ c \notin strained =>
        /\ Alone(c)
        /\ \A s \in Tasks : Of(c, s) => Restoring(c, s)
        /\ c \in obits => session[c] = None /\ c \notin callBacks
        /\ call[c].at = "asked" /\ (c \in watching \/ Working(c)) => Has(c, call[c].arg)
        /\ c \in watching /\ ~Working(c) => session[c] # None /\ \A x \in Due(c) : Has(c, x)

(* The old kit: what is under way, and what its task has still to restore. *)
Pending == IF call["sdk"].at \in {"checked", "asked"} THEN {call["sdk"].arg} ELSE {}
Asked == IF At("sdk", "asked") THEN {call["sdk"].arg} ELSE {}
Rest == {u \in Subscribers : \E s \in Tasks : Of("sdk", s) /\ u \in task[s].snap}
Held == IF session["sdk"] = None THEN {} ELSE session["sdk"]
Followed == "sdk" \in watching \/ Working("sdk")
Fresh ==
    /\ subscribers = {} /\ jsEntries = {} /\ session["sdk"] = None /\ call["sdk"] = Idle
    /\ "sdk" \notin watching \union obits /\ ~Working("sdk")
KitTasks ==
    /\ Alone("sdk")
    /\ \A s \in Tasks : Of("sdk", s) => /\ task[s].at \in {"wait", "again"}
                                        /\ task[s].at = "again" => up
                                        /\ task[s].at = "wait" => "sdk" \notin watching
KitSession ==
    /\ session["sdk"] # {}
    /\ Followed => Wanted(subscribers \union Asked) \subseteq Held
    /\ Followed \/ "sdk" \in obits => Held \subseteq Wanted(subscribers \union Asked \union Rest)
KitEntries == Followed \/ "sdk" \in obits => jsEntries = (subscribers \union Pending \union Rest) \cap JsSubscribers
KitApart ==
    /\ Rest \cap JsSubscribers \cap (subscribers \union Pending) = {}
    /\ Pending \cap JsSubscribers \cap subscribers = {}
SdkInv ==
    alive => /\ ~recipientMade => Fresh
             /\ "sdk" \notin strained => KitTasks /\ KitSession /\ KitEntries /\ KitApart

Inv == ToldInv /\ SdkInv /\ \A c \in Clients : ClientInv(c)

-------------------------------------------------------------------------------
(* What the helpers of the calls and the tasks do. *)

LEMMA CallMoves ==
    ASSUME TypeInv, NEW id \in Ids, NEW at \in {"idle"} \union ClientSteps \union SdkSteps, NEW x, Call(id, at, x),
           at # "idle" => x \in Args
    PROVE  /\ call' \in [Ids -> CallSet]
           /\ call'[id].at = at
           /\ at = "idle" => call'[id] = Idle
           /\ at # "idle" => call'[id].arg = x /\ call'[id].life = life
           /\ \A j \in Ids \ {id} : call'[j] = call[j]
  BY DEF TypeInv, ServiceOK, WorkOK, CallSet, Call, Idle, ClientSteps, SdkSteps

LEMMA Sdk == "sdk" \in Ids /\ None \notin Ids /\ (\A c \in Clients : c \in Ids /\ c # "sdk")
  BY KitAssumption DEF Ids

LEMMA TaskFacts ==
    ASSUME TypeInv, NEW s \in Tasks
    PROVE  /\ task[s] \in {NoTask} \union TaskSet
           /\ task[s] = NoTask <=> task[s].id = None
           /\ task[s] # NoTask => task[s] \in TaskSet
  BY Sdk DEF TypeInv, WorkOK, TaskSet, NoTask

LEMMA NoneWorking == \A id : TasksOf(id) = {} <=> ~Working(id)
  BY DEF TasksOf, Working, Of

LEMMA NextTyped ==
    ASSUME TypeInv, [Next]_vars
    PROVE  TypeInv'
<1>1. ASSUME ServiceDies
      PROVE  TypeInv'
  <2>1. ServiceOK'
    <3>1. life' \in Nat
      BY <1>1 DEF TypeInv, ServiceOK, ServiceDies
    <3>2. \A id \in strained' : id \in Ids
      BY <1>1 DEF TypeInv, ServiceOK, ServiceDies
    <3> QED
      BY <1>1, <3>1, <3>2 DEF ServiceOK, ServiceDies
  <2>2. KitOK'
    BY <1>1, KitAssumption DEF TypeInv, KitOK, ArgOK, At, ServiceDies
  <2>3. watching' \subseteq Ids /\ obits' \subseteq Ids /\ recipientMade' \in BOOLEAN
    BY <1>1, Sdk, TaskFacts DEF TypeInv, WorkOK, TaskSet, ServiceDies
  <2>4. call' \in [Ids -> CallSet]
    <3>1. Idle \in CallSet
      BY DEF CallSet
    <3> QED
      BY <1>1, <3>1 DEF TypeInv, WorkOK, ServiceDies
  <2>5. task' \in [Tasks -> {NoTask} \union TaskSet]
    BY <1>1, TaskFacts DEF TypeInv, ServiceOK, KitOK, WorkOK, TaskSet, ServiceDies
  <2>6. ArgOK'
    <3>1. \A i \in Ids : call'[i] = call[i] \/ call'[i].at = "idle"
      BY <1>1 DEF ServiceDies, Idle
    <3> QED
      BY <3>1, Sdk DEF TypeInv, ArgOK, ClientSteps, SdkSteps
  <2> QED
    BY <2>1, <2>2, <2>3, <2>4, <2>5, <2>6 DEF TypeInv, WorkOK
<1>2. ASSUME ServiceStarts
      PROVE  TypeInv'
  <2>1. ServiceOK'
    BY <1>2, Sdk, KitAssumption DEF TypeInv, ServiceOK, KitOK, ArgOK, Items, ServiceStarts
  <2>2. KitOK'
    BY <1>2, KitAssumption DEF TypeInv, KitOK, ArgOK, At, ServiceStarts
  <2>3. watching' \subseteq Ids /\ obits' \subseteq Ids /\ recipientMade' \in BOOLEAN
    BY <1>2, Sdk, TaskFacts DEF TypeInv, WorkOK, TaskSet, ServiceStarts
  <2>4. call' \in [Ids -> CallSet]
    BY <1>2, Sdk, CallMoves, KitAssumption DEF TypeInv, KitOK, WorkOK, ArgOK, ClientSteps, SdkSteps, Args, Items, ServiceStarts
  <2>5. task' \in [Tasks -> {NoTask} \union TaskSet]
    BY <1>2, TaskFacts DEF TypeInv, ServiceOK, KitOK, WorkOK, TaskSet, ServiceStarts
  <2>6. ArgOK'
    BY <1>2, Sdk, CallMoves, KitAssumption DEF TypeInv, KitOK, ArgOK, ClientSteps, SdkSteps, Args, Items, ServiceStarts
  <2> QED
    BY <2>1, <2>2, <2>3, <2>4, <2>5, <2>6 DEF TypeInv, WorkOK
<1>3. ASSUME ProcessDies
      PROVE  TypeInv'
  <2>1. ServiceOK'
    BY <1>3, Sdk, KitAssumption DEF TypeInv, ServiceOK, KitOK, ArgOK, Items, ProcessDies
  <2>2. KitOK'
    BY <1>3, KitAssumption DEF TypeInv, KitOK, ArgOK, At, ProcessDies
  <2>3. watching' \subseteq Ids /\ obits' \subseteq Ids /\ recipientMade' \in BOOLEAN
    BY <1>3, Sdk, TaskFacts DEF TypeInv, WorkOK, TaskSet, ProcessDies
  <2>4. call' \in [Ids -> CallSet]
    <3>1. Idle \in CallSet
      BY DEF CallSet
    <3> QED
      BY <1>3, <3>1 DEF TypeInv, WorkOK, ProcessDies
  <2>5. task' \in [Tasks -> {NoTask} \union TaskSet]
    BY <1>3, TaskFacts DEF TypeInv, ServiceOK, KitOK, WorkOK, TaskSet, ProcessDies
  <2>6. ArgOK'
    <3>1. \A i \in Ids : call'[i] = call[i] \/ call'[i].at = "idle"
      BY <1>3 DEF ProcessDies, Idle
    <3> QED
      BY <3>1, Sdk DEF TypeInv, ArgOK, ClientSteps, SdkSteps
  <2> QED
    BY <2>1, <2>2, <2>3, <2>4, <2>5, <2>6 DEF TypeInv, WorkOK
<1>4. ASSUME NEW id \in Ids, OnRemoteDied(id)
      PROVE  TypeInv'
  <2>1. ServiceOK'
    BY <1>4, Sdk, KitAssumption DEF TypeInv, ServiceOK, KitOK, ArgOK, Items, OnRemoteDied
  <2>2. KitOK'
    BY <1>4, KitAssumption DEF TypeInv, KitOK, ArgOK, At, OnRemoteDied
  <2>3. watching' \subseteq Ids /\ obits' \subseteq Ids /\ recipientMade' \in BOOLEAN
    BY <1>4, Sdk, TaskFacts DEF TypeInv, WorkOK, TaskSet, OnRemoteDied
  <2>4. call' \in [Ids -> CallSet]
    BY <1>4, Sdk, CallMoves, KitAssumption DEF TypeInv, KitOK, WorkOK, ArgOK, ClientSteps, SdkSteps, Args, Items, OnRemoteDied
  <2>5. task' \in [Tasks -> {NoTask} \union TaskSet]
    BY <1>4, TaskFacts DEF TypeInv, ServiceOK, KitOK, WorkOK, TaskSet, OnRemoteDied
  <2>6. ArgOK'
    BY <1>4, Sdk, CallMoves, KitAssumption DEF TypeInv, KitOK, ArgOK, ClientSteps, SdkSteps, Args, Items, OnRemoteDied
  <2> QED
    BY <2>1, <2>2, <2>3, <2>4, <2>5, <2>6 DEF TypeInv, WorkOK
<1>5. ASSUME SdkAsk
      PROVE  TypeInv'
  <2>1. ServiceOK'
    <3>1. call["sdk"].arg \in Subscribers /\ EventOf[call["sdk"].arg] \in Events
      BY <1>5, KitAssumption DEF TypeInv, ArgOK, SdkAsk, At
    <3> QED
      BY <1>5, <3>1, Sdk DEF TypeInv, ServiceOK, Items, SdkAsk, AddSdkItem
  <2>2. KitOK'
    BY <1>5, KitAssumption DEF TypeInv, KitOK, ArgOK, At, SdkAsk, AddSdkItem
  <2>3. watching' \subseteq Ids /\ obits' \subseteq Ids /\ recipientMade' \in BOOLEAN
    BY <1>5, Sdk, TaskFacts DEF TypeInv, WorkOK, TaskSet, SdkAsk, AddSdkItem
  <2>4. call' \in [Ids -> CallSet]
    <3>1. call["sdk"].arg \in Subscribers /\ \E at \in {"asked", "idle"} : Call("sdk", at, call["sdk"].arg)
      BY <1>5 DEF TypeInv, ArgOK, SdkAsk, At
    <3> QED
      BY <3>1, Sdk, CallMoves DEF TypeInv, ArgOK, ClientSteps, SdkSteps, Args
  <2>5. task' \in [Tasks -> {NoTask} \union TaskSet]
    BY <1>5, TaskFacts DEF TypeInv, ServiceOK, KitOK, WorkOK, TaskSet, SdkAsk, AddSdkItem
  <2>6. ArgOK'
    <3>1. call["sdk"].arg \in Subscribers /\ \E at \in {"asked", "idle"} : Call("sdk", at, call["sdk"].arg)
      BY <1>5 DEF TypeInv, ArgOK, SdkAsk, At
    <3> QED
      BY <3>1, Sdk, CallMoves DEF TypeInv, ArgOK, ClientSteps, SdkSteps, Args
  <2> QED
    BY <2>1, <2>2, <2>3, <2>4, <2>5, <2>6 DEF TypeInv, WorkOK
<1>6. ASSUME SdkSubscribeDone
      PROVE  TypeInv'
  <2>1. ServiceOK'
    BY <1>6, Sdk, KitAssumption DEF TypeInv, ServiceOK, KitOK, ArgOK, Items, SdkSubscribeDone
  <2>2. KitOK'
    BY <1>6, KitAssumption DEF TypeInv, KitOK, ArgOK, At, SdkSubscribeDone
  <2>3. watching' \subseteq Ids /\ obits' \subseteq Ids /\ recipientMade' \in BOOLEAN
    BY <1>6, Sdk, TaskFacts DEF TypeInv, WorkOK, TaskSet, SdkSubscribeDone
  <2>4. call' \in [Ids -> CallSet]
    BY <1>6, Sdk, CallMoves, KitAssumption DEF TypeInv, KitOK, WorkOK, ArgOK, ClientSteps, SdkSteps, Args, Items, SdkSubscribeDone
  <2>5. task' \in [Tasks -> {NoTask} \union TaskSet]
    BY <1>6, TaskFacts DEF TypeInv, ServiceOK, KitOK, WorkOK, TaskSet, SdkSubscribeDone
  <2>6. ArgOK'
    BY <1>6, Sdk, CallMoves, KitAssumption DEF TypeInv, KitOK, ArgOK, ClientSteps, SdkSteps, Args, Items, SdkSubscribeDone
  <2> QED
    BY <2>1, <2>2, <2>3, <2>4, <2>5, <2>6 DEF TypeInv, WorkOK
<1>7. ASSUME NEW c \in Clients, CreatClientSlot(c)
      PROVE  TypeInv'
  <2>1. ServiceOK'
    BY <1>7, Sdk, KitAssumption DEF TypeInv, ServiceOK, KitOK, ArgOK, Items, CreatClientSlot, TakeSlot
  <2>2. KitOK'
    BY <1>7, KitAssumption DEF TypeInv, KitOK, ArgOK, At, CreatClientSlot, TakeSlot
  <2>3. watching' \subseteq Ids /\ obits' \subseteq Ids /\ recipientMade' \in BOOLEAN
    BY <1>7, Sdk, TaskFacts DEF TypeInv, WorkOK, TaskSet, CreatClientSlot, TakeSlot
  <2>4. call' \in [Ids -> CallSet]
    BY <1>7, Sdk, CallMoves, KitAssumption DEF TypeInv, KitOK, WorkOK, ArgOK, ClientSteps, SdkSteps, Args, Items, CreatClientSlot, TakeSlot
  <2>5. task' \in [Tasks -> {NoTask} \union TaskSet]
    BY <1>7, TaskFacts DEF TypeInv, ServiceOK, KitOK, WorkOK, TaskSet, CreatClientSlot, TakeSlot
  <2>6. ArgOK'
    BY <1>7, Sdk, CallMoves, KitAssumption DEF TypeInv, KitOK, ArgOK, ClientSteps, SdkSteps, Args, Items, CreatClientSlot, TakeSlot
  <2> QED
    BY <2>1, <2>2, <2>3, <2>4, <2>5, <2>6 DEF TypeInv, WorkOK
<1>8. ASSUME NEW c \in Clients, CreatClientDone(c)
      PROVE  TypeInv'
  <2>1. ServiceOK'
    BY <1>8, Sdk, KitAssumption DEF TypeInv, ServiceOK, KitOK, ArgOK, Items, CreatClientDone
  <2>2. KitOK'
    BY <1>8, KitAssumption DEF TypeInv, KitOK, ArgOK, At, CreatClientDone
  <2>3. watching' \subseteq Ids /\ obits' \subseteq Ids /\ recipientMade' \in BOOLEAN
    BY <1>8, Sdk, TaskFacts DEF TypeInv, WorkOK, TaskSet, CreatClientDone
  <2>4. call' \in [Ids -> CallSet]
    BY <1>8, Sdk, CallMoves, KitAssumption DEF TypeInv, KitOK, WorkOK, ArgOK, ClientSteps, SdkSteps, Args, Items, CreatClientDone
  <2>5. task' \in [Tasks -> {NoTask} \union TaskSet]
    BY <1>8, TaskFacts DEF TypeInv, ServiceOK, KitOK, WorkOK, TaskSet, CreatClientDone
  <2>6. ArgOK'
    BY <1>8, Sdk, CallMoves, KitAssumption DEF TypeInv, KitOK, ArgOK, ClientSteps, SdkSteps, Args, Items, CreatClientDone
  <2> QED
    BY <2>1, <2>2, <2>3, <2>4, <2>5, <2>6 DEF TypeInv, WorkOK
<1>9. ASSUME NEW c \in Clients, RecordSubscribed(c)
      PROVE  TypeInv'
  <2>1. ServiceOK'
    BY <1>9, Sdk, KitAssumption DEF TypeInv, ServiceOK, KitOK, ArgOK, Items, RecordSubscribed
  <2>2. KitOK'
    BY <1>9, KitAssumption DEF TypeInv, KitOK, ArgOK, At, RecordSubscribed
  <2>3. watching' \subseteq Ids /\ obits' \subseteq Ids /\ recipientMade' \in BOOLEAN
    BY <1>9, Sdk, TaskFacts DEF TypeInv, WorkOK, TaskSet, RecordSubscribed
  <2>4. call' \in [Ids -> CallSet]
    BY <1>9, Sdk, CallMoves, KitAssumption DEF TypeInv, KitOK, WorkOK, ArgOK, ClientSteps, SdkSteps, Args, Items, RecordSubscribed
  <2>5. task' \in [Tasks -> {NoTask} \union TaskSet]
    BY <1>9, TaskFacts DEF TypeInv, ServiceOK, KitOK, WorkOK, TaskSet, RecordSubscribed
  <2>6. ArgOK'
    BY <1>9, Sdk, CallMoves, KitAssumption DEF TypeInv, KitOK, ArgOK, ClientSteps, SdkSteps, Args, Items, RecordSubscribed
  <2> QED
    BY <2>1, <2>2, <2>3, <2>4, <2>5, <2>6 DEF TypeInv, WorkOK
<1>10. ASSUME NEW c \in Clients, RecordDropped(c)
      PROVE  TypeInv'
  <2>1. ServiceOK'
    BY <1>10, Sdk, KitAssumption DEF TypeInv, ServiceOK, KitOK, ArgOK, Items, RecordDropped
  <2>2. KitOK'
    BY <1>10, KitAssumption DEF TypeInv, KitOK, ArgOK, At, RecordDropped
  <2>3. watching' \subseteq Ids /\ obits' \subseteq Ids /\ recipientMade' \in BOOLEAN
    BY <1>10, Sdk, TaskFacts DEF TypeInv, WorkOK, TaskSet, RecordDropped
  <2>4. call' \in [Ids -> CallSet]
    BY <1>10, Sdk, CallMoves, KitAssumption DEF TypeInv, KitOK, WorkOK, ArgOK, ClientSteps, SdkSteps, Args, Items, RecordDropped
  <2>5. task' \in [Tasks -> {NoTask} \union TaskSet]
    BY <1>10, TaskFacts DEF TypeInv, ServiceOK, KitOK, WorkOK, TaskSet, RecordDropped
  <2>6. ArgOK'
    BY <1>10, Sdk, CallMoves, KitAssumption DEF TypeInv, KitOK, ArgOK, ClientSteps, SdkSteps, Args, Items, RecordDropped
  <2> QED
    BY <2>1, <2>2, <2>3, <2>4, <2>5, <2>6 DEF TypeInv, WorkOK
<1>11. ASSUME NEW c \in Clients, DestoryClientSlot(c)
      PROVE  TypeInv'
  <2>1. ServiceOK'
    BY <1>11, Sdk, KitAssumption DEF TypeInv, ServiceOK, KitOK, ArgOK, Items, DestoryClientSlot
  <2>2. KitOK'
    BY <1>11, KitAssumption DEF TypeInv, KitOK, ArgOK, At, DestoryClientSlot
  <2>3. watching' \subseteq Ids /\ obits' \subseteq Ids /\ recipientMade' \in BOOLEAN
    BY <1>11, Sdk, TaskFacts DEF TypeInv, WorkOK, TaskSet, DestoryClientSlot
  <2>4. call' \in [Ids -> CallSet]
    BY <1>11, Sdk, CallMoves, KitAssumption DEF TypeInv, KitOK, WorkOK, ArgOK, ClientSteps, SdkSteps, Args, Items, DestoryClientSlot
  <2>5. task' \in [Tasks -> {NoTask} \union TaskSet]
    BY <1>11, TaskFacts DEF TypeInv, ServiceOK, KitOK, WorkOK, TaskSet, DestoryClientSlot
  <2>6. ArgOK'
    BY <1>11, Sdk, CallMoves, KitAssumption DEF TypeInv, KitOK, ArgOK, ClientSteps, SdkSteps, Args, Items, DestoryClientSlot
  <2> QED
    BY <2>1, <2>2, <2>3, <2>4, <2>5, <2>6 DEF TypeInv, WorkOK
<1>12. ASSUME NEW c \in Clients, CreatClient(c)
      PROVE  TypeInv'
  <2>1. ServiceOK'
    BY <1>12, Sdk, KitAssumption DEF TypeInv, ServiceOK, KitOK, ArgOK, Items, CreatClient, InsertSession, Begin
  <2>2. KitOK'
    BY <1>12, KitAssumption DEF TypeInv, KitOK, ArgOK, At, CreatClient, InsertSession, Begin
  <2>3. watching' \subseteq Ids /\ obits' \subseteq Ids /\ recipientMade' \in BOOLEAN
    BY <1>12, Sdk, TaskFacts DEF TypeInv, WorkOK, TaskSet, CreatClient, InsertSession, Begin
  <2>4. call' \in [Ids -> CallSet]
    BY <1>12, Sdk, CallMoves, KitAssumption DEF TypeInv, KitOK, WorkOK, ArgOK, ClientSteps, SdkSteps, Args, Items, CreatClient, InsertSession, Begin
  <2>5. task' \in [Tasks -> {NoTask} \union TaskSet]
    BY <1>12, TaskFacts DEF TypeInv, ServiceOK, KitOK, WorkOK, TaskSet, CreatClient, InsertSession, Begin
  <2>6. ArgOK'
    BY <1>12, Sdk, CallMoves, KitAssumption DEF TypeInv, KitOK, ArgOK, ClientSteps, SdkSteps, Args, Items, CreatClient, InsertSession, Begin
  <2> QED
    BY <2>1, <2>2, <2>3, <2>4, <2>5, <2>6 DEF TypeInv, WorkOK
<1>13. ASSUME NEW c \in Clients, Release(c)
      PROVE  TypeInv'
  <2>1. ServiceOK'
    BY <1>13, Sdk, KitAssumption DEF TypeInv, ServiceOK, KitOK, ArgOK, Items, Release, Begin
  <2>2. KitOK'
    BY <1>13, KitAssumption DEF TypeInv, KitOK, ArgOK, At, Release, Begin
  <2>3. watching' \subseteq Ids /\ obits' \subseteq Ids /\ recipientMade' \in BOOLEAN
    BY <1>13, Sdk, TaskFacts DEF TypeInv, WorkOK, TaskSet, Release, Begin
  <2>4. call' \in [Ids -> CallSet]
    BY <1>13, Sdk, CallMoves, KitAssumption DEF TypeInv, KitOK, WorkOK, ArgOK, ClientSteps, SdkSteps, Args, Items, Release, Begin
  <2>5. task' \in [Tasks -> {NoTask} \union TaskSet]
    BY <1>13, TaskFacts DEF TypeInv, ServiceOK, KitOK, WorkOK, TaskSet, Release, Begin
  <2>6. ArgOK'
    BY <1>13, Sdk, CallMoves, KitAssumption DEF TypeInv, KitOK, ArgOK, ClientSteps, SdkSteps, Args, Items, Release, Begin
  <2> QED
    BY <2>1, <2>2, <2>3, <2>4, <2>5, <2>6 DEF TypeInv, WorkOK
<1>14. ASSUME NEW c \in Clients, NEW e \in Events, Subscribe(c, e)
      PROVE  TypeInv'
  <2>1. ServiceOK'
    BY <1>14, Sdk, KitAssumption DEF TypeInv, ServiceOK, KitOK, ArgOK, Items, Subscribe, InsertSubscribeRecord, Begin
  <2>2. KitOK'
    BY <1>14, KitAssumption DEF TypeInv, KitOK, ArgOK, At, Subscribe, InsertSubscribeRecord, Begin
  <2>3. watching' \subseteq Ids /\ obits' \subseteq Ids /\ recipientMade' \in BOOLEAN
    BY <1>14, Sdk, TaskFacts DEF TypeInv, WorkOK, TaskSet, Subscribe, InsertSubscribeRecord, Begin
  <2>4. call' \in [Ids -> CallSet]
    BY <1>14, Sdk, CallMoves, KitAssumption DEF TypeInv, KitOK, WorkOK, ArgOK, ClientSteps, SdkSteps, Args, Items, Subscribe, InsertSubscribeRecord, Begin
  <2>5. task' \in [Tasks -> {NoTask} \union TaskSet]
    BY <1>14, TaskFacts DEF TypeInv, ServiceOK, KitOK, WorkOK, TaskSet, Subscribe, InsertSubscribeRecord, Begin
  <2>6. ArgOK'
    BY <1>14, Sdk, CallMoves, KitAssumption DEF TypeInv, KitOK, ArgOK, ClientSteps, SdkSteps, Args, Items, Subscribe, InsertSubscribeRecord, Begin
  <2> QED
    BY <2>1, <2>2, <2>3, <2>4, <2>5, <2>6 DEF TypeInv, WorkOK
<1>15. ASSUME NEW c \in Clients, NEW e \in Events, Unsubscribe(c, e)
      PROVE  TypeInv'
  <2>1. ServiceOK'
    BY <1>15, Sdk, KitAssumption DEF TypeInv, ServiceOK, KitOK, ArgOK, Items, Unsubscribe, RemoveSubscribeRecord, Begin
  <2>2. KitOK'
    BY <1>15, KitAssumption DEF TypeInv, KitOK, ArgOK, At, Unsubscribe, RemoveSubscribeRecord, Begin
  <2>3. watching' \subseteq Ids /\ obits' \subseteq Ids /\ recipientMade' \in BOOLEAN
    BY <1>15, Sdk, TaskFacts DEF TypeInv, WorkOK, TaskSet, Unsubscribe, RemoveSubscribeRecord, Begin
  <2>4. call' \in [Ids -> CallSet]
    BY <1>15, Sdk, CallMoves, KitAssumption DEF TypeInv, KitOK, WorkOK, ArgOK, ClientSteps, SdkSteps, Args, Items, Unsubscribe, RemoveSubscribeRecord, Begin
  <2>5. task' \in [Tasks -> {NoTask} \union TaskSet]
    BY <1>15, TaskFacts DEF TypeInv, ServiceOK, KitOK, WorkOK, TaskSet, Unsubscribe, RemoveSubscribeRecord, Begin
  <2>6. ArgOK'
    BY <1>15, Sdk, CallMoves, KitAssumption DEF TypeInv, KitOK, ArgOK, ClientSteps, SdkSteps, Args, Items, Unsubscribe, RemoveSubscribeRecord, Begin
  <2> QED
    BY <2>1, <2>2, <2>3, <2>4, <2>5, <2>6 DEF TypeInv, WorkOK
<1>16. ASSUME NEW c \in Clients, NEW f \in Filters, AddFilter(c, f)
      PROVE  TypeInv'
  <2>1. ServiceOK'
    BY <1>16, Sdk, KitAssumption DEF TypeInv, ServiceOK, KitOK, ArgOK, Items, AddFilter, InsertSubscribeMute, Begin, MayAddFilter
  <2>2. KitOK'
    BY <1>16, KitAssumption DEF TypeInv, KitOK, ArgOK, At, AddFilter, InsertSubscribeMute, Begin, MayAddFilter
  <2>3. watching' \subseteq Ids /\ obits' \subseteq Ids /\ recipientMade' \in BOOLEAN
    BY <1>16, Sdk, TaskFacts DEF TypeInv, WorkOK, TaskSet, AddFilter, InsertSubscribeMute, Begin, MayAddFilter
  <2>4. call' \in [Ids -> CallSet]
    BY <1>16, Sdk, CallMoves, KitAssumption DEF TypeInv, KitOK, WorkOK, ArgOK, ClientSteps, SdkSteps, Args, Items, AddFilter, InsertSubscribeMute, Begin, MayAddFilter
  <2>5. task' \in [Tasks -> {NoTask} \union TaskSet]
    BY <1>16, TaskFacts DEF TypeInv, ServiceOK, KitOK, WorkOK, TaskSet, AddFilter, InsertSubscribeMute, Begin, MayAddFilter
  <2>6. ArgOK'
    BY <1>16, Sdk, CallMoves, KitAssumption DEF TypeInv, KitOK, ArgOK, ClientSteps, SdkSteps, Args, Items, AddFilter, InsertSubscribeMute, Begin, MayAddFilter
  <2> QED
    BY <2>1, <2>2, <2>3, <2>4, <2>5, <2>6 DEF TypeInv, WorkOK
<1>17. ASSUME NEW c \in Clients, NEW f \in Filters, RemoveFilter(c, f)
      PROVE  TypeInv'
  <2>1. ServiceOK'
    BY <1>17, Sdk, KitAssumption DEF TypeInv, ServiceOK, KitOK, ArgOK, Items, RemoveFilter, RemoveSubscribeMute, MayRemoveFilter, Begin
  <2>2. KitOK'
    BY <1>17, KitAssumption DEF TypeInv, KitOK, ArgOK, At, RemoveFilter, RemoveSubscribeMute, MayRemoveFilter, Begin
  <2>3. watching' \subseteq Ids /\ obits' \subseteq Ids /\ recipientMade' \in BOOLEAN
    BY <1>17, Sdk, TaskFacts DEF TypeInv, WorkOK, TaskSet, RemoveFilter, RemoveSubscribeMute, MayRemoveFilter, Begin
  <2>4. call' \in [Ids -> CallSet]
    BY <1>17, Sdk, CallMoves, KitAssumption DEF TypeInv, KitOK, WorkOK, ArgOK, ClientSteps, SdkSteps, Args, Items, RemoveFilter, RemoveSubscribeMute, MayRemoveFilter, Begin
  <2>5. task' \in [Tasks -> {NoTask} \union TaskSet]
    BY <1>17, TaskFacts DEF TypeInv, ServiceOK, KitOK, WorkOK, TaskSet, RemoveFilter, RemoveSubscribeMute, MayRemoveFilter, Begin
  <2>6. ArgOK'
    BY <1>17, Sdk, CallMoves, KitAssumption DEF TypeInv, KitOK, ArgOK, ClientSteps, SdkSteps, Args, Items, RemoveFilter, RemoveSubscribeMute, MayRemoveFilter, Begin
  <2> QED
    BY <2>1, <2>2, <2>3, <2>4, <2>5, <2>6 DEF TypeInv, WorkOK
<1>18. ASSUME NEW u \in Subscribers, SdkSubscribe(u)
      PROVE  TypeInv'
  <2>1. ServiceOK'
    BY <1>18, Sdk, KitAssumption DEF TypeInv, ServiceOK, KitOK, ArgOK, Items, SdkSubscribe, SdkBegin, Begin
  <2>2. KitOK'
    BY <1>18, KitAssumption DEF TypeInv, KitOK, ArgOK, At, SdkSubscribe, SdkBegin, Begin
  <2>3. watching' \subseteq Ids /\ obits' \subseteq Ids /\ recipientMade' \in BOOLEAN
    BY <1>18, Sdk, TaskFacts DEF TypeInv, WorkOK, TaskSet, SdkSubscribe, SdkBegin, Begin
  <2>4. call' \in [Ids -> CallSet]
    BY <1>18, Sdk, CallMoves, KitAssumption DEF TypeInv, KitOK, WorkOK, ArgOK, ClientSteps, SdkSteps, Args, Items, SdkSubscribe, SdkBegin, Begin
  <2>5. task' \in [Tasks -> {NoTask} \union TaskSet]
    BY <1>18, TaskFacts DEF TypeInv, ServiceOK, KitOK, WorkOK, TaskSet, SdkSubscribe, SdkBegin, Begin
  <2>6. ArgOK'
    BY <1>18, Sdk, CallMoves, KitAssumption DEF TypeInv, KitOK, ArgOK, ClientSteps, SdkSteps, Args, Items, SdkSubscribe, SdkBegin, Begin
  <2> QED
    BY <2>1, <2>2, <2>3, <2>4, <2>5, <2>6 DEF TypeInv, WorkOK
<1>19. ASSUME NEW u \in Subscribers, SdkUnsubscribe(u)
      PROVE  TypeInv'
  <2>1. ServiceOK'
    BY <1>19, Sdk, KitAssumption DEF TypeInv, ServiceOK, KitOK, ArgOK, Items, SdkUnsubscribe, SdkDrop, DropSdkItem, Begin
  <2>2. KitOK'
    BY <1>19, KitAssumption DEF TypeInv, KitOK, ArgOK, At, SdkUnsubscribe, SdkDrop, DropSdkItem, Begin
  <2>3. watching' \subseteq Ids /\ obits' \subseteq Ids /\ recipientMade' \in BOOLEAN
    BY <1>19, Sdk, TaskFacts DEF TypeInv, WorkOK, TaskSet, SdkUnsubscribe, SdkDrop, DropSdkItem, Begin
  <2>4. call' \in [Ids -> CallSet]
    BY <1>19, Sdk, CallMoves, KitAssumption DEF TypeInv, KitOK, WorkOK, ArgOK, ClientSteps, SdkSteps, Args, Items, SdkUnsubscribe, SdkDrop, DropSdkItem, Begin
  <2>5. task' \in [Tasks -> {NoTask} \union TaskSet]
    BY <1>19, TaskFacts DEF TypeInv, ServiceOK, KitOK, WorkOK, TaskSet, SdkUnsubscribe, SdkDrop, DropSdkItem, Begin
  <2>6. ArgOK'
    BY <1>19, Sdk, CallMoves, KitAssumption DEF TypeInv, KitOK, ArgOK, ClientSteps, SdkSteps, Args, Items, SdkUnsubscribe, SdkDrop, DropSdkItem, Begin
  <2> QED
    BY <2>1, <2>2, <2>3, <2>4, <2>5, <2>6 DEF TypeInv, WorkOK
<1>20. ASSUME NEW u \in JsSubscribers, JsOn(u)
      PROVE  TypeInv'
  <2>1. ServiceOK'
    BY <1>20, Sdk, KitAssumption DEF TypeInv, ServiceOK, KitOK, ArgOK, Items, JsOn, SdkBegin, Begin
  <2>2. KitOK'
    BY <1>20, KitAssumption DEF TypeInv, KitOK, ArgOK, At, JsOn, SdkBegin, Begin
  <2>3. watching' \subseteq Ids /\ obits' \subseteq Ids /\ recipientMade' \in BOOLEAN
    BY <1>20, Sdk, TaskFacts DEF TypeInv, WorkOK, TaskSet, JsOn, SdkBegin, Begin
  <2>4. call' \in [Ids -> CallSet]
    BY <1>20, Sdk, CallMoves, KitAssumption DEF TypeInv, KitOK, WorkOK, ArgOK, ClientSteps, SdkSteps, Args, Items, JsOn, SdkBegin, Begin
  <2>5. task' \in [Tasks -> {NoTask} \union TaskSet]
    BY <1>20, TaskFacts DEF TypeInv, ServiceOK, KitOK, WorkOK, TaskSet, JsOn, SdkBegin, Begin
  <2>6. ArgOK'
    BY <1>20, Sdk, CallMoves, KitAssumption DEF TypeInv, KitOK, ArgOK, ClientSteps, SdkSteps, Args, Items, JsOn, SdkBegin, Begin
  <2> QED
    BY <2>1, <2>2, <2>3, <2>4, <2>5, <2>6 DEF TypeInv, WorkOK
<1>21. ASSUME NEW found, found \subseteq jsEntries, JsOffCall(found)
      PROVE  TypeInv'
  <2>1. ServiceOK'
    BY <1>21, Sdk, KitAssumption DEF TypeInv, ServiceOK, KitOK, ArgOK, Items, JsOffCall, Begin
  <2>2. KitOK'
    BY <1>21, KitAssumption DEF TypeInv, KitOK, ArgOK, At, JsOffCall, Begin
  <2>3. watching' \subseteq Ids /\ obits' \subseteq Ids /\ recipientMade' \in BOOLEAN
    BY <1>21, Sdk, TaskFacts DEF TypeInv, WorkOK, TaskSet, JsOffCall, Begin
  <2>4. call' \in [Ids -> CallSet]
    BY <1>21, Sdk, CallMoves, KitAssumption DEF TypeInv, KitOK, WorkOK, ArgOK, ClientSteps, SdkSteps, Args, Items, JsOffCall, Begin
  <2>5. task' \in [Tasks -> {NoTask} \union TaskSet]
    BY <1>21, TaskFacts DEF TypeInv, ServiceOK, KitOK, WorkOK, TaskSet, JsOffCall, Begin
  <2>6. ArgOK'
    BY <1>21, Sdk, CallMoves, KitAssumption DEF TypeInv, KitOK, ArgOK, ClientSteps, SdkSteps, Args, Items, JsOffCall, Begin
  <2> QED
    BY <2>1, <2>2, <2>3, <2>4, <2>5, <2>6 DEF TypeInv, WorkOK
<1>22. ASSUME NEW u \in JsSubscribers, JsOffOne(u)
      PROVE  TypeInv'
  <2>1. ServiceOK'
    BY <1>22, Sdk, KitAssumption DEF TypeInv, ServiceOK, KitOK, ArgOK, Items, JsOffOne, SdkDrop, DropSdkItem
  <2>2. KitOK'
    BY <1>22, KitAssumption DEF TypeInv, KitOK, ArgOK, At, JsOffOne, SdkDrop, DropSdkItem
  <2>3. watching' \subseteq Ids /\ obits' \subseteq Ids /\ recipientMade' \in BOOLEAN
    BY <1>22, Sdk, TaskFacts DEF TypeInv, WorkOK, TaskSet, JsOffOne, SdkDrop, DropSdkItem
  <2>4. call' \in [Ids -> CallSet]
    <3>1. call["sdk"].arg \subseteq Subscribers
      BY <1>22 DEF TypeInv, ArgOK, JsOffOne, At
    <3>2. \E at \in {"off", "idle"}, x \in {None} \union SUBSET Subscribers :
            Call("sdk", at, x) /\ (at = "off" => x \subseteq Subscribers)
      BY <1>22, <3>1 DEF JsOffOne
    <3> QED
      BY <3>2, Sdk, CallMoves DEF TypeInv, ArgOK, ClientSteps, SdkSteps, Args
  <2>5. task' \in [Tasks -> {NoTask} \union TaskSet]
    BY <1>22, TaskFacts DEF TypeInv, ServiceOK, KitOK, WorkOK, TaskSet, JsOffOne, SdkDrop, DropSdkItem
  <2>6. ArgOK'
    <3>1. call["sdk"].arg \subseteq Subscribers
      BY <1>22 DEF TypeInv, ArgOK, JsOffOne, At
    <3>2. \E at \in {"off", "idle"}, x \in {None} \union SUBSET Subscribers :
            Call("sdk", at, x) /\ (at = "off" => x \subseteq Subscribers)
      BY <1>22, <3>1 DEF JsOffOne
    <3> QED
      BY <3>2, Sdk, CallMoves DEF TypeInv, ArgOK, ClientSteps, SdkSteps, Args
  <2> QED
    BY <2>1, <2>2, <2>3, <2>4, <2>5, <2>6 DEF TypeInv, WorkOK
<1>23. ASSUME NEW s \in Tasks, Attempt(s)
      PROVE  TypeInv'
  <2>1. ServiceOK'
    BY <1>23, Sdk, KitAssumption DEF TypeInv, ServiceOK, KitOK, ArgOK, Items, Attempt, Active, EndTask
  <2>2. KitOK'
    BY <1>23, KitAssumption DEF TypeInv, KitOK, ArgOK, At, Attempt, Active, EndTask
  <2>3. watching' \subseteq Ids /\ obits' \subseteq Ids /\ recipientMade' \in BOOLEAN
    BY <1>23, Sdk, TaskFacts DEF TypeInv, WorkOK, TaskSet, Attempt, Active, EndTask
  <2>4. call' \in [Ids -> CallSet]
    BY <1>23, Sdk, CallMoves, KitAssumption DEF TypeInv, KitOK, WorkOK, ArgOK, ClientSteps, SdkSteps, Args, Items, Attempt, Active, EndTask
  <2>5. task' \in [Tasks -> {NoTask} \union TaskSet]
    BY <1>23, TaskFacts DEF TypeInv, ServiceOK, KitOK, WorkOK, TaskSet, Attempt, Active, EndTask
  <2>6. ArgOK'
    BY <1>23, Sdk, CallMoves, KitAssumption DEF TypeInv, KitOK, ArgOK, ClientSteps, SdkSteps, Args, Items, Attempt, Active, EndTask
  <2> QED
    BY <2>1, <2>2, <2>3, <2>4, <2>5, <2>6 DEF TypeInv, WorkOK
<1>24. ASSUME NEW s \in Tasks, Recreate(s)
      PROVE  TypeInv'
  <2>1. ServiceOK'
    BY <1>24, Sdk, KitAssumption DEF TypeInv, ServiceOK, KitOK, ArgOK, Items, Recreate, Active, Turn, InsertSession
  <2>2. KitOK'
    BY <1>24, KitAssumption DEF TypeInv, KitOK, ArgOK, At, Recreate, Active, Turn, InsertSession
  <2>3. watching' \subseteq Ids /\ obits' \subseteq Ids /\ recipientMade' \in BOOLEAN
    BY <1>24, Sdk, TaskFacts DEF TypeInv, WorkOK, TaskSet, Recreate, Active, Turn, InsertSession
  <2>4. call' \in [Ids -> CallSet]
    BY <1>24, Sdk, CallMoves, KitAssumption DEF TypeInv, KitOK, WorkOK, ArgOK, ClientSteps, SdkSteps, Args, Items, Recreate, Active, Turn, InsertSession
  <2>5. task' \in [Tasks -> {NoTask} \union TaskSet]
    BY <1>24, TaskFacts DEF TypeInv, ServiceOK, KitOK, WorkOK, TaskSet, Recreate, Active, Turn, InsertSession
  <2>6. ArgOK'
    BY <1>24, Sdk, CallMoves, KitAssumption DEF TypeInv, KitOK, ArgOK, ClientSteps, SdkSteps, Args, Items, Recreate, Active, Turn, InsertSession
  <2> QED
    BY <2>1, <2>2, <2>3, <2>4, <2>5, <2>6 DEF TypeInv, WorkOK
<1>25. ASSUME NEW s \in Tasks, RecreateSlot(s)
      PROVE  TypeInv'
  <2>1. ServiceOK'
    BY <1>25, Sdk, KitAssumption DEF TypeInv, ServiceOK, KitOK, ArgOK, Items, RecreateSlot, TakeSlot, Active, Turn, EndTask
  <2>2. KitOK'
    BY <1>25, KitAssumption DEF TypeInv, KitOK, ArgOK, At, RecreateSlot, TakeSlot, Active, Turn, EndTask
  <2>3. watching' \subseteq Ids /\ obits' \subseteq Ids /\ recipientMade' \in BOOLEAN
    BY <1>25, Sdk, TaskFacts DEF TypeInv, WorkOK, TaskSet, RecreateSlot, TakeSlot, Active, Turn, EndTask
  <2>4. call' \in [Ids -> CallSet]
    BY <1>25, Sdk, CallMoves, KitAssumption DEF TypeInv, KitOK, WorkOK, ArgOK, ClientSteps, SdkSteps, Args, Items, RecreateSlot, TakeSlot, Active, Turn, EndTask
  <2>5. task' \in [Tasks -> {NoTask} \union TaskSet]
    BY <1>25, TaskFacts DEF TypeInv, ServiceOK, KitOK, WorkOK, TaskSet, RecreateSlot, TakeSlot, Active, Turn, EndTask
  <2>6. ArgOK'
    BY <1>25, Sdk, CallMoves, KitAssumption DEF TypeInv, KitOK, ArgOK, ClientSteps, SdkSteps, Args, Items, RecreateSlot, TakeSlot, Active, Turn, EndTask
  <2> QED
    BY <2>1, <2>2, <2>3, <2>4, <2>5, <2>6 DEF TypeInv, WorkOK
<1>26. ASSUME NEW s \in Tasks, Recovered(s)
      PROVE  TypeInv'
  <2>1. ServiceOK'
    BY <1>26, Sdk, KitAssumption DEF TypeInv, ServiceOK, KitOK, ArgOK, Items, Recovered, Active, EndTask
  <2>2. KitOK'
    BY <1>26, KitAssumption DEF TypeInv, KitOK, ArgOK, At, Recovered, Active, EndTask
  <2>3. watching' \subseteq Ids /\ obits' \subseteq Ids /\ recipientMade' \in BOOLEAN
    BY <1>26, Sdk, TaskFacts DEF TypeInv, WorkOK, TaskSet, Recovered, Active, EndTask
  <2>4. call' \in [Ids -> CallSet]
    BY <1>26, Sdk, CallMoves, KitAssumption DEF TypeInv, KitOK, WorkOK, ArgOK, ClientSteps, SdkSteps, Args, Items, Recovered, Active, EndTask
  <2>5. task' \in [Tasks -> {NoTask} \union TaskSet]
    BY <1>26, TaskFacts DEF TypeInv, ServiceOK, KitOK, WorkOK, TaskSet, Recovered, Active, EndTask
  <2>6. ArgOK'
    BY <1>26, Sdk, CallMoves, KitAssumption DEF TypeInv, KitOK, ArgOK, ClientSteps, SdkSteps, Args, Items, Recovered, Active, EndTask
  <2> QED
    BY <2>1, <2>2, <2>3, <2>4, <2>5, <2>6 DEF TypeInv, WorkOK
<1>27. ASSUME NEW s \in Tasks, NEW e \in Events, Resubscribe(s, e)
      PROVE  TypeInv'
  <2>1. ServiceOK'
    BY <1>27, Sdk, KitAssumption DEF TypeInv, ServiceOK, KitOK, ArgOK, Items, Resubscribe, Active, InsertSubscribeRecord
  <2>2. KitOK'
    BY <1>27, KitAssumption DEF TypeInv, KitOK, ArgOK, At, Resubscribe, Active, InsertSubscribeRecord
  <2>3. watching' \subseteq Ids /\ obits' \subseteq Ids /\ recipientMade' \in BOOLEAN
    BY <1>27, Sdk, TaskFacts DEF TypeInv, WorkOK, TaskSet, Resubscribe, Active, InsertSubscribeRecord
  <2>4. call' \in [Ids -> CallSet]
    BY <1>27, Sdk, CallMoves, KitAssumption DEF TypeInv, KitOK, WorkOK, ArgOK, ClientSteps, SdkSteps, Args, Items, Resubscribe, Active, InsertSubscribeRecord
  <2>5. task' \in [Tasks -> {NoTask} \union TaskSet]
    BY <1>27, TaskFacts DEF TypeInv, ServiceOK, KitOK, WorkOK, TaskSet, Resubscribe, Active, InsertSubscribeRecord
  <2>6. ArgOK'
    BY <1>27, Sdk, CallMoves, KitAssumption DEF TypeInv, KitOK, ArgOK, ClientSteps, SdkSteps, Args, Items, Resubscribe, Active, InsertSubscribeRecord
  <2> QED
    BY <2>1, <2>2, <2>3, <2>4, <2>5, <2>6 DEF TypeInv, WorkOK
<1>28. ASSUME NEW s \in Tasks, NEW f \in Filters, ReAddFilter(s, f)
      PROVE  TypeInv'
  <2>1. ServiceOK'
    BY <1>28, Sdk, KitAssumption DEF TypeInv, ServiceOK, KitOK, ArgOK, Items, ReAddFilter, Active, MayAddFilter, InsertSubscribeMute
  <2>2. KitOK'
    BY <1>28, KitAssumption DEF TypeInv, KitOK, ArgOK, At, ReAddFilter, Active, MayAddFilter, InsertSubscribeMute
  <2>3. watching' \subseteq Ids /\ obits' \subseteq Ids /\ recipientMade' \in BOOLEAN
    BY <1>28, Sdk, TaskFacts DEF TypeInv, WorkOK, TaskSet, ReAddFilter, Active, MayAddFilter, InsertSubscribeMute
  <2>4. call' \in [Ids -> CallSet]
    BY <1>28, Sdk, CallMoves, KitAssumption DEF TypeInv, KitOK, WorkOK, ArgOK, ClientSteps, SdkSteps, Args, Items, ReAddFilter, Active, MayAddFilter, InsertSubscribeMute
  <2>5. task' \in [Tasks -> {NoTask} \union TaskSet]
    BY <1>28, TaskFacts DEF TypeInv, ServiceOK, KitOK, WorkOK, TaskSet, ReAddFilter, Active, MayAddFilter, InsertSubscribeMute
  <2>6. ArgOK'
    BY <1>28, Sdk, CallMoves, KitAssumption DEF TypeInv, KitOK, ArgOK, ClientSteps, SdkSteps, Args, Items, ReAddFilter, Active, MayAddFilter, InsertSubscribeMute
  <2> QED
    BY <2>1, <2>2, <2>3, <2>4, <2>5, <2>6 DEF TypeInv, WorkOK
<1>29. ASSUME NEW s \in Tasks, NEW u \in Subscribers, SdkResubscribe(s, u)
      PROVE  TypeInv'
  <2>1. ServiceOK'
    BY <1>29, Sdk, KitAssumption DEF TypeInv, ServiceOK, KitOK, ArgOK, Items, SdkResubscribe, Active, AddSdkItem
  <2>2. KitOK'
    BY <1>29, KitAssumption DEF TypeInv, KitOK, ArgOK, At, SdkResubscribe, Active, AddSdkItem
  <2>3. watching' \subseteq Ids /\ obits' \subseteq Ids /\ recipientMade' \in BOOLEAN
    BY <1>29, Sdk, TaskFacts DEF TypeInv, WorkOK, TaskSet, SdkResubscribe, Active, AddSdkItem
  <2>4. call' \in [Ids -> CallSet]
    BY <1>29, Sdk, CallMoves, KitAssumption DEF TypeInv, KitOK, WorkOK, ArgOK, ClientSteps, SdkSteps, Args, Items, SdkResubscribe, Active, AddSdkItem
  <2>5. task' \in [Tasks -> {NoTask} \union TaskSet]
    BY <1>29, TaskFacts DEF TypeInv, ServiceOK, KitOK, WorkOK, TaskSet, SdkResubscribe, Active, AddSdkItem
  <2>6. ArgOK'
    BY <1>29, Sdk, CallMoves, KitAssumption DEF TypeInv, KitOK, ArgOK, ClientSteps, SdkSteps, Args, Items, SdkResubscribe, Active, AddSdkItem
  <2> QED
    BY <2>1, <2>2, <2>3, <2>4, <2>5, <2>6 DEF TypeInv, WorkOK
<1>30. ASSUME NEW id \in Ids, NEW s \in Tasks, HandleDeath(id, s)
      PROVE  TypeInv'
  <2>1. ServiceOK'
    BY <1>30, Sdk, KitAssumption DEF TypeInv, ServiceOK, KitOK, ArgOK, Items, HandleDeath
  <2>2. KitOK'
    BY <1>30, KitAssumption DEF TypeInv, KitOK, ArgOK, At, HandleDeath
  <2>3. watching' \subseteq Ids /\ obits' \subseteq Ids /\ recipientMade' \in BOOLEAN
    BY <1>30, Sdk, TaskFacts DEF TypeInv, WorkOK, TaskSet, HandleDeath
  <2>4. call' \in [Ids -> CallSet]
    BY <1>30, Sdk, CallMoves, KitAssumption DEF TypeInv, KitOK, WorkOK, ArgOK, ClientSteps, SdkSteps, Args, Items, HandleDeath
  <2>5. task' \in [Tasks -> {NoTask} \union TaskSet]
    <3>1. (IF id = "sdk" THEN subscribers ELSE recorded[id]) \in SUBSET (Items \union Subscribers)
      BY <1>30 DEF TypeInv, KitOK, Ids
    <3>2. [id |-> id, at |-> "wait", left |-> Retries, life |-> life,
           snap |-> IF id = "sdk" THEN subscribers ELSE recorded[id]] \in TaskSet
      BY <1>30, <3>1, KitAssumption DEF TypeInv, ServiceOK, TaskSet
    <3> QED
      BY <1>30, <3>2 DEF TypeInv, WorkOK, HandleDeath
  <2>6. ArgOK'
    BY <1>30, Sdk, CallMoves, KitAssumption DEF TypeInv, KitOK, ArgOK, ClientSteps, SdkSteps, Args, Items, HandleDeath
  <2> QED
    BY <2>1, <2>2, <2>3, <2>4, <2>5, <2>6 DEF TypeInv, WorkOK
<1>31. ASSUME UNCHANGED vars
      PROVE  TypeInv'
  <2>1. ServiceOK'
    BY <1>31, Sdk, KitAssumption DEF TypeInv, ServiceOK, KitOK, ArgOK, Items, vars
  <2>2. KitOK'
    BY <1>31, KitAssumption DEF TypeInv, KitOK, ArgOK, At, vars
  <2>3. watching' \subseteq Ids /\ obits' \subseteq Ids /\ recipientMade' \in BOOLEAN
    BY <1>31, Sdk, TaskFacts DEF TypeInv, WorkOK, TaskSet, vars
  <2>4. call' \in [Ids -> CallSet]
    BY <1>31, Sdk, CallMoves, KitAssumption DEF TypeInv, KitOK, WorkOK, ArgOK, ClientSteps, SdkSteps, Args, Items, vars
  <2>5. task' \in [Tasks -> {NoTask} \union TaskSet]
    BY <1>31, TaskFacts DEF TypeInv, ServiceOK, KitOK, WorkOK, TaskSet, vars
  <2>6. ArgOK'
    BY <1>31, Sdk, CallMoves, KitAssumption DEF TypeInv, KitOK, ArgOK, ClientSteps, SdkSteps, Args, Items, vars
  <2> QED
    BY <2>1, <2>2, <2>3, <2>4, <2>5, <2>6 DEF TypeInv, WorkOK
<1> QED
  BY <1>1, <1>2, <1>3, <1>4, <1>5, <1>6, <1>7, <1>8, <1>9, <1>10, <1>11, <1>12, <1>13, <1>14, <1>15, <1>16, <1>17, <1>18, <1>19, <1>20, <1>21, <1>22, <1>23, <1>24, <1>25, <1>26, <1>27, <1>28, <1>29, <1>30, <1>31 DEF Next, Finish, Recover, JsOffCallback, JsOffEvent

LEMMA SetsAreSome == \A X \in SUBSET Items : X # None
  BY KitAssumption DEF Items

(* What a call of a client does to its session. *)
LEMMA SessionMoves ==
    ASSUME TypeInv, NEW c \in Ids, NEW x \in Items
    PROVE  /\ InsertSession(c) => session'[c] = {}
           /\ session[c] # None =>
                /\ \/ InsertSubscribeRecord(c, x)
                   \/ InsertSubscribeMute(c, x)
                   => session'[c] = session[c] \union {x} /\ session'[c] # None
                /\ \/ RemoveSubscribeRecord(c, x)
                   \/ RemoveSubscribeMute(c, x)
                   => session'[c] = session[c] \ {x} /\ session'[c] # None
           /\ \/ InsertSession(c)
              \/ InsertSubscribeRecord(c, x) \/ InsertSubscribeMute(c, x)
              \/ RemoveSubscribeRecord(c, x) \/ RemoveSubscribeMute(c, x)
              => \A d \in Ids \ {c} : session'[d] = session[d]
<1>1. session \in [Ids -> {None} \union SUBSET Items] /\ (session[c] # None => session[c] \subseteq Items)
  BY DEF TypeInv, ServiceOK
<1>2. session[c] # None => session[c] \union {x} # None /\ session[c] \ {x} # None
  BY <1>1, SetsAreSome
<1> QED
  BY <1>1, <1>2 DEF InsertSession, InsertSubscribeRecord, InsertSubscribeMute, RemoveSubscribeRecord, RemoveSubscribeMute

(* What a step of a task does to the tasks. *)
OthersKept(s) == \A r \in Tasks \ {s} : task'[r] = task[r]
Ended(s) == task'[s] = NoTask /\ OthersKept(s)
Kept(s) == task'[s].id = task[s].id /\ task'[s] # NoTask /\ OthersKept(s)

LEMMA TurnMoves ==
    ASSUME TypeInv, NEW s \in Tasks, task[s] # NoTask, NEW l, Turn(s, l)
    PROVE  Kept(s) /\ task'[s].at = l /\ task'[s].life = task[s].life /\ task'[s].snap = task[s].snap
<1>1. task[s] \in TaskSet
  BY TaskFacts
<1>2. task'[s] = [task[s] EXCEPT !.at = l] /\ OthersKept(s)
  BY DEF TypeInv, WorkOK, Turn, OthersKept
<1> QED
  BY <1>1, <1>2, Sdk DEF TaskSet, Kept, NoTask

LEMMA EndMoves ==
    ASSUME TypeInv, NEW s \in Tasks, EndTask(s)
    PROVE  Ended(s)
  BY DEF TypeInv, WorkOK, EndTask, Ended, OthersKept

LEMMA AttemptMoves ==
    ASSUME TypeInv, NEW s \in Tasks, Attempt(s)
    PROVE  /\ task[s] # NoTask /\ task[s].at = "wait"
           /\ \/ Ended(s) /\ UNCHANGED watching
              \/ /\ Kept(s) /\ task'[s].life = life /\ task'[s].snap = task[s].snap
                 /\ \/ ~up /\ task'[s].at = "wait" /\ UNCHANGED watching
                    \/ /\ up /\ watching' = watching \union {task[s].id}
                       /\ task'[s].at = IF task[s].id = "sdk" THEN "again" ELSE "create"
<1>1. task[s] # NoTask /\ task[s].at = "wait"
  BY DEF Attempt, Active
<1>2. CASE task[s].left = 0
  BY <1>1, <1>2, EndMoves DEF Attempt
<1>3. CASE task[s].left # 0
  <2>1. task[s] \in TaskSet
    BY <1>1, TaskFacts
  <2> DEFINE at == IF ~up THEN "wait" ELSE IF task[s].id = "sdk" THEN "again" ELSE "create"
  <2>2. task'[s] = [task[s] EXCEPT !.left = @ - 1, !.life = life, !.at = at] /\ OthersKept(s)
    BY <1>3 DEF TypeInv, WorkOK, Attempt, OthersKept
  <2>3. Kept(s) /\ task'[s].life = life /\ task'[s].snap = task[s].snap /\ task'[s].at = at
    BY <2>1, <2>2, Sdk DEF TaskSet, Kept, NoTask
  <2>4. watching' = watching \union (IF up THEN {task[s].id} ELSE {})
    BY <1>3 DEF Attempt
  <2> QED
    BY <1>1, <2>3, <2>4
<1> QED
  BY <1>2, <1>3

LEMMA RecreateMoves ==
    ASSUME TypeInv, NEW s \in Tasks, Recreate(s)
    PROVE  /\ task[s] # NoTask /\ task[s].at = "create" /\ Kept(s) /\ task'[s].life = task[s].life
           /\ task'[s].snap = task[s].snap
           /\ \/ /\ Reached(task[s].life) /\ session[task[s].id] = None /\ InsertSession(task[s].id)
                 /\ task'[s].at = "inserted"
              \/ /\ ~Reached(task[s].life) \/ session[task[s].id] # None
                 /\ UNCHANGED session /\ task'[s].at = "wait"
<1>1. task[s] # NoTask /\ task[s].at = "create" /\ \E l : Turn(s, l)
  BY DEF Recreate, Active
<1>2. Kept(s) /\ task'[s].life = task[s].life /\ task'[s].snap = task[s].snap
  BY <1>1, TurnMoves
<1>3. \A l : Turn(s, l) => task'[s].at = l
  BY <1>1, TurnMoves
<1> QED
  BY <1>1, <1>2, <1>3 DEF Recreate

LEMMA RecreateSlotMoves ==
    ASSUME TypeInv, NEW s \in Tasks, RecreateSlot(s)
    PROVE  /\ task[s] # NoTask /\ task[s].at = "inserted"
           /\ \/ Reached(task[s].life) /\ TakeSlot(task[s].id)
              \/ ~Reached(task[s].life) /\ UNCHANGED <<session, callBacks, watched>>
           /\ ~alive => Ended(s)
           /\ alive => /\ Kept(s) /\ task'[s].life = task[s].life /\ task'[s].snap = task[s].snap
                       /\ task'[s].at = IF Reached(task[s].life) /\ task[s].id \notin callBacks THEN "again" ELSE "wait"
<1>1. task[s] # NoTask /\ task[s].at = "inserted"
  BY DEF RecreateSlot, Active
<1>2. ~alive => Ended(s)
  BY EndMoves DEF RecreateSlot
<1>3. alive => Turn(s, IF Reached(task[s].life) /\ task[s].id \notin callBacks THEN "again" ELSE "wait")
  BY DEF RecreateSlot
<1>4. alive => /\ Kept(s) /\ task'[s].life = task[s].life /\ task'[s].snap = task[s].snap
               /\ task'[s].at = IF Reached(task[s].life) /\ task[s].id \notin callBacks THEN "again" ELSE "wait"
  BY <1>1, <1>3, TurnMoves
<1> QED
  BY <1>1, <1>2, <1>4 DEF RecreateSlot

LEMMA RestoreMoves ==
    ASSUME TypeInv, NEW s \in Tasks, NEW x,
           Resubscribe(s, x) \/ ReAddFilter(s, x) \/ SdkResubscribe(s, x)
    PROVE  /\ task[s] # NoTask /\ task[s].at = "again" /\ Kept(s) /\ task'[s].at = "again"
           /\ task'[s].life = task[s].life /\ task'[s].snap = task[s].snap \ {x}
<1>1. task[s] # NoTask /\ task[s].at = "again" /\ task' = [task EXCEPT ![s].snap = @ \ {x}]
  BY DEF Resubscribe, ReAddFilter, SdkResubscribe, Active
<1>2. task[s] \in TaskSet
  BY <1>1, TaskFacts
<1>3. task'[s] = [task[s] EXCEPT !.snap = @ \ {x}] /\ OthersKept(s)
  BY <1>1 DEF TypeInv, WorkOK, OthersKept
<1> QED
  BY <1>1, <1>2, <1>3, Sdk DEF TaskSet, Kept, NoTask

(* A step that makes no new CreatClient and takes no session away. *)
LEMMA SlotKept ==
    ASSUME NEW d \in Clients, SlotInv(d), UNCHANGED <<up, life, alive, callBacks>>,
           client'[d] = client[d], call'[d].at = "inserted" <=> call[d].at = "inserted",
           session[d] # None => session'[d] # None,
           \A r \in Tasks : task'[r].id = d /\ task'[r].at = "inserted" => task'[r] = task[r]
    PROVE  SlotInv(d)'
<1>1. \A r \in Tasks : Inserting(d, r)' => Inserting(d, r)
  BY DEF Inserting, Reached
<1> QED
  BY <1>1 DEF SlotInv, At, Of

LEMMA NextAlone ==
    ASSUME TypeInv, KeepInv, [Next]_vars
    PROVE  AloneInv'
<1>1. ASSUME ServiceDies
      PROVE  AloneInv'
  BY <1>1, Sdk, TaskFacts DEF TypeInv, WorkOK, KeepInv, AloneInv, StageInv, At, NoTask, ServiceDies, InAnswer
<1>2. ASSUME ServiceStarts
      PROVE  AloneInv'
  BY <1>2, Sdk, TaskFacts DEF TypeInv, WorkOK, KeepInv, AloneInv, StageInv, At, NoTask, ServiceStarts
<1>3. ASSUME ProcessDies
      PROVE  AloneInv'
  BY <1>3, Sdk, TaskFacts DEF TypeInv, WorkOK, KeepInv, AloneInv, StageInv, At, NoTask, ProcessDies
<1>4. ASSUME NEW id \in Ids, OnRemoteDied(id)
      PROVE  AloneInv'
  BY <1>4, Sdk, TaskFacts DEF TypeInv, WorkOK, KeepInv, AloneInv, StageInv, At, NoTask, OnRemoteDied
<1>5. ASSUME SdkAsk
      PROVE  AloneInv'
  BY <1>5, Sdk, TaskFacts DEF TypeInv, WorkOK, KeepInv, AloneInv, StageInv, At, NoTask, SdkAsk, AddSdkItem
<1>6. ASSUME SdkSubscribeDone
      PROVE  AloneInv'
  BY <1>6, Sdk, TaskFacts DEF TypeInv, WorkOK, KeepInv, AloneInv, StageInv, At, NoTask, SdkSubscribeDone
<1>7. ASSUME NEW c \in Clients, CreatClientSlot(c)
      PROVE  AloneInv'
  BY <1>7, Sdk, TaskFacts DEF TypeInv, WorkOK, KeepInv, AloneInv, StageInv, At, NoTask, CreatClientSlot, TakeSlot
<1>8. ASSUME NEW c \in Clients, CreatClientDone(c)
      PROVE  AloneInv'
  BY <1>8, Sdk, TaskFacts DEF TypeInv, WorkOK, KeepInv, AloneInv, StageInv, At, NoTask, CreatClientDone
<1>9. ASSUME NEW c \in Clients, RecordSubscribed(c)
      PROVE  AloneInv'
  BY <1>9, Sdk, TaskFacts DEF TypeInv, WorkOK, KeepInv, AloneInv, StageInv, At, NoTask, RecordSubscribed
<1>10. ASSUME NEW c \in Clients, RecordDropped(c)
      PROVE  AloneInv'
  BY <1>10, Sdk, TaskFacts DEF TypeInv, WorkOK, KeepInv, AloneInv, StageInv, At, NoTask, RecordDropped
<1>11. ASSUME NEW c \in Clients, DestoryClientSlot(c)
      PROVE  AloneInv'
  BY <1>11, Sdk, TaskFacts DEF TypeInv, WorkOK, KeepInv, AloneInv, StageInv, At, NoTask, DestoryClientSlot
<1>12. ASSUME NEW c \in Clients, CreatClient(c)
      PROVE  AloneInv'
  BY <1>12, Sdk, TaskFacts DEF TypeInv, WorkOK, KeepInv, AloneInv, StageInv, At, NoTask, CreatClient, InsertSession, Begin
<1>13. ASSUME NEW c \in Clients, Release(c)
      PROVE  AloneInv'
  BY <1>13, Sdk, TaskFacts DEF TypeInv, WorkOK, KeepInv, AloneInv, StageInv, At, NoTask, Release, Begin
<1>14. ASSUME NEW c \in Clients, NEW e \in Events, Subscribe(c, e)
      PROVE  AloneInv'
  BY <1>14, Sdk, TaskFacts DEF TypeInv, WorkOK, KeepInv, AloneInv, StageInv, At, NoTask, Subscribe, InsertSubscribeRecord, Begin
<1>15. ASSUME NEW c \in Clients, NEW e \in Events, Unsubscribe(c, e)
      PROVE  AloneInv'
  BY <1>15, Sdk, TaskFacts DEF TypeInv, WorkOK, KeepInv, AloneInv, StageInv, At, NoTask, Unsubscribe, RemoveSubscribeRecord, Begin
<1>16. ASSUME NEW c \in Clients, NEW f \in Filters, AddFilter(c, f)
      PROVE  AloneInv'
  BY <1>16, Sdk, TaskFacts DEF TypeInv, WorkOK, KeepInv, AloneInv, StageInv, At, NoTask, AddFilter, InsertSubscribeMute, Begin, MayAddFilter
<1>17. ASSUME NEW c \in Clients, NEW f \in Filters, RemoveFilter(c, f)
      PROVE  AloneInv'
  BY <1>17, Sdk, TaskFacts DEF TypeInv, WorkOK, KeepInv, AloneInv, StageInv, At, NoTask, RemoveFilter, RemoveSubscribeMute, MayRemoveFilter, Begin
<1>18. ASSUME NEW u \in Subscribers, SdkSubscribe(u)
      PROVE  AloneInv'
  BY <1>18, Sdk, TaskFacts DEF TypeInv, WorkOK, KeepInv, AloneInv, StageInv, At, NoTask, SdkSubscribe, SdkBegin, Begin
<1>19. ASSUME NEW u \in Subscribers, SdkUnsubscribe(u)
      PROVE  AloneInv'
  BY <1>19, Sdk, TaskFacts DEF TypeInv, WorkOK, KeepInv, AloneInv, StageInv, At, NoTask, SdkUnsubscribe, SdkDrop, DropSdkItem, Begin
<1>20. ASSUME NEW u \in JsSubscribers, JsOn(u)
      PROVE  AloneInv'
  BY <1>20, Sdk, TaskFacts DEF TypeInv, WorkOK, KeepInv, AloneInv, StageInv, At, NoTask, JsOn, SdkBegin, Begin
<1>21. ASSUME NEW found, found \subseteq jsEntries, JsOffCall(found)
      PROVE  AloneInv'
  BY <1>21, Sdk, TaskFacts DEF TypeInv, WorkOK, KeepInv, AloneInv, StageInv, At, NoTask, JsOffCall, Begin
<1>22. ASSUME NEW u \in JsSubscribers, JsOffOne(u)
      PROVE  AloneInv'
  BY <1>22, Sdk, TaskFacts DEF TypeInv, WorkOK, KeepInv, AloneInv, StageInv, At, NoTask, JsOffOne, SdkDrop, DropSdkItem
<1>23. ASSUME NEW s \in Tasks, Attempt(s)
      PROVE  AloneInv'
  BY <1>23, Sdk, TaskFacts DEF TypeInv, WorkOK, KeepInv, AloneInv, StageInv, At, NoTask, Attempt, Active, EndTask
<1>24. ASSUME NEW s \in Tasks, Recreate(s)
      PROVE  AloneInv'
  BY <1>24, Sdk, TaskFacts DEF TypeInv, WorkOK, KeepInv, AloneInv, StageInv, At, NoTask, Recreate, Active, Turn, InsertSession
<1>25. ASSUME NEW s \in Tasks, RecreateSlot(s)
      PROVE  AloneInv'
  BY <1>25, Sdk, TaskFacts DEF TypeInv, WorkOK, KeepInv, AloneInv, StageInv, At, NoTask, RecreateSlot, TakeSlot, Active, Turn, EndTask
<1>26. ASSUME NEW s \in Tasks, Recovered(s)
      PROVE  AloneInv'
  BY <1>26, Sdk, TaskFacts DEF TypeInv, WorkOK, KeepInv, AloneInv, StageInv, At, NoTask, Recovered, Active, EndTask
<1>27. ASSUME NEW s \in Tasks, NEW e \in Events, Resubscribe(s, e)
      PROVE  AloneInv'
  BY <1>27, Sdk, TaskFacts DEF TypeInv, WorkOK, KeepInv, AloneInv, StageInv, At, NoTask, Resubscribe, Active, InsertSubscribeRecord
<1>28. ASSUME NEW s \in Tasks, NEW f \in Filters, ReAddFilter(s, f)
      PROVE  AloneInv'
  BY <1>28, Sdk, TaskFacts DEF TypeInv, WorkOK, KeepInv, AloneInv, StageInv, At, NoTask, ReAddFilter, Active, MayAddFilter, InsertSubscribeMute
<1>29. ASSUME NEW s \in Tasks, NEW u \in Subscribers, SdkResubscribe(s, u)
      PROVE  AloneInv'
  BY <1>29, Sdk, TaskFacts DEF TypeInv, WorkOK, KeepInv, AloneInv, StageInv, At, NoTask, SdkResubscribe, Active, AddSdkItem
<1>30. ASSUME NEW id \in Ids, NEW s \in Tasks, HandleDeath(id, s)
      PROVE  AloneInv'
  BY <1>30, Sdk, TaskFacts DEF TypeInv, WorkOK, KeepInv, AloneInv, StageInv, At, NoTask, HandleDeath
<1>31. ASSUME UNCHANGED vars
      PROVE  AloneInv'
  BY <1>31, Sdk, TaskFacts DEF TypeInv, WorkOK, KeepInv, AloneInv, StageInv, At, NoTask, vars
<1> QED
  BY <1>1, <1>2, <1>3, <1>4, <1>5, <1>6, <1>7, <1>8, <1>9, <1>10, <1>11, <1>12, <1>13, <1>14, <1>15, <1>16, <1>17, <1>18, <1>19, <1>20, <1>21, <1>22, <1>23, <1>24, <1>25, <1>26, <1>27, <1>28, <1>29, <1>30, <1>31 DEF Next, Finish, Recover, JsOffCallback, JsOffEvent

LEMMA NextStage ==
    ASSUME TypeInv, KeepInv, [Next]_vars
    PROVE  \A d \in Clients : StageInv(d)'
<1>1. ASSUME ServiceDies, NEW d \in Clients
      PROVE  StageInv(d)'
  BY <1>1, Sdk, TaskFacts, NoneWorking DEF TypeInv, ServiceOK, KitOK, WorkOK, KeepInv, AloneInv, StageInv, Call, Idle, At, Unused, Working, Of, NoTask, ServiceDies, InAnswer
<1>2. ASSUME ServiceStarts, NEW d \in Clients
      PROVE  StageInv(d)'
  BY <1>2, Sdk, TaskFacts, NoneWorking DEF TypeInv, ServiceOK, KitOK, WorkOK, KeepInv, AloneInv, StageInv, Call, Idle, At, Unused, Working, Of, NoTask, ServiceStarts
<1>3. ASSUME ProcessDies, NEW d \in Clients
      PROVE  StageInv(d)'
  BY <1>3, Sdk, TaskFacts, NoneWorking DEF TypeInv, ServiceOK, KitOK, WorkOK, KeepInv, AloneInv, StageInv, Call, Idle, At, Unused, Working, Of, NoTask, ProcessDies
<1>4. ASSUME NEW id \in Ids, OnRemoteDied(id), NEW d \in Clients
      PROVE  StageInv(d)'
  BY <1>4, Sdk, TaskFacts, NoneWorking DEF TypeInv, ServiceOK, KitOK, WorkOK, KeepInv, AloneInv, StageInv, Call, Idle, At, Unused, Working, Of, NoTask, OnRemoteDied
<1>5. ASSUME SdkAsk, NEW d \in Clients
      PROVE  StageInv(d)'
  BY <1>5, Sdk, TaskFacts, NoneWorking DEF TypeInv, ServiceOK, KitOK, WorkOK, KeepInv, AloneInv, StageInv, Call, Idle, At, Unused, Working, Of, NoTask, SdkAsk, AddSdkItem
<1>6. ASSUME SdkSubscribeDone, NEW d \in Clients
      PROVE  StageInv(d)'
  BY <1>6, Sdk, TaskFacts, NoneWorking DEF TypeInv, ServiceOK, KitOK, WorkOK, KeepInv, AloneInv, StageInv, Call, Idle, At, Unused, Working, Of, NoTask, SdkSubscribeDone
<1>7. ASSUME NEW c \in Clients, CreatClientSlot(c), NEW d \in Clients
      PROVE  StageInv(d)'
  BY <1>7, Sdk, TaskFacts, NoneWorking DEF TypeInv, ServiceOK, KitOK, WorkOK, KeepInv, AloneInv, StageInv, Call, Idle, At, Unused, Working, Of, NoTask, CreatClientSlot, TakeSlot
<1>8. ASSUME NEW c \in Clients, CreatClientDone(c), NEW d \in Clients
      PROVE  StageInv(d)'
  BY <1>8, Sdk, TaskFacts, NoneWorking DEF TypeInv, ServiceOK, KitOK, WorkOK, KeepInv, AloneInv, StageInv, Call, Idle, At, Unused, Working, Of, NoTask, CreatClientDone
<1>9. ASSUME NEW c \in Clients, RecordSubscribed(c), NEW d \in Clients
      PROVE  StageInv(d)'
  BY <1>9, Sdk, TaskFacts, NoneWorking DEF TypeInv, ServiceOK, KitOK, WorkOK, KeepInv, AloneInv, StageInv, Call, Idle, At, Unused, Working, Of, NoTask, RecordSubscribed
<1>10. ASSUME NEW c \in Clients, RecordDropped(c), NEW d \in Clients
      PROVE  StageInv(d)'
  BY <1>10, Sdk, TaskFacts, NoneWorking DEF TypeInv, ServiceOK, KitOK, WorkOK, KeepInv, AloneInv, StageInv, Call, Idle, At, Unused, Working, Of, NoTask, RecordDropped
<1>11. ASSUME NEW c \in Clients, DestoryClientSlot(c), NEW d \in Clients
      PROVE  StageInv(d)'
  BY <1>11, Sdk, TaskFacts, NoneWorking DEF TypeInv, ServiceOK, KitOK, WorkOK, KeepInv, AloneInv, StageInv, Call, Idle, At, Unused, Working, Of, NoTask, DestoryClientSlot
<1>12. ASSUME NEW c \in Clients, CreatClient(c), NEW d \in Clients
      PROVE  StageInv(d)'
  BY <1>12, Sdk, TaskFacts, NoneWorking DEF TypeInv, ServiceOK, KitOK, WorkOK, KeepInv, AloneInv, StageInv, Call, Idle, At, Unused, Working, Of, NoTask, CreatClient, InsertSession, Begin
<1>13. ASSUME NEW c \in Clients, Release(c), NEW d \in Clients
      PROVE  StageInv(d)'
  <2>1. ~Working(c)
    BY <1>13, NoneWorking DEF Release
  <2> QED
    BY <1>13, <2>1, Sdk DEF TypeInv, KitOK, WorkOK, KeepInv, StageInv, Unused, Working, Of, Call, Idle, At, Release, Begin
<1>14. ASSUME NEW c \in Clients, NEW e \in Events, Subscribe(c, e), NEW d \in Clients
      PROVE  StageInv(d)'
  BY <1>14, Sdk, TaskFacts, NoneWorking DEF TypeInv, ServiceOK, KitOK, WorkOK, KeepInv, AloneInv, StageInv, Call, Idle, At, Unused, Working, Of, NoTask, Subscribe, InsertSubscribeRecord, Begin
<1>15. ASSUME NEW c \in Clients, NEW e \in Events, Unsubscribe(c, e), NEW d \in Clients
      PROVE  StageInv(d)'
  BY <1>15, Sdk, TaskFacts, NoneWorking DEF TypeInv, ServiceOK, KitOK, WorkOK, KeepInv, AloneInv, StageInv, Call, Idle, At, Unused, Working, Of, NoTask, Unsubscribe, RemoveSubscribeRecord, Begin
<1>16. ASSUME NEW c \in Clients, NEW f \in Filters, AddFilter(c, f), NEW d \in Clients
      PROVE  StageInv(d)'
  BY <1>16, Sdk, TaskFacts, NoneWorking DEF TypeInv, ServiceOK, KitOK, WorkOK, KeepInv, AloneInv, StageInv, Call, Idle, At, Unused, Working, Of, NoTask, AddFilter, InsertSubscribeMute, Begin, MayAddFilter
<1>17. ASSUME NEW c \in Clients, NEW f \in Filters, RemoveFilter(c, f), NEW d \in Clients
      PROVE  StageInv(d)'
  BY <1>17, Sdk, TaskFacts, NoneWorking DEF TypeInv, ServiceOK, KitOK, WorkOK, KeepInv, AloneInv, StageInv, Call, Idle, At, Unused, Working, Of, NoTask, RemoveFilter, RemoveSubscribeMute, MayRemoveFilter, Begin
<1>18. ASSUME NEW u \in Subscribers, SdkSubscribe(u), NEW d \in Clients
      PROVE  StageInv(d)'
  BY <1>18, Sdk, TaskFacts, NoneWorking DEF TypeInv, ServiceOK, KitOK, WorkOK, KeepInv, AloneInv, StageInv, Call, Idle, At, Unused, Working, Of, NoTask, SdkSubscribe, SdkBegin, Begin
<1>19. ASSUME NEW u \in Subscribers, SdkUnsubscribe(u), NEW d \in Clients
      PROVE  StageInv(d)'
  BY <1>19, Sdk, TaskFacts, NoneWorking DEF TypeInv, ServiceOK, KitOK, WorkOK, KeepInv, AloneInv, StageInv, Call, Idle, At, Unused, Working, Of, NoTask, SdkUnsubscribe, SdkDrop, DropSdkItem, Begin
<1>20. ASSUME NEW u \in JsSubscribers, JsOn(u), NEW d \in Clients
      PROVE  StageInv(d)'
  BY <1>20, Sdk, TaskFacts, NoneWorking DEF TypeInv, ServiceOK, KitOK, WorkOK, KeepInv, AloneInv, StageInv, Call, Idle, At, Unused, Working, Of, NoTask, JsOn, SdkBegin, Begin
<1>21. ASSUME NEW found, found \subseteq jsEntries, JsOffCall(found), NEW d \in Clients
      PROVE  StageInv(d)'
  BY <1>21, Sdk, TaskFacts, NoneWorking DEF TypeInv, ServiceOK, KitOK, WorkOK, KeepInv, AloneInv, StageInv, Call, Idle, At, Unused, Working, Of, NoTask, JsOffCall, Begin
<1>22. ASSUME NEW u \in JsSubscribers, JsOffOne(u), NEW d \in Clients
      PROVE  StageInv(d)'
  BY <1>22, Sdk, TaskFacts, NoneWorking DEF TypeInv, ServiceOK, KitOK, WorkOK, KeepInv, AloneInv, StageInv, Call, Idle, At, Unused, Working, Of, NoTask, JsOffOne, SdkDrop, DropSdkItem
<1>23. ASSUME NEW s \in Tasks, Attempt(s), NEW d \in Clients
      PROVE  StageInv(d)'
  <2>1. \A r \in Tasks : Of(d, r)' => Of(d, r)
    BY <1>23, AttemptMoves, Sdk DEF Kept, Ended, OthersKept, Of, NoTask
  <2>2. d \in watching' => d \in watching \/ Of(d, s)
    BY <1>23, AttemptMoves DEF Of
  <2> QED
    BY <1>23, <2>1, <2>2 DEF KeepInv, StageInv, Unused, Working, At, Attempt
<1>24. ASSUME NEW s \in Tasks, Recreate(s), NEW d \in Clients
      PROVE  StageInv(d)'
  BY <1>24, Sdk, TaskFacts, RecreateMoves DEF TypeInv, ServiceOK, KitOK, WorkOK, KeepInv, AloneInv, StageInv, Call, Idle, At, Unused, Working, Of, NoTask, Kept, Ended, OthersKept, Recreate
<1>25. ASSUME NEW s \in Tasks, RecreateSlot(s), NEW d \in Clients
      PROVE  StageInv(d)'
  BY <1>25, Sdk, TaskFacts, RecreateSlotMoves DEF TypeInv, ServiceOK, KitOK, WorkOK, KeepInv, AloneInv, StageInv, Call, Idle, At, Unused, Working, Of, NoTask, Kept, Ended, OthersKept, RecreateSlot
<1>26. ASSUME NEW s \in Tasks, Recovered(s), NEW d \in Clients
      PROVE  StageInv(d)'
  BY <1>26, Sdk, TaskFacts, NoneWorking DEF TypeInv, ServiceOK, KitOK, WorkOK, KeepInv, AloneInv, StageInv, Call, Idle, At, Unused, Working, Of, NoTask, Recovered, Active, EndTask
<1>27. ASSUME NEW s \in Tasks, NEW e \in Events, Resubscribe(s, e), NEW d \in Clients
      PROVE  StageInv(d)'
  BY <1>27, Sdk, TaskFacts, NoneWorking DEF TypeInv, ServiceOK, KitOK, WorkOK, KeepInv, AloneInv, StageInv, Call, Idle, At, Unused, Working, Of, NoTask, Resubscribe, Active, InsertSubscribeRecord
<1>28. ASSUME NEW s \in Tasks, NEW f \in Filters, ReAddFilter(s, f), NEW d \in Clients
      PROVE  StageInv(d)'
  BY <1>28, Sdk, TaskFacts, NoneWorking DEF TypeInv, ServiceOK, KitOK, WorkOK, KeepInv, AloneInv, StageInv, Call, Idle, At, Unused, Working, Of, NoTask, ReAddFilter, Active, MayAddFilter, InsertSubscribeMute
<1>29. ASSUME NEW s \in Tasks, NEW u \in Subscribers, SdkResubscribe(s, u), NEW d \in Clients
      PROVE  StageInv(d)'
  BY <1>29, Sdk, TaskFacts, NoneWorking DEF TypeInv, ServiceOK, KitOK, WorkOK, KeepInv, AloneInv, StageInv, Call, Idle, At, Unused, Working, Of, NoTask, SdkResubscribe, Active, AddSdkItem
<1>30. ASSUME NEW id \in Ids, NEW s \in Tasks, HandleDeath(id, s), NEW d \in Clients
      PROVE  StageInv(d)'
  BY <1>30, Sdk, TaskFacts, NoneWorking DEF TypeInv, ServiceOK, KitOK, WorkOK, KeepInv, AloneInv, StageInv, Call, Idle, At, Unused, Working, Of, NoTask, HandleDeath
<1>31. ASSUME UNCHANGED vars, NEW d \in Clients
      PROVE  StageInv(d)'
  BY <1>31, Sdk, TaskFacts, NoneWorking DEF TypeInv, ServiceOK, KitOK, WorkOK, KeepInv, AloneInv, StageInv, Call, Idle, At, Unused, Working, Of, NoTask, vars
<1> QED
  BY <1>1, <1>2, <1>3, <1>4, <1>5, <1>6, <1>7, <1>8, <1>9, <1>10, <1>11, <1>12, <1>13, <1>14, <1>15, <1>16, <1>17, <1>18, <1>19, <1>20, <1>21, <1>22, <1>23, <1>24, <1>25, <1>26, <1>27, <1>28, <1>29, <1>30, <1>31 DEF Next, Finish, Recover, JsOffCallback, JsOffEvent

LEMMA NextSlot ==
    ASSUME TypeInv, KeepInv, [Next]_vars
    PROVE  \A d \in Clients : SlotInv(d)'
<1>1. ASSUME ServiceDies, NEW d \in Clients
      PROVE  SlotInv(d)'
  <2>1. \A r \in Tasks : Of(d, r) => task[r].life \in Nat
    BY TaskFacts, Sdk DEF Of, TaskSet
  <2>2. ~At(d, "inserted")'
    BY <1>1, Sdk DEF ServiceDies, InAnswer, Idle, At
  <2> QED
    BY <1>1, <2>1, <2>2 DEF TypeInv, ServiceOK, KeepInv, SlotInv, ServiceDies, Inserting, Reached, Of
<1>2. ASSUME ServiceStarts, NEW d \in Clients
      PROVE  SlotInv(d)'
  BY <1>2, Sdk, TaskFacts DEF TypeInv, ServiceOK, KitOK, WorkOK, KeepInv, AloneInv, StageInv, SlotInv, Call, Idle, At, Inserting, Reached, Unused, Working, Of, NoTask, ServiceStarts
<1>3. ASSUME ProcessDies, NEW d \in Clients
      PROVE  SlotInv(d)'
  BY <1>3, Sdk, TaskFacts DEF TypeInv, ServiceOK, KitOK, WorkOK, KeepInv, AloneInv, StageInv, SlotInv, Call, Idle, At, Inserting, Reached, Unused, Working, Of, NoTask, ProcessDies
<1>4. ASSUME NEW id \in Ids, OnRemoteDied(id), NEW d \in Clients
      PROVE  SlotInv(d)'
  BY <1>4, Sdk, TaskFacts DEF TypeInv, ServiceOK, KitOK, WorkOK, KeepInv, AloneInv, StageInv, SlotInv, Call, Idle, At, Inserting, Reached, Unused, Working, Of, NoTask, OnRemoteDied
<1>5. ASSUME SdkAsk, NEW d \in Clients
      PROVE  SlotInv(d)'
  BY <1>5, Sdk, TaskFacts DEF TypeInv, ServiceOK, KitOK, WorkOK, KeepInv, AloneInv, StageInv, SlotInv, Call, Idle, At, Inserting, Reached, Unused, Working, Of, NoTask, SdkAsk, AddSdkItem
<1>6. ASSUME SdkSubscribeDone, NEW d \in Clients
      PROVE  SlotInv(d)'
  BY <1>6, Sdk, TaskFacts DEF TypeInv, ServiceOK, KitOK, WorkOK, KeepInv, AloneInv, StageInv, SlotInv, Call, Idle, At, Inserting, Reached, Unused, Working, Of, NoTask, SdkSubscribeDone
<1>7. ASSUME NEW c \in Clients, CreatClientSlot(c), NEW d \in Clients
      PROVE  SlotInv(d)'
  BY <1>7, Sdk, TaskFacts DEF TypeInv, ServiceOK, KitOK, WorkOK, KeepInv, AloneInv, StageInv, SlotInv, Call, Idle, At, Inserting, Reached, Unused, Working, Of, NoTask, CreatClientSlot, TakeSlot
<1>8. ASSUME NEW c \in Clients, CreatClientDone(c), NEW d \in Clients
      PROVE  SlotInv(d)'
  BY <1>8, Sdk, TaskFacts DEF TypeInv, ServiceOK, KitOK, WorkOK, KeepInv, AloneInv, StageInv, SlotInv, Call, Idle, At, Inserting, Reached, Unused, Working, Of, NoTask, CreatClientDone
<1>9. ASSUME NEW c \in Clients, RecordSubscribed(c), NEW d \in Clients
      PROVE  SlotInv(d)'
  BY <1>9, Sdk, TaskFacts DEF TypeInv, ServiceOK, KitOK, WorkOK, KeepInv, AloneInv, StageInv, SlotInv, Call, Idle, At, Inserting, Reached, Unused, Working, Of, NoTask, RecordSubscribed
<1>10. ASSUME NEW c \in Clients, RecordDropped(c), NEW d \in Clients
      PROVE  SlotInv(d)'
  BY <1>10, Sdk, TaskFacts DEF TypeInv, ServiceOK, KitOK, WorkOK, KeepInv, AloneInv, StageInv, SlotInv, Call, Idle, At, Inserting, Reached, Unused, Working, Of, NoTask, RecordDropped
<1>11. ASSUME NEW c \in Clients, DestoryClientSlot(c), NEW d \in Clients
      PROVE  SlotInv(d)'
  BY <1>11, Sdk, TaskFacts DEF TypeInv, ServiceOK, KitOK, WorkOK, KeepInv, AloneInv, StageInv, SlotInv, Call, Idle, At, Inserting, Reached, Unused, Working, Of, NoTask, DestoryClientSlot
<1>12. ASSUME NEW c \in Clients, CreatClient(c), NEW d \in Clients
      PROVE  SlotInv(d)'
  <2> USE <1>12 DEF CreatClient, Begin
  <2>1. call' = [call EXCEPT ![c] = [at |-> "inserted", arg |-> None, life |-> life]]
    BY DEF Call
  <2>2. CASE d # c
    BY <2>1, <2>2, Sdk, SlotKept, SessionMoves DEF TypeInv, ServiceOK, WorkOK, KeepInv, InsertSession
  <2>3. CASE d = c
    <3>1. session'[c] = {} /\ session'[c] # None
      BY Sdk, SetsAreSome DEF TypeInv, ServiceOK, InsertSession
    <3>2. c \notin callBacks /\ \A s \in Tasks : ~Inserting(c, s)
      BY DEF KeepInv, SlotInv
    <3>3. \A s \in Tasks : ~Inserting(c, s)'
      BY <3>2 DEF Inserting, Reached
    <3> QED
      BY <2>3, <3>1, <3>2, <3>3 DEF KeepInv, SlotInv, Of
  <2> QED
    BY <2>2, <2>3
<1>13. ASSUME NEW c \in Clients, Release(c), NEW d \in Clients
      PROVE  SlotInv(d)'
  BY <1>13, Sdk, TaskFacts DEF TypeInv, ServiceOK, KitOK, WorkOK, KeepInv, AloneInv, StageInv, SlotInv, Call, Idle, At, Inserting, Reached, Unused, Working, Of, NoTask, Release, Begin
<1>14. ASSUME NEW c \in Clients, NEW e \in Events, Subscribe(c, e), NEW d \in Clients
      PROVE  SlotInv(d)'
  BY <1>14, Sdk, TaskFacts, SetsAreSome, SessionMoves DEF TypeInv, ServiceOK, KitOK, WorkOK, KeepInv, AloneInv, StageInv, SlotInv, Call, Idle, At, Inserting, Reached, Unused, Working, Of, NoTask, Items, Subscribe, Begin, MayAddFilter, MayRemoveFilter
<1>15. ASSUME NEW c \in Clients, NEW e \in Events, Unsubscribe(c, e), NEW d \in Clients
      PROVE  SlotInv(d)'
  BY <1>15, Sdk, TaskFacts, SetsAreSome, SessionMoves DEF TypeInv, ServiceOK, KitOK, WorkOK, KeepInv, AloneInv, StageInv, SlotInv, Call, Idle, At, Inserting, Reached, Unused, Working, Of, NoTask, Items, Unsubscribe, Begin, MayAddFilter, MayRemoveFilter
<1>16. ASSUME NEW c \in Clients, NEW f \in Filters, AddFilter(c, f), NEW d \in Clients
      PROVE  SlotInv(d)'
  BY <1>16, Sdk, TaskFacts, SetsAreSome, SessionMoves DEF TypeInv, ServiceOK, KitOK, WorkOK, KeepInv, AloneInv, StageInv, SlotInv, Call, Idle, At, Inserting, Reached, Unused, Working, Of, NoTask, Items, AddFilter, Begin, MayAddFilter, MayRemoveFilter
<1>17. ASSUME NEW c \in Clients, NEW f \in Filters, RemoveFilter(c, f), NEW d \in Clients
      PROVE  SlotInv(d)'
  BY <1>17, Sdk, TaskFacts, SetsAreSome, SessionMoves DEF TypeInv, ServiceOK, KitOK, WorkOK, KeepInv, AloneInv, StageInv, SlotInv, Call, Idle, At, Inserting, Reached, Unused, Working, Of, NoTask, Items, RemoveFilter, Begin, MayAddFilter, MayRemoveFilter
<1>18. ASSUME NEW u \in Subscribers, SdkSubscribe(u), NEW d \in Clients
      PROVE  SlotInv(d)'
  BY <1>18, Sdk, TaskFacts DEF TypeInv, ServiceOK, KitOK, WorkOK, KeepInv, AloneInv, StageInv, SlotInv, Call, Idle, At, Inserting, Reached, Unused, Working, Of, NoTask, SdkSubscribe, SdkBegin, Begin
<1>19. ASSUME NEW u \in Subscribers, SdkUnsubscribe(u), NEW d \in Clients
      PROVE  SlotInv(d)'
  BY <1>19, Sdk, TaskFacts DEF TypeInv, ServiceOK, KitOK, WorkOK, KeepInv, AloneInv, StageInv, SlotInv, Call, Idle, At, Inserting, Reached, Unused, Working, Of, NoTask, SdkUnsubscribe, SdkDrop, DropSdkItem, Begin
<1>20. ASSUME NEW u \in JsSubscribers, JsOn(u), NEW d \in Clients
      PROVE  SlotInv(d)'
  BY <1>20, Sdk, TaskFacts DEF TypeInv, ServiceOK, KitOK, WorkOK, KeepInv, AloneInv, StageInv, SlotInv, Call, Idle, At, Inserting, Reached, Unused, Working, Of, NoTask, JsOn, SdkBegin, Begin
<1>21. ASSUME NEW found, found \subseteq jsEntries, JsOffCall(found), NEW d \in Clients
      PROVE  SlotInv(d)'
  BY <1>21, Sdk, TaskFacts DEF TypeInv, ServiceOK, KitOK, WorkOK, KeepInv, AloneInv, StageInv, SlotInv, Call, Idle, At, Inserting, Reached, Unused, Working, Of, NoTask, JsOffCall, Begin
<1>22. ASSUME NEW u \in JsSubscribers, JsOffOne(u), NEW d \in Clients
      PROVE  SlotInv(d)'
  BY <1>22, Sdk, TaskFacts DEF TypeInv, ServiceOK, KitOK, WorkOK, KeepInv, AloneInv, StageInv, SlotInv, Call, Idle, At, Inserting, Reached, Unused, Working, Of, NoTask, JsOffOne, SdkDrop, DropSdkItem
<1>23. ASSUME NEW s \in Tasks, Attempt(s), NEW d \in Clients
      PROVE  SlotInv(d)'
  <2>1. \A r \in Tasks : task'[r].at = "inserted" /\ task'[r].id = d => task'[r] = task[r]
    BY <1>23, Sdk, AttemptMoves DEF Kept, Ended, OthersKept, NoTask
  <2> QED
    BY <1>23, <2>1, SlotKept DEF KeepInv, Attempt
<1>24. ASSUME NEW s \in Tasks, Recreate(s), NEW d \in Clients
      PROVE  SlotInv(d)'
  <2> USE <1>24
  <2> DEFINE c == task[s].id
  <2>1. c \in Ids /\ task[s].life \in Nat
    BY TaskFacts, RecreateMoves DEF TaskSet
  <2>2. UNCHANGED <<up, life, alive, client, call, callBacks>>
    BY DEF Recreate
  <2>3. CASE d # c \/ UNCHANGED session
    <3>1. session[d] # None => session'[d] # None
      BY <2>1, <2>3, Sdk, RecreateMoves, SessionMoves, SetsAreSome DEF InsertSession, TypeInv, ServiceOK
    <3>2. \A r \in Tasks : task'[r].at = "inserted" /\ task'[r].id = d => task'[r] = task[r]
      BY <2>3, RecreateMoves, SetsAreSome, <2>1 DEF Kept, OthersKept, InsertSession, TypeInv, ServiceOK
    <3> QED
      BY <2>2, <3>1, <3>2, SlotKept DEF KeepInv
  <2>4. CASE d = c /\ session' # session
    <3>1. Reached(task[s].life) /\ session[d] = None /\ InsertSession(d) /\ Kept(s) /\ task'[s].life = task[s].life
      BY <2>4, RecreateMoves
    <3>2. session'[d] = {} /\ session'[d] # None
      BY <3>1, Sdk, SetsAreSome DEF TypeInv, ServiceOK, InsertSession
    <3>3. alive /\ client[d] = "live"
      BY <2>4, RecreateMoves DEF KeepInv, AloneInv, StageInv, Unused, Working, Of
    <3>4. d \notin callBacks /\ ~At(d, "inserted") /\ \A r \in Tasks : ~Inserting(d, r)
      BY <3>1, <3>3 DEF KeepInv, SlotInv, Reached
    <3>5. \A r \in Tasks \ {s} : ~Inserting(d, r)'
      BY <2>2, <3>1, <3>4 DEF Inserting, Reached, Kept, OthersKept
    <3>6. task'[s].life <= life /\ up
      BY <2>1, <3>1 DEF Reached
    <3> QED
      BY <2>2, <3>1, <3>2, <3>4, <3>5, <3>6 DEF KeepInv, SlotInv, At, Of, Kept, OthersKept
  <2> QED
    BY <2>3, <2>4
<1>25. ASSUME NEW s \in Tasks, RecreateSlot(s), NEW d \in Clients
      PROVE  SlotInv(d)'
  <2> USE <1>25
  <2> DEFINE c == task[s].id
  <2>1. c \in Ids /\ UNCHANGED <<up, life, alive, client, call>>
    BY TaskFacts, RecreateSlotMoves DEF TaskSet, RecreateSlot, kit
  <2>2. \A r \in Tasks : task'[r].at = "inserted" /\ task'[r].id = d => r # s /\ task'[r] = task[r]
    BY Sdk, RecreateSlotMoves DEF Kept, Ended, OthersKept, NoTask
  <2>3. \A r \in Tasks : Inserting(d, r)' => r # s /\ Inserting(d, r)
    BY <2>1, <2>2 DEF Inserting, Reached
  <2>4. CASE ~Reached(task[s].life)
    <3>1. UNCHANGED <<session, callBacks>>
      BY <2>4, RecreateSlotMoves
    <3> QED
      BY <2>1, <2>2, <3>1, SlotKept DEF KeepInv
  <2>5. CASE Reached(task[s].life) /\ d # c
    <3>1. (d \in callBacks' <=> d \in callBacks) /\ session'[d] = session[d]
      BY <2>1, <2>5, Sdk, RecreateSlotMoves DEF TakeSlot, TypeInv, ServiceOK
    <3>2. SlotInv(d)
      BY DEF KeepInv
    <3> QED
      BY <2>1, <2>2, <2>3, <3>1, <3>2 DEF SlotInv, At, Of
  <2>6. CASE Reached(task[s].life) /\ d = c
    <3>1. SlotInv(d) /\ Inserting(d, s)
      BY <2>6, RecreateSlotMoves DEF KeepInv, Inserting
    <3>2. d \notin callBacks /\ ~At(d, "inserted") /\ \A r \in Tasks : Inserting(d, r) => r = s
      BY <3>1 DEF SlotInv
    <3>3. callBacks' = callBacks \cup {d} /\ session' = session
      BY <2>6, <3>2, RecreateSlotMoves DEF TakeSlot
    <3>4. alive => session[d] # None
      BY <3>1 DEF SlotInv
    <3> QED
      BY <2>1, <2>2, <2>3, <3>1, <3>2, <3>3, <3>4 DEF SlotInv, At, Of
  <2> QED
    BY <2>4, <2>5, <2>6
<1>26. ASSUME NEW s \in Tasks, Recovered(s), NEW d \in Clients
      PROVE  SlotInv(d)'
  BY <1>26, Sdk, TaskFacts DEF TypeInv, ServiceOK, KitOK, WorkOK, KeepInv, AloneInv, StageInv, SlotInv, Call, Idle, At, Inserting, Reached, Unused, Working, Of, NoTask, Recovered, Active, EndTask
<1>27. ASSUME NEW s \in Tasks, NEW e \in Events, Resubscribe(s, e), NEW d \in Clients
      PROVE  SlotInv(d)'
  <2>1. \A r \in Tasks : task'[r].at = "inserted" /\ task'[r].id = d => task'[r] = task[r]
    BY <1>27, RestoreMoves DEF Kept, OthersKept
  <2>2. task[s].id \in Ids /\ e \in Items
    BY <1>27, TaskFacts, RestoreMoves DEF TaskSet, Items
  <2>3. session[d] # None => session'[d] # None
    BY <1>27, <2>2, Sdk, SessionMoves DEF Resubscribe, MayAddFilter
  <2> QED
    BY <1>27, <2>1, <2>3, SlotKept DEF KeepInv, Resubscribe
<1>28. ASSUME NEW s \in Tasks, NEW f \in Filters, ReAddFilter(s, f), NEW d \in Clients
      PROVE  SlotInv(d)'
  <2>1. \A r \in Tasks : task'[r].at = "inserted" /\ task'[r].id = d => task'[r] = task[r]
    BY <1>28, RestoreMoves DEF Kept, OthersKept
  <2>2. task[s].id \in Ids /\ f \in Items
    BY <1>28, TaskFacts, RestoreMoves DEF TaskSet, Items
  <2>3. session[d] # None => session'[d] # None
    BY <1>28, <2>2, Sdk, SessionMoves DEF ReAddFilter, MayAddFilter
  <2> QED
    BY <1>28, <2>1, <2>3, SlotKept DEF KeepInv, ReAddFilter
<1>29. ASSUME NEW s \in Tasks, NEW u \in Subscribers, SdkResubscribe(s, u), NEW d \in Clients
      PROVE  SlotInv(d)'
  BY <1>29, Sdk, TaskFacts DEF TypeInv, ServiceOK, KitOK, WorkOK, KeepInv, AloneInv, StageInv, SlotInv, Call, Idle, At, Inserting, Reached, Unused, Working, Of, NoTask, SdkResubscribe, Active, AddSdkItem
<1>30. ASSUME NEW id \in Ids, NEW s \in Tasks, HandleDeath(id, s), NEW d \in Clients
      PROVE  SlotInv(d)'
  BY <1>30, Sdk, TaskFacts DEF TypeInv, ServiceOK, KitOK, WorkOK, KeepInv, AloneInv, StageInv, SlotInv, Call, Idle, At, Inserting, Reached, Unused, Working, Of, NoTask, HandleDeath
<1>31. ASSUME UNCHANGED vars, NEW d \in Clients
      PROVE  SlotInv(d)'
  BY <1>31, Sdk, TaskFacts DEF TypeInv, ServiceOK, KitOK, WorkOK, KeepInv, AloneInv, StageInv, SlotInv, Call, Idle, At, Inserting, Reached, Unused, Working, Of, NoTask, vars
<1> QED
  BY <1>1, <1>2, <1>3, <1>4, <1>5, <1>6, <1>7, <1>8, <1>9, <1>10, <1>11, <1>12, <1>13, <1>14, <1>15, <1>16, <1>17, <1>18, <1>19, <1>20, <1>21, <1>22, <1>23, <1>24, <1>25, <1>26, <1>27, <1>28, <1>29, <1>30, <1>31 DEF Next, Finish, Recover, JsOffCallback, JsOffEvent

LEMMA InitKeeps == Init => TypeInv /\ KeepInv
<1> SUFFICES ASSUME Init
             PROVE  TypeInv /\ KeepInv
  OBVIOUS
<1>1. ServiceOK /\ KitOK
  BY DEF Init, ServiceOK, KitOK
<1>2. Idle \in CallSet /\ Idle.at = "idle"
  BY DEF Idle, CallSet
<1>3. WorkOK /\ ArgOK
  BY <1>2, Sdk DEF Init, WorkOK, ArgOK
<1>4. \A s \in Tasks, c \in Ids : task[s] = NoTask /\ ~Of(c, s)
  BY Sdk DEF Init, Of, NoTask
<1> QED
  BY <1>1, <1>2, <1>3, <1>4, Sdk DEF Init, TypeInv, KeepInv, AloneInv, StageInv, SlotInv, Unused, Working, Of, At, Inserting

(* A session goes with the service or with the application, or because the *)
(* application releases the client: a recovery, which undoes the session   *)
(* it has made when its slot is taken, never finds it taken.               *)
LEMMA NextKeepsSession ==
    ASSUME TypeInv, KeepInv, [Next]_vars
    PROVE  \A c \in Clients : (session[c] # None /\ session'[c] = None)
             => (up' = FALSE \/ c \in died \/ client'[c] = "released")
<1>1. ASSUME ServiceDies, NEW d \in Clients, session[d] # None, session'[d] = None
      PROVE  up' = FALSE \/ d \in died \/ client'[d] = "released"
  BY <1>1, Sdk, SetsAreSome DEF TypeInv, ServiceOK, KitOK, WorkOK, KeepInv, AloneInv, StageInv, SlotInv, Call, Idle, At, Inserting, Reached, Unused, Working, Of, NoTask, ServiceDies, InAnswer
<1>2. ASSUME ServiceStarts, NEW d \in Clients, session[d] # None, session'[d] = None
      PROVE  up' = FALSE \/ d \in died \/ client'[d] = "released"
  BY <1>2, Sdk, SetsAreSome DEF TypeInv, ServiceOK, KitOK, WorkOK, KeepInv, AloneInv, StageInv, SlotInv, Call, Idle, At, Inserting, Reached, Unused, Working, Of, NoTask, ServiceStarts
<1>3. ASSUME ProcessDies, NEW d \in Clients, session[d] # None, session'[d] = None
      PROVE  up' = FALSE \/ d \in died \/ client'[d] = "released"
  BY <1>3, Sdk, SetsAreSome DEF TypeInv, ServiceOK, KitOK, WorkOK, KeepInv, AloneInv, StageInv, SlotInv, Call, Idle, At, Inserting, Reached, Unused, Working, Of, NoTask, ProcessDies
<1>4. ASSUME NEW id \in Ids, OnRemoteDied(id), NEW d \in Clients, session[d] # None, session'[d] = None
      PROVE  up' = FALSE \/ d \in died \/ client'[d] = "released"
  BY <1>4, Sdk, SetsAreSome DEF TypeInv, ServiceOK, KitOK, WorkOK, KeepInv, AloneInv, StageInv, SlotInv, Call, Idle, At, Inserting, Reached, Unused, Working, Of, NoTask, OnRemoteDied
<1>5. ASSUME SdkAsk, NEW d \in Clients, session[d] # None, session'[d] = None
      PROVE  up' = FALSE \/ d \in died \/ client'[d] = "released"
  BY <1>5, Sdk, SetsAreSome DEF TypeInv, ServiceOK, KitOK, WorkOK, KeepInv, AloneInv, StageInv, SlotInv, Call, Idle, At, Inserting, Reached, Unused, Working, Of, NoTask, SdkAsk, AddSdkItem
<1>6. ASSUME SdkSubscribeDone, NEW d \in Clients, session[d] # None, session'[d] = None
      PROVE  up' = FALSE \/ d \in died \/ client'[d] = "released"
  BY <1>6, Sdk, SetsAreSome DEF TypeInv, ServiceOK, KitOK, WorkOK, KeepInv, AloneInv, StageInv, SlotInv, Call, Idle, At, Inserting, Reached, Unused, Working, Of, NoTask, SdkSubscribeDone
<1>7. ASSUME NEW c \in Clients, CreatClientSlot(c), NEW d \in Clients, session[d] # None, session'[d] = None
      PROVE  up' = FALSE \/ d \in died \/ client'[d] = "released"
  BY <1>7, Sdk, SetsAreSome DEF TypeInv, ServiceOK, KitOK, WorkOK, KeepInv, AloneInv, StageInv, SlotInv, Call, Idle, At, Inserting, Reached, Unused, Working, Of, NoTask, CreatClientSlot, TakeSlot
<1>8. ASSUME NEW c \in Clients, CreatClientDone(c), NEW d \in Clients, session[d] # None, session'[d] = None
      PROVE  up' = FALSE \/ d \in died \/ client'[d] = "released"
  BY <1>8, Sdk, SetsAreSome DEF TypeInv, ServiceOK, KitOK, WorkOK, KeepInv, AloneInv, StageInv, SlotInv, Call, Idle, At, Inserting, Reached, Unused, Working, Of, NoTask, CreatClientDone
<1>9. ASSUME NEW c \in Clients, RecordSubscribed(c), NEW d \in Clients, session[d] # None, session'[d] = None
      PROVE  up' = FALSE \/ d \in died \/ client'[d] = "released"
  BY <1>9, Sdk, SetsAreSome DEF TypeInv, ServiceOK, KitOK, WorkOK, KeepInv, AloneInv, StageInv, SlotInv, Call, Idle, At, Inserting, Reached, Unused, Working, Of, NoTask, RecordSubscribed
<1>10. ASSUME NEW c \in Clients, RecordDropped(c), NEW d \in Clients, session[d] # None, session'[d] = None
      PROVE  up' = FALSE \/ d \in died \/ client'[d] = "released"
  BY <1>10, Sdk, SetsAreSome DEF TypeInv, ServiceOK, KitOK, WorkOK, KeepInv, AloneInv, StageInv, SlotInv, Call, Idle, At, Inserting, Reached, Unused, Working, Of, NoTask, RecordDropped
<1>11. ASSUME NEW c \in Clients, DestoryClientSlot(c), NEW d \in Clients, session[d] # None, session'[d] = None
      PROVE  up' = FALSE \/ d \in died \/ client'[d] = "released"
  BY <1>11, Sdk, SetsAreSome DEF TypeInv, ServiceOK, KitOK, WorkOK, KeepInv, AloneInv, StageInv, SlotInv, Call, Idle, At, Inserting, Reached, Unused, Working, Of, NoTask, DestoryClientSlot
<1>12. ASSUME NEW c \in Clients, CreatClient(c), NEW d \in Clients, session[d] # None, session'[d] = None
      PROVE  up' = FALSE \/ d \in died \/ client'[d] = "released"
  BY <1>12, Sdk, SetsAreSome DEF TypeInv, ServiceOK, KitOK, WorkOK, KeepInv, AloneInv, StageInv, SlotInv, Call, Idle, At, Inserting, Reached, Unused, Working, Of, NoTask, CreatClient, InsertSession, Begin
<1>13. ASSUME NEW c \in Clients, Release(c), NEW d \in Clients, session[d] # None, session'[d] = None
      PROVE  up' = FALSE \/ d \in died \/ client'[d] = "released"
  BY <1>13, Sdk, SetsAreSome DEF TypeInv, ServiceOK, KitOK, WorkOK, KeepInv, AloneInv, StageInv, SlotInv, Call, Idle, At, Inserting, Reached, Unused, Working, Of, NoTask, Release, Begin
<1>14. ASSUME NEW c \in Clients, NEW e \in Events, Subscribe(c, e), NEW d \in Clients, session[d] # None, session'[d] = None
      PROVE  up' = FALSE \/ d \in died \/ client'[d] = "released"
  <2>1. e \in Items /\ \A r \in Tasks : Active(r, "again") => task[r].id \in Ids
    BY Sdk, TaskFacts DEF Items, Active, TaskSet
  <2> QED
    BY <1>14, <2>1, Sdk, SessionMoves DEF Subscribe, MayAddFilter
<1>15. ASSUME NEW c \in Clients, NEW e \in Events, Unsubscribe(c, e), NEW d \in Clients, session[d] # None, session'[d] = None
      PROVE  up' = FALSE \/ d \in died \/ client'[d] = "released"
  BY <1>15, Sdk, SetsAreSome DEF TypeInv, ServiceOK, KitOK, WorkOK, KeepInv, AloneInv, StageInv, SlotInv, Call, Idle, At, Inserting, Reached, Unused, Working, Of, NoTask, Unsubscribe, RemoveSubscribeRecord, Begin
<1>16. ASSUME NEW c \in Clients, NEW f \in Filters, AddFilter(c, f), NEW d \in Clients, session[d] # None, session'[d] = None
      PROVE  up' = FALSE \/ d \in died \/ client'[d] = "released"
  <2>1. f \in Items /\ \A r \in Tasks : Active(r, "again") => task[r].id \in Ids
    BY Sdk, TaskFacts DEF Items, Active, TaskSet
  <2> QED
    BY <1>16, <2>1, Sdk, SessionMoves DEF AddFilter, MayAddFilter
<1>17. ASSUME NEW c \in Clients, NEW f \in Filters, RemoveFilter(c, f), NEW d \in Clients, session[d] # None, session'[d] = None
      PROVE  up' = FALSE \/ d \in died \/ client'[d] = "released"
  BY <1>17, Sdk, SetsAreSome DEF TypeInv, ServiceOK, KitOK, WorkOK, KeepInv, AloneInv, StageInv, SlotInv, Call, Idle, At, Inserting, Reached, Unused, Working, Of, NoTask, RemoveFilter, RemoveSubscribeMute, MayRemoveFilter, Begin
<1>18. ASSUME NEW u \in Subscribers, SdkSubscribe(u), NEW d \in Clients, session[d] # None, session'[d] = None
      PROVE  up' = FALSE \/ d \in died \/ client'[d] = "released"
  BY <1>18, Sdk, SetsAreSome DEF TypeInv, ServiceOK, KitOK, WorkOK, KeepInv, AloneInv, StageInv, SlotInv, Call, Idle, At, Inserting, Reached, Unused, Working, Of, NoTask, SdkSubscribe, SdkBegin, Begin
<1>19. ASSUME NEW u \in Subscribers, SdkUnsubscribe(u), NEW d \in Clients, session[d] # None, session'[d] = None
      PROVE  up' = FALSE \/ d \in died \/ client'[d] = "released"
  BY <1>19, Sdk, SetsAreSome DEF TypeInv, ServiceOK, KitOK, WorkOK, KeepInv, AloneInv, StageInv, SlotInv, Call, Idle, At, Inserting, Reached, Unused, Working, Of, NoTask, SdkUnsubscribe, SdkDrop, DropSdkItem, Begin
<1>20. ASSUME NEW u \in JsSubscribers, JsOn(u), NEW d \in Clients, session[d] # None, session'[d] = None
      PROVE  up' = FALSE \/ d \in died \/ client'[d] = "released"
  BY <1>20, Sdk, SetsAreSome DEF TypeInv, ServiceOK, KitOK, WorkOK, KeepInv, AloneInv, StageInv, SlotInv, Call, Idle, At, Inserting, Reached, Unused, Working, Of, NoTask, JsOn, SdkBegin, Begin
<1>21. ASSUME NEW found, found \subseteq jsEntries, JsOffCall(found), NEW d \in Clients, session[d] # None, session'[d] = None
      PROVE  up' = FALSE \/ d \in died \/ client'[d] = "released"
  BY <1>21, Sdk, SetsAreSome DEF TypeInv, ServiceOK, KitOK, WorkOK, KeepInv, AloneInv, StageInv, SlotInv, Call, Idle, At, Inserting, Reached, Unused, Working, Of, NoTask, JsOffCall, Begin
<1>22. ASSUME NEW u \in JsSubscribers, JsOffOne(u), NEW d \in Clients, session[d] # None, session'[d] = None
      PROVE  up' = FALSE \/ d \in died \/ client'[d] = "released"
  BY <1>22, Sdk, SetsAreSome DEF TypeInv, ServiceOK, KitOK, WorkOK, KeepInv, AloneInv, StageInv, SlotInv, Call, Idle, At, Inserting, Reached, Unused, Working, Of, NoTask, JsOffOne, SdkDrop, DropSdkItem
<1>23. ASSUME NEW s \in Tasks, Attempt(s), NEW d \in Clients, session[d] # None, session'[d] = None
      PROVE  up' = FALSE \/ d \in died \/ client'[d] = "released"
  BY <1>23, Sdk, SetsAreSome DEF TypeInv, ServiceOK, KitOK, WorkOK, KeepInv, AloneInv, StageInv, SlotInv, Call, Idle, At, Inserting, Reached, Unused, Working, Of, NoTask, Attempt, Active, EndTask
<1>24. ASSUME NEW s \in Tasks, Recreate(s), NEW d \in Clients, session[d] # None, session'[d] = None
      PROVE  up' = FALSE \/ d \in died \/ client'[d] = "released"
  BY <1>24, Sdk, SetsAreSome DEF TypeInv, ServiceOK, KitOK, WorkOK, KeepInv, AloneInv, StageInv, SlotInv, Call, Idle, At, Inserting, Reached, Unused, Working, Of, NoTask, Recreate, Active, Turn, InsertSession
<1>25. ASSUME NEW s \in Tasks, RecreateSlot(s), NEW d \in Clients, session[d] # None, session'[d] = None
      PROVE  up' = FALSE \/ d \in died \/ client'[d] = "released"
  BY <1>25, Sdk, SetsAreSome DEF TypeInv, ServiceOK, KitOK, WorkOK, KeepInv, AloneInv, StageInv, SlotInv, Call, Idle, At, Inserting, Reached, Unused, Working, Of, NoTask, RecreateSlot, TakeSlot, Active, Turn, EndTask
<1>26. ASSUME NEW s \in Tasks, Recovered(s), NEW d \in Clients, session[d] # None, session'[d] = None
      PROVE  up' = FALSE \/ d \in died \/ client'[d] = "released"
  BY <1>26, Sdk, SetsAreSome DEF TypeInv, ServiceOK, KitOK, WorkOK, KeepInv, AloneInv, StageInv, SlotInv, Call, Idle, At, Inserting, Reached, Unused, Working, Of, NoTask, Recovered, Active, EndTask
<1>27. ASSUME NEW s \in Tasks, NEW e \in Events, Resubscribe(s, e), NEW d \in Clients, session[d] # None, session'[d] = None
      PROVE  up' = FALSE \/ d \in died \/ client'[d] = "released"
  <2>1. e \in Items /\ \A r \in Tasks : Active(r, "again") => task[r].id \in Ids
    BY Sdk, TaskFacts DEF Items, Active, TaskSet
  <2> QED
    BY <1>27, <2>1, Sdk, SessionMoves DEF Resubscribe, MayAddFilter
<1>28. ASSUME NEW s \in Tasks, NEW f \in Filters, ReAddFilter(s, f), NEW d \in Clients, session[d] # None, session'[d] = None
      PROVE  up' = FALSE \/ d \in died \/ client'[d] = "released"
  <2>1. f \in Items /\ \A r \in Tasks : Active(r, "again") => task[r].id \in Ids
    BY Sdk, TaskFacts DEF Items, Active, TaskSet
  <2> QED
    BY <1>28, <2>1, Sdk, SessionMoves DEF ReAddFilter, MayAddFilter
<1>29. ASSUME NEW s \in Tasks, NEW u \in Subscribers, SdkResubscribe(s, u), NEW d \in Clients, session[d] # None, session'[d] = None
      PROVE  up' = FALSE \/ d \in died \/ client'[d] = "released"
  BY <1>29, Sdk, SetsAreSome DEF TypeInv, ServiceOK, KitOK, WorkOK, KeepInv, AloneInv, StageInv, SlotInv, Call, Idle, At, Inserting, Reached, Unused, Working, Of, NoTask, SdkResubscribe, Active, AddSdkItem
<1>30. ASSUME NEW id \in Ids, NEW s \in Tasks, HandleDeath(id, s), NEW d \in Clients, session[d] # None, session'[d] = None
      PROVE  up' = FALSE \/ d \in died \/ client'[d] = "released"
  BY <1>30, Sdk, SetsAreSome DEF TypeInv, ServiceOK, KitOK, WorkOK, KeepInv, AloneInv, StageInv, SlotInv, Call, Idle, At, Inserting, Reached, Unused, Working, Of, NoTask, HandleDeath
<1>31. ASSUME UNCHANGED vars, NEW d \in Clients, session[d] # None, session'[d] = None
      PROVE  up' = FALSE \/ d \in died \/ client'[d] = "released"
  BY <1>31, Sdk, SetsAreSome DEF TypeInv, ServiceOK, KitOK, WorkOK, KeepInv, AloneInv, StageInv, SlotInv, Call, Idle, At, Inserting, Reached, Unused, Working, Of, NoTask, vars
<1> QED
  BY <1>1, <1>2, <1>3, <1>4, <1>5, <1>6, <1>7, <1>8, <1>9, <1>10, <1>11, <1>12, <1>13, <1>14, <1>15, <1>16, <1>17, <1>18, <1>19, <1>20, <1>21, <1>22, <1>23, <1>24, <1>25, <1>26, <1>27, <1>28, <1>29, <1>30, <1>31 DEF Next, Finish, Recover, JsOffCallback, JsOffEvent

THEOREM SessionsKept == Spec => SessionKept
<1>1. Init => TypeInv /\ KeepInv
  BY InitKeeps
<1>2. TypeInv /\ KeepInv /\ [Next]_vars => (TypeInv /\ KeepInv)'
  BY NextTyped, NextAlone, NextStage, NextSlot DEF KeepInv
<1>3. TypeInv /\ KeepInv /\ [Next]_vars
        => [\A c \in Clients : (session[c] # None /\ session'[c] = None)
              => (up' = FALSE \/ c \in died \/ client'[c] = "released")]_vars
  BY NextKeepsSession
<1> QED
  BY <1>1, <1>2, <1>3, PTL DEF Spec, SessionKept

-------------------------------------------------------------------------------
(* The agreement of the kits *)

(* A step that leaves a client, its session and its tasks alone. *)
LEMMA ClientKept ==
    ASSUME NEW d \in Clients, ClientInv(d), strained \subseteq strained', UNCHANGED <<up, life, alive>>,
           d \in obits' => d \in obits, d \in watching' => d \in watching, d \in callBacks' => d \in callBacks,
           call'[d] = call[d], recorded'[d] = recorded[d], session'[d] = session[d],
           \A r \in Tasks : Of(d, r) \/ Of(d, r)' => task'[r] = task[r]
    PROVE  ClientInv(d)'
<1>1. \A r \in Tasks : Of(d, r)' <=> Of(d, r)
  BY DEF Of
<1>2. (Working(d)' <=> Working(d)) /\ (Alone(d) => Alone(d)')
  BY <1>1 DEF Working, Alone
<1>3. \A x : x \in Due(d)' => x \in Due(d)
  BY DEF Due, At
<1>4. \A r \in Tasks : Of(d, r) /\ Restoring(d, r) => Restoring(d, r)'
  BY <1>3 DEF Restoring, Has, Reached
<1> QED
  BY <1>1, <1>2, <1>3, <1>4 DEF ClientInv, Has

(* A step of the application that changes what a client is to have and     *)
(* what its session has by the same items.                                 *)
LEMMA ClientChanged ==
    ASSUME NEW d \in Clients, ClientInv(d), UNCHANGED <<strained, up, life, alive, watching, obits, callBacks, task>>,
           alive /\ d \notin strained /\ (d \in watching \union obits \/ Working(d)) =>
             /\ session'[d] # None <=> session[d] # None
             /\ \A x : x \in Due(d)' => Has(d, x)' \/ (x \in Due(d) /\ (Has(d, x) => Has(d, x)'))
             /\ (call[d].at = "asked" => Has(d, call[d].arg))'
    PROVE  ClientInv(d)'
<1>1. \A r \in Tasks : Of(d, r)' <=> Of(d, r)
  BY DEF Of
<1>2. (Working(d)' <=> Working(d)) /\ (Alone(d) => Alone(d)')
  BY <1>1 DEF Working, Alone
<1> SUFFICES ASSUME alive, d \notin strained, d \in watching \union obits \/ Working(d)
             PROVE  ClientInv(d)'
  BY <1>1, <1>2 DEF ClientInv, Working
<1>3. \A r \in Tasks : Of(d, r) /\ Restoring(d, r) => Restoring(d, r)'
  BY DEF Restoring, Reached
<1>4. (\A x \in Due(d) : Has(d, x)) => \A x \in Due(d)' : Has(d, x)'
  OBVIOUS
<1> QED
  BY <1>1, <1>2, <1>3, <1>4 DEF ClientInv

(* A client that recovers nothing and is told of nothing. *)
LEMMA ClientAway ==
    ASSUME NEW d \in Clients, ~Working(d)', d \notin watching',
           (d \in obits => session[d] = None /\ d \notin callBacks)'
    PROVE  ClientInv(d)'
  BY DEF ClientInv, Alone, Working

LEMMA UnusedAway ==
    ASSUME NEW d \in Clients, KeepInv, alive, client[d] # "live", UNCHANGED <<task, watching, obits>>
    PROVE  ClientInv(d)'
<1>1. ~Working(d)' /\ d \notin watching' /\ d \notin obits'
  BY DEF KeepInv, StageInv, Unused, Working, Of
<1> QED
  BY <1>1, ClientAway

(* A step of the task of a client. *)
LEMMA ClientRestores ==
    ASSUME NEW d \in Clients, ClientInv(d), NEW s \in Tasks, Of(d, s), Kept(s),
           UNCHANGED <<strained, up, life, alive, call, obits>>,
           \A x : Has(d, x) => Has(d, x)',
           alive /\ d \notin strained /\ Restoring(d, s) => Restoring(d, s)'
    PROVE  ClientInv(d)'
<1>1. \A r \in Tasks : Of(d, r)' <=> Of(d, r)
  BY DEF Of, Kept, OthersKept
<1>2. Working(d) /\ Working(d)' /\ (Alone(d) => Alone(d)')
  BY <1>1 DEF Working, Alone
<1> SUFFICES ASSUME alive, d \notin strained
             PROVE  ClientInv(d)'
  BY DEF ClientInv
<1>3. Alone(d)' /\ d \notin obits'
  BY <1>2 DEF ClientInv, Alone
<1>4. \A r \in Tasks : Of(d, r)' => Restoring(d, r)'
  BY <1>1 DEF ClientInv, Alone
<1>5. call[d].at = "asked" => Has(d, call[d].arg)'
  BY <1>2 DEF ClientInv
<1> QED
  BY <1>2, <1>3, <1>4, <1>5 DEF ClientInv, Has

LEMMA NextTold ==
    ASSUME TypeInv, KeepInv, Inv, [Next]_vars
    PROVE  ToldInv'
<1>1. ASSUME ServiceDies
      PROVE  ToldInv'
  BY <1>1 DEF ServiceDies, ToldInv
<1>2. ASSUME ServiceStarts
      PROVE  ToldInv'
  BY <1>2, Sdk, TaskFacts DEF TypeInv, ServiceOK, KitOK, WorkOK, ArgOK, KeepInv, AloneInv, StageInv, SlotInv, Inv, ToldInv, Call, Idle, At, Reached, ClientSteps, SdkSteps, InAnswer, ServiceStarts
<1>3. ASSUME ProcessDies
      PROVE  ToldInv'
  BY <1>3, Sdk, TaskFacts DEF TypeInv, ServiceOK, KitOK, WorkOK, ArgOK, KeepInv, AloneInv, StageInv, SlotInv, Inv, ToldInv, Call, Idle, At, Reached, ClientSteps, SdkSteps, InAnswer, ProcessDies
<1>4. ASSUME NEW id \in Ids, OnRemoteDied(id)
      PROVE  ToldInv'
  BY <1>4, Sdk, TaskFacts DEF TypeInv, ServiceOK, KitOK, WorkOK, ArgOK, KeepInv, AloneInv, StageInv, SlotInv, Inv, ToldInv, Call, Idle, At, Reached, ClientSteps, SdkSteps, InAnswer, OnRemoteDied
<1>5. ASSUME SdkAsk
      PROVE  ToldInv'
  BY <1>5, Sdk, TaskFacts DEF TypeInv, ServiceOK, KitOK, WorkOK, ArgOK, KeepInv, AloneInv, StageInv, SlotInv, Inv, ToldInv, Call, Idle, At, Reached, ClientSteps, SdkSteps, InAnswer, SdkAsk, AddSdkItem
<1>6. ASSUME SdkSubscribeDone
      PROVE  ToldInv'
  BY <1>6, Sdk, TaskFacts DEF TypeInv, ServiceOK, KitOK, WorkOK, ArgOK, KeepInv, AloneInv, StageInv, SlotInv, Inv, ToldInv, Call, Idle, At, Reached, ClientSteps, SdkSteps, InAnswer, SdkSubscribeDone
<1>7. ASSUME NEW c \in Clients, CreatClientSlot(c)
      PROVE  ToldInv'
  BY <1>7, Sdk, TaskFacts DEF TypeInv, ServiceOK, KitOK, WorkOK, ArgOK, KeepInv, AloneInv, StageInv, SlotInv, Inv, ToldInv, Call, Idle, At, Reached, ClientSteps, SdkSteps, InAnswer, CreatClientSlot, TakeSlot
<1>8. ASSUME NEW c \in Clients, CreatClientDone(c)
      PROVE  ToldInv'
  BY <1>8, Sdk, TaskFacts DEF TypeInv, ServiceOK, KitOK, WorkOK, ArgOK, KeepInv, AloneInv, StageInv, SlotInv, Inv, ToldInv, Call, Idle, At, Reached, ClientSteps, SdkSteps, InAnswer, CreatClientDone
<1>9. ASSUME NEW c \in Clients, RecordSubscribed(c)
      PROVE  ToldInv'
  BY <1>9, Sdk, TaskFacts DEF TypeInv, ServiceOK, KitOK, WorkOK, ArgOK, KeepInv, AloneInv, StageInv, SlotInv, Inv, ToldInv, Call, Idle, At, Reached, ClientSteps, SdkSteps, InAnswer, RecordSubscribed
<1>10. ASSUME NEW c \in Clients, RecordDropped(c)
      PROVE  ToldInv'
  BY <1>10, Sdk, TaskFacts DEF TypeInv, ServiceOK, KitOK, WorkOK, ArgOK, KeepInv, AloneInv, StageInv, SlotInv, Inv, ToldInv, Call, Idle, At, Reached, ClientSteps, SdkSteps, InAnswer, RecordDropped
<1>11. ASSUME NEW c \in Clients, DestoryClientSlot(c)
      PROVE  ToldInv'
  BY <1>11, Sdk, TaskFacts DEF TypeInv, ServiceOK, KitOK, WorkOK, ArgOK, KeepInv, AloneInv, StageInv, SlotInv, Inv, ToldInv, Call, Idle, At, Reached, ClientSteps, SdkSteps, InAnswer, DestoryClientSlot
<1>12. ASSUME NEW c \in Clients, CreatClient(c)
      PROVE  ToldInv'
  BY <1>12, Sdk, TaskFacts DEF TypeInv, ServiceOK, KitOK, WorkOK, ArgOK, KeepInv, AloneInv, StageInv, SlotInv, Inv, ToldInv, Call, Idle, At, Reached, ClientSteps, SdkSteps, InAnswer, CreatClient, InsertSession, Begin
<1>13. ASSUME NEW c \in Clients, Release(c)
      PROVE  ToldInv'
  BY <1>13, Sdk, TaskFacts DEF TypeInv, ServiceOK, KitOK, WorkOK, ArgOK, KeepInv, AloneInv, StageInv, SlotInv, Inv, ToldInv, Call, Idle, At, Reached, ClientSteps, SdkSteps, InAnswer, Release, Begin
<1>14. ASSUME NEW c \in Clients, NEW e \in Events, Subscribe(c, e)
      PROVE  ToldInv'
  BY <1>14, Sdk, TaskFacts DEF TypeInv, ServiceOK, KitOK, WorkOK, ArgOK, KeepInv, AloneInv, StageInv, SlotInv, Inv, ToldInv, Call, Idle, At, Reached, ClientSteps, SdkSteps, InAnswer, Subscribe, InsertSubscribeRecord, Begin
<1>15. ASSUME NEW c \in Clients, NEW e \in Events, Unsubscribe(c, e)
      PROVE  ToldInv'
  BY <1>15, Sdk, TaskFacts DEF TypeInv, ServiceOK, KitOK, WorkOK, ArgOK, KeepInv, AloneInv, StageInv, SlotInv, Inv, ToldInv, Call, Idle, At, Reached, ClientSteps, SdkSteps, InAnswer, Unsubscribe, RemoveSubscribeRecord, Begin
<1>16. ASSUME NEW c \in Clients, NEW f \in Filters, AddFilter(c, f)
      PROVE  ToldInv'
  BY <1>16, Sdk, TaskFacts DEF TypeInv, ServiceOK, KitOK, WorkOK, ArgOK, KeepInv, AloneInv, StageInv, SlotInv, Inv, ToldInv, Call, Idle, At, Reached, ClientSteps, SdkSteps, InAnswer, AddFilter, InsertSubscribeMute, Begin, MayAddFilter
<1>17. ASSUME NEW c \in Clients, NEW f \in Filters, RemoveFilter(c, f)
      PROVE  ToldInv'
  BY <1>17, Sdk, TaskFacts DEF TypeInv, ServiceOK, KitOK, WorkOK, ArgOK, KeepInv, AloneInv, StageInv, SlotInv, Inv, ToldInv, Call, Idle, At, Reached, ClientSteps, SdkSteps, InAnswer, RemoveFilter, RemoveSubscribeMute, MayRemoveFilter, Begin
<1>18. ASSUME NEW u \in Subscribers, SdkSubscribe(u)
      PROVE  ToldInv'
  BY <1>18, Sdk, TaskFacts DEF TypeInv, ServiceOK, KitOK, WorkOK, ArgOK, KeepInv, AloneInv, StageInv, SlotInv, Inv, ToldInv, Call, Idle, At, Reached, ClientSteps, SdkSteps, InAnswer, SdkSubscribe, SdkBegin, Begin
<1>19. ASSUME NEW u \in Subscribers, SdkUnsubscribe(u)
      PROVE  ToldInv'
  BY <1>19, Sdk, TaskFacts DEF TypeInv, ServiceOK, KitOK, WorkOK, ArgOK, KeepInv, AloneInv, StageInv, SlotInv, Inv, ToldInv, Call, Idle, At, Reached, ClientSteps, SdkSteps, InAnswer, SdkUnsubscribe, SdkDrop, DropSdkItem, Begin
<1>20. ASSUME NEW u \in JsSubscribers, JsOn(u)
      PROVE  ToldInv'
  BY <1>20, Sdk, TaskFacts DEF TypeInv, ServiceOK, KitOK, WorkOK, ArgOK, KeepInv, AloneInv, StageInv, SlotInv, Inv, ToldInv, Call, Idle, At, Reached, ClientSteps, SdkSteps, InAnswer, JsOn, SdkBegin, Begin
<1>21. ASSUME NEW found, found \subseteq jsEntries, JsOffCall(found)
      PROVE  ToldInv'
  BY <1>21, Sdk, TaskFacts DEF TypeInv, ServiceOK, KitOK, WorkOK, ArgOK, KeepInv, AloneInv, StageInv, SlotInv, Inv, ToldInv, Call, Idle, At, Reached, ClientSteps, SdkSteps, InAnswer, JsOffCall, Begin
<1>22. ASSUME NEW u \in JsSubscribers, JsOffOne(u)
      PROVE  ToldInv'
  BY <1>22, Sdk, TaskFacts DEF TypeInv, ServiceOK, KitOK, WorkOK, ArgOK, KeepInv, AloneInv, StageInv, SlotInv, Inv, ToldInv, Call, Idle, At, Reached, ClientSteps, SdkSteps, InAnswer, JsOffOne, SdkDrop, DropSdkItem
<1>23. ASSUME NEW s \in Tasks, Attempt(s)
      PROVE  ToldInv'
  BY <1>23, Sdk, TaskFacts DEF TypeInv, ServiceOK, KitOK, WorkOK, ArgOK, KeepInv, AloneInv, StageInv, SlotInv, Inv, ToldInv, Call, Idle, At, Reached, ClientSteps, SdkSteps, InAnswer, Attempt, Active, EndTask
<1>24. ASSUME NEW s \in Tasks, Recreate(s)
      PROVE  ToldInv'
  BY <1>24, Sdk, TaskFacts DEF TypeInv, ServiceOK, KitOK, WorkOK, ArgOK, KeepInv, AloneInv, StageInv, SlotInv, Inv, ToldInv, Call, Idle, At, Reached, ClientSteps, SdkSteps, InAnswer, Recreate, Active, Turn, InsertSession
<1>25. ASSUME NEW s \in Tasks, RecreateSlot(s)
      PROVE  ToldInv'
  BY <1>25, Sdk, TaskFacts DEF TypeInv, ServiceOK, KitOK, WorkOK, ArgOK, KeepInv, AloneInv, StageInv, SlotInv, Inv, ToldInv, Call, Idle, At, Reached, ClientSteps, SdkSteps, InAnswer, RecreateSlot, TakeSlot, Active, Turn, EndTask
<1>26. ASSUME NEW s \in Tasks, Recovered(s)
      PROVE  ToldInv'
  BY <1>26, Sdk, TaskFacts DEF TypeInv, ServiceOK, KitOK, WorkOK, ArgOK, KeepInv, AloneInv, StageInv, SlotInv, Inv, ToldInv, Call, Idle, At, Reached, ClientSteps, SdkSteps, InAnswer, Recovered, Active, EndTask
<1>27. ASSUME NEW s \in Tasks, NEW e \in Events, Resubscribe(s, e)
      PROVE  ToldInv'
  BY <1>27, Sdk, TaskFacts DEF TypeInv, ServiceOK, KitOK, WorkOK, ArgOK, KeepInv, AloneInv, StageInv, SlotInv, Inv, ToldInv, Call, Idle, At, Reached, ClientSteps, SdkSteps, InAnswer, Resubscribe, Active, InsertSubscribeRecord
<1>28. ASSUME NEW s \in Tasks, NEW f \in Filters, ReAddFilter(s, f)
      PROVE  ToldInv'
  BY <1>28, Sdk, TaskFacts DEF TypeInv, ServiceOK, KitOK, WorkOK, ArgOK, KeepInv, AloneInv, StageInv, SlotInv, Inv, ToldInv, Call, Idle, At, Reached, ClientSteps, SdkSteps, InAnswer, ReAddFilter, Active, MayAddFilter, InsertSubscribeMute
<1>29. ASSUME NEW s \in Tasks, NEW u \in Subscribers, SdkResubscribe(s, u)
      PROVE  ToldInv'
  BY <1>29, Sdk, TaskFacts DEF TypeInv, ServiceOK, KitOK, WorkOK, ArgOK, KeepInv, AloneInv, StageInv, SlotInv, Inv, ToldInv, Call, Idle, At, Reached, ClientSteps, SdkSteps, InAnswer, SdkResubscribe, Active, AddSdkItem
<1>30. ASSUME NEW id \in Ids, NEW s \in Tasks, HandleDeath(id, s)
      PROVE  ToldInv'
  BY <1>30, Sdk, TaskFacts DEF TypeInv, ServiceOK, KitOK, WorkOK, ArgOK, KeepInv, AloneInv, StageInv, SlotInv, Inv, ToldInv, Call, Idle, At, Reached, ClientSteps, SdkSteps, InAnswer, HandleDeath
<1>31. ASSUME UNCHANGED vars
      PROVE  ToldInv'
  BY <1>31, Sdk, TaskFacts DEF TypeInv, ServiceOK, KitOK, WorkOK, ArgOK, KeepInv, AloneInv, StageInv, SlotInv, Inv, ToldInv, Call, Idle, At, Reached, ClientSteps, SdkSteps, InAnswer, vars
<1> QED
  BY <1>1, <1>2, <1>3, <1>4, <1>5, <1>6, <1>7, <1>8, <1>9, <1>10, <1>11, <1>12, <1>13, <1>14, <1>15, <1>16, <1>17, <1>18, <1>19, <1>20, <1>21, <1>22, <1>23, <1>24, <1>25, <1>26, <1>27, <1>28, <1>29, <1>30, <1>31 DEF Next, Finish, Recover, JsOffCallback, JsOffEvent

LEMMA NextClient ==
    ASSUME TypeInv, KeepInv, Inv, [Next]_vars
    PROVE  \A d \in Clients : ClientInv(d)'
<1>1. ASSUME ServiceDies, NEW d \in Clients
      PROVE  ClientInv(d)'
  <2>1. d \notin strained' => ~Working(d)'
    BY <1>1, Sdk, NoneWorking DEF ServiceDies, Working, Of
  <2>2. d \notin watching' /\ session'[d] = None /\ d \notin callBacks'
    BY <1>1, Sdk DEF ServiceDies
  <2>3. CASE d \notin strained'
    BY <2>1, <2>2, <2>3, ClientAway
  <2> QED
    BY <2>3 DEF ClientInv
<1>2. ASSUME ServiceStarts, NEW d \in Clients
      PROVE  ClientInv(d)'
  <2>1. ~up /\ watching = {} /\ callBacks = {}
    BY <1>2 DEF ServiceStarts, Inv, ToldInv
  <2>2. \A r \in Tasks : alive /\ d \notin strained /\ Of(d, r) => task[r].at = "wait"
    BY <2>1 DEF Inv, ClientInv, Restoring, Reached
  <2>3. \A r \in Tasks : alive /\ d \notin strained /\ Of(d, r) => Restoring(d, r)'
    BY <1>2, <2>1, <2>2 DEF Inv, ClientInv, Restoring, ServiceStarts, Due, Has, At
  <2>4. Alone(d) => Alone(d)'
    BY <1>2 DEF ServiceStarts, Alone, Of, Working
  <2> QED
    BY <1>2, <2>1, <2>3, <2>4 DEF ServiceStarts, Inv, ClientInv, Of, Working, Has
<1>3. ASSUME ProcessDies, NEW d \in Clients
      PROVE  ClientInv(d)'
  BY <1>3, Sdk, TaskFacts DEF TypeInv, ServiceOK, KitOK, WorkOK, KeepInv, AloneInv, StageInv, Inv, ToldInv, ClientInv, Call, Idle, At, InAnswer, Due, Has, Of, Unused, Working, Of, NoTask, ProcessDies
<1>4. ASSUME NEW id \in Ids, OnRemoteDied(id), NEW d \in Clients
      PROVE  ClientInv(d)'
  BY <1>4, Sdk, TaskFacts DEF TypeInv, ServiceOK, KitOK, WorkOK, KeepInv, AloneInv, StageInv, Inv, ToldInv, ClientInv, Call, Idle, At, InAnswer, Due, Has, Of, Unused, Working, Of, NoTask, OnRemoteDied
<1>5. ASSUME SdkAsk, NEW d \in Clients
      PROVE  ClientInv(d)'
  BY <1>5, Sdk, TaskFacts, ClientKept DEF SdkAsk, AddSdkItem, TypeInv, ServiceOK, KitOK, WorkOK, KeepInv, Inv, ClientInv, Call, At, Of, NoTask
<1>6. ASSUME SdkSubscribeDone, NEW d \in Clients
      PROVE  ClientInv(d)'
  BY <1>6, Sdk, TaskFacts, ClientKept DEF SdkSubscribeDone, TypeInv, ServiceOK, KitOK, WorkOK, KeepInv, Inv, ClientInv, Call, At, Of, NoTask
<1>7. ASSUME NEW c \in Clients, CreatClientSlot(c), NEW d \in Clients
      PROVE  ClientInv(d)'
  <2>1. CASE d # c
    BY <1>7, <2>1, Sdk, TaskFacts, ClientKept DEF CreatClientSlot, TakeSlot, TypeInv, ServiceOK, KitOK, WorkOK, KeepInv, Inv, ClientInv, Call, At, Of, NoTask
  <2>2. CASE d = c
    <3>1. call'[d].at # "asked" /\ UNCHANGED <<task, watching, obits, alive>>
      BY <1>7, <2>2, Sdk DEF CreatClientSlot, TakeSlot, TypeInv, WorkOK, Call, Idle
    <3>2. alive => client[d] # "live"
      BY <1>7, <2>2 DEF CreatClientSlot, TakeSlot, KeepInv, StageInv, At
    <3> QED
      BY <3>1, <3>2, UnusedAway DEF ClientInv
  <2> QED
    BY <2>1, <2>2
<1>8. ASSUME NEW c \in Clients, CreatClientDone(c), NEW d \in Clients
      PROVE  ClientInv(d)'
  <2>1. CASE d # c
    BY <1>8, <2>1, Sdk, TaskFacts, ClientKept DEF CreatClientDone, TypeInv, ServiceOK, KitOK, WorkOK, KeepInv, Inv, ClientInv, Call, At, Of, NoTask
  <2>2. CASE d = c
    <3>1. call'[d] = Idle /\ UNCHANGED <<task, session, recorded, alive, obits>>
      BY <1>8, <2>2, Sdk DEF CreatClientDone, TypeInv, WorkOK, Call
    <3>2. alive => ~Working(d) /\ recorded[d] = {}
      BY <1>8, <2>2 DEF CreatClientDone, KeepInv, StageInv, At, Unused
    <3>3. alive => ~Working(d)' /\ \A x : x \notin Due(d)'
      BY <3>1, <3>2 DEF Working, Of, Due, At, Idle
    <3>4. alive /\ d \in watching' => session'[d] # None
      BY <1>8, <2>2, <3>1 DEF CreatClientDone, KeepInv, StageInv, At, Unused
    <3>5. alive => d \notin obits'
      BY <1>8, <2>2, <3>1 DEF CreatClientDone, KeepInv, StageInv, At, Unused
    <3> QED
      BY <3>1, <3>3, <3>4, <3>5 DEF ClientInv, Alone, Working, Idle
  <2> QED
    BY <2>1, <2>2
<1>9. ASSUME NEW c \in Clients, RecordSubscribed(c), NEW d \in Clients
      PROVE  ClientInv(d)'
  <2>1. CASE d # c
    BY <1>9, <2>1, Sdk, TaskFacts, ClientKept DEF RecordSubscribed, TypeInv, ServiceOK, KitOK, WorkOK, KeepInv, Inv, ClientInv, Call, At, Of, NoTask
  <2>2. CASE d = c
    <3>1. call[d].at = "asked" /\ call'[d] = Idle /\ recorded'[d] = recorded[d] \union {call[d].arg} /\ session' = session
      BY <1>9, <2>2, Sdk DEF RecordSubscribed, At, Call, TypeInv, WorkOK, KitOK
    <3>2. \A x : x \in Due(d)' => x \in Due(d) \/ x = call[d].arg
      BY <3>1 DEF Due, At, Idle
    <3>3. \A x : Has(d, x)' <=> Has(d, x)
      BY <3>1 DEF Has
    <3>4. alive /\ d \notin strained =>
            /\ d \in obits => ~Working(d) /\ d \notin watching
            /\ d \in watching \/ Working(d) => Has(d, call[d].arg)
      BY <3>1 DEF Inv, ClientInv, Alone
    <3>5. alive /\ d \notin strained /\ d \in obits => ClientInv(d)'
      <4> SUFFICES ASSUME alive, d \notin strained, d \in obits
                   PROVE  ClientInv(d)'
        OBVIOUS
      <4>1. ~Working(d)' /\ d \notin watching'
        BY <1>9, <3>4 DEF RecordSubscribed, Working, Of
      <4>2. session'[d] = None /\ d \notin callBacks'
        BY <1>9, <3>1 DEF RecordSubscribed, Inv, ClientInv
      <4> QED
        BY <4>1, <4>2, ClientAway
    <3> QED
      BY <1>9, <3>1, <3>2, <3>3, <3>4, <3>5, ClientChanged DEF RecordSubscribed, Inv, Idle
  <2> QED
    BY <2>1, <2>2
<1>10. ASSUME NEW c \in Clients, RecordDropped(c), NEW d \in Clients
      PROVE  ClientInv(d)'
  <2>1. CASE d # c
    BY <1>10, <2>1, Sdk, TaskFacts, ClientKept DEF RecordDropped, TypeInv, ServiceOK, KitOK, WorkOK, KeepInv, Inv, ClientInv, Call, At, Of, NoTask
  <2>2. CASE d = c
    BY <1>10, <2>2, Sdk, TaskFacts, SetsAreSome, SessionMoves, ClientChanged DEF TypeInv, ServiceOK, KitOK, WorkOK, KeepInv, AloneInv, StageInv, Inv, ToldInv, ClientInv, Call, Idle, At, InAnswer, Due, Has, Of, Items, RecordDropped
  <2> QED
    BY <2>1, <2>2
<1>11. ASSUME NEW c \in Clients, DestoryClientSlot(c), NEW d \in Clients
      PROVE  ClientInv(d)'
  <2>1. CASE d # c
    BY <1>11, <2>1, Sdk, TaskFacts, ClientKept DEF DestoryClientSlot, TypeInv, ServiceOK, KitOK, WorkOK, KeepInv, Inv, ClientInv, Call, At, Of, NoTask
  <2>2. CASE d = c
    <3>1. call'[d].at # "asked" /\ UNCHANGED <<task, watching, obits, alive>>
      BY <1>11, <2>2, Sdk DEF DestoryClientSlot, TypeInv, WorkOK, Call, Idle
    <3>2. alive => client[d] # "live"
      BY <1>11, <2>2 DEF DestoryClientSlot, KeepInv, StageInv, At
    <3> QED
      BY <3>1, <3>2, UnusedAway DEF ClientInv
  <2> QED
    BY <2>1, <2>2
<1>12. ASSUME NEW c \in Clients, CreatClient(c), NEW d \in Clients
      PROVE  ClientInv(d)'
  <2>1. CASE d # c
    BY <1>12, <2>1, Sdk, TaskFacts, ClientKept DEF CreatClient, InsertSession, Begin, TypeInv, ServiceOK, KitOK, WorkOK, KeepInv, Inv, ClientInv, Call, At, Of, NoTask
  <2>2. CASE d = c
    <3>1. call'[d].at # "asked" /\ UNCHANGED <<task, watching, obits, alive>>
      BY <1>12, <2>2, Sdk DEF CreatClient, InsertSession, Begin, TypeInv, WorkOK, Call, Idle
    <3>2. alive => client[d] # "live"
      BY <1>12, <2>2 DEF CreatClient, InsertSession, Begin, KeepInv, StageInv, At
    <3> QED
      BY <3>1, <3>2, UnusedAway DEF ClientInv
  <2> QED
    BY <2>1, <2>2
<1>13. ASSUME NEW c \in Clients, Release(c), NEW d \in Clients
      PROVE  ClientInv(d)'
  <2>1. CASE d # c
    BY <1>13, <2>1, Sdk, TaskFacts, ClientKept DEF Release, Begin, TypeInv, ServiceOK, KitOK, WorkOK, KeepInv, Inv, ClientInv, Call, At, Of, NoTask
  <2>2. CASE d = c
    <3>1. call'[d].at # "asked"
      BY <1>13, <2>2, Sdk DEF Release, Begin, TypeInv, WorkOK, Call, Idle
    <3>2. ~Working(d)' /\ d \notin watching'
      BY <1>13, <2>2, NoneWorking DEF Release, Working, Of
    <3>3. d \notin obits'
      BY <1>13, <2>2 DEF Release
    <3> QED
      BY <3>1, <3>2, <3>3, ClientAway
  <2> QED
    BY <2>1, <2>2
<1>14. ASSUME NEW c \in Clients, NEW e \in Events, Subscribe(c, e), NEW d \in Clients
      PROVE  ClientInv(d)'
  <2>1. CASE d # c
    BY <1>14, <2>1, Sdk, TaskFacts, ClientKept DEF Subscribe, InsertSubscribeRecord, Begin, TypeInv, ServiceOK, KitOK, WorkOK, KeepInv, Inv, ClientInv, Call, At, Of, NoTask
  <2>2. CASE d = c
    <3>1. session[d] # None /\ session'[d] = session[d] \union {e} /\ session'[d] # None
      BY <1>14, <2>2, Sdk, SessionMoves DEF Subscribe, MayAddFilter, Items
    <3>2. call'[d].at = "asked" /\ call'[d].arg = e /\ call[d].at = "idle"
      BY <1>14, <2>2, Sdk DEF Subscribe, InsertSubscribeRecord, Begin, TypeInv, WorkOK, Call
    <3>3. \A x : x \in Due(d)' => x \in Due(d) /\ (Has(d, x) => Has(d, x)')
      BY <1>14, <3>1, <3>2 DEF Subscribe, Due, Has, At
    <3> QED
      BY <1>14, <3>1, <3>2, <3>3, ClientChanged DEF Subscribe, Has, Inv
  <2> QED
    BY <2>1, <2>2
<1>15. ASSUME NEW c \in Clients, NEW e \in Events, Unsubscribe(c, e), NEW d \in Clients
      PROVE  ClientInv(d)'
  <2>1. CASE d # c
    BY <1>15, <2>1, Sdk, TaskFacts, ClientKept DEF Unsubscribe, RemoveSubscribeRecord, Begin, TypeInv, ServiceOK, KitOK, WorkOK, KeepInv, Inv, ClientInv, Call, At, Of, NoTask
  <2>2. CASE d = c
    BY <1>15, <2>2, Sdk, TaskFacts, SetsAreSome, SessionMoves, ClientChanged DEF TypeInv, ServiceOK, KitOK, WorkOK, KeepInv, AloneInv, StageInv, Inv, ToldInv, ClientInv, Call, Idle, At, InAnswer, Due, Has, Of, Items, Unsubscribe, RemoveSubscribeRecord, Begin
  <2> QED
    BY <2>1, <2>2
<1>16. ASSUME NEW c \in Clients, NEW f \in Filters, AddFilter(c, f), NEW d \in Clients
      PROVE  ClientInv(d)'
  <2>1. CASE d # c
    BY <1>16, <2>1, Sdk, TaskFacts, ClientKept DEF AddFilter, InsertSubscribeMute, Begin, MayAddFilter, TypeInv, ServiceOK, KitOK, WorkOK, KeepInv, Inv, ClientInv, Call, At, Of, NoTask
  <2>2. CASE d = c
    <3>1. session[d] # None /\ session'[d] = session[d] \union {f} /\ session'[d] # None
      BY <1>16, <2>2, Sdk, SessionMoves DEF AddFilter, MayAddFilter, Items
    <3>2. call'[d].at = "asked" /\ call'[d].arg = f /\ call[d].at = "idle"
      BY <1>16, <2>2, Sdk DEF AddFilter, InsertSubscribeMute, Begin, MayAddFilter, TypeInv, WorkOK, Call
    <3>3. \A x : x \in Due(d)' => x \in Due(d) /\ (Has(d, x) => Has(d, x)')
      BY <1>16, <3>1, <3>2 DEF AddFilter, Due, Has, At
    <3> QED
      BY <1>16, <3>1, <3>2, <3>3, ClientChanged DEF AddFilter, Has, Inv
  <2> QED
    BY <2>1, <2>2
<1>17. ASSUME NEW c \in Clients, NEW f \in Filters, RemoveFilter(c, f), NEW d \in Clients
      PROVE  ClientInv(d)'
  <2>1. CASE d # c
    BY <1>17, <2>1, Sdk, TaskFacts, ClientKept DEF RemoveFilter, RemoveSubscribeMute, MayRemoveFilter, Begin, TypeInv, ServiceOK, KitOK, WorkOK, KeepInv, Inv, ClientInv, Call, At, Of, NoTask
  <2>2. CASE d = c
    BY <1>17, <2>2, Sdk, TaskFacts, SetsAreSome, SessionMoves, ClientChanged DEF TypeInv, ServiceOK, KitOK, WorkOK, KeepInv, AloneInv, StageInv, Inv, ToldInv, ClientInv, Call, Idle, At, InAnswer, Due, Has, Of, Items, RemoveFilter, RemoveSubscribeMute, MayRemoveFilter, Begin
  <2> QED
    BY <2>1, <2>2
<1>18. ASSUME NEW u \in Subscribers, SdkSubscribe(u), NEW d \in Clients
      PROVE  ClientInv(d)'
  BY <1>18, Sdk, TaskFacts, ClientKept DEF SdkSubscribe, SdkBegin, Begin, TypeInv, ServiceOK, KitOK, WorkOK, KeepInv, Inv, ClientInv, Call, At, Of, NoTask
<1>19. ASSUME NEW u \in Subscribers, SdkUnsubscribe(u), NEW d \in Clients
      PROVE  ClientInv(d)'
  BY <1>19, Sdk, TaskFacts, ClientKept DEF SdkUnsubscribe, SdkDrop, DropSdkItem, Begin, TypeInv, ServiceOK, KitOK, WorkOK, KeepInv, Inv, ClientInv, Call, At, Of, NoTask
<1>20. ASSUME NEW u \in JsSubscribers, JsOn(u), NEW d \in Clients
      PROVE  ClientInv(d)'
  BY <1>20, Sdk, TaskFacts, ClientKept DEF JsOn, SdkBegin, Begin, TypeInv, ServiceOK, KitOK, WorkOK, KeepInv, Inv, ClientInv, Call, At, Of, NoTask
<1>21. ASSUME NEW found, found \subseteq jsEntries, JsOffCall(found), NEW d \in Clients
      PROVE  ClientInv(d)'
  BY <1>21, Sdk, TaskFacts, ClientKept DEF JsOffCall, Begin, TypeInv, ServiceOK, KitOK, WorkOK, KeepInv, Inv, ClientInv, Call, At, Of, NoTask
<1>22. ASSUME NEW u \in JsSubscribers, JsOffOne(u), NEW d \in Clients
      PROVE  ClientInv(d)'
  BY <1>22, Sdk, TaskFacts, ClientKept DEF JsOffOne, SdkDrop, DropSdkItem, TypeInv, ServiceOK, KitOK, WorkOK, KeepInv, Inv, ClientInv, Call, At, Of, NoTask
<1>23. ASSUME NEW s \in Tasks, Attempt(s), NEW d \in Clients
      PROVE  ClientInv(d)'
  <2>1. CASE ~Of(d, s)
    <3>1. \A r \in Tasks : Of(d, r) \/ Of(d, r)' => task'[r] = task[r]
      BY <1>23, <2>1, Sdk, AttemptMoves DEF Kept, Ended, OthersKept, Of, NoTask
    <3>2. session'[d] = session[d] /\ (d \in callBacks' => d \in callBacks) /\ (d \in watching' => d \in watching)
      BY <1>23, <2>1, Sdk, TaskFacts, AttemptMoves DEF Of, TypeInv, ServiceOK, Ids, Attempt, Active, EndTask
    <3> QED
      BY <1>23, <3>1, <3>2, ClientKept DEF Attempt, Inv
  <2>2. CASE Of(d, s)
    <3>1. UNCHANGED <<strained, up, life, alive, call, recorded, session, callBacks, obits>>
      BY <1>23 DEF Attempt
    <3>2. \A x : (Has(d, x)' <=> Has(d, x)) /\ (x \in Due(d)' => x \in Due(d))
      BY <3>1 DEF Has, Due, At
    <3>3. CASE Ended(s)
      <4>1. alive /\ d \notin strained => ~Working(d)' /\ d \notin watching'
        BY <1>23, <2>2, <3>3, Sdk, AttemptMoves DEF Inv, ClientInv, Alone, Restoring, Working, Of, Ended, OthersKept, Kept, NoTask
      <4> QED
        BY <3>1, <3>2, <4>1 DEF Inv, ClientInv, Alone, Working
    <3>4. CASE Kept(s)
      <4>1. alive /\ d \notin strained /\ Restoring(d, s) => Restoring(d, s)'
        BY <1>23, <2>2, <3>1, <3>2, <3>4, Sdk, AttemptMoves DEF Restoring, Of, Reached, Ended, Kept
      <4> QED
        BY <2>2, <3>1, <3>2, <3>4, <4>1, ClientRestores DEF Inv
    <3> QED
      BY <1>23, <3>3, <3>4, AttemptMoves
  <2> QED
    BY <2>1, <2>2
<1>24. ASSUME NEW s \in Tasks, Recreate(s), NEW d \in Clients
      PROVE  ClientInv(d)'
  <2>1. CASE ~Of(d, s)
    <3>1. \A r \in Tasks : Of(d, r) \/ Of(d, r)' => task'[r] = task[r]
      BY <1>24, <2>1, Sdk, RecreateMoves DEF Kept, Ended, OthersKept, Of, NoTask
    <3>2. session'[d] = session[d] /\ (d \in callBacks' => d \in callBacks) /\ (d \in watching' => d \in watching)
      BY <1>24, <2>1, Sdk, TaskFacts, RecreateMoves DEF Of, TypeInv, ServiceOK, Ids, Recreate, Active, Turn, InsertSession
    <3> QED
      BY <1>24, <3>1, <3>2, ClientKept DEF Recreate, Inv
  <2>2. CASE Of(d, s)
    <3>1. UNCHANGED <<strained, up, life, alive, call, recorded, callBacks, obits, watching>>
      BY <1>24 DEF Recreate
    <3>2. \A x : (Has(d, x) => Has(d, x)') /\ (x \in Due(d)' => x \in Due(d))
      BY <1>24, <2>2, <3>1, RecreateMoves DEF Has, Due, At, Of
    <3>3. InsertSession(d) => session'[d] # None
      BY Sdk, SetsAreSome DEF TypeInv, ServiceOK, InsertSession
    <3>4. alive /\ d \notin strained /\ Restoring(d, s) => Restoring(d, s)'
      BY <1>24, <2>2, <3>1, <3>2, <3>3, RecreateMoves DEF Restoring, Of, Reached, Kept
    <3> QED
      BY <1>24, <2>2, <3>1, <3>2, <3>4, RecreateMoves, ClientRestores DEF Inv
  <2> QED
    BY <2>1, <2>2
<1>25. ASSUME NEW s \in Tasks, RecreateSlot(s), NEW d \in Clients
      PROVE  ClientInv(d)'
  <2>1. CASE ~Of(d, s)
    <3>1. \A r \in Tasks : Of(d, r) \/ Of(d, r)' => task'[r] = task[r]
      BY <1>25, <2>1, Sdk, RecreateSlotMoves DEF Kept, Ended, OthersKept, Of, NoTask
    <3>2. session'[d] = session[d] /\ (d \in callBacks' => d \in callBacks) /\ (d \in watching' => d \in watching)
      BY <1>25, <2>1, Sdk, TaskFacts, RecreateSlotMoves DEF Of, TypeInv, ServiceOK, Ids, RecreateSlot, TakeSlot, Active, Turn, EndTask
    <3> QED
      BY <1>25, <3>1, <3>2, ClientKept DEF RecreateSlot, Inv
  <2>2. CASE Of(d, s)
    <3>1. UNCHANGED <<strained, up, life, alive, call, recorded, obits, watching>>
      BY <1>25 DEF RecreateSlot
    <3>2. CASE ~(alive /\ d \notin strained)
      BY <3>1, <3>2 DEF ClientInv
    <3>3. CASE alive /\ d \notin strained
      <4>1. Restoring(d, s) /\ task[s].at = "inserted"
        BY <1>25, <2>2, <3>3, RecreateSlotMoves DEF Inv, ClientInv
      <4>2. UNCHANGED session /\ Kept(s) /\ task'[s].at = "again" /\ UNCHANGED task[s].life /\ UNCHANGED task[s].snap
        BY <1>25, <2>2, <3>3, <4>1, RecreateSlotMoves DEF Restoring, TakeSlot, Of
      <4>3. \A x : (Has(d, x) => Has(d, x)') /\ (x \in Due(d)' => x \in Due(d))
        BY <3>1, <4>2 DEF Has, Due, At
      <4>4. Restoring(d, s)'
        BY <3>1, <4>1, <4>2, <4>3 DEF Restoring, Reached
      <4> QED
        BY <2>2, <3>1, <4>2, <4>3, <4>4, ClientRestores DEF Inv
    <3> QED
      BY <3>2, <3>3
  <2> QED
    BY <2>1, <2>2
<1>26. ASSUME NEW s \in Tasks, Recovered(s), NEW d \in Clients
      PROVE  ClientInv(d)'
  <2>1. CASE ~Of(d, s)
    <3>1. \A r \in Tasks : Of(d, r) \/ Of(d, r)' => task'[r] = task[r]
      BY <1>26, <2>1, Sdk, EndMoves DEF Kept, Ended, OthersKept, Of, NoTask, Recovered
    <3>2. session'[d] = session[d] /\ (d \in callBacks' => d \in callBacks) /\ (d \in watching' => d \in watching)
      BY <1>26, <2>1, Sdk, TaskFacts, EndMoves DEF Of, TypeInv, ServiceOK, Ids, Recovered, Active, EndTask
    <3> QED
      BY <1>26, <3>1, <3>2, ClientKept DEF Recovered, Inv
  <2>2. CASE Of(d, s)
    <3>1. UNCHANGED <<strained, up, life, alive, call, recorded, session, obits, watching>> /\ Ended(s)
      BY <1>26, EndMoves DEF Recovered
    <3>2. \A x : (Has(d, x)' <=> Has(d, x)) /\ (x \in Due(d)' => x \in Due(d))
      BY <3>1 DEF Has, Due, At
    <3>3. alive /\ d \notin strained => ~Working(d)' /\ Restoring(d, s)
      BY <2>2, <3>1, Sdk DEF Inv, ClientInv, Alone, Working, Of, Ended, OthersKept, NoTask
    <3> QED
      BY <1>26, <3>1, <3>2, <3>3 DEF Inv, ClientInv, Alone, Working, Restoring, Recovered, Active
  <2> QED
    BY <2>1, <2>2
<1>27. ASSUME NEW s \in Tasks, NEW e \in Events, Resubscribe(s, e), NEW d \in Clients
      PROVE  ClientInv(d)'
  <2>1. CASE ~Of(d, s)
    <3>1. \A r \in Tasks : Of(d, r) \/ Of(d, r)' => task'[r] = task[r]
      BY <1>27, <2>1, Sdk, RestoreMoves, SessionMoves DEF Kept, Ended, OthersKept, Of, NoTask
    <3>2. session'[d] = session[d] /\ (d \in callBacks' => d \in callBacks) /\ (d \in watching' => d \in watching)
      BY <1>27, <2>1, Sdk, TaskFacts, RestoreMoves, SessionMoves DEF Of, TypeInv, ServiceOK, Ids, Resubscribe, Active, InsertSubscribeRecord
    <3> QED
      BY <1>27, <3>1, <3>2, ClientKept DEF Resubscribe, Inv
  <2>2. CASE Of(d, s)
    <3>1. UNCHANGED <<strained, up, life, alive, call, recorded, callBacks, obits, watching>>
      BY <1>27 DEF Resubscribe
    <3>2. \/ /\ session[d] # None /\ session'[d] = session[d] \union {e} /\ session'[d] # None
          \/ UNCHANGED session /\ ~(Reached(task[s].life) /\ session[d] # None /\ e \notin session[d])
      BY <1>27, <2>2, Sdk, SessionMoves DEF Resubscribe, MayAddFilter, Of, Items
    <3>3. \A x : (Has(d, x) => Has(d, x)') /\ (x \in Due(d)' => x \in Due(d))
      BY <3>1, <3>2 DEF Has, Due, At
    <3>4. Restoring(d, s) => Has(d, e)' /\ session'[d] # None
      BY <1>27, <3>2, RestoreMoves DEF Restoring, Has
    <3>5. alive /\ d \notin strained /\ Restoring(d, s) => Restoring(d, s)'
      BY <1>27, <3>1, <3>3, <3>4, RestoreMoves DEF Restoring, Reached, Kept
    <3> QED
      BY <1>27, <2>2, <3>1, <3>3, <3>5, RestoreMoves, ClientRestores DEF Inv
  <2> QED
    BY <2>1, <2>2
<1>28. ASSUME NEW s \in Tasks, NEW f \in Filters, ReAddFilter(s, f), NEW d \in Clients
      PROVE  ClientInv(d)'
  <2>1. CASE ~Of(d, s)
    <3>1. \A r \in Tasks : Of(d, r) \/ Of(d, r)' => task'[r] = task[r]
      BY <1>28, <2>1, Sdk, RestoreMoves, SessionMoves DEF Kept, Ended, OthersKept, Of, NoTask
    <3>2. session'[d] = session[d] /\ (d \in callBacks' => d \in callBacks) /\ (d \in watching' => d \in watching)
      BY <1>28, <2>1, Sdk, TaskFacts, RestoreMoves, SessionMoves DEF Of, TypeInv, ServiceOK, Ids, ReAddFilter, Active, MayAddFilter, InsertSubscribeMute
    <3> QED
      BY <1>28, <3>1, <3>2, ClientKept DEF ReAddFilter, Inv
  <2>2. CASE Of(d, s)
    <3>1. UNCHANGED <<strained, up, life, alive, call, recorded, callBacks, obits, watching>>
      BY <1>28 DEF ReAddFilter
    <3>2. \/ /\ session[d] # None /\ session'[d] = session[d] \union {f} /\ session'[d] # None
          \/ UNCHANGED session /\ ~(Reached(task[s].life) /\ session[d] # None /\ f \notin session[d])
      BY <1>28, <2>2, Sdk, SessionMoves DEF ReAddFilter, MayAddFilter, Of, Items
    <3>3. \A x : (Has(d, x) => Has(d, x)') /\ (x \in Due(d)' => x \in Due(d))
      BY <3>1, <3>2 DEF Has, Due, At
    <3>4. Restoring(d, s) => Has(d, f)' /\ session'[d] # None
      BY <1>28, <3>2, RestoreMoves DEF Restoring, Has
    <3>5. alive /\ d \notin strained /\ Restoring(d, s) => Restoring(d, s)'
      BY <1>28, <3>1, <3>3, <3>4, RestoreMoves DEF Restoring, Reached, Kept
    <3> QED
      BY <1>28, <2>2, <3>1, <3>3, <3>5, RestoreMoves, ClientRestores DEF Inv
  <2> QED
    BY <2>1, <2>2
<1>29. ASSUME NEW s \in Tasks, NEW u \in Subscribers, SdkResubscribe(s, u), NEW d \in Clients
      PROVE  ClientInv(d)'
  <2>1. \A r \in Tasks : Of(d, r) \/ Of(d, r)' => task'[r] = task[r]
    BY <1>29, Sdk, RestoreMoves DEF Kept, OthersKept, Of, SdkResubscribe
  <2>2. session'[d] = session[d]
    BY <1>29, Sdk DEF SdkResubscribe, AddSdkItem, TypeInv, ServiceOK
  <2> QED
    BY <1>29, <2>1, <2>2, ClientKept DEF SdkResubscribe, Inv
<1>30. ASSUME NEW id \in Ids, NEW s \in Tasks, HandleDeath(id, s), NEW d \in Clients
      PROVE  ClientInv(d)'
  <2>1. OthersKept(s) /\ task[s] = NoTask /\ id \in obits /\ d # "sdk"
    BY <1>30, Sdk DEF HandleDeath, TypeInv, WorkOK, OthersKept
  <2>2. CASE d # id
    <3>1. \A r \in Tasks : Of(d, r) \/ Of(d, r)' => task'[r] = task[r]
      BY <1>30, <2>1, <2>2, Sdk DEF HandleDeath, OthersKept, Of, NoTask, TypeInv, WorkOK
    <3> QED
      BY <1>30, <3>1, ClientKept DEF HandleDeath, Inv
  <2>3. CASE d = id
    <3>1. task'[s] = [id |-> d, at |-> "wait", left |-> Retries, snap |-> recorded[d], life |-> life]
      BY <1>30, <2>1, <2>3 DEF HandleDeath, TypeInv, WorkOK
    <3> SUFFICES ASSUME alive', d \notin strained'
                 PROVE  ClientInv(d)'
      BY DEF ClientInv
    <3>2. /\ alive /\ d \notin strained /\ call[d].at # "asked"
          /\ UNCHANGED <<session, callBacks, watching, call, recorded>> /\ obits' = obits \ {d}
      BY <1>30, <2>1, <2>3 DEF HandleDeath, At
    <3>3. ~Working(d) /\ d \notin watching /\ session[d] = None /\ d \notin callBacks
      BY <2>1, <2>3, <3>2 DEF Inv, ClientInv, Alone
    <3>4. Restoring(d, s)'
      BY <3>1, <3>2, <3>3 DEF Restoring, Due, At, Has
    <3>5. \A r \in Tasks : Of(d, r)' => r = s
      BY <2>1, <3>3 DEF Working, Of, OthersKept
    <3>6. Working(d)' /\ d \notin obits'
      BY <2>3, <3>1, <3>2 DEF Working, Of
    <3> QED
      BY <3>2, <3>3, <3>4, <3>5, <3>6 DEF ClientInv, Alone
  <2> QED
    BY <2>2, <2>3
<1>31. ASSUME UNCHANGED vars, NEW d \in Clients
      PROVE  ClientInv(d)'
  BY <1>31, Sdk, TaskFacts, ClientKept DEF vars, TypeInv, ServiceOK, KitOK, WorkOK, KeepInv, Inv, ClientInv, Call, At, Of, NoTask
<1> QED
  BY <1>1, <1>2, <1>3, <1>4, <1>5, <1>6, <1>7, <1>8, <1>9, <1>10, <1>11, <1>12, <1>13, <1>14, <1>15, <1>16, <1>17, <1>18, <1>19, <1>20, <1>21, <1>22, <1>23, <1>24, <1>25, <1>26, <1>27, <1>28, <1>29, <1>30, <1>31 DEF Next, Finish, Recover, JsOffCallback, JsOffEvent

(* What the session of the old kit has to be, as subscribers come and go. *)
LEMMA Images ==
    ASSUME NEW us \in SUBSET Subscribers, NEW vs \in SUBSET Subscribers
    PROVE  /\ Wanted(us \union vs) = Wanted(us) \union Wanted(vs)
           /\ Wanted(us) \subseteq Events /\ (Wanted(us) = {} <=> us = {})
           /\ \A u \in Subscribers : Wanted({u}) = {EventOf[u]}
           /\ \A u \in us : Wanted(us) = Wanted(us \ {u}) \union {EventOf[u]}
  BY KitAssumption DEF Wanted

LEMMA Adds ==
    ASSUME TypeInv, NEW e \in Events, AddSdkItem(e)
    PROVE  Held' = Held \union {e} /\ session'["sdk"] # {}
<1>1. session'["sdk"] = IF session["sdk"] = None THEN {e} ELSE session["sdk"] \union {e}
  BY Sdk DEF AddSdkItem, TypeInv, ServiceOK
<1>2. {e} # None /\ (session["sdk"] # None => session["sdk"] \union {e} # None)
  BY Sdk, SetsAreSome DEF TypeInv, ServiceOK, Items
<1> QED
  BY <1>1, <1>2 DEF Held

LEMMA Drops ==
    ASSUME TypeInv, NEW e \in Events, DropSdkItem(e), session["sdk"] # {}
    PROVE  Held' = Held \ {e} /\ session'["sdk"] # {}
<1>1. session'["sdk"] = IF session["sdk"] = None THEN None
                        ELSE IF session["sdk"] \subseteq {e} THEN None ELSE session["sdk"] \ {e}
  BY Sdk DEF DropSdkItem, TypeInv, ServiceOK
<1>2. session["sdk"] # None => session["sdk"] \ {e} # None
  BY Sdk, SetsAreSome DEF TypeInv, ServiceOK
<1>3. None # {}
  BY SetsAreSome
<1> QED
  BY <1>1, <1>2, <1>3 DEF Held

(* A subscriber leaves the kit: its event leaves the session, unless       *)
(* another wants it.                                                       *)
LEMMA SdkDrops ==
    ASSUME TypeInv, KitSession, NEW u \in subscribers, SdkDrop(u), Asked = {}, Asked' = {}, Rest' = Rest,
           UNCHANGED <<task, watching, obits>>
    PROVE  KitSession'
<1>1. /\ subscribers \in SUBSET Subscribers /\ u \in Subscribers /\ EventOf[u] \in Events
      /\ subscribers' = subscribers \ {u} /\ Rest \in SUBSET Subscribers
  BY KitAssumption DEF TypeInv, KitOK, SdkDrop, Rest
<1>2. Followed' <=> Followed
  BY DEF Followed, Working, Of
<1>3. /\ Wanted(subscribers) = Wanted(subscribers \ {u}) \union {EventOf[u]}
      /\ Wanted(subscribers \union Rest) = Wanted(subscribers) \union Wanted(Rest)
      /\ Wanted((subscribers \ {u}) \union Rest) = Wanted(subscribers \ {u}) \union Wanted(Rest)
  BY <1>1, Images
<1>4. /\ subscribers \union Asked = subscribers /\ subscribers \union Asked \union Rest = subscribers \union Rest
      /\ subscribers' \union Asked' = subscribers \ {u}
      /\ subscribers' \union Asked' \union Rest' = (subscribers \ {u}) \union Rest
  BY <1>1
<1>5. CASE EventOf[u] \in Wanted(subscribers \ {u})
  <2>1. Held' = Held /\ session'["sdk"] = session["sdk"]
    BY <1>5 DEF SdkDrop, Held
  <2> QED
    BY <1>2, <1>3, <1>4, <1>5, <2>1 DEF KitSession
<1>6. CASE EventOf[u] \notin Wanted(subscribers \ {u})
  <2>1. Held' = Held \ {EventOf[u]} /\ session'["sdk"] # {}
    BY <1>1, <1>6, Drops DEF SdkDrop, KitSession
  <2> QED
    BY <1>2, <1>3, <1>4, <1>6, <2>1 DEF KitSession
<1> QED
  BY <1>5, <1>6

(* A step that leaves the old kit, its session and its tasks alone. *)
LEMMA SdkKept ==
    ASSUME SdkInv, strained \subseteq strained', UNCHANGED <<alive, recipientMade, subscribers, jsEntries>>, up => up',
           "sdk" \in obits' => "sdk" \in obits, "sdk" \in watching' => "sdk" \in watching,
           call'["sdk"] = call["sdk"], session'["sdk"] = session["sdk"],
           \A r \in Tasks : Of("sdk", r) \/ Of("sdk", r)' => task'[r] = task[r]
    PROVE  SdkInv'
<1>1. \A r \in Tasks : Of("sdk", r)' <=> Of("sdk", r)
  BY DEF Of
<1>2. (Working("sdk")' <=> Working("sdk")) /\ (Alone("sdk") => Alone("sdk")')
  BY <1>1 DEF Working, Alone
<1>3. Pending' = Pending /\ Asked' = Asked /\ Rest' = Rest
  BY <1>1 DEF Pending, Asked, Rest, At
<1>4. Held' = Held
  BY DEF Held
<1> QED
  BY <1>1, <1>2, <1>3, <1>4 DEF SdkInv, Fresh, KitTasks, KitSession, KitEntries, KitApart, Followed

(* A call of the old kit, while the tasks stay as they are. *)
LEMMA SdkCalls ==
    ASSUME UNCHANGED <<task, up>>
    PROVE  /\ Rest' = Rest /\ (Working("sdk")' <=> Working("sdk"))
           /\ KitTasks /\ ("sdk" \in watching' => "sdk" \in watching \/ (~Working("sdk") /\ "sdk" \notin obits))
                       /\ ("sdk" \in obits' => "sdk" \in obits)
              => KitTasks'
<1>1. \A r \in Tasks : Of("sdk", r)' <=> Of("sdk", r)
  BY DEF Of
<1>2. (Working("sdk")' <=> Working("sdk")) /\ Rest' = Rest
  BY <1>1 DEF Working, Rest
<1> QED
  BY <1>1, <1>2 DEF KitTasks, Alone, Working

LEMMA NextSdk ==
    ASSUME TypeInv, KeepInv, Inv, [Next]_vars
    PROVE  SdkInv'
<1>1. ASSUME ServiceDies
      PROVE  SdkInv'
  <2>1. "sdk" \notin strained' => ~Working("sdk") /\ "sdk" \notin obits
    BY <1>1, Sdk, NoneWorking DEF ServiceDies
  <2>2. call["sdk"] = Idle => call'["sdk"] = Idle
    BY <1>1, Sdk DEF ServiceDies
  <2>3. Pending' = Pending /\ Asked' = Asked
    BY <1>1, Sdk DEF ServiceDies, InAnswer, Pending, Asked, At, Idle
  <2>4. \A r \in Tasks : Of("sdk", r)' <=> Of("sdk", r)
    BY <1>1 DEF ServiceDies, Of
  <2>5. (Working("sdk")' <=> Working("sdk")) /\ (~Working("sdk") => Rest = {} /\ Rest' = {})
    BY <2>4 DEF Working, Rest
  <2>10. None # {}
    BY SetsAreSome
  <2>6. strained \subseteq strained' /\ watching' = {} /\ obits' = obits \union watching /\ session'["sdk"] = None
    BY <1>1, Sdk DEF ServiceDies
  <2>7. UNCHANGED <<alive, subscribers, jsEntries, recipientMade>>
    BY <1>1 DEF ServiceDies
  <2>8. alive /\ ~recipientMade => Fresh'
    BY <2>2, <2>5, <2>6, <2>7 DEF Inv, SdkInv, Fresh
  <2>9. alive /\ "sdk" \notin strained' => KitTasks' /\ KitSession' /\ KitEntries' /\ KitApart'
    BY <2>1, <2>3, <2>4, <2>5, <2>6, <2>7, <2>10 DEF Inv, SdkInv, KitTasks, KitSession, KitEntries, KitApart, Followed, Alone, Working, Held
  <2> QED
    BY <2>7, <2>8, <2>9 DEF SdkInv
<1>2. ASSUME ServiceStarts
      PROVE  SdkInv'
  BY <1>2, SdkKept DEF ServiceStarts, Inv, Of
<1>3. ASSUME ProcessDies
      PROVE  SdkInv'
  BY <1>3 DEF ProcessDies, SdkInv
<1>4. ASSUME NEW id \in Ids, OnRemoteDied(id)
      PROVE  SdkInv'
  BY <1>4 DEF OnRemoteDied, SdkInv, KeepInv, AloneInv
<1>5. ASSUME SdkAsk
      PROVE  SdkInv'
  <2>1. UNCHANGED <<task, up, strained, alive, obits>>
    BY <1>5 DEF SdkAsk, AddSdkItem
  <2>2. Rest' = Rest /\ (Working("sdk")' <=> Working("sdk"))
    BY <2>1, SdkCalls
  <2> SUFFICES ASSUME alive
               PROVE  (~recipientMade' => Fresh') /\ ("sdk" \notin strained => KitTasks' /\ KitSession' /\ KitEntries' /\ KitApart')
    BY <2>1 DEF SdkInv
  <2> DEFINE u == call["sdk"].arg
  <2>3. u \in Subscribers /\ EventOf[u] \in Events /\ call["sdk"].at = "checked" /\ Pending = {u} /\ Asked = {}
    BY <1>5, KitAssumption DEF SdkAsk, At, TypeInv, ArgOK, Pending, Asked
  <2>4. UNCHANGED <<subscribers, watching, recipientMade>> /\ recipientMade
    BY <1>5, <2>3 DEF SdkAsk, Inv, SdkInv, Fresh, Idle
  <2>5. subscribers \in SUBSET Subscribers /\ Rest \in SUBSET Subscribers /\ {u} \in SUBSET Subscribers
    BY <2>3 DEF TypeInv, KitOK, Rest
  <2>6. /\ Wanted(subscribers \union {u}) = Wanted(subscribers) \union {EventOf[u]}
        /\ Wanted(subscribers \union Rest) = Wanted(subscribers) \union Wanted(Rest)
        /\ Wanted((subscribers \union {u}) \union Rest) = Wanted(subscribers \union {u}) \union Wanted(Rest)
    <3>1. subscribers \union {u} \in SUBSET Subscribers
      BY <2>5
    <3> HIDE DEF u
    <3>2. Wanted({u}) = {EventOf[u]}
      BY <2>3, <2>5, Images
    <3>3. Wanted(subscribers \union {u}) = Wanted(subscribers) \union {EventOf[u]}
      BY <2>5, <3>2, Images
    <3>4. Wanted(subscribers \union Rest) = Wanted(subscribers) \union Wanted(Rest)
      BY <2>5, Images
    <3>5. Wanted((subscribers \union {u}) \union Rest) = Wanted(subscribers \union {u}) \union Wanted(Rest)
      BY <2>5, <3>1, Images
    <3> QED
      BY <3>3, <3>4, <3>5
  <2>7. ASSUME "sdk" \notin strained PROVE KitTasks' /\ KitSession' /\ KitEntries' /\ KitApart'
    <3>1. KitTasks' /\ KitSession /\ KitEntries /\ KitApart /\ (Followed' <=> Followed)
      BY <2>1, <2>2, <2>4, <2>7, SdkCalls DEF Inv, SdkInv, Followed
    <3>2. CASE call'["sdk"].at = "asked" /\ call'["sdk"].arg = u /\ jsEntries' = jsEntries
      <4>1. Pending' = {u} /\ Asked' = {u}
        BY <3>2 DEF Pending, Asked, At
      <4>2. \/ Held' = Held \union {EventOf[u]} /\ session'["sdk"] # {}
            \/ Held' = Held /\ session'["sdk"] = session["sdk"] /\ EventOf[u] \in Wanted(subscribers)
        <5>1. AddSdkItem(EventOf[u]) \/ (UNCHANGED session /\ EventOf[u] \in Wanted(subscribers))
          BY <1>5, <2>3, <3>2, Sdk DEF SdkAsk, Call, Idle, TypeInv, WorkOK
        <5> QED
          BY <2>3, <5>1, Adds DEF Held
      <4>3. KitSession'
        BY <2>1, <2>2, <2>3, <2>4, <2>6, <3>1, <4>1, <4>2 DEF KitSession
      <4> QED
        BY <2>1, <2>2, <2>3, <2>4, <3>1, <3>2, <4>1, <4>3 DEF KitEntries, KitApart
    <3>3. CASE call'["sdk"] = Idle /\ jsEntries' = jsEntries \ {u} /\ UNCHANGED session
      <4>1. Pending' = {} /\ Asked' = {} /\ Held' = Held
        BY <3>3 DEF Pending, Asked, At, Idle, Held
      <4>2. KitSession'
        BY <2>1, <2>2, <2>3, <2>4, <3>1, <3>3, <4>1 DEF KitSession
      <4> QED
        BY <2>1, <2>2, <2>3, <2>4, <3>1, <3>3, <4>1, <4>2 DEF KitEntries, KitApart
    <3> QED
      BY <1>5, <2>3, <3>2, <3>3, Sdk DEF SdkAsk, Call, TypeInv, WorkOK
  <2> QED
    BY <2>4, <2>7
<1>6. ASSUME SdkSubscribeDone
      PROVE  SdkInv'
  <2>1. UNCHANGED <<task, up, strained, alive, obits>>
    BY <1>6 DEF SdkSubscribeDone
  <2>2. Rest' = Rest /\ (Working("sdk")' <=> Working("sdk"))
    BY <2>1, SdkCalls
  <2> SUFFICES ASSUME alive
               PROVE  (~recipientMade' => Fresh') /\ ("sdk" \notin strained => KitTasks' /\ KitSession' /\ KitEntries' /\ KitApart')
    BY <2>1 DEF SdkInv
  <2> DEFINE u == call["sdk"].arg
  <2>3. call["sdk"].at = "asked" /\ call'["sdk"] = Idle
    BY <1>6, Sdk DEF SdkSubscribeDone, At, Call, TypeInv, WorkOK
  <2>4. Pending = {u} /\ Asked = {u} /\ Pending' = {} /\ Asked' = {}
    BY <2>3 DEF Pending, Asked, At, Idle
  <2>5. UNCHANGED <<session, watching, jsEntries, recipientMade>> /\ subscribers' = subscribers \union {u}
    BY <1>6 DEF SdkSubscribeDone
  <2>6. recipientMade /\ Held' = Held
    BY <2>3, <2>5 DEF Inv, SdkInv, Fresh, Idle, Held
  <2>7. subscribers' \union Asked' = subscribers \union Asked
    BY <2>4, <2>5
  <2>8. KitTasks => KitTasks'
    BY <2>1, <2>5, SdkCalls
  <2> QED
    BY <2>1, <2>2, <2>4, <2>5, <2>6, <2>7, <2>8 DEF Inv, SdkInv, KitSession, KitEntries, KitApart, Followed
<1>7. ASSUME NEW c \in Clients, CreatClientSlot(c)
      PROVE  SdkInv'
  BY <1>7, Sdk, TaskFacts, SdkKept DEF CreatClientSlot, TakeSlot, TypeInv, ServiceOK, KitOK, WorkOK, Inv, Call, Of, NoTask
<1>8. ASSUME NEW c \in Clients, CreatClientDone(c)
      PROVE  SdkInv'
  BY <1>8, Sdk, TaskFacts, SdkKept DEF CreatClientDone, TypeInv, ServiceOK, KitOK, WorkOK, Inv, Call, Of, NoTask
<1>9. ASSUME NEW c \in Clients, RecordSubscribed(c)
      PROVE  SdkInv'
  BY <1>9, Sdk, TaskFacts, SdkKept DEF RecordSubscribed, TypeInv, ServiceOK, KitOK, WorkOK, Inv, Call, Of, NoTask
<1>10. ASSUME NEW c \in Clients, RecordDropped(c)
      PROVE  SdkInv'
  BY <1>10, Sdk, TaskFacts, SdkKept DEF RecordDropped, TypeInv, ServiceOK, KitOK, WorkOK, Inv, Call, Of, NoTask
<1>11. ASSUME NEW c \in Clients, DestoryClientSlot(c)
      PROVE  SdkInv'
  BY <1>11, Sdk, TaskFacts, SdkKept DEF DestoryClientSlot, TypeInv, ServiceOK, KitOK, WorkOK, Inv, Call, Of, NoTask
<1>12. ASSUME NEW c \in Clients, CreatClient(c)
      PROVE  SdkInv'
  BY <1>12, Sdk, TaskFacts, SdkKept DEF CreatClient, InsertSession, Begin, TypeInv, ServiceOK, KitOK, WorkOK, Inv, Call, Of, NoTask
<1>13. ASSUME NEW c \in Clients, Release(c)
      PROVE  SdkInv'
  BY <1>13, Sdk, TaskFacts, SdkKept DEF Release, Begin, TypeInv, ServiceOK, KitOK, WorkOK, Inv, Call, Of, NoTask
<1>14. ASSUME NEW c \in Clients, NEW e \in Events, Subscribe(c, e)
      PROVE  SdkInv'
  BY <1>14, Sdk, TaskFacts, SdkKept DEF Subscribe, InsertSubscribeRecord, Begin, TypeInv, ServiceOK, KitOK, WorkOK, Inv, Call, Of, NoTask
<1>15. ASSUME NEW c \in Clients, NEW e \in Events, Unsubscribe(c, e)
      PROVE  SdkInv'
  BY <1>15, Sdk, TaskFacts, SdkKept DEF Unsubscribe, RemoveSubscribeRecord, Begin, TypeInv, ServiceOK, KitOK, WorkOK, Inv, Call, Of, NoTask
<1>16. ASSUME NEW c \in Clients, NEW f \in Filters, AddFilter(c, f)
      PROVE  SdkInv'
  BY <1>16, Sdk, TaskFacts, SdkKept DEF AddFilter, InsertSubscribeMute, Begin, MayAddFilter, TypeInv, ServiceOK, KitOK, WorkOK, Inv, Call, Of, NoTask
<1>17. ASSUME NEW c \in Clients, NEW f \in Filters, RemoveFilter(c, f)
      PROVE  SdkInv'
  BY <1>17, Sdk, TaskFacts, SdkKept DEF RemoveFilter, RemoveSubscribeMute, MayRemoveFilter, Begin, TypeInv, ServiceOK, KitOK, WorkOK, Inv, Call, Of, NoTask
<1>18. ASSUME NEW u \in Subscribers, SdkSubscribe(u)
      PROVE  SdkInv'
  <2>1. UNCHANGED <<task, up, strained, alive, obits>>
    BY <1>18 DEF SdkSubscribe, SdkBegin, Begin
  <2>2. Rest' = Rest /\ (Working("sdk")' <=> Working("sdk"))
    BY <2>1, SdkCalls
  <2> SUFFICES ASSUME alive
               PROVE  (~recipientMade' => Fresh') /\ ("sdk" \notin strained => KitTasks' /\ KitSession' /\ KitEntries' /\ KitApart')
    BY <2>1 DEF SdkInv
  <2>3. Pending = {} /\ Asked = {} /\ Pending' = {u} /\ Asked' = {}
    BY <1>18, Sdk DEF SdkSubscribe, SdkBegin, Begin, TypeInv, WorkOK, Call, Pending, Asked, At
  <2>4. recipientMade' /\ UNCHANGED <<subscribers, session>> /\ jsEntries' = jsEntries \union {}
    BY <1>18 DEF SdkSubscribe, SdkBegin, Begin
  <2>5. IF recipientMade THEN UNCHANGED watching
        ELSE Fresh /\ ~Working("sdk") /\ Rest = {}
    BY <1>18 DEF SdkSubscribe, SdkBegin, Begin, Inv, SdkInv, Fresh, Working, Rest
  <2>6. ASSUME "sdk" \notin strained
        PROVE  KitTasks' /\ KitSession' /\ KitEntries' /\ KitApart'
    <3>1. KitTasks'
      BY <2>1, <2>5, <2>6, SdkCalls DEF Inv, SdkInv, Fresh
    <3>2. KitSession'
      BY <2>1, <2>2, <2>3, <2>4, <2>5, <2>6, SetsAreSome DEF Inv, SdkInv, KitSession, Followed, Fresh, Held, Wanted
    <3>3. Followed' \/ "sdk" \in obits => KitEntries' /\ u \notin Rest \cap JsSubscribers
      BY <1>18, <2>1, <2>2, <2>3, <2>4, <2>5, <2>6 DEF Inv, SdkInv, KitEntries, Followed, Fresh, SdkSubscribe, SdkBegin, Begin, IsSubscribeInMap, SameCallback
    <3>4. u \notin subscribers
      BY <1>18 DEF SdkSubscribe, SdkBegin
    <3>5. ~Followed' => Rest = {}
      BY <2>2 DEF Followed, Working, Rest
    <3> QED
      BY <2>1, <2>2, <2>3, <2>4, <2>6, <3>1, <3>2, <3>3, <3>4, <3>5 DEF Inv, SdkInv, KitApart, KitEntries
  <2> QED
    BY <2>4, <2>6
<1>19. ASSUME NEW u \in Subscribers, SdkUnsubscribe(u)
      PROVE  SdkInv'
  <2>1. UNCHANGED <<task, up, strained, alive, obits>>
    BY <1>19 DEF SdkUnsubscribe, SdkDrop, DropSdkItem, Begin
  <2>2. Rest' = Rest /\ (Working("sdk")' <=> Working("sdk"))
    BY <2>1, SdkCalls
  <2> SUFFICES ASSUME alive
               PROVE  (~recipientMade' => Fresh') /\ ("sdk" \notin strained => KitTasks' /\ KitSession' /\ KitEntries' /\ KitApart')
    BY <2>1 DEF SdkInv
  <2>3. Pending = {} /\ Asked = {} /\ Pending' = {} /\ Asked' = {}
    BY <1>19 DEF SdkUnsubscribe, Begin, Pending, Asked, At
  <2>4. u \in subscribers /\ subscribers \in SUBSET Subscribers /\ recipientMade
    BY <1>19 DEF SdkUnsubscribe, TypeInv, KitOK, Inv, SdkInv, Fresh
  <2>5. subscribers' = subscribers \ {u} /\ UNCHANGED <<watching, recipientMade>>
    BY <1>19 DEF SdkUnsubscribe, JsOffOne, SdkDrop
  <2>6. KitSession => KitSession'
    BY <1>19, <2>1, <2>2, <2>3, <2>4, <2>5, SdkDrops DEF SdkUnsubscribe
  <2>7. jsEntries' = jsEntries /\ u \notin JsSubscribers
    BY <1>19 DEF SdkUnsubscribe
  <2> QED
    BY <2>1, <2>2, <2>3, <2>4, <2>5, <2>6, <2>7, SdkCalls DEF Inv, SdkInv, KitEntries, KitApart, Followed
<1>20. ASSUME NEW u \in JsSubscribers, JsOn(u)
      PROVE  SdkInv'
  <2>1. UNCHANGED <<task, up, strained, alive, obits>>
    BY <1>20 DEF JsOn, SdkBegin, Begin
  <2>2. Rest' = Rest /\ (Working("sdk")' <=> Working("sdk"))
    BY <2>1, SdkCalls
  <2> SUFFICES ASSUME alive
               PROVE  (~recipientMade' => Fresh') /\ ("sdk" \notin strained => KitTasks' /\ KitSession' /\ KitEntries' /\ KitApart')
    BY <2>1 DEF SdkInv
  <2>3. Pending = {} /\ Asked = {} /\ Pending' = {u} /\ Asked' = {}
    BY <1>20, Sdk DEF JsOn, SdkBegin, Begin, TypeInv, WorkOK, Call, Pending, Asked, At
  <2>4. recipientMade' /\ UNCHANGED <<subscribers, session>> /\ jsEntries' = jsEntries \union {u}
    BY <1>20 DEF JsOn, SdkBegin, Begin
  <2>5. IF recipientMade THEN UNCHANGED watching
        ELSE Fresh /\ ~Working("sdk") /\ Rest = {}
    BY <1>20 DEF JsOn, SdkBegin, Begin, Inv, SdkInv, Fresh, Working, Rest
  <2>6. ASSUME "sdk" \notin strained
        PROVE  KitTasks' /\ KitSession' /\ KitEntries' /\ KitApart'
    <3>1. KitTasks'
      BY <2>1, <2>5, <2>6, SdkCalls DEF Inv, SdkInv, Fresh
    <3>2. KitSession'
      BY <2>1, <2>2, <2>3, <2>4, <2>5, <2>6, SetsAreSome DEF Inv, SdkInv, KitSession, Followed, Fresh, Held, Wanted
    <3>3. Followed' \/ "sdk" \in obits => KitEntries' /\ u \notin Rest \cap JsSubscribers
      BY <1>20, <2>1, <2>2, <2>3, <2>4, <2>5, <2>6 DEF Inv, SdkInv, KitEntries, Followed, Fresh, JsOn, SdkBegin, Begin, IsSubscribeInMap, SameCallback
    <3>4. u \notin subscribers
      BY <1>20 DEF JsOn, SdkBegin
    <3>5. ~Followed' => Rest = {}
      BY <2>2 DEF Followed, Working, Rest
    <3> QED
      BY <2>1, <2>2, <2>3, <2>4, <2>6, <3>1, <3>2, <3>3, <3>4, <3>5 DEF Inv, SdkInv, KitApart, KitEntries
  <2> QED
    BY <2>4, <2>6
<1>21. ASSUME NEW found, found \subseteq jsEntries, JsOffCall(found)
      PROVE  SdkInv'
  <2>1. UNCHANGED <<task, up, strained, alive, obits>>
    BY <1>21 DEF JsOffCall, Begin
  <2>2. Rest' = Rest /\ (Working("sdk")' <=> Working("sdk"))
    BY <2>1, SdkCalls
  <2> SUFFICES ASSUME alive
               PROVE  (~recipientMade' => Fresh') /\ ("sdk" \notin strained => KitTasks' /\ KitSession' /\ KitEntries' /\ KitApart')
    BY <2>1 DEF SdkInv
  <2>3. Pending = {} /\ Asked = {} /\ Pending' = {} /\ Asked' = {}
    BY <1>21, Sdk DEF JsOffCall, Begin, Pending, Asked, At, TypeInv, WorkOK, Call
  <2>4. UNCHANGED <<subscribers, jsEntries, watching, recipientMade, session>> /\ recipientMade
    BY <1>21 DEF JsOffCall, Inv, SdkInv, Fresh
  <2> QED
    BY <2>1, <2>2, <2>3, <2>4, SdkCalls DEF Inv, SdkInv, KitSession, KitEntries, KitApart, Followed, Held
<1>22. ASSUME NEW u \in JsSubscribers, JsOffOne(u)
      PROVE  SdkInv'
  <2>1. UNCHANGED <<task, up, strained, alive, obits>>
    BY <1>22 DEF JsOffOne, SdkDrop, DropSdkItem
  <2>2. Rest' = Rest /\ (Working("sdk")' <=> Working("sdk"))
    BY <2>1, SdkCalls
  <2> SUFFICES ASSUME alive
               PROVE  (~recipientMade' => Fresh') /\ ("sdk" \notin strained => KitTasks' /\ KitSession' /\ KitEntries' /\ KitApart')
    BY <2>1 DEF SdkInv
  <2>3. Pending = {} /\ Asked = {} /\ Pending' = {} /\ Asked' = {}
    <3>1. call["sdk"].at = "off"
      BY <1>22 DEF JsOffOne, At
    <3>2. call'["sdk"].at \in {"idle", "off"}
      <4>1. \E x : \E at \in {"idle", "off"} : Call("sdk", at, x)
        BY <1>22 DEF JsOffOne
      <4> QED
        BY <4>1, Sdk DEF TypeInv, WorkOK, Call, Idle
    <3> QED
      BY <3>1, <3>2 DEF Pending, Asked, At
  <2>4. recipientMade
    BY <1>22 DEF JsOffOne, At, Inv, SdkInv, Fresh, Idle
  <2>5. CASE up /\ u \in subscribers
    <3>1. subscribers \in SUBSET Subscribers
      BY DEF TypeInv, KitOK
    <3>2. subscribers' = subscribers \ {u} /\ jsEntries' = jsEntries \ {u} /\ UNCHANGED <<watching, recipientMade>>
      BY <1>22, <2>5 DEF JsOffOne, SdkDrop
    <3>3. KitSession => KitSession'
      BY <1>22, <2>1, <2>2, <2>3, <2>5, <3>1, <3>2, SdkDrops DEF JsOffOne
    <3>4. "sdk" \notin strained => KitEntries' /\ KitApart'
      BY <2>1, <2>2, <2>3, <2>5, <3>2 DEF Inv, SdkInv, KitEntries, KitApart, Followed
    <3>5. "sdk" \notin strained => KitTasks' /\ KitSession'
      BY <2>1, <2>2, <2>3, <3>2, <3>3, SdkCalls DEF Inv, SdkInv
    <3> QED
      BY <2>4, <3>2, <3>4, <3>5
  <2>6. CASE ~(up /\ u \in subscribers)
    <3>1. UNCHANGED <<subscribers, jsEntries, watching, recipientMade, session>>
      BY <1>22, <2>6 DEF JsOffOne
    <3> QED
      BY <2>1, <2>2, <2>3, <2>4, <3>1, SdkCalls DEF Inv, SdkInv, KitSession, KitEntries, KitApart, Followed, Held
  <2> QED
    BY <2>5, <2>6
<1>23. ASSUME NEW s \in Tasks, Attempt(s)
      PROVE  SdkInv'
  <2>1. CASE ~Of("sdk", s)
    <3>1. \A r \in Tasks : Of("sdk", r) \/ Of("sdk", r)' => task'[r] = task[r]
      BY <1>23, <2>1, Sdk, AttemptMoves DEF Kept, Ended, OthersKept, Of, NoTask
    <3>2. session'["sdk"] = session["sdk"] /\ ("sdk" \in watching' => "sdk" \in watching)
      BY <1>23, <2>1, Sdk, TaskFacts, AttemptMoves DEF Of, TypeInv, ServiceOK, TaskSet, Attempt, Active, EndTask
    <3> QED
      BY <1>23, <3>1, <3>2, SdkKept DEF Attempt, Inv
  <2>2. CASE Of("sdk", s)
    <3>1. UNCHANGED <<alive, strained, up, obits, call, recipientMade, subscribers, jsEntries>>
      BY <1>23 DEF Attempt
    <3>2. alive => recipientMade
      BY <2>2 DEF Inv, SdkInv, Fresh, Working
    <3> SUFFICES ASSUME alive, "sdk" \notin strained
                 PROVE  KitTasks' /\ KitSession' /\ KitEntries' /\ KitApart'
      BY <3>1, <3>2 DEF SdkInv
    <3>3. KitTasks /\ KitSession /\ KitEntries /\ KitApart
      BY DEF Inv, SdkInv
    <3>4. Pending' = Pending /\ Asked' = Asked
      BY <3>1 DEF Pending, Asked, At
    <3>5. session' = session
      BY <1>23 DEF Attempt
    <3>6. "sdk" \notin watching /\ "sdk" \notin obits
      BY <1>23, <2>2, <3>3, AttemptMoves DEF KitTasks, Alone, Working
    <3>7. CASE Ended(s)
      <4>1. ~Working("sdk")' /\ Rest' = {}
        BY <1>23, <2>2, <3>3, <3>7, Sdk DEF KitTasks, Alone, Working, Of, Rest, Ended, OthersKept, NoTask
      <4>2. watching' = watching
        BY <1>23, <3>7, Sdk, <2>2, AttemptMoves DEF Ended, Kept, Of, NoTask
      <4> QED
        BY <3>1, <3>3, <3>4, <3>5, <3>6, <4>1, <4>2 DEF KitTasks, KitSession, KitEntries, KitApart, Followed, Alone, Working
    <3>8. CASE Kept(s)
      <4>1. \A r \in Tasks : Of("sdk", r)' <=> Of("sdk", r)
        BY <2>2, <3>8 DEF Kept, OthersKept, Of
      <4>2. task'[s].snap = task[s].snap
        BY <1>23, <3>8, AttemptMoves DEF Ended, Kept
      <4>3. Rest' = Rest /\ Working("sdk") /\ Working("sdk")'
        BY <2>2, <3>8, <4>1, <4>2 DEF Rest, Working, Kept, OthersKept
      <4>4. \A r \in Tasks : Of("sdk", r) => r = s
        BY <2>2, <3>3 DEF KitTasks, Alone
      <4>5. KitTasks'
        BY <1>23, <2>2, <3>1, <3>6, <3>8, <4>1, <4>4, AttemptMoves DEF KitTasks, Alone, Ended, Kept, Of
      <4> QED
        BY <3>1, <3>3, <3>4, <3>5, <4>3, <4>5 DEF KitSession, KitEntries, KitApart, Followed, Held
    <3> QED
      BY <1>23, <3>7, <3>8, AttemptMoves
  <2> QED
    BY <2>1, <2>2
<1>24. ASSUME NEW s \in Tasks, Recreate(s)
      PROVE  SdkInv'
  <2>1. CASE ~Of("sdk", s)
    <3>1. \A r \in Tasks : Of("sdk", r) \/ Of("sdk", r)' => task'[r] = task[r]
      BY <1>24, <2>1, Sdk, RecreateMoves DEF Kept, Ended, OthersKept, Of, NoTask
    <3>2. session'["sdk"] = session["sdk"] /\ ("sdk" \in watching' => "sdk" \in watching)
      BY <1>24, <2>1, Sdk, TaskFacts, RecreateMoves DEF Of, TypeInv, ServiceOK, TaskSet, Recreate, Active, Turn, InsertSession
    <3> QED
      BY <1>24, <3>1, <3>2, SdkKept DEF Recreate, Inv
  <2>2. CASE Of("sdk", s)
    <3>1. UNCHANGED <<alive, strained, up, obits, call, recipientMade, subscribers, jsEntries>>
      BY <1>24 DEF Recreate
    <3>2. alive => recipientMade
      BY <2>2 DEF Inv, SdkInv, Fresh, Working
    <3>3. alive => "sdk" \in strained
      BY <1>24, <2>2, RecreateMoves DEF Inv, SdkInv, KitTasks
    <3> QED
      BY <3>1, <3>2, <3>3 DEF SdkInv
  <2> QED
    BY <2>1, <2>2
<1>25. ASSUME NEW s \in Tasks, RecreateSlot(s)
      PROVE  SdkInv'
  <2>1. CASE ~Of("sdk", s)
    <3>1. \A r \in Tasks : Of("sdk", r) \/ Of("sdk", r)' => task'[r] = task[r]
      BY <1>25, <2>1, Sdk, RecreateSlotMoves DEF Kept, Ended, OthersKept, Of, NoTask
    <3>2. session'["sdk"] = session["sdk"] /\ ("sdk" \in watching' => "sdk" \in watching)
      BY <1>25, <2>1, Sdk, TaskFacts, RecreateSlotMoves DEF Of, TypeInv, ServiceOK, TaskSet, RecreateSlot, TakeSlot, Active, Turn, EndTask
    <3> QED
      BY <1>25, <3>1, <3>2, SdkKept DEF RecreateSlot, Inv
  <2>2. CASE Of("sdk", s)
    <3>1. UNCHANGED <<alive, strained, up, obits, call, recipientMade, subscribers, jsEntries>>
      BY <1>25 DEF RecreateSlot
    <3>2. alive => recipientMade
      BY <2>2 DEF Inv, SdkInv, Fresh, Working
    <3>3. alive => "sdk" \in strained
      BY <1>25, <2>2, RecreateSlotMoves DEF Inv, SdkInv, KitTasks
    <3> QED
      BY <3>1, <3>2, <3>3 DEF SdkInv
  <2> QED
    BY <2>1, <2>2
<1>26. ASSUME NEW s \in Tasks, Recovered(s)
      PROVE  SdkInv'
  <2>1. CASE ~Of("sdk", s)
    <3>1. \A r \in Tasks : Of("sdk", r) \/ Of("sdk", r)' => task'[r] = task[r]
      BY <1>26, <2>1, Sdk, EndMoves DEF Kept, Ended, OthersKept, Of, NoTask, Recovered
    <3>2. session'["sdk"] = session["sdk"] /\ ("sdk" \in watching' => "sdk" \in watching)
      BY <1>26, <2>1, Sdk, TaskFacts, EndMoves DEF Of, TypeInv, ServiceOK, TaskSet, Recovered, Active, EndTask
    <3> QED
      BY <1>26, <3>1, <3>2, SdkKept DEF Recovered, Inv
  <2>2. CASE Of("sdk", s)
    <3>1. UNCHANGED <<alive, strained, up, obits, call, recipientMade, subscribers, jsEntries>>
      BY <1>26 DEF Recovered
    <3>2. alive => recipientMade
      BY <2>2 DEF Inv, SdkInv, Fresh, Working
    <3> SUFFICES ASSUME alive, "sdk" \notin strained
                 PROVE  KitTasks' /\ KitSession' /\ KitEntries' /\ KitApart'
      BY <3>1, <3>2 DEF SdkInv
    <3>3. KitTasks /\ KitSession /\ KitEntries /\ KitApart
      BY DEF Inv, SdkInv
    <3>4. Pending' = Pending /\ Asked' = Asked
      BY <3>1 DEF Pending, Asked, At
    <3>5. Ended(s) /\ UNCHANGED <<session, watching>> /\ task[s].snap = {}
      BY <1>26, EndMoves DEF Recovered
    <3>6. ~Working("sdk")' /\ Rest' = {} /\ Rest = {} /\ Working("sdk")
      BY <2>2, <3>3, <3>5, Sdk DEF KitTasks, Alone, Working, Of, Rest, Ended, OthersKept, NoTask
    <3> QED
      BY <3>1, <3>3, <3>4, <3>5, <3>6 DEF KitTasks, KitSession, KitEntries, KitApart, Followed, Alone, Working, Held
  <2> QED
    BY <2>1, <2>2
<1>27. ASSUME NEW s \in Tasks, NEW e \in Events, Resubscribe(s, e)
      PROVE  SdkInv'
  <2>1. task[s].id # "sdk" /\ task[s].id \in Ids
    BY <1>27, TaskFacts, RestoreMoves DEF Resubscribe, TaskSet
  <2>2. \A r \in Tasks : Of("sdk", r) \/ Of("sdk", r)' => task'[r] = task[r]
    BY <1>27, <2>1, RestoreMoves DEF Kept, OthersKept, Of
  <2>3. session'["sdk"] = session["sdk"]
    BY <1>27, <2>1, Sdk DEF Resubscribe, InsertSubscribeRecord, InsertSubscribeMute, TypeInv, ServiceOK
  <2> QED
    BY <1>27, <2>2, <2>3, SdkKept DEF Resubscribe, Inv
<1>28. ASSUME NEW s \in Tasks, NEW f \in Filters, ReAddFilter(s, f)
      PROVE  SdkInv'
  <2>1. task[s].id # "sdk" /\ task[s].id \in Ids
    BY <1>28, TaskFacts, RestoreMoves DEF ReAddFilter, TaskSet
  <2>2. \A r \in Tasks : Of("sdk", r) \/ Of("sdk", r)' => task'[r] = task[r]
    BY <1>28, <2>1, RestoreMoves DEF Kept, OthersKept, Of
  <2>3. session'["sdk"] = session["sdk"]
    BY <1>28, <2>1, Sdk DEF ReAddFilter, InsertSubscribeRecord, InsertSubscribeMute, TypeInv, ServiceOK
  <2> QED
    BY <1>28, <2>2, <2>3, SdkKept DEF ReAddFilter, Inv
<1>29. ASSUME NEW s \in Tasks, NEW u \in Subscribers, SdkResubscribe(s, u)
      PROVE  SdkInv'
  <2>1. UNCHANGED <<alive, strained, up, obits, call, recipientMade, jsEntries, watching>>
    BY <1>29 DEF SdkResubscribe
  <2>2. Of("sdk", s) /\ u \in task[s].snap /\ Kept(s) /\ task'[s].at = "again" /\ task[s].at = "again"
    BY <1>29, RestoreMoves DEF SdkResubscribe, Of
  <2>3. alive => recipientMade
    BY <2>2 DEF Inv, SdkInv, Fresh, Working
  <2> SUFFICES ASSUME alive, "sdk" \notin strained
               PROVE  KitTasks' /\ KitSession' /\ KitEntries' /\ KitApart'
    BY <2>1, <2>3 DEF SdkInv
  <2>4. KitTasks /\ KitSession /\ KitEntries /\ KitApart
    BY DEF Inv, SdkInv
  <2>5. \A r \in Tasks : (Of("sdk", r)' <=> Of("sdk", r)) /\ (Of("sdk", r) => r = s)
    BY <2>2, <2>4 DEF Kept, OthersKept, Of, KitTasks, Alone
  <2>6. Working("sdk") /\ Working("sdk")' /\ Rest = task[s].snap \cap Subscribers /\ Rest' = Rest \ {u} /\ u \in Rest
    BY <1>29, <2>2, <2>5, RestoreMoves DEF Working, Rest
  <2>7. Pending' = Pending /\ Asked' = Asked /\ Asked \subseteq Subscribers
    BY <2>1 DEF Pending, Asked, At, TypeInv, ArgOK
  <2>8. KitTasks'
    BY <2>1, <2>2, <2>4, <2>5, <2>6 DEF KitTasks, Alone
  <2>9. up
    BY <2>2, <2>4 DEF KitTasks
  <2>10. subscribers \union Asked \union {u} \in SUBSET Subscribers /\ Rest \in SUBSET Subscribers
    BY <2>7 DEF TypeInv, KitOK, Rest
  <2>11. "sdk" \notin obits /\ EventOf[u] \in Events
    BY <2>4, <2>6, KitAssumption DEF KitTasks, Alone
  <2>12. CASE u \in subscribers
    <3>1. UNCHANGED <<subscribers, session>> /\ Held' = Held
      BY <1>29, <2>12 DEF SdkResubscribe, Held
    <3>2. subscribers \union Asked \union Rest = subscribers' \union Asked' \union Rest'
      BY <2>6, <2>7, <2>12, <3>1
    <3> QED
      BY <2>1, <2>4, <2>6, <2>7, <2>8, <2>11, <2>12, <3>1, <3>2 DEF KitSession, KitEntries, KitApart, Followed
  <2>13. CASE u \notin subscribers
    <3>1. subscribers' = subscribers \union {u}
      BY <1>29, <2>9, <2>13 DEF SdkResubscribe
    <3>2. \/ Held' = Held \union {EventOf[u]} /\ session'["sdk"] # {}
          \/ Held' = Held /\ session'["sdk"] = session["sdk"] /\ EventOf[u] \in Wanted(subscribers)
      BY <1>29, <2>9, <2>11, <2>13, Adds DEF SdkResubscribe, Held
    <3>3. EventOf[u] \in Wanted(subscribers) => EventOf[u] \in Wanted(subscribers \union Asked)
      BY DEF Wanted
    <3>4. /\ Wanted((subscribers \union Asked) \union {u}) = Wanted(subscribers \union Asked) \union {EventOf[u]}
          /\ EventOf[u] \in Wanted((subscribers \union Asked) \union Rest)
      BY <2>6, <2>10 DEF Wanted
    <3>5. /\ (subscribers \union Asked) \union {u} = subscribers' \union Asked'
          /\ subscribers \union Asked \union Rest = subscribers' \union Asked' \union Rest'
      BY <2>6, <2>7, <3>1
    <3>6. KitSession'
      BY <2>4, <2>6, <2>11, <3>2, <3>3, <3>4, <3>5 DEF KitSession, Followed
    <3> QED
      BY <2>1, <2>4, <2>6, <2>7, <2>8, <3>1, <3>6 DEF KitEntries, KitApart, Followed
  <2> QED
    BY <2>12, <2>13
<1>30. ASSUME NEW id \in Ids, NEW s \in Tasks, HandleDeath(id, s)
      PROVE  SdkInv'
  <2>1. OthersKept(s) /\ task[s] = NoTask /\ id \in obits
    BY <1>30 DEF HandleDeath, TypeInv, WorkOK, OthersKept
  <2>2. CASE id # "sdk"
    <3>1. \A r \in Tasks : Of("sdk", r) \/ Of("sdk", r)' => task'[r] = task[r]
      BY <1>30, <2>1, <2>2, Sdk DEF HandleDeath, OthersKept, Of, NoTask, TypeInv, WorkOK
    <3> QED
      BY <1>30, <2>2, <3>1, SdkKept DEF HandleDeath, Inv
  <2>3. CASE id = "sdk"
    <3>1. UNCHANGED <<alive, up, call, recipientMade, jsEntries, watching, session>>
          /\ subscribers' = {} /\ obits' = obits \ {"sdk"}
          /\ strained \subseteq strained' /\ (At("sdk", "asked") => "sdk" \in strained')
      BY <1>30, <2>3 DEF HandleDeath
    <3>2. alive => recipientMade
      BY <2>1, <2>3 DEF Inv, SdkInv, Fresh
    <3> SUFFICES ASSUME alive, "sdk" \notin strained'
                 PROVE  KitTasks' /\ KitSession' /\ KitEntries' /\ KitApart'
      BY <3>1, <3>2 DEF SdkInv
    <3>3. /\ KitTasks /\ KitSession /\ KitEntries /\ KitApart
          /\ ~Working("sdk") /\ "sdk" \notin watching /\ ~At("sdk", "asked")
      BY <2>1, <2>3, <3>1 DEF Inv, SdkInv, KitTasks, Alone
    <3>4. Asked = {} /\ Asked' = {} /\ Pending' = Pending /\ Held' = Held
      BY <3>1, <3>3 DEF Pending, Asked, At, Held
    <3>5. Rest = {} /\ Held \subseteq Wanted(subscribers) /\ jsEntries = (subscribers \union Pending) \cap JsSubscribers
      BY <2>1, <2>3, <3>3, <3>4 DEF Rest, Working, KitEntries, KitSession
    <3>6. Wanted({}) = {}
      BY DEF Wanted
    <3>7. CASE subscribers = {}
      <4>1. task' = task
        BY <1>30, <2>3, <3>7 DEF HandleDeath
      <4>2. ~Working("sdk")' /\ Rest' = {}
        BY <3>3, <4>1 DEF Working, Of, Rest
      <4> QED
        BY <3>1, <3>3, <3>4, <4>2 DEF KitTasks, Alone, KitSession, KitEntries, KitApart, Followed, Working
    <3>8. CASE subscribers # {}
      <4>1. task'[s] = [id |-> "sdk", at |-> "wait", left |-> Retries, snap |-> subscribers, life |-> life]
        BY <1>30, <2>1, <2>3, <3>8 DEF HandleDeath, TypeInv, WorkOK
      <4>2. \A r \in Tasks : Of("sdk", r)' <=> r = s
        BY <2>1, <3>3, <4>1 DEF Of, OthersKept, Working
      <4>3. KitTasks'
        BY <3>1, <3>3, <4>1, <4>2 DEF KitTasks, Alone
      <4>4. Rest' = subscribers
        BY <4>1, <4>2 DEF Rest, TypeInv, KitOK
      <4>5. KitSession'
        BY <3>1, <3>3, <3>4, <3>5, <3>6, <4>4 DEF KitSession
      <4> QED
        BY <3>1, <3>3, <3>4, <3>5, <4>3, <4>4, <4>5 DEF KitEntries, KitApart
    <3> QED
      BY <3>7, <3>8
  <2> QED
    BY <2>2, <2>3
<1>31. ASSUME UNCHANGED vars
      PROVE  SdkInv'
  BY <1>31, Sdk, TaskFacts, SdkKept DEF vars, TypeInv, ServiceOK, KitOK, WorkOK, Inv, Call, Of, NoTask
<1> QED
  BY <1>1, <1>2, <1>3, <1>4, <1>5, <1>6, <1>7, <1>8, <1>9, <1>10, <1>11, <1>12, <1>13, <1>14, <1>15, <1>16, <1>17, <1>18, <1>19, <1>20, <1>21, <1>22, <1>23, <1>24, <1>25, <1>26, <1>27, <1>28, <1>29, <1>30, <1>31 DEF Next, Finish, Recover, JsOffCallback, JsOffEvent

LEMMA AtRestAgrees == TypeInv /\ KeepInv /\ Inv => KitsAgree
<1> SUFFICES ASSUME TypeInv, KeepInv, Inv
             PROVE  KitsAgree
  OBVIOUS
<1>1. ClientAgrees
  <2> SUFFICES ASSUME NEW c \in Clients, AtRest(c), client[c] = "live", c \in watching \ strained
               PROVE  session[c] # None /\ recorded[c] \subseteq session[c]
    BY DEF ClientAgrees
  <2>1. alive /\ ~Working(c) /\ Due(c) = recorded[c]
    BY NoneWorking DEF AtRest, Due, At
  <2> QED
    BY <2>1 DEF Inv, ClientInv, Has
<1>2. SdkAgrees /\ JsAgrees
  <2>1. AtRest("sdk") => alive /\ ~Working("sdk") /\ Asked = {} /\ Pending = {}
    BY NoneWorking DEF AtRest, Asked, Pending, At
  <2>2. ~Working("sdk") => Rest = {}
    BY DEF Working, Rest
  <2>3. Wanted(subscribers) = {} <=> subscribers = {}
    BY DEF Wanted
  <2> QED
    BY <2>1, <2>2, <2>3 DEF Inv, SdkInv, KitSession, KitEntries, Followed, Held, SdkAgrees, JsAgrees
<1> QED
  BY <1>1, <1>2 DEF KitsAgree

(* EventSubscribeClient::HandleDeath, DataCollectManager::HandleDecipient: *)
(* a kit that watches the service has, once at rest again, all that it     *)
(* records, and the bindings an entry for each subscriber that the kit has *)
(* for them, whether the kit handles an answer, the death or a call of the *)
(* next life first, unless it was recovering already when the service died *)
(* or heard of the death with a subscription being answered.               *)
THEOREM KitsRecover == Spec => []KitsAgree
<1>1. Init => TypeInv /\ KeepInv /\ Inv
  <2> SUFFICES ASSUME Init
               PROVE  TypeInv /\ KeepInv /\ Inv
    OBVIOUS
  <2>1. \A s \in Tasks, i \in Ids : ~Of(i, s)
    BY Sdk DEF Init, Of, NoTask
  <2>2. Rest = {} /\ Pending = {} /\ Asked = {} /\ \A i \in Ids : ~Working(i) /\ call[i] = Idle
    BY <2>1, Sdk DEF Init, Rest, Pending, Asked, Working, At, Idle
  <2>3. ToldInv /\ \A c \in Clients : ClientInv(c)
    BY <2>1, <2>2, Sdk DEF Init, ToldInv, ClientInv, Alone, Idle
  <2>4. SdkInv
    BY <2>1, <2>2, Sdk, SetsAreSome DEF Init, SdkInv, Fresh, KitTasks, KitSession, KitEntries, KitApart, Alone, Followed, Held
  <2> QED
    BY <2>3, <2>4, InitKeeps DEF Inv
<1>2. TypeInv /\ KeepInv /\ Inv /\ [Next]_vars => (TypeInv /\ KeepInv /\ Inv)'
  BY NextTyped, NextAlone, NextStage, NextSlot, NextTold, NextClient, NextSdk DEF KeepInv, Inv
<1> QED
  BY <1>1, <1>2, AtRestAgrees, PTL DEF Spec
=============================================================================

----------------------------- MODULE SubscribeKit -----------------------------
(***************************************************************************)
(* The two kits through which an application subscribes, and the part of   *)
(* the data-collection service that knows them across deaths: when the     *)
(* service dies, each kit that watches it waits, reconnects, and asks for  *)
(* its subscriptions again; when the application dies, the service, if it  *)
(* watches the callback, drops the session.                                *)
(*                                                                         *)
(* An EventSubscribeClient is in Clients; it keeps the items, event ids    *)
(* and mute filters alike, that the service has accepted.  The old kit,    *)
(* DataCollectManager, has one session "sdk" for the whole process, and    *)
(* keeps subscriber objects, several of which may want one event.  The     *)
(* JavaScript bindings sit on the old kit: "on" makes a subscriber object  *)
(* and an entry for it in g_subscribers, "off" finds the entries of a      *)
(* callback or of an event and unsubscribes them.                          *)
(* The table of sessions is what AcquireDataSubscribe keeps, reduced to    *)
(* which items each session has.                                           *)
(***************************************************************************)
EXTENDS Naturals, FiniteSets

CONSTANTS Clients,       \* EventSubscribeClient objects
          Events,        \* event ids they subscribe to
          Filters,       \* mute filters they set
          Subscribers,   \* subscriber objects of the old kit
          EventOf,       \* the event of each subscriber object
          JsSubscribers, \* those made by the JavaScript bindings
          CallbackOf,    \* the JavaScript function of each of these
          Tasks,         \* slots for recovery tasks; bounds those that overlap
          Retries,       \* length of RECONNECT_RETRY_DELAY_SECONDS
          MaxDeaths,     \* bound on the deaths of the service
          MaxCalls,      \* bound on the calls of the application
          None           \* no session, no argument, no task

ASSUME KitAssumption ==
    /\ "sdk" \notin Clients
    /\ None \notin Clients \union {"sdk"} /\ \A items \in SUBSET (Events \union Filters) : items # None
    /\ EventOf \in [Subscribers -> Events]
    /\ JsSubscribers \subseteq Subscribers /\ DOMAIN CallbackOf = JsSubscribers
    /\ Events \cap Filters = {}
    /\ Retries \in Nat /\ MaxDeaths \in Nat /\ MaxCalls \in Nat

Ids == Clients \union {"sdk"}
NoTask == [id |-> None]

VARIABLES
    up, life,         \* the service: running, and which of its lives
    strained,         \* history: kits that were recovering when the service died again, or
                      \* heard of its death with an answer to a subscription on its way
    session,          \* sessionsMap_: the items of each session, or None
    callBacks,        \* clientCallBacks_
    watched,          \* callbacks whose death the service is told of
    died,             \* deaths of callbacks not yet told
    alive,            \* the application
    client,           \* the state of each EventSubscribeClient
    recorded,         \* subscribedEventIds_ and filters_ of each
    subscribers,      \* subscribers_ of the old kit
    jsEntries,        \* g_subscribers of the JavaScript bindings
    recipientMade,    \* deathRecipient_ of the old kit is not null
    watching,         \* kits told of the death of the service
    obits,            \* kits to be told of a death of the service
    call,             \* the call of the application on each kit
    task,             \* recovery tasks
    calls             \* how many calls were made

service == <<up, life, strained, session, callBacks, watched, died>>
kit     == <<alive, client, recorded, subscribers, recipientMade, jsEntries>>
link    == <<watching, obits>>
vars    == <<service, kit, link, call, task, calls>>

Idle == [at |-> "idle"]
Call(id, at, x) == call' = [call EXCEPT ![id] = IF at = "idle" THEN Idle 
                                                ELSE [at |-> at, arg |-> x, life |-> life]]
Begin(id) == alive /\ call[id].at = "idle" /\ calls < MaxCalls /\ calls' = calls + 1
At(id, l) == call[id].at = l
TasksOf(id) == {s \in Tasks : task[s].id = id}
Wanted(us) == {EventOf[u] : u \in us}

Init ==
    /\ up = TRUE /\ life = 0 /\ strained = {}
    /\ session = [i \in Ids |-> None]
    /\ callBacks = {} /\ watched = {} /\ died = {}
    /\ alive = TRUE /\ client = [c \in Clients |-> "none"]
    /\ recorded = [c \in Clients |-> {}] /\ subscribers = {} /\ recipientMade = FALSE /\ jsEntries = {}
    /\ watching = {} /\ obits = {}
    /\ call = [i \in Ids |-> Idle] /\ task = [s \in Tasks |-> NoTask] /\ calls = 0

-----------------------------------------------------------------------------
(* What the service does in a call.  A caller reaches it while it lives.   *)

Reached(l) == up /\ l = life

(* CreatClient: the manager refuses an id it has; the callback is watched, *)
(* if its process lives, and takes its slot; a slot that is taken undoes   *)
(* the session.                                                            *)
InsertSession(c) == session' = [session EXCEPT ![c] = {}]
TakeSlot(c) ==
    /\ watched' = watched \union (IF alive THEN {c} ELSE {})
    /\ IF c \in callBacks
       THEN session' = [session EXCEPT ![c] = None] /\ UNCHANGED callBacks
       ELSE callBacks' = callBacks \union {c} /\ UNCHANGED session

(* The service's Subscribe and Unsubscribe of one event, and AddFilter and *)
(* RemoveFilter.  Without a session there is no event group, and so no     *)
(* permission.  A filter set twice, or removed when it is not set, is      *)
(* refused; an event is not.                                               *)
InsertSubscribeRecord(c, e) == session' = [session EXCEPT ![c] = @ \union {e}]
RemoveSubscribeRecord(c, e) == session' = [session EXCEPT ![c] = @ \ {e}]
MayAddFilter(c, f) == session[c] # None /\ f \notin session[c]
InsertSubscribeMute(c, f) == session' = [session EXCEPT ![c] = @ \union {f}]
MayRemoveFilter(c, f) == session[c] # None /\ f \in session[c]
RemoveSubscribeMute(c, f) == session' = [session EXCEPT ![c] = @ \ {f}]
(* Subscribe(info, callback, clientId) creates the session it needs.       *)
AddSdkItem(x) ==
    /\ watched' = watched \union (IF alive THEN {"sdk"} ELSE {})
    /\ session' = [session EXCEPT !["sdk"] = IF @ = None THEN {x} ELSE @ \union {x}]
(* Unsubscribe(info, ...) stops watching the callback, whatever is left of *)
(* the session.                                                            *)
DropSdkItem(x) ==
    /\ watched' = watched \ {"sdk"}
    /\ session' = [session EXCEPT !["sdk"] =
                     IF @ = None THEN None ELSE IF @ \subseteq {x} THEN None ELSE @ \ {x}]

-----------------------------------------------------------------------------
(* Deaths *)

InAnswer(id) == call[id].at \in {"made", "checked", "asked", "dropped"}
(* A call in the service fails with it; an answer on its way arrives.      *)
ServiceDies ==
    /\ up /\ life < MaxDeaths
    /\ up' = FALSE /\ life' = life + 1
    /\ strained' = strained \union {id \in Ids : TasksOf(id) # {} \/ id \in obits}
    /\ session' = [i \in Ids |-> None]
    /\ callBacks' = {} /\ watched' = {} /\ died' = {}
    /\ watching' = {} /\ obits' = obits \union watching
    /\ call' = [i \in Ids |-> IF InAnswer(i) THEN call[i] ELSE Idle]
    /\ UNCHANGED <<kit, task, calls>>

ServiceStarts ==
    /\ ~up /\ up' = TRUE
    /\ UNCHANGED <<life, strained, session, callBacks, watched, died, kit, link, call, task, calls>>

(* The service goes on with a CreatClient whose caller is gone.            *)
ProcessDies ==
    /\ alive /\ alive' = FALSE
    /\ died' = watched
    /\ client' = [c \in Clients |-> "none"]
    /\ recorded' = [c \in Clients |-> {}]
    /\ subscribers' = {} /\ recipientMade' = FALSE /\ jsEntries' = {}
    /\ watching' = {} /\ obits' = {}
    /\ call' = [i \in Ids |-> IF At(i, "inserted") THEN call[i] ELSE Idle]
    /\ task' = [s \in Tasks |-> IF task[s].id # None /\ task[s].at = "inserted"
                                THEN task[s] ELSE NoTask]
    /\ UNCHANGED <<up, life, strained, session, callBacks, watched, calls>>

(* Mutant: A bug: the callback is forgotten and the session is not. *)
OnRemoteDied_FreesSlot(id) ==
    /\ id \in died
    /\ died' = died \ {id} /\ watched' = watched \ {id}
    /\ callBacks' = callBacks \ {id}
    /\ UNCHANGED <<up, life, strained, session, kit, link, call, task, calls>>

(* SubscriberDeathRecipient::OnRemoteDied: the slot stays.                 *)
OnRemoteDied(id) ==
    /\ id \in died
    /\ died' = died \ {id} /\ watched' = watched \ {id}
    /\ session' = [session EXCEPT ![id] = None]
    /\ UNCHANGED <<up, life, strained, callBacks, kit, link, call, task, calls>>

-----------------------------------------------------------------------------
(* EventSubscribeClient *)

CreatClient(c) ==
    /\ Begin(c) /\ up /\ client[c] = "none" /\ session[c] = None
    /\ InsertSession(c)
    /\ Call(c, "inserted", None)
    /\ UNCHANGED <<up, life, strained, callBacks, watched, died, kit, link, task>>
CreatClientSlot(c) ==
    /\ At(c, "inserted")
    /\ TakeSlot(c)
    /\ Call(c, IF alive THEN "made" ELSE "idle", None)
    /\ UNCHANGED <<up, life, strained, died, kit, link, task, calls>>
(* SetDeathRecipient: a failure to watch is logged and nothing more.       *)
CreatClientDone(c) ==
    /\ At(c, "made")
    /\ client' = [client EXCEPT ![c] = "live"]
    /\ watching' = watching \union (IF session[c] # None THEN {c} ELSE {})
    /\ Call(c, "idle", None)
    /\ UNCHANGED <<service, alive, recorded, subscribers, recipientMade, jsEntries, obits, task, calls>>

Subscribe(c, e) ==
    /\ Begin(c) /\ up /\ client[c] = "live" /\ session[c] # None
    /\ InsertSubscribeRecord(c, e)
    /\ Call(c, "asked", e)
    /\ UNCHANGED <<up, life, strained, callBacks, watched, died, kit, link, task>>
Unsubscribe(c, e) ==
    /\ Begin(c) /\ up /\ client[c] = "live" /\ session[c] # None
    /\ RemoveSubscribeRecord(c, e)
    /\ Call(c, "dropped", e)
    /\ UNCHANGED <<up, life, strained, callBacks, watched, died, kit, link, task>>
(* An application does not set a filter that it has set.                   *)
AddFilter(c, f) ==
    /\ Begin(c) /\ up /\ client[c] = "live" /\ MayAddFilter(c, f) /\ f \notin recorded[c]
    /\ InsertSubscribeMute(c, f)
    /\ Call(c, "asked", f)
    /\ UNCHANGED <<up, life, strained, callBacks, watched, died, kit, link, task>>
RemoveFilter(c, f) ==
    /\ Begin(c) /\ up /\ client[c] = "live" /\ MayRemoveFilter(c, f)
    /\ RemoveSubscribeMute(c, f)
    /\ Call(c, "dropped", f)
    /\ UNCHANGED <<up, life, strained, callBacks, watched, died, kit, link, task>>
(* The service has answered: the kit records what it has.                  *)
RecordSubscribed(c) ==
    /\ c \in Clients /\ At(c, "asked")
    /\ recorded' = [recorded EXCEPT ![c] = @ \union {call[c].arg}]
    /\ Call(c, "idle", None)
    /\ UNCHANGED <<service, alive, client, subscribers, recipientMade, jsEntries, link, task, calls>>
(* Mutant: the kit goes on recording what was dropped. *)
RecordDropped_Keeps(c) ==
    /\ c \in Clients /\ At(c, "dropped")
    /\ recorded' = recorded
    /\ Call(c, "idle", None)
    /\ UNCHANGED <<service, alive, client, subscribers, recipientMade, jsEntries, link, task, calls>>

RecordDropped(c) ==
    /\ c \in Clients /\ At(c, "dropped")
    /\ recorded' = [recorded EXCEPT ![c] = @ \ {call[c].arg}]
    /\ Call(c, "idle", None)
    /\ UNCHANGED <<service, alive, client, subscribers, recipientMade, jsEntries, link, task, calls>>

(* The Deleter runs when the last pointer goes; a recovery holds one.  The *)
(* session is destroyed first, the callback forgotten after it.            *)
Release(c) ==
    /\ Begin(c) /\ client[c] = "live" /\ TasksOf(c) = {}
    /\ client' = [client EXCEPT ![c] = "released"]
    /\ recorded' = [recorded EXCEPT ![c] = {}]
    /\ watching' = watching \ {c} /\ obits' = obits \ {c}
    /\ IF up /\ c \in callBacks /\ session[c] # None
       THEN session' = [session EXCEPT ![c] = None] /\ Call(c, "destroyed", None)
       ELSE UNCHANGED <<session, call>>
    /\ UNCHANGED <<up, life, strained, callBacks, watched, died, alive, subscribers, recipientMade, jsEntries, task>>
DestoryClientSlot(c) ==
    /\ At(c, "destroyed")
    /\ watched' = watched \ {c} /\ callBacks' = callBacks \ {c}
    /\ Call(c, "idle", None)
    /\ UNCHANGED <<up, life, strained, session, died, kit, link, task, calls>>

-----------------------------------------------------------------------------
(* DataCollectManager, the old kit *)

(* The death recipient is made, and added, once in the life of the kit.    *)
SdkBegin(u) ==
    /\ Begin("sdk") /\ up /\ u \notin subscribers
    /\ recipientMade' = TRUE
    /\ watching' = watching \union (IF recipientMade THEN {} ELSE {"sdk"})
    /\ Call("sdk", "checked", u)
    /\ UNCHANGED <<service, alive, client, recorded, subscribers, obits, task>>
SdkSubscribe(u) == u \notin JsSubscribers /\ SdkBegin(u) /\ UNCHANGED jsEntries
(* Mutant: a subscription that fails keeps its entry in g_subscribers. *)
SdkAsk_KeepsEntry ==
    /\ At("sdk", "checked")
    /\ LET u == call["sdk"].arg
           known == EventOf[u] \in Wanted(subscribers)
           reached == Reached(call["sdk"].life)
       IN /\ IF known \/ ~reached THEN UNCHANGED <<session, watched>> ELSE AddSdkItem(EventOf[u])
          /\ Call("sdk", IF known \/ reached THEN "asked" ELSE "idle", u)
    /\ UNCHANGED <<up, life, strained, callBacks, died, kit, link, task, calls>>

(* A subscription that fails leaves g_subscribers too.                     *)
SdkAsk ==
    /\ At("sdk", "checked")
    /\ LET u == call["sdk"].arg
           known == EventOf[u] \in Wanted(subscribers)
           reached == Reached(call["sdk"].life)
       IN /\ IF known \/ ~reached THEN UNCHANGED <<session, watched>> ELSE AddSdkItem(EventOf[u])
          /\ IF known \/ reached
             THEN Call("sdk", "asked", u) /\ UNCHANGED jsEntries
             ELSE Call("sdk", "idle", u) /\ jsEntries' = jsEntries \ {u}
    /\ UNCHANGED <<up, life, strained, callBacks, died, alive, client, recorded, subscribers,
                   recipientMade, link, task, calls>>
SdkSubscribeDone ==
    /\ At("sdk", "asked")
    /\ subscribers' = subscribers \union {call["sdk"].arg}
    /\ Call("sdk", "idle", None)
    /\ UNCHANGED <<service, alive, client, recorded, recipientMade, jsEntries, link, task, calls>>

(* The record goes first and comes back when the service does not answer.  *)
SdkDrop(u) ==
    /\ LET e == EventOf[u]
       IN IF e \in Wanted(subscribers \ {u}) THEN UNCHANGED <<session, watched>>
                                              ELSE DropSdkItem(e)
    /\ subscribers' = subscribers \ {u}
    /\ UNCHANGED <<up, life, strained, callBacks, died, alive, client, recorded, recipientMade, link, task>>
SdkUnsubscribe(u) ==
    /\ Begin("sdk") /\ up /\ u \in subscribers \ JsSubscribers
    /\ SdkDrop(u)
    /\ UNCHANGED <<call, jsEntries>>

-----------------------------------------------------------------------------
(* The JavaScript bindings; one environment, whose thread makes one call   *)
(* at a time                                                               *)

SameCallback(u, cb) == CallbackOf[u] = cb
IsSubscribeInMap(cb) == \E u \in jsEntries : SameCallback(u, cb)

(* A callback that has an entry, for whatever event, is not subscribed     *)
(* again, and the call returns as if it were.                              *)
JsOn(u) ==
    /\ ~IsSubscribeInMap(CallbackOf[u])
    /\ SdkBegin(u)
    /\ jsEntries' = jsEntries \union {u}

(* The entries are unsubscribed one after the other; one that the kit does *)
(* not know, while it restores its subscriptions, ends the call with an    *)
(* error and stays.                                                        *)
JsOffCall(found) ==
    /\ Begin("sdk") /\ found # {}
    /\ Call("sdk", "off", found)
    /\ UNCHANGED <<service, kit, link, task>>
JsOffEvent(e) == JsOffCall({u \in jsEntries : EventOf[u] = e})
JsOffCallback(cb) == JsOffCall({u \in jsEntries : SameCallback(u, cb)})
JsOffOne(u) ==
    /\ At("sdk", "off") /\ u \in call["sdk"].arg
    /\ IF up /\ u \in subscribers
       THEN /\ SdkDrop(u)
            /\ jsEntries' = jsEntries \ {u}
            /\ Call("sdk", IF call["sdk"].arg = {u} THEN "idle" ELSE "off", call["sdk"].arg \ {u})
       ELSE Call("sdk", "idle", None) /\ UNCHANGED <<service, kit, link, task>>
    /\ UNCHANGED calls

-----------------------------------------------------------------------------
(* Recovery after the death of the service *)

(* The death recipient starts a task, which copies what the kit records,   *)
(* or, for the old kit, takes the subscribers away.  Nothing orders it     *)
(* with the answers the service gave before it died, nor with its next     *)
(* life: the kit may hear of the death after calls of that life.           *)
HandleDeath(id, s) ==
    /\ id \in obits /\ task[s] = NoTask
    /\ obits' = obits \ {id}
    /\ LET snap == IF id = "sdk" THEN subscribers ELSE recorded[id]
       IN IF id = "sdk" /\ snap = {}
          THEN UNCHANGED task
          ELSE task' = [task EXCEPT ![s] =
                         [id |-> id, at |-> "wait", left |-> Retries, snap |-> snap, life |-> life]]
    /\ subscribers' = IF id = "sdk" THEN {} ELSE subscribers
    /\ strained' = strained \union (IF At(id, "asked") THEN {id} ELSE {})
    /\ UNCHANGED <<up, life, session, callBacks, watched, died, alive, client, recorded,
                   recipientMade, jsEntries, watching, call, calls>>

Active(s, l) == task[s] # NoTask /\ task[s].at = l
EndTask(s) == task' = [task EXCEPT ![s] = NoTask]
Turn(s, l) == task' = [task EXCEPT ![s].at = l]

(* An attempt after the next delay: the task gives up after the last.      *)
Attempt(s) ==
    /\ Active(s, "wait")
    /\ IF task[s].left = 0
       THEN EndTask(s) /\ UNCHANGED watching
       ELSE /\ task' = [task EXCEPT ![s].left = @ - 1, ![s].life = life,
                          ![s].at = IF ~up THEN "wait"
                                    ELSE IF task[s].id = "sdk" THEN "again" ELSE "create"]
            /\ watching' = watching \union (IF up THEN {task[s].id} ELSE {})
    /\ UNCHANGED <<service, kit, obits, call, calls>>

(* Mutant: A bug: the manager does not refuse an id it has. *)
Recreate_Overwrites(s) ==
    /\ Active(s, "create")
    /\ IF Reached(task[s].life)
       THEN InsertSession(task[s].id) /\ Turn(s, "inserted")
       ELSE UNCHANGED session /\ Turn(s, "wait")
    /\ UNCHANGED <<up, life, strained, callBacks, watched, died, kit, link, call, calls>>

Recreate(s) ==
    /\ Active(s, "create")
    /\ IF Reached(task[s].life) /\ session[task[s].id] = None
       THEN InsertSession(task[s].id) /\ Turn(s, "inserted")
       ELSE UNCHANGED session /\ Turn(s, "wait")
    /\ UNCHANGED <<up, life, strained, callBacks, watched, died, kit, link, call, calls>>
RecreateSlot(s) ==
    /\ Active(s, "inserted")
    /\ IF Reached(task[s].life)
       THEN /\ TakeSlot(task[s].id)
            /\ IF alive THEN Turn(s, IF task[s].id \in callBacks THEN "wait" ELSE "again")
                        ELSE EndTask(s)
       ELSE /\ UNCHANGED <<session, callBacks, watched>>
            /\ IF alive THEN Turn(s, "wait") ELSE EndTask(s)
    /\ UNCHANGED <<up, life, strained, died, kit, link, call, calls>>

(* Events are asked for again, then filters; a refusal is only logged.     *)
Resubscribe(s, e) ==
    /\ Active(s, "again") /\ task[s].id # "sdk" /\ e \in task[s].snap
    /\ task' = [task EXCEPT ![s].snap = @ \ {e}]
    /\ IF Reached(task[s].life) /\ session[task[s].id] # None
       THEN InsertSubscribeRecord(task[s].id, e)
       ELSE UNCHANGED session
    /\ UNCHANGED <<up, life, strained, callBacks, watched, died, kit, link, call, calls>>
ReAddFilter(s, f) ==
    /\ Active(s, "again") /\ task[s].id # "sdk" /\ f \in task[s].snap /\ task[s].snap \subseteq Filters
    /\ task' = [task EXCEPT ![s].snap = @ \ {f}]
    /\ IF Reached(task[s].life) /\ MayAddFilter(task[s].id, f)
       THEN InsertSubscribeMute(task[s].id, f)
       ELSE UNCHANGED session
    /\ UNCHANGED <<up, life, strained, callBacks, watched, died, kit, link, call, calls>>
SdkResubscribe(s, u) ==
    /\ Active(s, "again") /\ task[s].id = "sdk" /\ u \in task[s].snap
    /\ task' = [task EXCEPT ![s].snap = @ \ {u}]
    /\ IF up /\ u \notin subscribers
       THEN /\ subscribers' = subscribers \union {u}
            /\ IF EventOf[u] \in Wanted(subscribers) THEN UNCHANGED <<session, watched>>
                                                     ELSE AddSdkItem(EventOf[u])
       ELSE UNCHANGED <<session, watched, subscribers>>
    /\ UNCHANGED <<up, life, strained, callBacks, died, alive, client, recorded, recipientMade, jsEntries,
                   link, call, calls>>
Recovered(s) ==
    /\ Active(s, "again") /\ task[s].snap = {}
    /\ EndTask(s)
    /\ UNCHANGED <<service, kit, link, call, calls>>

-----------------------------------------------------------------------------
Finish(id) == SdkAsk \/ SdkSubscribeDone
                \/ (id \in Clients /\ (CreatClientSlot(id) \/ CreatClientDone(id) \/ RecordSubscribed(id)
                                         \/ RecordDropped(id) \/ DestoryClientSlot(id)))
Recover(s) == Attempt(s) \/ Recreate(s) \/ RecreateSlot(s) \/ Recovered(s)
                \/ (\E e \in Events : Resubscribe(s, e))
                \/ (\E f \in Filters : ReAddFilter(s, f))
                \/ (\E u \in Subscribers : SdkResubscribe(s, u))

Next ==
    \/ ServiceDies \/ ServiceStarts \/ ProcessDies
    \/ \E id \in Ids : OnRemoteDied(id) \/ Finish(id)
    \/ \E c \in Clients : CreatClient(c) \/ Release(c)
         \/ (\E e \in Events : Subscribe(c, e) \/ Unsubscribe(c, e))
         \/ (\E f \in Filters : AddFilter(c, f) \/ RemoveFilter(c, f))
    \/ \E u \in Subscribers : SdkSubscribe(u) \/ SdkUnsubscribe(u)
    \/ \E u \in JsSubscribers : JsOn(u) \/ JsOffCallback(CallbackOf[u]) \/ JsOffOne(u)
    \/ \E e \in Events : JsOffEvent(e)
    \/ \E s \in Tasks : Recover(s) \/ \E id \in Ids : HandleDeath(id, s)

Spec == Init /\ [][Next]_vars
(* The death of a watched process is told in the end, and calls that are   *)
(* in the service are finished by it.                                      *)
FairSpec == Spec /\ \A id \in Ids : WF_vars(OnRemoteDied(id)) /\ WF_vars(Finish(id))

-----------------------------------------------------------------------------
(* Properties *)

AtRest(id) == up /\ alive /\ call[id].at = "idle" /\ TasksOf(id) = {} /\ id \notin obits

(* A client that watches the service and has nothing under way has its     *)
(* session, and in it everything it has recorded, however the service died *)
(* and whatever the application asked for while its subscriptions were     *)
(* being restored.  (The session may have more: an event unsubscribed      *)
(* before its turn is restored all the same.  A kit that is strained has   *)
(* its answer recorded when the recovery has made its copy already, or two *)
(* recoveries that take each other's place.)                               *)
ClientAgrees ==
    \A c \in Clients : AtRest(c) /\ client[c] = "live" /\ c \in watching \ strained
                         => session[c] # None /\ recorded[c] \subseteq session[c]

(* So has the old kit after a death of the service: its session has the    *)
(* events its subscribers want.  (A second death finds it unwatching.)     *)
SdkAgrees ==
    AtRest("sdk") /\ "sdk" \in watching \ strained =>
        session["sdk"] = IF subscribers = {} THEN None ELSE Wanted(subscribers)

(* And the JavaScript bindings have an entry for each subscriber of theirs *)
(* that the kit has, and no other: an entry without one would keep its     *)
(* callback from being subscribed ever again.                              *)
JsAgrees ==
    AtRest("sdk") /\ "sdk" \in watching \ strained => jsEntries = subscribers \cap JsSubscribers

(* After a death of the service both kits have what they record, and the   *)
(* bindings what the kit has, in whatever order a kit handles the answers  *)
(* of the service, its death and its next life, strained kits excepted     *)
(* (EventSubscribeClient::HandleDeath, DataCollectManager::HandleDecipient,*)
(* Subscribe and Unsubscribe of the bindings).                             *)
KitsAgree == ClientAgrees /\ SdkAgrees /\ JsAgrees

(* Two recoveries of one client may overlap, when the service dies again   *)
(* during the first; neither takes away the session the other has made.    *)
SessionKept ==
    [][\A c \in Clients : (session[c] # None /\ session'[c] = None)
         => (up' = FALSE \/ c \in died \/ client'[c] = "released")]_vars

(* The session of an application that dies goes, if the service watched    *)
(* its callback, though a call of the application was still being served.  *)
SessionGoes == \A id \in Ids : (id \in died) ~> (session[id] = None)
=============================================================================

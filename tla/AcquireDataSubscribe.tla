------------------------- MODULE AcquireDataSubscribe -------------------------
(***************************************************************************)
(* AcquireDataSubscribeManager: the client sessions of the data-collection *)
(* service, their event subscriptions and mute filters, and the collectors *)
(* that run on their behalf.                                               *)
(*                                                                         *)
(* IPC calls are served by a pool of threads.  sessionMutex_ guards the    *)
(* session table and is released before every call out of the manager;     *)
(* subscribeMutex_ serialises the calls that start and stop collectors.    *)
(* An action is what a thread does between two points where another thread *)
(* can get in: one critical section of sessionMutex_, or one external call.*)
(* A call that returns before it changes anything is a stuttering step and *)
(* has no action of its own.                                               *)
(***************************************************************************)
EXTENDS DataCollection

CONSTANTS
    Clients,                \* client ids
    SdkClients,             \* those of the old interface (their id contains "sdk")
    Threads,                \* the threads that serve calls
    Filters,                \* mute filters
    EventOf,                \* the event each filter is for
    Kind,                   \* how each event is collected, from its EventCfg
    CollectOnStart,         \* events with collectOnStart set in their EventCfg
    PidOf, GroupOf,         \* each client's process and event group
    MaxSession,             \* MAX_SESSION_SIZE
    MaxSessionOneProcess,   \* MAX_SESSION_SIZE_ONE_PROCESS
    Serial,                 \* whether a client makes one call at a time
    MaxCount,               \* bound of the model: a collector counted so often gets
                            \* no further subscription
    Nil                     \* no thread, no client, no event

(* EventCfg: not configured; not a subscribe collector; collected in this  *)
(* process, once or for each subscriber; collected by SecurityCollector.   *)
Kinds == {"unknown", "query", "sg", "sticky", "sc"}

ASSUME ClientAssumption ==
    /\ SdkClients \subseteq Clients
    /\ EventOf \in [Filters -> Events]
    /\ Kind \in [Events -> Kinds]
    /\ CollectOnStart \subseteq {e \in Events : Kind[e] \in {"sg", "sticky"}}
    /\ Serial \in BOOLEAN
    /\ MaxCount \in Nat
    /\ Nil \notin Clients \cup Threads \cup Events \cup Filters

VARIABLES
    sessions,           \* the keys of sessionsMap_
    subEvents,          \* ClientSession::subEvents
    eventFilters,       \* ClientSession::eventFilters, as how often each filter is listed
    reportedSticky,     \* reportedStickyEvents_, as pairs of a client and an event
    subLock,            \* the thread in subscribeMutex_
    listeners,          \* the keys of eventToListenner_
    scSubscribeMap,     \* the keys of scSubscribeMap_
    plugin,             \* the filters set in the filter plugin, with their client
    pc, job,            \* where each thread is, and its local variables
    dead,               \* clients whose death has been notified
    known,              \* EventSubscribeClient::subscribedEventIds_ of each client
    held,               \* history: subscriptions set up, and not yet given up
    given               \* history: how often a sticky event was given to a standing
                        \* subscription (2 stands for more)

sessionVars == <<sessions, subEvents, eventFilters>>
collectorVars == <<poolVars, listeners, scSubscribeMap>>
historyVars == <<dead, known, held, given>>
vars == <<sessionVars, reportedSticky, subLock, collectorVars, plugin, pc, job, historyVars>>

-----------------------------------------------------------------------------
PCs == {"idle", "create",
        "subscribe", "subscribing", "undoSubscribe", "remute", "remuting",
        "unsubscribe", "unsubscribing", "undoUnsubscribe", "cleanup",
        "purge", "unmuteAll",
        "mute", "record", "unmute", "erase"}

Ops == {"none", "CreatClient", "Subscribe", "SubscribeInfo", "Unsubscribe",
        "UnsubscribeInfo", "RemoteDied", "DestoryClient", "AddFilter", "RemoveFilter"}

(* A thread's locals: the call it serves; the event and filter at hand; the *)
(* sessionCreated flag; the events still to release; the filters still to   *)
(* pass to the plugin.                                                      *)
Jobs == [op : Ops, client : Clients \cup {Nil}, event : Events \cup {Nil},
         filter : Filters \cup {Nil}, created : BOOLEAN,
         todo : SUBSET Events, mutes : SUBSET Filters]

(* The locals a call begins with, and those of an idle thread.              *)
Call(op, c) == [op |-> op, client |-> c, event |-> Nil, filter |-> Nil,
                created |-> FALSE, todo |-> {}, mutes |-> {}]

NoJob == Call("none", Nil)

NoFilters == [f \in Filters |-> 0]

(* IsAnySessionSubscribes *)
IsAnySessionSubscribes(e) == \E c \in sessions : e \in subEvents[c]

(* Mistake: the filters are looked up under the wrong event. *)
FiltersFor_WrongEvent(c, e) == {f \in Filters : EventOf[f] # e /\ eventFilters[c][f] > 0}

(* The filters of a session for an event. *)
FiltersFor(c, e) == {f \in Filters : EventOf[f] = e /\ eventFilters[c][f] > 0}

IsFilterInSession(c, f) == c \in sessions /\ eventFilters[c][f] > 0

(* Mistake: the session goes, but its subscriptions stay behind. *)
EraseSession_KeepsSubEvents(c) ==
    /\ sessions' = sessions \ {c}
    /\ UNCHANGED <<subEvents, eventFilters>>

(* sessionsMap_.erase(c) *)
EraseSession(c) ==
    /\ sessions' = sessions \ {c}
    /\ subEvents' = [subEvents EXCEPT ![c] = {}]
    /\ eventFilters' = [eventFilters EXCEPT ![c] = NoFilters]

Init ==
    /\ sessions = {}
    /\ subEvents = [c \in Clients |-> {}]
    /\ eventFilters = [c \in Clients |-> NoFilters]
    /\ reportedSticky = {}
    /\ subLock = Nil
    /\ listeners = {}
    /\ scSubscribeMap = {}
    /\ plugin = {}
    /\ pc = [t \in Threads |-> "idle"]
    /\ job = [t \in Threads |-> NoJob]
    /\ dead = {}
    /\ known = [c \in Clients |-> {}]
    /\ held = {}
    /\ given = [h \in Clients \X Events |-> 0]
    \* SubscriberEventOnSgStart has run: one batch of SubscribeCollectors.
    /\ \/ /\ loaderMap = CollectOnStart
          /\ subscribeCount = [e \in Events |-> IF e \in CollectOnStart THEN 1 ELSE 0]
       \/ /\ "load" \in Faults
          /\ loaderMap = {}
          /\ \E bad \in CollectOnStart :
                subscribeCount = [e \in Events |-> IF e = bad THEN 1 ELSE 0]

-----------------------------------------------------------------------------
(* Thread bookkeeping. *)

(* A thread takes a call of client c.  With Serial, the client has no other *)
(* call outstanding; the notice of its death comes whenever it comes.       *)
Free(t, c) ==
    /\ pc[t] = "idle"
    /\ c \notin dead
    /\ Serial => \A u \in Threads : job[u].client # c

Goto(t, label, j) ==
    /\ pc' = [pc EXCEPT ![t] = label]
    /\ job' = [job EXCEPT ![t] = j]

Return(t) == Goto(t, "idle", NoJob)

-----------------------------------------------------------------------------
(* CreatClient: IsExceedLimited in one critical section, the insertion in   *)
(* another.                                                                 *)
Peers(c) == {d \in sessions : GroupOf[d] = GroupOf[c]}
OfProcess(c) == {d \in sessions : PidOf[d] = PidOf[c]}

IsExceedLimited(c) ==
    /\ c \notin SdkClients
    /\ \/ Cardinality(Peers(c)) >= MaxSession
       \/ c \notin OfProcess(c) /\ Cardinality(OfProcess(c)) >= MaxSessionOneProcess

CreatClient(t, c) ==
    /\ Free(t, c) /\ c \notin SdkClients
    /\ ~IsExceedLimited(c)
    /\ Goto(t, "create", Call("CreatClient", c))
    /\ UNCHANGED <<sessionVars, reportedSticky, subLock, collectorVars, plugin, historyVars>>

CreatClientInsert(t) ==
    /\ pc[t] = "create"
    /\ sessions' = sessions \cup {job[t].client}
    /\ Return(t)
    /\ UNCHANGED <<subEvents, eventFilters, reportedSticky, subLock, collectorVars, plugin,
                   historyVars>>

-----------------------------------------------------------------------------
(* InsertSubscribeRecord(eventId, clientId): record first, start after.     *)

Subscribe(t, c, e) ==
    /\ Free(t, c) /\ c \in sessions \ SdkClients /\ e \notin subEvents[c]
    /\ subscribeCount[e] < MaxCount
    /\ subEvents' = [subEvents EXCEPT ![c] = @ \cup {e}]
    /\ given' = [given EXCEPT ![<<c, e>>] = 0]
    /\ Goto(t, "subscribe",
            [Call("Subscribe", c) EXCEPT !.event = e, !.mutes = FiltersFor(c, e)])
    /\ UNCHANGED <<sessions, eventFilters, reportedSticky, subLock, collectorVars, plugin,
                   dead, known, held>>

(* "not need subscribe again": SUCCESS, and the client records it. *)
SubscribeAgain(t, c, e) ==
    /\ Free(t, c) /\ c \in sessions \ SdkClients /\ e \in subEvents[c]
    /\ known' = [known EXCEPT ![c] = @ \cup {e}]
    /\ UNCHANGED <<sessionVars, reportedSticky, subLock, collectorVars, plugin, pc, job,
                   dead, held, given>>

(* InsertSubscribeRecord(subscribeInfo, callback, clientId), the old        *)
(* interface: creates the session when there is none.                       *)
SubscribeInfo(t, c, e) ==
    /\ Free(t, c) /\ c \in SdkClients /\ e \notin subEvents[c]
    /\ subscribeCount[e] < MaxCount
    /\ sessions' = sessions \cup {c}
    /\ subEvents' = [subEvents EXCEPT ![c] = @ \cup {e}]
    /\ given' = [given EXCEPT ![<<c, e>>] = 0]
    /\ Goto(t, "subscribe",
            [Call("SubscribeInfo", c) EXCEPT !.event = e, !.created = c \notin sessions])
    /\ UNCHANGED <<eventFilters, reportedSticky, subLock, collectorVars, plugin,
                   dead, known, held>>

(* SubscribeScInSg, by whether it succeeds.  A sticky collector is asked    *)
(* again for each subscriber and never entered in eventToListenner_.        *)
SubscribeScInSg(e, ok) ==
    IF e \in listeners
    THEN ok /\ UNCHANGED <<poolVars, listeners>>
    ELSE \/ /\ ok
            /\ SubscribeCollectorsOk({e})
            /\ listeners' = IF Kind[e] = "sticky" THEN listeners ELSE listeners \cup {e}
         \/ /\ ~ok
            /\ SubscribeCollectorsFail({e})
            /\ UNCHANGED listeners

SubscribeScInSc(e, ok) ==
    \/ ok /\ scSubscribeMap' = scSubscribeMap \cup {e}
    \/ /\ ~ok /\ "scSubscribe" \in Faults /\ e \notin scSubscribeMap
       /\ UNCHANGED scSubscribeMap

SubscribeSc(e, ok) ==
    \/ Kind[e] = "unknown" /\ ~ok /\ UNCHANGED collectorVars
    \/ Kind[e] = "query" /\ ok /\ UNCHANGED collectorVars
    \/ Kind[e] \in {"sg", "sticky"} /\ SubscribeScInSg(e, ok) /\ UNCHANGED scSubscribeMap
    \/ Kind[e] = "sc" /\ SubscribeScInSc(e, ok) /\ UNCHANGED <<poolVars, listeners>>

(* The end of a successful subscription: the reply reaches the client.      *)
Subscribed(t) ==
    LET c == job[t].client
        e == job[t].event
    IN  /\ known' = [known EXCEPT ![c] = IF job[t].op = "Subscribe" THEN @ \cup {e} ELSE @]
        /\ held' = IF c \in dead THEN held ELSE held \cup {<<c, e>>}
        /\ Return(t)

(* What is left to do with the filters of the snapshot, if anything. *)
ApplyMutes(t, mutes) ==
    \/ /\ mutes # {}
       /\ Goto(t, "remute", [job[t] EXCEPT !.mutes = mutes, !.filter = Nil])
       /\ UNCHANGED <<known, held>>
    \/ mutes = {} /\ Subscribed(t)

(* Mistake: the sessions are not looked at again. *)
SubscribeScIfNeeded_NoRecheck(t) ==
    /\ pc[t] = "subscribe" /\ subLock = Nil
    /\ subLock' = t
    /\ Goto(t, "subscribing", job[t])
    /\ UNCHANGED <<sessionVars, reportedSticky, collectorVars, plugin, historyVars>>

(* SubscribeScIfNeeded takes subscribeMutex_ and looks at the sessions      *)
(* again: nothing to start when nobody subscribes any more.                 *)
SubscribeScIfNeeded(t) ==
    /\ pc[t] = "subscribe" /\ subLock = Nil
    /\ \/ /\ IsAnySessionSubscribes(job[t].event)
          /\ subLock' = t
          /\ Goto(t, "subscribing", job[t])
          /\ UNCHANGED <<known, held>>
       \/ /\ ~IsAnySessionSubscribes(job[t].event)
          /\ ApplyMutes(t, job[t].mutes)
          /\ UNCHANGED subLock
    /\ UNCHANGED <<sessionVars, reportedSticky, collectorVars, plugin, dead, given>>

(* The external call, then the release of subscribeMutex_. *)
SubscribeScDone(t) ==
    /\ pc[t] = "subscribing"
    /\ subLock' = Nil
    /\ \E ok \in BOOLEAN :
          /\ SubscribeSc(job[t].event, ok)
          /\ \/ ok /\ ApplyMutes(t, job[t].mutes)
             \/ /\ ~ok
                /\ Goto(t, "undoSubscribe", job[t])
                /\ UNCHANGED <<known, held>>
    /\ UNCHANGED <<sessionVars, reportedSticky, plugin, dead, given>>

(* The rollback.  The old interface also erases the session it created when *)
(* that has no other subscription.                                          *)
UndoSubscribe(t) ==
    LET c == job[t].client
        e == job[t].event
    IN  /\ pc[t] = "undoSubscribe"
        /\ IF job[t].created /\ subEvents[c] \subseteq {e}
           THEN EraseSession(c)
           ELSE /\ subEvents' = [subEvents EXCEPT ![c] = @ \ {e}]
                /\ UNCHANGED <<sessions, eventFilters>>
        /\ Return(t)
        /\ UNCHANGED <<reportedSticky, subLock, collectorVars, plugin, historyVars>>

(* The filters the session had when it subscribed, one at a time: those     *)
(* still in the session are passed to the plugin; its errors are ignored.   *)
RecheckMute(t) ==
    /\ pc[t] = "remute"
    /\ \E f \in job[t].mutes :
          IF IsFilterInSession(job[t].client, f)
          THEN /\ Goto(t, "remuting", [job[t] EXCEPT !.filter = f])
               /\ UNCHANGED <<known, held>>
          ELSE ApplyMutes(t, job[t].mutes \ {f})
    /\ UNCHANGED <<sessionVars, reportedSticky, subLock, collectorVars, plugin, dead, given>>

(* InsertMute and RemoveMute: the event must be configured, and the plugin  *)
(* may refuse.  The plugin keeps a set: setting a filter twice is once.     *)
InsertMute(c, f, ok) ==
    \/ ok /\ Kind[EventOf[f]] # "unknown" /\ plugin' = plugin \cup {<<c, f>>}
    \/ ~ok /\ (Kind[EventOf[f]] = "unknown" \/ "filter" \in Faults) /\ UNCHANGED plugin

RemoveMute(c, f, ok) ==
    \/ ok /\ Kind[EventOf[f]] # "unknown" /\ plugin' = plugin \ {<<c, f>>}
    \/ ~ok /\ (Kind[EventOf[f]] = "unknown" \/ "filter" \in Faults) /\ UNCHANGED plugin

Remute(t) ==
    /\ pc[t] = "remuting"
    /\ \E ok \in BOOLEAN : InsertMute(job[t].client, job[t].filter, ok)
    /\ ApplyMutes(t, job[t].mutes \ {job[t].filter})
    /\ UNCHANGED <<sessionVars, reportedSticky, subLock, collectorVars, dead, given>>

-----------------------------------------------------------------------------
(* RemoveSubscribeRecordCore: erase the record, stop the collector if that  *)
(* was the last one, put the record back if the stop fails.                 *)

Unsubscribe(t, c, e) ==
    /\ Free(t, c) /\ e \in subEvents[c]
    /\ subEvents' = [subEvents EXCEPT ![c] = @ \ {e}]
    /\ held' = held \ {<<c, e>>}
    /\ given' = [given EXCEPT ![<<c, e>>] = 0]
    /\ Goto(t, "unsubscribe",
            [Call(IF c \in SdkClients THEN "UnsubscribeInfo" ELSE "Unsubscribe", c)
                EXCEPT !.event = e, !.todo = {e}])
    /\ UNCHANGED <<sessions, eventFilters, reportedSticky, subLock, collectorVars, plugin,
                   dead, known>>

(* No such subscription: SUCCESS, and the client drops it from its record.  *)
UnsubscribeNothing(t, c, e) ==
    /\ Free(t, c) /\ c \notin SdkClients /\ e \notin subEvents[c]
    /\ known' = [known EXCEPT ![c] = @ \ {e}]
    /\ UNCHANGED <<sessionVars, reportedSticky, subLock, collectorVars, plugin, pc, job,
                   dead, held, given>>

(* UnSubscribeSc, by whether it succeeds. *)
UnSubscribeScInSg(e, ok) ==
    IF Kind[e] = "sg" /\ e \notin listeners
    THEN ~ok /\ UNCHANGED <<poolVars, listeners>>
    ELSE /\ UnsubscribeCollectors({e})
         /\ \/ ok /\ listeners' = listeners \ {e}
            \/ ~ok /\ UnsubscribeMayFail({e}) /\ UNCHANGED listeners

UnSubscribeScInSc(e, ok) ==
    \/ ok /\ e \in scSubscribeMap /\ scSubscribeMap' = scSubscribeMap \ {e}
    \/ /\ ~ok /\ (e \notin scSubscribeMap \/ "scUnsubscribe" \in Faults)
       /\ UNCHANGED scSubscribeMap

UnSubscribeSc(e, ok) ==
    \/ Kind[e] = "unknown" /\ ~ok /\ UNCHANGED collectorVars
    \/ Kind[e] = "query" /\ ok /\ UNCHANGED collectorVars
    \/ Kind[e] \in {"sg", "sticky"} /\ UnSubscribeScInSg(e, ok) /\ UNCHANGED scSubscribeMap
    \/ Kind[e] = "sc" /\ UnSubscribeScInSc(e, ok) /\ UNCHANGED <<poolVars, listeners>>

(* Where a call goes when UnSubscribeScIfLast returns for e: an Unsubscribe *)
(* minds the result; RemoteDied and DestoryClient go on to the next event,  *)
(* and DestoryClient then to its filters.                                   *)
Released(t, e, ok) ==
    LET j == [job[t] EXCEPT !.todo = @ \ {e}, !.event = Nil]
        minds == j.op \in {"Unsubscribe", "UnsubscribeInfo"}
    IN  \/ /\ minds
           /\ Goto(t, IF ok THEN "cleanup" ELSE "undoUnsubscribe", [j EXCEPT !.event = e])
        \/ ~minds /\ j.todo # {} /\ Goto(t, "unsubscribe", j)
        \/ ~minds /\ j.todo = {} /\ j.mutes # {} /\ Goto(t, "unmuteAll", j)
        \/ ~minds /\ j.todo = {} /\ j.mutes = {} /\ Return(t)

(* Mistakes: the sessions are not looked at again; the lock is not taken.   *)
UnSubscribeScIfLast_NoRecheck(t) ==
    /\ pc[t] = "unsubscribe" /\ subLock = Nil
    /\ \E e \in job[t].todo :
          subLock' = t /\ Goto(t, "unsubscribing", [job[t] EXCEPT !.event = e])
    /\ UNCHANGED <<sessionVars, reportedSticky, collectorVars, plugin, historyVars>>

UnSubscribeScIfLast_NoLock(t) ==
    /\ pc[t] = "unsubscribe"
    /\ \E e \in job[t].todo :
          \/ ~IsAnySessionSubscribes(e) /\ Goto(t, "unsubscribing", [job[t] EXCEPT !.event = e])
          \/ IsAnySessionSubscribes(e) /\ Released(t, e, TRUE)
    /\ UNCHANGED <<sessionVars, reportedSticky, subLock, collectorVars, plugin, historyVars>>

(* UnSubscribeScIfLast takes subscribeMutex_ and looks at the sessions      *)
(* again: the collector stays when somebody subscribes.                     *)
UnSubscribeScIfLast(t) ==
    /\ pc[t] = "unsubscribe" /\ subLock = Nil
    /\ \E e \in job[t].todo :
          \/ /\ ~IsAnySessionSubscribes(e)
             /\ subLock' = t
             /\ Goto(t, "unsubscribing", [job[t] EXCEPT !.event = e])
          \/ /\ IsAnySessionSubscribes(e)
             /\ Released(t, e, TRUE)
             /\ UNCHANGED subLock
    /\ UNCHANGED <<sessionVars, reportedSticky, collectorVars, plugin, historyVars>>

(* Mistake: the error path keeps the lock. *)
UnSubscribeScDone_KeepsLock(t) ==
    /\ pc[t] = "unsubscribing"
    /\ \E ok \in BOOLEAN :
          /\ UnSubscribeSc(job[t].event, ok) /\ Released(t, job[t].event, ok)
          /\ subLock' = IF ok THEN Nil ELSE subLock
    /\ UNCHANGED <<sessionVars, reportedSticky, plugin, historyVars>>

UnSubscribeScDone(t) ==
    /\ pc[t] = "unsubscribing"
    /\ subLock' = Nil
    /\ \E ok \in BOOLEAN :
          UnSubscribeSc(job[t].event, ok) /\ Released(t, job[t].event, ok)
    /\ UNCHANGED <<sessionVars, reportedSticky, plugin, historyVars>>

(* Mistake: the record is not put back. *)
UndoUnsubscribe_Nothing(t) ==
    /\ pc[t] = "undoUnsubscribe"
    /\ Return(t)
    /\ UNCHANGED <<sessionVars, reportedSticky, subLock, collectorVars, plugin, historyVars>>

UndoUnsubscribe(t) ==
    LET c == job[t].client
    IN  /\ pc[t] = "undoUnsubscribe"
        /\ subEvents' = IF c \in sessions
                        THEN [subEvents EXCEPT ![c] = @ \cup {job[t].event}]
                        ELSE subEvents
        /\ Return(t)
        /\ UNCHANGED <<sessions, eventFilters, reportedSticky, subLock, collectorVars, plugin,
                       historyVars>>

(* The old interface erases a session left without subscriptions, and lets  *)
(* the sticky event be reported again.                                      *)
Cleanup(t) ==
    LET c == job[t].client
        e == job[t].event
        old == job[t].op = "UnsubscribeInfo"
    IN  /\ pc[t] = "cleanup"
        /\ IF old /\ subEvents[c] = {}
           THEN EraseSession(c)
           ELSE UNCHANGED sessionVars
        /\ reportedSticky' = IF old THEN reportedSticky \ {<<c, e>>} ELSE reportedSticky
        /\ known' = [known EXCEPT ![c] = @ \ {e}]
        /\ Return(t)
        /\ UNCHANGED <<subLock, collectorVars, plugin, dead, held, given>>

-----------------------------------------------------------------------------
(* RemoveSubscribeRecordOnRemoteDied: the session goes at once; then the    *)
(* plugin's filters of the client; then each of its events.                 *)

RemoteDied(t, c) ==
    /\ pc[t] = "idle" /\ c \notin dead
    /\ dead' = dead \cup {c}
    /\ held' = {h \in held : h[1] # c}
    /\ given' = [h \in Clients \X Events |-> IF h[1] = c THEN 0 ELSE given[h]]
    /\ IF c \in sessions
       THEN /\ EraseSession(c)
            /\ Goto(t, "purge", [Call("RemoteDied", c) EXCEPT !.todo = subEvents[c]])
       ELSE UNCHANGED <<sessionVars, pc, job>>
    /\ UNCHANGED <<reportedSticky, subLock, collectorVars, plugin, known>>

(* Mistake: the events of the session are forgotten. *)
Purge_ForgetsEvents(t) ==
    /\ pc[t] = "purge"
    /\ plugin' = {p \in plugin : p[1] # job[t].client}
    /\ Return(t)
    /\ UNCHANGED <<sessionVars, reportedSticky, subLock, collectorVars, historyVars>>

(* RemoveSdkAllEventFilter *)
Purge(t) ==
    /\ pc[t] = "purge"
    /\ plugin' = {p \in plugin : p[1] # job[t].client}
    /\ IF job[t].todo = {} THEN Return(t) ELSE Goto(t, "unsubscribe", job[t])
    /\ UNCHANGED <<sessionVars, reportedSticky, subLock, collectorVars, historyVars>>

(* DestoryClient *)
DestoryClient(t, c) ==
    LET mutes == {f \in Filters : eventFilters[c][f] > 0}
    IN  /\ Free(t, c) /\ c \in sessions \ SdkClients
        /\ EraseSession(c)
        /\ held' = {h \in held : h[1] # c}
        /\ given' = [h \in Clients \X Events |-> IF h[1] = c THEN 0 ELSE given[h]]
        /\ known' = [known EXCEPT ![c] = {}]
        /\ LET j == [Call("DestoryClient", c) EXCEPT !.todo = subEvents[c], !.mutes = mutes]
           IN  \/ j.todo # {} /\ Goto(t, "unsubscribe", j)
               \/ j.todo = {} /\ j.mutes # {} /\ Goto(t, "unmuteAll", j)
               \/ j.todo = {} /\ j.mutes = {} /\ UNCHANGED <<pc, job>>
        /\ UNCHANGED <<reportedSticky, subLock, collectorVars, plugin, dead>>

UnmuteAll(t) ==
    /\ pc[t] = "unmuteAll"
    /\ \E f \in job[t].mutes :
          /\ \E ok \in BOOLEAN : RemoveMute(job[t].client, f, ok)
          /\ IF job[t].mutes = {f}
             THEN Return(t)
             ELSE Goto(t, "unmuteAll", [job[t] EXCEPT !.mutes = @ \ {f}])
    /\ UNCHANGED <<sessionVars, reportedSticky, subLock, collectorVars, historyVars>>

-----------------------------------------------------------------------------
(* InsertSubscribeMute and RemoveSubscribeMute: a filter of an event that   *)
(* is not subscribed only waits in the session; otherwise the plugin comes  *)
(* first and the session's record after it.                                 *)

AddToSession(c, f) ==
    eventFilters' = IF c \in sessions THEN [eventFilters EXCEPT ![c][f] = @ + 1]
                                      ELSE eventFilters

(* EraseFilterFromSession *)
EraseFilterFromSession(c, f) ==
    eventFilters' = IF IsFilterInSession(c, f) THEN [eventFilters EXCEPT ![c][f] = @ - 1]
                                               ELSE eventFilters

InsertSubscribeMute(t, c, f) ==
    /\ Free(t, c) /\ c \in sessions \ SdkClients
    /\ eventFilters[c][f] = 0
    /\ IF EventOf[f] \in subEvents[c]
       THEN /\ Goto(t, "mute", [Call("AddFilter", c) EXCEPT !.filter = f])
            /\ UNCHANGED eventFilters
       ELSE AddToSession(c, f) /\ UNCHANGED <<pc, job>>
    /\ UNCHANGED <<sessions, subEvents, reportedSticky, subLock, collectorVars, plugin,
                   historyVars>>

Mute(t) ==
    /\ pc[t] = "mute"
    /\ \E ok \in BOOLEAN :
          /\ InsertMute(job[t].client, job[t].filter, ok)
          /\ IF ok THEN Goto(t, "record", job[t]) ELSE Return(t)
    /\ UNCHANGED <<sessionVars, reportedSticky, subLock, collectorVars, historyVars>>

RecordMute(t) ==
    /\ pc[t] = "record"
    /\ AddToSession(job[t].client, job[t].filter)
    /\ Return(t)
    /\ UNCHANGED <<sessions, subEvents, reportedSticky, subLock, collectorVars, plugin,
                   historyVars>>

RemoveSubscribeMute(t, c, f) ==
    /\ Free(t, c) /\ c \notin SdkClients /\ IsFilterInSession(c, f)
    /\ IF EventOf[f] \in subEvents[c]
       THEN /\ Goto(t, "unmute", [Call("RemoveFilter", c) EXCEPT !.filter = f])
            /\ UNCHANGED eventFilters
       ELSE EraseFilterFromSession(c, f) /\ UNCHANGED <<pc, job>>
    /\ UNCHANGED <<sessions, subEvents, reportedSticky, subLock, collectorVars, plugin,
                   historyVars>>

Unmute(t) ==
    /\ pc[t] = "unmute"
    /\ \E ok \in BOOLEAN :
          /\ RemoveMute(job[t].client, job[t].filter, ok)
          /\ IF ok THEN Goto(t, "erase", job[t]) ELSE Return(t)
    /\ UNCHANGED <<sessionVars, reportedSticky, subLock, collectorVars, historyVars>>

EraseMute(t) ==
    /\ pc[t] = "erase"
    /\ EraseFilterFromSession(job[t].client, job[t].filter)
    /\ Return(t)
    /\ UNCHANGED <<sessions, subEvents, reportedSticky, subLock, collectorVars, plugin,
                   historyVars>>

-----------------------------------------------------------------------------
(* Mistake: the mark is not looked at. *)
NotifyObjs_Unmarked(e, named) ==
    {c \in sessions : e \in subEvents[c] /\ (FiltersFor(c, e) = {} \/ c \in named)}

(* CollectNotifyObjs for a sticky event: the sessions that subscribe to it, *)
(* let it through (no filter, or the plugin names the client), and have not *)
(* been given it yet.  An event that is not sticky changes no state.        *)
NotifyObjs(e, named) ==
    {c \in sessions : /\ e \in subEvents[c]
                      /\ FiltersFor(c, e) = {} \/ c \in named
                      /\ <<c, e>> \notin reportedSticky}

PublishSticky(e) ==
    /\ Kind[e] = "sticky" /\ IsCollectorStarted(e)
    /\ \E named \in SUBSET sessions :
          LET due == NotifyObjs(e, named)
          IN  /\ reportedSticky' = reportedSticky \cup (due \X {e})
              /\ given' = [h \in Clients \X Events |->
                            IF h \in due \X {e} /\ given[h] < 2 THEN given[h] + 1 ELSE given[h]]
    /\ UNCHANGED <<sessionVars, subLock, collectorVars, plugin, pc, job, dead, known, held>>

-----------------------------------------------------------------------------
(* A new client takes the place of one that is dead and done with.  Its id  *)
(* is new as well, so whatever is left under the old id is out of sight.    *)
NewClient(c) ==
    /\ c \in dead \ sessions
    /\ \A t \in Threads : job[t].client # c
    /\ dead' = dead \ {c}
    /\ known' = [known EXCEPT ![c] = {}]
    /\ plugin' = {p \in plugin : p[1] # c}
    /\ reportedSticky' = {r \in reportedSticky : r[1] # c}
    /\ UNCHANGED <<sessionVars, subLock, collectorVars, pc, job, held, given>>

-----------------------------------------------------------------------------
(* A thread going on with the call it serves. *)
Continue(t) ==
    \/ CreatClientInsert(t)
    \/ SubscribeScIfNeeded(t) \/ SubscribeScDone(t) \/ UndoSubscribe(t)
    \/ RecheckMute(t) \/ Remute(t)
    \/ UnSubscribeScIfLast(t) \/ UnSubscribeScDone(t) \/ UndoUnsubscribe(t) \/ Cleanup(t)
    \/ Purge(t) \/ UnmuteAll(t)
    \/ Mute(t) \/ RecordMute(t) \/ Unmute(t) \/ EraseMute(t)

(* A thread taking a call. *)
Accept(t, c) ==
    \/ CreatClient(t, c) \/ DestoryClient(t, c) \/ RemoteDied(t, c)
    \/ \E e \in Events : \/ Subscribe(t, c, e) \/ SubscribeAgain(t, c, e)
                         \/ SubscribeInfo(t, c, e)
                         \/ Unsubscribe(t, c, e) \/ UnsubscribeNothing(t, c, e)
    \/ \E f \in Filters : InsertSubscribeMute(t, c, f) \/ RemoveSubscribeMute(t, c, f)

Next ==
    \/ \E t \in Threads : Continue(t)
    \/ \E t \in Threads, c \in Clients : Accept(t, c)
    \/ \E e \in Events : PublishSticky(e)
    \/ \E c \in Clients : NewClient(c)

Spec == Init /\ [][Next]_vars

(* A thread finishes the call it has taken; ffrt's mutex hands the lock to  *)
(* a waiter sooner or later, so a step that needs subscribeMutex_ and is    *)
(* enabled again and again is taken.  Nothing makes clients call.           *)
FairSpec == Spec /\ \A t \in Threads : SF_vars(Continue(t))

-----------------------------------------------------------------------------
(* PROPERTIES *)

(* Every variable has its type, and a client without a session has neither  *)
(* subscriptions nor filters.                                               *)
TypeOK ==
    /\ PoolTypeOK
    /\ sessions \subseteq Clients
    /\ subEvents \in [Clients -> SUBSET Events]
    /\ eventFilters \in [Clients -> [Filters -> Nat]]
    /\ \A c \in Clients \ sessions : subEvents[c] = {} /\ eventFilters[c] = NoFilters
    /\ reportedSticky \subseteq Clients \X Events
    /\ subLock \in Threads \cup {Nil}
    /\ listeners \subseteq Events
    /\ scSubscribeMap \subseteq Events
    /\ plugin \subseteq Clients \X Filters
    /\ pc \in [Threads -> PCs]
    /\ job \in [Threads -> Jobs]
    /\ dead \subseteq Clients
    /\ known \in [Clients -> SUBSET Events]
    /\ held \subseteq Clients \X Events
    /\ given \in [Clients \X Events -> 0 .. 2]

(* The events a collector is run for, and whether it runs. *)
Collected == {e \in Events : Kind[e] \in {"sg", "sticky", "sc"}}

Running(e) == IF Kind[e] = "sc" THEN e \in scSubscribeMap ELSE e \in loaderMap

(* Collectors that run only for subscribers, and that are counted once.     *)
Transient == {e \in Collected : Kind[e] # "sticky"} \ CollectOnStart

ReleasePending(e) == \E t \in Threads : e \in job[t].todo

(* SubscribeScIfNeeded and UnSubscribeScIfLast: no collector is left        *)
(* running for an event nobody subscribes to, except while some thread      *)
(* still has to release that event.                                         *)
NoOrphanCollector ==
    \A e \in Transient : Running(e) => IsAnySessionSubscribes(e) \/ ReleasePending(e)

(* The manager keeps the promise of CollectorLease: whatever the threads    *)
(* do, UnSubscribeScIfLast stops no collector a confirmed subscription      *)
(* relies on, and Insert confirms none whose collector does not run.        *)
Lease == INSTANCE CollectorLease WITH
            Events <- Collected,
            held <- {h \in held : h[2] \in Collected},
            running <- {e \in Collected : Running(e)}
LeaseSpec == Lease!Spec

(* The invariant behind it: a confirmed subscription has its collector.     *)
HeldServed == \A h \in held : h[2] \in Collected => Running(h[2])

Quiet == \A t \in Threads : pc[t] = "idle"

(* The comment at UnSubscribeScIfLast: if a session still subscribes, its   *)
(* collector keeps running.  With no call in progress, every subscription   *)
(* in the table has its collector.  (Of two last unsubscriptions at once    *)
(* the second finds the collector stopped, fails, and puts its record back.)*)
SubscribedServed ==
    Quiet => \A c \in sessions : \A e \in subEvents[c] \cap Collected : Running(e)

(* EventSubscribeClient keeps its own record of its subscriptions, from     *)
(* which it subscribes again after a restart of the service: with no call   *)
(* in progress the two records agree, whatever failed or was rolled back.   *)
ClientViewAgrees ==
    Quiet => \A c \in Clients \ (SdkClients \cup dead) : known[c] = subEvents[c]

(* InsertSubscribeMute, RemoveSubscribeMute and InsertSubscribeRecord: with *)
(* no call in progress, a filter the session lists for an event it          *)
(* subscribes to is set in the plugin, and it is listed once.               *)
FilterApplied ==
    Quiet => \A c \in sessions, f \in Filters :
                eventFilters[c][f] > 0 /\ EventOf[f] \in subEvents[c]
                    => <<c, f>> \in plugin /\ eventFilters[c][f] = 1

(* MarkStickyEventReported: a sticky event is given to a subscription once, *)
(* however its marks come and go.                                           *)
StickyOnce == \A h \in Clients \X Events : given[h] <= 1

(* Whatever fails to be subscribed any more is released: the collector of   *)
(* an event nobody subscribes to stops, or somebody subscribes again.       *)
CollectorReleased ==
    \A e \in Transient :
        (Running(e) /\ ~IsAnySessionSubscribes(e))
            ~> (~Running(e) \/ IsAnySessionSubscribes(e))

(* No call waits for ever: whoever takes subscribeMutex_ gives it back, on  *)
(* every path, and sessionMutex_ is only ever taken inside it.              *)
CallReturns == \A t \in Threads : pc[t] # "idle" ~> pc[t] = "idle"

-----------------------------------------------------------------------------
(* INDUCTIVE INVARIANTS, the strengthenings the proofs rest on *)

(* What a thread's locals hold at each of its labels. *)
Releasing == {"unsubscribe", "unsubscribing", "purge"}

LocalOK(label, j) ==
    /\ label = "idle" => j = NoJob
    /\ label # "idle" => j.client \in Clients
    /\ label \in {"subscribe", "subscribing", "undoSubscribe", "remute", "remuting",
                  "unsubscribing", "undoUnsubscribe", "cleanup"}
          => j.event \in Events
    /\ label \in {"remuting", "mute", "record", "unmute", "erase"} => j.filter \in Filters
    /\ label \notin Releasing => j.todo = {}
    /\ label \in Releasing /\ j.op \in {"Unsubscribe", "UnsubscribeInfo"}
          => j.todo = {j.event}
    /\ label = "unsubscribing" => j.event \in j.todo

JobOK == \A t \in Threads : LocalOK(pc[t], job[t])

(* subscribeMutex_ excludes. *)
LockInv ==
    \A t \in Threads : pc[t] \in {"subscribing", "unsubscribing"} => subLock = t

(* A collector counted once: it runs only if its event is listed, and then  *)
(* its count is one; otherwise its count is zero.                           *)
CountInv ==
    \A e \in Transient : Kind[e] = "sg" =>
        /\ e \in loaderMap => e \in listeners /\ subscribeCount[e] = 1
        /\ e \notin loaderMap => subscribeCount[e] = 0

(* A start under way is still wanted, or will be released; and it fails     *)
(* only for events that have no collector.                                  *)
StartInv ==
    \A t \in Threads :
        /\ pc[t] = "subscribing" /\ job[t].event \in Transient
              => IsAnySessionSubscribes(job[t].event) \/ ReleasePending(job[t].event)
        /\ pc[t] = "undoSubscribe" => job[t].event \notin Transient

OrphanInv == LockInv /\ CountInv /\ StartInv /\ NoOrphanCollector

(* Two threads never serve the same living client. *)
SerialInv ==
    \A t, u \in Threads :
        t # u /\ job[t].client # Nil /\ job[t].client \notin dead
            => job[u].client # job[t].client

Confirming == {"remute", "remuting"}

(* A subscription being set up stays in the table while its client lives,   *)
(* has its collector once that is started, and is not held before the end.  *)
SetupInv ==
    \A t \in Threads :
        LET c == job[t].client
            e == job[t].event
        IN  /\ pc[t] \in {"subscribe", "subscribing"} \cup Confirming /\ c \notin dead
                  => e \in subEvents[c]
            /\ pc[t] \in Confirming /\ c \notin dead /\ e \in Collected => Running(e)
            /\ pc[t] \in {"subscribe", "subscribing", "undoSubscribe"} => <<c, e>> \notin held

(* A confirmed subscription is in the table, and its client lives. *)
HeldInv == \A h \in held : h[1] \notin dead /\ h[2] \in subEvents[h[1]]

(* Nobody relies on a collector that is being stopped. *)
StopInv ==
    \A t \in Threads : pc[t] = "unsubscribing" =>
        /\ \A h \in held : h[2] # job[t].event
        /\ \A u \in Threads : pc[u] \in Confirming /\ job[u].client \notin dead
                                 => job[u].event # job[t].event

ListenerInv == \A e \in listeners : e \in loaderMap

LeaseInv ==
    /\ LockInv /\ SerialInv /\ SetupInv /\ HeldInv /\ StopInv /\ ListenerInv /\ HeldServed
=============================================================================

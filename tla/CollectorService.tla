--------------------------- MODULE CollectorService ---------------------------
(***************************************************************************)
(* The SecurityCollector service and the kit CollectorManager, which lives *)
(* in every process that subscribes to a collector through it.             *)
(*                                                                         *)
(* The service is loaded when a kit asks for it and counts its users in    *)
(* g_refCount; a thread that finds the count at zero has it unloaded.  It  *)
(* keeps one table of subscribers (SecurityCollectorSubscriberManager) and *)
(* one of runs (SecurityCollectorRunManager), over one pool of collectors, *)
(* DataCollection, which this module extends.  A kit whose service dies    *)
(* takes its listeners aside, waits, and subscribes them again.            *)
(*                                                                         *)
(* A callback is made for each subscription, so the subscriber object      *)
(* stands for its callback.  All subscribers have the one application name *)
(* NOTIFY_APP_NAME.  Runs are asked for from JavaScript, by way of the kit *)
(* of the data-collection service; that service has a table of runs and a  *)
(* pool of its own, for the events whose collector lives in its process,   *)
(* and a CollectorManager kit for the others, and asks queries through it. *)
(* Not modelled: the passing of events, and the permission checks.         *)
(***************************************************************************)
EXTENDS DataCollection, Integers

CONSTANTS Processes,     \* processes with a kit
          Subscribers,   \* ICollectorSubscriber objects
          KitOf,         \* the process of each
          EventOf,       \* the event of each
          Apps,          \* processes that start and stop collectors, and query
          CanStart,      \* events whose collector type is COLLECTOR_CAN_START
          Local,         \* events whose prog is "security_guard"
          Retries,       \* length of RECONNECT_RETRY_DELAY_SECONDS
          MaxDeaths,     \* bound on the lives of the service
          MaxCalls,      \* bound on the calls of the applications
          SaMayFail,     \* whether loading the service may fail
          None

ASSUME ServiceAssumption ==
    /\ KitOf \in [Subscribers -> Processes]
    /\ EventOf \in [Subscribers -> Events]
    /\ CanStart \subseteq Events /\ Local \subseteq Events
    /\ Retries \in Nat /\ MaxDeaths \in Nat /\ MaxCalls \in Nat /\ SaMayFail \in BOOLEAN

(* The threads: one of the application for each subscriber, one for each   *)
(* recovery, named by its process and the life of the service that ended.  *)
Recoveries == Processes \X (1 .. MaxDeaths)
Threads == Subscribers \union Apps \union Recoveries
ASSUME ThreadAssumption ==
    /\ Subscribers \cap Apps = {} /\ (Subscribers \union Apps) \cap Recoveries = {}
    /\ None \notin Threads

VARIABLES
    up, life,        \* the service: running, and which of its lives
    refCount,        \* g_refCount
    subscribers,     \* eventToSubscribers_, as the set of all subscribers in it
    watched,         \* callbacks whose death the service is told of
    runs,            \* collectorRunManager_: who started the collector of an event
    unloading,       \* the service has asked to be unloaded
    localRuns,       \* collectorRunManager_ of the data-collection service
    localMap,        \* eventIdToLoaderMap_ of its pool
    localStuck,      \* history: local runs kept by a stop that failed
    cleaned,         \* dead callbacks cleaned but not yet taken from the count
    alive,           \* processes
    died,            \* callbacks whose death the service is to be told of
    listeners,       \* eventListeners_ of all kits
    lock,            \* mutex_ of each kit
    watching,        \* kits told of the death of the service
    obits,           \* kits to be told of it, with the life that ended
    task,            \* recoveries
    call,            \* calls in the kit
    calls,           \* how many calls were made
    wanted,          \* history: subscribers whose subscription was confirmed
    gaveUp,          \* history: processes with a recovery that logged a failure
    misStops,        \* history: failed CollectorStop calls in this life
    cut              \* history: events whose collector was stopped for one user, or by
                     \* a stop that failed, while a user of it stayed in the tables

pool    == <<subscribeCount, loaderMap>>
service == <<up, life, refCount, subscribers, watched, runs, unloading, cleaned, died, misStops,
             cut>>
local   == <<localRuns, localMap, localStuck>>
kit     == <<alive, listeners, watching, obits, gaveUp, wanted>>
vars    == <<pool, service, local, kit, lock, task, call, calls>>

Idle == [op |-> "none", x |-> None, at |-> "idle", life |-> 0, tries |-> 0]
At(t, l) == call[t].at = l
Go(t, l) == call' = [call EXCEPT ![t].at = l]
KitOfThread(t) == IF t \in Subscribers THEN KitOf[t] ELSE t[1]
Living(S) == {s \in S : KitOf[s] \in alive}
Asleep == [at |-> "none", todo |-> {}, left |-> 0]

Init ==
    /\ PoolInit
    /\ up = FALSE /\ life = 0 /\ refCount = 0 /\ subscribers = {} /\ watched = {}
    /\ runs = [e \in Events |-> None] /\ unloading = FALSE /\ cleaned = {}
    /\ alive = Processes /\ died = {} /\ listeners = {}
    /\ lock = [p \in Processes |-> None] /\ watching = {} /\ obits = {}
    /\ task = [r \in Recoveries |-> Asleep]
    /\ call = [t \in Threads |-> Idle] /\ calls = 0
    /\ wanted = {} /\ gaveUp = {} /\ misStops = 0 /\ cut = {}
    /\ localRuns = {} /\ localMap = {} /\ localStuck = {}

-----------------------------------------------------------------------------
(* LoadCollectorService finds the service, or has it started, or fails.    *)
LoadOk == up' = TRUE /\ life < MaxDeaths
LoadFails == SaMayFail /\ ~up

(* The service is gone when a call reaches it: BR_DEAD_REPLY.              *)
Dead(t) == ~up \/ call[t].life # life

(* The end of a call in the kit: the mutex is released; a recovery goes on *)
(* with its next subscriber, whatever the result.                          *)
End(t, r) ==
    /\ call' = [call EXCEPT ![t] = Idle]
    /\ lock' = IF t \in Apps THEN lock ELSE [lock EXCEPT ![KitOfThread(t)] = None]
    /\ task' = IF t \in Recoveries
               THEN [task EXCEPT ![t].todo = @ \ {call[t].x}] ELSE task
    /\ gaveUp' = gaveUp \union (IF t \in Recoveries /\ r = "fail" THEN {KitOfThread(t)} ELSE {})
    /\ wanted' = CASE r = "ok" /\ call[t].op = "sub"   -> wanted \union Living({call[t].x})
                   [] r = "ok" /\ call[t].op = "unsub" -> wanted \ {call[t].x}
                   [] OTHER -> wanted

(* The retry is a whole new call of the Impl, which takes the mutex again. *)
DeadReply(t) ==
    /\ call[t].at \in {"call", "counted", "refused", "cleaned", "stopped"} /\ Dead(t)
    /\ IF call[t].tries = 1
       THEN /\ call' = [call EXCEPT ![t].at = "begin", ![t].tries = 2]
            /\ lock' = IF t \in Apps THEN lock ELSE [lock EXCEPT ![KitOfThread(t)] = None]
            /\ UNCHANGED <<task, gaveUp, wanted>>
       ELSE End(t, "fail")
    /\ UNCHANGED <<pool, service, alive, listeners, watching, obits, calls,
                   local>>

-----------------------------------------------------------------------------
(* Subscription, by the application or by a recovery *)

Ask(t, op, x) == call' = [call EXCEPT ![t] = [op |-> op, x |-> x, at |-> "begin", life |-> 0, tries |-> 1]]

Subscribe(s) ==
    /\ At(s, "idle") /\ KitOf[s] \in alive /\ calls < MaxCalls /\ calls' = calls + 1
    /\ Ask(s, "sub", s)
    /\ UNCHANGED <<pool, service, local, kit, lock, task>>

(* The kit knows the subscriber already, or fails to load the service, or  *)
(* watches it and calls, with the mutex held throughout.                   *)
SubscribeImpl(t) ==
    /\ At(t, "begin") /\ call[t].op = "sub" /\ lock[KitOfThread(t)] = None
    /\ \/ /\ call[t].x \in listeners
          /\ End(t, "already")
          /\ UNCHANGED <<up, watching>>
       \/ /\ call[t].x \notin listeners /\ LoadFails
          /\ End(t, "fail")
          /\ UNCHANGED <<up, watching>>
       \/ /\ call[t].x \notin listeners /\ LoadOk
          /\ call' = [call EXCEPT ![t].at = "call", ![t].life = life]
          /\ lock' = [lock EXCEPT ![KitOfThread(t)] = t]
          /\ watching' = watching \union {KitOfThread(t)}
          /\ UNCHANGED <<task, gaveUp, wanted>>
    /\ UNCHANGED <<pool, life, refCount, subscribers, watched, runs, unloading,
                   cleaned, died, misStops, cut, alive, listeners, obits, calls,
                   local>>

(* In the service the user is counted first; then its death is watched.    *)
CountSubscriber(t) ==
    /\ At(t, "call") /\ call[t].op = "sub" /\ ~Dead(t)
    /\ refCount' = refCount + 1
    /\ watched' = watched \union {call[t].x}
    /\ Go(t, "counted")
    /\ UNCHANGED <<pool, up, life, subscribers, runs, unloading, cleaned, died,
                   misStops, cut, kit, lock, task, calls, local>>

(* What becomes of cut, when those of S are stopped and have another user. *)
Cut(S) == cut' = (cut \union (S \cap loaderMap)) \ loaderMap'
Running(S) == {e \in S : runs[e] # None}

(* SubscribeCollector, under collectorMutex_: an event that any subscriber *)
(* has is refused, for they all have the same name.                        *)
Taken(e) == \E s \in subscribers : EventOf[s] = e
SubscribeCollector(t) ==
    /\ At(t, "counted") /\ call[t].op = "sub" /\ ~Dead(t)
    /\ LET s == call[t].x
           e == EventOf[s]
       IN \/ /\ ~Taken(e) /\ SubscribeCollectorsOk({e})
             /\ subscribers' = subscribers \union {s}
             /\ listeners' = listeners \union Living({s})
             /\ End(t, "ok")
          \/ /\ IF Taken(e) THEN UNCHANGED pool ELSE SubscribeCollectorsFail({e})
             /\ Go(t, "refused")
             /\ UNCHANGED <<subscribers, listeners, lock, task, gaveUp, wanted>>
    /\ Cut({})
    /\ UNCHANGED <<up, life, refCount, watched, runs, unloading, cleaned, died,
                   misStops, alive, watching, obits, calls, local>>
Uncount(t) ==
    /\ At(t, "refused") /\ call[t].op = "sub" /\ ~Dead(t)
    /\ refCount' = refCount - 1
    /\ watched' = watched \ {call[t].x}
    /\ End(t, "fail")
    /\ UNCHANGED <<pool, up, life, subscribers, runs, unloading, cleaned, died,
                   misStops, cut, alive, listeners, watching, obits, calls,
                   local>>

-----------------------------------------------------------------------------
(* Unsubscription *)

Unsubscribe(s) ==
    /\ At(s, "idle") /\ KitOf[s] \in alive /\ calls < MaxCalls /\ calls' = calls + 1
    /\ Ask(s, "unsub", s)
    /\ UNCHANGED <<pool, service, local, kit, lock, task>>
UnsubscribeImpl(s) ==
    /\ At(s, "begin") /\ call[s].op = "unsub" /\ lock[KitOf[s]] = None
    /\ IF s \in listeners
       THEN \/ /\ LoadFails /\ End(s, "fail") /\ UNCHANGED up
            \/ /\ LoadOk
               /\ call' = [call EXCEPT ![s].at = "call", ![s].life = life]
               /\ lock' = [lock EXCEPT ![KitOf[s]] = s]
               /\ UNCHANGED <<task, gaveUp, wanted>>
       ELSE End(s, "fail") /\ UNCHANGED up
    /\ UNCHANGED <<pool, life, refCount, subscribers, watched, runs, unloading,
                   cleaned, died, misStops, cut, alive, listeners, watching,
                   obits, calls, local>>

(* Mutant: a callback that is not subscribed stops the collector of its event. *)
UnsubscribeCollector_Unknown(s) ==
    /\ subscribers' = subscribers \ {s}
    /\ IF s \notin subscribers \/ {o \in subscribers : EventOf[o] = EventOf[s]} = {s}
       THEN UnsubscribeCollectors({EventOf[s]})
       ELSE UNCHANGED pool
    /\ Cut(Running({EventOf[s]}))

(* UnsubscribeCollector: the subscriber goes, and with the last one of its *)
(* event the collector; an error of the stop is only logged.               *)
UnsubscribeCollector(s) ==
    /\ subscribers' = subscribers \ {s}
    /\ IF s \in subscribers /\ {o \in subscribers : EventOf[o] = EventOf[s]} = {s}
       THEN UnsubscribeCollectors({EventOf[s]})
       ELSE UNCHANGED pool
    /\ Cut(Running({EventOf[s]}))

(* A count of zero refuses the call.  A callback that was not subscribed   *)
(* is a success, and not taken from the count.                             *)
CleanSubscriber(s) ==
    /\ At(s, "call") /\ call[s].op = "unsub" /\ ~Dead(s)
    /\ IF refCount <= 0
       THEN End(s, "fail") /\ UNCHANGED <<pool, subscribers, watched, listeners, cut>>
       ELSE /\ watched' = watched \ {s}
            /\ UnsubscribeCollector(s)
            /\ IF s \in subscribers
               THEN Go(s, "cleaned") /\ UNCHANGED <<listeners, lock, task, gaveUp, wanted>>
               ELSE End(s, "ok") /\ listeners' = listeners \ {s}
    /\ UNCHANGED <<up, life, refCount, runs, unloading, cleaned, died, misStops,
                   alive, watching, obits, calls, local>>
UnsubscribeDone(s) ==
    /\ At(s, "cleaned") /\ ~Dead(s)
    /\ refCount' = refCount - 1
    /\ listeners' = listeners \ {s}
    /\ End(s, "ok")
    /\ UNCHANGED <<pool, up, life, subscribers, watched, runs, unloading,
                   cleaned, died, misStops, cut, alive, watching, obits, calls,
                   local>>

-----------------------------------------------------------------------------
(* Runs *)

RunEvent(t) == call[t].x

(* The pool of the data-collection service is another instance of the same *)
(* class; runs do not count subscriptions.                                 *)
LocalPool == INSTANCE DataCollection WITH loaderMap <- localMap,
                                          subscribeCount <- [e \in Events |-> 0]

(* Every local run has the name "security_guard", so any caller stops it.  *)
(* A stop that the pool reports as failed keeps the run.                   *)
LocalStart(e) ==
    \/ /\ e \notin localRuns /\ LocalPool!StartCollectorsOk({e})
       /\ localRuns' = localRuns \union {e} /\ UNCHANGED localStuck
    \/ e \notin localRuns /\ LocalPool!StartCollectorsFail({e}) /\ UNCHANGED local
    \/ e \in localRuns /\ UNCHANGED local
LocalStop(e) ==
    \/ /\ e \in localRuns /\ LocalPool!StopCollectors({e})
       /\ localRuns' = localRuns \ {e} /\ localStuck' = localStuck \ {e}
    \/ /\ e \in localRuns /\ LocalPool!StopMayFail({e}) /\ LocalPool!StopCollectors({e})
       /\ localStuck' = localStuck \union {e} /\ UNCHANGED localRuns
    \/ e \notin localRuns /\ UNCHANGED local

(* CollectorManager::CollectorStart and CollectorStop.                     *)
ManagerStart(a, e) == Ask(a, "start", e)
ManagerStop(a, e) == Ask(a, "stop", e)

(* The service serves its own collectors and asks CollectorManager for the *)
(* others.                                                                 *)
DcmsCollectorStart(a, e) ==
    IF e \in Local THEN LocalStart(e) /\ UNCHANGED call ELSE ManagerStart(a, e) /\ UNCHANGED local
DcmsCollectorStop(a, e) ==
    IF e \in Local THEN LocalStop(e) /\ UNCHANGED call ELSE ManagerStop(a, e) /\ UNCHANGED local

(* Without a proxy of the data-collection service the kit answers          *)
(* NULL_OBJECT.                                                            *)
KitStartCollector(a, e) ==
    DcmsCollectorStart(a, e) \/ (SaMayFail /\ UNCHANGED <<call, local>>)
KitStopCollector(a, e) ==
    DcmsCollectorStop(a, e) \/ (SaMayFail /\ UNCHANGED <<call, local>>)

(* The JavaScript functions: arguments that do not parse, or a duration    *)
(* that is not positive, throw before the kit is asked.                    *)
NapiStartSecurityEventCollector(a, e) ==
    /\ At(a, "idle") /\ calls < MaxCalls /\ calls' = calls + 1
    /\ KitStartCollector(a, e)
    /\ UNCHANGED <<pool, service, kit, lock, task>>
NapiStopSecurityEventCollector(a, e) ==
    /\ At(a, "idle") /\ calls < MaxCalls /\ calls' = calls + 1
    /\ KitStopCollector(a, e)
    /\ UNCHANGED <<pool, service, kit, lock, task>>

(* The kit of the data-collection service loads the service and calls it.  *)
CollectorImpl(a) ==
    /\ At(a, "begin")
    /\ \/ /\ LoadFails /\ End(a, "fail") /\ UNCHANGED up
       \/ /\ LoadOk
          /\ call' = [call EXCEPT ![a].at = "call", ![a].life = life]
          /\ UNCHANGED <<lock, task, gaveUp, wanted>>
    /\ UNCHANGED <<pool, life, refCount, subscribers, watched, runs, unloading,
                   cleaned, died, misStops, cut, alive, listeners, watching,
                   obits, calls, local>>

(* CollectorStart: counted, then started unless the event may not be       *)
(* started, has a run, or does not load.                                   *)
CountRun(a) ==
    /\ At(a, "call") /\ call[a].op = "start" /\ ~Dead(a)
    /\ refCount' = refCount + 1
    /\ Go(a, "counted")
    /\ UNCHANGED <<pool, up, life, subscribers, watched, runs, unloading,
                   cleaned, died, misStops, cut, kit, lock, task, calls, local>>
CollectorStart(a) ==
    /\ At(a, "counted") /\ call[a].op = "start" /\ ~Dead(a)
    /\ LET e == RunEvent(a)
           may == e \in CanStart /\ runs[e] = None
       IN \/ /\ may /\ StartCollectorsOk({e})
             /\ runs' = [runs EXCEPT ![e] = a]
             /\ End(a, "ok")
          \/ /\ IF may THEN StartCollectorsFail({e}) ELSE UNCHANGED pool
             /\ Go(a, "refused")
             /\ UNCHANGED <<runs, lock, task, gaveUp, wanted>>
    /\ Cut({})
    /\ UNCHANGED <<up, life, refCount, subscribers, watched, unloading, cleaned,
                   died, misStops, alive, listeners, watching, obits, calls,
                   local>>
UncountRun(a) ==
    /\ At(a, "refused") /\ call[a].op = "start" /\ ~Dead(a)
    /\ refCount' = refCount - 1
    /\ End(a, "fail")
    /\ UNCHANGED <<pool, up, life, subscribers, watched, runs, unloading,
                   cleaned, died, misStops, cut, alive, listeners, watching,
                   obits, calls, local>>

(* CollectorStop: only who started a run may stop it.  The count is        *)
(* lowered whether or not there was anything to stop.  A stop that the     *)
(* pool reports as failed keeps the run, though its collector is gone.     *)
CollectorStop(a) ==
    /\ At(a, "call") /\ call[a].op = "stop" /\ ~Dead(a)
    /\ LET e == RunEvent(a)
       IN IF refCount <= 0
          THEN End(a, "fail") /\ UNCHANGED <<pool, runs, misStops, cut>>
          ELSE \/ /\ runs[e] = a /\ StopCollectors({e})
                  /\ runs' = [runs EXCEPT ![e] = None]
                  /\ Cut({x \in {e} : Taken(x)})
                  /\ Go(a, "stopped")
                  /\ UNCHANGED <<misStops, lock, task, gaveUp, wanted>>
               \/ /\ IF runs[e] = a THEN StopMayFail({e}) /\ StopCollectors({e}) ELSE UNCHANGED pool
                  /\ misStops' = misStops + 1
                  /\ Cut({e})
                  /\ Go(a, "stopped")
                  /\ UNCHANGED <<runs, lock, task, gaveUp, wanted>>
    /\ UNCHANGED <<up, life, refCount, subscribers, watched, unloading, cleaned,
                   died, alive, listeners, watching, obits, calls, local>>
UncountStop(a) ==
    /\ At(a, "stopped") /\ ~Dead(a)
    /\ refCount' = refCount - 1
    /\ End(a, "ok")
    /\ UNCHANGED <<pool, up, life, subscribers, watched, runs, unloading,
                   cleaned, died, misStops, cut, alive, listeners, watching,
                   obits, calls, local>>

-----------------------------------------------------------------------------
(* Queries: what they ask and answer is QueryPath's subject; here they are *)
(* users of the service for as long as it answers, refused or not.         *)
ManagerQuery(a) ==
    /\ At(a, "idle") /\ calls < MaxCalls /\ calls' = calls + 1
    /\ Ask(a, "query", None)
    /\ UNCHANGED <<pool, service, kit, lock, task, local>>
CountQuery(a) ==
    /\ At(a, "call") /\ call[a].op = "query" /\ ~Dead(a)
    /\ refCount' = refCount + 1
    /\ Go(a, "counted")
    /\ UNCHANGED <<pool, up, life, subscribers, watched, runs, unloading,
                   cleaned, died, misStops, cut, kit, lock, task, calls, local>>
QueryDone(a) ==
    /\ At(a, "counted") /\ call[a].op = "query" /\ ~Dead(a)
    /\ refCount' = refCount - 1
    /\ End(a, "ok")
    /\ UNCHANGED <<pool, up, life, subscribers, watched, runs, unloading,
                   cleaned, died, misStops, cut, alive, listeners, watching,
                   obits, calls, local>>

-----------------------------------------------------------------------------
(* The life of the service, and the death of subscribers *)

(* The thread of OnStart looks every SLEEP_INTERVAL, and asks once.        *)
AskUnload ==
    /\ up /\ ~unloading /\ refCount <= 0
    /\ unloading' = TRUE
    /\ UNCHANGED <<pool, up, life, refCount, subscribers, watched, runs,
                   cleaned, died, misStops, cut, kit, lock, task, call, calls,
                   local>>

(* The process of the service ends, because it asked to or by a crash.     *)
Ends ==
    /\ up' = FALSE /\ life' = life + 1
    /\ refCount' = 0 /\ subscribers' = {} /\ watched' = {} /\ died' = {} /\ cleaned' = {}
    /\ runs' = [e \in Events |-> None] /\ unloading' = FALSE /\ misStops' = 0 /\ cut' = {}
    /\ subscribeCount' = [e \in Events |-> 0] /\ loaderMap' = {}
    /\ watching' = {} /\ obits' = obits \union (watching \X {life + 1})
    /\ UNCHANGED <<alive, listeners, gaveUp, wanted, lock, task, call, calls,
                   local>>
Unload  == up /\ unloading /\ Ends
Crashes == up /\ ~unloading /\ Ends

(* A subscribing process dies; what its calls have begun in the service    *)
(* goes on there.                                                          *)
InService(t) == call[t].at \in {"counted", "refused", "cleaned"}
ProcessDies(p) ==
    /\ p \in alive /\ alive' = alive \ {p}
    /\ died' = died \union {s \in watched : KitOf[s] = p}
    /\ listeners' = {s \in listeners : KitOf[s] # p}
    /\ wanted' = {s \in wanted : KitOf[s] # p}
    /\ watching' = watching \ {p} /\ obits' = {o \in obits : o[1] # p}
    /\ task' = [r \in Recoveries |-> IF r[1] = p THEN Asleep ELSE task[r]]
    /\ call' = [t \in Threads |-> IF t \notin Apps /\ KitOfThread(t) = p /\ ~InService(t) THEN Idle
                                  ELSE call[t]]
    /\ UNCHANGED <<pool, up, life, refCount, subscribers, watched, runs,
                   unloading, cleaned, misStops, cut, gaveUp, lock, calls,
                   local>>

(* Mutant: a dead callback is taken from the count whether or not it was subscribed. *)
OnRemoteDied_CountsAll(s) ==
    /\ s \in died /\ died' = died \ {s}
    /\ watched' = watched \ {s}
    /\ UnsubscribeCollector(s)
    /\ cleaned' = cleaned \union {s}
    /\ UNCHANGED <<up, life, refCount, runs, unloading, misStops, kit, lock,
                   task, call, calls, local>>

(* OnRemoteDied cleans the callback, then lowers the count if it was there *)
(* and the count is not zero.                                              *)
OnRemoteDied(s) ==
    /\ s \in died /\ died' = died \ {s}
    /\ watched' = watched \ {s}
    /\ UnsubscribeCollector(s)
    /\ cleaned' = cleaned \union ({s} \cap subscribers)
    /\ UNCHANGED <<up, life, refCount, runs, unloading, misStops, kit, lock,
                   task, call, calls, local>>
UncountDied(s) ==
    /\ s \in cleaned /\ cleaned' = cleaned \ {s}
    /\ refCount' = IF refCount <= 0 THEN refCount ELSE refCount - 1
    /\ UNCHANGED <<pool, up, life, subscribers, watched, runs, unloading, died,
                   misStops, cut, kit, lock, task, call, calls, local>>

-----------------------------------------------------------------------------
(* Recovery of a kit *)

(* Mutant: the listeners are copied and not taken aside. *)
HandleDecipient_KeepsListeners(p, l) ==
    /\ <<p, l>> \in obits /\ lock[p] = None
    /\ obits' = obits \ {<<p, l>>}
    /\ LET tmp == {s \in listeners : KitOf[s] = p}
       IN /\ listeners' = listeners
          /\ task' = IF tmp = {} THEN task
                     ELSE [task EXCEPT ![<<p, l>>] = [at |-> "wait", todo |-> tmp, left |-> Retries]]
    /\ UNCHANGED <<pool, service, alive, watching, gaveUp, wanted, lock, call,
                   calls, local>>

HandleDecipient(p, l) ==
    /\ <<p, l>> \in obits /\ lock[p] = None
    /\ obits' = obits \ {<<p, l>>}
    /\ LET tmp == {s \in listeners : KitOf[s] = p}
       IN /\ listeners' = listeners \ tmp
          /\ task' = IF tmp = {} THEN task
                     ELSE [task EXCEPT ![<<p, l>>] = [at |-> "wait", todo |-> tmp, left |-> Retries]]
    /\ UNCHANGED <<pool, service, alive, watching, gaveUp, wanted, lock, call,
                   calls, local>>

(* After each delay the service is loaded and watched.                     *)
Attempt(r) ==
    /\ task[r].at = "wait"
    /\ IF task[r].left = 0
       THEN /\ task' = [task EXCEPT ![r] = Asleep]
            /\ gaveUp' = gaveUp \union {r[1]}
            /\ UNCHANGED <<up, watching>>
       ELSE \/ /\ LoadFails /\ task' = [task EXCEPT ![r].left = @ - 1]
               /\ UNCHANGED <<up, watching, gaveUp>>
            \/ /\ LoadOk /\ watching' = watching \union {r[1]}
               /\ task' = [task EXCEPT ![r].at = "again"]
               /\ UNCHANGED gaveUp
    /\ UNCHANGED <<pool, life, refCount, subscribers, watched, runs, unloading,
                   cleaned, died, misStops, cut, alive, listeners, obits,
                   wanted, lock, call, calls, local>>
Resubscribe(r, s) ==
    /\ task[r].at = "again" /\ At(r, "idle") /\ s \in task[r].todo
    /\ Ask(r, "sub", s)
    /\ UNCHANGED <<pool, service, kit, lock, task, calls, local>>
Recovered(r) ==
    /\ task[r].at = "again" /\ At(r, "idle") /\ task[r].todo = {}
    /\ task' = [task EXCEPT ![r] = Asleep]
    /\ UNCHANGED <<pool, service, kit, lock, call, calls, local>>

-----------------------------------------------------------------------------
InCall(t) ==
    \/ t \notin Apps /\ (SubscribeImpl(t) \/ CountSubscriber(t) \/ SubscribeCollector(t) \/ Uncount(t))
    \/ t \in Subscribers /\ (UnsubscribeImpl(t) \/ CleanSubscriber(t) \/ UnsubscribeDone(t))
    \/ t \in Apps /\ (CollectorImpl(t) \/ CountRun(t) \/ CollectorStart(t) \/ UncountRun(t)
                         \/ CollectorStop(t) \/ UncountStop(t) \/ CountQuery(t) \/ QueryDone(t))
    \/ DeadReply(t)
Recover(r) == HandleDecipient(r[1], r[2]) \/ Attempt(r) \/ Recovered(r)
                \/ (\E s \in Subscribers : Resubscribe(r, s))

Next ==
    \/ \E s \in Subscribers : Subscribe(s) \/ Unsubscribe(s) \/ OnRemoteDied(s) \/ UncountDied(s)
    \/ \E a \in Apps, e \in Events : 
          NapiStartSecurityEventCollector(a, e) \/ NapiStopSecurityEventCollector(a, e)
    \/ \E a \in Apps : ManagerQuery(a)
    \/ \E t \in Threads : InCall(t)
    \/ AskUnload \/ Unload \/ Crashes
    \/ \E p \in Processes : ProcessDies(p)
    \/ \E r \in Recoveries : Recover(r)

Spec == Init /\ [][Next]_vars

-----------------------------------------------------------------------------
(* Properties *)

Counted(t) == ~Dead(t) /\ call[t].at \in {"counted", "refused", "cleaned", "stopped"}

(* The count says how many users the service has, in tables and in calls   *)
(* under way, as long as no CollectorStop has failed: so the service does  *)
(* not ask to be unloaded while somebody uses it, and does when nobody is. *)
RefExact ==
    up /\ misStops = 0 =>
        refCount = Cardinality(subscribers) + Cardinality({e \in Events : runs[e] # None})
                   + Cardinality(cleaned) + Cardinality({t \in Threads : Counted(t)})

(* Every subscriber and every run has its collector started, through       *)
(* failures, refusals, deaths and the end of the service.  (Subscriptions  *)
(* and runs share one entry of the loader map, so the last unsubscription  *)
(* of an event stops the collector of its run, and the stop of a run that  *)
(* of its subscriber; and a stop that fails keeps its run.  An event of    *)
(* which that has happened is left out until it is started again.)  So has *)
(* every local run that no failed stop has kept.                           *)
Served ==
    /\ \A e \in Events \ cut : Taken(e) \/ runs[e] # None => e \in loaderMap
    /\ localRuns \ localStuck \subseteq localMap

AtRest(p) ==
    /\ p \in alive /\ lock[p] = None
    /\ \A t \in Subscribers \union Recoveries : KitOfThread(t) = p => At(t, "idle")
    /\ \A l \in 1 .. MaxDeaths : <<p, l>> \notin obits /\ task[<<p, l>>] = Asleep

(* What a process was told is subscribed, the kit knows and the service    *)
(* has, whenever nothing is under way, unless its recovery has logged that *)
(* it failed.                                                              *)
KitAgrees ==
    \A s \in wanted : AtRest(KitOf[s]) /\ KitOf[s] \notin gaveUp => s \in listeners \cap subscribers
=============================================================================

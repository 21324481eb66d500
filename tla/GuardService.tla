----------------------------- MODULE GuardService -----------------------------
(***************************************************************************)
(* The security_guard process around its configuration: the two abilities  *)
(* that read it when they start, the risk models (RiskModels), and the     *)
(* detection plugins, which subscribe to the data-collection ability of    *)
(* the same process (DetectPluginManager).  The process may die at any     *)
(* point and be started again.                                             *)
(***************************************************************************)
EXTENDS RiskModels

CONSTANTS MaxPlugins,  \* MAX_PLUGIN_SIZE
          Libraries,   \* the plugins whose library is where it must be
          Special      \* the id under which a plugin without events is kept

VARIABLES plugins,    \* plugins_, as the file lists them
          loader,     \* the task of LoadAllPlugins
          eventIdMap, \* eventIdMap_: the plugins of each event
          failed,     \* failedEventIdset_
          retry,      \* the retry thread
          stop,       \* isStopRetry_, and whether StopRetryTask has returned
          subscribed, \* the events data collection sends to this process
          heard       \* the plugins that have handled an event, with the event

pluginVars == <<plugins, loader, eventIdMap, failed, retry, stop, subscribed, heard>>
vars == <<configVars, modelVars, pluginVars>>

NoLoader == [at |-> "none", left |-> <<>>, todo |-> {}, e |-> None]
NoRetry == [at |-> "none", pass |-> {}, e |-> None]

PluginInit == /\ plugins = <<>> /\ loader = NoLoader /\ eventIdMap = <<>> /\ failed = {} /\ retry = NoRetry
              /\ stop = "no" /\ subscribed = {} /\ heard = {}

Init == ConfigInit /\ RiskInit /\ PluginInit

-------------------------------------------------------------------------------
(* A plugin is taken while there is room, if its library is there and its name is new.  An *)
(* entry without a name or a version, or with an event that is no number, is passed over.  *)
ParsePluginDepEventIds(p) == None \notin p.deps
CheckPluginNameAndSize(list, p) == /\ Len(list) < MaxPlugins /\ p.name \in Libraries
                                   /\ \A i \in DOMAIN list : list[i].name # p.name
ParsePluginConfigObjArray(file) ==
    FoldLeft(LAMBDA list, p : IF p.ok /\ ParsePluginDepEventIds(p) /\ CheckPluginNameAndSize(list, p) THEN Append(list, p) ELSE list, <<>>, file)

(* Five seconds after the risk ability is up; a file that cannot be read ends it. *)
ParsePluginConfig == plan.plugins # <<>>
LoadAllPlugins ==
    /\ loader.at = "none" /\ ServicePublished
    /\ IF ~ParsePluginConfig THEN loader' = [loader EXCEPT !.at = "gone"] /\ UNCHANGED plugins
       ELSE /\ plugins' = ParsePluginConfigObjArray(plan.plugins)
            /\ loader' = [loader EXCEPT !.at = "plugin", !.left = ParsePluginConfigObjArray(plan.plugins)]
    /\ UNCHANGED <<configVars, modelVars, eventIdMap, failed, retry, stop, subscribed, heard>>

(* mutex_ is held for a moment only, except by StopRetryTask while it joins the thread. *)
Free == stop # "joining"

Current == Head(loader.left)
NextPlugin == [loader EXCEPT !.at = "plugin", !.left = Tail(@)]
Registered(e) == eventIdMap' = (e :> (IF e \in DOMAIN eventIdMap THEN eventIdMap[e] ELSE {}) \cup {Current.name}) @@ eventIdMap

(* The library is opened and the plugin initialized; one that fails is passed over. *)
LoadPlugin ==
    /\ loader.at = "plugin" /\ loader.left # <<>>
    /\ \/ /\ loader' = [loader EXCEPT !.at = "dep", !.todo = Current.deps]
          /\ UNCHANGED faults
       \/ Fault("dlopen") /\ Blame(TRUE) /\ loader' = NextPlugin
    /\ UNCHANGED <<plan, up, fileVars, mem, tables, op, dirty, starts, modelVars,
                   plugins, eventIdMap, failed, retry, stop, subscribed, heard>>

(* An event that no plugin has asked for yet is subscribed first. *)
CheckDep ==
    /\ loader.at = "dep" /\ Free
    /\ \/ /\ Current.deps = {} /\ Registered(Special)
          /\ loader' = NextPlugin
       \/ \E e \in loader.todo :
            /\ loader' = [loader EXCEPT !.e = e, !.at = IF e \in DOMAIN eventIdMap THEN "add" ELSE "subscribe"]
            /\ UNCHANGED eventIdMap
       \/ /\ Current.deps # {} /\ loader.todo = {}
          /\ loader' = NextPlugin /\ UNCHANGED eventIdMap
    /\ UNCHANGED <<configVars, modelVars, plugins, failed, retry, stop, subscribed, heard>>

(* DataCollectManager::Subscribe: the ability must be there and know the event. *)
Accepted(e) == Published /\ GetEventConfig(e)

(* SubscribeEvent: an event that is refused waits for the retry thread. *)
SubscribeEvent(e) ==
    \/ Accepted(e) /\ subscribed' = subscribed \cup {e} /\ UNCHANGED <<failed, faults>>
    \/ /\ ~Accepted(e) \/ Fault("subscribe")
       /\ Blame(Accepted(e)) /\ failed' = failed \cup {e} /\ UNCHANGED subscribed

LoaderSubscribes ==
    /\ loader.at = "subscribe" /\ SubscribeEvent(loader.e)
    /\ loader' = [loader EXCEPT !.at = "add"]
    /\ UNCHANGED <<plan, up, fileVars, mem, tables, op, dirty, starts, modelVars,
                   plugins, eventIdMap, retry, stop, heard>>

AddDep ==
    /\ loader.at = "add" /\ Free /\ Registered(loader.e)
    /\ loader' = [loader EXCEPT !.at = "dep", !.todo = @ \ {loader.e}]
    /\ UNCHANGED <<configVars, modelVars, plugins, failed, retry, stop, subscribed, heard>>

(* The retry thread starts after the last plugin, unless the service is being stopped.  That *)
(* is decided under the lock that StopRetryTask takes after it has set the flag.             *)
StartRetry ==
    /\ loader.at = "plugin" /\ loader.left = <<>> /\ Free
    /\ loader' = [loader EXCEPT !.at = "gone"]
    /\ retry' = IF stop = "no" THEN [NoRetry EXCEPT !.at = "look"] ELSE retry
    /\ UNCHANGED <<configVars, modelVars, plugins, eventIdMap, failed, stop, subscribed, heard>>

Stopping == stop # "no"

(* Mutant: The thread tries every event once, and ends. *)
Again_Once == FALSE

(* RetrySubscriptionTask: while events have failed, each of them is tried again in turn. *)
(* The sleep between two passes is cut short by a stop.                                  *)
Again == failed # {}
RetryLooks ==
    /\ retry.at = "look"
    /\ retry' = IF Stopping \/ failed = {} THEN [NoRetry EXCEPT !.at = "ended"]
                ELSE [retry EXCEPT !.at = "next", !.pass = failed]
    /\ UNCHANGED <<configVars, modelVars, plugins, loader, eventIdMap, failed, stop, subscribed, heard>>

RetryTakes ==
    /\ retry.at = "next"
    /\ \/ /\ ~Stopping
          /\ \E e \in retry.pass : /\ retry' = [retry EXCEPT !.at = "try", !.pass = @ \ {e}, !.e = e]
                                   /\ failed' = failed \ {e}
       \/ /\ Stopping \/ retry.pass = {}
          /\ retry' = [NoRetry EXCEPT !.at = IF Again /\ ~Stopping THEN "look" ELSE "ended"]
          /\ UNCHANGED failed
    /\ UNCHANGED <<configVars, modelVars, plugins, loader, eventIdMap, stop, subscribed, heard>>

RetrySubscribes ==
    /\ retry.at = "try" /\ SubscribeEvent(retry.e)
    /\ retry' = [retry EXCEPT !.at = "next", !.e = None]
    /\ UNCHANGED <<plan, up, fileVars, mem, tables, op, dirty, starts, modelVars,
                   plugins, loader, eventIdMap, stop, heard>>

(* StopRetryTask, from OnStop: the flag, then the lock, under which the thread is joined. *)
StopRetryTask ==
    /\ up /\ plan.stops
    /\ \/ stop = "no" /\ stop' = "asked"
       \/ stop = "asked" /\ stop' = "joining"
       \/ stop = "joining" /\ retry.at \in {"none", "ended"} /\ stop' = "stopped"
    /\ UNCHANGED <<configVars, modelVars, plugins, loader, eventIdMap, failed, retry, subscribed, heard>>

(* DispatchEvent: to the plugins of the event, under the lock that StopRetryTask holds while *)
(* it joins.  One that comes before its plugin is entered in the map is dropped.             *)
DispatchEvent(e) ==
    /\ up /\ e \in subscribed /\ Free /\ e \in DOMAIN eventIdMap
    /\ heard' = heard \cup {<<p, e>> : p \in eventIdMap[e]}
    /\ UNCHANGED <<configVars, modelVars, plugins, loader, eventIdMap, failed, retry, stop, subscribed>>

-------------------------------------------------------------------------------
EventIds == UNION {UNION {p.plugins[i].deps : i \in DOMAIN p.plugins} : p \in Plans}

Boot == BootConfig /\ BootModels /\ UNCHANGED pluginVars

Crash == /\ CrashConfig /\ CrashModels
         /\ plugins' = <<>> /\ loader' = NoLoader /\ eventIdMap' = <<>> /\ failed' = {} /\ retry' = NoRetry
         /\ stop' = "no" /\ subscribed' = {} /\ heard' = {}

ConfigSteps == /\ \E i \in Inits : ConfigInitStep(i)
               /\ UNCHANGED <<modelVars, pluginVars>>
Updating == /\ \E c \in Updates : UpdateStep(c)
            /\ UNCHANGED <<modelVars, pluginVars>>
Tasks == /\ \/ ModelManagerInit
            \/ \E r \in Requests \cup {Init0} : ManagerStep(r)
            \/ \E r \in Requests : CallStep(r) \/ UseModel(r) \/ ModelReturns(r) \/ DropModelUse(r) \/ Release(r)
         /\ UNCHANGED pluginVars
Asking == /\ \E r \in Requests : AskStep(r)
          /\ UNCHANGED pluginVars
Loading == LoadAllPlugins \/ LoadPlugin \/ CheckDep \/ LoaderSubscribes \/ AddDep \/ StartRetry
Retrying == RetryLooks \/ RetryTakes \/ RetrySubscribes

Next == \/ Boot \/ Crash
        \/ ConfigSteps \/ Updating
        \/ Tasks \/ Asking
        \/ Loading \/ Retrying \/ StopRetryTask
        \/ \E e \in EventIds : DispatchEvent(e)

(* The threads of the process and of its clients run, the kernel starts the process, events *)
(* keep coming.  Each of these has finitely many steps, so that fairness of them all         *)
(* together is enough; only the retry thread can go on for ever.  How long a model works is  *)
(* not up to them, and a crash, a stop or a failure need not happen.                         *)
Program == \/ Boot \/ ConfigSteps \/ Updating \/ Asking \/ Loading
           \/ /\ ModelManagerInit \/ ManagerStep(Init0) \/ \E r \in Requests : TaskStep(r)
              /\ UNCHANGED pluginVars
           \/ \E e \in EventIds : DispatchEvent(e)
Fairness == WF_vars(Program) /\ WF_vars(Retrying)

Spec == Init /\ [][Next]_vars
FairSpec == Spec /\ Fairness

-------------------------------------------------------------------------------
(* Properties *)

Parsed(f) == IF f = "event" THEN EventMap[EventText] ELSE ModelMap[ModelText]
Booted == up /\ \A i \in Inits : op[i].at = "done"

(* What is in force is what a restart would load: the maps hold what the file on the disk    *)
(* holds, every event with its table, unless two updates or an initialization overlapped on  *)
(* the file or a write was cut short; and an update told to have succeeded has its text in   *)
(* place (ConfigSubscriber::UpdateConfig, EventConfig::Update, CopyFile).                    *)
ConfigInstalled ==
    /\ Booted => \A f \in Config :
         CallsOn(f) = {} /\ ~dirty[f] =>
            /\ mem[f] = IF Check(f, LoadText(f)) THEN Parsed(f) ELSE <<>>
            /\ f = "event" => \A id \in DOMAIN mem[f] : tables[id] = mem[f][id].table
    /\ \A c \in Updates :
         /\ op[c].at = "finish" /\ op[c].ret = "SUCCESS" /\ op[c].solo
         /\ UFile[c] \in Config \/ Dst[UFile[c]] = "listed"
         => disk[UFile[c]] # None /\ data[disk[UFile[c]]] = UText[c]

Quiet(m) == \A r \in DOMAIN task : task[r].at \in {"none", "wait", "ended", "enter"} \/ Wanted(r) # m
ModelFound == \A r \in Requests : task[r].at = "use" /\ (task[r].demand \/ ~ForResult(r)) => loaded[Model[r]]
ModelIdle == \A m \in Models : loaded[m] /\ Quiet(m) => kept[m]

(* A call that has initialized its model finds it when it uses it, whatever the other calls *)
(* release in between (ModelManager::GetResult, StartSecurityModel, SubscribeResult); and a *)
(* model that nobody uses, that came with no start of the service and has been used on      *)
(* demand only, has been unloaded (ModelManager::Release); unless an initialization of it   *)
(* has failed since it was loaded: such a call drops its use and does not release.          *)
ModelKept == ModelFound /\ ModelIdle

AllBack == \A r \in Requests : ForResult(r) => ask[r].at \in {"idle", IF Api[r] = "js" THEN "settled" ELSE "done"}

(* Every request for a result comes back to its caller, even if a model never does           *)
(* (RiskAnalysisManagerService::RequestSecurityModelResult, RequestSecurityModelResultSync). *)
RequestEnds == []<>AllBack

Deaf(e) == Stopping \/ ~up \/ ~GetEventConfig(e)
AllHeard == \A e \in DOMAIN eventIdMap \ {Special} : Deaf(e) \/ \A p \in eventIdMap[e] : <<p, e>> \in heard

(* A plugin that was loaded hears each of its events in the end, however often the          *)
(* subscription was refused, if data collection comes to know the event and nothing stops   *)
(* (DetectPluginManager::RetrySubscriptionTask).                                            *)
PluginHears == []<>AllHeard
===============================================================================

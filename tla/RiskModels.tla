------------------------------ MODULE RiskModels ------------------------------
(***************************************************************************)
(* Risk classification: the clients' requests (sg_classify_client and its  *)
(* JavaScript binding), the service (RiskAnalysisManagerService) and the   *)
(* models it loads (ModelManager), which read their configuration from     *)
(* ConfigStore.                                                            *)
(*                                                                         *)
(* A request for a result runs as a task of the service, which the call    *)
(* waits for no longer than 15 seconds.  A model is loaded and initialized *)
(* outside the lock of ModelManager, and works under it.  A count of the   *)
(* calls in progress keeps a model from being unloaded between the two.    *)
(***************************************************************************)
EXTENDS ConfigStore

CONSTANTS Models,      \* the model ids
          Supported,   \* MODELIDS, those a result may be asked of
          Named,       \* those that have a name in JavaScript
          Audit,       \* AUDIT_MODEL, which ModelManager::Init leaves alone
          Requests, Api, Model, Proc   \* Api[r]: "sync", "async", "js", "start", or "listen" for a
                                       \*   SubscribeResult inside the service

ASSUME RiskAssumption == /\ Model \in [Requests -> Models] /\ IsFiniteSet(Requests)
                         /\ "init" \notin Requests

VARIABLES loaded,   \* modelIdApiMap_ has the model
          use,      \* modelUseCount_
          busy,     \* the call in whose name a model works, under mutex_
          task,     \* the calls of ModelManager in progress, and its own Init
          ask,      \* the requests, seen by their callers
          kit,      \* g_mutex of each client process
          msgs,     \* results on their way to a callback
          kept      \* history: since it was loaded, the model was used by a call that does not
                    \*   release it (one that starts it, gives it a listener, or found that it is not
                    \*   one to start on demand), or an initialization of it has failed, or it came
                    \*   with the service

modelVars == <<loaded, use, busy, task, ask, kit, msgs, kept>>

Init0 == "init"      \* ModelManager::Init
NoTask == [at |-> "none", demand |-> FALSE, todo |-> {}, ret |-> ""]
Unlocked == busy = None

Wanted(r) == IF r = Init0 THEN CHOOSE m \in task[r].todo : TRUE ELSE Model[r]
ForResult(r) == r # Init0 /\ Api[r] \in {"sync", "async", "js"}

RiskInit == /\ loaded = [m \in Models |-> FALSE] /\ use = [m \in Models |-> 0] /\ busy = None
            /\ task = [r \in Requests \cup {Init0} |-> NoTask]
            /\ ask = [r \in Requests |-> [at |-> "idle", ret |-> ""]]
            /\ kit = [p \in {Proc[r] : r \in Requests} |-> None]
            /\ msgs = {}
            /\ kept = [m \in Models |-> FALSE]

BootModels == /\ task' = [task EXCEPT ![Init0].at = "wait"]
              /\ UNCHANGED <<loaded, use, busy, ask, kit, msgs, kept>>

CrashModels == /\ loaded' = [m \in Models |-> FALSE] /\ use' = [m \in Models |-> 0] /\ busy' = None
               /\ task' = [r \in DOMAIN task |-> NoTask]
               /\ ask' = [r \in Requests |-> IF ask[r].at = "call" THEN [at |-> "back", ret |-> "DEAD"] ELSE ask[r]]
               /\ kept' = [m \in Models |-> FALSE]
               /\ UNCHANGED <<kit, msgs>>

At(r, step) == task' = [task EXCEPT ![r].at = step]
Ends(r, ret) == task' = [task EXCEPT ![r].at = "ended", ![r].ret = ret]

-------------------------------------------------------------------------------
(* ModelManager::Init, once the configuration is read: the models that start with the service. *)
Startup == {m \in GetAllModelIds \ {Audit} : mem["model"][m] = "startup"}

ModelManagerInit == /\ task[Init0].at = "wait" /\ op["risk"].at = "done"
                    /\ task' = [task EXCEPT ![Init0].todo = Startup,
                                            ![Init0].at = IF Startup = {} THEN "ended" ELSE "reuse"]
                    /\ UNCHANGED <<configVars, loaded, use, busy, ask, kit, msgs, kept>>

NextModel(r) == LET rest == task[r].todo \ {Wanted(r)}
                IN task' = [task EXCEPT ![r].todo = rest, ![r].at = IF rest = {} THEN "ended" ELSE "reuse"]

ServicePublished == up /\ task[Init0].at = "ended"

Uses(r) == use' = [use EXCEPT ![Model[r]] = @ + 1]

(* GetResult looks the model up and counts itself as a user of it.  A model that starts on  *)
(* demand is initialized first; any other is there already, or there is no result.          *)
GetResult(r) ==
    /\ task[r].at = "enter" /\ ForResult(r)
    /\ \/ ~GetModelConfig(Model[r]) /\ Ends(r, "unknown") /\ UNCHANGED use
       \/ /\ GetModelConfig(Model[r]) /\ Unlocked /\ Uses(r)
          /\ LET demand == mem["model"][Model[r]] = "demand"
             IN task' = [task EXCEPT ![r].demand = demand, ![r].at = IF demand THEN "reuse" ELSE "use"]
    /\ UNCHANGED <<configVars, loaded, busy, ask, kit, msgs, kept>>

StartSecurityModel(r) == /\ task[r].at = "enter" /\ Api[r] = "start" /\ Unlocked
                         /\ Uses(r) /\ At(r, "reuse")
                         /\ UNCHANGED <<configVars, loaded, busy, ask, kit, msgs, kept>>

SubscribeResult(r) == /\ task[r].at = "enter" /\ Api[r] = "listen" /\ Unlocked
                      /\ Uses(r) /\ At(r, "reuse")
                      /\ UNCHANGED <<configVars, loaded, busy, ask, kit, msgs, kept>>

(* ReuseModelIfInUse: a model in use is kept; one that is not is unloaded, to be loaded again. *)
ReuseModelIfInUse(r) ==
    /\ task[r].at = "reuse" /\ Unlocked
    /\ LET m == Wanted(r)
       IN IF loaded[m] /\ use[m] > 0 THEN At(r, "use") /\ UNCHANGED <<loaded, kept>>
          ELSE /\ At(r, "load")
               /\ loaded' = [loaded EXCEPT ![m] = FALSE]
               /\ kept' = [kept EXCEPT ![m] = @ /\ ~loaded[m]]
    /\ UNCHANGED <<configVars, use, busy, ask, kit, msgs>>

(* The configuration is looked up again, the library opened and its model initialized; any *)
(* of it may fail.  Two calls that find no model both get here.                            *)
LoadModelLib(r) ==
    /\ task[r].at = "load"
    /\ LET m == Wanted(r)
       IN \/ GetModelConfig(m) /\ At(r, "put") /\ UNCHANGED <<faults, kept>>
          \/ /\ ~GetModelConfig(m) \/ Fault("load")
             /\ Blame(GetModelConfig(m))
             /\ kept' = [kept EXCEPT ![m] = TRUE]
             /\ IF r = Init0 THEN NextModel(r) ELSE task' = [task EXCEPT ![r].at = "drop", ![r].ret = "failed"]
    /\ UNCHANGED <<plan, up, fileVars, mem, tables, op, dirty, starts, loaded, use, busy, ask, kit, msgs>>

(* The map takes the model; the one a faster call has put there goes without its Release. *)
PutModel(r) ==
    /\ task[r].at = "put" /\ Unlocked
    /\ loaded' = [loaded EXCEPT ![Wanted(r)] = TRUE]
    /\ kept' = [kept EXCEPT ![Wanted(r)] = @ \/ r = Init0]
    /\ IF r = Init0 THEN NextModel(r) ELSE At(r, "use")
    /\ UNCHANGED <<configVars, use, busy, ask, kit, msgs>>

(* The model works under the lock.  How long is its own affair. *)
UseModel(r) ==
    /\ task[r].at = "use" /\ Unlocked /\ r # Init0
    /\ IF loaded[Model[r]] THEN busy' = r /\ At(r, "busy")
       ELSE task' = [task EXCEPT ![r].at = "drop", ![r].ret = "unknown"] /\ UNCHANGED busy
    /\ kept' = [kept EXCEPT ![Model[r]] = @ \/ ~task[r].demand]
    /\ UNCHANGED <<configVars, loaded, use, ask, kit, msgs>>

ModelReturns(r) ==
    /\ task[r].at = "busy" /\ busy' = None
    /\ task' = [task EXCEPT ![r].at = "drop", ![r].ret = "result"]
    /\ UNCHANGED <<configVars, loaded, use, ask, kit, msgs, kept>>

(* A call that has failed to initialize the model releases nothing. *)
AfterDrop(r) == IF task[r].demand /\ task[r].ret # "failed" THEN "release" ELSE "ended"

DropModelUse(r) ==
    /\ task[r].at = "drop" /\ Unlocked
    /\ use' = [use EXCEPT ![Model[r]] = @ - 1]
    /\ At(r, AfterDrop(r))
    /\ UNCHANGED <<configVars, loaded, busy, ask, kit, msgs, kept>>

(* Mutant: The model is released whoever uses it. *)
InUse_Never(m) == FALSE

(* The model has a user, and stays. *)
InUse(m) == use[m] > 0

Release(r) ==
    /\ task[r].at = "release" /\ Unlocked
    /\ LET m == Model[r]
       IN IF InUse(m) THEN UNCHANGED <<loaded, kept>>
          ELSE loaded' = [loaded EXCEPT ![m] = FALSE] /\ kept' = [kept EXCEPT ![m] = FALSE]
    /\ At(r, "ended")
    /\ UNCHANGED <<configVars, use, busy, ask, kit, msgs>>

-------------------------------------------------------------------------------
(* The clients and the service. *)

Answered(r, ret) == ask' = [ask EXCEPT ![r] = [at |-> "back", ret |-> ret]]

(* A request for a result holds the kit's lock from the call on: RequestSecurityModelResultSync *)
(* until its result is there, the asynchronous one, which JavaScript uses too, for the call.    *)
Begin(r) == /\ ask[r].at = "idle" /\ r \in plan.requests /\ Api[r] \in {"sync", "async", "start"}
            /\ IF r \in BadArgs THEN ask' = [ask EXCEPT ![r] = [at |-> "done", ret |-> "BAD_PARAM"]]
               ELSE ask' = [ask EXCEPT ![r].at = "lock"]
            /\ UNCHANGED <<configVars, loaded, use, busy, task, kit, msgs, kept>>

ParseModelRule(r) == r \notin BadArgs
ParseModelId(r) == Model[r] \in Named
NapiGetModelResult(r) ==
    /\ ask[r].at = "idle" /\ r \in plan.requests /\ Api[r] = "js"
    /\ IF ParseModelRule(r) /\ ParseModelId(r) THEN ask' = [ask EXCEPT ![r].at = "lock"]
       ELSE ask' = [ask EXCEPT ![r] = [at |-> "settled", ret |-> "BAD_PARAM"]]
    /\ UNCHANGED <<configVars, loaded, use, busy, task, kit, msgs, kept>>

NoProxy(r) == ~ServicePublished /\ Answered(r, "NULL_OBJECT") /\ UNCHANGED <<task, faults>>
IsCallerHasApiPermission(r) == Fault("request") /\ Answered(r, "NO_PERMISSION") /\ Blame(TRUE) /\ UNCHANGED task

(* The service's task asks no model that is not supported. *)
PushRiskAnalysisTask(r) == IF Model[r] \in Supported THEN At(r, "enter") ELSE Ends(r, "unknown")

RequestSecurityModelResult(r) ==
    /\ ask[r].at = "lock" /\ ForResult(r) /\ kit[Proc[r]] = None
    /\ kit' = [kit EXCEPT ![Proc[r]] = r]
    /\ \/ NoProxy(r)
       \/ ServicePublished /\ IsCallerHasApiPermission(r)
       \/ /\ ServicePublished /\ UNCHANGED faults
          /\ ask' = [ask EXCEPT ![r].at = "call"] /\ PushRiskAnalysisTask(r)
    /\ UNCHANGED <<plan, up, fileVars, mem, tables, op, dirty, starts, loaded, use, busy, msgs, kept>>

(* StartSecurityModel takes no lock in the kit, and has no limit of time. *)
CallStart(r) ==
    /\ ask[r].at = "lock" /\ Api[r] = "start"
    /\ \/ NoProxy(r)
       \/ ServicePublished /\ IsCallerHasApiPermission(r)
       \/ /\ ServicePublished /\ UNCHANGED faults
          /\ ask' = [ask EXCEPT ![r].at = "call"] /\ At(r, "enter")
    /\ UNCHANGED <<plan, up, fileVars, mem, tables, op, dirty, starts, loaded, use, busy, kit, msgs, kept>>

(* A part of the service gives the model a listener. *)
Listen(r) == /\ r \in plan.requests /\ Api[r] = "listen" /\ ask[r].at = "idle" /\ ServicePublished
             /\ ask' = [ask EXCEPT ![r].at = "call"] /\ At(r, "enter")
             /\ UNCHANGED <<configVars, loaded, use, busy, kit, msgs, kept>>

(* The callback, told one way, comes before the answer of the call. *)
Respond(r) == msgs' = msgs \cup {r}

ServiceAnswers(r) ==
    /\ ask[r].at = "call" /\ task[r].at = "ended" /\ ForResult(r)
    /\ Answered(r, "SUCCESS") /\ Respond(r)
    /\ UNCHANGED <<configVars, loaded, use, busy, task, kit, kept>>

(* The other calls return what ModelManager returned. *)
ManagerAnswers(r) ==
    /\ ask[r].at = "call" /\ task[r].at = "ended" /\ ~ForResult(r)
    /\ Answered(r, task[r].ret)
    /\ UNCHANGED <<configVars, loaded, use, busy, task, kit, msgs, kept>>

(* Mutant: The service waits for the task as long as it takes. *)
TimesOut_Never(r) == FALSE

(* The future is not ready when the time is up. *)
TimesOut(r) == ForResult(r) /\ task[r].at # "ended"

(* After 15 seconds the callback is told an empty result, and the call returns TIME_OUT. *)
ServiceTimesOut(r) ==
    /\ ask[r].at = "call" /\ TimesOut(r)
    /\ Answered(r, "TIME_OUT") /\ Respond(r)
    /\ UNCHANGED <<configVars, loaded, use, busy, task, kit, kept>>

Unlock(r) == kit' = [kit EXCEPT ![Proc[r]] = None]
Finish(r, ret) == ask' = [ask EXCEPT ![r] = [at |-> "done", ret |-> ret]]
Waits(r) == Api[r] \in {"sync", "js"}

(* The call has returned.  After a success the synchronous one waits under the lock, *)
(* JavaScript without it.                                                            *)
SyncReturns(r) ==
    /\ ask[r].at = "back" /\ Api[r] = "sync"
    /\ \/ ask[r].ret = "SUCCESS" /\ ask' = [ask EXCEPT ![r].at = "wait"] /\ UNCHANGED kit
       \/ ask[r].ret # "SUCCESS" /\ Finish(r, ask[r].ret) /\ Unlock(r)
    /\ UNCHANGED <<configVars, loaded, use, busy, task, msgs, kept>>

AsyncReturns(r) ==
    /\ ask[r].at = "back" /\ Api[r] = "async"
    /\ Finish(r, ask[r].ret) /\ Unlock(r)
    /\ UNCHANGED <<configVars, loaded, use, busy, task, msgs, kept>>

ExecuteReturns(r) ==
    /\ ask[r].at = "back" /\ Api[r] = "js" /\ Unlock(r)
    /\ IF ask[r].ret = "SUCCESS" THEN ask' = [ask EXCEPT ![r].at = "wait"] ELSE Finish(r, ask[r].ret)
    /\ UNCHANGED <<configVars, loaded, use, busy, task, msgs, kept>>

StartReturns(r) ==
    /\ ask[r].at = "back" /\ ~ForResult(r) /\ Finish(r, ask[r].ret)
    /\ UNCHANGED <<configVars, loaded, use, busy, task, kit, msgs, kept>>

(* JavaScript settles the promise. *)
RequestSecurityModelResultComplete(r) ==
    /\ ask[r].at = "done" /\ Api[r] = "js"
    /\ ask' = [ask EXCEPT ![r].at = "settled"]
    /\ UNCHANGED <<configVars, loaded, use, busy, task, kit, msgs, kept>>

(* The callback runs: it settles the promise of a call that waits, and nobody's otherwise. *)
ResponseSecurityModelResult(r) ==
    /\ r \in msgs /\ (Waits(r) => ask[r].at # "back")
    /\ msgs' = msgs \ {r}
    /\ IF ask[r].at = "wait" THEN Finish(r, "SUCCESS") /\ (IF Api[r] = "sync" THEN Unlock(r) ELSE UNCHANGED kit)
       ELSE UNCHANGED <<ask, kit>>
    /\ UNCHANGED <<configVars, loaded, use, busy, task, kept>>

(* The client's own 15 seconds pass without the callback. *)
ClientTimesOut(r) ==
    /\ ask[r].at = "wait"
    /\ Finish(r, "TIME_OUT")
    /\ IF Api[r] = "sync" THEN Unlock(r) ELSE UNCHANGED kit
    /\ UNCHANGED <<configVars, loaded, use, busy, task, msgs, kept>>

ManagerStep(r) == \/ ReuseModelIfInUse(r) \/ LoadModelLib(r) \/ PutModel(r)
CallStep(r) == GetResult(r) \/ StartSecurityModel(r) \/ SubscribeResult(r)
TaskStep(r) == CallStep(r) \/ ManagerStep(r) \/ UseModel(r) \/ DropModelUse(r) \/ Release(r)
AskStep(r) == \/ Begin(r) \/ NapiGetModelResult(r) \/ RequestSecurityModelResult(r) \/ CallStart(r) \/ Listen(r)
              \/ ServiceAnswers(r) \/ ManagerAnswers(r) \/ ServiceTimesOut(r)
              \/ SyncReturns(r) \/ AsyncReturns(r) \/ ExecuteReturns(r) \/ StartReturns(r)
              \/ RequestSecurityModelResultComplete(r)
              \/ ResponseSecurityModelResult(r) \/ ClientTimesOut(r)
===============================================================================

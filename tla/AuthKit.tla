------------------------------- MODULE AuthKit -------------------------------
(***************************************************************************)
(* The kit of event authorization: AuthEventSubscribeClient, which asks to *)
(* be consulted on events, and AuthProviderSubscribeClient, which asks for *)
(* verdicts.  Each object, a handle here, has a callback, a session in the *)
(* service, and a recovery that makes a new session when the service dies. *)
(*                                                                         *)
(* What the service does with sessions is AuthCoordinator's subject; here  *)
(* it has a table of them, which dies with it, and refuses a second        *)
(* session for one callback.  Both kits check and read under a mutex of    *)
(* theirs, so the early returns are guards.  Delays have no length.        *)
(*                                                                         *)
(* Providers are made by the JavaScript bindings, which pass notices of    *)
(* the status of clients, and answers, to the JavaScript thread through    *)
(* the queue of a thread-safe function.                                    *)
(***************************************************************************)
EXTENDS Naturals, FiniteSets

CONSTANTS Clients,     \* AuthEventSubscribeClient objects
          Providers,   \* AuthProviderSubscribeClient objects
          Events,
          Deleters,    \* threads that may delete a handle
          Retries,     \* length of the table of delays
          MaxLives,    \* bound on the lives of the service
          MaxCalls,    \* bound on the calls of the application
          MaxHandles   \* bound on the handles made

Handles == Clients \union Providers
Recoveries == Handles \X (1 .. MaxLives)

ASSUME KitAssumption ==
    /\ Clients \cap Providers = {}
    /\ Retries \in Nat /\ MaxLives \in Nat \ {0} /\ MaxCalls \in Nat
    /\ MaxHandles \in Nat

VARIABLES
    life, up,      \* the service
    sessions,      \* handles with a session in it
    eventIds,      \* what each session subscribes to
    state,         \* "none", "creating", "live"
    remote,        \* sessionRemote_: the life its session belongs to, 0 for nullptr
    recorded,      \* subscribedEventIds_
    deleted,       \* deleted_
    slot,          \* handles whose callback object holds the user's callback
    push,          \* a binder thread in the callback object: "running" holds notifyMutex_
    watching,      \* handles told of the death of the service
    obits,         \* deaths to be told, with the life that ended
    tsfn,          \* providers whose statusTsfn has not been released
    notice,        \* those with a notice in its queue
    promise,       \* what a request of each is promised: see NapiRequestAuthResult
    pending,       \* providers with a request in the service
    forsaken,      \* history: those whose request died with it
    call, calls,   \* a call of a client; how many were made
    del,           \* deletions
    rec,           \* recoveries
    unseen,        \* history: handles that a death of the service passed by
    gaveUp,        \* history: handles with a recovery that ended without a session
    raced          \* history: handles whose recoveries got in each other's way

service == <<life, up, sessions, eventIds>>
fields  == <<state, remote, recorded, deleted, slot>>
notices == <<watching, obits, unseen>>
history == <<gaveUp, raced>>
status  == <<tsfn, notice>>
request == <<promise, pending, forsaken>>
vars == <<service, fields, push, status, request, notices, call, calls, del, rec, history>>

NoCall == [at |-> "idle", op |-> "none", event |-> {}, life |-> 0]
NoRec == [at |-> "idle", events |-> {}, left |-> 0, life |-> 0]

Init ==
    /\ life = 1 /\ up = TRUE /\ sessions = {} /\ eventIds = [h \in Handles |-> {}]
    /\ state = [h \in Handles |-> "none"] /\ remote = [h \in Handles |-> 0]
    /\ recorded = [h \in Handles |-> {}] /\ deleted = {} /\ slot = Handles
    /\ push = [h \in Handles |-> "idle"] /\ watching = {} /\ obits = {}
    /\ call = [h \in Handles |-> NoCall] /\ calls = 0
    /\ del = [h \in Handles |-> [d \in Deleters |-> [at |-> "idle", life |-> 0]]]
    /\ rec = [r \in Recoveries |-> NoRec]
    /\ tsfn = {} /\ notice = {}
    /\ promise = [p \in Providers |-> "none"] /\ pending = {} /\ forsaken = {}
    /\ unseen = {} /\ gaveUp = {} /\ raced = {}

Reached(l) == up /\ life = l
DropSession(h) == sessions' = sessions \ {h} /\ eventIds' = [eventIds EXCEPT ![h] = {}]

-----------------------------------------------------------------------------
(* The service lives and dies *)

ServiceDies ==
    /\ up /\ up' = FALSE
    /\ sessions' = {} /\ eventIds' = [h \in Handles |-> {}]
    /\ obits' = obits \union (watching \X {life}) /\ watching' = {}
    /\ unseen' = unseen \union {h \in Handles \ watching : state[h] = "live"}
    /\ pending' = {} /\ forsaken' = forsaken \union pending
    /\ UNCHANGED <<life, fields, push, call, calls, del, rec, history, status, promise>>
ServiceStarts ==
    /\ ~up /\ life < MaxLives
    /\ up' = TRUE /\ life' = life + 1
    /\ UNCHANGED <<sessions, eventIds, fields, push, notices, call, calls, del, rec, history, status, request>>

-----------------------------------------------------------------------------
(* CreatClient, CreateProvider: a session is made; then the death of the   *)
(* service is watched, and a failure of that only logged.                  *)

MakeSession(h) ==
    /\ state[h] = "none" /\ up
    /\ Cardinality({k \in Handles : state[k] # "none"}) < MaxHandles
    /\ sessions' = sessions \union {h}
    /\ state' = [state EXCEPT ![h] = "creating"]
    /\ remote' = [remote EXCEPT ![h] = life]
    /\ UNCHANGED <<life, up, eventIds, recorded, deleted, slot, push, notices, call, calls, del, rec,
                   history, request>>
CreatClient(c) == MakeSession(c) /\ UNCHANGED status
CreateProvider(p) == MakeSession(p)
(* The thread-safe function is made first, and released when the kit       *)
(* refuses.                                                                *)
NapiCreateAuthProvider(p) == CreateProvider(p) /\ tsfn' = tsfn \union {p} /\ UNCHANGED notice
SetDeathRecipient(h) ==
    /\ state[h] = "creating"
    /\ state' = [state EXCEPT ![h] = "live"]
    /\ IF Reached(remote[h])
       THEN watching' = watching \union {h} /\ UNCHANGED unseen
       ELSE unseen' = unseen \union {h} /\ UNCHANGED watching
    /\ UNCHANGED <<service, remote, recorded, deleted, slot, push, obits, call, calls, del, rec, history, status, request>>

-----------------------------------------------------------------------------
(* Subscribe and Unsubscribe of a client: the session is read under the    *)
(* mutex, called outside, and the answer recorded under the mutex.         *)

Use(c, op, e) ==
    /\ call[c].at = "idle" /\ calls < MaxCalls /\ calls' = calls + 1
    /\ state[c] = "live" /\ c \notin deleted /\ remote[c] # 0
    /\ call' = [call EXCEPT ![c] = [at |-> "sent", op |-> op, event |-> {e}, life |-> remote[c]]]
    /\ UNCHANGED <<service, fields, push, notices, del, rec, history, status, request>>
Subscribe(c, e) == Use(c, "sub", e)
Unsubscribe(c, e) == Use(c, "unsub", e)

Changed(S, c) == IF call[c].op = "sub" THEN S \union call[c].event ELSE S \ call[c].event
Answered(c) ==
    /\ call[c].at = "sent"
    /\ IF Reached(call[c].life) /\ c \in sessions
       THEN /\ eventIds' = [eventIds EXCEPT ![c] = Changed(@, c)]
            /\ call' = [call EXCEPT ![c].at = "answered"]
       ELSE call' = [call EXCEPT ![c] = NoCall] /\ UNCHANGED eventIds
    /\ UNCHANGED <<life, up, sessions, fields, push, notices, calls, del, rec, history, status, request>>
Record(c) ==
    /\ call[c].at = "answered"
    /\ recorded' = [recorded EXCEPT ![c] = Changed(@, c)]
    /\ call' = [call EXCEPT ![c] = NoCall]
    /\ UNCHANGED <<service, state, remote, deleted, slot, push, notices, calls, del, rec, history, status, request>>

-----------------------------------------------------------------------------
(* The service calls the callback object, which runs the user's callback   *)
(* with notifyMutex_ held, or finds none.                                  *)

OnAuthEvent(h) ==
    /\ push[h] = "idle" /\ h \in sessions
    /\ push' = [push EXCEPT ![h] = "arrived"]
    /\ UNCHANGED <<service, fields, notices, call, calls, del, rec, history, status, request>>
RunCallback(h) ==
    /\ push[h] = "arrived"
    /\ push' = [push EXCEPT ![h] = IF h \in slot THEN "running" ELSE "idle"]
    /\ UNCHANGED <<service, fields, notices, call, calls, del, rec, history, status, request>>
(* The callback of a provider puts the notice into the queue, or finds the *)
(* function closed.                                                        *)
OnClientStatusChangedCallback(h) == notice' = notice \union ({h} \cap tsfn)
CallbackReturns(h) ==
    /\ push[h] = "running"
    /\ push' = [push EXCEPT ![h] = "idle"]
    /\ OnClientStatusChangedCallback(h)
    /\ UNCHANGED <<service, fields, tsfn, request, notices, call, calls, del, rec, history>>
OnClientStatusChangedTsfnCall(p) ==
    /\ p \in notice /\ notice' = notice \ {p}
    /\ UNCHANGED <<service, fields, push, tsfn, request, notices, call, calls, del, rec, history>>

-----------------------------------------------------------------------------
(* A request of a provider, one for each.  Its promise is                  *)
(*   "none"      not made                                                  *)
(*   "waiting"   for the answer of the service, which accepted the request *)
(*   "resolve", "reject"  queued for the JavaScript thread                 *)
(*   "settled"                                                             *)

Promise(p, x) == promise' = [promise EXCEPT ![p] = x]

(* The kit's RequestAuthResult: refused when deleted, or without a session *)
(* that answers.                                                           *)
MayRequest(p) == p \notin deleted /\ remote[p] # 0 /\ Reached(remote[p]) /\ p \in sessions
NapiRequestAuthResult(p) ==
    /\ state[p] = "live" /\ p \in tsfn /\ promise[p] = "none"
    /\ Promise(p, IF MayRequest(p) THEN "waiting" ELSE "reject")
    /\ pending' = IF MayRequest(p) THEN pending \union {p} ELSE pending
    /\ UNCHANGED <<service, fields, push, status, forsaken, notices, call, calls, del, rec, history>>
(* The answer of the service, on a binder thread.  (CallbackGuard is meant *)
(* to reject the promise when the callback object goes without an answer;  *)
(* the callback does not hold it, so nothing settles the promise then.)    *)
OnAuthResultCallback(p) == Promise(p, "resolve")
OnAuthResult(p) ==
    /\ p \in pending /\ pending' = pending \ {p}
    /\ OnAuthResultCallback(p)
    /\ UNCHANGED <<service, fields, push, status, forsaken, notices, call, calls, del, rec, history>>
OnAuthResultTsfnJsCall(p) ==
    /\ promise[p] \in {"resolve", "reject"}
    /\ Promise(p, "settled")
    /\ UNCHANGED <<service, fields, push, status, pending, forsaken, notices, call, calls, del, rec,
                   history>>

-----------------------------------------------------------------------------
(* Release.  A client clears the callback, marks itself deleted as it      *)
(* takes its session, and destroys it.  A provider marks itself first, so  *)
(* that a second deletion returns at once; then it reads its session,      *)
(* clears the callback and destroys the session.                           *)

Stage(h, d, at) == del[h][d].at = at
Then(h, d, at) == del' = [del EXCEPT ![h][d].at = at]

Release(c, d) ==
    /\ state[c] = "live" /\ Stage(c, d, "idle")
    /\ Then(c, d, "clear")
    /\ UNCHANGED <<service, fields, push, notices, call, calls, rec, history, status, request>>
DeleteProvider(p, d) ==
    /\ state[p] = "live" /\ Stage(p, d, "idle")
    /\ Then(p, d, IF p \in deleted THEN "returned" ELSE "read")
    /\ deleted' = deleted \union {p}
    /\ UNCHANGED <<service, state, remote, recorded, slot, push, notices, call, calls, rec, history, status, request>>
ReadSession(p, d) ==
    /\ Stage(p, d, "read")
    /\ del' = [del EXCEPT ![p][d] = [at |-> "clear", life |-> remote[p]]]
    /\ UNCHANGED <<service, fields, push, notices, call, calls, rec, history, status, request>>
(* Mutant: the callback is cleared without notifyMutex_. *)
ClearCallBack_NoWait(h, d) ==
    /\ Stage(h, d, "clear")
    /\ slot' = slot \ {h}
    /\ Then(h, d, IF h \in Clients THEN "mark" ELSE "destroy")
    /\ UNCHANGED <<service, state, remote, recorded, deleted, push, notices, call, calls, rec, history, status, request>>

ClearCallBack(h, d) ==
    /\ Stage(h, d, "clear") /\ push[h] # "running"
    /\ slot' = slot \ {h}
    /\ Then(h, d, IF h \in Clients THEN "mark" ELSE "destroy")
    /\ UNCHANGED <<service, state, remote, recorded, deleted, push, notices, call, calls, rec, history, status, request>>
MarkDeleted(c, d) ==
    /\ Stage(c, d, "mark")
    /\ deleted' = deleted \union {c}
    /\ remote' = [remote EXCEPT ![c] = 0]
    /\ del' = [del EXCEPT ![c][d] = [at |-> "destroy", life |-> remote[c]]]
    /\ UNCHANGED <<service, state, recorded, slot, push, notices, call, calls, rec, history, status, request>>

DestroySession(h, d) ==
    /\ Stage(h, d, "destroy")
    /\ IF Reached(del[h][d].life) THEN DropSession(h) ELSE UNCHANGED <<sessions, eventIds>>
    /\ Then(h, d, "done")
DestroyRemoteObjects(c, d) ==
    /\ DestroySession(c, d)
    /\ watching' = watching \ {c}
    /\ UNCHANGED <<life, up, fields, push, obits, unseen, call, calls, rec, history, status, request>>

(* The death recipient of a provider was added to the service, and is      *)
(* removed from the session, where it is not.                              *)
DestroyProviderObjects(p, d) ==
    /\ DestroySession(p, d)
    /\ remote' = [remote EXCEPT ![p] = 0]
    /\ UNCHANGED <<life, up, state, recorded, deleted, slot, push, notices, call, calls, rec, history, status, request>>

(* destroyAuthProvider and the finalizer of the object delete the provider *)
(* and then release the thread-safe function, which drops what is queued.  *)
ReleaseTsfn(p) == tsfn' = tsfn \ {p} /\ notice' = notice \ {p}
NapiDestroyAuthProvider(p, d) ==
    /\ Stage(p, d, "done")
    /\ Then(p, d, "freed")
    /\ ReleaseTsfn(p)
    /\ UNCHANGED <<service, fields, push, request, notices, call, calls, rec, history>>

-----------------------------------------------------------------------------
(* Recovery *)

(* A notice handled while a call waits to be recorded, or another recovery *)
(* is between two of its delays or remembers other events, or after that   *)
(* one has succeeded.                                                      *)
InMidStep(h, l) ==
    \/ call[h].at = "answered"
    \/ \E m \in 1 .. MaxLives : rec[<<h, m>>].at = "wait" /\ rec[<<h, m>>].events # recorded[h]
    \/ \E m \in 1 .. MaxLives : rec[<<h, m>>].at \in {"create", "switch", "again"}
    \/ remote[h] > l

(* Mutant: the record is cleared before it is copied. *)
HandleDeath_ForgetsFirst(h, l) ==
    /\ <<h, l>> \in obits /\ obits' = obits \ {<<h, l>>}
    /\ rec' = [rec EXCEPT ![<<h, l>>] =
                 [at |-> "wait", events |-> {}, left |-> Retries, life |-> 0]]
    /\ remote' = IF h \in Clients THEN [remote EXCEPT ![h] = 0] ELSE remote
    /\ raced' = IF InMidStep(h, l) THEN raced \union {h} ELSE raced
    /\ UNCHANGED <<service, state, recorded, deleted, slot, push, watching, unseen, call, calls, del,
                   gaveUp, status, request>>

(* A client copies its record and forgets its session; a provider has      *)
(* nothing to copy and keeps the dead session.                             *)
HandleDeath(h, l) ==
    /\ <<h, l>> \in obits /\ obits' = obits \ {<<h, l>>}
    /\ rec' = [rec EXCEPT ![<<h, l>>] =
                 [at |-> "wait", events |-> recorded[h], left |-> Retries, life |-> 0]]
    /\ remote' = IF h \in Clients THEN [remote EXCEPT ![h] = 0] ELSE remote
    /\ raced' = IF InMidStep(h, l) THEN raced \union {h} ELSE raced
    /\ UNCHANGED <<service, state, recorded, deleted, slot, push, watching, unseen, call, calls, del,
                   gaveUp, status, request>>

Fail(r) == rec' = [rec EXCEPT ![r].at = "wait", ![r].left = @ - 1]

(* After a delay the service is looked up; a client watches it at once.    *)
Attempt(r) ==
    /\ rec[r].at = "wait"
    /\ IF r[1] \in deleted
       THEN rec' = [rec EXCEPT ![r] = NoRec] /\ UNCHANGED <<watching, gaveUp>>
       ELSE IF rec[r].left = 0
       THEN /\ rec' = [rec EXCEPT ![r] = NoRec]
            /\ gaveUp' = IF r[1] \in sessions THEN gaveUp ELSE gaveUp \union {r[1]}
            /\ UNCHANGED watching
       ELSE IF ~up
       THEN Fail(r) /\ UNCHANGED <<watching, gaveUp>>
       ELSE /\ rec' = [rec EXCEPT ![r].at = "create", ![r].life = life]
            /\ watching' = IF r[1] \in Clients THEN watching \union {r[1]} ELSE watching
            /\ UNCHANGED gaveUp
    /\ UNCHANGED <<service, fields, push, obits, unseen, call, calls, del, raced, status, request>>

CreateAgain(r) ==
    /\ rec[r].at = "create"
    /\ IF Reached(rec[r].life) /\ r[1] \notin sessions
       THEN /\ sessions' = sessions \union {r[1]}
            /\ rec' = [rec EXCEPT ![r].at = "switch"]
       ELSE Fail(r) /\ UNCHANGED sessions
    /\ UNCHANGED <<life, up, eventIds, fields, push, notices, call, calls, del, history, status, request>>

(* A client deleted meanwhile has the new session destroyed; a provider    *)
(* leaves it.  SetDeathRecipient does nothing for a provider that has its  *)
(* recipient already.                                                      *)
Switched(r) ==
    /\ r[1] \notin deleted
    /\ remote' = [remote EXCEPT ![r[1]] = rec[r].life]
    /\ raced' = IF remote[r[1]] > rec[r].life THEN raced \union {r[1]} ELSE raced
    /\ rec' = [rec EXCEPT ![r].at = "again"]
    /\ UNCHANGED <<sessions, eventIds>>
(* Mutant: a client leaves the new session too, as a provider does. *)
SwitchSessionRemote_Leaves(r) ==
    /\ rec[r].at = "switch" /\ r[1] \in Clients
    /\ \/ Switched(r)
       \/ /\ r[1] \in deleted
          /\ rec' = [rec EXCEPT ![r] = NoRec]
          /\ UNCHANGED <<sessions, eventIds>>
          /\ UNCHANGED <<remote, raced>>
    /\ UNCHANGED <<life, up, state, recorded, deleted, slot, push, notices, call, calls, del, gaveUp, status, request>>

SwitchSessionRemote(r) ==
    /\ rec[r].at = "switch" /\ r[1] \in Clients
    /\ \/ Switched(r)
       \/ /\ r[1] \in deleted
          /\ rec' = [rec EXCEPT ![r] = NoRec]
          /\ IF Reached(rec[r].life) THEN DropSession(r[1]) ELSE UNCHANGED <<sessions, eventIds>>
          /\ UNCHANGED <<remote, raced>>
    /\ UNCHANGED <<life, up, state, recorded, deleted, slot, push, notices, call, calls, del, gaveUp, status, request>>
RecoverSession(r) ==
    /\ rec[r].at = "switch" /\ r[1] \in Providers
    /\ \/ Switched(r)
       \/ r[1] \in deleted /\ Fail(r) /\ UNCHANGED <<sessions, eventIds, remote, raced>>
    /\ UNCHANGED <<life, up, state, recorded, deleted, slot, push, notices, call, calls, del, gaveUp, status, request>>

Resubscribe(r, e) ==
    /\ rec[r].at = "again" /\ e \in rec[r].events
    /\ rec' = [rec EXCEPT ![r].events = @ \ {e}]
    /\ eventIds' = IF Reached(rec[r].life) /\ r[1] \in sessions
                   THEN [eventIds EXCEPT ![r[1]] = @ \union {e}] ELSE eventIds
    /\ UNCHANGED <<life, up, sessions, fields, push, notices, call, calls, del, history, status, request>>
Recovered(r) ==
    /\ rec[r].at = "again" /\ rec[r].events = {}
    /\ rec' = [rec EXCEPT ![r] = NoRec]
    /\ UNCHANGED <<service, fields, push, notices, call, calls, del, history, status, request>>

-----------------------------------------------------------------------------
Next ==
    \/ ServiceDies \/ ServiceStarts
    \/ \E h \in Handles : SetDeathRecipient(h)
    \/ \E c \in Clients : CreatClient(c) \/ Answered(c) \/ Record(c)
    \/ \E p \in Providers : NapiCreateAuthProvider(p) \/ OnClientStatusChangedTsfnCall(p)
          \/ NapiRequestAuthResult(p) \/ OnAuthResult(p) \/ OnAuthResultTsfnJsCall(p)
    \/ \E c \in Clients, e \in Events : Subscribe(c, e) \/ Unsubscribe(c, e)
    \/ \E h \in Handles : OnAuthEvent(h) \/ RunCallback(h) \/ CallbackReturns(h)
    \/ \E h \in Handles, d \in Deleters : ClearCallBack(h, d)
    \/ \E c \in Clients, d \in Deleters :
          Release(c, d) \/ MarkDeleted(c, d) \/ DestroyRemoteObjects(c, d)
    \/ \E p \in Providers, d \in Deleters :
          DeleteProvider(p, d) \/ ReadSession(p, d) \/ DestroyProviderObjects(p, d)
             \/ NapiDestroyAuthProvider(p, d)
    \/ \E r \in Recoveries : HandleDeath(r[1], r[2]) \/ Attempt(r) \/ CreateAgain(r)
                                \/ SwitchSessionRemote(r) \/ RecoverSession(r) \/ Recovered(r)
    \/ \E r \in Recoveries, e \in Events : Resubscribe(r, e)

Spec == Init /\ [][Next]_vars

-----------------------------------------------------------------------------
(* Properties *)

AtRest(h) ==
    /\ call[h].at = "idle"
    /\ \A l \in 1 .. MaxLives : rec[<<h, l>>] = NoRec /\ <<h, l>> \notin obits

(* A handle that was told of every death of the service has, when nothing  *)
(* is under way, its session in the running service, and a client all it   *)
(* recorded, with recoveries of two deaths overlapping each other and the  *)
(* calls; unless a recovery gave up, or a notice of death was handled in   *)
(* the middle of another attempt, beside a recovery that remembers other   *)
(* events or before a call was recorded, or a recovery put an old session  *)
(* over a new one.  And a promise that waits has its request in the        *)
(* service, unless the service died with it.                               *)
KitServed ==
    /\ \A p \in Providers \ forsaken : promise[p] = "waiting" => p \in pending
    /\ \A h \in Handles :
        state[h] = "live" /\ h \notin deleted /\ AtRest(h) /\ up
            /\ h \notin unseen \union gaveUp \union raced
        => h \in sessions /\ remote[h] = life /\ recorded[h] \subseteq eventIds[h]

Deleted(h, d) == del[h][d].at \in {"done", "freed"}

(* A deleted client has no session left in the service, even one that a    *)
(* recovery was making as it was deleted; nor has a provider deleted       *)
(* before the service first died.                                          *)
DeletedGone ==
    \A h \in Handles :
        /\ h \in Clients \ raced \/ life = 1
        /\ AtRest(h)
        /\ \E d \in Deleters : Deleted(h, d)
        /\ \A d \in Deleters : del[h][d].at \in {"idle", "returned", "done", "freed"}
        => h \notin sessions

(* When a deletion has returned, the user's callback does not run and will *)
(* not, so what it uses may be freed; except for a provider's deletion     *)
(* that found another one at work.  Nor does JavaScript hear of clients    *)
(* once destroyAuthProvider has returned.                                  *)
QuietAfterDelete ==
    \A h \in Handles, d \in Deleters :
        /\ Deleted(h, d) => push[h] # "running"
        /\ Stage(h, d, "freed") => h \notin notice
=============================================================================

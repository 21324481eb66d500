--------------------------- MODULE AuthCoordinator ---------------------------
(***************************************************************************)
(* The requests of AuthCoordinator: a provider asks for a verdict on an    *)
(* event, the clients subscribed to the event are asked, and their answers *)
(* are merged, the strictest winning, until all have answered, one denies, *)
(* or the time is up.                                                      *)
(*                                                                         *)
(* Each request accepted runs in a task of its own (ProcessAuthResultAsync)*)
(* beside the IPC threads on which clients answer (SetAuthResult).  What   *)
(* the two share is the routing context, under ctxMutex, and the routes    *)
(* from a client's sequence numbers to contexts, under the shard mutexes.  *)
(* The length of the wait is not modelled: from its first moment to its    *)
(* last it may end, or an answer may come before it does.                  *)
(***************************************************************************)
EXTENDS AuthRegistry

CONSTANTS
    Requests,       \* the requests
    RequestOf,      \* the provider and the event of each, as a record
    Strategy,       \* each client's strategy when it is late, "ALLOW" or "DENY"
    MaxRequests,    \* MAX_AUTH_REQUEST_CONCURRENT_PER_PROVIDER
    MaxResults,     \* MAX_AUTH_EVENT_RESULT_SIZE
    Nil

Seqnums == 1 .. Cardinality(Requests)

ASSUME CoordinatorAssumption ==
    /\ IsFiniteSet(Requests)
    /\ RequestOf \in [Requests -> [provider : Providers, event : Events]]
    /\ Strategy \in [Clients -> {"ALLOW", "DENY"}]
    /\ MaxRequests \in Nat /\ MaxResults \in Nat
    /\ Nil \notin Requests \cup Clients

VARIABLES
    seqnumCounter,      \* seqnumCounter_ of each client session
    activeRequestCount, \* activeRequestCount_ of each provider session
    authResults,        \* the keys of authResults_
    seqnumToCtx,        \* the shards, as one: [client -> [number -> request]]
    ctx,                \* the routing context of each request
    task,               \* the task of each request: where it is, and its locals
    inbox,              \* the events pushed to each client, which it may answer, and
                        \* answer again
    answering,          \* the answer each client is giving
    told,               \* how often the provider has been told of each request
    drew,               \* history: the number each request drew at each client, 0 for none
    recounted,          \* history: the requests under way that have counted two answers
                        \* of one client
    crossed             \* history: for each request under way, the clients whose answer
                        \* to another request it has counted

requestVars == <<seqnumCounter, activeRequestCount, authResults, seqnumToCtx, ctx, task,
                 inbox, answering, told, drew, recounted, crossed>>
historyVars == <<drew, recounted, crossed>>
vars == <<registryVars, requestVars>>

Verdicts == {"ALLOW", "DENY"}
NoResults == [c \in Clients |-> "none"]

(* RoutingContext: the clients asked (the keys of clientTimeoutStrategies), *)
(* with their numbers; the two counters; clientResults; completed and       *)
(* resultPromiseSatisfied, which are set together; mergedAuthStrategy.      *)
NewContext == [asked |-> {}, number |-> [c \in Clients |-> 0],
               sentClientCount |-> 0, defaultDenyCount |-> 0,
               clientResults |-> NoResults, completed |-> FALSE, merged |-> "ALLOW"]

(* degraded: the clients the provider lists as degraded; todo: the sessions *)
(* still to visit; client and seen: whose counter was read, and its value.  *)
NewTask == [pc |-> "new", degraded |-> {}, todo |-> {}, client |-> Nil, seen |-> 0]

ProviderOf(r) == RequestOf[r].provider
EventOf(r) == RequestOf[r].event

Init ==
    /\ RegistryInit
    /\ seqnumCounter = [c \in Clients |-> 0]
    /\ activeRequestCount = [p \in Providers |-> 0]
    /\ authResults = {}
    /\ seqnumToCtx = [c \in Clients |-> [s \in Seqnums |-> Nil]]
    /\ ctx = [r \in Requests |-> NewContext]
    /\ task = [r \in Requests |-> NewTask]
    /\ inbox = [c \in Clients |-> {}]
    /\ answering = [c \in Clients |-> Nil]
    /\ told = [r \in Requests |-> 0]
    /\ drew = [c \in Clients |-> [r \in Requests |-> 0]]
    /\ recounted = {}
    /\ crossed = [r \in Requests |-> {}]

At(r, label) == task[r].pc = label

Goto(r, label) == task' = [task EXCEPT ![r].pc = label]

-----------------------------------------------------------------------------
(* RequestAuthResult: the count goes up, then the provider is looked up.    *)

TryIncrementActiveRequest(p) ==
    /\ activeRequestCount[p] < MaxRequests
    /\ activeRequestCount' = [activeRequestCount EXCEPT ![p] = @ + 1]

DecrementActiveRequest(p) ==
    activeRequestCount' = [activeRequestCount EXCEPT ![p] = IF @ > 0 THEN @ - 1 ELSE @]

RequestAuthResult(r, D) ==
    LET p == ProviderOf(r)
    IN  /\ At(r, "new") /\ Calls(p) /\ p \in providerSessions
        /\ TryIncrementActiveRequest(p)
        /\ task' = [task EXCEPT ![r].pc = "find", ![r].degraded = D]
        /\ UNCHANGED <<registryVars, seqnumCounter, authResults, seqnumToCtx, ctx, inbox,
                       answering, told, historyVars>>

(* Mistake: the count is not taken back. *)
FindProviderLocked_NoRollback(r) ==
    /\ At(r, "find")
    /\ Goto(r, IF ProviderOf(r) \in providerSessions THEN "start" ELSE "refused")
    /\ UNCHANGED <<registryVars, activeRequestCount, seqnumCounter, authResults, seqnumToCtx,
                   ctx, inbox, answering, told, historyVars>>

FindProviderLocked(r) ==
    /\ At(r, "find")
    /\ IF ProviderOf(r) \in providerSessions
       THEN Goto(r, "start") /\ UNCHANGED activeRequestCount
       ELSE Goto(r, "refused") /\ DecrementActiveRequest(ProviderOf(r))
    /\ UNCHANGED <<registryVars, seqnumCounter, authResults, seqnumToCtx, ctx, inbox,
                   answering, told, historyVars>>

-----------------------------------------------------------------------------
(* ProcessAuthResultAsync and DispatchEventToClients. *)

(* A provider gone by now gets "ALLOW"; otherwise GetSubscribedSessions     *)
(* lists the sessions to visit.                                             *)
ProcessAuthResultAsync(r) ==
    /\ At(r, "start")
    /\ IF ProviderOf(r) \in providerSessions
       THEN task' = [task EXCEPT ![r].pc = "dispatch",
                                 ![r].todo = {c \in sessions : EventOf(r) \in eventIds[c]}]
       ELSE Goto(r, "notify")
    /\ UNCHANGED <<registryVars, seqnumCounter, activeRequestCount, authResults, seqnumToCtx,
                   ctx, inbox, answering, told, historyVars>>

(* One session of the list: skipped when it has become invalid; otherwise   *)
(* GenerateSeqnum begins.  Its ++ is on a plain integer, with no lock: a    *)
(* read, and later a write, between which other tasks read and write.       *)
VisitClient(r, c) ==
    /\ At(r, "dispatch") /\ c \in task[r].todo
    /\ IF c \in sessions
       THEN task' = [task EXCEPT ![r].pc = "number", ![r].client = c,
                                 ![r].seen = seqnumCounter[c]]
       ELSE task' = [task EXCEPT ![r].todo = @ \ {c}]
    /\ UNCHANGED <<registryVars, seqnumCounter, activeRequestCount, authResults, seqnumToCtx,
                   ctx, inbox, answering, told, historyVars>>

Push(c, r, n) ==
    inbox' = IF Alive(c) THEN [inbox EXCEPT ![c] = @ \cup {[request |-> r, seqnum |-> n]}]
                         ELSE inbox

VisitDone(r) ==
    task' = [task EXCEPT ![r].pc = "dispatch", ![r].todo = @ \ {task[r].client},
                         ![r].client = Nil, ![r].seen = 0]

(* NotifyDegradedClient: told of the event, and not counted. *)
NotifyDegradedClient(r) ==
    LET c == task[r].client
        n == task[r].seen + 1
    IN  /\ At(r, "number") /\ c \in task[r].degraded
        /\ seqnumCounter' = [seqnumCounter EXCEPT ![c] = n]
        /\ drew' = [drew EXCEPT ![c][r] = n]
        /\ Push(c, r, n)
        /\ VisitDone(r)
        /\ UNCHANGED <<registryVars, activeRequestCount, authResults, seqnumToCtx, ctx,
                       answering, told, recounted, crossed>>

(* RegisterNormalClient, up to the route that lets the client's answers in. *)
RegisterNormalClient(r) ==
    LET c == task[r].client
        n == task[r].seen + 1
    IN  /\ At(r, "number") /\ c \notin task[r].degraded
        /\ seqnumCounter' = [seqnumCounter EXCEPT ![c] = n]
        /\ drew' = [drew EXCEPT ![c][r] = n]
        /\ ctx' = [ctx EXCEPT
                     ![r].asked = @ \cup {c},
                     ![r].number = [@ EXCEPT ![c] = n],
                     ![r].sentClientCount = @ + 1,
                     ![r].defaultDenyCount = IF Strategy[c] = "DENY" THEN @ + 1 ELSE @]
        /\ seqnumToCtx' = [seqnumToCtx EXCEPT ![c][n] = r]
        /\ VisitDone(r)
        /\ UNCHANGED <<registryVars, activeRequestCount, authResults, inbox, answering,
                       told, recounted, crossed>>

(* Nobody to ask: "ALLOW". *)
Dispatched(r) ==
    /\ At(r, "dispatch") /\ task[r].todo = {}
    /\ IF ctx[r].asked = {}
       THEN Goto(r, "notify")
       ELSE task' = [task EXCEPT ![r].pc = "push", ![r].todo = ctx[r].asked]
    /\ UNCHANGED <<registryVars, seqnumCounter, activeRequestCount, authResults, seqnumToCtx,
                   ctx, inbox, answering, told, historyVars>>

(* Mistake: the event carries the number the counter has come to. *)
PushEventToClient_Latest(r, c) ==
    /\ At(r, "push") /\ c \in task[r].todo
    /\ Push(c, r, seqnumCounter[c])
    /\ task' = [task EXCEPT ![r].todo = @ \ {c},
                            ![r].pc = IF task[r].todo = {c} THEN "wait" ELSE "push"]
    /\ UNCHANGED <<registryVars, seqnumCounter, activeRequestCount, authResults, seqnumToCtx,
                   ctx, answering, told, historyVars>>

(* PushEventsToClients, one client after the other. *)
PushEventToClient(r, c) ==
    /\ At(r, "push") /\ c \in task[r].todo
    /\ Push(c, r, ctx[r].number[c])
    /\ task' = [task EXCEPT ![r].todo = @ \ {c},
                            ![r].pc = IF task[r].todo = {c} THEN "wait" ELSE "push"]
    /\ UNCHANGED <<registryVars, seqnumCounter, activeRequestCount, authResults, seqnumToCtx,
                   ctx, answering, told, historyVars>>

-----------------------------------------------------------------------------
(* WaitForCompletion and HandleTimeout. *)

(* Mistake: wait() for wait_for(). *)
WaitForCompletion_ForEver(r) ==
    /\ At(r, "wait") /\ ctx[r].completed
    /\ Goto(r, "build")
    /\ UNCHANGED <<registryVars, seqnumCounter, activeRequestCount, authResults, seqnumToCtx,
                   ctx, inbox, answering, told, historyVars>>

(* The promise is kept, or the time is up before it is. *)
WaitForCompletion(r) ==
    /\ At(r, "wait")
    /\ Goto(r, IF ctx[r].completed THEN "build" ELSE "timeout")
    /\ UNCHANGED <<registryVars, seqnumCounter, activeRequestCount, authResults, seqnumToCtx,
                   ctx, inbox, answering, told, historyVars>>

Pending(r) == {c \in ctx[r].asked : ctx[r].clientResults[c] = "none"}

(* HandleTimeoutClient for each client that has not answered, under         *)
(* ctxMutex; "ALLOW" if nothing has completed the request.                  *)
TimeoutResult(c) == IF Strategy[c] = "DENY" THEN "DENY" ELSE "TIMEOUT"

(* Mistake: whoever is late is taken to agree. *)
HandleTimeout_AllowsAll(r) ==
    /\ At(r, "timeout")
    /\ ctx' = [ctx EXCEPT
                 ![r].clientResults = [c \in Clients |-> IF c \in Pending(r) THEN TimeoutResult(c)
                                                                          ELSE @[c]],
                 ![r].completed = TRUE]
    /\ Goto(r, "build")
    /\ UNCHANGED <<registryVars, seqnumCounter, activeRequestCount, authResults, seqnumToCtx,
                   inbox, answering, told, historyVars>>

HandleTimeout(r) ==
    /\ At(r, "timeout")
    /\ ctx' = [ctx EXCEPT
                 ![r].clientResults = [c \in Clients |-> IF c \in Pending(r) THEN TimeoutResult(c)
                                                                          ELSE @[c]],
                 ![r].merged = IF \E c \in Pending(r) : Strategy[c] = "DENY" THEN "DENY"
                               ELSE IF ctx[r].completed THEN @ ELSE "ALLOW",
                 ![r].completed = TRUE]
    /\ Goto(r, "build")
    /\ UNCHANGED <<registryVars, seqnumCounter, activeRequestCount, authResults, seqnumToCtx,
                   inbox, answering, told, historyVars>>

(* BuildAuthResult, and the routes erased by their keys.  The context is    *)
(* complete, so what it says no longer changes.                             *)
BuildAuthResult(r) ==
    /\ At(r, "build")
    /\ seqnumToCtx' = [c \in Clients |->
                         IF c \in ctx[r].asked
                         THEN [seqnumToCtx[c] EXCEPT ![ctx[r].number[c]] = Nil]
                         ELSE seqnumToCtx[c]]
    /\ Goto(r, "notify")
    /\ UNCHANGED <<registryVars, seqnumCounter, activeRequestCount, authResults, ctx, inbox,
                   answering, told, historyVars>>

(* NotifyAuthResult, and the guard that counts the request out.  The        *)
(* context goes; an answer on its way still finds it completed.             *)
Finished == [NewContext EXCEPT !.completed = TRUE]

NotifyAuthResult(r) ==
    /\ At(r, "notify")
    /\ told' = [told EXCEPT ![r] = @ + 1]
    /\ DecrementActiveRequest(ProviderOf(r))
    /\ task' = [task EXCEPT ![r] = [NewTask EXCEPT !.pc = "done"]]
    /\ ctx' = [ctx EXCEPT ![r] = Finished]
    /\ recounted' = recounted \ {r}
    /\ crossed' = [crossed EXCEPT ![r] = {}]
    /\ UNCHANGED <<registryVars, seqnumCounter, authResults, seqnumToCtx, inbox, answering,
                   drew>>

-----------------------------------------------------------------------------
(* SetAuthResult.  The manager keeps the answer by event id and never       *)
(* forgets one: at its limit the answer to a new event id goes no further.  *)
(* Then the route is looked up; and what it leads to stays good while the   *)
(* task goes on and erases the route.  Nothing tells a second answer to an  *)
(* event from the first.                                                    *)

RouteOf(c, m) == seqnumToCtx[c][m.seqnum]

SetAuthResult(c, m, v) ==
    /\ Calls(c) /\ c \in sessions /\ answering[c] = Nil /\ m \in inbox[c]
    /\ IF EventOf(m.request) \in authResults \/ Cardinality(authResults) < MaxResults
       THEN /\ authResults' = authResults \cup {EventOf(m.request)}
            /\ answering' = [answering EXCEPT ![c] =
                               IF RouteOf(c, m) = Nil THEN Nil
                               ELSE [request |-> RouteOf(c, m), about |-> m.request,
                                     verdict |-> v]]
       ELSE UNCHANGED <<authResults, answering>>
    /\ UNCHANGED <<registryVars, seqnumCounter, activeRequestCount, seqnumToCtx, ctx, task,
                   inbox, told, historyVars>>

(* DecrementCounters, then EvaluateStrictPolicy. *)
Decrement(n) == IF n > 0 THEN n - 1 ELSE n

SentAfter(r) == Decrement(ctx[r].sentClientCount)

DenyAfter(r, c) ==
    IF Strategy[c] = "DENY" THEN Decrement(ctx[r].defaultDenyCount)
                            ELSE ctx[r].defaultDenyCount

EvaluateStrictPolicy(r, c, v) == v = "DENY" \/ (SentAfter(r) = 0 /\ DenyAfter(r, c) = 0)

(* RecordClientResult, under ctxMutex. *)
RecordClientResult(c) ==
    LET r == answering[c].request
        v == answering[c].verdict
    IN  /\ answering[c] # Nil
        /\ IF ctx[r].completed
           THEN UNCHANGED <<ctx, recounted, crossed>>
           ELSE /\ ctx' = [ctx EXCEPT
                             ![r].clientResults = [@ EXCEPT ![c] = v],
                             ![r].sentClientCount = SentAfter(r),
                             ![r].defaultDenyCount = DenyAfter(r, c),
                             ![r].merged = IF EvaluateStrictPolicy(r, c, v) THEN v ELSE @,
                             ![r].completed = EvaluateStrictPolicy(r, c, v)]
                /\ recounted' = IF ctx[r].clientResults[c] = "none" THEN recounted
                                ELSE recounted \cup {r}
                /\ crossed' = IF answering[c].about = r THEN crossed
                              ELSE [crossed EXCEPT ![r] = @ \cup {c}]
        /\ answering' = [answering EXCEPT ![c] = Nil]
        /\ UNCHANGED <<registryVars, seqnumCounter, activeRequestCount, authResults,
                       seqnumToCtx, task, inbox, told, drew>>

-----------------------------------------------------------------------------
TaskStep(r) ==
    \/ FindProviderLocked(r) \/ ProcessAuthResultAsync(r)
    \/ \E c \in Clients : VisitClient(r, c) \/ PushEventToClient(r, c)
    \/ NotifyDegradedClient(r) \/ RegisterNormalClient(r) \/ Dispatched(r)
    \/ WaitForCompletion(r) \/ HandleTimeout(r) \/ BuildAuthResult(r) \/ NotifyAuthResult(r)

Next ==
    \/ RegistryNext /\ UNCHANGED requestVars
    \/ \E r \in Requests : \/ TaskStep(r)
                           \/ \E D \in SUBSET Clients : RequestAuthResult(r, D)
    \/ \E c \in Clients : \/ RecordClientResult(c)
                          \/ \E m \in inbox[c], v \in Verdicts : SetAuthResult(c, m, v)

Spec == Init /\ [][Next]_vars

(* ffrt runs every task submitted to it, each lock is held for a bounded    *)
(* time, wait_for ends by its timeout, and binder delivers each death and   *)
(* each call.  Nothing makes a user call, answer, leave or die.             *)
FairSpec ==
    /\ Spec
    /\ \A r \in Requests : WF_vars(TaskStep(r))
    /\ \A c \in Clients : WF_vars(RecordClientResult(c)) /\ WF_registryVars(ClientStep(c))
    /\ \A p \in Providers : WF_registryVars(ProviderStep(p))

-----------------------------------------------------------------------------

Denied(r) == \E c \in ctx[r].asked : ctx[r].clientResults[c] = "DENY"

(* EvaluateStrictPolicy and HandleTimeout: a request is decided "DENY" when *)
(* a client asked denies, or is late and denies when late, and "ALLOW" when *)
(* none does.  It is decided "ALLOW" only when every client asked has       *)
(* allowed it or was late, unless it has counted two answers of one client, *)
(* or an answer to another request.                                         *)
StrictPolicy ==
    \A r \in Requests : ctx[r].completed =>
        /\ ctx[r].merged = IF Denied(r) THEN "DENY" ELSE "ALLOW"
        /\ ctx[r].merged = "ALLOW" /\ r \notin recounted /\ crossed[r] = {} =>
             \A c \in ctx[r].asked : ctx[r].clientResults[c] # "none"

(* Two tasks in GenerateSeqnum's ++ at once may draw the same number.      *)
SharesNumber(r, c) ==
    drew[c][r] # 0 /\ \E q \in Requests \ {r} : drew[c][q] = drew[c][r]

(* FindRoutingContext: an answer finds the request it is about.  No request *)
(* counts a client's answer to another, unless it shares its number at that *)
(* client.                                                                  *)
AnswersMatch == \A r \in Requests : \A c \in crossed[r] : SharesNumber(r, c)

UnderWay(p) == {r \in Requests : ProviderOf(r) = p /\ task[r].pc \notin {"new", "refused", "done"}}

(* RequestAuthResult and the guard: the count is that of the provider's     *)
(* requests under way, and they are never more than the limit.              *)
ActiveExact == \A p \in Providers : activeRequestCount[p] = Cardinality(UnderWay(p))

Accepted(r) == task[r].pc = "start"

(* NotifyAuthResult: a request that was accepted is answered in the end,    *)
(* and no request is answered twice, whatever its clients and its provider  *)
(* do meanwhile.                                                            *)
RequestAnswered ==
    \A r \in Requests : /\ Accepted(r) ~> told[r] = 1
                        /\ [](told[r] < 2)

(* OnRemoteDied and the rollbacks of the Create operations: whoever is dead *)
(* leaves the tables, and gives its place in the quotas to another.         *)
DeadGone ==
    \A x \in Providers \cup Clients :
        ~Alive(x) ~> x \notin providerSessions \cup sessions

(* NotifyClientStatusChanged: whenever no notice is due or on its way, each *)
(* provider has been sent the clients of its service as they are now.  (An  *)
(* older list may have reached it after that one, from another thread.)     *)
ChangesTold ==
    (~notice /\ \A n \in Notifiers : notifier[n] = Idle) =>
        \A p \in providerSessions : stage[p] = "live" /\ Alive(p) => p \in heard
=============================================================================

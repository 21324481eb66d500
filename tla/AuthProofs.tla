------------------------------ MODULE AuthProofs ------------------------------
(***************************************************************************)
(* That the requests of each provider are counted exactly and never exceed *)
(* the limit, that no request is answered twice, that nothing denied is    *)
(* allowed, that a request counts answers to another only when the two     *)
(* share a number, and that every change of a provider's clients is told,  *)
(* for any number of providers, clients, requests and notifying threads    *)
(* (AuthCoordinator).                                                      *)
(***************************************************************************)
EXTENDS AuthCoordinator, FiniteSetTheorems, TLAPS

Places == {"new", "find", "refused", "start", "dispatch", "number", "push", "wait", "timeout",
           "build", "notify", "done"}

TaskTyped ==
    task \in [Requests -> [pc : Places, degraded : SUBSET Clients, todo : SUBSET Clients,
                           client : Clients \cup {Nil}, seen : Nat]]

(* RequestAuthResult and the guard: each place of a request under way is   *)
(* counted, and the provider is told when the request leaves the count.    *)
ActiveInv ==
    /\ TaskTyped
    /\ activeRequestCount \in [Providers -> Nat]
    /\ ActiveExact
    /\ \A p \in Providers : activeRequestCount[p] <= MaxRequests
    /\ told \in [Requests -> Nat]
    /\ \A r \in Requests : told[r] = IF At(r, "done") THEN 1 ELSE 0

-------------------------------------------------------------------------------
(* The numbers by which the clients answer                                 *)

Contexts == [asked : SUBSET Clients, number : [Clients -> Nat],
             sentClientCount : Nat, defaultDenyCount : Nat,
             clientResults : [Clients -> {"none", "ALLOW", "DENY", "TIMEOUT"}],
             completed : BOOLEAN, merged : Verdicts]

Messages == [request : Requests, seqnum : Nat]
Answers == [request : Requests, about : Requests, verdict : Verdicts]

ContextTyped ==
    /\ ctx \in [Requests -> Contexts]
    /\ \A r \in Requests : IsFiniteSet(ctx[r].asked)

RoutesTyped ==
    /\ seqnumCounter \in [Clients -> Nat]
    /\ seqnumToCtx \in [Clients -> [Seqnums -> Requests \cup {Nil}]]
    /\ inbox \in [Clients -> SUBSET Messages]
    /\ answering \in [Clients -> Answers \cup {Nil}]
    /\ drew \in [Clients -> [Requests -> Seqnums \cup {0}]]
    /\ crossed \in [Requests -> SUBSET Clients]

(* The places before the first push.                                       *)
Early == {"new", "find", "refused", "start", "dispatch", "number"}

(* Whether a request has still to come to a client.                        *)
Unvisited(r, c) ==
    \/ task[r].pc \in {"new", "find", "refused", "start"}
    \/ task[r].pc \in {"dispatch", "number"} /\ c \in task[r].todo

Drawn(c) == {q \in Requests : drew[c][q] # 0}

(* However the draws overlap, a client counts no further than the requests *)
(* that have drawn a number at it.                                         *)
Numbering ==
    /\ \A c \in Clients : seqnumCounter[c] <= Cardinality(Drawn(c))
    /\ \A r \in Requests :
         /\ At(r, "number") <=> task[r].client # Nil
         /\ At(r, "number") => /\ task[r].client \in task[r].todo
                               /\ task[r].seen <= Cardinality(Drawn(task[r].client))

(* A request draws once at a client, and both its context and the event    *)
(* that the client is sent have that number.                               *)
Drawing ==
    /\ \A r \in Requests : \A c \in Clients : Unvisited(r, c) => drew[c][r] = 0
    /\ \A r \in Requests : \A c \in ctx[r].asked :
         ctx[r].number[c] = drew[c][r] /\ drew[c][r] # 0
    /\ \A c \in Clients : \A m \in inbox[c] :
         /\ drew[c][m.request] = m.seqnum /\ m.seqnum # 0
         /\ c \in ctx[m.request].asked => task[m.request].pc \notin Early

(* Who has been asked, by the progress of the task.                        *)
Asking ==
    \A r \in Requests :
        /\ task[r].pc \in {"new", "find", "refused", "start", "done"} => ctx[r].asked = {}
        /\ task[r].pc \in {"dispatch", "number"} => ctx[r].asked \cap task[r].todo = {}
        /\ At(r, "push") => task[r].todo \subseteq ctx[r].asked

(* A route leads to a request whose number it is, and is gone before the   *)
(* provider is told.                                                       *)
RoutesLead ==
    \A c \in Clients : \A n \in Seqnums : \A r \in Requests : seqnumToCtx[c][n] = r =>
        c \in ctx[r].asked /\ ctx[r].number[c] = n /\ ~At(r, "notify")

NumbersInv ==
    /\ TaskTyped /\ ContextTyped /\ RoutesTyped
    /\ Numbering /\ Drawing /\ Asking /\ RoutesLead

-------------------------------------------------------------------------------
(* The answers                                                             *)

(* An answer is on its way to a request with the number of the one it is   *)
(* about, which, if it is the same, has been pushed.                       *)
Answering ==
    \A c \in Clients : answering[c] # Nil =>
        /\ drew[c][answering[c].about] = drew[c][answering[c].request]
        /\ drew[c][answering[c].about] # 0
        /\ ~ctx[answering[c].request].completed => c \in ctx[answering[c].request].asked
        /\ answering[c].about = answering[c].request => task[answering[c].request].pc \notin Early

(* A request that has counted only the first answers of its clients.       *)
Exact(r) == r \notin recounted /\ crossed[r] = {}

(* While a request is undecided nobody has denied it, and its counter is   *)
(* that of the answers due.  Only an answer to another request decides one *)
(* that has pushed nothing.                                                *)
Undecided ==
    \A r \in Requests :
        /\ \A c \in Clients \ ctx[r].asked : ctx[r].clientResults[c] = "none"
        /\ ~ctx[r].completed =>
             /\ ctx[r].merged = "ALLOW"
             /\ \A c \in Clients : ctx[r].clientResults[c] \in {"none", "ALLOW"}
             /\ Exact(r) => ctx[r].sentClientCount = Cardinality(Pending(r))
        /\ ctx[r].completed /\ task[r].pc \in Early => crossed[r] # {}

AnswersInv == NumbersInv /\ Answering /\ AnswersMatch /\ Undecided /\ StrictPolicy
-------------------------------------------------------------------------------
(* The lists of the providers                                              *)

NotifierTyped ==
    notifier \in [Notifiers -> [to : SUBSET Providers, collected : SUBSET Providers,
                               list : SUBSET (Clients \X Events)]]

TablesTyped ==
    /\ providerSessions \subseteq Providers /\ sessions \subseteq Clients
    /\ eventIds \in [Clients -> SUBSET Events]
    /\ stage \in [Providers \cup Clients -> {"none", "watch", "live"}]
    /\ heard \subseteq Providers
    /\ NotifierTyped
    /\ \A n \in Notifiers : \A p, q \in notifier[n].collected : p = q

(* A client subscribes only once its death is watched.                     *)
NoneBefore == \A c \in Clients : stage[c] # "live" => eventIds[c] = {}

(* Whoever has not been sent the clients as they are now will be: a notice *)
(* is due, or a thread has still to collect that list, or to send it.      *)
Telling(n, p) ==
    \/ p \in notifier[n].to
    \/ p \in notifier[n].collected /\ notifier[n].list = CollectClientInfos(p)

ToBeTold ==
    \A p \in providerSessions : ~notice /\ stage[p] = "live" /\ Alive(p) =>
        p \in heard \/ \E n \in Notifiers : Telling(n, p)

StatusInv == TablesTyped /\ NoneBefore /\ ToBeTold
-------------------------------------------------------------------------------
(* Every task stays in one of its places.  A step of one task leaves the   *)
(* others alone.                                                           *)
LEMMA TaskMoves ==
    ASSUME TaskTyped, NEW r \in Requests, TaskStep(r)
    PROVE  /\ TaskTyped'
           /\ \A q \in Requests : q # r => task'[q] = task[q]
<1> USE DEF TaskTyped
<1>1. CASE FindProviderLocked(r)
  BY <1>1 DEF FindProviderLocked, Goto, Places
<1>2. CASE ProcessAuthResultAsync(r)
  <2> DEFINE T == {c \in sessions : EventOf(r) \in eventIds[c]}
  <2> QED
    BY <1>2 DEF ProcessAuthResultAsync, Goto, Places
<1>3. CASE \E c \in Clients : VisitClient(r, c) \/ PushEventToClient(r, c)
  BY <1>3 DEF VisitClient, PushEventToClient, Places
<1>4. CASE NotifyDegradedClient(r) \/ RegisterNormalClient(r)
  BY <1>4 DEF NotifyDegradedClient, RegisterNormalClient, VisitDone, Places
<1>5. CASE Dispatched(r)
  BY <1>5 DEF Dispatched, Goto, Places
<1>6. CASE WaitForCompletion(r)
  BY <1>6 DEF WaitForCompletion, Goto, Places
<1>7. CASE HandleTimeout(r)
  BY <1>7 DEF HandleTimeout, Goto, Places
<1>8. CASE BuildAuthResult(r)
  BY <1>8 DEF BuildAuthResult, Goto, Places
<1>9. CASE NotifyAuthResult(r)
  BY <1>9 DEF NotifyAuthResult, NewTask, Places
<1> QED
  BY <1>1, <1>2, <1>3, <1>4, <1>5, <1>6, <1>7, <1>8, <1>9 DEF TaskStep

-------------------------------------------------------------------------------
(* The requests under way                                                  *)

Counted == {"find", "start", "dispatch", "number", "push", "wait", "timeout", "build", "notify"}

LEMMA UnderWayFinite ==
    ASSUME TaskTyped, NEW p \in Providers
    PROVE  /\ UnderWay(p) = {r \in Requests : ProviderOf(r) = p /\ task[r].pc \in Counted}
           /\ IsFiniteSet(UnderWay(p)) /\ Cardinality(UnderWay(p)) \in Nat
<1>1. UnderWay(p) = {r \in Requests : ProviderOf(r) = p /\ task[r].pc \in Counted}
  BY DEF UnderWay, TaskTyped, Places, Counted
<1>2. UnderWay(p) \in SUBSET Requests
  BY DEF UnderWay
<1> QED
  BY <1>1, <1>2, CoordinatorAssumption, FS_Subset, FS_CardinalityType

(* A step of a request that stays under way.                               *)
LEMMA StaysCounted ==
    ASSUME ActiveInv, TaskTyped', NEW r \in Requests,
           \A q \in Requests : q # r => task'[q] = task[q],
           task[r].pc \in Counted, task'[r].pc \in Counted,
           UNCHANGED <<activeRequestCount, told>>
    PROVE  ActiveInv'
<1>1. ASSUME NEW p \in Providers PROVE UnderWay(p)' = UnderWay(p)
  BY DEF UnderWay, ActiveInv, Counted
<1>2. \A q \in Requests : At(q, "done")' <=> At(q, "done")
  BY DEF At, Counted
<1> QED
  BY <1>1, <1>2 DEF ActiveInv, ActiveExact

(* A request leaves the count when it is refused or answered.              *)
LEMMA LeavesCount ==
    ASSUME ActiveInv, TaskTyped', NEW r \in Requests,
           \A q \in Requests : q # r => task'[q] = task[q],
           task[r].pc \in Counted, task'[r].pc \in {"refused", "done"},
           DecrementActiveRequest(ProviderOf(r)),
           told' = [told EXCEPT ![r] = IF task'[r].pc = "done" THEN told[r] + 1 ELSE told[r]]
    PROVE  ActiveInv'
<1> DEFINE P == ProviderOf(r)
<1>1. P \in Providers
  BY CoordinatorAssumption DEF ProviderOf
<1>2. r \in UnderWay(P) /\ UnderWay(P)' = UnderWay(P) \ {r}
  BY <1>1 DEF UnderWay, Counted, ActiveInv, TaskTyped
<1>3. activeRequestCount[P] > 0 /\ Cardinality(UnderWay(P) \ {r}) = activeRequestCount[P] - 1
  <2>1. Cardinality(UnderWay(P)) # 0
    BY <1>1, <1>2, UnderWayFinite, FS_EmptySet DEF ActiveInv
  <2>2. Cardinality(UnderWay(P) \ {r}) = Cardinality(UnderWay(P)) - 1
    BY <1>1, <1>2, UnderWayFinite, FS_RemoveElement DEF ActiveInv
  <2> QED
    BY <1>1, <2>1, <2>2, UnderWayFinite DEF ActiveInv, ActiveExact
<1>4. \A p \in Providers \ {P} : UnderWay(p)' = UnderWay(p)
  BY DEF UnderWay
<1>5. /\ activeRequestCount' \in [Providers -> Nat]
      /\ activeRequestCount'[P] = activeRequestCount[P] - 1
      /\ \A p \in Providers \ {P} : activeRequestCount'[p] = activeRequestCount[p]
  BY <1>1, <1>3 DEF DecrementActiveRequest, ActiveInv
<1>6. ActiveExact'
  BY <1>1, <1>2, <1>3, <1>4, <1>5 DEF ActiveExact, ActiveInv
<1>7. \A p \in Providers : activeRequestCount'[p] <= MaxRequests
  <2>1. MaxRequests \in Nat /\ \A p \in Providers : activeRequestCount[p] <= MaxRequests
    BY CoordinatorAssumption DEF ActiveInv
  <2>2. activeRequestCount \in [Providers -> Nat]
    BY DEF ActiveInv
  <2> QED
    BY <1>1, <1>5, <2>1, <2>2
<1>8. told' \in [Requests -> Nat] /\ \A q \in Requests : told'[q] = IF At(q, "done")' THEN 1 ELSE 0
  <2>1. told[r] = 0 /\ told \in [Requests -> Nat]
    BY DEF At, ActiveInv, Counted
  <2>2. \A q \in Requests : q # r => told'[q] = IF At(q, "done")' THEN 1 ELSE 0
    BY <2>1 DEF At, ActiveInv
  <2>3. told'[r] = IF At(r, "done")' THEN 1 ELSE 0
    BY <2>1 DEF At
  <2> QED
    BY <2>1, <2>2, <2>3
<1> QED
  BY <1>5, <1>6, <1>7, <1>8 DEF ActiveInv

(* A request that is let in goes to the search with its degraded clients.  *)
LEMMA EnteredTask ==
    ASSUME TaskTyped, NEW r \in Requests, NEW D \in SUBSET Clients,
           task' = [task EXCEPT ![r].pc = "find", ![r].degraded = D]
    PROVE  /\ TaskTyped' /\ task'[r].pc = "find" /\ task'[r].client = task[r].client
           /\ \A q \in Requests : q # r => task'[q] = task[q]
<1> DEFINE t == [task[r] EXCEPT !.pc = "find", !.degraded = D]
           T == [pc : Places, degraded : SUBSET Clients, todo : SUBSET Clients,
                 client : Clients \cup {Nil}, seen : Nat]
<1>1. task \in [Requests -> T]
  BY DEF TaskTyped
<1>2. task[r] \in T
  BY <1>1
<1>3. task' = [task EXCEPT ![r] = t]
  OBVIOUS
<1>4. "find" \in Places
  BY DEF Places
<1>5. t \in T /\ t.pc = "find" /\ t.client = task[r].client
  BY <1>2, <1>4
<1> HIDE DEF t, T
<1>6. /\ task' \in [Requests -> T] /\ task'[r] = t
      /\ \A q \in Requests : q # r => task'[q] = task[q]
  BY <1>1, <1>3, <1>5
<1> QED
  BY <1>5, <1>6 DEF TaskTyped, T

(* A new request is let in while its provider has fewer than the limit.    *)
LEMMA EntersCount ==
    ASSUME ActiveInv, NEW r \in Requests, NEW D \in SUBSET Clients, RequestAuthResult(r, D)
    PROVE  ActiveInv'
<1> DEFINE P == ProviderOf(r)
<1>1. /\ task' = [task EXCEPT ![r].pc = "find", ![r].degraded = D] /\ told' = told
      /\ TryIncrementActiveRequest(P) /\ task[r].pc = "new"
  BY DEF RequestAuthResult, At
<1>2. /\ TaskTyped' /\ task'[r].pc = "find"
      /\ \A q \in Requests : q # r => task'[q] = task[q]
  BY <1>1, EnteredTask DEF ActiveInv
<1>3. P \in Providers
  BY CoordinatorAssumption DEF ProviderOf
<1>4. r \notin UnderWay(P) /\ UnderWay(P)' = UnderWay(P) \cup {r}
  BY <1>1, <1>2, <1>3 DEF UnderWay
<1>5. Cardinality(UnderWay(P)') = activeRequestCount[P] + 1
  BY <1>3, <1>4, UnderWayFinite, FS_AddElement DEF ActiveInv, ActiveExact
<1>6. \A p \in Providers \ {P} : UnderWay(p)' = UnderWay(p)
  BY <1>1, <1>2 DEF UnderWay
<1>7. /\ activeRequestCount' \in [Providers -> Nat]
      /\ activeRequestCount'[P] = activeRequestCount[P] + 1
      /\ activeRequestCount[P] < MaxRequests
      /\ \A p \in Providers \ {P} : activeRequestCount'[p] = activeRequestCount[p]
  BY <1>1, <1>3 DEF TryIncrementActiveRequest, ActiveInv
<1>8. ActiveExact' /\ \A p \in Providers : activeRequestCount'[p] <= MaxRequests
  BY <1>3, <1>5, <1>6, <1>7, CoordinatorAssumption DEF ActiveExact, ActiveInv
<1>9. told' \in [Requests -> Nat] /\ \A q \in Requests : told'[q] = IF At(q, "done")' THEN 1 ELSE 0
  BY <1>1, <1>2 DEF At, ActiveInv
<1> QED
  BY <1>2, <1>7, <1>8, <1>9 DEF ActiveInv

(* What a task does between its first lookup and its last words.           *)
LEMMA TaskCounted ==
    ASSUME ActiveInv, NEW r \in Requests, TaskStep(r)
    PROVE  ActiveInv'
<1>1. TaskTyped' /\ \A q \in Requests : q # r => task'[q] = task[q]
  BY TaskMoves DEF ActiveInv
<1>2. task \in [Requests -> [pc : Places, degraded : SUBSET Clients, todo : SUBSET Clients,
                             client : Clients \cup {Nil}, seen : Nat]]
  BY DEF ActiveInv, TaskTyped
<1>3. CASE FindProviderLocked(r)
  <2>1. CASE ProviderOf(r) \in providerSessions
    BY <1>1, <1>2, <1>3, <2>1, StaysCounted DEF FindProviderLocked, At, Goto, Counted
  <2>2. CASE ProviderOf(r) \notin providerSessions
    <3>1. /\ told' = [told EXCEPT ![r] = told[r]]
          /\ task[r].pc = "find" /\ Goto(r, "refused") /\ DecrementActiveRequest(ProviderOf(r))
      BY <1>3, <2>2 DEF FindProviderLocked, At, ActiveInv
    <3>2. task'[r].pc = "refused"
      BY <1>2, <3>1 DEF Goto
    <3> QED
      BY <1>1, <3>1, <3>2, LeavesCount DEF Counted
  <2> QED
    BY <2>1, <2>2
<1>4. CASE ProcessAuthResultAsync(r) \/ Dispatched(r) \/ WaitForCompletion(r)
  BY <1>1, <1>2, <1>4, StaysCounted
     DEF ProcessAuthResultAsync, Dispatched, WaitForCompletion, At, Goto, Counted
<1>5. CASE HandleTimeout(r) \/ BuildAuthResult(r)
  <2>1. /\ Goto(r, "build") \/ Goto(r, "notify")
        /\ At(r, "timeout") \/ At(r, "build")
        /\ UNCHANGED <<activeRequestCount, told>>
    BY <1>5 DEF HandleTimeout, BuildAuthResult
  <2> QED
    BY <1>1, <1>2, <2>1, StaysCounted DEF At, Goto, Counted
<1>6. CASE \E c \in Clients : VisitClient(r, c) \/ PushEventToClient(r, c)
  BY <1>1, <1>2, <1>6, StaysCounted DEF VisitClient, PushEventToClient, At, Counted
<1>7. CASE NotifyDegradedClient(r) \/ RegisterNormalClient(r)
  BY <1>1, <1>2, <1>7, StaysCounted
     DEF NotifyDegradedClient, RegisterNormalClient, VisitDone, At, Counted
<1>8. CASE NotifyAuthResult(r)
  <2>1. /\ task' = [task EXCEPT ![r] = [NewTask EXCEPT !.pc = "done"]]
        /\ task[r].pc = "notify" /\ DecrementActiveRequest(ProviderOf(r))
        /\ told' = [told EXCEPT ![r] = told[r] + 1]
    BY <1>8 DEF NotifyAuthResult, At
  <2>2. task'[r].pc = "done"
    BY <1>2, <2>1 DEF NewTask
  <2> QED
    BY <1>1, <2>1, <2>2, LeavesCount DEF Counted
<1> QED
  BY <1>3, <1>4, <1>5, <1>6, <1>7, <1>8 DEF TaskStep

LEMMA ActiveHolds == Spec => []ActiveInv
<1>1. Init => ActiveInv
  <2> SUFFICES ASSUME Init PROVE ActiveInv
    OBVIOUS
  <2>1. TaskTyped /\ activeRequestCount \in [Providers -> Nat]
    BY DEF Init, NewTask, TaskTyped, Places
  <2>2. \A p \in Providers : UnderWay(p) = {}
    BY DEF Init, NewTask, UnderWay
  <2>3. ActiveExact /\ \A p \in Providers : activeRequestCount[p] <= MaxRequests
    <3>1. MaxRequests \in Nat
      BY CoordinatorAssumption
    <3>2. \A p \in Providers : activeRequestCount[p] = 0
      BY DEF Init
    <3>3. \A p \in Providers : Cardinality(UnderWay(p)) = 0
      BY <2>2, FS_EmptySet
    <3> QED
      BY <3>1, <3>2, <3>3 DEF ActiveExact
  <2>4. told \in [Requests -> Nat] /\ \A r \in Requests : told[r] = IF At(r, "done") THEN 1 ELSE 0
    BY DEF Init, NewTask, At
  <2> QED
    BY <2>1, <2>3, <2>4 DEF ActiveInv
<1>2. ActiveInv /\ [Next]_vars => ActiveInv'
  <2> SUFFICES ASSUME ActiveInv, [Next]_vars PROVE ActiveInv'
    OBVIOUS
  <2>1. CASE UNCHANGED <<activeRequestCount, task, told>>
    BY <2>1 DEF ActiveInv, TaskTyped, ActiveExact, UnderWay, At
  <2>2. CASE \E r \in Requests : TaskStep(r) \/ \E D \in SUBSET Clients : RequestAuthResult(r, D)
    BY <2>2, TaskCounted, EntersCount
  <2> QED
    BY <2>1, <2>2 DEF Next, vars, requestVars, RecordClientResult, SetAuthResult
<1> QED
  BY <1>1, <1>2, PTL DEF Spec

(* However a request ends, refused, unanswered, allowed or denied, its     *)
(* place is given back once: the count of each provider is that of its     *)
(* requests under way.                                                     *)
THEOREM RequestsCounted == Spec => []ActiveExact
<1>1. ActiveInv => ActiveExact
  BY DEF ActiveInv
<1> QED
  BY <1>1, ActiveHolds, PTL

(* TryIncrementActiveRequest: no interleaving of calls, rollbacks and      *)
(* answers lets a provider have more requests under way than the limit.    *)
THEOREM RequestsLimited ==
    Spec => [](\A p \in Providers : Cardinality(UnderWay(p)) <= MaxRequests)
<1>1. ActiveInv => \A p \in Providers : Cardinality(UnderWay(p)) <= MaxRequests
  BY DEF ActiveInv, ActiveExact
<1> QED
  BY <1>1, ActiveHolds, PTL

(* NotifyAuthResult: no request is answered twice, however it ends.        *)
THEOREM AnsweredOnce == Spec => [](\A r \in Requests : told[r] < 2)
<1>1. ActiveInv => \A r \in Requests : told[r] < 2
  BY DEF ActiveInv
<1> QED
  BY <1>1, ActiveHolds, PTL
-------------------------------------------------------------------------------
(* The lists of the providers                                              *)

LEMMA SameLists ==
    ASSUME UNCHANGED <<sessions, eventIds>>, NEW p
    PROVE  CollectClientInfos(p)' = CollectClientInfos(p)
  BY DEF CollectClientInfos

(* A client that subscribes to nothing is on no list.                      *)
LEMMA NotListed ==
    ASSUME NEW c, eventIds[c] = {}, eventIds' = eventIds,
           sessions' \cup {c} = sessions \cup {c}, NEW p
    PROVE  CollectClientInfos(p)' = CollectClientInfos(p)
<1> DEFINE L(S) == {info \in S \X Events :
                      info[2] \in eventIds[info[1]] /\ ServiceOf[info[2]] = Service[p]}
<1>1. L(sessions') = L(sessions)
  <2>1. ASSUME NEW info \in L(sessions') PROVE info \in L(sessions)
    BY <2>1
  <2>2. ASSUME NEW info \in L(sessions) PROVE info \in L(sessions')
    BY <2>2
  <2> QED
    BY <2>1, <2>2
<1> QED
  BY <1>1 DEF CollectClientInfos

(* A notice that is due leaves nothing to be shown of the lists.           *)
LEMMA ProviderGoes ==
    ASSUME StatusInv, NEW p \in Providers,
           DestroyAuthProvider(p) \/ RemoveProvider(p) \/ (WatchProvider(p) /\ Alive(p))
    PROVE  StatusInv'
<1>1. /\ notice' /\ UNCHANGED <<sessions, eventIds, notifier, heard>>
      /\ providerSessions' \subseteq providerSessions
      /\ stage' = stage \/ stage' = [stage EXCEPT ![p] = "live"]
  BY DEF WatchProvider, DestroyAuthProvider, RemoveProvider
<1>2. TablesTyped' /\ NoneBefore'
  BY <1>1, RegistryAssumption DEF StatusInv, TablesTyped, NotifierTyped, NoneBefore
<1> QED
  BY <1>1, <1>2 DEF StatusInv, ToBeTold

LEMMA SubscriptionChanges ==
    ASSUME StatusInv, NEW c \in Clients, NEW e \in Events,
           SubscribeAuthEvent(c, e) \/ UnsubscribeAuthEvent(c, e)
    PROVE  StatusInv'
<1>1. /\ notice' /\ UNCHANGED <<providerSessions, sessions, stage, notifier>>
      /\ heard' \subseteq heard
      /\ stage[c] = "live" /\ \A d \in Clients : d # c => eventIds'[d] = eventIds[d]
      /\ eventIds' \in [Clients -> SUBSET Events]
  BY DEF SubscribeAuthEvent, UnsubscribeAuthEvent, Outdates, Calls, StatusInv, TablesTyped
<1>2. TablesTyped' /\ NoneBefore'
  BY <1>1 DEF StatusInv, TablesTyped, NotifierTyped, NoneBefore
<1> QED
  BY <1>1, <1>2 DEF StatusInv, ToBeTold

(* The same of a client that goes.                                         *)
LEMMA ClientGoes ==
    ASSUME StatusInv, NEW c \in Clients, DestroyAuthEventClient(c) \/ RemoveSession(c)
    PROVE  StatusInv'
<1>1. /\ notice' /\ UNCHANGED <<providerSessions, eventIds, stage, notifier>>
      /\ heard' \subseteq heard /\ sessions' \subseteq sessions
  BY DEF DestroyAuthEventClient, RemoveSession, Outdates
<1> QED
  BY <1>1 DEF StatusInv, TablesTyped, NotifierTyped, NoneBefore, ToBeTold

(* A step that changes no list and takes no live provider in.              *)
LEMMA ListsKept ==
    ASSUME StatusInv, TablesTyped', NoneBefore', UNCHANGED <<notice, notifier, heard>>,
           \A p \in Providers : CollectClientInfos(p)' = CollectClientInfos(p),
           \A p \in providerSessions' : stage'[p] = "live" /\ Alive(p)' =>
             p \in providerSessions /\ stage[p] = "live" /\ Alive(p)
    PROVE  StatusInv'
<1>1. ASSUME NEW p \in providerSessions', ~notice', stage'[p] = "live", Alive(p)'
      PROVE  p \in heard' \/ \E n \in Notifiers : Telling(n, p)'
  <2>1. p \in providerSessions /\ stage[p] = "live" /\ Alive(p) /\ ~notice /\ p \in Providers
    BY <1>1 DEF TablesTyped
  <2>2. CASE \E n \in Notifiers : Telling(n, p)
    BY <2>1, <2>2 DEF Telling
  <2>3. CASE p \in heard
    BY <2>3
  <2> QED
    BY <2>1, <2>2, <2>3 DEF StatusInv, ToBeTold
<1> QED
  BY <1>1 DEF StatusInv, ToBeTold

(* A provider enters the table, or leaves it as soon as it did.            *)
LEMMA ProviderComes ==
    ASSUME StatusInv, NEW p \in Providers, CreateAuthProvider(p) \/ (WatchProvider(p) /\ ~Alive(p))
    PROVE  StatusInv'
<1>1. /\ UNCHANGED <<sessions, eventIds, dead, notice, notifier, heard>>
      /\ stage' = [stage EXCEPT ![p] = "watch"] \/ stage' = [stage EXCEPT ![p] = "live"]
      /\ \A q \in Providers : q # p => (q \in providerSessions' <=> q \in providerSessions)
  BY DEF CreateAuthProvider, WatchProvider, noticeVars
<1>2. /\ providerSessions' \subseteq Providers
      /\ p \in providerSessions' => stage'[p] = "watch"
  BY DEF CreateAuthProvider, WatchProvider, StatusInv, TablesTyped
<1>3. TablesTyped' /\ NoneBefore'
  BY <1>1, <1>2, RegistryAssumption DEF StatusInv, TablesTyped, NotifierTyped, NoneBefore
<1>4. \A q \in Providers : CollectClientInfos(q)' = CollectClientInfos(q)
  BY <1>1, SameLists
<1>5. \A q \in providerSessions' : stage'[q] = "live" /\ Alive(q)' =>
        q \in providerSessions /\ stage[q] = "live" /\ Alive(q)
  BY <1>1, <1>2 DEF Alive, StatusInv, TablesTyped
<1> QED
  BY <1>1, <1>3, <1>4, <1>5, ListsKept

(* A client enters its table, or leaves it as soon as it did: it has not   *)
(* subscribed yet.                                                         *)
LEMMA ClientComes ==
    ASSUME StatusInv, NEW c \in Clients, CreatAuthEventClient(c) \/ WatchClient(c)
    PROVE  StatusInv'
<1>1. /\ UNCHANGED <<providerSessions, eventIds, dead, notice, notifier, heard>>
      /\ stage' = [stage EXCEPT ![c] = "watch"] \/ stage' = [stage EXCEPT ![c] = "live"]
      /\ sessions' \cup {c} = sessions \cup {c} /\ sessions' \subseteq Clients
      /\ stage[c] # "live"
  BY DEF CreatAuthEventClient, WatchClient, noticeVars, StatusInv, TablesTyped
<1>2. eventIds[c] = {}
  BY <1>1 DEF StatusInv, NoneBefore
<1>3. TablesTyped' /\ NoneBefore'
  BY <1>1, <1>2 DEF StatusInv, TablesTyped, NotifierTyped, NoneBefore
<1>4. \A p \in Providers : CollectClientInfos(p)' = CollectClientInfos(p)
  BY <1>1, <1>2, NotListed
<1>5. \A p \in providerSessions' : stage'[p] = "live" /\ Alive(p)' =>
        p \in providerSessions /\ stage[p] = "live" /\ Alive(p)
  BY <1>1, RegistryAssumption DEF Alive, StatusInv, TablesTyped
<1> QED
  BY <1>1, <1>3, <1>4, <1>5, ListsKept

LEMMA DieStatus ==
    ASSUME StatusInv, NEW x, Die(x)
    PROVE  StatusInv'
<1>1. /\ UNCHANGED <<providerSessions, sessions, eventIds, stage, notice, notifier, heard>>
      /\ dead \subseteq dead'
  BY DEF Die, noticeVars
<1>2. TablesTyped' /\ NoneBefore'
  BY <1>1 DEF StatusInv, TablesTyped, NotifierTyped, NoneBefore
<1>3. \A p \in Providers : CollectClientInfos(p)' = CollectClientInfos(p)
  BY <1>1, SameLists
<1> QED
  BY <1>1, <1>2, <1>3, ListsKept DEF Alive

(* The notice begins: every provider of the table is on its way to be told.*)
LEMMA NoticeBegins ==
    ASSUME StatusInv, NEW n \in Notifiers, NotifyClientStatusChanged(n)
    PROVE  StatusInv'
<1>1. /\ tableVars' = tableVars /\ heard' = heard
      /\ notifier' = [notifier EXCEPT ![n].to = providerSessions]
  BY DEF NotifyClientStatusChanged
<1>2. TablesTyped' /\ NoneBefore'
  BY <1>1 DEF StatusInv, TablesTyped, NotifierTyped, NoneBefore, tableVars
<1>3. \A p \in providerSessions' : p \in notifier'[n].to
  BY <1>1 DEF StatusInv, TablesTyped, NotifierTyped, tableVars
<1> QED
  BY <1>2, <1>3 DEF StatusInv, ToBeTold, Telling

(* What a thread has to tell keeps its type.                               *)
LEMMA CollectedTyped ==
    ASSUME NEW n \in Notifiers, NEW p \in Providers, NEW l \in SUBSET (Clients \X Events),
           NotifierTyped,
           notifier' = [notifier EXCEPT ![n].to = @ \ {p}, ![n].collected = {p}, ![n].list = l]
    PROVE  NotifierTyped'
<1> DEFINE X == SUBSET Providers
           Y == SUBSET (Clients \X Events)
<1>1. notifier \in [Notifiers -> [to : X, collected : X, list : Y]] /\ l \in Y
  BY DEF NotifierTyped
<1>2. notifier[n].to \ {p} \in X /\ {p} \in X
  BY <1>1
<1>3. SUFFICES notifier' \in [Notifiers -> [to : X, collected : X, list : Y]]
  BY DEF NotifierTyped
<1> HIDE DEF X, Y
<1> QED
  BY <1>1, <1>2

LEMMA SentTyped ==
    ASSUME NEW n \in Notifiers, NotifierTyped,
           notifier' = [notifier EXCEPT ![n].collected = {}, ![n].list = {}]
    PROVE  NotifierTyped'
  BY DEF NotifierTyped

(* A list is collected under the lock, and is the one of that moment.      *)
LEMMA CollectStatus ==
    ASSUME StatusInv, NEW n \in Notifiers, NEW p \in Providers, Collect(n, p)
    PROVE  StatusInv'
<1> DEFINE L == CollectClientInfos(p)
<1>1. /\ UNCHANGED <<providerSessions, sessions, eventIds, stage, dead, notice, heard>>
      /\ notifier[n].collected = {} /\ p \in notifier[n].to
      /\ notifier' = [notifier EXCEPT ![n].to = @ \ {p}, ![n].collected = {p}, ![n].list = L]
  BY DEF Collect, tableVars
<1>2. L \in SUBSET (Clients \X Events)
  BY DEF CollectClientInfos, StatusInv, TablesTyped
<1>3. \A q \in Providers : CollectClientInfos(q)' = CollectClientInfos(q)
  BY <1>1, SameLists
<1>4. L' = L
  BY <1>3
<1> HIDE DEF L
<1>5. /\ notifier'[n].to = notifier[n].to \ {p} /\ notifier'[n].collected = {p}
      /\ notifier'[n].list = L
      /\ \A m \in Notifiers : m # n => notifier'[m] = notifier[m]
  BY <1>1 DEF StatusInv, TablesTyped, NotifierTyped
<1>6. TablesTyped' /\ NoneBefore'
  <2>1. NotifierTyped'
    <3>1. NotifierTyped
      BY DEF StatusInv, TablesTyped
    <3> QED
      BY <1>1, <1>2, <3>1, CollectedTyped
  <2>2. \A m \in Notifiers : \A q, s \in notifier'[m].collected : q = s
    BY <1>5 DEF StatusInv, TablesTyped, NotifierTyped
  <2> QED
    BY <1>1, <2>1, <2>2 DEF StatusInv, TablesTyped, NoneBefore
<1>7. ASSUME NEW q \in providerSessions, ~notice, stage[q] = "live", Alive(q)
      PROVE  q \in heard \/ \E m \in Notifiers : Telling(m, q)'
  <2>1. CASE q = p
    <3>1. p \in notifier'[n].collected /\ notifier'[n].list = CollectClientInfos(p)'
      BY <1>4, <1>5 DEF L
    <3> QED
      BY <2>1, <3>1 DEF Telling
  <2>2. CASE q # p
    <3>1. q \in heard \/ \E m \in Notifiers : Telling(m, q)
      BY <1>7 DEF StatusInv, ToBeTold
    <3>2. ASSUME NEW m \in Notifiers, Telling(m, q) PROVE Telling(m, q)'
      <4>1. q \in Providers
        BY DEF StatusInv, TablesTyped
      <4>2. CASE m = n
        BY <1>1, <1>5, <2>2, <3>2, <4>2 DEF Telling
      <4>3. CASE m # n
        BY <1>3, <1>5, <3>2, <4>1, <4>3 DEF Telling
      <4> QED
        BY <4>2, <4>3
    <3> QED
      BY <3>1, <3>2
  <2> QED
    BY <2>1, <2>2
<1>8. ToBeTold'
  <2>1. \A q : Alive(q)' <=> Alive(q)
    BY <1>1 DEF Alive
  <2>2. \A q \in providerSessions : q \in Providers
    BY DEF StatusInv, TablesTyped, NotifierTyped
  <2> QED
    BY <1>1, <1>3, <1>7, <2>1, <2>2 DEF ToBeTold
<1> QED
  BY <1>6, <1>8 DEF StatusInv

(* What was collected is sent, and is still true unless a notice is due.   *)
LEMMA SendStatus ==
    ASSUME StatusInv, NEW n \in Notifiers, NEW p \in Providers, Send(n, p)
    PROVE  StatusInv'
<1>1. /\ UNCHANGED <<providerSessions, sessions, eventIds, stage, dead, notice>>
      /\ p \in notifier[n].collected
      /\ notifier' = [notifier EXCEPT ![n].collected = {}, ![n].list = {}]
      /\ heard' = IF Alive(p) /\ notifier[n].list = CollectClientInfos(p) THEN heard \cup {p}
                  ELSE heard
  BY DEF Send, tableVars
<1>2. /\ notifier'[n].to = notifier[n].to /\ notifier'[n].collected = {}
      /\ \A q \in notifier[n].collected : q = p
  BY <1>1 DEF StatusInv, TablesTyped, NotifierTyped
<1>3. TablesTyped' /\ NoneBefore'
  <2>1. NotifierTyped'
    <3>1. NotifierTyped
      BY DEF StatusInv, TablesTyped
    <3> QED
      BY <1>1, <3>1, SentTyped
  <2>2. heard' \subseteq Providers
    BY <1>1 DEF StatusInv, TablesTyped
  <2>3. \A m \in Notifiers : \A q, s \in notifier'[m].collected : q = s
    BY <1>1, <1>2 DEF StatusInv, TablesTyped, NotifierTyped
  <2> QED
    BY <1>1, <2>1, <2>2, <2>3 DEF StatusInv, TablesTyped, NoneBefore
<1>4. \A q \in Providers : CollectClientInfos(q)' = CollectClientInfos(q)
  BY <1>1, SameLists
<1>5. ASSUME NEW q \in providerSessions, ~notice, stage[q] = "live", Alive(q)
      PROVE  q \in heard' \/ \E m \in Notifiers : Telling(m, q)'
  <2>1. q \in heard \/ \E m \in Notifiers : Telling(m, q)
    BY <1>5 DEF StatusInv, ToBeTold
  <2>2. CASE q \in heard
    BY <1>1, <2>2
  <2>3. ASSUME NEW m \in Notifiers, Telling(m, q)
        PROVE  q \in heard' \/ Telling(m, q)'
    <3>1. q \in Providers
      BY DEF StatusInv, TablesTyped
    <3>2. CASE m # n
      <4>1. notifier'[m] = notifier[m]
        BY <1>1, <3>2 DEF StatusInv, TablesTyped, NotifierTyped
      <4> QED
        BY <1>4, <2>3, <3>1, <4>1 DEF Telling
    <3>3. CASE m = n /\ q \in notifier[n].to
      BY <1>2, <3>3 DEF Telling
    <3>4. CASE m = n /\ q \notin notifier[n].to
      BY <1>1, <1>2, <1>5, <2>3, <3>4 DEF Telling
    <3> QED
      BY <3>2, <3>3, <3>4
  <2> QED
    BY <2>1, <2>2, <2>3
<1>6. ToBeTold'
  <2>1. \A q : Alive(q)' <=> Alive(q)
    BY <1>1 DEF Alive
  <2>2. \A q \in providerSessions : q \in Providers
    BY DEF StatusInv, TablesTyped, NotifierTyped
  <2> QED
    BY <1>1, <1>4, <1>5, <2>1, <2>2 DEF ToBeTold
<1> QED
  BY <1>3, <1>6 DEF StatusInv

(* No change of the two tables goes without its notice, however many       *)
(* threads send them: whenever none is due or under way, each live provider*)
(* has been sent the list of its clients as they are.                      *)
THEOREM ListsTold == Spec => []ChangesTold
<1>1. Init => StatusInv
  <2> SUFFICES ASSUME Init PROVE StatusInv
    OBVIOUS
  <2>1. TablesTyped /\ NoneBefore
    BY DEF Init, RegistryInit, Idle, TablesTyped, NotifierTyped, NoneBefore
  <2>2. ToBeTold
    BY DEF Init, RegistryInit, ToBeTold
  <2> QED
    BY <2>1, <2>2 DEF StatusInv
<1>2. StatusInv /\ [Next]_vars => StatusInv'
  <2> SUFFICES ASSUME StatusInv, [Next]_vars PROVE StatusInv'
    OBVIOUS
  <2>1. CASE UNCHANGED registryVars
    <3>1. TablesTyped' /\ NoneBefore' /\ UNCHANGED <<notice, notifier, heard>>
      BY <2>1 DEF registryVars, tableVars, noticeVars, StatusInv, TablesTyped, NotifierTyped,
                NoneBefore
    <3>2. \A p \in Providers : CollectClientInfos(p)' = CollectClientInfos(p)
      BY <2>1, SameLists DEF registryVars, tableVars
    <3>3. \A p : Alive(p)' <=> Alive(p)
      BY <2>1 DEF registryVars, tableVars, Alive
    <3> QED
      BY <2>1, <3>1, <3>2, <3>3, ListsKept DEF registryVars, tableVars
  <2>2. CASE \E p \in Providers : ProviderStep(p) \/ CreateAuthProvider(p) \/ DestroyAuthProvider(p)
    <3>1. PICK p \in Providers : ProviderStep(p) \/ CreateAuthProvider(p) \/ DestroyAuthProvider(p)
      BY <2>2
    <3>2. CASE CreateAuthProvider(p) \/ (WatchProvider(p) /\ ~Alive(p))
      BY <3>2, ProviderComes
    <3>3. CASE DestroyAuthProvider(p) \/ RemoveProvider(p) \/ (WatchProvider(p) /\ Alive(p))
      BY <3>3, ProviderGoes
    <3> QED
      BY <3>1, <3>2, <3>3 DEF ProviderStep
  <2>3. CASE \E c \in Clients : ClientStep(c) \/ CreatAuthEventClient(c) \/ DestroyAuthEventClient(c)
    BY <2>3, ClientComes, ClientGoes DEF ClientStep
  <2>4. CASE \E c \in Clients : \E e \in Events : SubscribeAuthEvent(c, e) \/ UnsubscribeAuthEvent(c, e)
    BY <2>4, SubscriptionChanges
  <2>5. CASE \E x \in Providers \cup Clients : Die(x)
    BY <2>5, DieStatus
  <2>6. CASE \E n \in Notifiers : NotifierStep(n)
    BY <2>6, NoticeBegins, CollectStatus, SendStatus DEF NotifierStep
  <2> QED
    <3>1. ASSUME NEW r \in Requests, TaskStep(r) PROVE UNCHANGED registryVars
      <4>1. CASE \E c \in Clients : VisitClient(r, c) \/ PushEventToClient(r, c)
        BY <4>1 DEF VisitClient, PushEventToClient
      <4>2. CASE FindProviderLocked(r) \/ ProcessAuthResultAsync(r)
        BY <4>2 DEF FindProviderLocked, ProcessAuthResultAsync
      <4>3. CASE NotifyDegradedClient(r) \/ RegisterNormalClient(r) \/ Dispatched(r)
        BY <4>3 DEF NotifyDegradedClient, RegisterNormalClient, Dispatched
      <4>4. CASE WaitForCompletion(r) \/ HandleTimeout(r)
        BY <4>4 DEF WaitForCompletion, HandleTimeout
      <4>5. CASE BuildAuthResult(r) \/ NotifyAuthResult(r)
        BY <4>5 DEF BuildAuthResult, NotifyAuthResult
      <4> QED
        BY <3>1, <4>1, <4>2, <4>3, <4>4, <4>5 DEF TaskStep
    <3>2. \A r \in Requests : \A D \in SUBSET Clients :
            RequestAuthResult(r, D) => UNCHANGED registryVars
      BY DEF RequestAuthResult
    <3>3. \A c \in Clients : RecordClientResult(c) => UNCHANGED registryVars
      BY DEF RecordClientResult
    <3>4. \A c \in Clients : \A m \in inbox[c], v \in Verdicts :
            SetAuthResult(c, m, v) => UNCHANGED registryVars
      BY DEF SetAuthResult
    <3>5. RegistryNext \/ UNCHANGED registryVars
      BY <3>1, <3>2, <3>3, <3>4 DEF Next, vars
    <3> QED
      BY <2>1, <2>2, <2>3, <2>4, <2>5, <2>6, <3>5 DEF RegistryNext, RegistryCall
<1>3. StatusInv => ChangesTold
  BY DEF StatusInv, TablesTyped, NotifierTyped, ToBeTold, Telling, ChangesTold, Idle
<1> QED
  BY <1>1, <1>2, <1>3, PTL DEF Spec
-------------------------------------------------------------------------------
(* The contexts                                                            *)

LEMMA ContextUpdate ==
    ASSUME ContextTyped, NEW r \in Requests, NEW y \in Contexts, IsFiniteSet(y.asked),
           ctx' = [ctx EXCEPT ![r] = y]
    PROVE  /\ ContextTyped' /\ ctx'[r] = y
           /\ \A q \in Requests : q # r => ctx'[q] = ctx[q]
<1> HIDE DEF Contexts
<1> QED
  BY DEF ContextTyped

LEMMA ContextFields ==
    ASSUME NEW x \in Contexts
    PROVE  /\ x.asked \in SUBSET Clients /\ x.number \in [Clients -> Nat]
           /\ x.sentClientCount \in Nat /\ x.defaultDenyCount \in Nat
           /\ x.clientResults \in [Clients -> {"none", "ALLOW", "DENY", "TIMEOUT"}]
           /\ x.completed \in BOOLEAN /\ x.merged \in Verdicts
  BY DEF Contexts

(* The context x when c is asked under the number n.                       *)
AskedContext(x, c, n) ==
    [x EXCEPT !.asked = x.asked \cup {c},
              !.number = [x.number EXCEPT ![c] = n],
              !.sentClientCount = x.sentClientCount + 1,
              !.defaultDenyCount = IF Strategy[c] = "DENY" THEN x.defaultDenyCount + 1
                                                           ELSE x.defaultDenyCount]

LEMMA AskedFields ==
    ASSUME NEW x \in Contexts, NEW c \in Clients, NEW n \in Nat, NEW y, y = AskedContext(x, c, n)
    PROVE  /\ y \in Contexts
           /\ y.asked = x.asked \cup {c} /\ y.number = [x.number EXCEPT ![c] = n]
           /\ y.sentClientCount = x.sentClientCount + 1
           /\ y.defaultDenyCount = IF Strategy[c] = "DENY" THEN x.defaultDenyCount + 1
                                                           ELSE x.defaultDenyCount
           /\ y.clientResults = x.clientResults /\ y.completed = x.completed
           /\ y.merged = x.merged
<1> DEFINE a == x.asked \cup {c}
           m == [x.number EXCEPT ![c] = n]
           s == x.sentClientCount + 1
           d == IF Strategy[c] = "DENY" THEN x.defaultDenyCount + 1 ELSE x.defaultDenyCount
<1>1. a \in SUBSET Clients /\ m \in [Clients -> Nat] /\ s \in Nat /\ d \in Nat
  BY ContextFields
<1>2. y = [x EXCEPT !.asked = a, !.number = m, !.sentClientCount = s, !.defaultDenyCount = d]
  BY DEF AskedContext
<1> HIDE DEF a, m, s, d
<1>3. /\ y \in Contexts
      /\ y.asked = a /\ y.number = m /\ y.sentClientCount = s /\ y.defaultDenyCount = d
      /\ y.clientResults = x.clientResults /\ y.completed = x.completed
      /\ y.merged = x.merged
  BY <1>1, <1>2 DEF Contexts
<1> QED
  BY <1>3 DEF a, m, s, d

(* The context x when the time is up.                                       *)
LateContext(x, f, v) == [x EXCEPT !.clientResults = f, !.merged = v, !.completed = TRUE]

LEMMA LateFields ==
    ASSUME NEW x \in Contexts, NEW f \in [Clients -> {"none", "ALLOW", "DENY", "TIMEOUT"}],
           NEW v \in Verdicts, NEW y, y = LateContext(x, f, v)
    PROVE  /\ y \in Contexts
           /\ y.clientResults = f /\ y.merged = v /\ y.completed
           /\ y.asked = x.asked /\ y.number = x.number
  BY DEF Contexts, LateContext

(* The context x when an answer is recorded.                                *)
RecordedContext(x, f, s, d, v, b) ==
    [x EXCEPT !.clientResults = f, !.sentClientCount = s, !.defaultDenyCount = d,
              !.merged = v, !.completed = b]

LEMMA RecordedFields ==
    ASSUME NEW x \in Contexts, NEW f \in [Clients -> {"none", "ALLOW", "DENY", "TIMEOUT"}],
           NEW s \in Nat, NEW d \in Nat, NEW v \in Verdicts, NEW b \in BOOLEAN, NEW y,
           y = RecordedContext(x, f, s, d, v, b)
    PROVE  /\ y \in Contexts
           /\ y.clientResults = f /\ y.merged = v /\ y.completed = b
           /\ y.sentClientCount = s /\ y.defaultDenyCount = d
           /\ y.asked = x.asked /\ y.number = x.number
  BY DEF Contexts, RecordedContext

LEMMA FinishedContext ==
    /\ Finished \in Contexts /\ Finished.asked = {} /\ Finished.completed
    /\ Finished.merged = "ALLOW" /\ Finished.clientResults = NoResults
    /\ NewContext \in Contexts /\ NewContext.asked = {} /\ ~NewContext.completed
    /\ NewContext.merged = "ALLOW" /\ NewContext.clientResults = NoResults
    /\ NewContext.sentClientCount = 0 /\ NewContext.defaultDenyCount = 0
    /\ NoResults \in [Clients -> {"none", "ALLOW", "DENY", "TIMEOUT"}]
    /\ \A c \in Clients : NoResults[c] = "none"
<1>1. NoResults \in [Clients -> {"none", "ALLOW", "DENY", "TIMEOUT"}]
  BY DEF NoResults
<1>2. [c \in Clients |-> 0] \in [Clients -> Nat]
  OBVIOUS
<1>3. \A c \in Clients : NoResults[c] = "none"
  BY DEF NoResults
<1> QED
  BY <1>1, <1>2, <1>3 DEF Finished, NewContext, Contexts, Verdicts

LEMMA PendingFinite ==
    ASSUME ContextTyped, NEW r \in Requests
    PROVE  /\ IsFiniteSet(ctx[r].asked)
           /\ IsFiniteSet(Pending(r)) /\ Cardinality(Pending(r)) \in Nat
<1>1. Pending(r) \subseteq ctx[r].asked
  BY DEF Pending
<1> QED
  BY <1>1, FS_Subset, FS_CardinalityType DEF ContextTyped

(* The task of a request, its fields.                                      *)
LEMMA TaskFields ==
    ASSUME TaskTyped, NEW r \in Requests
    PROVE  /\ task[r].pc \in Places /\ task[r].todo \in SUBSET Clients /\ task[r].seen \in Nat
           /\ task[r].client \in Clients \cup {Nil}
  BY DEF TaskTyped

(* The requests that have drawn at a client.                               *)
LEMMA DrawnFinite ==
    ASSUME NEW c \in Clients
    PROVE  /\ IsFiniteSet(Drawn(c)) /\ Cardinality(Drawn(c)) \in Nat
           /\ Cardinality(Requests) \in Nat
           /\ \A r \in Requests \ Drawn(c) :
                /\ Cardinality(Drawn(c) \cup {r}) = Cardinality(Drawn(c)) + 1
                /\ Cardinality(Drawn(c) \cup {r}) <= Cardinality(Requests)
<1>1. IsFiniteSet(Requests) /\ Drawn(c) \in SUBSET Requests
  BY CoordinatorAssumption DEF Drawn
<1>2. \A S \in SUBSET Requests : IsFiniteSet(S) /\ Cardinality(S) <= Cardinality(Requests)
  BY <1>1, FS_Subset
<1>3. \A r \in Requests \ Drawn(c) : Drawn(c) \cup {r} \in SUBSET Requests
  BY <1>1
<1> QED
  BY <1>1, <1>2, <1>3, FS_CardinalityType, FS_AddElement

LEMMA MessageFields ==
    ASSUME NEW m \in Messages
    PROVE  m.request \in Requests /\ m.seqnum \in Nat
  BY DEF Messages

LEMMA AnswerFields ==
    ASSUME NEW a \in Answers
    PROVE  a.request \in Requests /\ a.about \in Requests /\ a.verdict \in Verdicts
  BY DEF Answers

-------------------------------------------------------------------------------
(* The steps of a task that draw nothing, send nothing and decide nothing  *)

answersVars == <<seqnumCounter, seqnumToCtx, ctx, inbox, answering, drew, recounted, crossed>>

LEMMA TaskOnly ==
    ASSUME AnswersInv, TaskTyped', Numbering', Asking', UNCHANGED answersVars,
           NEW r \in Requests, \A q \in Requests : q # r => task'[q] = task[q],
           \A c \in Clients : Unvisited(r, c)' => Unvisited(r, c),
           task'[r].pc \in Early => task[r].pc \in Early,
           At(r, "notify")' => ctx[r].asked = {}
    PROVE  AnswersInv'
<1>1. /\ seqnumCounter' = seqnumCounter /\ seqnumToCtx' = seqnumToCtx /\ ctx' = ctx
      /\ inbox' = inbox /\ answering' = answering /\ drew' = drew
      /\ recounted' = recounted /\ crossed' = crossed
  BY DEF answersVars
<1>2. /\ \A q \in Requests : \A c \in Clients : Unvisited(q, c)' => Unvisited(q, c)
      /\ \A q \in Requests : task'[q].pc \in Early => task[q].pc \in Early
      /\ \A q \in Requests : At(q, "notify")' => At(q, "notify") \/ ctx[q].asked = {}
  BY <1>1 DEF Unvisited, At
<1>3. ContextTyped' /\ RoutesTyped'
  BY <1>1 DEF AnswersInv, NumbersInv, ContextTyped, RoutesTyped
<1>4. Drawing'
  <2>1. \A c \in Clients : \A m \in inbox[c] : m.request \in Requests
    BY MessageFields DEF AnswersInv, NumbersInv, RoutesTyped
  <2> QED
    BY <1>1, <1>2, <2>1 DEF AnswersInv, NumbersInv, Drawing
<1>5. RoutesLead'
  BY <1>1, <1>2 DEF AnswersInv, NumbersInv, RoutesLead
<1>6. Answering'
  <2>1. \A c \in Clients : answering[c] # Nil => answering[c].request \in Requests
    BY AnswerFields DEF AnswersInv, NumbersInv, RoutesTyped
  <2> QED
    BY <1>1, <1>2, <2>1 DEF AnswersInv, Answering
<1>7. AnswersMatch' /\ StrictPolicy'
  BY <1>1 DEF AnswersInv, AnswersMatch, SharesNumber, StrictPolicy, Denied
<1>8. Undecided'
  <2>1. \A q : (Pending(q)' = Pending(q)) /\ (Exact(q)' <=> Exact(q))
    BY <1>1 DEF Pending, Exact
  <2> QED
    BY <1>1, <1>2, <2>1 DEF AnswersInv, Undecided
<1> QED
  BY <1>3, <1>4, <1>5, <1>6, <1>7, <1>8 DEF AnswersInv, NumbersInv

(* The steps in which a task goes on without a client.                     *)
LEMMA TaskGoesOn ==
    ASSUME AnswersInv, TaskTyped', UNCHANGED answersVars,
           NEW r \in Requests, \A q \in Requests : q # r => task'[q] = task[q],
           task[r].client = Nil, task'[r].client = Nil,
           \/ task[r].pc = "new" /\ task'[r].pc = "find"
           \/ task[r].pc = "find" /\ task'[r].pc \in {"start", "refused"}
           \/ task[r].pc = "start" /\ task'[r].pc \in {"dispatch", "notify"}
           \/ task[r].pc = "dispatch" /\ task'[r].pc = "dispatch" /\ task'[r].todo \subseteq task[r].todo
           \/ /\ task[r].pc = "dispatch" /\ task'[r].pc = "notify"
              /\ ctx[r].asked = {}
           \/ /\ task[r].pc = "dispatch" /\ task'[r].pc = "push"
              /\ task[r].todo = {} /\ task'[r].todo = ctx[r].asked
           \/ task[r].pc = "wait" /\ task'[r].pc \in {"timeout", "build"}
    PROVE  AnswersInv'
<1>1. /\ seqnumCounter' = seqnumCounter /\ ctx' = ctx /\ drew' = drew
  BY DEF answersVars
<1>2. Numbering'
  <2>1. \A c : Drawn(c)' = Drawn(c)
    BY <1>1 DEF Drawn
  <2> QED
    BY <1>1, <2>1 DEF AnswersInv, NumbersInv, Numbering, At
<1>3. Asking'
  BY <1>1 DEF AnswersInv, NumbersInv, Asking, At
<1>4. task[r].pc \in {"new", "find", "refused", "start"} => ctx[r].asked = {}
  BY DEF AnswersInv, NumbersInv, Asking
<1>5. \A c \in Clients : Unvisited(r, c)' => Unvisited(r, c)
  BY DEF Unvisited
<1>6. task'[r].pc \in Early => task[r].pc \in Early
  BY DEF Early
<1>7. At(r, "notify")' => ctx[r].asked = {}
  BY <1>4 DEF At
<1> QED
  BY <1>2, <1>3, <1>5, <1>6, <1>7, TaskOnly

LEMMA RequestAnswers ==
    ASSUME AnswersInv, NEW r \in Requests, NEW D \in SUBSET Clients, RequestAuthResult(r, D)
    PROVE  AnswersInv'
<1>1. /\ UNCHANGED answersVars /\ task[r].pc = "new"
      /\ task' = [task EXCEPT ![r].pc = "find", ![r].degraded = D]
  BY DEF RequestAuthResult, At, answersVars, historyVars
<1>2. /\ TaskTyped' /\ task'[r].pc = "find" /\ task'[r].client = task[r].client
      /\ \A q \in Requests : q # r => task'[q] = task[q]
  BY <1>1, EnteredTask DEF AnswersInv, NumbersInv
<1>3. task[r].client = Nil
  BY <1>1 DEF AnswersInv, NumbersInv, Numbering, At
<1> QED
  BY <1>1, <1>2, <1>3, TaskGoesOn

LEMMA QuietTask ==
    ASSUME AnswersInv, NEW r \in Requests,
           FindProviderLocked(r) \/ ProcessAuthResultAsync(r) \/ Dispatched(r) \/ WaitForCompletion(r)
    PROVE  AnswersInv'
<1>1. /\ TaskTyped' /\ TaskTyped
      /\ \A q \in Requests : q # r => task'[q] = task[q]
  BY TaskMoves DEF TaskStep, AnswersInv, NumbersInv
<1>2. UNCHANGED answersVars /\ task[r].pc \in {"find", "start", "dispatch", "wait"}
  BY DEF FindProviderLocked, ProcessAuthResultAsync, Dispatched, WaitForCompletion, At, answersVars,
         historyVars
<1>3. task[r].client = Nil
  BY <1>2 DEF AnswersInv, NumbersInv, Numbering, At
<1>4. task'[r].client = task[r].client
  BY <1>1 DEF FindProviderLocked, ProcessAuthResultAsync, Dispatched, WaitForCompletion, Goto, TaskTyped
<1>5. \/ task[r].pc = "find" /\ task'[r].pc \in {"start", "refused"}
      \/ task[r].pc = "start" /\ task'[r].pc \in {"dispatch", "notify"}
      \/ /\ task[r].pc = "dispatch" /\ task'[r].pc = "notify"
         /\ ctx[r].asked = {}
      \/ /\ task[r].pc = "dispatch" /\ task'[r].pc = "push"
         /\ task[r].todo = {} /\ task'[r].todo = ctx[r].asked
      \/ task[r].pc = "wait" /\ task'[r].pc \in {"timeout", "build"}
  BY <1>1 DEF FindProviderLocked, ProcessAuthResultAsync, Dispatched, WaitForCompletion, Goto, At,
              TaskTyped
<1> QED
  BY <1>1, <1>2, <1>3, <1>4, <1>5, TaskGoesOn

(* A client of the list is skipped, or its counter is read.                *)
LEMMA VisitAnswers ==
    ASSUME AnswersInv, NEW r \in Requests, NEW c \in Clients, VisitClient(r, c)
    PROVE  AnswersInv'
<1>1. /\ TaskTyped' /\ TaskTyped
      /\ \A q \in Requests : q # r => task'[q] = task[q]
  BY TaskMoves DEF TaskStep, AnswersInv, NumbersInv
<1>2. UNCHANGED answersVars /\ task[r].pc = "dispatch" /\ c \in task[r].todo
  BY DEF VisitClient, At, answersVars, historyVars
<1>3. task[r].client = Nil
  BY <1>2 DEF AnswersInv, NumbersInv, Numbering, At
<1>4. CASE c \notin sessions
  <2>1. /\ task'[r].pc = "dispatch" /\ task'[r].client = Nil
        /\ task'[r].todo \subseteq task[r].todo
    BY <1>1, <1>2, <1>3, <1>4 DEF VisitClient, TaskTyped
  <2> QED
    BY <1>1, <1>2, <1>3, <2>1, TaskGoesOn
<1>5. CASE c \in sessions
  <2>1. /\ task'[r].pc = "number" /\ task'[r].client = c /\ task'[r].seen = seqnumCounter[c]
        /\ task'[r].todo = task[r].todo
    BY <1>1, <1>5 DEF VisitClient, TaskTyped
  <2>2. /\ seqnumCounter' = seqnumCounter /\ ctx' = ctx /\ drew' = drew
    BY <1>2 DEF answersVars
  <2>3. c # Nil
    BY CoordinatorAssumption
  <2>4. Numbering'
    <3>1. \A d : Drawn(d)' = Drawn(d)
      BY <2>2 DEF Drawn
    <3>2. /\ At(r, "number")' /\ task'[r].client # Nil /\ task'[r].client \in task'[r].todo
          /\ task'[r].seen <= Cardinality(Drawn(task'[r].client))
      BY <1>2, <2>1, <2>3 DEF AnswersInv, NumbersInv, Numbering, At
    <3> QED
      BY <1>1, <2>2, <3>1, <3>2 DEF AnswersInv, NumbersInv, Numbering, At
  <2>5. Asking'
    BY <1>1, <1>2, <2>1, <2>2 DEF AnswersInv, NumbersInv, Asking, At
  <2>6. /\ \A d \in Clients : Unvisited(r, d)' => Unvisited(r, d)
        /\ task[r].pc \in Early
        /\ ~At(r, "notify")'
    BY <1>2, <2>1, <2>2 DEF Unvisited, Early, At
  <2> QED
    BY <1>1, <1>2, <2>4, <2>5, <2>6, TaskOnly
<1> QED
  BY <1>4, <1>5
-------------------------------------------------------------------------------
(* The steps of a task that number and send                                *)

(* A request draws a number at a client, its first there; another task may *)
(* have drawn the same.                                                    *)
LEMMA NextNumber ==
    ASSUME NumbersInv, NEW r \in Requests, NEW c \in Clients, At(r, "number"), task[r].client = c,
           seqnumCounter' = [seqnumCounter EXCEPT ![c] = task[r].seen + 1],
           drew' = [drew EXCEPT ![c][r] = task[r].seen + 1],
           VisitDone(r)
    PROVE  /\ task[r].seen + 1 \in Seqnums /\ task[r].seen + 1 \in Nat /\ task[r].seen + 1 # 0
           /\ seqnumCounter' \in [Clients -> Nat]
           /\ drew' \in [Clients -> [Requests -> Seqnums \cup {0}]]
           /\ drew'[c][r] = task[r].seen + 1 /\ drew[c][r] = 0
           /\ \A d \in Clients : \A q \in Requests : (q # r \/ d # c) => drew'[d][q] = drew[d][q]
           /\ c \in task[r].todo
           /\ TaskTyped' /\ task'[r].pc = "dispatch" /\ task'[r].todo = task[r].todo \ {c}
           /\ \A q \in Requests : q # r => task'[q] = task[q]
           /\ \A q \in Requests : \A d \in Clients :
                Unvisited(q, d)' => Unvisited(q, d) /\ (q # r \/ d # c)
           /\ Numbering'
<1>1. /\ task[r].seen <= Cardinality(Drawn(c)) /\ c \in task[r].todo /\ task[r].seen \in Nat
      /\ seqnumCounter \in [Clients -> Nat] /\ TaskTyped /\ task[r].pc = "number"
      /\ drew \in [Clients -> [Requests -> Seqnums \cup {0}]]
  BY TaskFields DEF NumbersInv, Numbering, RoutesTyped, At
<1>2. /\ TaskTyped' /\ task'[r].pc = "dispatch" /\ task'[r].todo = task[r].todo \ {c}
      /\ task'[r].client = Nil
      /\ \A q \in Requests : q # r => task'[q] = task[q]
  <2> DEFINE left == task[r].todo \ {c}
             t == [task[r] EXCEPT !.pc = "dispatch", !.todo = left, !.client = Nil, !.seen = 0]
             T == [pc : Places, degraded : SUBSET Clients, todo : SUBSET Clients,
                   client : Clients \cup {Nil}, seen : Nat]
  <2>1. task \in [Requests -> T] /\ task[r] \in T
    BY <1>1 DEF TaskTyped
  <2>2. task' = [task EXCEPT ![r] = t]
    BY DEF VisitDone
  <2>3. "dispatch" \in Places /\ left \in SUBSET Clients
    BY <1>1, TaskFields DEF Places
  <2>4. /\ t \in T /\ t.pc = "dispatch" /\ t.todo = left /\ t.client = Nil
    <3> HIDE DEF left
    <3> QED
      BY <2>1, <2>3
  <2> HIDE DEF t, T
  <2>5. /\ task' \in [Requests -> T] /\ task'[r] = t
        /\ \A q \in Requests : q # r => task'[q] = task[q]
    BY <2>1, <2>2, <2>4
  <2> QED
    BY <2>4, <2>5 DEF T, TaskTyped
<1>3. drew[c][r] = 0
  BY <1>1 DEF NumbersInv, Drawing, Unvisited
<1>4. /\ \A q \in Requests : \A d \in Clients :
           Unvisited(q, d)' => Unvisited(q, d) /\ (q # r \/ d # c)
  BY <1>1, <1>2 DEF Unvisited
<1>5. /\ Cardinality(Drawn(c) \cup {r}) = Cardinality(Drawn(c)) + 1
      /\ Cardinality(Drawn(c) \cup {r}) <= Cardinality(Requests)
      /\ Cardinality(Drawn(c)) \in Nat /\ Cardinality(Requests) \in Nat
  <2>1. r \in Requests \ Drawn(c)
    BY <1>3 DEF Drawn
  <2> QED
    BY <2>1, DrawnFinite
<1>6. task[r].seen + 1 \in Seqnums /\ task[r].seen + 1 \in Nat /\ task[r].seen + 1 # 0
  BY <1>1, <1>5 DEF Seqnums
<1>7. /\ drew' \in [Clients -> [Requests -> Seqnums \cup {0}]]
      /\ drew'[c][r] = task[r].seen + 1
      /\ \A d \in Clients : \A q \in Requests : (q # r \/ d # c) => drew'[d][q] = drew[d][q]
  <2> DEFINE n == task[r].seen + 1
             Y == Seqnums \cup {0}
  <2>1. n \in Y /\ drew \in [Clients -> [Requests -> Y]] /\ drew' = [drew EXCEPT ![c][r] = n]
    BY <1>1, <1>6
  <2> HIDE DEF n, Y
  <2>2. /\ drew' \in [Clients -> [Requests -> Y]] /\ drew'[c][r] = n
        /\ \A d \in Clients : \A q \in Requests : (q # r \/ d # c) => drew'[d][q] = drew[d][q]
    BY <2>1
  <2> QED
    BY <2>2 DEF n, Y
<1>8. /\ Drawn(c)' = Drawn(c) \cup {r} /\ \A d \in Clients : d # c => Drawn(d)' = Drawn(d)
  BY <1>6, <1>7 DEF Drawn
<1>9. \A d \in Clients : Cardinality(Drawn(d)) <= Cardinality(Drawn(d)')
                         /\ Cardinality(Drawn(d)) \in Nat /\ Cardinality(Drawn(d)') \in Nat
  <2>1. ASSUME NEW d \in Clients, d # c
        PROVE  Cardinality(Drawn(d)) <= Cardinality(Drawn(d)')
               /\ Cardinality(Drawn(d)) \in Nat /\ Cardinality(Drawn(d)') \in Nat
    BY <1>8, <2>1, DrawnFinite
  <2>2. /\ Cardinality(Drawn(c)) <= Cardinality(Drawn(c)')
        /\ Cardinality(Drawn(c)) \in Nat /\ Cardinality(Drawn(c)') \in Nat
    BY <1>5, <1>8
  <2> QED
    BY <2>1, <2>2
<1>10. seqnumCounter' \in [Clients -> Nat] /\ \A d \in Clients : seqnumCounter'[d] <= Cardinality(Drawn(d)')
  <2>1. seqnumCounter' \in [Clients -> Nat] /\ seqnumCounter'[c] = task[r].seen + 1
        /\ \A d \in Clients : d # c => seqnumCounter'[d] = seqnumCounter[d]
    BY <1>1, <1>6
  <2>2. seqnumCounter'[c] <= Cardinality(Drawn(c)')
    BY <1>1, <1>5, <1>8, <2>1
  <2>3. ASSUME NEW d \in Clients, d # c PROVE seqnumCounter'[d] <= Cardinality(Drawn(d)')
    BY <1>8, <2>1, <2>3 DEF NumbersInv, Numbering
  <2> QED
    BY <2>1, <2>2, <2>3
<1>11. Numbering'
  <2>1. ASSUME NEW q \in Requests, q # r
        PROVE  /\ At(q, "number")' <=> task'[q].client # Nil
               /\ At(q, "number")' => /\ task'[q].client \in task'[q].todo
                                      /\ (task[q].seen <= Cardinality(Drawn(task[q].client)))'
    <3>1. /\ At(q, "number") <=> task[q].client # Nil
          /\ At(q, "number") => /\ task[q].client \in task[q].todo
                                /\ task[q].seen <= Cardinality(Drawn(task[q].client))
      BY DEF NumbersInv, Numbering
    <3>2. (At(q, "number")' <=> At(q, "number")) /\ task'[q] = task[q]
      BY <1>2, <2>1 DEF At
    <3>3. ASSUME At(q, "number") PROVE (task[q].seen <= Cardinality(Drawn(task[q].client)))'
      <4>1. PICK e \in Clients : e = task[q].client
        BY <1>1, <3>1, <3>3, TaskFields
      <4>2. task[q].seen <= Cardinality(Drawn(e)) /\ task[q].seen \in Nat
        BY <1>1, <3>1, <3>3, <4>1, TaskFields
      <4>3. task[q].seen <= Cardinality(Drawn(e)')
        BY <1>9, <4>1, <4>2
      <4>4. (task[q].seen <= Cardinality(Drawn(task[q].client)))' <=>
                task'[q].seen <= Cardinality({t \in Requests : drew'[task'[q].client][t] # 0})
        BY DEF Drawn
      <4> QED
        BY <3>2, <4>1, <4>3, <4>4 DEF Drawn
    <3> QED
      BY <3>1, <3>2, <3>3
  <2>2. ~At(r, "number")' /\ task'[r].client = Nil
    BY <1>2 DEF At
  <2> QED
    BY <1>10, <2>1, <2>2 DEF Numbering
<1> QED
  BY <1>1, <1>2, <1>3, <1>4, <1>6, <1>7, <1>10, <1>11

(* Numbers that are shared stay so, and an answer on its way keeps to its  *)
(* number.                                                                 *)
LEMMA DrawKeeps ==
    ASSUME NEW r \in Requests, NEW c \in Clients, drew[c][r] = 0,
           \A d \in Clients : \A q \in Requests : (q # r \/ d # c) => drew'[d][q] = drew[d][q]
    PROVE  \A d \in Clients : \A q \in Requests :
             /\ drew[d][q] # 0 => drew'[d][q] = drew[d][q]
             /\ SharesNumber(q, d) => SharesNumber(q, d)'
<1>1. \A d \in Clients : \A q \in Requests : drew[d][q] # 0 => drew'[d][q] = drew[d][q]
  OBVIOUS
<1>2. ASSUME NEW d \in Clients, NEW q \in Requests, SharesNumber(q, d) PROVE SharesNumber(q, d)'
  <2>1. PICK s \in Requests \ {q} : drew[d][s] = drew[d][q] /\ drew[d][q] # 0
    BY <1>2 DEF SharesNumber
  <2> QED
    BY <1>1, <2>1 DEF SharesNumber
<1> QED
  BY <1>1, <1>2

(* An event on its way to a client.                                        *)
LEMMA PushTyped ==
    ASSUME RoutesTyped, NEW c \in Clients, NEW r \in Requests, NEW n \in Nat, Push(c, r, n)
    PROVE  /\ inbox' \in [Clients -> SUBSET Messages]
           /\ \A d \in Clients : \A m \in inbox'[d] :
                m \in inbox[d] \/ (d = c /\ m.request = r /\ m.seqnum = n)
<1> DEFINE m == [request |-> r, seqnum |-> n]
<1>1. m \in Messages /\ m.request = r /\ m.seqnum = n
  BY DEF Messages
<1>2. inbox' = inbox \/ inbox' = [inbox EXCEPT ![c] = @ \cup {m}]
  BY DEF Push
<1>3. inbox \in [Clients -> SUBSET Messages]
  BY DEF RoutesTyped
<1> HIDE DEF m
<1>4. /\ inbox' \in [Clients -> SUBSET Messages]
      /\ \A d \in Clients : d # c => inbox'[d] = inbox[d]
      /\ inbox'[c] \subseteq inbox[c] \cup {m}
  BY <1>1, <1>2, <1>3
<1> QED
  BY <1>1, <1>4

(* A degraded client is told under a number nobody waits for.              *)
LEMMA DegradedAnswers ==
    ASSUME AnswersInv, NEW r \in Requests, NotifyDegradedClient(r)
    PROVE  AnswersInv'
<1> DEFINE c == task[r].client
           n == task[r].seen + 1
<1>1. NumbersInv /\ At(r, "number") /\ task[r].pc = "number"
  BY DEF AnswersInv, NotifyDegradedClient, At
<1>2. c \in Clients
  BY <1>1, TaskFields DEF NumbersInv, Numbering
<1>3. /\ seqnumCounter' = [seqnumCounter EXCEPT ![c] = n] /\ drew' = [drew EXCEPT ![c][r] = n]
      /\ VisitDone(r) /\ Push(c, r, n)
      /\ UNCHANGED <<ctx, seqnumToCtx, answering, recounted, crossed>>
  BY DEF NotifyDegradedClient
<1>4. /\ n \in Seqnums /\ n \in Nat /\ n # 0
      /\ seqnumCounter' \in [Clients -> Nat]
      /\ drew' \in [Clients -> [Requests -> Seqnums \cup {0}]]
      /\ drew'[c][r] = n /\ drew[c][r] = 0
      /\ \A d \in Clients : \A q \in Requests : (q # r \/ d # c) => drew'[d][q] = drew[d][q]
      /\ c \in task[r].todo
      /\ TaskTyped' /\ task'[r].pc = "dispatch" /\ task'[r].todo = task[r].todo \ {c}
      /\ \A q \in Requests : q # r => task'[q] = task[q]
      /\ \A q \in Requests : \A d \in Clients :
           Unvisited(q, d)' => Unvisited(q, d) /\ (q # r \/ d # c)
      /\ Numbering'
  <2>1. /\ seqnumCounter' = [seqnumCounter EXCEPT ![c] = n] /\ drew' = [drew EXCEPT ![c][r] = n]
        /\ VisitDone(r)
    BY <1>3
  <2> QED
    BY <1>1, <1>2, <2>1, NextNumber
<1>5. RoutesTyped
  BY <1>1 DEF NumbersInv
<1>6. /\ inbox' \in [Clients -> SUBSET Messages]
      /\ \A d \in Clients : \A m \in inbox'[d] :
           m \in inbox[d] \/ (d = c /\ m.request = r /\ m.seqnum = n)
  BY <1>2, <1>3, <1>4, <1>5, PushTyped
<1> HIDE DEF c, n
<1>7. \A d \in Clients : \A q \in Requests :
        /\ drew[d][q] # 0 => drew'[d][q] = drew[d][q]
        /\ SharesNumber(q, d) => SharesNumber(q, d)'
  BY <1>2, <1>4, DrawKeeps
<1>8. ContextTyped' /\ RoutesTyped'
  BY <1>1, <1>3, <1>4, <1>6 DEF NumbersInv, ContextTyped, RoutesTyped
<1>9. c \notin ctx[r].asked
  BY <1>1, <1>4 DEF NumbersInv, Asking
<1>10. \A q \in Requests : task'[q].pc \in Early <=> task[q].pc \in Early
  BY <1>1, <1>4 DEF Early
<1>11. Drawing'
  <2>1. \A q \in Requests : \A d \in Clients : Unvisited(q, d)' => drew'[d][q] = 0
    BY <1>1, <1>4 DEF NumbersInv, Drawing
  <2>2. \A q \in Requests : \A d \in ctx[q].asked :
          ctx[q].number[d] = drew'[d][q] /\ drew'[d][q] # 0
    <3>1. \A q \in Requests : ctx[q].asked \in SUBSET Clients
      BY <1>1, ContextFields DEF NumbersInv, ContextTyped
    <3> QED
      BY <1>1, <1>7, <3>1 DEF NumbersInv, Drawing
  <2>3. ASSUME NEW d \in Clients, NEW m \in inbox'[d]
        PROVE  /\ drew'[d][m.request] = m.seqnum /\ m.seqnum # 0
               /\ d \in ctx[m.request].asked => task'[m.request].pc \notin Early
    <3>1. CASE d = c /\ m.request = r /\ m.seqnum = n
      BY <1>4, <1>9, <3>1
    <3>2. CASE m \in inbox[d]
      <4>1. m.request \in Requests
        BY <1>5, <3>2, MessageFields DEF RoutesTyped
      <4> QED
        BY <1>1, <1>7, <1>10, <3>2, <4>1 DEF NumbersInv, Drawing
    <3> QED
      BY <1>6, <3>1, <3>2
  <2> QED
    BY <1>3, <2>1, <2>2, <2>3 DEF Drawing
<1>12. Asking' /\ RoutesLead'
  BY <1>1, <1>3, <1>4 DEF NumbersInv, Asking, RoutesLead, At
<1>13. Answering'
  <2>1. \A d \in Clients : answering[d] # Nil =>
          answering[d].request \in Requests /\ answering[d].about \in Requests
    BY <1>5, AnswerFields DEF RoutesTyped
  <2> QED
    BY <1>3, <1>7, <1>10, <2>1 DEF AnswersInv, Answering
<1>14. AnswersMatch'
  BY <1>3, <1>5, <1>7 DEF AnswersInv, AnswersMatch, RoutesTyped
<1>15. Undecided' /\ StrictPolicy'
  <2>1. \A q : (Pending(q)' = Pending(q)) /\ (Exact(q)' <=> Exact(q))
    BY <1>3 DEF Pending, Exact
  <2> QED
    BY <1>3, <1>10, <2>1 DEF AnswersInv, Undecided, StrictPolicy, Denied
<1> QED
  BY <1>4, <1>8, <1>11, <1>12, <1>13, <1>14, <1>15 DEF AnswersInv, NumbersInv

(* A client that may answer is counted, and its number leads to the        *)
(* request, before anybody is sent anything.                               *)
LEMMA RegisterAnswers ==
    ASSUME AnswersInv, NEW r \in Requests, RegisterNormalClient(r)
    PROVE  AnswersInv'
<1> DEFINE c == task[r].client
           n == task[r].seen + 1
           y == AskedContext(ctx[r], c, n)
<1>1. NumbersInv /\ At(r, "number") /\ task[r].pc = "number"
  BY DEF AnswersInv, RegisterNormalClient, At
<1>2. c \in Clients
  BY <1>1, TaskFields DEF NumbersInv, Numbering
<1>3. /\ seqnumCounter' = [seqnumCounter EXCEPT ![c] = n] /\ drew' = [drew EXCEPT ![c][r] = n]
      /\ VisitDone(r)
      /\ ctx' = [ctx EXCEPT ![r] = y]
      /\ seqnumToCtx' = [seqnumToCtx EXCEPT ![c][n] = r]
      /\ UNCHANGED <<inbox, answering, recounted, crossed>>
  BY DEF RegisterNormalClient, AskedContext
<1>4. /\ n \in Seqnums /\ n \in Nat /\ n # 0
      /\ seqnumCounter' \in [Clients -> Nat]
      /\ drew' \in [Clients -> [Requests -> Seqnums \cup {0}]]
      /\ drew'[c][r] = n /\ drew[c][r] = 0
      /\ \A d \in Clients : \A q \in Requests : (q # r \/ d # c) => drew'[d][q] = drew[d][q]
      /\ c \in task[r].todo
      /\ TaskTyped' /\ task'[r].pc = "dispatch" /\ task'[r].todo = task[r].todo \ {c}
      /\ \A q \in Requests : q # r => task'[q] = task[q]
      /\ \A q \in Requests : \A d \in Clients :
           Unvisited(q, d)' => Unvisited(q, d) /\ (q # r \/ d # c)
      /\ Numbering'
  BY <1>1, <1>2, <1>3, NextNumber
<1>5. RoutesTyped /\ ContextTyped /\ ctx[r] \in Contexts /\ IsFiniteSet(ctx[r].asked)
  BY <1>1 DEF NumbersInv, ContextTyped
<1>6. /\ y \in Contexts
      /\ y.asked = ctx[r].asked \cup {c} /\ y.number = [ctx[r].number EXCEPT ![c] = n]
      /\ y.sentClientCount = ctx[r].sentClientCount + 1
      /\ y.clientResults = ctx[r].clientResults /\ y.completed = ctx[r].completed
      /\ y.merged = ctx[r].merged
  <2>1. ctx[r] \in Contexts /\ n \in Nat
    BY <1>4, <1>5
  <2> QED
    BY <1>2, <2>1, AskedFields
<1> HIDE DEF c, n, y
<1>7. ContextTyped' /\ ctx'[r] = y /\ \A q \in Requests : q # r => ctx'[q] = ctx[q]
  <2>1. IsFiniteSet(y.asked)
    BY <1>5, <1>6, FS_AddElement
  <2> QED
    BY <1>3, <1>5, <1>6, <2>1, ContextUpdate
<1>8. /\ \A q \in Requests : \A d \in Clients : (q # r \/ d # c) =>
           /\ d \in ctx'[q].asked <=> d \in ctx[q].asked
           /\ ctx'[q].number[d] = ctx[q].number[d]
      /\ c \in ctx'[r].asked /\ ctx'[r].number[c] = n
      /\ \A q \in Requests : /\ ctx'[q].clientResults = ctx[q].clientResults
                             /\ ctx'[q].completed = ctx[q].completed
                             /\ ctx'[q].merged = ctx[q].merged
                             /\ ctx[q].asked \subseteq ctx'[q].asked
                             /\ ctx'[q].asked \subseteq Clients
  <2>1. ctx[r].number \in [Clients -> Nat] /\ ctx[r].asked \subseteq Clients
    BY <1>5, ContextFields
  <2>2. \A q \in Requests : ctx'[q].asked \subseteq Clients
    BY <1>7, ContextFields DEF ContextTyped
  <2> QED
    BY <1>2, <1>4, <1>6, <1>7, <2>1, <2>2
<1>9. \A d \in Clients : \A q \in Requests :
        /\ drew[d][q] # 0 => drew'[d][q] = drew[d][q]
        /\ SharesNumber(q, d) => SharesNumber(q, d)'
  BY <1>2, <1>4, DrawKeeps
<1>10. c \notin ctx[r].asked /\ ctx[r].clientResults[c] = "none"
  <2>1. c \notin ctx[r].asked
    BY <1>1, <1>4 DEF NumbersInv, Asking
  <2> QED
    BY <1>2, <2>1 DEF AnswersInv, Undecided
<1>11. \A q \in Requests : task'[q].pc \in Early <=> task[q].pc \in Early
  BY <1>1, <1>4 DEF Early
<1>12. Drawing'
  <2>1. \A q \in Requests : \A d \in Clients : Unvisited(q, d)' => drew'[d][q] = 0
    BY <1>1, <1>4 DEF NumbersInv, Drawing
  <2>2. ASSUME NEW q \in Requests, NEW d \in ctx'[q].asked
        PROVE  ctx'[q].number[d] = drew'[d][q] /\ drew'[d][q] # 0
    <3>1. d \in Clients
      BY <1>8
    <3>2. CASE q = r /\ d = c
      BY <1>4, <1>8, <3>2
    <3>3. CASE q # r \/ d # c
      BY <1>1, <1>8, <1>9, <3>1, <3>3 DEF NumbersInv, Drawing
    <3> QED
      BY <3>2, <3>3
  <2>3. ASSUME NEW d \in Clients, NEW m \in inbox[d]
        PROVE  /\ drew'[d][m.request] = m.seqnum /\ m.seqnum # 0
               /\ d \in ctx'[m.request].asked => task'[m.request].pc \notin Early
    <3>1. m.request \in Requests /\ drew[d][m.request] = m.seqnum /\ m.seqnum # 0
      BY <1>1, <1>5, MessageFields DEF NumbersInv, Drawing, RoutesTyped
    <3>2. m.request # r \/ d # c
      BY <1>4, <3>1
    <3> QED
      BY <1>1, <1>8, <1>9, <1>11, <3>1, <3>2 DEF NumbersInv, Drawing
  <2> QED
    BY <1>3, <2>1, <2>2, <2>3 DEF Drawing
<1>13. Asking'
  BY <1>1, <1>4, <1>6, <1>7 DEF NumbersInv, Asking, At
<1>14. /\ seqnumToCtx' \in [Clients -> [Seqnums -> Requests \cup {Nil}]]
       /\ seqnumToCtx'[c][n] = r
       /\ \A d \in Clients : \A k \in Seqnums : (d # c \/ k # n) =>
            seqnumToCtx'[d][k] = seqnumToCtx[d][k]
  BY <1>2, <1>3, <1>4, <1>5 DEF RoutesTyped
<1>15. RoutesTyped'
  BY <1>3, <1>4, <1>5, <1>14 DEF RoutesTyped
<1>16. RoutesLead'
  <2> SUFFICES ASSUME NEW d \in Clients, NEW k \in Seqnums, NEW q \in Requests, seqnumToCtx'[d][k] = q
               PROVE  d \in ctx'[q].asked /\ ctx'[q].number[d] = k /\ ~At(q, "notify")'
    BY DEF RoutesLead
  <2>1. CASE d = c /\ k = n
    BY <1>4, <1>8, <1>14, <2>1 DEF At
  <2>2. CASE d # c \/ k # n
    <3>1. d \in ctx[q].asked /\ ctx[q].number[d] = k /\ ~At(q, "notify")
      BY <1>1, <1>14, <2>2 DEF NumbersInv, RoutesLead
    <3>2. q # r \/ d # c
      BY <1>10, <3>1
    <3> QED
      BY <1>4, <1>8, <3>1, <3>2 DEF At
  <2> QED
    BY <2>1, <2>2
<1>17. Answering'
  <2>1. \A d \in Clients : answering[d] # Nil =>
          answering[d].request \in Requests /\ answering[d].about \in Requests
    BY <1>5, AnswerFields DEF RoutesTyped
  <2> QED
    BY <1>3, <1>8, <1>9, <1>11, <2>1 DEF AnswersInv, Answering
<1>18. AnswersMatch'
  BY <1>3, <1>5, <1>9 DEF AnswersInv, AnswersMatch, RoutesTyped
<1>19. Undecided'
  <2>1. Exact(r) /\ ~ctx[r].completed => ctx'[r].sentClientCount = Cardinality(Pending(r)')
    <3>1. Pending(r)' = Pending(r) \cup {c} /\ c \notin Pending(r)
      BY <1>6, <1>7, <1>10 DEF Pending
    <3>2. Cardinality(Pending(r)') = Cardinality(Pending(r)) + 1
      BY <1>5, <3>1, PendingFinite, FS_AddElement
    <3> QED
      BY <1>6, <1>7, <3>2 DEF AnswersInv, Undecided
  <2>2. \A q \in Requests : q # r => ctx'[q] = ctx[q] /\ Pending(q)' = Pending(q)
    BY <1>7 DEF Pending
  <2>3. \A q : Exact(q)' <=> Exact(q)
    BY <1>3 DEF Exact
  <2> QED
    BY <1>3, <1>8, <1>11, <2>1, <2>2, <2>3 DEF AnswersInv, Undecided
<1>20. StrictPolicy'
  <2>1. ctx[r].completed => ~Exact(r)
    BY <1>1 DEF AnswersInv, Undecided, Exact, Early
  <2>2. \A q \in Requests : Denied(q)' <=> Denied(q)
    BY <1>6, <1>7, <1>10 DEF Denied
  <2> QED
    BY <1>3, <1>7, <1>8, <2>1, <2>2 DEF AnswersInv, StrictPolicy, Exact
<1> QED
  BY <1>4, <1>7, <1>12, <1>13, <1>15, <1>16, <1>17, <1>18, <1>19, <1>20 DEF AnswersInv, NumbersInv

(* The event is pushed to a client under the number the client was asked   *)
(* by: from now on it may answer.                                          *)
LEMMA PushAnswers ==
    ASSUME AnswersInv, NEW r \in Requests, NEW c \in Clients, PushEventToClient(r, c)
    PROVE  AnswersInv'
<1> DEFINE n == ctx[r].number[c]
<1>1. /\ NumbersInv /\ task[r].pc = "push" /\ c \in task[r].todo /\ Push(c, r, n)
      /\ UNCHANGED <<seqnumCounter, seqnumToCtx, ctx, answering, drew, recounted, crossed>>
  BY DEF AnswersInv, PushEventToClient, At, historyVars
<1>2. TaskTyped /\ RoutesTyped /\ ContextTyped
  BY <1>1 DEF NumbersInv
<1>3. /\ TaskTyped' /\ \A q \in Requests : q # r => task'[q] = task[q]
  BY <1>2, TaskMoves DEF TaskStep
<1>4. /\ task'[r].todo = task[r].todo \ {c} /\ task'[r].client = task[r].client
      /\ task'[r].pc \in {"push", "wait"}
  BY <1>2 DEF PushEventToClient, TaskTyped
<1>5. c \in ctx[r].asked /\ task[r].client = Nil
  BY <1>1 DEF NumbersInv, Asking, Numbering, At
<1>6. n \in Nat /\ n = drew[c][r] /\ n # 0
  <2>1. ctx[r] \in Contexts
    BY <1>2 DEF ContextTyped
  <2> QED
    BY <1>1, <1>5, <2>1, ContextFields DEF NumbersInv, Drawing
<1>7. /\ inbox' \in [Clients -> SUBSET Messages]
      /\ \A d \in Clients : \A m \in inbox'[d] :
           m \in inbox[d] \/ (d = c /\ m.request = r /\ m.seqnum = n)
  BY <1>1, <1>2, <1>6, PushTyped
<1> HIDE DEF n
<1>8. /\ \A q \in Requests : \A d \in Clients : Unvisited(q, d)' <=> Unvisited(q, d)
      /\ \A q \in Requests : task'[q].pc \in Early <=> task[q].pc \in Early
      /\ task'[r].pc \notin Early
  BY <1>1, <1>3, <1>4 DEF Unvisited, Early
<1>9. ContextTyped' /\ RoutesTyped'
  BY <1>1, <1>2, <1>7 DEF ContextTyped, RoutesTyped
<1>10. Numbering' /\ Asking' /\ RoutesLead'
  <2>1. \A d : Drawn(d)' = Drawn(d)
    BY <1>1 DEF Drawn
  <2>2. ~At(r, "number") /\ ~At(r, "number")'
    BY <1>1, <1>4 DEF At
  <2>3. Numbering'
    BY <1>1, <1>3, <1>4, <1>5, <2>1, <2>2 DEF NumbersInv, Numbering, At
  <2>4. Asking' /\ RoutesLead'
    BY <1>1, <1>3, <1>4 DEF NumbersInv, Asking, RoutesLead, At
  <2> QED
    BY <2>3, <2>4
<1>11. Drawing'
  <2>1. ASSUME NEW d \in Clients, NEW m \in inbox'[d]
        PROVE  /\ drew[d][m.request] = m.seqnum /\ m.seqnum # 0
               /\ d \in ctx[m.request].asked => task'[m.request].pc \notin Early
    <3>1. CASE d = c /\ m.request = r /\ m.seqnum = n
      BY <1>6, <1>8, <3>1
    <3>2. CASE m \in inbox[d]
      <4>1. m.request \in Requests
        BY <1>2, <3>2, MessageFields DEF RoutesTyped
      <4> QED
        BY <1>1, <1>8, <3>2, <4>1 DEF NumbersInv, Drawing
    <3> QED
      BY <1>7, <3>1, <3>2
  <2> QED
    BY <1>1, <1>8, <2>1 DEF NumbersInv, Drawing
<1>12. Answering'
  <2>1. \A d \in Clients : answering[d] # Nil => answering[d].request \in Requests
    BY <1>2, AnswerFields DEF RoutesTyped
  <2> QED
    BY <1>1, <1>8, <2>1 DEF AnswersInv, Answering
<1>13. AnswersMatch' /\ StrictPolicy'
  BY <1>1 DEF AnswersInv, AnswersMatch, SharesNumber, StrictPolicy, Denied
<1>14. Undecided'
  <2>1. \A q : (Pending(q)' = Pending(q)) /\ (Exact(q)' <=> Exact(q))
    BY <1>1 DEF Pending, Exact
  <2> QED
    BY <1>1, <1>8, <2>1 DEF AnswersInv, Undecided
<1> QED
  BY <1>3, <1>9, <1>10, <1>11, <1>12, <1>13, <1>14 DEF AnswersInv, NumbersInv


-------------------------------------------------------------------------------
(* The steps of a task that decide, forget and tell                        *)

(* What a step of a task past its pushes owes to the numbers: it moves on  *)
(* and nobody is visited, numbered or routed anew.                         *)
LEMMA LateTask ==
    ASSUME NumbersInv, TaskTyped', ContextTyped', RoutesTyped', NEW r \in Requests,
           \A q \in Requests : q # r => task'[q] = task[q] /\ ctx'[q] = ctx[q],
           UNCHANGED <<seqnumCounter, inbox, drew>>,
           task[r].pc \in {"timeout", "build", "notify"},
           task'[r].pc \in {"build", "notify", "done"}, task'[r].client = Nil,
           /\ ctx'[r].asked = ctx[r].asked /\ ctx'[r].number = ctx[r].number
              /\ task'[r].pc # "done"
           \/ ctx'[r].asked = {},
           \A c \in Clients : \A n \in Seqnums : \A q \in Requests : seqnumToCtx'[c][n] = q =>
             seqnumToCtx[c][n] = q /\ (q = r => task'[r].pc = "build" /\ ctx'[r].asked = ctx[r].asked
                                               /\ ctx'[r].number = ctx[r].number)
    PROVE  NumbersInv'
<1>1. /\ \A q \in Requests : \A c \in Clients : Unvisited(q, c)' <=> Unvisited(q, c)
      /\ \A q \in Requests : task'[q].pc \in Early => task[q].pc \in Early
  BY DEF Unvisited, Early
<1>2. task[r].client = Nil
  BY DEF NumbersInv, Numbering, At
<1>3. Numbering'
  <2>1. \A c : Drawn(c)' = Drawn(c)
    BY DEF Drawn
  <2> QED
    BY <1>2, <2>1 DEF NumbersInv, Numbering, At
<1>4. Asking'
  BY DEF NumbersInv, Asking, At
<1>5. RoutesLead'
  BY DEF NumbersInv, RoutesLead, At
<1>6. Drawing'
  <2>1. \A c \in Clients : \A m \in inbox[c] : m.request \in Requests
    BY MessageFields DEF NumbersInv, RoutesTyped
  <2>2. \A q \in Requests : \A c \in Clients : Unvisited(q, c)' => drew'[c][q] = 0
    BY <1>1 DEF NumbersInv, Drawing
  <2>3. \A q \in Requests : \A c \in ctx'[q].asked :
          c \in ctx[q].asked /\ ctx'[q].number = ctx[q].number
    OBVIOUS
  <2>4. \A q \in Requests : \A c \in ctx'[q].asked :
          ctx'[q].number[c] = drew'[c][q] /\ drew'[c][q] # 0
    BY <2>3 DEF NumbersInv, Drawing
  <2>5. \A c \in Clients : \A m \in inbox'[c] :
          /\ drew'[c][m.request] = m.seqnum /\ m.seqnum # 0
          /\ c \in ctx'[m.request].asked => task'[m.request].pc \notin Early
    BY <1>1, <2>1, <2>3 DEF NumbersInv, Drawing
  <2> QED
    BY <2>2, <2>4, <2>5 DEF Drawing
<1> QED
  BY <1>3, <1>4, <1>5, <1>6 DEF NumbersInv

(* Time is up: whoever is late is taken at its strategy.                   *)
LEMMA TimeoutAnswers ==
    ASSUME AnswersInv, NEW r \in Requests, HandleTimeout(r)
    PROVE  AnswersInv'
<1> DEFINE f == [c \in Clients |-> IF c \in Pending(r) THEN TimeoutResult(c)
                                                       ELSE ctx[r].clientResults[c]]
           v == IF \E c \in Pending(r) : Strategy[c] = "DENY" THEN "DENY"
                ELSE IF ctx[r].completed THEN ctx[r].merged ELSE "ALLOW"
           y == LateContext(ctx[r], f, v)
<1>1. /\ ctx' = [ctx EXCEPT ![r] = y] /\ task[r].pc = "timeout" /\ Goto(r, "build")
      /\ UNCHANGED <<seqnumCounter, seqnumToCtx, inbox, answering, drew, recounted, crossed>>
  BY DEF HandleTimeout, At, LateContext, historyVars
<1>2. /\ NumbersInv /\ TaskTyped /\ ContextTyped /\ RoutesTyped
      /\ ctx[r] \in Contexts /\ IsFiniteSet(ctx[r].asked)
  BY DEF AnswersInv, NumbersInv, ContextTyped
<1>3. f \in [Clients -> {"none", "ALLOW", "DENY", "TIMEOUT"}] /\ v \in Verdicts
  BY <1>2, ContextFields DEF TimeoutResult, Verdicts
<1>4. /\ \A c \in Pending(r) : f[c] = IF Strategy[c] = "DENY" THEN "DENY" ELSE "TIMEOUT"
      /\ \A c \in Clients \ Pending(r) : f[c] = ctx[r].clientResults[c]
      /\ Pending(r) \subseteq ctx[r].asked /\ ctx[r].asked \subseteq Clients
      /\ \A c \in ctx[r].asked : c \in Pending(r) <=> ctx[r].clientResults[c] = "none"
  BY <1>2, ContextFields DEF TimeoutResult, Pending
<1>5. /\ (\E c \in Pending(r) : Strategy[c] = "DENY") => v = "DENY"
      /\ (\A c \in Pending(r) : Strategy[c] # "DENY") =>
            v = IF ctx[r].completed THEN ctx[r].merged ELSE "ALLOW"
  OBVIOUS
<1>6. y = LateContext(ctx[r], f, v)
  OBVIOUS
<1> HIDE DEF f, v, y
<1>7. /\ y \in Contexts
      /\ y.clientResults = f /\ y.merged = v /\ y.completed
      /\ y.asked = ctx[r].asked /\ y.number = ctx[r].number
  BY <1>2, <1>3, <1>6, LateFields
<1>8. ContextTyped' /\ ctx'[r] = y /\ \A q \in Requests : q # r => ctx'[q] = ctx[q]
  BY <1>1, <1>2, <1>7, ContextUpdate
<1>9. /\ TaskTyped' /\ task'[r].pc = "build" /\ task'[r].client = task[r].client
      /\ \A q \in Requests : q # r => task'[q] = task[q]
  BY <1>1, <1>2 DEF Goto, TaskTyped, Places
<1>10. NumbersInv'
  <2>1. task[r].client = Nil
    BY <1>1, <1>2 DEF NumbersInv, Numbering, At
  <2>2. RoutesTyped'
    BY <1>1, <1>2 DEF RoutesTyped
  <2> QED
    BY <1>1, <1>2, <1>7, <1>8, <1>9, <2>1, <2>2, LateTask
<1>11. /\ \A q \in Requests : q # r => Pending(q)' = Pending(q) /\ (Denied(q)' <=> Denied(q))
       /\ \A q \in Requests : Exact(q)' <=> Exact(q)
       /\ \A q \in Requests : task'[q].pc \in Early => task[q].pc \in Early /\ q # r
  BY <1>1, <1>8, <1>9 DEF Pending, Denied, Exact, Early
<1>12. Answering' /\ AnswersMatch'
  <2>1. \A c \in Clients : answering[c] # Nil => answering[c].request \in Requests
    BY <1>2, AnswerFields DEF RoutesTyped
  <2>2. Answering'
    BY <1>1, <1>7, <1>8, <1>11, <2>1 DEF AnswersInv, Answering
  <2> QED
    BY <1>1, <2>2 DEF AnswersInv, AnswersMatch, SharesNumber
<1>13. Undecided'
  <2>1. \A c \in Clients \ ctx[r].asked : f[c] = "none"
    BY <1>4 DEF AnswersInv, Undecided
  <2> QED
    BY <1>1, <1>7, <1>8, <1>11, <2>1 DEF AnswersInv, Undecided
<1>14. StrictPolicy'
  <2>1. /\ v = IF \E c \in ctx[r].asked : f[c] = "DENY" THEN "DENY" ELSE "ALLOW"
        /\ \A c \in ctx[r].asked : f[c] # "none"
    <3>1. \A c \in ctx[r].asked : f[c] # "none"
      BY <1>4
    <3>2. CASE \E c \in Pending(r) : Strategy[c] = "DENY"
      BY <1>4, <1>5, <3>1, <3>2
    <3>3. CASE \A c \in Pending(r) : Strategy[c] # "DENY"
      <4>1. v = IF ctx[r].completed THEN ctx[r].merged ELSE "ALLOW"
        BY <1>5, <3>3
      <4>2. \A c \in ctx[r].asked : f[c] = "DENY" <=> ctx[r].clientResults[c] = "DENY"
        BY <1>4, <3>3
      <4>3. CASE ctx[r].completed
        BY <3>1, <4>1, <4>2, <4>3 DEF AnswersInv, StrictPolicy, Denied
      <4>4. CASE ~ctx[r].completed
        <5>1. \A c \in ctx[r].asked : ctx[r].clientResults[c] # "DENY"
          BY <1>4, <4>4 DEF AnswersInv, Undecided
        <5> QED
          BY <3>1, <4>1, <4>2, <4>4, <5>1
      <4> QED
        BY <4>3, <4>4
    <3> QED
      BY <3>2, <3>3
  <2>2. ctx'[r].merged = IF Denied(r)' THEN "DENY" ELSE "ALLOW"
    BY <1>7, <1>8, <2>1 DEF Denied
  <2> QED
    BY <1>1, <1>7, <1>8, <1>11, <2>1, <2>2 DEF AnswersInv, StrictPolicy
<1> QED
  BY <1>10, <1>12, <1>13, <1>14 DEF AnswersInv

(* The routes to the request are gone before its provider is told.         *)
LEMMA BuildAnswers ==
    ASSUME AnswersInv, NEW r \in Requests, BuildAuthResult(r)
    PROVE  AnswersInv'
<1>1. /\ task[r].pc = "build" /\ Goto(r, "notify")
      /\ UNCHANGED <<seqnumCounter, ctx, inbox, answering, drew, recounted, crossed>>
      /\ seqnumToCtx' = [c \in Clients |->
                           IF c \in ctx[r].asked
                           THEN [seqnumToCtx[c] EXCEPT ![ctx[r].number[c]] = Nil]
                           ELSE seqnumToCtx[c]]
  BY DEF BuildAuthResult, At, historyVars
<1>2. /\ NumbersInv /\ TaskTyped /\ ContextTyped /\ RoutesTyped
      /\ Nil \notin Requests
  BY CoordinatorAssumption DEF AnswersInv, NumbersInv
<1>3. /\ TaskTyped' /\ task'[r].pc = "notify" /\ task'[r].client = task[r].client
      /\ \A q \in Requests : q # r => task'[q] = task[q]
  BY <1>1, <1>2 DEF Goto, TaskTyped, Places
<1>4. seqnumToCtx' \in [Clients -> [Seqnums -> Requests \cup {Nil}]]
  BY <1>1, <1>2 DEF RoutesTyped
<1>5. ASSUME NEW c \in Clients, NEW n \in Seqnums, NEW q \in Requests, seqnumToCtx'[c][n] = q
      PROVE  seqnumToCtx[c][n] = q /\ q # r
  <2>1. seqnumToCtx[c] \in [Seqnums -> Requests \cup {Nil}]
    BY <1>2 DEF RoutesTyped
  <2>2. \/ seqnumToCtx'[c][n] = Nil
        \/ seqnumToCtx'[c][n] = seqnumToCtx[c][n] /\ (c \in ctx[r].asked => n # ctx[r].number[c])
    BY <1>1, <2>1
  <2>3. seqnumToCtx[c][n] = q /\ (c \in ctx[r].asked => n # ctx[r].number[c])
    BY <1>2, <1>5, <2>2
  <2> QED
    BY <1>2, <2>3 DEF NumbersInv, RoutesLead
<1>6. NumbersInv'
  <2>1. task[r].client = Nil
    BY <1>1, <1>2 DEF NumbersInv, Numbering, At
  <2>2. RoutesTyped' /\ ContextTyped'
    BY <1>1, <1>2, <1>4 DEF RoutesTyped, ContextTyped
  <2> QED
    BY <1>1, <1>2, <1>3, <1>5, <2>1, <2>2, LateTask
<1>7. /\ \A q \in Requests : Pending(q)' = Pending(q) /\ (Denied(q)' <=> Denied(q))
      /\ \A q \in Requests : Exact(q)' <=> Exact(q)
      /\ \A q \in Requests : task'[q].pc \in Early => task[q].pc \in Early
  BY <1>1, <1>3 DEF Pending, Denied, Exact, Early
<1>8. Answering' /\ AnswersMatch'
  <2>1. \A c \in Clients : answering[c] # Nil => answering[c].request \in Requests
    BY <1>2, AnswerFields DEF RoutesTyped
  <2>2. Answering'
    BY <1>1, <1>7, <2>1 DEF AnswersInv, Answering
  <2> QED
    BY <1>1, <2>2 DEF AnswersInv, AnswersMatch, SharesNumber
<1>9. Undecided' /\ StrictPolicy'
  BY <1>1, <1>7 DEF AnswersInv, Undecided, StrictPolicy
<1> QED
  BY <1>6, <1>8, <1>9 DEF AnswersInv

(* The provider is told, and the context goes.                             *)
LEMMA NotifyAnswers ==
    ASSUME AnswersInv, NEW r \in Requests, NotifyAuthResult(r)
    PROVE  AnswersInv'
<1>1. /\ task[r].pc = "notify" /\ task' = [task EXCEPT ![r] = [NewTask EXCEPT !.pc = "done"]]
      /\ ctx' = [ctx EXCEPT ![r] = Finished]
      /\ recounted' = recounted \ {r} /\ crossed' = [crossed EXCEPT ![r] = {}]
      /\ UNCHANGED <<seqnumCounter, seqnumToCtx, inbox, answering, drew>>
  BY DEF NotifyAuthResult, At
<1>2. NumbersInv /\ TaskTyped /\ ContextTyped /\ RoutesTyped
  BY DEF AnswersInv, NumbersInv
<1>3. /\ TaskTyped' /\ task'[r].pc = "done" /\ task'[r].client = Nil
      /\ \A q \in Requests : q # r => task'[q] = task[q]
  BY <1>1, <1>2 DEF NewTask, TaskTyped, Places
<1>4. ContextTyped' /\ ctx'[r] = Finished /\ \A q \in Requests : q # r => ctx'[q] = ctx[q]
  <2>1. IsFiniteSet(Finished.asked)
    BY FinishedContext, FS_EmptySet
  <2> QED
    BY <1>1, <1>2, <2>1, FinishedContext, ContextUpdate
<1>5. /\ RoutesTyped' /\ crossed'[r] = {}
      /\ \A q \in Requests : q # r => crossed'[q] = crossed[q] /\ (q \in recounted' <=> q \in recounted)
  BY <1>1, <1>2 DEF RoutesTyped
<1>6. NumbersInv'
  <2>1. \A c \in Clients : \A n \in Seqnums : seqnumToCtx[c][n] # r
    BY <1>1, <1>2 DEF NumbersInv, RoutesLead, At
  <2> QED
    BY <1>1, <1>2, <1>3, <1>4, <1>5, <2>1, FinishedContext, LateTask
<1>7. /\ \A q \in Requests : q # r => Pending(q)' = Pending(q) /\ (Denied(q)' <=> Denied(q))
      /\ \A q \in Requests : q # r => (Exact(q)' <=> Exact(q))
      /\ \A q \in Requests : task'[q].pc \in Early => task[q].pc \in Early /\ q # r
      /\ ~Denied(r)'
  BY <1>3, <1>4, <1>5, FinishedContext DEF Pending, Denied, Exact, Early
<1>8. Answering' /\ AnswersMatch'
  <2>1. \A c \in Clients : answering[c] # Nil => answering[c].request \in Requests
    BY <1>2, AnswerFields DEF RoutesTyped
  <2>2. Answering'
    BY <1>1, <1>4, <1>7, <2>1, FinishedContext DEF AnswersInv, Answering
  <2> QED
    BY <1>1, <1>5, <2>2 DEF AnswersInv, AnswersMatch, SharesNumber
<1>9. Undecided' /\ StrictPolicy'
  BY <1>4, <1>5, <1>7, FinishedContext DEF AnswersInv, Undecided, StrictPolicy
<1> QED
  BY <1>6, <1>8, <1>9 DEF AnswersInv

-------------------------------------------------------------------------------
(* The steps of the clients                                                *)

(* The record of an answer on its way.                                     *)
Answer(q, m, v) == [request |-> q, about |-> m.request, verdict |-> v]

LEMMA AnswerMade ==
    ASSUME NEW q \in Requests, NEW m \in Messages, NEW v \in Verdicts
    PROVE  /\ Answer(q, m, v) \in Answers
           /\ Answer(q, m, v).request = q /\ Answer(q, m, v).about = m.request
  BY MessageFields DEF Answers, Answer

(* A client answers what it was sent; the route its number finds leads to  *)
(* a request that has that number.                                         *)
LEMMA SetAnswers ==
    ASSUME AnswersInv, NEW c \in Clients, NEW m \in inbox[c], NEW v \in Verdicts,
           SetAuthResult(c, m, v)
    PROVE  AnswersInv'
<1>1. /\ \/ answering' = answering
         \/ answering' = [answering EXCEPT ![c] = Nil]
         \/ RouteOf(c, m) # Nil /\ answering' = [answering EXCEPT ![c] = Answer(RouteOf(c, m), m, v)]
      /\ UNCHANGED <<seqnumCounter, seqnumToCtx, ctx, task, inbox, drew, recounted, crossed>>
  BY DEF SetAuthResult, Answer, historyVars
<1>2. NumbersInv /\ TaskTyped /\ ContextTyped /\ RoutesTyped
  BY DEF AnswersInv, NumbersInv
<1>3. m \in Messages /\ m.request \in Requests
  BY <1>2, MessageFields DEF RoutesTyped
<1>4. drew[c][m.request] = m.seqnum /\ m.seqnum # 0 /\ m.seqnum \in Seqnums
  BY <1>2, <1>3 DEF NumbersInv, Drawing, RoutesTyped
<1>5. ASSUME NEW q \in Requests, RouteOf(c, m) = q
      PROVE  /\ c \in ctx[q].asked /\ drew[c][q] = m.seqnum
             /\ q = m.request => task[q].pc \notin Early
  <2>1. c \in ctx[q].asked /\ ctx[q].number[c] = m.seqnum
    BY <1>2, <1>4, <1>5 DEF RouteOf, NumbersInv, RoutesLead
  <2> QED
    BY <1>2, <2>1 DEF NumbersInv, Drawing
<1>6. /\ answering' \in [Clients -> Answers \cup {Nil}]
      /\ \A d \in Clients : d # c => answering'[d] = answering[d]
      /\ \/ answering'[c] = answering[c] \/ answering'[c] = Nil
         \/ /\ answering'[c].request \in Requests /\ answering'[c].request = RouteOf(c, m)
            /\ answering'[c].about = m.request
  <2>1. CASE answering' = answering \/ answering' = [answering EXCEPT ![c] = Nil]
    BY <1>2, <2>1 DEF RoutesTyped
  <2>2. CASE RouteOf(c, m) # Nil /\ answering' = [answering EXCEPT ![c] = Answer(RouteOf(c, m), m, v)]
    <3>1. PICK q \in Requests : q = RouteOf(c, m)
      BY <1>2, <1>4, <2>2 DEF RouteOf, RoutesTyped
    <3>2. /\ Answer(q, m, v) \in Answers
          /\ Answer(q, m, v).request = q /\ Answer(q, m, v).about = m.request
      BY <1>3, AnswerMade
    <3>3. answering' = [answering EXCEPT ![c] = Answer(q, m, v)]
      BY <2>2, <3>1
    <3>4. answering \in [Clients -> Answers \cup {Nil}]
      BY <1>2 DEF RoutesTyped
    <3> QED
      BY <3>1, <3>2, <3>3, <3>4
  <2> QED
    BY <1>1, <2>1, <2>2
<1>7. RoutesTyped'
  BY <1>1, <1>2, <1>6 DEF RoutesTyped
<1>8. NumbersInv'
  <2>1. \A q \in Requests : \A d \in Clients : Unvisited(q, d)' <=> Unvisited(q, d)
    BY <1>1 DEF Unvisited
  <2>2. \A d : Drawn(d)' = Drawn(d)
    BY <1>1 DEF Drawn
  <2>3. Numbering' /\ Drawing'
    BY <1>1, <1>2, <2>1, <2>2 DEF NumbersInv, Numbering, Drawing, At
  <2>4. TaskTyped' /\ ContextTyped' /\ Asking' /\ RoutesLead'
    BY <1>1, <1>2 DEF NumbersInv, TaskTyped, ContextTyped, Asking, RoutesLead, At
  <2> QED
    BY <1>7, <2>3, <2>4 DEF NumbersInv
<1>9. Answering'
  <2> SUFFICES ASSUME NEW d \in Clients, answering'[d] # Nil
               PROVE  /\ drew[d][answering'[d].about] = drew[d][answering'[d].request]
                      /\ drew[d][answering'[d].about] # 0
                      /\ ~ctx[answering'[d].request].completed =>
                            d \in ctx[answering'[d].request].asked
                      /\ answering'[d].about = answering'[d].request =>
                            task[answering'[d].request].pc \notin Early
    BY <1>1 DEF Answering
  <2>1. CASE answering'[d] = answering[d]
    BY <2>1 DEF AnswersInv, Answering
  <2>2. CASE answering'[d] # answering[d]
    BY <1>4, <1>5, <1>6, <2>2
  <2> QED
    BY <2>1, <2>2
<1>10. AnswersMatch' /\ Undecided' /\ StrictPolicy'
  <2>1. \A q : Pending(q)' = Pending(q) /\ (Denied(q)' <=> Denied(q)) /\ (Exact(q)' <=> Exact(q))
    BY <1>1 DEF Pending, Denied, Exact
  <2> QED
    BY <1>1, <2>1 DEF AnswersInv, AnswersMatch, SharesNumber, Undecided, StrictPolicy
<1> QED
  BY <1>8, <1>9, <1>10 DEF AnswersInv

(* An answer is recorded: the first to deny decides, and so does the one   *)
(* that brings both counters to nothing.                                   *)
LEMMA RecordAnswers ==
    ASSUME AnswersInv, NEW c \in Clients, RecordClientResult(c)
    PROVE  AnswersInv'
<1>1. /\ answering[c] # Nil /\ answering' = [answering EXCEPT ![c] = Nil]
      /\ UNCHANGED <<seqnumCounter, seqnumToCtx, task, inbox, drew>>
  BY DEF RecordClientResult
<1>2. NumbersInv /\ TaskTyped /\ ContextTyped /\ RoutesTyped
  BY DEF AnswersInv, NumbersInv
<1>3. PICK r \in Requests, v \in Verdicts, b \in Requests :
        /\ r = answering[c].request /\ v = answering[c].verdict /\ b = answering[c].about
        /\ ctx[r] \in Contexts /\ IsFiniteSet(ctx[r].asked)
  <2>1. answering[c] \in Answers
    BY <1>1, <1>2 DEF RoutesTyped
  <2>2. /\ answering[c].request \in Requests /\ answering[c].verdict \in Verdicts
        /\ answering[c].about \in Requests
    BY <2>1, AnswerFields
  <2> QED
    BY <1>2, <2>2 DEF ContextTyped
<1> DEFINE f == [ctx[r].clientResults EXCEPT ![c] = v]
           s == SentAfter(r)
           d == DenyAfter(r, c)
           e == EvaluateStrictPolicy(r, c, v)
           w == IF e THEN v ELSE ctx[r].merged
           y == RecordedContext(ctx[r], f, s, d, w, e)
<1>4. /\ answering' \in [Clients -> Answers \cup {Nil}] /\ answering'[c] = Nil
      /\ \A a \in Clients : a # c => answering'[a] = answering[a]
      /\ \A a \in Clients : answering'[a] # Nil =>
           a # c /\ answering[a] # Nil /\ answering[a].request \in Requests
  <2>1. /\ answering' \in [Clients -> Answers \cup {Nil}] /\ answering'[c] = Nil
        /\ \A a \in Clients : a # c => answering'[a] = answering[a]
    BY <1>1, <1>2 DEF RoutesTyped
  <2> QED
    BY <1>2, <2>1, AnswerFields DEF RoutesTyped
<1>5. /\ TaskTyped' /\ Numbering'
      /\ \A q \in Requests : \A a \in Clients : Unvisited(q, a)' <=> Unvisited(q, a)
      /\ \A a : SharesNumber(r, a)' <=> SharesNumber(r, a)
  <2>1. \A a : Drawn(a)' = Drawn(a)
    BY <1>1 DEF Drawn
  <2> QED
    BY <1>1, <1>2, <2>1 DEF TaskTyped, NumbersInv, Numbering, Unvisited, SharesNumber, At
<1>6. CASE ctx[r].completed
  <2>1. UNCHANGED <<ctx, recounted, crossed>>
    BY <1>3, <1>6 DEF RecordClientResult
  <2>2. NumbersInv'
    <3>1. ContextTyped' /\ RoutesTyped'
      BY <1>1, <1>2, <1>4, <2>1 DEF ContextTyped, RoutesTyped
    <3>2. Asking' /\ RoutesLead' /\ Drawing'
      BY <1>1, <1>2, <1>5, <2>1 DEF NumbersInv, Asking, RoutesLead, Drawing, At
    <3> QED
      BY <1>5, <3>1, <3>2 DEF NumbersInv
  <2>3. \A q : Pending(q)' = Pending(q) /\ (Denied(q)' <=> Denied(q)) /\ (Exact(q)' <=> Exact(q))
    BY <2>1 DEF Pending, Denied, Exact
  <2>4. Answering'
    BY <1>1, <1>4, <2>1 DEF AnswersInv, Answering
  <2>5. AnswersMatch' /\ Undecided' /\ StrictPolicy'
    BY <1>1, <2>1, <2>3 DEF AnswersInv, AnswersMatch, SharesNumber, Undecided, StrictPolicy
  <2> QED
    BY <2>2, <2>4, <2>5 DEF AnswersInv
<1>7. CASE ~ctx[r].completed
  <2>1. /\ c \in ctx[r].asked /\ ctx[r].asked \subseteq Clients
        /\ b = r => task[r].pc \notin Early
        /\ b # r => SharesNumber(r, c)
    <3>1. /\ drew[c][b] = drew[c][r] /\ drew[c][b] # 0
          /\ c \in ctx[r].asked /\ (b = r => task[r].pc \notin Early)
      BY <1>1, <1>3, <1>7 DEF AnswersInv, Answering
    <3> QED
      BY <1>3, <3>1, ContextFields DEF SharesNumber
  <2>2. /\ ctx[r].merged = "ALLOW"
        /\ \A a \in Clients : ctx[r].clientResults[a] \in {"none", "ALLOW"}
        /\ \A a \in Clients \ ctx[r].asked : ctx[r].clientResults[a] = "none"
        /\ Exact(r) => ctx[r].sentClientCount = Cardinality(Pending(r))
    BY <1>3, <1>7 DEF AnswersInv, Undecided
  <2>3. /\ f \in [Clients -> {"none", "ALLOW", "DENY", "TIMEOUT"}] /\ f[c] = v
        /\ \A a \in Clients : a # c => f[a] = ctx[r].clientResults[a]
    BY <1>3, ContextFields DEF Verdicts
  <2>4. s \in Nat /\ d \in Nat
    BY <1>3, ContextFields DEF SentAfter, DenyAfter, Decrement
  <2>5. /\ e \in BOOLEAN /\ w \in Verdicts /\ w = (IF e THEN v ELSE "ALLOW")
        /\ e <=> v = "DENY" \/ (s = 0 /\ d = 0)
    BY <1>3, <2>2 DEF EvaluateStrictPolicy, Verdicts
  <2>6. /\ ctx' = [ctx EXCEPT ![r] = y] /\ y = RecordedContext(ctx[r], f, s, d, w, e)
        /\ recounted' = IF ctx[r].clientResults[c] = "none" THEN recounted ELSE recounted \cup {r}
        /\ crossed' = IF b = r THEN crossed ELSE [crossed EXCEPT ![r] = @ \cup {c}]
    <3>1. /\ ctx' = [ctx EXCEPT ![r].clientResults = f, ![r].sentClientCount = s,
                                ![r].defaultDenyCount = d, ![r].merged = w, ![r].completed = e]
          /\ recounted' = IF ctx[r].clientResults[c] = "none" THEN recounted
                          ELSE recounted \cup {r}
          /\ crossed' = IF b = r THEN crossed ELSE [crossed EXCEPT ![r] = @ \cup {c}]
      BY <1>3, <1>7 DEF RecordClientResult
    <3> HIDE DEF f, s, d, w, e
    <3> QED
      BY <3>1 DEF RecordedContext
  <2>7. s = Decrement(ctx[r].sentClientCount)
    BY DEF SentAfter
  <2> HIDE DEF f, s, d, e, w, y
  <2>8. /\ y \in Contexts
        /\ y.clientResults = f /\ y.merged = w /\ y.completed = e
        /\ y.sentClientCount = s /\ y.defaultDenyCount = d
        /\ y.asked = ctx[r].asked /\ y.number = ctx[r].number
    BY <1>3, <2>3, <2>4, <2>5, <2>6, RecordedFields
  <2>9. ContextTyped' /\ ctx'[r] = y /\ \A q \in Requests : q # r => ctx'[q] = ctx[q]
    BY <1>2, <1>3, <2>6, <2>8, ContextUpdate
  <2>10. \A q \in Requests : ctx'[q].asked = ctx[q].asked /\ ctx'[q].number = ctx[q].number
    BY <2>8, <2>9
  <2>11. /\ crossed' \in [Requests -> SUBSET Clients]
         /\ \A q \in Requests : q # r => /\ crossed'[q] = crossed[q]
                                         /\ q \in recounted' <=> q \in recounted
         /\ crossed'[r] = IF b = r THEN crossed[r] ELSE crossed[r] \cup {c}
         /\ r \in recounted' <=> r \in recounted \/ ctx[r].clientResults[c] # "none"
    BY <1>2, <2>6 DEF RoutesTyped
  <2>12. NumbersInv'
    <3>1. RoutesTyped'
      BY <1>1, <1>2, <1>4, <2>11 DEF RoutesTyped
    <3>2. Asking' /\ RoutesLead'
      BY <1>1, <1>2, <1>3, <2>10 DEF NumbersInv, Asking, RoutesLead, At
    <3>3. Drawing'
      <4>1. \A a \in Clients : \A m \in inbox[a] : m.request \in Requests
        BY <1>2, MessageFields DEF RoutesTyped
      <4> QED
        BY <1>1, <1>2, <1>5, <2>10, <4>1 DEF NumbersInv, Drawing
    <3> QED
      BY <1>5, <2>9, <3>1, <3>2, <3>3 DEF NumbersInv
  <2>13. Answering'
    <3>1. \A q \in Requests : ~ctx'[q].completed => ~ctx[q].completed
      BY <1>7, <2>9
    <3> QED
      BY <1>1, <1>4, <2>10, <3>1 DEF AnswersInv, Answering
  <2>14. AnswersMatch'
    <3>1. \A q \in Requests : \A a \in crossed[q] : SharesNumber(q, a)
      BY DEF AnswersInv, AnswersMatch
    <3>2. \A q \in Requests : \A a \in crossed'[q] : SharesNumber(q, a)
      BY <2>1, <2>11, <3>1
    <3>3. \A q : \A a : SharesNumber(q, a)' <=> SharesNumber(q, a)
      BY <1>1 DEF SharesNumber
    <3> QED
      BY <3>2, <3>3 DEF AnswersMatch
  <2>15. /\ Pending(r)' = Pending(r) \ {c}
         /\ \A q \in Requests : q # r => Pending(q)' = Pending(q)
    <3>1. v # "none"
      BY <1>3 DEF Verdicts
    <3> QED
      BY <2>1, <2>3, <2>8, <2>9, <3>1 DEF Pending
  <2>16. Exact(r)' => Exact(r) /\ s = Cardinality(Pending(r)') /\ IsFiniteSet(Pending(r)')
    <3> SUFFICES ASSUME Exact(r)' PROVE Exact(r) /\ s = Cardinality(Pending(r) \ {c})
                                        /\ IsFiniteSet(Pending(r) \ {c})
      BY <2>15
    <3>1. Exact(r) /\ c \in Pending(r)
      BY <2>1, <2>11 DEF Exact, Pending
    <3>2. IsFiniteSet(Pending(r)) /\ Cardinality(Pending(r)) \in Nat
      BY <1>2, <1>3, PendingFinite
    <3>3. /\ Cardinality(Pending(r) \ {c}) = Cardinality(Pending(r)) - 1
          /\ Cardinality(Pending(r) \ {c}) \in Nat /\ IsFiniteSet(Pending(r) \ {c})
      BY <3>1, <3>2, FS_RemoveElement, FS_CardinalityType
    <3> QED
      BY <2>2, <2>7, <3>1, <3>2, <3>3 DEF Decrement
  <2>17. Undecided'
    <3>1. \A q \in Requests : q # r => (Exact(q)' <=> Exact(q))
      BY <2>11 DEF Exact
    <3>2. \A a \in Clients \ ctx[r].asked : f[a] = "none"
      BY <2>1, <2>2, <2>3
    <3>3. ASSUME ~e
          PROVE  w = "ALLOW" /\ \A a \in Clients : f[a] \in {"none", "ALLOW"}
      <4>1. w = "ALLOW" /\ v = "ALLOW"
        BY <1>3, <2>5, <3>3 DEF Verdicts
      <4> QED
        BY <2>2, <2>3, <4>1
    <3>4. task[r].pc \in Early => crossed'[r] # {}
      BY <2>1, <2>11
    <3>5. ASSUME NEW q \in Requests
          PROVE  /\ \A a \in Clients \ ctx'[q].asked : ctx'[q].clientResults[a] = "none"
                 /\ ~ctx'[q].completed =>
                      /\ ctx'[q].merged = "ALLOW"
                      /\ \A a \in Clients : ctx'[q].clientResults[a] \in {"none", "ALLOW"}
                      /\ Exact(q)' => ctx'[q].sentClientCount = Cardinality(Pending(q)')
                 /\ ctx'[q].completed /\ task[q].pc \in Early => crossed'[q] # {}
      <4>1. CASE q = r
        BY <2>8, <2>9, <2>16, <3>2, <3>3, <3>4, <4>1
      <4>2. CASE q # r
        BY <2>9, <2>11, <2>15, <3>1, <4>2 DEF AnswersInv, Undecided
      <4> QED
        BY <4>1, <4>2
    <3> QED
      BY <1>1, <3>5 DEF Undecided
  <2>18. StrictPolicy'
    <3>1. ASSUME e
          PROVE  /\ w = IF \E a \in ctx[r].asked : f[a] = "DENY" THEN "DENY" ELSE "ALLOW"
                 /\ w = "ALLOW" /\ Exact(r)' => \A a \in ctx[r].asked : f[a] # "none"
      <4>1. w = v
        BY <2>5, <3>1
      <4>2. CASE v = "DENY"
        BY <2>1, <2>3, <4>1, <4>2
      <4>3. CASE v = "ALLOW"
        <5>1. s = 0 /\ \A a \in ctx[r].asked : f[a] # "DENY"
          BY <2>1, <2>2, <2>3, <2>5, <3>1, <4>3
        <5>2. ASSUME Exact(r)' PROVE \A a \in ctx[r].asked : f[a] # "none"
          <6>1. Pending(r)' = {}
            BY <2>16, <5>1, <5>2, FS_EmptySet
          <6> QED
            BY <2>8, <2>9, <6>1 DEF Pending
        <5> QED
          BY <4>1, <4>3, <5>1, <5>2
      <4> QED
        BY <1>3, <4>2, <4>3 DEF Verdicts
    <3>2. \A q \in Requests : q # r => (Denied(q)' <=> Denied(q))
      BY <2>9 DEF Denied
    <3>3. Denied(r)' <=> \E a \in ctx[r].asked : f[a] = "DENY"
      BY <2>8, <2>9 DEF Denied
    <3>4. ASSUME NEW q \in Requests, ctx'[q].completed
          PROVE  /\ ctx'[q].merged = IF Denied(q)' THEN "DENY" ELSE "ALLOW"
                 /\ ctx'[q].merged = "ALLOW" /\ q \notin recounted' /\ crossed'[q] = {} =>
                      \A a \in ctx'[q].asked : ctx'[q].clientResults[a] # "none"
      <4>1. CASE q = r
        <5>1. e /\ (q \notin recounted' /\ crossed'[q] = {} => Exact(r)')
          BY <2>8, <2>9, <3>4, <4>1 DEF Exact
        <5> QED
          BY <2>8, <2>9, <3>1, <3>3, <4>1, <5>1
      <4>2. CASE q # r
        BY <2>9, <2>11, <3>2, <3>4, <4>2 DEF AnswersInv, StrictPolicy
      <4> QED
        BY <4>1, <4>2
    <3> QED
      BY <3>4 DEF StrictPolicy
  <2> QED
    BY <2>12, <2>13, <2>14, <2>17, <2>18 DEF AnswersInv
<1> QED
  BY <1>6, <1>7

-------------------------------------------------------------------------------
(* Both hold from the first state on.                                      *)
LEMMA AnswersHold == Spec => []AnswersInv
<1>1. Init => AnswersInv
  <2> SUFFICES ASSUME Init PROVE AnswersInv
    OBVIOUS
  <2>1. /\ \A r \in Requests : ctx[r] = NewContext /\ task[r] = NewTask /\ crossed[r] = {}
        /\ \A c \in Clients : /\ seqnumCounter[c] = 0 /\ inbox[c] = {} /\ answering[c] = Nil
                              /\ \A r \in Requests : drew[c][r] = 0
        /\ Nil \notin Clients /\ Nil \notin Requests
    BY CoordinatorAssumption DEF Init
  <2>2. TaskTyped
    BY DEF Init, NewTask, TaskTyped, Places
  <2>3. ContextTyped
    <3>1. ctx \in [Requests -> Contexts]
      <4> HIDE DEF Contexts
      <4> QED
        BY FinishedContext DEF Init
    <3> QED
      BY <2>1, <3>1, FinishedContext, FS_EmptySet DEF ContextTyped
  <2>4. RoutesTyped
    <3>1. /\ seqnumCounter \in [Clients -> Nat] /\ inbox \in [Clients -> SUBSET Messages]
          /\ answering \in [Clients -> Answers \cup {Nil}]
          /\ crossed \in [Requests -> SUBSET Clients]
      BY DEF Init
    <3>2. seqnumToCtx \in [Clients -> [Seqnums -> Requests \cup {Nil}]]
      BY DEF Init
    <3>3. drew \in [Clients -> [Requests -> Seqnums \cup {0}]]
      BY DEF Init
    <3> QED
      BY <3>1, <3>2, <3>3 DEF RoutesTyped
  <2>5. Numbering
    <3>1. \A c \in Clients : Cardinality(Drawn(c)) \in Nat
      BY DrawnFinite
    <3>2. \A c \in Clients : seqnumCounter[c] <= Cardinality(Drawn(c))
      BY <2>1, <3>1
    <3> QED
      BY <2>1, <3>2 DEF NewTask, Numbering, At
  <2>6. Asking
    BY <2>1, FinishedContext DEF NewTask, Asking, At
  <2>7. Drawing /\ RoutesLead
    <3>1. \A c \in Clients : \A s \in Seqnums : seqnumToCtx[c][s] = Nil
      BY DEF Init
    <3> QED
      BY <2>1, <3>1, FinishedContext DEF Drawing, RoutesLead
  <2>8. Answering /\ AnswersMatch
    BY <2>1 DEF Answering, AnswersMatch
  <2>9. Undecided
    <3>1. \A r \in Requests : Pending(r) = {}
      BY <2>1, FinishedContext DEF Pending
    <3>2. \A r \in Requests : Cardinality(Pending(r)) = 0
      BY <3>1, FS_EmptySet
    <3>3. ASSUME NEW r \in Requests
          PROVE  /\ \A c \in Clients \ ctx[r].asked : ctx[r].clientResults[c] = "none"
                 /\ ctx[r].merged = "ALLOW" /\ ~ctx[r].completed
                 /\ \A c \in Clients : ctx[r].clientResults[c] \in {"none", "ALLOW"}
                 /\ ctx[r].sentClientCount = Cardinality(Pending(r))
      BY <2>1, <3>2, FinishedContext
    <3> QED
      BY <3>3 DEF Undecided
  <2>10. StrictPolicy
    BY <2>1, FinishedContext DEF StrictPolicy
  <2> QED
    BY <2>2, <2>3, <2>4, <2>5, <2>6, <2>7, <2>8, <2>9, <2>10 DEF AnswersInv, NumbersInv
<1>2. AnswersInv /\ [Next]_vars => AnswersInv'
  <2> SUFFICES ASSUME AnswersInv, [Next]_vars PROVE AnswersInv'
    OBVIOUS
  <2>1. CASE UNCHANGED <<answersVars, task>>
    <3>1. /\ seqnumCounter' = seqnumCounter /\ seqnumToCtx' = seqnumToCtx /\ ctx' = ctx
          /\ inbox' = inbox /\ answering' = answering /\ drew' = drew
          /\ recounted' = recounted /\ crossed' = crossed /\ task' = task
      BY <2>1 DEF answersVars
    <3>2. \A c : Drawn(c)' = Drawn(c)
      BY <3>1 DEF Drawn
    <3>3. /\ TaskTyped' /\ ContextTyped' /\ RoutesTyped'
          /\ Numbering' /\ Asking' /\ Drawing' /\ RoutesLead'
      BY <3>1, <3>2 DEF AnswersInv, NumbersInv, TaskTyped, ContextTyped, RoutesTyped, Numbering,
                  Asking, Drawing, Unvisited, RoutesLead, At
    <3>4. \A r : Pending(r)' = Pending(r) /\ (Denied(r)' <=> Denied(r)) /\ (Exact(r)' <=> Exact(r))
      BY <3>1 DEF Pending, Denied, Exact
    <3>5. Answering' /\ AnswersMatch' /\ Undecided' /\ StrictPolicy'
      BY <3>1, <3>4 DEF AnswersInv, Answering, AnswersMatch, SharesNumber, Undecided, StrictPolicy
    <3> QED
      BY <3>3, <3>5 DEF AnswersInv, NumbersInv
  <2>2. CASE \E r \in Requests : TaskStep(r) \/ \E D \in SUBSET Clients : RequestAuthResult(r, D)
    BY <2>2, RequestAnswers, QuietTask, VisitAnswers, DegradedAnswers, RegisterAnswers, PushAnswers,
       TimeoutAnswers, BuildAnswers, NotifyAnswers DEF TaskStep
  <2>3. CASE \E c \in Clients : \/ RecordClientResult(c)
                                \/ \E m \in inbox[c], v \in Verdicts : SetAuthResult(c, m, v)
    BY <2>3, RecordAnswers, SetAnswers
  <2> QED
    BY <2>1, <2>2, <2>3 DEF Next, vars, requestVars, historyVars, answersVars
<1> QED
  BY <1>1, <1>2, PTL DEF Spec

(* A request is decided "DENY" exactly when a client asked denies it, or   *)
(* is late and denies when late, however often clients answer and whatever *)
(* numbers they share; and one that has counted neither two answers of a   *)
(* client nor an answer to another request is allowed only when every      *)
(* client asked has allowed it or was late.                                *)
THEOREM NothingDeniedIsAllowed == Spec => []StrictPolicy
<1>1. AnswersInv => StrictPolicy
  BY DEF AnswersInv
<1> QED
  BY <1>1, AnswersHold, PTL

(* A request counts a client's answer to another only when both have drawn *)
(* the same number at that client.                                         *)
THEOREM AnswersFindTheirRequest == Spec => []AnswersMatch
<1>1. AnswersInv => AnswersMatch
  BY DEF AnswersInv
<1> QED
  BY <1>1, AnswersHold, PTL
===============================================================================

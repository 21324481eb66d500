------------------------------- MODULE QueryPath -------------------------------
(***************************************************************************)
(* The three ways to read events: querySecurityEvent from JavaScript or     *)
(* C++ ("event"), QuerySecurityEventById ("byId"), and the older            *)
(* RequestSecurityEventInfo ("request").  A call is accepted by             *)
(* DataCollectManagerService and answered later by a task that asks the     *)
(* collectors of this process, then those of SecurityCollector, then the    *)
(* store, and sends what they give in chunks.  In a JavaScript              *)
(* environment the chunks and the end are queued for its thread, which is   *)
(* in the native call until the kit returns.                                *)
(***************************************************************************)
EXTENDS EventStore, SequencesExt

CONSTANTS Queries, Api, \* Api[q]: "event", "byId" or "request"
          EnvOf,        \* EnvOf[q]: the JavaScript environment, or Native
          Native,
          Rulers,       \* Rulers[q]: the rulers given, one per event, in a window of dates:
          Window,       \* Window[q] = <<begin, end>>, 0 when not given
          Malformed,    \* rulers JavaScript gives without an id or with a time that is none
          NoEvent,      \* the event 0 of a ruler that could not be read
          Group,        \* Group[q]: "known", "unknown" or "" (checked by the permissions of the API)
          InGroup,      \* eventList of the group
          ById,         \* events QuerySecurityEventById answers
          LibOf,        \* LibOf[e]: library of the collector of an event queried on demand
          Yield,        \* Yield[e]: events such a collector gives
          Chunk,        \* MAX_ON_QUERY_SIZE and MAX_DISTRIBUTE_LENS
          MaxReply      \* MAX_QUERY_EVENT_SIZE: events or rulers of one message

(* No configuration has an event 0; JavaScript has querySecurityEvent only. *)
ASSUME QueryAssumption == /\ Chunk \in Nat \ {0} /\ MaxReply \in Nat /\ Yield \in [Events -> Nat]
                          /\ NoEvent \in Events /\ Kind[NoEvent] = "unknown"
                          /\ \A q \in Queries : /\ Rulers[q] \subseteq Events /\ IsFiniteSet(Rulers[q])
                                                /\ Api[q] \in {"event", "byId", "request"}
                                                /\ EnvOf[q] # Native => Api[q] = "event"
                          /\ \A p \in Plans : p.queries \subseteq Queries

VARIABLES call,     \* "idle", "asking" (in the kit), "refused", "waiting"
          task,     \* of the service
          jobs,     \* jobs[v]: what napi_send_event has queued for environment v
          queriers, \* registered by NapiQuerySecurityEvent
          live,     \* environments with an entry in envQuerierMap_
          got,      \* got[q]: delivered, in order
          told,     \* told[q]: "no", "complete" or "error"
          found,    \* history: what the rulers of the query have given
          silent,   \* history: rulers the service could not ask and says nothing of
          cut,      \* history: a query of the same environment ended first, or a send failed
          lost      \* history: nobody will answer
qVars == <<call, task, jobs, queriers, live, got, told, found, silent, cut, lost>>
vars == <<storeVars, qVars>>

Envs == {EnvOf[q] : q \in Queries} \ {Native}
NoTask == [at |-> "none", failed |-> {}, todo |-> {}, out |-> <<>>]

QueryInit == /\ StoreInit
             /\ call = [q \in Queries |-> "idle"] /\ task = [q \in Queries |-> NoTask]
             /\ jobs = [v \in Envs |-> <<>>] /\ queriers = {} /\ live = {}
             /\ got = [q \in Queries |-> <<>>] /\ told = [q \in Queries |-> "no"]
             /\ found = [q \in Queries |-> {}] /\ silent = [q \in Queries |-> {}]
             /\ cut = [q \in Queries |-> FALSE] /\ lost = [q \in Queries |-> FALSE]

(* What a collector gives for an event, and what the store gives for its rows. *)
Items(e) == {<<e, k>> : k \in 1 .. Yield[e]}
RowItems(rows) == {<<r.e, r.id>> : r \in rows}

(* Mutant: The last chunk, shorter than the others, is lost. *)
Parts_Whole(s) == [i \in 1 .. Len(s) \div Chunk |->
                SubSeq(s, (i - 1) * Chunk + 1, IF i * Chunk < Len(s) THEN i * Chunk ELSE Len(s))]

(* QuerySecurityEventCallBack: chunks of at most MAX_ON_QUERY_SIZE, none for no event. *)
Parts(s) == [i \in 1 .. (Len(s) + Chunk - 1) \div Chunk |->
                SubSeq(s, (i - 1) * Chunk + 1, IF i * Chunk < Len(s) THEN i * Chunk ELSE Len(s))]
Chunks(items) == Parts(SetToSeq(items))

-------------------------------------------------------------------------------
(* ParseSecurityEventRuler throws at a ruler it cannot read, and the call goes on with event 0 *)
(* in its place: one exception for the caller, and a query that ends in an error.              *)
Readable(r) == r \notin Malformed
ParseSecurityEventRuler(r) == IF Readable(r) THEN r ELSE NoEvent
Asked(q) == {ParseSecurityEventRuler(r) : r \in Rulers[q]}

JsBusy(v) == \E q \in Queries : EnvOf[q] = v /\ call[q] = "asking"

(* The kit: no service, no call. *)
AskService(q) == /\ q \in plan.queries /\ call[q] = "idle"
                 /\ call' = [call EXCEPT ![q] = IF conn = "none" THEN "refused" ELSE "asking"]
                 /\ UNCHANGED <<storeVars, task, jobs, queriers, live, got, told, found, silent, cut, lost>>

KitQuerySecurityEvent(q) == Api[q] = "event" /\ (EnvOf[q] \in Envs => ~JsBusy(EnvOf[q])) /\ AskService(q)
KitQuerySecurityEventById(q) == Api[q] = "byId" /\ AskService(q)
KitRequestSecurityEventInfo(q) == Api[q] = "request" /\ AskService(q)

(* RequestSecurityEventInfoAsync keeps g_mutex while it asks. *)
RequestSecurityEventInfoAsync(q) ==
    /\ \A p \in Queries : Api[p] = "request" => call[p] # "asking"
    /\ KitRequestSecurityEventInfo(q)

(* The service: the permissions of the group, or of the API when no group is named. *)
Answer(q, at) ==
    /\ call[q] = "asking" /\ task[q].at = "none" /\ conn # "none"
    /\ IF at = "refused" THEN call' = [call EXCEPT ![q] = "refused"] /\ UNCHANGED task
       ELSE task' = [task EXCEPT ![q].at = "queued"] /\ UNCHANGED call
    /\ UNCHANGED <<storeVars, jobs, queriers, live, got, told, found, silent, cut, lost>>

IsCallerHasApiPermission(q) == {"queued", "refused"}
IsEventGroupHasPermission(q) == IF Group[q] = "known" THEN {"queued", "refused"} ELSE {"refused"}

QuerySecurityEvent(q) ==
    /\ Api[q] = "event"
    /\ \E at \in IF Group[q] = "" THEN IsCallerHasApiPermission(q) ELSE IsEventGroupHasPermission(q) : Answer(q, at)
QuerySecurityEventById(q) == Api[q] = "byId" /\ \E at \in IsEventGroupHasPermission(q) : Answer(q, at)
RequestRiskData(q) == Api[q] = "request" /\ \E at \in {"queued", "refused"} : Answer(q, at)

(* The kit returns; only now does JavaScript register the querier and count it. *)
AddDataCallback(v) == live' = live \cup {v}
DelDataCallback(v) == live' = live \ {v}
GetDataCallback(v) == v \in live

CallAccepted(q) ==
    /\ call[q] = "asking" /\ task[q].at # "none"
    /\ call' = [call EXCEPT ![q] = "waiting"]
    /\ IF EnvOf[q] = Native THEN UNCHANGED <<queriers, live>>
       ELSE queriers' = queriers \cup {q} /\ AddDataCallback(EnvOf[q])
    /\ UNCHANGED <<storeVars, task, jobs, got, told, found, silent, cut, lost>>

CallFails(q) ==
    /\ call[q] = "asking" /\ conn = "none" /\ task[q].at \in {"none", "dead", "ended"}
    /\ call' = [call EXCEPT ![q] = "refused"]
    /\ UNCHANGED <<storeVars, task, jobs, queriers, live, got, told, found, silent, cut, lost>>

-------------------------------------------------------------------------------
(* The task.  Its group is looked up again: for "" there is none, and the task ends with no word. *)
OfKind(q, k) == {e \in Asked(q) \cap InGroup : Kind[e] = k}
ClassifyRulers(q) ==
    [invalid |-> {e \in Asked(q) : e \notin InGroup \/ Kind[e] = "unknown"},
     guard |-> OfKind(q, "guard"), collector |-> OfKind(q, "collector"),
     db |-> {e \in Asked(q) \cap InGroup : Kind[e] \notin {"unknown", "guard", "collector"}}]

HandleQuerySecurityEvent(q) ==
    /\ task[q].at = "queued" /\ Api[q] = "event"
    /\ IF Group[q] = ""
       THEN task' = [task EXCEPT ![q].at = "ended"] /\ lost' = [lost EXCEPT ![q] = TRUE]
       ELSE /\ task' = [task EXCEPT ![q].at = "guard", ![q].failed = ClassifyRulers(q).invalid,
                                    ![q].todo = ClassifyRulers(q).db]
            /\ UNCHANGED lost
    /\ UNCHANGED <<storeVars, call, jobs, queriers, live, got, told, found, silent, cut>>

(* One library at a time: a collector names the rulers it failed on, one that does not load *)
(* leaves its rulers without a word, and the result is SUCCESS.                             *)
Heard(failed) == [failed |-> failed, unheard |-> {}, fault |-> failed # {}]
Unheard(S, fault) == [failed |-> {}, unheard |-> S, fault |-> fault]
LoadAndQueryBySoPath(S) == {Heard(F) : F \in IF Fault("query") THEN SUBSET S ELSE {{}}}
                           \cup IF Fault("lib") THEN {Unheard(S, TRUE)} ELSE {}

SoPaths(S) == {{e \in S : LibOf[e] = LibOf[f]} : f \in S}
DataCollectionQueryBatch(S) ==
    {[failed |-> UNION {o[lib].failed : lib \in SoPaths(S)}, unheard |-> UNION {o[lib].unheard : lib \in SoPaths(S)},
      fault |-> \E lib \in SoPaths(S) : o[lib].fault] :
        o \in {f \in [SoPaths(S) -> UNION {LoadAndQueryBySoPath(lib) : lib \in SoPaths(S)}] :
                 \A lib \in SoPaths(S) : f[lib] \in LoadAndQueryBySoPath(lib)}}

Answered(S, o) == UNION {Items(e) : e \in S \ (o.failed \cup o.unheard)}

(* Through SecurityCollector: a process that does not load, or dies twice, leaves every ruler *)
(* without a word, and so does a message of too many rulers or events (the proxy refuses it). *)
WriteQueryBatchRequest(S) == Cardinality(S) <= MaxReply
ReadQueryBatchReply(S, o) == Cardinality(Answered(S, o)) <= MaxReply
CollectorManagerQueryBatch(S) ==
    IF ~WriteQueryBatchRequest(S) THEN {Unheard(S, FALSE)}
    ELSE {IF ReadQueryBatchReply(S, o) THEN o ELSE Unheard(S, o.fault) : o \in DataCollectionQueryBatch(S)}
         \cup IF S # {} /\ Fault("load") THEN {Unheard(S, TRUE)} ELSE {}

Take(q, S, o, next) ==
    /\ found' = [found EXCEPT ![q] = @ \cup Answered(S, o)]
    /\ silent' = [silent EXCEPT ![q] = @ \cup o.unheard]
    /\ task' = [task EXCEPT ![q].at = next, ![q].failed = @ \cup o.failed, ![q].out = Chunks(Answered(S, o))]
    /\ Blame(o.fault)
    /\ UNCHANGED <<plan, conn, disk, view, tx, batch, kept, nextId, starts>>
    /\ UNCHANGED <<call, jobs, queriers, live, got, told, cut, lost>>

(* The results of both batches are dropped. *)
QuerySecurityGuardBatchAndCallback(q) ==
    /\ task[q].at = "guard"
    /\ LET S == ClassifyRulers(q).guard
       IN \E o \in DataCollectionQueryBatch(S) : Take(q, S, o, "collector")

QuerySecurityCollectorBatchAndCallback(q) ==
    /\ task[q].at = "collector" /\ task[q].out = <<>>
    /\ LET S == ClassifyRulers(q).collector
       IN \E o \in CollectorManagerQueryBatch(S) : Take(q, S, o, "rulers")

(* QuerySecurityEventById takes its few events one by one. *)
HandleQuerySecurityEventById(q) ==
    /\ task[q].at = "queued" /\ Api[q] = "byId"
    /\ task' = [task EXCEPT ![q].at = "rulers", ![q].failed = Asked(q) \ ById, ![q].todo = Asked(q) \cap ById]
    /\ UNCHANGED <<storeVars, call, jobs, queriers, live, got, told, found, silent, cut, lost>>

(* One ruler at a collector: a library that does not load, a collector or a service that      *)
(* fails, and a reply that is too long are failures here.                                     *)
DataCollectionQuery(e) == {"ok"} \cup {f \in {"lib", "query"} : Fault(f)}
CollectorManagerQuery(e) ==
    IF Cardinality(Items(e)) > MaxReply THEN {"size"}
    ELSE DataCollectionQuery(e) \cup {f \in {"load"} : Fault(f)}

RulerFails(q, e) == task' = [task EXCEPT ![q].todo = @ \ {e}, ![q].failed = @ \cup {e}] /\ UNCHANGED found
RulerGives(q, e, items) == /\ task' = [task EXCEPT ![q].todo = @ \ {e}, ![q].out = Chunks(items)]
                           /\ found' = [found EXCEPT ![q] = @ \cup items]

(* The result of the store is dropped: it never fails. *)
ByStore(ids, q) == QueryEventBase(ids, Window[q][1], Window[q][2])
ShortRead(ids, q, rows) == Ready /\ view.made /\ rows # Matching(ids, Window[q][1], Window[q][2])

QueryEventByRuler(q) ==
    /\ task[q].at = "rulers" /\ task[q].out = <<>>
    /\ \E e \in task[q].todo :
         \/ Kind[e] = "unknown" /\ RulerFails(q, e) /\ UNCHANGED faults
         \/ /\ Kind[e] \in {"guard", "collector"}
            /\ \E r \in IF Kind[e] = "guard" THEN DataCollectionQuery(e) ELSE CollectorManagerQuery(e) :
                 /\ IF r = "ok" THEN RulerGives(q, e, Items(e)) ELSE RulerFails(q, e)
                 /\ Blame(r \notin {"ok", "size"})
         \/ /\ Kind[e] \notin {"unknown", "guard", "collector"}
            /\ \E rows \in ByStore({e}, q) : RulerGives(q, e, RowItems(rows)) /\ Blame(ShortRead({e}, q, rows))
    /\ UNCHANGED <<plan, conn, disk, view, tx, batch, kept, nextId, starts>>
    /\ UNCHANGED <<call, jobs, queriers, live, got, told, silent, cut, lost>>

(* RequestRiskData: one query of all the events that have a table; ParseConditions leaves out *)
(* the others.                                                                                *)
ParseConditions(q) == {e \in Rulers[q] : Kind[e] = "stored"}
GetSecEventsFromConditions(q) == IF ParseConditions(q) = {} THEN {{}} ELSE ByStore(ParseConditions(q), q)

PushDataCollectTask(q) ==
    /\ task[q].at = "queued" /\ Api[q] = "request"
    /\ \E rows \in GetSecEventsFromConditions(q) :
         /\ found' = [found EXCEPT ![q] = RowItems(rows)]
         /\ task' = [task EXCEPT ![q].at = "rulers", ![q].out = Chunks(RowItems(rows))]
         /\ Blame(ParseConditions(q) # {} /\ ShortRead(ParseConditions(q), q, rows))
    /\ UNCHANGED <<plan, conn, disk, view, tx, batch, kept, nextId, starts>>
    /\ UNCHANGED <<call, jobs, queriers, live, got, told, silent, cut, lost>>

-------------------------------------------------------------------------------
(* A message to the caller.  The stub in its process calls a native callback at once, and     *)
(* queues a job for the thread of a JavaScript environment; a message that the proxy cannot   *)
(* send, that the stub refuses, or whose job cannot be queued, is dropped.                    *)
NativeCallback(m) == /\ got' = [got EXCEPT ![m.q] = @ \o m.items]
                     /\ told' = [told EXCEPT ![m.q] = IF m.what = "data" THEN @ ELSE m.what]
                     /\ UNCHANGED jobs
RunCallback(m) == jobs' = [jobs EXCEPT ![EnvOf[m.q]] = Append(@, m)] /\ UNCHANGED <<got, told>>

OnRemoteRequest(m) ==
    /\ Len(m.items) <= MaxReply
    /\ IF EnvOf[m.q] = Native THEN NativeCallback(m) ELSE RunCallback(m)
    /\ UNCHANGED <<cut, lost, faults>>

Dropped(m) == /\ Fault("send") /\ Blame(TRUE)
              /\ cut' = [cut EXCEPT ![m.q] = @ \/ m.what = "data"]
              /\ lost' = [lost EXCEPT ![m.q] = @ \/ m.what # "data"]
              /\ UNCHANGED <<jobs, got, told>>

SendRequest(m) == /\ OnRemoteRequest(m) \/ Dropped(m)
                  /\ UNCHANGED <<plan, conn, disk, view, tx, batch, kept, nextId, starts>>
                  /\ UNCHANGED <<call, queriers, live, found, silent>>

OnQuery(q) ==
    /\ task[q].out # <<>> /\ Api[q] # "request"
    /\ task' = [task EXCEPT ![q].out = Tail(@)]
    /\ SendRequest([q |-> q, what |-> "data", items |-> Head(task[q].out)])

AllAsked(q) == task[q].at = "rulers" /\ task[q].todo = {} /\ task[q].out = <<>> /\ Api[q] # "request"

OnComplete(q) ==
    /\ AllAsked(q) /\ task[q].failed = {}
    /\ task' = [task EXCEPT ![q].at = "ended"]
    /\ SendRequest([q |-> q, what |-> "complete", items |-> <<>>])

(* Mutant: A query of which a ruler failed ends with no word. *)
OnError_Silent(q) ==
    /\ AllAsked(q) /\ task[q].failed # {}
    /\ task' = [task EXCEPT ![q].at = "ended"]
    /\ UNCHANGED <<storeVars, call, jobs, queriers, live, got, told, found, silent, cut, lost>>

OnError(q) ==
    /\ AllAsked(q) /\ task[q].failed # {}
    /\ task' = [task EXCEPT ![q].at = "ended"]
    /\ SendRequest([q |-> q, what |-> "error", items |-> <<>>])

(* The last chunk of RequestRiskData, empty or not, says FINISH. *)
ResponseRiskData(q) ==
    /\ task[q].at = "rulers" /\ Api[q] = "request"
    /\ LET last == Len(task[q].out) <= 1
           items == IF task[q].out = <<>> THEN <<>> ELSE Head(task[q].out)
       IN /\ task' = [task EXCEPT ![q].at = IF last THEN "ended" ELSE @, ![q].out = IF last THEN <<>> ELSE Tail(@)]
          /\ SendRequest([q |-> q, what |-> IF last THEN "complete" ELSE "data", items |-> items])

-------------------------------------------------------------------------------
(* The thread of the environment.  Data are dropped when the environment has no entry in *)
(* envQuerierMap_: the end of one query erases the entry of all.                          *)
RunOnQuery(v) ==
    /\ jobs[v] # <<>> /\ ~JsBusy(v) /\ Head(jobs[v]).what = "data"
    /\ LET j == Head(jobs[v])
       IN got' = IF GetDataCallback(v) THEN [got EXCEPT ![j.q] = @ \o j.items] ELSE got
    /\ jobs' = [jobs EXCEPT ![v] = Tail(@)]
    /\ UNCHANGED <<storeVars, call, task, queriers, live, told, found, silent, cut, lost>>

(* The release handler: the first querier of the cache that is the same object goes. *)
OnFinish(q, v) ==
    IF q \in queriers
    THEN /\ queriers' = queriers \ {q} /\ DelDataCallback(v)
         /\ cut' = [p \in Queries |-> cut[p] \/ (p # q /\ p \in queriers /\ EnvOf[p] = v)]
    ELSE UNCHANGED <<queriers, live, cut>>

RunEnd(v, what) ==
    /\ jobs[v] # <<>> /\ ~JsBusy(v) /\ Head(jobs[v]).what = what
    /\ told' = [told EXCEPT ![Head(jobs[v]).q] = what]
    /\ OnFinish(Head(jobs[v]).q, v)
    /\ jobs' = [jobs EXCEPT ![v] = Tail(@)]
    /\ UNCHANGED <<storeVars, call, task, got, found, silent, lost>>
RunOnComplete(v) == RunEnd(v, "complete")
RunOnError(v) == RunEnd(v, "error")

(* The process of the service dies: its tasks go, and no kit watches it for its queries. *)
ServiceDies ==
    /\ CrashStore
    /\ task' = [q \in Queries |-> IF task[q].at \in {"none", "ended"} THEN task[q] ELSE [NoTask EXCEPT !.at = "dead"]]
    /\ lost' = [q \in Queries |-> lost[q] \/ task[q].at \notin {"none", "ended"}]
    /\ UNCHANGED <<call, jobs, queriers, live, got, told, found, silent, cut>>

Service(q) == QuerySecurityEvent(q) \/ QuerySecurityEventById(q) \/ RequestRiskData(q)
TaskStep(q) == \/ HandleQuerySecurityEvent(q) \/ QuerySecurityGuardBatchAndCallback(q)
               \/ QuerySecurityCollectorBatchAndCallback(q) \/ HandleQuerySecurityEventById(q)
               \/ QueryEventByRuler(q) \/ PushDataCollectTask(q)
               \/ OnQuery(q) \/ OnComplete(q) \/ OnError(q) \/ ResponseRiskData(q)

Next == \/ (Start \/ BeginBatch \/ NextEvent \/ Evict \/ InsertEvent \/ CommitEvent) /\ UNCHANGED qVars
        \/ ServiceDies
        \/ \E q \in Queries : KitQuerySecurityEvent(q) \/ KitQuerySecurityEventById(q) \/ RequestSecurityEventInfoAsync(q)
        \/ \E q \in Queries : Service(q) \/ CallAccepted(q) \/ CallFails(q) \/ TaskStep(q)
        \/ \E v \in Envs : RunOnQuery(v) \/ RunOnComplete(v) \/ RunOnError(v)

Spec == QueryInit /\ [][Next]_vars

(* ffrt runs the tasks submitted, binder returns, and the thread of an environment takes its jobs. *)
FairSpec == /\ Spec
            /\ \A q \in Queries : WF_vars(Service(q)) /\ WF_vars(CallAccepted(q) \/ CallFails(q)) /\ WF_vars(TaskStep(q))
            /\ \A v \in Envs : WF_vars(RunOnQuery(v) \/ RunOnComplete(v) \/ RunOnError(v))

-------------------------------------------------------------------------------
(* A caller told that its query is complete has received, once each, all that the rulers gave: *)
(* no ruler was refused or failed, and each one gave all it had, save those the service could  *)
(* not ask and says nothing of.  Left out are the queries another query of the environment     *)
(* ended before (DelDataCallback), or a chunk of which could not be queued.                    *)
AllDelivered ==
    \A q \in Queries : call[q] = "waiting" /\ told[q] = "complete" /\ ~cut[q] =>
        /\ ToSet(got[q]) = found[q] /\ Len(got[q]) = Cardinality(found[q])
        /\ Api[q] = "event" => Rulers[q] \subseteq InGroup \ Malformed
        /\ Api[q] # "request" =>
              \A e \in Rulers[q] \ silent[q] :
                 /\ Kind[e] # "unknown"
                 /\ Kind[e] \in {"guard", "collector"} => Items(e) \subseteq found[q]

(* A query the service accepted is answered, with success or failure, unless its process dies, *)
(* no group was named, or its end is dropped on the way (HandleQuerySecurityEvent, OnComplete). *)
QueryAnswered == \A q \in Queries : call[q] = "waiting" ~> told[q] # "no" \/ lost[q]
===============================================================================

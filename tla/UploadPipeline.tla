---------------------------- MODULE UploadPipeline ----------------------------
(***************************************************************************)
(* The way of an event through AcquireDataSubscribeManager, from the call  *)
(* of a collector to the store and to the subscribers.  An event of a      *)
(* batched kind waits in notifyEvents_ until a batch is full or the        *)
(* periodic flush takes it; an urgent one goes to a queue of its own.  Two *)
(* serial queues and the flush are three threads that handle events at     *)
(* the same time: each appends to the cache of the store, and spends a     *)
(* token of the bucket for a file event that somebody received.            *)
(*                                                                         *)
(* An event is its number; sent says of which kind it is.  Who subscribes  *)
(* is the matter of AcquireDataSubscribe: here a step chooses whether       *)
(* anybody received the event.                                             *)
(*                                                                         *)
(* Applications report events too, from JavaScript or C.  Each report      *)
(* takes a token of a second bucket, that of the service, and gives it     *)
(* back when there was none; only a thread with a token uploads.           *)
(***************************************************************************)
EXTENDS Integers, Sequences, FiniteSets, SequencesExt

CONSTANTS Producers,     \* threads of collectors' calls and of the IPC of reports
          Kinds,         \* event ids
          Batched,       \* those with isBatchUpload = 1
          FileKinds,     \* FILE_EVENT_ID
          Forgettable,   \* ids that a later configuration may lack
          Malformed,     \* kinds whose content is no JSON
          Reported,      \* kinds that applications report
          MaxEvents,     \* bound on the events sent
          NotifyBatch,   \* MAX_CACHE_NOTIFY_EVENT_SIZE
          StoreBatch,    \* MAX_CACHE_EVENT_SIZE
          MaxTasks,      \* UPLOAD_EVENT_TASK_MAX_COUNT
          Modulus,       \* the width of the unsigned counters
          TokenStep,     \* TOKEN_BUCKET_STEP_SIZE
          TokenMax,      \* TOKEN_BUCKET_MAX_SIZE
          RequestStep,   \* the same of the bucket for reports
          RequestMax

ASSUME PipelineAssumption ==
    /\ IsFiniteSet(Producers)
    /\ Batched \subseteq Kinds /\ FileKinds \subseteq Kinds
    /\ Forgettable \subseteq Kinds /\ Malformed \subseteq Kinds
    /\ Reported \subseteq Kinds /\ MaxEvents \in Nat
    /\ NotifyBatch \in Nat \ {0} /\ StoreBatch \in Nat \ {0}
    /\ MaxTasks \in Nat /\ Modulus \in Nat \ {0}
    /\ MaxTasks + Cardinality(Producers) < Modulus
    /\ TokenStep \in Nat \ {0} /\ TokenMax \in Nat \ {0}
    /\ RequestStep \in Nat \ {0} /\ RequestMax \in Nat \ {0}

Handlers == {"queue", "crucial", "cleaner"}    \* the threads that handle events
Threads == Producers \union Handlers
ASSUME ThreadAssumption == Producers \intersect Handlers = {}

VARIABLES
    sent,              \* the kinds of the events so far
    configured,        \* event ids GetEventConfig finds
    notifyEvents,      \* notifyEvents_
    events,            \* events_, the cache of the store
    queue,             \* queue_: batches waiting
    crucialQueue,      \* crucialQueue_: events waiting
    queueUp,           \* whether the queues exist
    taskCount,         \* g_taskCount
    crucialTaskCount,  \* g_crucialTaskCount
    tokenBucket,       \* tokenBucket_
    isStopClearCache,  \* isStopClearCache_
    service,           \* how far OnStart and OnStop have come
    pc,                \* where each thread is
    todo,              \* the events each thread still has to handle
    out,               \* the events each thread has taken from events_ to insert
    store,             \* how often InsertEvent was given each event
    dropped,           \* events given up: unknown id, too many tasks, no queue
    requestBucket,     \* tokenBucket_ of the service
    unspent            \* history: tokens put into it and not kept by a report

caches  == <<notifyEvents, events>>
queues  == <<queue, crucialQueue, queueUp, taskCount, crucialTaskCount>>
results == <<store, dropped>>
control == <<service, isStopClearCache, configured, sent>>
locals  == <<pc, todo, out>>
reports == <<requestBucket, unspent>>
vars    == <<caches, queues, tokenBucket, results, control, locals, reports>>

Numbers == 1..Len(sent)
KindOf(n) == sent[n]
Inserted(s) == [n \in 1..MaxEvents |-> store[n] + IF n \in ToSet(s) THEN 1 ELSE 0]
Goto(t, l) == pc' = [pc EXCEPT ![t] = l]

Init ==
    /\ sent = <<>> /\ configured = Kinds
    /\ notifyEvents = <<>> /\ events = <<>>
    /\ queue = <<>> /\ crucialQueue = <<>> /\ queueUp = FALSE
    /\ taskCount = 0 /\ crucialTaskCount = 0
    /\ tokenBucket = 0
    /\ isStopClearCache = FALSE /\ service = "down"
    /\ pc = [t \in Threads |-> IF t = "cleaner" THEN "off" ELSE "idle"]
    /\ todo = [t \in Threads |-> <<>>] /\ out = [t \in Threads |-> <<>>]
    /\ store = [n \in 1..MaxEvents |-> 0] /\ dropped = {}
    /\ requestBucket = 0 /\ unspent = 0

-----------------------------------------------------------------------------
(* The service: OnStart and OnStop *)

(* The queues exist before a collector of the service is started, and the  *)
(* bucket is filled from then on.                                          *)
InitEventQueue ==
    /\ service = "down" /\ service' = "queues"
    /\ queueUp' = TRUE
    /\ UNCHANGED <<caches, queue, crucialQueue, taskCount, crucialTaskCount, tokenBucket, results,
                   isStopClearCache, configured, sent, locals>>

StartClearEventCache ==
    /\ service = "queues" /\ service' = "up"
    /\ Goto("cleaner", "idle")
    /\ UNCHANGED <<caches, queues, tokenBucket, results, isStopClearCache, configured, sent, todo, out>>

StopClearEventCache ==
    /\ service = "up" /\ service' = "joining"
    /\ isStopClearCache' = TRUE
    /\ UNCHANGED <<caches, queues, tokenBucket, results, configured, sent, locals>>

(* After the join: the destructor of a queue cancels what waits in it; the *)
(* task of the bucket is stopped next.                                     *)
DeInitEventQueue ==
    /\ service = "joining" /\ pc["cleaner"] = "off"
    /\ service' = "stopped"
    /\ queueUp' = FALSE /\ queue' = <<>> /\ crucialQueue' = <<>>
    /\ dropped' = dropped \union ToSet(crucialQueue) \union UNION {ToSet(batch) : batch \in ToSet(queue)}
    /\ UNCHANGED <<caches, taskCount, crucialTaskCount, tokenBucket, store,
                   isStopClearCache, configured, sent, locals>>

(* One round of the thread that fills the bucket. *)
FillBucket ==
    /\ queueUp
    /\ tokenBucket < TokenMax
    /\ tokenBucket' = tokenBucket + TokenStep
    /\ UNCHANGED <<caches, queues, results, control, locals>>

(* A new event configuration no longer has the id. *)
ForgetConfig(k) ==
    /\ configured' = configured \ {k}
    /\ k \in configured
    /\ UNCHANGED <<caches, queues, tokenBucket, results, service, isStopClearCache, sent, locals>>

-----------------------------------------------------------------------------
(* Producers *)

(* A batched event joins notifyEvents_, and the one that fills the batch   *)
(* carries it away.                                                        *)
UploadBatched(p, k) ==
    /\ k \in Batched
    /\ LET n == Len(sent) + 1
           full == Len(notifyEvents) + 1 >= NotifyBatch
       IN /\ notifyEvents' = IF full THEN <<>> ELSE Append(notifyEvents, n)
          /\ todo' = [todo EXCEPT ![p] = IF full THEN Append(notifyEvents, n) ELSE <<>>]
          /\ Goto(p, IF full THEN "batch" ELSE "idle")
    /\ UNCHANGED <<events, queues, tokenBucket, results, service, isStopClearCache, configured, out>>

UploadUrgent(p, k) ==
    /\ k \notin Batched
    /\ IF crucialTaskCount > MaxTasks
       THEN /\ dropped' = dropped \union {Len(sent) + 1}
            /\ Goto(p, "idle")
            /\ UNCHANGED todo
       ELSE /\ todo' = [todo EXCEPT ![p] = <<Len(sent) + 1>>]
            /\ Goto(p, "urgent")
            /\ UNCHANGED dropped
    /\ UNCHANGED <<caches, queues, tokenBucket, store, service, isStopClearCache,
                   configured, out>>

(* UploadEvent refuses content that is no JSON, and an unknown id; the     *)
(* event then counts as never sent.                                        *)
UploadEvent(p, k) ==
    /\ sent' = Append(sent, k)
    /\ UploadBatched(p, k) \/ UploadUrgent(p, k)

CheckRiskContent(k) == k \notin Malformed
Accepted(k) == CheckRiskContent(k) /\ k \in configured

Reporting == {p \in Producers : pc[p] \in {"request", "giveBack", "upload"}}
Room == Len(sent) + Cardinality(Reporting) < MaxEvents

(* A collector calls.                                                      *)
OnNotify(p, k) ==
    /\ service # "down" /\ pc[p] = "idle" /\ Room
    /\ Accepted(k)
    /\ UploadEvent(p, k)
    /\ UNCHANGED reports

(* An application reports, with reply or one-way; without the service, or  *)
(* without permission, nothing happens.                                    *)
ReportSecurityEvent(p) ==
    /\ service # "down" /\ pc[p] = "idle" /\ Room
    /\ Goto(p, "request")
    /\ UNCHANGED <<caches, queues, tokenBucket, results, control, todo, out, reports>>

(* The token is taken before the bucket is known to have one.              *)
TakeRequestToken(p) ==
    /\ pc[p] = "request"
    /\ requestBucket' = requestBucket - 1
    /\ Goto(p, IF requestBucket <= 0 THEN "giveBack" ELSE "upload")
    /\ UNCHANGED <<caches, queues, tokenBucket, results, control, todo, out, unspent>>

GiveBackToken(p) ==
    /\ pc[p] = "giveBack"
    /\ requestBucket' = requestBucket + 1
    /\ Goto(p, "idle")
    /\ UNCHANGED <<caches, queues, tokenBucket, results, control, todo, out, unspent>>

(* A report that UploadEvent refuses keeps its token.  What it reports     *)
(* matters only now.                                                       *)
RequestDataSubmit(p) ==
    /\ pc[p] = "upload"
    /\ unspent' = unspent - 1
    /\ \E k \in Reported :
         IF Accepted(k) THEN UploadEvent(p, k)
         ELSE /\ Goto(p, "idle")
              /\ UNCHANGED <<caches, queues, tokenBucket, results, control, todo, out>>
    /\ UNCHANGED requestBucket

(* One round of the thread that fills this bucket, which OnStart starts    *)
(* last and OnStop ends first.                                             *)
FillRequestBucket ==
    /\ service = "up"
    /\ requestBucket < RequestMax
    /\ requestBucket' = requestBucket + RequestStep
    /\ unspent' = unspent + RequestStep
    /\ UNCHANGED <<caches, queues, tokenBucket, results, control, locals>>

(* BatchUploadEvent: a full batch is thrown away when too many tasks wait. *)
TestTaskCount(p) ==
    /\ pc[p] = "batch"
    /\ IF taskCount > MaxTasks
       THEN /\ dropped' = dropped \union ToSet(todo[p])
            /\ todo' = [todo EXCEPT ![p] = <<>>]
            /\ Goto(p, "idle")
       ELSE /\ Goto(p, "submit")
            /\ UNCHANGED <<dropped, todo>>
    /\ UNCHANGED <<caches, queues, tokenBucket, store, control, out>>

(* Under queueMutex_. *)
SubmitBatch(p) ==
    /\ pc[p] = "submit"
    /\ todo' = [todo EXCEPT ![p] = <<>>]
    /\ IF queueUp
       THEN /\ queue' = Append(queue, todo[p])
            /\ Goto(p, "count")
            /\ UNCHANGED dropped
       ELSE /\ dropped' = dropped \union ToSet(todo[p])
            /\ Goto(p, "idle")
            /\ UNCHANGED queue
    /\ UNCHANGED <<caches, crucialQueue, queueUp, taskCount, crucialTaskCount, tokenBucket, store,
                   control, out>>

(* The task may have ended by now: the counter has then gone below zero. *)
CountTask(p) ==
    /\ pc[p] = "count"
    /\ taskCount' = (taskCount + 1) % Modulus
    /\ Goto(p, "idle")
    /\ UNCHANGED <<caches, queue, crucialQueue, queueUp, crucialTaskCount, tokenBucket, results,
                   control, todo, out>>

(* UploadEventImmediately, after its test of the counter. *)
CountCrucialTask(p) ==
    /\ pc[p] = "urgent"
    /\ crucialTaskCount' = (crucialTaskCount + 1) % Modulus
    /\ Goto(p, "submitUrgent")
    /\ UNCHANGED <<caches, queue, crucialQueue, queueUp, taskCount, tokenBucket, results, control,
                   todo, out>>

SubmitCrucial(p) ==
    /\ pc[p] = "submitUrgent"
    /\ todo' = [todo EXCEPT ![p] = <<>>]
    /\ Goto(p, "idle")
    /\ IF queueUp
       THEN /\ crucialQueue' = Append(crucialQueue, todo[p][1])
            /\ UNCHANGED <<crucialTaskCount, dropped>>
       ELSE /\ crucialTaskCount' = (crucialTaskCount - 1) % Modulus
            /\ dropped' = dropped \union {todo[p][1]}
            /\ UNCHANGED crucialQueue
    /\ UNCHANGED <<caches, queue, queueUp, taskCount, tokenBucket, store, control, out>>

-----------------------------------------------------------------------------
(* The threads that handle events *)

TakeBatch ==
    /\ pc["queue"] = "idle" /\ queue # <<>>
    /\ queue' = Tail(queue)
    /\ todo' = [todo EXCEPT !["queue"] = Head(queue)]
    /\ Goto("queue", "task")
    /\ UNCHANGED <<caches, crucialQueue, queueUp, taskCount, crucialTaskCount, tokenBucket, results,
                   control, out>>

TakeCrucial ==
    /\ pc["crucial"] = "idle" /\ crucialQueue # <<>>
    /\ crucialQueue' = Tail(crucialQueue)
    /\ todo' = [todo EXCEPT !["crucial"] = <<Head(crucialQueue)>>]
    /\ Goto("crucial", "task")
    /\ UNCHANGED <<caches, queue, queueUp, taskCount, crucialTaskCount, tokenBucket, results, control,
                   out>>

(* ClearEventCache swaps the two caches in two critical sections. *)
SwapEvents ==
    /\ pc["cleaner"] = "idle"
    /\ events' = <<>>
    /\ out' = [out EXCEPT !["cleaner"] = events]
    /\ Goto("cleaner", "flush")
    /\ UNCHANGED <<notifyEvents, queues, tokenBucket, results, control, todo>>

InsertFlushed ==
    /\ pc["cleaner"] = "flush"
    /\ store' = Inserted(out["cleaner"])
    /\ out' = [out EXCEPT !["cleaner"] = <<>>]
    /\ Goto("cleaner", "swap")
    /\ UNCHANGED <<caches, queues, tokenBucket, dropped, control, todo>>

SwapNotifyEvents ==
    /\ pc["cleaner"] = "swap"
    /\ notifyEvents' = <<>>
    /\ todo' = [todo EXCEPT !["cleaner"] = notifyEvents]
    /\ Goto("cleaner", "task")
    /\ UNCHANGED <<events, queues, tokenBucket, results, control, out>>

(* Mutant: the flush counts itself as a task of the queue. *)
TaskDone_CountsFlush(t) ==
    /\ pc[t] = "task" /\ todo[t] = <<>>
    /\ Goto(t, IF t = "cleaner" /\ isStopClearCache THEN "off" ELSE "idle")
    /\ taskCount' = IF t # "crucial" THEN (taskCount - 1) % Modulus ELSE taskCount
    /\ crucialTaskCount' = IF t = "crucial" THEN (crucialTaskCount - 1) % Modulus
                                            ELSE crucialTaskCount
    /\ UNCHANGED <<caches, queue, crucialQueue, queueUp, tokenBucket, results, control, todo, out>>

(* Mutant: the flush runs once. *)
TaskDone_OneRound(t) ==
    /\ pc[t] = "task" /\ todo[t] = <<>>
    /\ Goto(t, IF t = "cleaner" THEN "off" ELSE "idle")
    /\ taskCount' = IF t = "queue" THEN (taskCount - 1) % Modulus ELSE taskCount
    /\ crucialTaskCount' = IF t = "crucial" THEN (crucialTaskCount - 1) % Modulus
                                            ELSE crucialTaskCount
    /\ UNCHANGED <<caches, queue, crucialQueue, queueUp, tokenBucket, results, control, todo, out>>

(* The end of a task of a queue, or of a round of the flush. *)
TaskDone(t) ==
    /\ pc[t] = "task" /\ todo[t] = <<>>
    /\ Goto(t, IF t = "cleaner" /\ isStopClearCache THEN "off" ELSE "idle")
    /\ taskCount' = IF t = "queue" THEN (taskCount - 1) % Modulus ELSE taskCount
    /\ crucialTaskCount' = IF t = "crucial" THEN (crucialTaskCount - 1) % Modulus
                                            ELSE crucialTaskCount
    /\ UNCHANGED <<caches, queue, crucialQueue, queueUp, tokenBucket, results, control, todo, out>>

(* Mutant: the full cache is copied, not swapped. *)
UploadEventTask_KeepsCache(t) ==
    /\ pc[t] = "task" /\ todo[t] # <<>>
    /\ LET n == Head(todo[t])
           cached == Append(events, n)
       IN IF KindOf(n) \notin configured
          THEN /\ dropped' = dropped \union {n}
               /\ todo' = [todo EXCEPT ![t] = Tail(@)]
               /\ UNCHANGED <<events, out, pc>>
          ELSE /\ IF Len(cached) < StoreBatch
                  THEN events' = cached /\ out' = out /\ Goto(t, "publish")
                  ELSE events' = cached /\ out' = [out EXCEPT ![t] = cached] /\ Goto(t, "insert")
               /\ UNCHANGED <<dropped, todo>>
    /\ UNCHANGED <<notifyEvents, queues, tokenBucket, store, control>>

(* UploadEventTask and UploadEventToStore: the event that fills the cache  *)
(* takes all of it along, to insert it without the lock.                   *)
UploadEventTask(t) ==
    /\ pc[t] = "task" /\ todo[t] # <<>>
    /\ LET n == Head(todo[t])
           cached == Append(events, n)
       IN IF KindOf(n) \notin configured
          THEN /\ dropped' = dropped \union {n}
               /\ todo' = [todo EXCEPT ![t] = Tail(@)]
               /\ UNCHANGED <<events, out, pc>>
          ELSE /\ IF Len(cached) < StoreBatch
                  THEN events' = cached /\ out' = out /\ Goto(t, "publish")
                  ELSE events' = <<>> /\ out' = [out EXCEPT ![t] = cached] /\ Goto(t, "insert")
               /\ UNCHANGED <<dropped, todo>>
    /\ UNCHANGED <<notifyEvents, queues, tokenBucket, store, control>>

InsertEvent(t) ==
    /\ pc[t] = "insert"
    /\ store' = Inserted(out[t])
    /\ out' = [out EXCEPT ![t] = <<>>]
    /\ Goto(t, "publish")
    /\ UNCHANGED <<caches, queues, tokenBucket, dropped, control, todo>>

Next1(t) == todo' = [todo EXCEPT ![t] = Tail(@)] /\ Goto(t, "task")

(* Mutant: the bucket is not tested. *)
TestBucket_Unlimited(t, uids, heard) ==
    LET n == Head(todo[t])
        isFile == KindOf(n) \in FileKinds
    IN /\ pc[t] = "publish"
       /\ IF KindOf(n) \notin configured
          THEN Next1(t)
          ELSE IF heard /\ uids /\ isFile
               THEN Goto(t, "spend") /\ UNCHANGED todo
               ELSE Next1(t)
       /\ UNCHANGED <<caches, queues, tokenBucket, results, control, out>>

(* PublishEventToSub up to the notification: uids says whether the filter  *)
(* plugin knows the subscribers, heard whether a session takes the event.  *)
TestBucket(t, uids, heard) ==
    LET n == Head(todo[t])
        isFile == KindOf(n) \in FileKinds
    IN /\ pc[t] = "publish"
       /\ IF KindOf(n) \notin configured \/ (uids /\ isFile /\ tokenBucket <= 0)
          THEN Next1(t)
          ELSE IF heard /\ uids /\ isFile
               THEN Goto(t, "spend") /\ UNCHANGED todo
               ELSE Next1(t)
       /\ UNCHANGED <<caches, queues, tokenBucket, results, control, out>>

SpendToken(t) ==
    /\ pc[t] = "spend"
    /\ tokenBucket' = tokenBucket - 1
    /\ Next1(t)
    /\ UNCHANGED <<caches, queues, results, control, out>>

-----------------------------------------------------------------------------
Produce(p) == /\ \/ TestTaskCount(p) \/ SubmitBatch(p) \/ CountTask(p) \/ CountCrucialTask(p)
                 \/ SubmitCrucial(p)
              /\ UNCHANGED reports
Report(p) == TakeRequestToken(p) \/ GiveBackToken(p) \/ RequestDataSubmit(p)
Handle(t) == /\ \/ UploadEventTask(t) \/ InsertEvent(t) \/ SpendToken(t) \/ TaskDone(t)
                \/ \E uids, heard \in BOOLEAN : TestBucket(t, uids, heard)
             /\ UNCHANGED reports
Take == (TakeBatch \/ TakeCrucial) /\ UNCHANGED reports
Flush == (SwapEvents \/ InsertFlushed \/ SwapNotifyEvents) /\ UNCHANGED reports
Start == (InitEventQueue \/ StartClearEventCache) /\ UNCHANGED reports
Stop == (StopClearEventCache \/ DeInitEventQueue) /\ UNCHANGED reports

Next ==
    \/ Start \/ Stop \/ Take \/ Flush \/ FillRequestBucket
    \/ FillBucket /\ UNCHANGED reports
    \/ \E k \in Forgettable : ForgetConfig(k) /\ UNCHANGED reports
    \/ \E p \in Producers : Produce(p) \/ ReportSecurityEvent(p) \/ Report(p)
    \/ \E p \in Producers, k \in Kinds : OnNotify(p, k)
    \/ \E t \in Handlers : Handle(t)

Spec == Init /\ [][Next]_vars
(* Threads run; the service gets through OnStart; nothing makes events     *)
(* come, configurations change or the service stop.                        *)
FairSpec ==
    /\ Spec /\ WF_vars(Start) /\ WF_vars(TakeBatch /\ UNCHANGED reports)
         /\ WF_vars(TakeCrucial /\ UNCHANGED reports) /\ WF_vars(Flush)
    /\ \A p \in Producers : WF_vars(Produce(p)) /\ WF_vars(Report(p))
    /\ \A t \in Handlers : WF_vars(Handle(t))
-----------------------------------------------------------------------------
(* Properties *)

InTask(t) == pc[t] \in {"insert", "publish", "spend"}
(* What t has not yet passed to the cache of the store. *)
Unstored(t) == IF InTask(t) THEN Tail(todo[t]) ELSE todo[t]
(* The places where events are on their way, and the list in each of them. *)
Holders == ({"notifyEvents", "events", "crucialQueue"} \X {0}) \union ({"queue"} \X DOMAIN queue)
             \union ({"todo", "out"} \X Threads)
InFlight == [h \in Holders |-> CASE h[1] = "notifyEvents" -> notifyEvents
                                 [] h[1] = "events" -> events
                                 [] h[1] = "crucialQueue" -> crucialQueue
                                 [] h[1] = "queue" -> queue[h[2]]
                                 [] h[1] = "todo" -> Unstored(h[2])
                                 [] h[1] = "out" -> out[h[2]]]

(* Whatever the threads do with the two caches and the two queues, an      *)
(* event that was accepted is in one place on its way to the store, or was *)
(* given up: none is lost in a swap and none is inserted twice.            *)
NothingLost ==
    LET list == InFlight
        places == UNION {{h} \X DOMAIN list[h] : h \in Holders}
        event(at) == list[at[1]][at[2]]
        onTheWay == {event(at) : at \in places}
    IN /\ \A here, there \in places : event(here) = event(there) => here = there
       /\ \A n \in 1..MaxEvents :
            IF n \in onTheWay \union dropped THEN store[n] = 0
                                             ELSE store[n] = IF n \in Numbers THEN 1 ELSE 0
       /\ onTheWay \intersect dropped = {}

Running(t) == IF pc[t] = "idle" THEN 0 ELSE 1
At(l) == Cardinality({p \in Producers : pc[p] = l})

(* The counters that the limits test say how many tasks there are, but for *)
(* the batches submitted and not yet counted, which make g_taskCount wrap. *)
CountersExact == queueUp =>
    /\ taskCount = (Len(queue) + Running("queue") - At("count")) % Modulus
    /\ crucialTaskCount = Len(crucialQueue) + Running("crucial") + At("submitUrgent")

(* The bucket is tested at one point and spent at another by three threads *)
(* at once: it goes below zero, by no more than the other two can spend.   *)
(* That of the reports goes below zero too, by the tokens still to be      *)
(* given back, and however they overlap no more reports are let through    *)
(* than tokens were put in.                                                *)
BucketFloor ==
    /\ tokenBucket >= 1 - Cardinality(Handlers)
    /\ requestBucket >= -Cardinality({p \in Producers : pc[p] = "giveBack"})
    /\ Cardinality({p \in Producers : pc[p] = "upload"}) <= unspent

Settled(n) == store[n] > 0 \/ n \in dropped

(* While the service is up, every event accepted is in the end inserted or *)
(* given up, the last of an unfinished batch included: as MaxEvents bounds *)
(* the events, there is a time when none is on its way.                    *)
EventSettles == []<>((\A n \in Numbers : Settled(n)) \/ service \notin {"queues", "up"})
=============================================================================
